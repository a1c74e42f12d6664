# libnetworkd: a TLA+ development

libnetworkd is a small C++ library for single-threaded network daemons: a
poll() loop, stream sockets with buffered output, timeouts, name resolution, a
SOCKS5 client, an event bus, loadable modules and a configuration parser.
Everything runs on one thread. What makes it hard is re-entrance: the library
calls the program back in the middle of its own work, the program calls the
library from there, and objects delete themselves.

Paths below are relative to the repository: `T` is `src/src/TcpSocket.cpp`,
`IO` is `src/src/IOManager.cpp`, `TO` is `src/src/TimeoutManager.cpp`, `EM` is
`src/src/EventManager.cpp`, `UD` is `src/src/UdnsResolvingFacility.cpp`, `PX` is
`src/src/ProxiedTcpSocket.cpp`, `PN` is `src/src/ProxiedNetworkManager.cpp`, `MM` is
`src/src/ModuleManager.cpp`, `CF` is `src/src/Configuration.cpp`, and `CY`, `CL` and `CC` are
`ConfigParser.y` and the scanner and parser generated beside it, `.lex.cpp` and `.yacc.cpp`.

## Running it

    tlc -workers 4 -config TcpSocket.cfg MCTcpSocket.tla
    tlapm TcpSocketProofs.tla        (and each other *Proofs module)

Each row of "Runs" names a `.cfg`; it belongs to the `MC` module of its component,
or to the component's own module where there is none. `PROJECT.json` maps every
definition that models code to its lines, and lists for every checked property
a mutated definition (the `Mutant:` operators in the modules) that breaks it.

## Inventory

| component | state | operations | calls, and is called by |
|---|---|---|---|
| **TcpSocket** | `m_state`, `m_ioSocketState`, `m_outputBuffer`, `m_socket` | connect, accept (constructor), send, close, pollRead, pollWrite, pollError, destructor | its IOManager; its NetworkEndpoint and, if accepted, the factory; called by the IOManager and the endpoint |
| **IOManager** | `m_socketList` of (socket, descriptor), `m_iterator` | addSocket, removeSocket, setFileDescriptor, waitForEventsAndProcess | calls every socket's poll handlers, which call it back |
| **TimeoutManager** | a multiset of pointers ordered by second, `m_iterator` | scheduleTimeout, dropTimeout, dropReceiver, fireTimeouts, deltaNext | calls the receivers, which call it back |
| **NetworkManager** | its list base (it is an IOManager) | connectStream, serverStream, connectUnix, serverUnix, closeStream, the datagram stubs | creates sockets |
| **UnixSocket** | as TcpSocket | its own constructors, connect, bind, and accept | as TcpSocket |
| **UdpSocket** | a map of endpoints | almost all of it an empty stub | |
| **Udns- and PosixResolvingFacility** | `m_pendingResolutions`, `m_timeout`, the resolver's queries | resolveName, cancelResolutions, pollRead, timeoutFired | IOManager, TimeoutManager, udns; its NameResolver, which calls it back |
| **EventManager** | subscriptions by mask, subscriptions by parent | (un)subscribeEventMask, (un)subscribeParent, unsubscribeAll, fireEvent | calls the subscribers, which call it back |
| **Event** | named attributes, a uid and a parent | get, set, serialisation | |
| **ModuleManager** | `m_modules`, `m_idCounter` | loadModule, unloadModule, unloadAll | dlopen, the module's start and stop, Configuration |
| **Configuration, ConfigParser** | a tree of nodes; the grammar's globals | parseFile, path lookups | bison and flex code |
| **ProxiedNetworkManager** | the proxy sets, the current one, a cursor per set | addProxy, clearProxies, activateSet, getNextProxy, connectStream | creates ProxiedTcpSockets |
| **ProxiedTcpSocket** | `m_proxyStatus`, `m_buffer`, two endpoints | the SOCKS5 handshake, as its own endpoint | TcpSocket, and the final endpoint after the handshake |
| **LogManager** | a list of facilities | logMessage | |

Which behaviours are hard, and what has to be true of them:

* **TcpSocket.** Two state variables (`m_state` for the code, `m_ioSocketState`
  for poll()) that must agree; a partial write that must leave exactly the rest;
  EWOULDBLOCK in one place and not in another; a FIN, a reset and a failed
  connect that look alike; six ways to end, each with an order of its own; a
  POLLOUT that another call may have made stale. It must be true that bytes
  reach the wire in order and none is forgotten, that no output waits for an
  event nobody asked for, that the endpoint hears a sensible story with one
  outcome at its end, and that a broken connection is noticed.
* **IOManager.** Handlers add, remove and move list entries under the loop's
  iterator; a pass works through a poll() result that grows stale as it goes.
  It must be true that the iterator never leaves the list, that the list holds
  what exists, that an event reaches the socket it was reported for, and that a
  skipped socket is served in the end.
* **TimeoutManager.** Callbacks schedule and drop while the pass stands in the
  multiset, whose order depends on memory the pass frees. It must be true that
  no timeout is lost, leaked, fired early, twice, after its drop or out of order.
* **UdnsResolvingFacility.** Resolvers resolve and cancel inside `nameResolved`,
  which libudns calls from inside the facility's own calls, and one timeout has
  to follow what libudns wants next. It must be true that queries, entries and
  requests agree, that a cancelled resolver is not called, that every request
  ends, and that a deleted facility is not called.
* **EventManager.** Masks with wildcards exclude each other, in whatever order
  they come, and subscribers change the list under fireEvent. It must be true
  that an exclusive name is exclusive, that an event reaches whoever is
  subscribed, and nobody twice.
* **ProxiedTcpSocket.** A binary negotiation over a stream that may be cut
  anywhere, by a socket that is its own endpoint. It must be true that the
  program's endpoint hears of a connection only when the proxy made one, gets
  its data whole, and that the negotiation ends.
* **ProxiedNetworkManager.** A cursor into each of several lists that grow, are
  cleared and take turns to be active. It must be true that a cursor never points
  outside its list and that proxies take turns.
* **ConfigParser, Configuration.** One scanner buffer, one start condition and one
  set of global variables serve all files, and bison looks ahead. It must be true
  that the parser accepts the grammar, that every parse reads its own file, that
  the tree says what the file says, that it belongs to one configuration, and
  that values are found in it.
* **ModuleManager.** Failure in the middle, where what was done so far has to be
  undone, and modules whose start() and stop() load and unload others while the
  list is being walked.

`PROJECT.json` lists these hazards one by one, at their lines, with the
properties that would catch each, or the reason why none does.

## Modules

| module | what it is |
|---|---|
| `TcpSocket` | one stream socket, from its creation to `delete this` |
| `Connection` | abstract: what a stream socket promises its user |
| `TcpSocketProofs` | theorems about `TcpSocket` for all constants |
| `IOManager` | the socket list and the pass over it |
| `EventDelivery` | abstract: what the loop promises the sockets |
| `IOManagerProofs` | theorems about `IOManager`, and that it implements `EventDelivery` |
| `TimeoutManager` | the multiset of timeouts and fireTimeouts |
| `TimeoutManagerProofs` | theorems about `TimeoutManager` when at most one callback of a pass uses it |
| `NameResolution` | the udns facility between program, libudns and TimeoutManager |
| `NameResolutionProofs` | theorems about `NameResolution` for all constants |
| `EventManager` | subscriptions and fireEvent |
| `EventManagerProofs` | theorems about `EventManager` for all constants |
| `ProxiedTcpSocket` | the SOCKS5 negotiation |
| `ProxiedNetworkManager` | the proxy pool and connectStream, composed with `ProxiedTcpSocket` |
| `ProxyProofs` | theorems about the pool and the negotiation for all constants |
| `ConfigLexer` | the generated scanner: buffer, end of file, start conditions |
| `ConfigGrammar` | abstract: the language of the productions |
| `ConfigParser` | the generated parser, its tables, and the grammar's actions |
| `Configuration` | configuration objects, their trees and lookups |
| `ConfigurationProofs` | theorems about the parser, its tables, its scanner and the trees, whatever the files hold |
| `ModuleManager` | loadModule, unloadModule, unloadAll, composed with the four modules about configurations |
| `ModuleManagerProofs` | theorems about `ModuleManager`, whatever the files hold |
| `MCTcpSocket`, `MCIOManager`, `MCTimeoutManager`, `MCNameResolution`, `MCEventManager`, `MCModuleManager` | instances for TLC |

### TcpSocket

One action is one call of a member function, or one branch of it. A callback is
the last thing such a call does (except in branches that end in `delete this`),
so whatever the endpoint does in a callback is the next action; every order of
calls an endpoint can make is covered. Three exceptions are not: an endpoint
that closes its socket inside `connectionEstablished` of an immediate connect
(the caller of `connectStream` then holds a deleted object), a factory that uses
the socket inside `createEndpoint`, and use of the socket inside a final
callback. The first two are planned; the third no program can survive.

* `m_state`, `m_ioSocketState`, `m_outputBuffer`: the members. Bytes are their
  numbers in the order they were passed to `send()`, so order and loss are
  visible.
* `conn`, `room`, `inData`, `nonblock`: the kernel's side, external. The peer
  sends, reads, closes and resets whenever it likes; `MemoryShort` is a send
  buffer that shrinks after poll() promised room, the only way a write after
  POLLOUT meets EWOULDBLOCK.
* `pending`: what poll() returned for the socket and the pass has not dispatched
  yet. It is dispatched in the code's order (error, output, input) and emptied
  when an error handler or a `delete this` ends the socket.
* `caller`, `arg`, `done`: a ::send that sleeps. The accepting constructor never
  sets O_NONBLOCK and Linux does not inherit it, so a send() on an accepted
  connection can stop the thread; nothing of the program runs meanwhile.
  `Signals` says whether such a sleep may be interrupted.
* `calls`, `ended`, `wire`, `offered`, `dropped`, `faults`: history.

A UnixSocket is the same class but for its constructors, connect and accept. Two
of its outcomes are none of TcpSocket's: `UnixFails`, where connectUnix deletes the
socket that close(true) has deleted, and `UnixRejected`, where the accepting
constructor calls connectionEstablished through the null pointer createEndpoint
returned. Its other paths are `ConnectAtOnce` and `Accept`; EINPROGRESS does not
happen for AF_UNIX.

`Connection` is the promise: an attempt is resolved, offered bytes are sent in
order while open or being flushed, `closing` ends with everything sent or with a
loss, an ended connection stays ended. `Abstract` maps to it, and `AbstractSafe`
is checked by TLC and proved.

### IOManager

The list is a sequence of (socket, descriptor) and the iterator a position in
it, with 0 for end(). One step of the pass is one of its lines 115-137: compare,
error handler, output handler, input handler, advance. While a handler runs
(`pc = "handler"`) it may open sockets (push_back), close any socket including
its own (erase, and the iterator moves on when it stood there), move a socket to
another descriptor, or change its poll state. Descriptor numbers are allotted
lowest first, as in the kernel.

Two switches separate what holds from what does not. `Reuses` lets a number that
was closed in this pass be given out again in the same pass; `EndIgnored` is what
the read through an `end()` iterator in line 118 may yield.

`EventDelivery` is the promise: a handler runs only for a registered socket and
an event that poll() reported for that very socket, at most once per report,
errors before output before input. `Due` is the refinement mapping: the reports
of the positions of `pollfds` not yet passed.

### TimeoutManager

The multiset is the sequence of its nodes' pointers in tree order. A search
compares the pointed-to seconds. fireTimeouts deletes a timeout when its callback
returned but erases its node only when the pass is over, so in between the tree
holds nodes whose key is whatever free() and later allocations left there
(`Freed`). A search then ends at any place whose two neighbours agree with it;
which one depends on the shape of the tree, and the model allows all.

`ticket` is history: what became of each timeout ever scheduled. `ub` records
the undefined behaviour that ends a run.

`Callbacks` says which callbacks of a pass use the manager. With `"first"`, only
the first callback does, when nothing has been freed yet: everything holds. With
`"any"` a later one does, and it does not: see Findings.

### NameResolution

`frames` is the stack of calls: the facility's `resolveName`, `timeoutFired` and
`pollRead` while they are inside libudns, and above them the `nameResolved` of
the resolvers libudns calls back, which may call the facility again. An entry is
named by its request, so `m_pendingResolutions`, `entries` (what is allocated)
and `active` (queries of libudns) are sets of requests that should agree.

libudns is external. It may end any active query whenever one of the facility's
three calls is inside it, and `dns_timeouts` asks for another call as long as a
query is left. Of the TimeoutManager the facility's own timeouts are kept, by
address; an address is free again when the timeout was dropped or its callback
returned. That the one being fired is not dropped is what `dropTimeout` does
(TO:61). The facility is only deleted from outside of its calls: one that is
deleted in a callback is used after it in any case.

### EventManager

The list only grows at its end and subscriptions are numbered, so the list is a
set and an iterator a number. `frames` is the stack of nested fireEvent calls;
each stands at a node while the node's subscriber runs, and the subscriber does
whatever the program may do. Advancing from a node that was erased meanwhile is
undefined; `ub` records it and the run ends there. Masks and names are
character sequences, because whether two masks exclude each other is decided
character by character (`nameLikeMask`).

### ProxiedTcpSocket

Of the TcpSocket below only what it tells its endpoint is kept: the connection
is established, bytes arrive in order in chunks of any size, and it can end at
any time. The proxy is external: it answers each request well or badly, may send
junk before it has granted the connection, and data after. `Answers` has the
bytes the code looks at. The answer to the connect request is assumed to have
`ConnLen` bytes, always: the code takes the address in it for an IPv4 address (PX:43 and
264) and never looks at `addressType` (PX:52). RFC 1928 allows others, which
are longer, and their last bytes would reach the endpoint as data; `DataIsWhole`
holds for proxies that answer with an IPv4 address.

A failed negotiation always ends in undefined behaviour: `close(true)` calls
`connectionClosed` of the socket itself, which tells the program's endpoint and
deletes the socket, whose destructor calls close() again while the outer one
still runs (PX:338, T:249). `ub` records it, and the model says nothing of what
follows. The same happens to an endpoint that closes the socket in
`connectionEstablished` or in the `dataRead` of pivotEndpoints.

`cut` records that a part of the answer to user and password arrived and was
thrown away (PX:258 frees the buffer in every case, unlike the two other
answers): the negotiation then waits for ever. `NegotiationEnds` exempts it, and
proxies that speak out of turn.

### ProxiedNetworkManager

`m_proxyPool` maps the sets that exist to their length and cursor. A list only
grows until it is cleared, so a proxy is its position in it. The cursor of a new
set comes from `ProxySet::operator=`, the only place that sets it; a set that
operator[] makes on the way (`usesProxies`, which reads `m_proxyPool[m_currentSet]`)
has one that nobody set (`Singular`). `connectStream` connects directly when the
active set is empty, and takes the next proxy otherwise; the socket it makes is
then either the one followed in `ProxiedTcpSocket`, which keeps its own copy of
the proxy's address, or another one, not followed. The return value that
ProxiedTcpSocket::connect does not give (PX:136) may be read as either: see
`ConnectTakenForFailed` and `ConnectTakenForMade`.

### ConfigLexer, ConfigGrammar, ConfigParser

`ConfigParser.y` and `ConfigParser.l` are also in the repository as what bison and
flex made of them, and that is what runs, so that is what is modelled.

`ConfigLexer` has the scanner's buffer (the file its contents came from, its
status), the start condition and `yyin`. What a file holds is chosen lexeme by
lexeme while it is scanned, and the file ends wherever it likes: a lexeme that
the scanner extends as far as it can may be the last of its file, in which case
the scanner has met the end before the parser asks for it (`EOF_PENDING`). One thing
is left out: after a parse that failed, the last lexeme of the old file's rest
could be continued by the first characters of the next (CL:1044-1051), where the
model has two lexemes. Lexemes are
named by their position, so strings are told apart and nothing else about them
matters; two keys of one name, of which a lookup finds the first, do not occur.

`ConfigParser` is yyparse(): the tables are those of CC, and one action is one
lexeme, shift, reduction or end. The grammar has no error productions, so an
error unwinds everything (`NoRecovery`, an assumption on the tables that TLC
evaluates). The actions of the grammar build the tree in `nodes` through
`rootSection`, `currentSection` and `currentValue`, the three globals of CY:22-24.

`ConfigGrammar` is the specification the parser is compared with: the productions
as they are written, and the set of sentential forms that may still follow what
was read.

### Configuration

Every Configuration made and every node freed is kept, so that sharing and use
after delete are visible. `traversePath` and the lookups are operators; a path is
a sequence with 0 for the colon. Lookups are assumed to be made only in a configuration
that has a tree: without one traversePath reads through a null `m_rootNode` (CF:64).

### ModuleManager

`frames` is the stack of loads and unloads under way. A load passes through the
parse of its file, the module's init function and its start(); a module has
control in its init function, in start() and in stop(), and does there whatever
the program may do. `mapped` is what dlopen counts for each library. Three things
are assumed of the program: it does not ask to unload a module whose stop() is
running, and does not call unloadAll from a stop(), since both would erase a list
node the outer call stands on; and the destructor of a module (MM:97) does not call
the manager.

## Runs

| run | states | question |
|---|---|---|
| `TcpSocket` | 15 101 | the byte stream, poll mask, endpoint's story, assertion, causes of a loss, and the refinement of `Connection`; connects are resolved, a gone peer is noticed, buffered output is written and a graceful close ends if the peer reads |
| `IOManager` | 718 k | iterator, list and delivery with three sockets and handlers that open, move and close sockets; a ready socket is served in the end, although a pass can skip it |
| `TimeoutManager` | 802 k | nothing lost, leaked, early, late, out of order or undefined; every timeout ends |
| `NameResolution` | 20.1 k | queries, entries and requests agree; cancelled resolvers stay quiet; every request ends |
| `EventManagerSafety` | 678 k | exclusive names, one mask per name and subscriber, nobody skipped |
| `ProxiedNetwork` | 949 k | cursors stay valid, proxies take turns; established when granted, data whole, and the negotiation ends |
| `Modules` | 1.22 M | the parser accepts the grammar, each file is read by its own parse, trees say what files say, stay alive and are searched correctly; failed loads are undone, loaded modules are whole, and unloadAll passes over nobody |
| `TcpSocketClosesOnce`, `IOManagerReused`, `TimeoutManagerLost`, `NameResolutionDelete`, `ModulesUnloading` | | violated: see Findings |

`EndpointProtocol` covers the assertion T:321 as well: input dispatched to a
socket that is still connecting would show as data before the connection.
`Served` is checked of one socket, the sockets being interchangeable; it implies
that every pass ends, and `EveryRequestEnds` that a timeout is
scheduled whenever libudns has a query left; neither is a property of its own.
Types are part of the invariants `RegisteredAreAlive`, `NoneLostNorLeaked`,
`OneAccount` and `DataIsWhole`. `EventManagerSafety` does not check for deadlock,
since the program may have used up its subscriptions, or reached `ub`.

### Bounds, and why they are enough

* TcpSocket: four bytes, at most three in one send(), a kernel buffer of two. A
  send then goes out whole, in part or not at all; a buffered rest is written in
  one or more pieces; a second send queues behind a first. Two input chunks give
  a read that leaves POLLIN true. The proofs remove all of these bounds for the
  safety properties.
* IOManager: three sockets give a handler that removes itself, one before, and
  one after it in the list, and adds one; a socket moves to a descriptor that is
  free. Two events ready at a time (`MaxReady`) give one that is handled and one
  that is skipped. The run takes the read through end() not to say IGNORE, and
  moves sockets in handlers only. Where that read says IGNORE all of them are
  skipped, always, which is not for `Served` to say; for the two safety properties the
  theorems remove both restrictions and all bounds.
* TimeoutManager: three timeouts give one fired before, one standing under, and
  one still ahead of the iterator, with equal and different seconds. A third
  address lets the allocator reuse one and not another. `MaxUInt = 255` stands
  for 2^32 - 1: only the wrap at it matters. A freed second reads as the smallest
  or as the largest value (`Extremes`): whatever it is compared with, one goes each way.
* NameResolution: three requests give one that is answered, one that is made in
  its callback, and one still waiting beside them; two resolvers give one whose
  cancelling must not touch the other's.
* EventManager: two names, one a prefix of the other, and masks that like one,
  both or all; three subscriptions give one to erase before, at and behind the
  iterator; two nested events. `Exclusives` are literal masks, as line EM:58
  wants it. The theorems remove all other bounds.
* ProxiedNetworkManager: three proxies give one behind the cursor, one under it and
  one ahead; two sets, the one into which every proxy goes and one other, so that a
  set is active while another grows. The pool is followed until the followed
  socket is created; nothing that happens to it later concerns that socket.
* Modules: ten lexemes in all files together give a list of two values, a section
  in a section, or two short files one after the other. A stack that starts at 4
  and ends at 9 stands for 200 and 10 000 (CC:810, 821): it is doubled, cut to its
  maximum and exhausted within ten lexemes. Three loads, of which the first two may
  have files; when the files were longer than four lexemes there are no more
  calls than those, since a long file and a long history of calls do not touch
  each other. A stack of three nested calls: a load in a stop() in a start().
  `Text` leaves out of the lexemes those that do what another one does.
* ProxiedTcpSocket: an answer of five bytes stands for ten: only the first two
  are looked at and the rest is only counted. Three bytes of junk are enough to
  pass the limit of four together with an answer; two bytes of data can arrive
  with the answer, split, or later.

### Fairness

* `Loop` of TcpSocket, `Pass` of IOManager and `FireTimeouts`: the program calls
  waitForEventsAndProcess and fireTimeouts for ever; this is what the library's
  users' main loop is. Handlers and callbacks return.
* `Resume`: a ::send that the kernel can continue continues.
* `ConnectEnds`: TCP resolves every attempt, by success, refusal or timeout.
* `PeerGoesOnReading` is not assumed. The two properties that need it are
  implications whose premise it is, because a peer may stop reading for ever. It
  includes that memory pressure comes to an end.
* `Returns` of NameResolution: calls and callbacks return. `Timer` is strongly
  fair: the main loop calls fireTimeouts after every poll(), so input cannot
  keep it away. `GivesUp` is strongly fair: libudns gives a query up after a
  fixed number of timeouts.
* `connectionEstablished`, `Read` and `ProxyAnswers` of ProxiedTcpSocket: the
  loop runs, and the proxy answers or the connection ends.
* `Tick`: the clock runs, up to `MaxTime`; timeouts due after it are not asked for.

Nothing is assumed of the endpoint: it may never send or close. `Modules` states no
fairness; nothing there waits.

### What the properties do not say

* `EndpointProtocol` exempts an end by flush, which tells the endpoint twice
  (`TcpSocketClosesOnce`).
* `LossNeedsCause` exempts a pollWrite that slept in ::send: pollWrite waits on
  EWOULDBLOCK and EAGAIN but takes EINTR for a loss (T:406), unlike send() (T:279),
  so a signal there loses a healthy connection.
* `PeerGoneIsNoticed` asks for the peer's close only on a descriptor that cannot
  block: a half-closed peer that stops reading holds a blocking send() for ever.
* `AbstractSafe` lets a flush be given up: a second close() in GOING_DOWN is not
  deferred and throws the rest away (T:232), where Network.hpp:103-104 says that the
  socket flushes all of it. Output buffered when the peer half-closes is thrown away
  too (T:331), as a loss.
* The assertion T:308 is not a property: close() leaves the poll state at
  BUFFERING when it enters GOING_DOWN (T:232), so pollRead does run in that state.
  The endpoint that closed its connection still gets `dataRead`, and the peer's FIN
  throws away what was to be flushed.
* `ExclusiveIsAlone` needs literal exclusive masks. The assertion that should
  see to it (EM:58) reads `* (eventMask.end() --)`, which is what `end()` points
  at and never a `*`; an exclusive `a*` is accepted beside an
  older `ab`, because only one direction is compared, and both like `ab`.
* `unsubscribeParent` removes the parent's subscription for whoever asks (EM:104).
* `CancelledStayQuiet` says nothing of a resolver deleted without cancelling.
* `CursorIsValid` exempts sets that were asked for a connection before their first
  proxy (`early`): usesProxies makes the set with a cursor nobody set (PN:96), the
  first addProxy keeps it, and the next connectStream compares and dereferences
  it (PN:111-118, `ReadsSingular`), under a comment that says "just cycle through
  existing proxies" (PN:108). clearProxies leaves `m_currentSet`, so it makes such a case
  too.
* `Served` supposes that handlers do not move sockets for ever. A handler that gives a
  socket another descriptor can leave the pass at an entry that no polled descriptor
  equals, and all sockets behind it are skipped (IO:118); if that happens in every
  pass, they starve.
* No property catches the second delete of a socket whose connection failed (PN:145,
  NetworkManager.cpp:124), or a loop of fireEvent that stands on a node its subscriber
  erased: both are undefined and end the run in `ub` or `faults`.
* `NegotiationEnds` exempts an answer to user and password in two pieces (`cut`).
* `CleanParse` speaks of parses before which none failed. After a syntax error the
  rest of the old file is in the buffer and is read as the beginning of the next
  one, or, if its end had been met, the next parse finds nothing and throws "Empty
  configuration!". A file that ends inside a comment or a string leaves the start
  condition there for the next. A comment `/* x */` on one line opens one that ends
  at the next line ending in `*/`: the first rule takes the whole line.
* `TreeIsTheFile` compares lists flattened, because a list in a list is (the value
  is marked as a list once more and its strings appended): `tokens`, the history of
  what a parse has read, leaves out the marks of a list. Half-built trees of
  failed parses belong to nobody and are never freed (CY:181).
* `EveryValueIsFound` is about files that name nothing twice: lexemes of the model are
  told apart by when they were scanned. Of two nodes of one name in a section a lookup
  finds the first (CF:61-74), and the second under no path.
* `FailedLoadsAreUndone` counts a library that has no init function as left open
  (MM:49), a module that does not start as abandoned (MM:77, whose code is
  unmapped under it), and does not speak of the Configuration made for a module
  without a file, which is forgotten at once (MM:68). Whether the library of an
  unloaded module is open it leaves free (`ModulesUnloading`).
* `SweepSkipsNone` is about the iterator and says nothing of whether a sweep goes on
  after a refusal: it would hold as well of one that stopped there (`ModulesUnloading`).
* getStringList throws for a list that is not there (CF:143); Configuration.hpp:84
  says that an empty list is returned. No property speaks of it.
* `SleepIsRight` states what deltaNext really returns for an overdue timeout:
  the unsigned difference wraps around.

## Findings

Each is a run whose one property, quoted from the code or its documentation, TLC
finds violated.

* `TcpSocketClosesOnce` (T:431). When a flush ends, pollWrite closes the
  descriptor but leaves its number in `m_socket`; `delete this` runs the
  destructor, which closes the number again, tells the endpoint again, and deletes
  again.
* `IOManagerReused` (IO:124). A handler that loses its connection closes the
  descriptor before it calls connectionLost. A connection opened there gets the
  same number, and the pass hands it the lost one's POLLOUT.
* `TimeoutManagerLost` (TO:44). A later callback of a pass schedules a timeout;
  its node can be placed, by comparison with freed memory, in front of the
  iterator, and is erased with the fired ones.
* `NameResolutionDelete` (UD:139). Inside `timeoutFired`, a resolver called back
  resolves another name; `resolveName` schedules a timeout and stores it in
  `m_timeout`, and `timeoutFired` overwrites it with one of its own. When that one
  fires with no query left, `m_timeout` is reset; the destructor then drops
  nothing, and the forgotten timeout calls the deleted facility.
* `ModulesUnloading` (MM:98, 109, 125). ModuleManager.hpp says that a library needs to be
  dlclose'd when its module is unloaded (102), and the dlclose is commented out; that
  unloadAll is aborted when a module fails to unload (147-148), and it goes on with the
  next; and that enumerateModules lists all currently loaded modules (153), but
  unloadModule(id) forgets a module whose stop() refused, which runs on and can never be
  unloaded. The property says that one of the three is true at any time, and
  the counterexample is a state in which none is.

With `Callbacks = "any"` the same dangling nodes also falsify `NoUndefined` and
`DroppedStaysDropped`: a drop can miss its timeout, move the pass back on to a
freed timeout, or free one twice. One run shows the cause.

## Proofs

`TcpSocketProofs` proves, for all values of the constants that satisfy
`BoundsAssumption` and `BuildAssumption`:

| theorem | statement |
|---|---|
| `TypeCorrect` | `Safe => []TypeOK` |
| `PollMaskIsRight` | `Safe => []PollMaskMatchesState` |
| `StreamIsInOrder` | `Safe => []StreamInOrder` |
| `QuietEndIsComplete` | `Safe => []QuietEndLosesNothing` |
| `WriteAssertionHolds` | `Safe => []WriteAssertion` |
| `GoingDownStays` | `Safe => GoingDownIsFinal`: no step takes a socket out of GOING_DOWN but into its end |
| `Refines` | `Safe => AbstractSafe` |
| `EndpointsAreToldInOrder` | `Safe => []EndpointProtocol` |
| `LossesHaveACause` | `Safe => LossNeedsCause` |

All follow from `Invariance`, `Safe => []IInv`. `StreamInOrder` alone is not
inductive. That the rest kept by a partial write continues the wire needs the
suspended ::send to hold exactly the bytes not yet on the wire, and a caller that
is in a state in which it may be suspended (`SuspendedCall`). That nothing is
forgotten at a quiet end needs IDLE to mean an empty buffer, which is
`PollMaskMatchesState`. That a POLLOUT is never stale needs the mask again: no
step that leaves the socket alive takes it out of the states in which POLLOUT
was asked for while one is pending. `UnbornIsFresh`, `DeletedIsStill`,
`EndedMeansDeleted` and `DroppedIsDead` tie the history variables to the object's
life. The proof has a step per action and, below it, the parts of `IInv` the
action can disturb; the facts about numbered sequences (`DropNumbered`,
`JoinNumbered` and others) are lemmas in front. `Refines` maps every action to a
step of `Connection` or a stutter, from `IInv`. The last two theorems are about what
the endpoint was told and need a second invariant on top of `IInv`, `Heard`: an event
poll() reported is one the connection has had (`PendingIsRight`: an error means it
broke, input means it was made), nothing goes in or out before there is a connection
(`NothingEarly`), and what was called so far is what may be heard before an end, or
that and one outcome (`CallsSoFar`). `LossNeedsCause` rests on the first of these.

`EventManagerProofs` proves, for all names, masks and subscribers:

| theorem | statement |
|---|---|
| `ExclusiveStaysAlone` | exclusive masks literal: `Safe => []ExclusiveIsAlone` |
| `OneMaskPerName` | wildcards only at the end of masks: `Safe => []OneMaskEach` |
| `NobodyIsEverSkipped` | `Safe => NobodyIsSkipped` |

The first two follow from `Invariance`, `Safe => []IInv`, where `IInv` says that no two
subscriptions of the list are a reason to refuse each other (`NoClash`): the test
of `subscribeEventMask` is made against every older subscription and is
symmetric, so the order in which they came does not matter. What a test on two
masks says about all names they like is in the lemmas: of two masks that like a
name, one likes the other (`OneCoversTheOther`).

`NobodyIsEverSkipped` needs an invariant about the stack of calls, `PassedAreTold`:
whoever is subscribed and likes the event of a call, up to the node at which that
call's loop stands, was told of it. Subscribing preserves it because a new node is
behind every loop, unsubscribing because the claim is about those who are still
subscribed, and the loop's own step because the node it calls is the next that
likes the event (`DeliverKeepsPassed`). It holds of each frame of the stack, however
deep.

`IOManagerProofs` proves, for any number of sockets, descriptors and events, with
`NobodyAssumption` for the placeholder of "no handler runs":

| theorem | statement |
|---|---|
| `ListIsThatOfTheSockets` | `Safe => []RegisteredAreAlive` |
| `EventsAreReportedWithoutReuse` | `~Reuses`: `Safe => []EventsAreReported` |
| `DeliversEvents` | `~Reuses`: `Safe => DeliverySpec`, the refinement of `EventDelivery` |

`IInv` is `ListFine` (nobody twice in the list, m_iterator a position or end()),
`ObjectsFine`, `EntriesFine` (the entries are exactly those of the sockets that
exist, and only the one whose handler runs can be without its descriptor) and
`PassFine` (j is in the poll() result while an event is handled). The refinement
needs more, `RInv`: each entry of the poll() result belongs to a socket of its own
(`OwnersFine`), and a polled descriptor is its owner's until it is closed and then
nobody's (`DescriptorsFine`). The second is what the comparison of descriptors in
line IO:118 relies on, and it is false once a descriptor closed in a pass can be
given out again in it. That is the hypothesis `~Reuses`, and `IOManagerReused` shows
what happens without it.

`TimeoutManagerProofs` proves, for any number of timeouts, receivers and addresses,
any clock and any width of the unsigned int, under `OneCallback`, which says that at
most the first callback of a pass uses the manager:

| theorem | statement |
|---|---|
| `NothingUndefined` | `Safe => []NoUndefined` |
| `NoneIsLostNorLeaked` | `Safe => []NoneLostNorLeaked` |
| `DroppedAreNotFired` | `Safe => []DroppedStaysDropped` |
| `TimeoutsFireInOrder` | `Safe => FiredInOrder` |
| `AllThatWereDueAreFired` | `Safe => AllDueAreFired` |
| `SleepsAreRight` | `Safe => []SleepIsRight` |

What makes this hard is that the multiset holds, in a pass, the nodes of timeouts
already freed, whose seconds are whatever the allocator left there. `IInv` says
nothing of those nodes but that they are behind m_iterator: the ones ahead are in
order, are the only ones whose memory is held (`NodesFine`), and are the nodes of the
pending timeouts, each once (`PendingFine`). While the one callback that uses the
manager runs, nothing has been freed yet (`PassFine`), so a search meets ordered nodes
only; afterwards nothing is searched until the pass is over and the nodes behind are
erased. An address is given out again and again, so `TicketsFine` keeps apart
who holds it from who held it. The hypothesis cannot be dropped:
`TimeoutManagerLost` is the same module with a later callback using the manager.

`NameResolutionProofs` proves, for any set of requests and resolvers and any depth of
calls:

| theorem | statement |
|---|---|
| `AccountsAgree` | `Safe => []OneAccount` |
| `CancelledAreNotCalled` | `Safe => []CancelledStayQuiet` |
| `NoQueryOutlivesTheFacility` | `Safe => []DeletedIsQuiet` |

`IInv` adds to the two invariants that an answer is on the stack once, of a request
that was told (`AnsweredOnce`), since that is what is looked up when its callback
returns, and that the scheduled timeouts are finite in number, since they are counted.

`ProxyProofs` proves, for any sets of proxies, and any length of answers, data and
what a proxy sends out of turn:

| theorem | statement |
|---|---|
| `CursorsAreValid` | `Safe => []CursorIsValid` |
| `TurnsAreTaken` | `Safe => ProxiesTakeTurns` |
| `EndpointsAreExchangedWhenGranted` | `Safe => []EstablishedWhenGranted` |
| `RelayedDataIsWhole` | `Safe => []DataIsWhole` |

Of the pool, `PoolInv`: a cursor is in its list or is that of a set asked too early
(`PoolFine`); and who is still owed a turn after a proxy's is, around the list, on the
way from the cursor back to that proxy (`TurnsFine`), so that nobody is owed one when
the cursor gets there. Of the negotiation, `SocketInv`: one conjunct per state says
what was asked, what the proxy has answered and how much of the answers is still in
the buffer or on the wire, and `InOrder` that these are one stream.

`ModuleManagerProofs` proves, for any libraries, any number of loads and any nesting of
calls:

| theorem | statement |
|---|---|
| `ListedModulesAreWhole` | `Spec => []LoadedIsWhole` |
| `FailuresLeaveNothing` | `Spec => []FailedLoadsAreUndone` |
| `SweepsSkipNone` | `Spec => SweepSkipsNone` |

`IInv` describes the stack of calls and the list together. A load under way holds a
configuration that no module and no other load has (`LoadsFine`, `LoadsDiffer`), a
module's instance and configuration are its own (`ModulesFine`, `ModulesDiffer`), each
filled configuration has an owner (`OwnersFine`), a module being stopped is still in
the list, and whatever a sweep has gone past refused (`StopsFine`, `StopsDiffer`).
`CountsFine` counts, per library, how often the code has it open: once for each load
under way, each instance that ever started, and each load that found no symbol in
it; the theorem keeps of this what the documentation asks for. Nothing is assumed of the
parser but that it returns: the theorems hold for every tree it could build.

`ConfigurationProofs` proves, for files of any content and length, a parser's stack
of any size and any number of loads:

| theorem | statement |
|---|---|
| `ParsesReadTheirFile` | `Spec => []CleanParse` |
| `TreesAreKept` | `Spec => []TreesAreAlive` |
| `TablesDecideTheGrammar` | `Spec => []GrammarDecides` |
| `TreesSayWhatTheFilesSay` | `Spec => []TreeIsTheFile` |
| `EveryNodeHasItsPath` | `Spec => []EveryValueIsFound` |

All five need to know what the parser's tables do, and get it from one part of the
invariant: `StackFine`, the stack is a path of the automaton whose edges are
`Follows`. It holds because every state that is shifted or gone to may stand on what
the stack then ends with, which is computed from the tables entry by entry
(`ShiftFollows`, `GotoFacts`), and it tells what a rule pops (`PathFacts`). The
first theorem adds `BufferFine`: while nothing has failed, the buffer is new, holds
the parse's own file, or has met its end; that a parse is accepted only in the last
case is a fact of the tables, as only the end is shifted in the state that accepts.
The second reads off the stack which sections are open and that each is the parent
of the next (`Sections`), although currentSection is all that the actions have. Nodes
are numbered as they are made, and between a root and the next one's number all
belong to the same tree (`ChildrenFine`), so that trees can be told apart by numbers
(`Under`, `OneTree`). What is left then is about roots: the root that a parse leaves
is newer than that of every configuration (`NewRoot`), or 0, or the parse has
failed; and what was freed was below the root of a configuration that is gone
(`FreedFine`). That `Tree`, a recursive function, stays within these numbers
(`TreeIsBelow`) takes no induction over the tree: such a function exists
(`SomeBelow`), and a last node at which it went astray would have a child
behind it at which it went astray.

The third theorem compares two descriptions of one language, the compressed tables
and the productions, and its invariant, `FormsFine`, says where they meet: each state
of the stack knows what may still follow in the file, given what may follow once the
part that began there is over (`Remains`, `Context`), and a parse has a context for
every state of its stack, each made from the one below (`Contexts`), so that what
remains in the state on top is what the grammar allows. Entry by entry of the tables,
a token is shifted only where what remains begins with it and leads to what remains
then (`ShiftConsumes`, `ShiftMatches`); a reduction does not change what remains, or,
where a token has been looked at, what remains after it (`ReduceDecides`,
`ReduceMatches`), which is why the default reductions lose no error; and where the
tables have no entry nothing that remains goes on with the token (`ErrorRejects`,
`ErrorMatches`). What remains is computed by `Expand`, a recursive function on sentential
forms of any length. The only fact used of it is its own equation, and that a
function with this equation exists is proved without induction (`SomeExpand`): the
one that maps a form to all that is in every set that holds the form and what each of
its members is rewritten to. The invariant was an invariant of the run `Modules`
before it was proved.

The fourth theorem relates what has been read to what has been built, at every step
of a parse and not only at its end. `TextFine` says that what has been read is what
the state on top stands for (`Stands`) and the token that is looked at (`Word`). In a
body (`BodyText`) that is: the text up to the brace of the innermost section, what its
children say, and what has been read of the part on top, whose name, value or list is
by then still in the string buffer or already in the node under construction
(`Part`). Three facts of the parser make this hold. The string buffer holds a name
until the rule that copies it is reduced, although that rule has to look one token
ahead: after a name the grammar allows only `{` and `=`, and no token scanned then
touches the buffer; were it otherwise, no sentence could follow, which the third
theorem's invariant excludes (`NameGoesOn`, `TextLex`). The value under construction
is a node of its own, neither finished nor one of the open sections, from its name to
its semicolon (`ValueFine`), although currentValue is one global. And a section that is
closed has above it the section it was opened in, with what that one had said by then
(`OpenFine`, `SectionClosed`). What a tree says is computed by `Listing`, a recursive
function; the invariant does not speak of it but of a table of texts, one for each
finished node, each equal to what the node says if its children say what the table
says (`Finished`). That `Listing` is such a table takes no induction over trees: a
function with its equation exists, and a last node where two of them differed would
have a child behind it where they differ (`SomeListing`, `ListingIs`); and what is said
by one child more is said by those before and then by that one, for FlattenSeq in the
same way (`FlattenFacts`, `SpokenMore`).

The fifth theorem is about lookups, and its invariant, `NamesFine`, about the names
that they follow. A lookup takes the first child of a name and stops at an empty one,
so no two nodes of a tree may share a name and none but a root may be without
(`NodesNamed`). That holds because the names of the model are as the lexemes they
are made of, each scanned once: the name in the buffer begins behind all that nodes
have been given, as long as a rule may still copy it (`Younger`, `NameSeen`), and is
there when a rule is about to (`Awaited`); two assignments of the same name in one
section, where the code finds the first, are thus outside of it. One state is an
exception: a section that is named and then not opened keeps the buffer's name while
something else is scanned (`Stuck`), but only an error is left to that parse. A value
has neither children nor a section to go back to (`NodesLinked`), so that a path which
goes on behind one finds nothing. The names enumerateSubkeys returns for a section
lead to its children because they are the children's names in their order
(`SubkeysFound`). From there it is a matter of what a walk does along
a path: one that has come to the end of a node's name goes on along each path of that
node to the end of the name it leads to (`Arrived`, `Leading`). It holds for all nodes
(`PathsLead`) because a last node for which it failed would have a child behind it
for which it fails; and a walk, a recursive function on the elements of the path,
equals any other that takes the same steps, since a first element at which they differ
would have one before it (`WalkEnds`).

Only model-checked:

* liveness, which rests on fairness and ENABLED and is beyond the prover;
* the runs that expect a violation, which are counterexamples and need no proof.

## Not modelled

Wording, logging and the parsing of addresses. `dataSent` is declared by
NetworkEndpoint (Network.hpp:73-78) and no code calls it. The duration of poll()
is not modelled, only that it returns. UdpSocket and the datagram functions are
stubs. LogManager is a loop over a list, PosixResolvingFacility one synchronous
call. Event is a container of attributes and the text it is written to, in inline
functions that nothing else of the library depends on. Which characters make a
lexeme is not modelled: the scanner's automaton is abstracted to the lexemes of
each start condition and to whether it looks behind them.

Listening sockets are not modelled, and with them what createEndpoint and
connectionEstablished may do to a socket whose constructor or connectStream has
not returned (T:65, T:183). The descriptor table is shared by all sockets of a
process, so a double close can hit a stranger only when two sockets are composed;
`TcpSocket` records it in `faults` instead. Between the two calls of ::close in a
failed connect (T:127) nothing else runs on the one thread there is.

## Plan

1. `TcpSocket`, `Connection`, `IOManager`, `EventDelivery`, `TimeoutManager`,
   `EventManager`, `NameResolution`, `ProxiedTcpSocket`, `ProxiedNetworkManager`,
   `ConfigLexer`, `ConfigGrammar`, `ConfigParser`, `Configuration`, `ModuleManager`, and the
   theorems about all of them: done.
2. `EventLoop`: NetworkManager with two sockets on one list and one descriptor
   table, listening sockets with the accept loop, createEndpoint and
   connectionEstablished as steps in which the program acts; what a double close
   does to a stranger.
3. `Event`, as an algorithm: what is written and in which order.

Theorems left: the safety of `EventLoop`.
