# webserv in TLA+

TLA+ models of webserv, the HTTP/1.1 server in `src/`: a single process and a single
thread that serves any number of listening sockets with one epoll descriptor. The
models are checked with TLC on small instances; what matters most about each of them is
proved with TLAPS for every value of the constants.

## The system

| component | state it keeps | operations | talks to |
|---|---|---|---|
| `loop()` (loop.cpp) | the flag `running`, the batch of events | boot, one round per batch, `removeConnection` | EpollWrapper, Server, Connection |
| EpollWrapper | the kernel's registrations: descriptor, events asked for, `channel_t *` | add, modify, remove, wait | the kernel |
| Server (sockets) | the listening descriptor, its Config | init, listenToPort, getRequestData | the kernel |
| Connection | a descriptor, one Request, one Response | accept in the constructor, sendHttpResponse, disconnect | Server, the kernel |
| Request | unparsed text, three "parsed" flags, body, error code | parse (start line, headers, body), look-ups | Config (limit, methods) |
| Server::handleRequest | the files below the root, a static Cookie | refuse, cookies, redirection, upload, CGI, directory, file | Config, Cookie, CGIRequest, Response |
| Cookie | values by cookie name and key | get, set, generateSession | |
| CGIRequest | a child process and a file named after the connection's descriptor | exec, destructor | the kernel |
| Config | the settings of one server, its locations | add and the setters, parseConfig, look-ups | |
| Response, utils, Logger, main | text | formatting | |

A connection goes through `accept` → EPOLLIN rounds, each one `recv` and one
`Request::parse` → EPOLLOUT once the request is parsed → `handleRequest` → one `send` →
`removeConnection`. Clients and signals act between any two system calls.

What is hard to get right and hard to test:

* a batch of events is handled after things it names may have been closed, deleted, or
  their descriptor numbers given to somebody else; `recv` returning 0 closes the
  descriptor deep inside `getRequestData` while the caller carries on;
* a request arrives in pieces of any size, and which tests run depends on the pieces;
* the CGI script, the file it shares with the server and the process table change
  while the server polls; process ids and file names are reused;
* sessions are lost with the process while browsers keep their cookies, and the order
  of the tests in `handleRequest` decides what a refused request has changed;
* calls that seldom fail: `fcntl`, `epoll_ctl`, `listen`, `bind`, `fork`, `send`;
* a script stops the loop while clients go on, and its file has the name of a
  descriptor that the loop gives to one client after the other;
* a configuration file may be cut off, nested wrongly or hold numbers that are missing or
  too large, and what is read of it depends on the order of its lines.

The list with source lines is under "hazards" in `PROJECT.json`.

## The modules

| module | models | role |
|---|---|---|
| `ConnectionService` | nothing in the source: the promise to clients | abstract specification |
| `EventLoop` | loop.cpp, EpollWrapper, Connection, the sockets of Server | implements ConnectionService |
| `RequestPhases` | how far a request has come | the interface between EventLoop and Request |
| `Request` | `Request::parse` in full | shown to move as RequestPhases lists |
| `CGI` | CGIRequest | the step "handler" of EventLoop, in detail, for scripts |
| `RequestHandler` | handleRequest, handleCookies, handleMultipart, Cookie | the same step for everything else |
| `Site` | EventLoop with CGI in place of the step that makes a response | composition |
| `Config` | Config::add and the setters | the values and outcomes ConfigFile works with |
| `ConfigFile` | readFile, parseConfig, the start of the servers in `loop()` | from a file to the servers that EventLoop serves |
| `EventLoopProofs`, `CGIProofs`, `SiteProofs`, `RequestProofs`, `RequestHandlerProofs`, `ConfigFileProofs` | | theorems about the module each is named after |
| `ConfigSettingsProofs` | | theorems about the settings `ConfigFile` ends up with |
| `Recursion` | | induction, and what functions defined by recursion and folds do: lemmas for the others |
| `MCEventLoop`, `MCRequest`, `MCRequestHandler`, `MCConfigFile` | | instances for TLC |

### EventLoop

A Connection and its `channel_t` are allocated and freed together and belong to one
accepted client, so a client's name is also the name of the two objects: `heap[c]`,
`fd[c]`, `phase[c]`. The kernel's side is `queue` (accept queues), `unread` (received
segments, counted), `socket` (the descriptor table), `channel` and `interest` (epoll).
`accepts` and `events` are the rest of the current batch. The kernel does not specify
the order of a batch, so it is a set and the loop takes its members in any order;
client actions may come between any two of them. The server sockets' EPOLLOUT interest
never fires and is left out.

| action | code |
|---|---|
| `StartServer`, `StartServerFails`, `EnterLoop` | loop.cpp:62-91, Server.cpp:5-55 |
| `CollectEvents`, `CollectFails` | `epoll.wait(0)`, loop.cpp:95-100 |
| `Accept`, `AcceptFails` | loop.cpp:105-122, Connection.cpp:15-50 |
| `HandleHangUp` | loop.cpp:126-137 |
| `ReadBytes`, `ReadEnd`, `ReadFails` | loop.cpp:140-160; `recv` returns bytes, 0, or -1 |
| `HandleRequest`, `SendResponse` | loop.cpp:163-169, Connection.cpp:52-70 |
| `Signal`, `LeaveLoop` | loop.cpp:21-33, 93 |

`AfterParse` is what follows `parse`: an exception removes the connection, a complete
request switches the registration to EPOLLOUT. EPOLLIN is read through descriptor
`fd[c]`, whoever it is connected to by then: that it is still client `c` is a property
(`DescriptorOwnership`), not an assumption. `HandleRequest` takes the handler as one
step that either returns or throws ("handler" in `Faults`).

`ConnectionService` has one variable for each client: unknown, reading, ready,
answered, dropped. `Stage` maps the loop's state to it.

### Request

A byte sequence is a sequence of symbols. CR and LF are symbols of their own, because
the parser looks for them and a piece may end between them; so are hexadecimal digits
and letters, because chunk sizes are read as numbers. A start line and a header row are
one symbol each: only the verdict they get matters. `Receive(n)` hands `Parse` the next
`n` symbols, for every `n`. What the model keeps of the code's order: the limit is tested
between the start line and the headers, so that it sees a Content-Length one call late;
`Chunks` compares the length of the text *with* the size line to the size of the chunk,
takes the rest when a line has no CRLF, and looks for the last chunk only behind another
one.

Verdict and content of a request are worked out in `MCRequest` from the parts it is made
of and never with the parser: this is the reference the parser is checked against.
`WellFramed` says what that is for a request that is not chunked, and `FramingAssumption`
that it is so of all of these. `message.cuts` says where pieces may end for `aligned` to stay
true. For requests with Content-Length or without a body that is everywhere.

What a call of `parse` may do to the phase of a request is listed in `RequestPhases`, and
EventLoop lets a request move in just these ways. `MovesAsListed` states that the parser
does; it is checked by `RequestPieces` and is the theorem `ParserMovesAsListed`.

### CGI

One call at a time forks one script. `owner` is the process table; other processes take
and leave ids whenever they like. `path` names an inode, `content` is what was written
to it, by whom, so that a file removed while a script still has it open is represented.
Because `exec` ignores SIGCHLD, `waitpid` never stores a status: the bit that the loop
tests is whatever was on the stack, a Boolean chosen at `Fork`. `End` may come before
`execve`, with or without the file created.

### RequestHandler

`Refuse` is the error code and the method test, `Handle` all the rest in the order of
the code: cookies location by location, redirection, upload, existence, CGI, size,
directory, file. `jar` is what browsers keep; a browser sends all of it, and
`getValueCookie` finds a cookie only if it is the only one. `meant` is a history
variable: the value the browser's cookie was made for by the process now running.
`Restart` empties the store (docker-compose.yml restarts the container). The cookie
names of the configuration are no prefixes of one another and no numbers, so the
prefix test of `getParam` and the test in `generateSession` never mix them up.
`generateSession` does not look for keys in use: that `rand` does not repeat a number
is assumed.

### Site

`Site` extends EventLoop and instantiates CGI with clients as calls and descriptors as
file names (`CGIRequest::CGIRequest` takes `connection->fd`). A request whose EPOLLOUT is
being handled may be for a script: `CallScript` starts `exec`, `LoopStep` waits until it
has returned (`exec = "idle"`), and the response that follows is EventLoop's own
`HandleRequest`. Clients and signals act in between. Any request may be one for a
script, since what request a client sends is not part of EventLoop. The loop's
variables take only EventLoop's steps (`SiteIsEventLoop`) and those of the scripts only
CGI's (`SiteIsScripts`): what is proved of `EventLoop!Spec` and of `CGI!Spec` holds of the
whole. What does not carry over that way is EventLoop's fairness, and `LoopGoesOn` states
what replaces it.

### Config and ConfigFile

A line is its first word, its other words and whether it ends with a brace of its own. The
first words (`Keys`, without the `location_` that `_getLabels` puts in front) are a constant;
the number a word begins with, what follows the number, the unit it ends with and the
cookie attribute it stands for are constants over a set of words. A setter of `Config` is
a function from a configuration and a value to the set of its outcomes: done, failed
(with what it changed before), crashed. The size limit is computed modulo `Modulus`, the
port of an empty value is any of `Garbage`.

| action of ConfigFile | code |
|---|---|
| `Init` | `readFile`, `_getLineFromFileData`, Config.cpp:540-588; a file that cannot be read is empty |
| `SkipComment`, `OpenServer`, `ServerLine`, `CloseServer` | `_getLabels` outside locations, Config.cpp:622-674 |
| `OpenLocation`, `LocationLine`, `CloseLocation` | its inner loop, Config.cpp:644-663 |
| `EndOfFile` | Config.cpp:622, 675-677 |
| `AddLabel`, `FinishServer`, `Finish` | `parseConfig`, Config.cpp:680-706 |
| `StartServer` | loop.cpp:67-91, Server.cpp:5-55; it ends in `failed` if the port is taken, in `unable` if the system refuses a socket (socket, setsockopt, fcntl, listen) |
| `EnterLoop` | loop.cpp:93-98 |

`front()` of an empty list and `back()` of an empty vector are undefined: the line read
at the end of the file is not a brace (refused) or the process crashes, both of which
builds of the code do; a write to a location that does not exist crashes.

What a file says is defined a second time in `ConfigFile`, by counting braces (`Depth`,
`Nested`) and looking for the last line that sets something (`Latest`, `LastOf`, `LastIn`),
without the parser: this is what the properties compare the result with.
`SettingsStayInTheirBlock` compares all settings of a server (`ServerAsWritten`: root,
upload_path, server_name, index, allowed_methods, the page of each error) and of a location
(`LocationAsWritten`: path, root, directory_listing, response_is_dir, http_redirection,
cgi_pass, required_cookie, set_cookie), and the number of both; port and size limit are left
to `NumbersAsWritten`, the methods of a location to `MethodsNarrow`. Some settings are not
just what the last line says: scripts and cookies of several lines add up, a redirection line
without a target keeps the target of an earlier one, and error pages are kept for each code.

## Runs

All bounds are constants of the cfg files.

| run | bounds | shows |
|---|---|---|
| `EventLoopSafety` | 3 clients, 2 descriptors, 1 server, batch 2, 1 segment, faults listen, fcntl, epoll_add, handler; symmetry | types, no use after free, descriptor ownership, current batches, right interest, the inductive invariant of the proofs, refinement |
| `EventLoopLiveness` | 2 clients, 2 descriptors, 2 servers, a batch that holds everything, no faults | nobody forgotten, no descriptor leak, the four liveness properties |
| `EventLoopLeak` | 2 clients, 1 descriptor | violated: `NoMemoryLeak` |
| `RequestPieces` | limit 2; 3 start lines × 6 header sections, lengths 0 to 4, cut anywhere, one of them with a second request behind it; chunked bodies of 1 to 3 chunks, one with both framings, cut at chunk ends | verdict and body do not depend on the pieces; buffer bound; phases |
| `RequestBare`, `RequestSplitChunk`, `RequestLastChunk` | one request each | violated: see below |
| `CGI` | 3 calls, 2 file names, 2 process ids, 2 writes | results are the script's own, complete and final; nothing is left behind; kill hits the script only; the server gets free again |
| `HandlerSafety` | 2 browsers, 2 cookies, 2 keys, 5 locations, 15 requests | access control, own values, refusals leave files alone |
| `HandlerLargeBody` | as above, fewer requests | violated: see below |
| `ConfigFile` | 4090 files: two servers with three locations, one of 64 lines inserted anywhere, a line left out, two exchanged, the file cut off anywhere; a setting given twice in one block and once or not at all in the blocks around it; all files of up to 4 lines of headers, braces and a comment; sizes modulo 32 with K = 2; port 3000 taken | files are accepted as they nest, crash only where known, every setting and number is that of its own block, methods narrow, all servers start or none, no file leaves the process stuck |
| `Site` | 2 clients, 2 descriptors, 1 server, 1 process id, 1 write, no faults of the loop | each client gets its own script's output; the name stays taken; the loop goes on |

Why the bounds are enough to be worth something: three clients and two descriptors make
a number be closed and given to a third client in the middle of a batch of two, and two
descriptors and a listening socket that are ready at once leave one out of it. Three
calls on two names reuse a name, and two ids with other processes taking them reuse an
id. In `Site` two clients that share descriptors take turns on one name, and the one id
is reused by every script. Two keys and two browsers let both be logged in, and one log
in again after a restart. The files of `ConfigFile` differ from a right one in one place,
which is where a parser of lines goes wrong; the short files have every combination of
headers and braces. A `Modulus` of 32 with a `Kilo` of 2 has sizes that fit, that just do
not fit, and that wrap to small ones and to 0, as 2^64 and 1024 do.
Symmetry is used only in a run without liveness properties: the clients, descriptors
and servers are interchangeable there, and no property names one.

`RequestPieces` does not check for deadlock: a request that is decided is not parsed
again.

Some hazards have no property, since the code does nothing about them and no document
says what it should do: a registration or an fcntl that fails after accept, an accept
that fails, an exception that ends the process, a short `send`, an idle client, a kill that
comes when its script has ended, a session that outlives the refusal of its request, a
size limit that overflows. The models have these outcomes, but for the idle time, and the
properties that would fail because of one name it as their exception; `PROJECT.json` has a
note on each.

Each property of a passing run has a mutant: an operator, next to the definition it
replaces, with a bug the code might have had; TLC finds the property violated with it.

### Fairness

`EventLoop!FairSpec` is weak fairness of `Process`, the whole program: it is one
thread, `epoll_wait` has timeout 0, the sockets are non-blocking, so the thread always takes its
next step. That includes the step `HandleRequest`, which stands for a handler that
returns; a script that never ends would violate this, which is what `CGI` is about.
Nothing is assumed of clients. `QueueIsServed` excepts the case that no descriptor is
free, since nothing makes idle clients leave. Liveness is checked with a batch that
holds every descriptor: which ones the kernel reports when there are too many is
not specified. `CGI!FairSpec` is weak fairness of the server only: scripts
may run for ever. `Site!SiteFairSpec` adds to the server's thread that scripts end, without
which no statement about the loop could hold; `LoopGoesOn` then is EventLoop's
assumption, that a handler returns, as a consequence.

### What the code does not keep

Five statements of comments and tests that the runs refute; `PROJECT.json` quotes them.

* `NoMemoryLeak`: a client that closes before its request is complete leaks its
  Connection and `channel_t`. `DescriptorOwnership`, `EventsAreLive` and
  `NoDescriptorLeak` say that this is all that happens: the closed number is not used.
* `HeaderSectionIsParsed`: a request without any header row is never answered.
* `ChunksAreWhole`: a chunk cut in two corrupts the body.
* `LastChunkEndsBody`: a last chunk received alone leaves the client waiting.
* `LargeBodiesAreRefused`: chunked bodies above the limit reach uploads and scripts.

## Proofs

A module `XProofs` extends `X`, and `ConfigSettingsProofs` extends `ConfigFileProofs`. Each
theorem holds for every value of the constants that the named assumptions of its module
allow; TLC evaluates the assumptions in the runs.

| module | theorems (the property, where it has another name) |
|---|---|
| `EventLoopProofs` | `Invariance`, `TypeCorrect`, `NoUseAfterFree` (`EventsAreLive`), `OwnDescriptors` (`DescriptorOwnership`), `BatchesStayCurrent` (`BatchIsCurrent`), `InterestIsRight` (`InterestMatchesRequest`), `NobodyForgotten`, `NothingLeaks`, and the refinement `Implementation` (`ImplementsService`) |
| `CGIProofs` | `Invariance`, `TypeCorrect`, `OwnResults` (`ResultIsOwn`), `FinalResults` (`ResultIsFinal`), `CleansUp` (`NothingLeftBehind`), `KillHitsTheScript` (`KillsOnlyTheScript`) |
| `SiteProofs` | `SiteIsEventLoop`, `SiteIsScripts`, `SiteInvariance`, `NamesStayTaken`, `AnswersAreOwn` |
| `RequestProofs` | `Invariance`, `TypeCorrect`, `BuffersFit` (`BufferWithinLimit`), `ParserMovesAsListed` (`MovesAsListed`); of requests that are not chunked: `FramedInvariance`, `FramedIsDecidedAsSent` (`DecidedAsSent`), `WholeFramedIsDecided` (`WholeRequestIsDecided`) |
| `RequestHandlerProofs` | `Invariance`, `TypeCorrect`, `LoggedIn` (`OnlyLoggedIn`), `ShownIsOwn` (`OwnValueShown`), `NotRefusedInVain` (`LoggedInGetsIn`), `RefusalsChangeNothing` |
| `ConfigFileProofs` | `Invariance`, `TypeCorrect`, `AcceptsExactlyNested` (`AcceptedAsNested`), `CrashesOnlyAsKnown` (`CrashesAsKnown`), `StartsAll` (`StartsAllOrNothing`) |
| `ConfigSettingsProofs` | `SettingsInvariance`, `SettingsInTheirBlock` (`SettingsStayInTheirBlock`), `NumbersCorrect` (`NumbersAsWritten`), `MethodsCorrect` (`MethodsNarrow`) |

### EventLoop

Assumed: `None` is no client, server or descriptor, the bounds are positive, `Faults` names
known faults; and of requests only what `RequestPhases` lists.

None of the properties is inductive alone. That no event names a freed object needs
that a registration ends with the object, which needs that the Connection's descriptor
is the one its registration has (`DescriptorOwnership`); that needs, when a number is
reused by `Accept`, that no Connection that still counts has the old number, and that a
client that is accepted has no objects yet (`Unaccepted`); and while a batch is handled
all of it has to stay true of the events left over (`BatchIsCurrent`), with `cur` the
connection whose EPOLLOUT is being handled (`CurIsHandled`). `AnsweredIsFreed` says that
a reply was the last thing a Connection did, which the refinement needs to see that there is
at most one. `IInv` is the conjunction; the proof is in two halves, `TypeOK` and
`Objects` (all the rest), each with one step for each action; `ClosingObjects`,
`ParseObjects` and `AcceptObjects` are the three lemmas that carry it. `NobodyForgotten`
and `NothingLeaks` are invariants relative to `IInv`. For the
refinement, `ServiceMove` turns a change of one client's stage into a step of
ConnectionService, and every action of the loop moves at most one client.

### CGI

Assumed: `None` and `Other` are names of their own, and `MaxOutput`, the length of what a
script writes, is a number.

Names and process ids are reused, so what says whose file and whose process it is must
speak of all calls at once. `OneScript`: only the script of the current call is alive, and
it alone has the id that `fork` returned. `OneFile`: the only file there may be is the one
of the current call. `OwnContent`: an inode holds what its own script wrote. `ResultRead`:
a result is the content of the call's inode, from the moment it is read. That a result is
final then follows from the order in the code, which waits for the child before it
reads.

### Site

`SiteIsEventLoop` and `SiteIsScripts` show that a step of the whole is a step or a stutter
of each part: the second needs the first and EventLoop's invariant, because CGI lets a call
begin only with a descriptor, which `CallHasFd` takes from `IInv`. The invariant of the
whole, `SInv`, is that of both parts and one conjunct more, `ScriptIsHandled`: while a
script runs, the event being handled is the EPOLLOUT of its connection, which still has the
descriptor the file was named after.

### Recursion

The induction theorems of the library have an operator as a parameter, which the provers
cannot instantiate. `Recursion` states what is needed with sets and functions: a set of
numbers that is not empty has a least element (from the well-foundedness of `<`), a set with
0 and with the successors of its members has every number; and from these, what `Min` and
`Max` return, that a function defined by recursion on smaller arguments exists and obeys its
equation, and that a fold stays in a set which its operator does not leave. The operator of
a fold is given as a function. So the recursion over chunks and over digits of Request, and the
folds of RequestHandler and Config, can be reasoned about for inputs of any length.

### Request

Assumed: messages are sequences of `Symbols` and `Limit` is a number.

`IInv` is `TypeOK`, `Ordered` (the three parts are parsed in their order, and there is no
length before there are headers) and `Settled`: all that can be parsed of what has come has
been parsed, so that what is left is the beginning of the next part. `Settled` is what makes
a call without new bytes, which `loop()` makes when `recv` returns 0 or fails, change nothing, and
`AfterNothing` of RequestPhases true. A body with Content-Length is complete as soon as
the buffer holds it, whence `BufferWithinLimit`. `ParserMovesAsListed` discharges what EventLoop, its
theorems and its refinement assume of the parser.

What the pieces of a request add up to takes more: the parser forgets the text it has taken,
so the invariant must say where in the message it is. `WellFramed(m)` reads a message as a
whole (the first CRLF, the first blank line, what the rows say, as many symbols as the length
announces) and says that verdict and content of `m` agree with that; it excludes chunked
bodies, and a body with a length may be followed by no more than fits the limit with it,
since the code measures the two together. `Follows` then says of the parser: either a
part waits, and what is in the buffer is what has come of the message from the place where that
part begins (`Awaits`), and the fields set so far are those of the whole (`StartFramed`,
`RestFramed`); or all is decided as for the whole (`Agrees`). `FInv` is `IInv` with `Follows` for messages that are
`WellFramed`. A step of `Receive` extends what waits (`CutJoin`), and a call of `parse` takes
from it what it finds there; that it finds the same as in the whole message, once enough has come
to find anything, is `FindInCut`, and the lemmas on `Cut` are about pieces of pieces. That a
request is decided once all of it has come is then `Settled`: had it been left waiting, there would
be nothing to find in the rest of the message, where `WellFramed` says there is. The
hypothesis is met: TLC evaluates `FramingAssumption` of `MCRequest`, that every message of
`RequestPieces` that is not chunked, with or without a second request behind it, is
`WellFramed`.

### RequestHandler

Assumed of the configuration and the requests: they are of their types; a file is no
directory; the names of cookies are finitely many; no fixed cookie value of the
configuration is a number that `generateSession` will return; and, in the model, that such
a number does not come twice.

The properties are about single steps, and need what earlier steps, of other browsers and
of processes that have ended, have left. `KeysAreUsed`: a key in a jar has been generated, so
a new session does not get it. `StoreHasMeaning`: under a cookie that is a key the store holds what this
browser was given it for, or nothing for both, after a restart. `MeaningHasKey`: what means
something is a key. A location's cookies are tested one by one while others set theirs; the
folds over locations and cookies are handled with `FoldStays`.

### ConfigFile

Assumed: the words have the numbers, rests and attributes that `Config.tla` says, the five words
the reader itself compares with or writes are among `Keys`, and `Kilo * Kilo < Modulus`.

The reader has no counter of braces: it takes most of what is out of place for a setting, and
the mistake shows, if at all, when `add` refuses the label. So the invariant has to look
ahead. `Refused` are the labels that `add` refuses whatever the state of the Config.
`Reads`: either the labels produced so far contain a refused one, or every line was right
and the reader is in the block that counting braces tells (`AsNested`). `Parses` carries
this through `AddLabel`, which stops at a refused label, up to the end, where no label is
left: `Nested`. The other direction, that a nested and harmless file is not refused, is
`AcceptsHarmless`: each of its labels is one that `add` takes, and one with `location_` in
front comes behind a location. `Crashes` has the same for crashes: a label with `location_` in front has a
location before it, or a refused label before it, or comes from a line that `CrashesAsKnown`
names (`Homeless`). `OnlyComments` and `Listens` are the rest of `StartsAllOrNothing`. The
types (`TypeInv`) go through every setter, and through its folds.

### The settings of ConfigFile

What a field of a Config is depends on every setter run so far; what the properties say is
which line of the file it comes from. Two invariants lie between, on top of the one above.

`Origins`, while the file is read: the labels of server `k` are its label lines up to the
line the reader has come to, in their order (`Written`, which says that there is an increasing map
from labels to lines), each as `LabelOf` changes it, and no location is within another;
or a label is left that `add` refuses.

`Fills`, while labels are added: the labels left of the current server are its label lines
behind some line `n`, its Config says what its lines up to `n` do (`AsWritten`), those
that are complete say what all of theirs do, and the labels of the servers to come are still all of
their lines. `AsWritten(c, D)` is the three properties, restated for a Config and a set of lines.
A step adds the least line left to `D`: `ServerWritten` and `LocationWritten` say that this
keeps `AsWritten` if the setter changes what `ServerSets` and `LocationSets` say, which
`ServerSetting` and `LocationSetting` prove of every outcome of every setter. A setting goes
to the last location pushed; that this is the one whose block the line is in needs that
the locations up to a line are counted alike by the Config and by the braces (`LocationAt`),
which holds as servers follow one another and a location in a location is refused.

What a setter adds to is different for each setting, and so is the step: a server's error
pages (`PagesAsWritten`) gain the page of the new line; what adds up in a location is a union
over its lines, which gains the new line's words; of a redirection the code and the target
have each a last line (`Codes`, `Targets`); everything else is replaced (`Given`). A line
that is not of the server or the location at hand leaves all of these sets of lines alone.

Once no label is left, `D` is all lines of the server.

### Only model-checked

* The liveness properties of EventLoop, CGI and Site, which need fairness and ENABLED, and
  that no file leaves ConfigFile stuck (TLC's deadlock check): out of the provers' reach.
* `DecidedAsSent` and `WholeRequestIsDecided` for chunked bodies. They hold only for pieces
  that end at the message's `cuts` (other pieces are what `RequestSplitChunk` and
  `RequestLastChunk` refute), and what the parser makes of a body is a recursion over
  chunks, to be related to the recursion by which the client made it: an induction over data.
* What the code does not keep is checked to be violated.

## Not modelled

* The text of messages, error pages, listings, log lines; the `main` arguments but
  `--no-run` and an unreadable file.
* The characters of a configuration line, but for what the setters read out of its words:
  a word that only begins with `location` or `#` is one or the other, as in the code, but
  no file has one.
* Time: `sleep(1)` after a 413 and between the tries of `exec`; how long a handler takes.
* Descriptors that a CGI child inherits: the server closes none before the child has
  ended.
* Other processes in `Site`, which take and leave process ids in `CGI`; RequestHandler in
  it: whether a request is for a script is a free choice.
* A signal that interrupts `sleep` or `waitpid`: it only sets the flag.
* A row of the header section that is empty after trimming, a lone LF or a row of blanks,
  which ends the section (Request.cpp:175-183): in the model this takes CRLF CRLF, or CRLF
  at its start, and no message has such a row.
* A `CGIResponse-` file left by a server that was killed within `exec`, and children of a
  script, which could outlive it: CGI starts with neither.
* A number that `rand()` gives twice, in one process or, seeded with the same second, in
  two. `generateSession` does not look for the keys in use, so `OnlyLoggedIn` and
  `OwnValueShown` would fail; they say what holds as long as keys are new.
* In a 403, the `Cookie-` headers of the cookies found before the missing one
  (Server.cpp:303): `shown` has only those of locations that let the request pass.
* Failing writes to the disk, except `remove`; a missing upload directory.
* What is left of the input behind a request: the server answers one request and closes
  (`RequestPieces` has a second request in the same segment).

## Plan

1. Done: EventLoop with ConnectionService, Request, CGI, RequestHandler; the theorems
   above.
2. Done: `Config` and `ConfigFile`, with the start of the servers.
3. Done: `Site`, the loop with scripts; a second request in one segment.
4. Done: the theorems of CGI, Site, Request, RequestHandler and ConfigFile listed above.
5. Done: `SettingsStayInTheirBlock`, `NumbersAsWritten` and `MethodsNarrow` of ConfigFile, with
   an invariant that maps labels back to their lines; `DecidedAsSent` and
   `WholeRequestIsDecided` for every request that is not chunked.
6. Done: `SettingsStayInTheirBlock` for every setting, not only the roots, and its proof.
7. Left: `DecidedAsSent` and `WholeRequestIsDecided` for chunked bodies, cut where `cuts`
   allows.
