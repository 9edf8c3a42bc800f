# webserv in TLA+

A TLA+ model of *webserv*, an HTTP/1.x server in C++98: one process, one thread,
one `poll()`, non-blocking sockets, CGI children behind pipes, and disk files
read and written through the same poll loop. Source lines are cited as
`Server.cpp:556`, short for `src/src/core/Server.cpp:556`; `PROJECT.json` maps
every definition to the lines it stands for.

The project so far: the event loop and everything it drives (sockets, CGI pipes
and children, files, the two timeout sweeps) against an environment of peers,
scripts, kernel and clock; the promise it makes to a connection, as an abstract
specification it is shown to implement; how the bytes of one connection become
requests; how a configuration file becomes a server and a request an answer; what
happens to files and script output that move a piece at a time; and proofs, for every
instance, of every invariant and action property the runs check.

## The system

| Component | State | Operations | Interacts with |
|---|---|---|---|
| Event loop (`core/Server.cpp`) | `_pollFds`, `_clients`, `_clientToListenFd`, `_cgiToClient`, `_fileToClient`, listening sockets | accept, read, build, send, CGI pipe and file I/O, close, idle sweep, CGI timeout sweep | everything |
| Client (`Client.hpp`, `network/Client.cpp`) | the request, the response buffer and its offset, the CGI's pid, pipes and start time, the file descriptors and the offset written, last activity | plain data, reset for Keep-Alive | owned by the event loop, filled by `Response::build()` |
| CGI launch (`http/Response.cpp:599-720`) | none of its own | `pipe()` twice, `fork()`, `execve()`, ends closed on both sides | sets the Client's CGI fields; the loop polls what it returns |
| Request parser (`http/Request.cpp`) | raw buffer, parse state, headers, body, chunked state | append and parse, body limit, `keepAlive`, leftover bytes | fed by the loop's reads, pipelined leftovers carried to the next Client |
| Response builder and routing (`http/Response.cpp`) | headers, body | `build()`: normalise the URI, match the location, redirect, method check, GET/POST/DELETE, autoindex, error pages, CGI output parsing | reads the configuration and the Request; opens files for the loop |
| Upload and disk (`http/Response.cpp:375-586`, `Server.cpp:611-688`) | files on disk | multipart extraction, naming, `open()`; chunks written by the loop; `DELETE` | other connections, through the file system |
| Configuration parser (`ConfigParser/ConfigParser.cpp`) | token position, servers built | blocks, directives, duplicates, sizes | run once, before the loop |
| Server and location configuration | parsed directives | best location, inheritance of root, index, error pages | read by routing and by the body limit |
| Start-up (`main.cpp`) | none | SIGPIPE ignored, parse, start | - |
| Sample site (`www/`, `*.conf`) | none | pages, scripts, configurations | the environment |

### What makes it hard, and what each part must get right

* **The event loop.** Entries are erased and appended under the index that walks
  them (`erase; i--; continue`, `push_back`), and descriptors are closed whose
  numbers the very next `accept()`, `open()` or `pipe()` hands out again, while
  four maps are keyed by number. It must poll only what is open, and once;
  dispatch every report once; have every map entry name a live descriptor and
  its client; close and wait for everything it opens and forks; keep every
  request in service wired to an event that will come; answer each request once
  and drop no connection in between; and never stop.
* **CGI.** The script runs concurrently: it may exit before or after the loop
  looks, before its input is written or its output is read, may close a pipe
  and keep running, may never end; the timeout kills it while its pipes may be
  reported in the same pass. A kill must only ever hit the client's own child.
* **Connections.** Pipelined bytes arrive while a request is in service or sit in
  the buffer when it ends; a peer half-closes or resets at any step; the idle
  sweep looks at every client each pass.
* **Request parser.** How the bytes are cut into reads must not matter; chunked
  bodies, limits, the end of one request and the start of the next.
* **Routing.** A virtual host is matched by port and name while sockets are opened
  by address; one location must be chosen for the limits and for the service,
  from two different strings; dots and empty segments must lead exactly where a
  reader expects, and never above the root; whether a file is run or sent is
  decided before its directory's index is known.
* **Uploads and downloads.** Two connections may write one file, or one read what
  another writes, truncates or deletes, each piece between pieces of the other; a
  write may fail half-way, a client may leave, a file may end before its
  `Content-Length` does.
* **Configuration.** One index walks nested blocks; list directives go on to the
  next semicolon whatever stands between; sizes multiply and may wrap, or be read
  from no digits at all.

`PROJECT.json` lists each hazard at its line with the properties that cover it.

## Modules

| Module | Role |
|---|---|
| `EventLoop` | the server's loop, with kernel, peers, scripts and clock around it |
| `Connections` | abstract specification: what a connection is promised |
| `MCEventLoop` | the module TLC runs, one `.cfg` per question |
| `RequestStream` | one connection's bytes, the parser, the Keep-Alive reset, the writing of bodies |
| `MCRequestStream` | the streams TLC feeds it |
| `Config` | tokens, the two configuration classes, `getBestMatchLocation()` |
| `ConfigParser` | the parser, one action per directive and block boundary |
| `ConfigFile` | a configuration file as its author sees it: what may stand in it, what it looks like, what it means |
| `Routing` | sockets, virtual hosts, body limits, and all that `build()` decides |
| `Site` | `main()`: parser, then sockets, then requests; the properties of the three |
| `MCSite` | the files and requests TLC feeds it |
| `Transfers` | files and script output, read and written a piece at a time by several connections |
| `MCTransfers` | its instance |
| `SiteProofs` | theorems about `Site`: confinement, hosts, limits, dots, the disk |
| `ReadingProofs` | that a configuration file is read as what it means, and that no token of it is missed unnoticed, on top of `SiteProofs` |
| `EventLoopProofs` | theorems about `EventLoop`, its CGI children included, for all constants |
| `CooperationProofs` | what holds of the loop when peers and scripts cooperate, on top of `EventLoopProofs` |
| `PromisesProofs` | that the loop then implements `Connections` |
| `LostProofs` | the theorems about descriptors that are open and not polled |
| `TransfersProofs` | theorems about `Transfers` |
| `RequestStreamProofs` | theorems about `RequestStream`: framing, boundaries, answers |

`EventLoop` instantiates `Connections` under the refinement mapping `PhaseOf`
(`KeepsPromises`, `KeepsPromisesInTime`). `EventLoop` takes from the parser only
whether a request is complete, as a choice; `RequestStream` looks inside that
choice for one connection and takes from the loop only when it reads and writes.
`Site` composes the parser and `Routing`: what is parsed is what is served. It looks
inside the choice among `Routes` that `EventLoop` makes at `build()`, one request at a
time, for requests share nothing there but the disk; and `Transfers` looks inside
the choice `CHUNKS` leaves open, what is in the pieces, with several connections.

### How `EventLoop` corresponds to the code

State. `pollFds`, `clients`, `cgiToClient`, `fileToClient`, `listenOf` are the
members of `Server`; a Client is a record of the fields control depends on.
`fds` is the kernel's descriptor table (kind, what has arrived or is held, the
child at the other end), `child` the processes. `pc` and `i` are where
`_runEventLoop()` is and its index. Descriptors are `1..NOFILE`, allocated lowest
first as POSIX prescribes, so numbers really are reused; 0 is the code's -1 and
an absent map key.

Steps. One action is one branch of the loop's body for one reported entry, with
everything it calls: `Branch` decides which branch takes an entry exactly as
the chain of conditions at `Server.cpp:493-727` does, the default Clients that
`_clients[...]` inserts included (`LookedUp`).

| Code | Actions |
|---|---|
| `poll()` and the `for` over `_pollFds` | `Poll`, `IsNext`, `EndPass` |
| CGI pipes, `Server.cpp:496-609` | `CgiPipeError`, `CgiWriteSome`, `CgiWriteEnd`, `CgiReadChunk`, `CgiReadEnd` |
| files, `Server.cpp:611-688` | `FileError`, `FileSome`, `FileEnd` |
| `_acceptNewConnection` | `Accept`, `AcceptFails` |
| `_handleClientRead` | `ReadGone`, `ReadData` |
| `_handleClientWrite`, building | `WriteNothing`, `BuildPage`, `BuildFile`, `BuildUpload`, `BuildCgi`, `BuildCgiFails` |
| `_handleClientWrite`, sending | `SendFails`, `SendSome`, `SendLast`, `SendLastKeep` |
| `POLLERR`, `POLLHUP`, `POLLNVAL` on a socket | `PlainError` |
| `_closeClient` | `CloseClient` |
| `_checkTimeouts`, `_checkCgiTimeouts` | `CloseIdle`, `EndIdle`, `KillLateCgi`, `EndCgi` |
| peers, scripts, clock | `PeerSends`, `PeerLeaves`, `ScriptWrites`, `ScriptMutes`, `ScriptEnds`, `QuietTooLong`, `CgiTooLong` |

A handler that both builds and sends is two actions in sequence on the same
entry: nothing of the server happens in between.

Abstractions, and why they lose nothing the properties tell apart:

* Bytes. A request is complete or not; a response is whole, an error, or a CGI's
  output cut short; a transfer may be partial at most `CHUNKS` times. `bytesSent` is nothing, part of what
  is in the buffer, or (`sent`) a count of a response that was in it before, short of the end
  of the new one (*stray*) or not (*past*): the handlers that reset it do, `FileError` does
  not. Past the end the length to send wraps around, and `send()` fails or sends what it finds. What
  `Response::build()` resolves a request to is a choice among `Routes`.
* Time. Two bits per client: `quiet` (no byte for 60 s) and `late` (its CGI was
  started 10 s ago). The clocks are compared only with these limits.
* Interleaving with the environment. During a pass the server looks at each
  descriptor once, after `poll()`: of what peers and scripts do meanwhile, only a
  reset and a script's exit can change what a handler does, and these are
  allowed at any step up to the sweeps. All else moves before the next `poll()`.
* `poll()` may return with nothing ready (its timeout is 1 s).
* `SIGPIPE` is ignored (`main.cpp:27`), so that a failing `send()` or `write()`
  returns.
* Error pages after a failed CGI are taken as built in memory.
* Pid numbers are reused once waited for and no pipe stands for them any more.

`Faults` names what the environment may do beyond cooperating, so that a run can
say under which conditions a property holds: *idle* (silence or leaving between
requests), *fin* and *rst* (leaving during one), *stall* (not reading the
response, or a service of over 60 s), *ignoreStdin*, *closeStdout*.

### How `RequestStream` corresponds to the code

`req` is `client.req` with the members of `class Request` (`head` stands for the
method and headers: the message they are of), `written` is `fileBytesWritten`,
`phase` what the loop waits for. `ParseHeadersOnly`, `ParseBodyOnly`,
`ParseLength`, `ParseChunked`, `ParseClientRequest`, `ExtractLeftoverRaw` and
`WantsKeepAlive` are the functions of those names; they are run on the whole
buffer after every `Recv`, as in the code, whether or not the request is
complete already. `Recv` is enabled when the loop polls the socket for reading:
until the request is complete, and while a file or a CGI works for it.

| Code | Actions |
|---|---|
| `_handleClientRead`, `_parseClientRequest` | `Recv` |
| `build()` and what the loop registers | `BuildPage`, `BuildFile`, `BuildUpload` |
| the body written to a file or a CGI | `WriteBody` |
| end of a file or a CGI | `FileEnd` |
| last byte sent, Keep-Alive reset | `Sent` |

Abstractions. A header line, a unit of body or a size line is one token, and all
lengths count tokens; what is left of a header is whether request line and Host
are valid, how the body is framed and how long it is, how many trailers follow it,
whether it is a form and whether the connection is to stay. Size lines are well
formed. A `POST` is accepted by
`build()`: what routing refuses is not here. Writes to disk do not fail.

### How `ConfigParser`, `Routing` and `Site` correspond to the code

`ConfigParser`: `tokens` is `_tokens`, `pos` the index `i` that every `_parse...()`
moves, `block` where in the nested loops of `_buildTree()` and `_parseLocation()` the
parser is, `server`, `listens` and `location` their local variables, `servers` the
result. One action is one turn of a loop: a directive with its helper and its
setter, or the beginning or end of a block; each raises (`Throw`) where the code
does. A size without digits takes any of `Leftovers`, since the variable is read
without having been set. A token is a word, a path (the sequence of its segments),
an address or a number with its unit; numbers are those an `int` holds, but for sizes.
`TokensAssumption` says that a file is a sequence of such tokens.

`ConfigFile` is the other side: a file is a tree of blocks and statements, of which
`IsFile` says which directive may stand in which block with which arguments. `Marked` is
the tree as tokens, each marked *spare* if the file may still be well formed without it:
the arguments and the semicolon of a list directive, one of several methods, and the name
of a statement that has no arguments or whose first one reads like a name. `Meant` is what
it means, by what is said last, or in all, under each name. `TextsAssumption` and
`FilesAssumption` say that what is read are such files, and those with one token left out.

`Routing`: `configs` and `sockets` are what `_setupSockets()` makes; a request then goes
through `Arrive` (`_matchConfig()`), `Authorize` (the limit of
`_parseClientRequest()`), `NextSegment` and `Normalize` (`_normalizeUri()`, a step for
each segment), and one of the actions of `Build`, the cascade of `build()` in its
order: `Refuse`, `Redirect`, `RunCgi`, `GetFile`, `GetListing`, `PostRefused`, `Post`,
`Delete`. Inheritance is in `RootOf`, `Autoindex`, `IndexFiles` and `LimitFor`.

| Code | Definitions |
|---|---|
| `parse()`, `_buildTree()` | `CountBraces`, `Top`, `EndOfServer`, `SkipSemicolon`, `Unknown` |
| `_parseLocation()` | `BeginLocation`, `EndOfLocation`, `ParseCgi` |
| each `_parseX()` | `ParseX` |
| `_setupSockets()`, `_matchConfig()` | `SetupSockets`, `MatchConfig` |
| `_normalizeUri()`, `_parseMultipart()`, `_buildErrorPage()` | `NextSegment`, `FilePart`, `ErrorPage` |

Abstractions. The query is stripped; a host name is a word, so not one of dots. On
the disk a path is a directory, a file or *locked*, one that cannot be opened or
removed from; a root is written without a slash at its end. A request in the
parser's hands has the length its body will have. `Dotted` are the hosts `inet_addr()` can
read; any other is the broadcast address to it, which `bind()` takes on Linux although
nobody can connect to it; of the others `bind()` takes those in `Local`. A CGI is a 200 or a 500. Of the
loop nothing is left: a request is served at once, as `build()` is one call.

### How `Transfers` corresponds to the code

`dir` and `data` are the file system (names, inodes, contents), `jobs` what each
Client has under way: `off` is the kernel's offset or `fileBytesWritten`, `got` what
follows the headers in `responseBuffer` or is in `cgiOutput`, `body` what is to be
written or what the script writes, `whole` what `parseBodyOnly()` takes for the body, which
for a form (`Forms`) has the envelope around it, `said` the `Content-Length`. `was`, `clean`, `cut` and
`sole` are there for the properties only.

| Code | Actions |
|---|---|
| `build()`: `open()` and `stat()`; `open()` with `O_TRUNC`; `remove()` | `Get`, `GetMissing`, `Post`, `Delete` |
| file reads, `Server.cpp:636-659` | `ReadSome`, `ReadEnd` |
| file writes, `Server.cpp:663-687` | `WriteSome`, `WriteEnd` |
| bytes received meanwhile: `parseBodyOnly()` again, `Request.cpp:155` | `MoreArrives` |
| CGI stdout, `Server.cpp:545-607` | `Cgi`, `CgiRead`, `CgiEnd` |
| the response sent; `_closeClient()` | `Sent`, `CloseClient` |

Each action is one turn of the loop for one descriptor; those of different
connections interleave in any order. A unit of a file says which upload it is of, so
that a mixture shows. A blank line of a script's output is one unit, hence not cut by
a read: `cgiOutput` is searched only when it is complete, so that a cut would not
matter. That a client which leaves has its descriptor left open (see *Findings*) is
in `EventLoop`; here nobody goes on with the transfer.

### Properties

| Property | What it says |
|---|---|
| `PollSetSound` | no entry names a closed descriptor, and no two the same one |
| `OncePerPass` | of what `poll()` reported, each step takes at most one descriptor off the list and adds none; a pass ends with the list empty |
| `KillsItsOwnChild` | a CGI client's pid is a child that has not been waited for, and no other client's |
| `InServiceWired` | a request in service has its pipe or file polled for the right event and mapped to it, its socket watched only for reading |
| `MapsPointHome` | every map entry names an open descriptor and the client that holds it |
| `NothingLost` | every open descriptor is polled, every child is waited for by a client |
| `KeepsPromises` | refines `Connections`: one response per complete request, no connection dropped in service |
| `KeepsPromisesInTime` | and with its fairness: each request is answered and the answer delivered |
| `EveryCgiReaped` | every child ends or is killed, and is waited for |
| `BlocksOnlyOnMuted` | the loop always returns to `poll()`, unless a script has closed its stdout and stays |
| `OnlyBrokenAreLost` | whatever the faults, nothing is ever open and not polled but ends of pipes and connections their peers have reset |
| `AnswersWhatWasSent` | the answers are those the messages call for, in order: same refusals, same bodies written |
| `BufferStartsAMessage` | what is buffered and what is unread are together the unanswered messages, unless the one before had trailers |
| `CompleteWhenWhole` | a request is complete when the last of its bytes is there, and not before |
| `AllAnswered` | every message up to the one that closes the connection is answered |
| `ReadsWhatIsMeant` | a file is read as what it means, whatever the order of its directives |
| `CatchesOmissions` | a file with a token missing is refused, but for spare tokens |
| `ResolvesByDescent` | `_normalizeUri()` keeps the segments no `..` cancels, and refuses what climbs above the root |
| `Confined` | what is read, run, listed, removed or written lies below its root or store |
| `NamesStayOnTheirPort` | a request is answered by a server of the port connected to, by one with the name if there is one |
| `LimitOfItsLocation` | the limit on a body is that of the location which serves it, for a URI without dots |
| `SourceOnlyThroughIndex` | a script's source is never the answer, unless it is an index file |
| `ChangesWhereAllowed` | files appear and go only where a location of a server on that port allows it |
| `EveryRequestAnswered` | every request comes out of the cascade with an answer |
| `DownloadsAreFaithful` | a download is the file as it was when opened, as long as was said |
| `UploadsAreWhole` | a file is the last upload of it, whole, once the upload has ended |
| `ScriptsAreQuoted` | a CGI's response is what the script wrote after its first blank line |
| `EveryTransferEnds` | every transfer ends, though its file grows and shrinks under it |

What the repository says and a run refutes (see *Findings*): `NoConnectionForgotten`,
`CgiOutputComplete`, `NeverBlocks`, `OnlyTheFilePart`, `NextRequestMarked`, and
`SentIsOfTheBuffer`: `bytesSent` counts bytes of the response in the buffer.

The exceptions each names are the code's, and the property shows there are no
others: `AnswersWhatWasSent` that of a full buffer,
`DownloadsAreFaithful` an upload that has the same file open, `UploadsAreWhole` a
second upload at the same time, a failing write, a client that left and a form whose
client sends more before it is written (the answer is
201 all the same), `ScriptsAreQuoted` a zero byte, blank lines of both kinds and output
left unread at `POLLHUP`. `AnswersWhatWasSent` and `BufferStartsAMessage` say nothing of what is
left of trailers: that there should be nothing left is `NextRequestMarked`, which the run
`trailers` refutes.

`ReadsWhatIsMeant` compares with `Meant` of `ConfigFile`, a reading of the file as nested
blocks that knows no index and no braces; `ResolvesByDescent` with `Kept`, which says
by counting which segments stay and knows no stack.

The first three and `OnlyBrokenAreLost` hold whatever peers and scripts do; `InServiceWired` to
`EveryCgiReaped` when they cooperate (a peer that leaves in service or a script
that ignores its input breaks them: see *Findings*).

`AnswersWhatWasSent` to `AllAnswered` are of `RequestStream`, the next nine of `Site`, the
last four of `Transfers`. `AnswersWhatWasSent` compares with
`Expected`, which is computed from the messages and knows nothing of buffers.

### Fairness

`WF_vars(Loop)`: the process is scheduled, and `poll()` returns within a second.
`SF_vars(CgiTooLong)`: time passes; strong, because the model lets the limit be
crossed only just before a `poll()`, so the step is enabled again and again and
not continuously, until the CGI ends. Nothing is assumed of peers or scripts: a
script may run for ever, and `EveryCgiReaped` and `KeepsPromisesInTime` then rest
on the timeout alone. Each choice in a cooperative run that could repeat for ever
(partial transfers) is bounded by `CHUNKS`. `RequestStream` assumes `WF_vars(Next)`:
the loop goes on, and what the peer has sent arrives. `Site` assumes weak fairness of
the steps between the arrival of a request and its answer, which are one call in the
code; of parsing and of arrivals nothing. `Transfers` assumes `WF_vars(Transfer(c))` for
each connection: regular files are always ready, `poll()` reports each descriptor in
each pass, and a script comes to its end or is killed.

## Runs

Bounds common to all: one listening socket; `NPEER` open connections at a time,
any number over a run. Descriptors and pids are recycled without end, so a run
covers behaviours of any length.

| Run | Instance | Question |
|---|---|---|
| `cooperative` | 2 connections, 1 child, routes CGI with a body and file, no fault, fair; 80 040 states | Do the tables agree, is nothing lost, is `Connections` implemented, also in time? |
| `faulty_cgi` | 1 connection, 2 children, all CGI routes, partial transfers, peers leaving, scripts ignoring stdin or closing stdout, fair; 66 394 states | Is the poll set sound, what is lost, is only the right child killed, what alone can stop the loop? |
| `faulty_files` | 3 descriptors, 2 connections, pages, files, uploads, peers leaving or stalling; 259 581 states | With numbers reused under stale map entries and the table full: types, poll set, nothing lost, one dispatch per report |
| `site` | 6 files as written and 138 with a token left out; servers on two ports, 3 locations, 51 requests; 12 228 states | Is a file read as meant or refused, does each request come to the right server, location, file and answer? |
| `transfers` | 2 connections, one name, 2 uploads of 0 or 2 units, the second a form, reads of 1 unit, writes of any length, 3 script outputs, fair; 468 572 states | What do transfers of the same file do to each other, how is output quoted, does each transfer end? |
| `stream` | 194 streams of two or three messages, every cutting into reads of up to 3; 8 750 states | Does cutting or pipelining change what is parsed, refused, written or answered? |
| `forgotten` | 3 connections, 1 child, CGI with a body, resets; the trace has 44 states | finding 1 |
| `cut`, `blocked`, `form`, `trailers` | small | findings 2 to 5 |
| `stray` | 2 connections, pages and files, resets, 3 descriptors; the trace has 44 states | finding 6 |

Why the bounds suffice. Two connections are what it takes for a number closed by
one to be met by the other; one CGI and one file let each kind of helper
descriptor run beside the other. `cooperative` has nine descriptors: a listener,
two sockets, two pipe ends of one CGI, and four free for the second CGI attempt,
because with fewer than four free the second `pipe()` fails and leaks the first
(a hazard listed in `PROJECT.json`); with `NPID = 1` a second CGI fails at
`fork()`, which is the 500 path. `faulty_cgi` needs two children so that the
child of a client that left lives beside the next one's. `faulty_files` has
three descriptors, the tightest table in which a file can still be open: every
number is reused at once and `accept()` and `open()` fail. `OUTBUF` is 1 where
output is drained and 2 where losing the rest is the question. Together the
passing runs take every action; deadlock is checked in all of `EventLoop`, and
cannot occur even when `waitpid()` blocks, since the outside can still move.
In `stream` a message is a request with or without a body of either framing, one
that is refused for each of the four reasons, or one that closes; reads of three
cut every head and chunk in each way, and are smaller than each body's encoding.
Messages without body units, with one and two trailers and more than `MAXHEAD` behind
a request are among them. A behaviour ends when all
messages are answered: that run does not check deadlock, `AllAnswered` does.

In `site` every directive is said somewhere, some twice; `Main` has two servers on a port
and one on another with a name in common, `Odd` sizes that wrap or have no digits,
`Clash` two addresses that cannot both be bound, `Away` one of another machine, `Short` lists followed by blocks, so
that a missing semicolon swallows one, `Loose` lists of nothing and arguments that read
like names. `WORD` is 64 and `KILO` 4, so that a size wraps
within three units. The URIs have each kind of empty segment and dot, at the root,
inside and at the end, and names that begin as a location's. A program whose
configuration is refused has stopped: no deadlock check, `EveryRequestAnswered` instead.

In `transfers` two connections and one name are what it takes for any two of download,
upload and deletion to meet; two uploads, for one to truncate the other; a body of two
units, for a write to end inside it, and of none, for a write of nothing; one upload is a
form, whose envelope may come back before, in or after the first write of it, and one is not.
Outputs end after their headers, have data behind them, or are nothing but a zero byte. `Seconds` is
empty: two uploads without a name in one second are two of one name. Scripts run on
one connection, since they share nothing. A connection that does nothing may go on
doing so: no deadlock check.

## Findings

1. **`forgotten`**: `_closeClient()` (`Server.cpp:132`) leaves the CGI child, pipes or
   file of the client, and their map entries, though `Server.hpp:72` says it removes all
   bookkeeping. The orphaned entries re-create a default Client under the old number
   (`Server.cpp:500`), or are taken for a later connection's. Since the loop tells a
   pipe by its number being in `_cgiToClient` (`Server.cpp:498`), a connection accepted
   under such a number and reset by its peer is taken for a broken pipe: it leaves
   `_pollFds` (`Server.cpp:515`) and is never closed, nor swept, since the sweep walks
   `_pollFds`. It takes three connections at a time; `OnlyBrokenAreLost` shows that only
   reset connections are lost this way.
2. **`cut`**: on `POLLHUP` the handler reads at most 4095 bytes, once, and closes
   the pipe (`Server.cpp:555`), though the comment says the pipe has reached EOF.
   A script that has written more and exited before the next `poll()` loses the
   rest, and `Content-Length` is computed from what was read.
3. **`blocked`**: `waitpid(pid, &status, 0)` at end of file waits for a script
   that has closed its stdout and still runs; the loop, and the timeout that
   would kill the script, wait with it. README.md:14 promises no blocking I/O.
4. **`form`**: while a form's file part is written, the bytes of the next request
   make `parseBodyOnly()` run again and put the whole multipart body back over it
   (`Request.cpp:155`): what is written from then on is the envelope.
5. **`trailers`**: the comment at `Request.cpp:182-185` says trailers are ignored and the
   consumed count marks the next request. The code skips to the next line end
   (`Request.cpp:186`), which with trailers is that of the first one: the rest of them is
   taken for a request, refused with 400, and the connection closed on the request behind it.
6. **`stray`**: on `POLLERR` of a file descriptor the client it is mapped to has its buffer
   replaced and `bytesSent` kept (`Server.cpp:618-631`; 598, 651 and 679 reset it). Through the
   stale entries of finding 1 that client may be in the middle of another response: the
   500 is sent from its middle, or `length() - bytesSent` (`Server.cpp:367`) wraps around.
   `Client.hpp:36` says `bytesSent` counts bytes of `responseBuffer`. A connection with a file is
   reset, new connections get both its numbers, one is sent part of a page when
   the other is reset.

Met while modelling, and not runs of their own: on `POLLERR` of a CGI's stdin (the script
ended without reading all of its body) the entry is dropped and the descriptor never closed
(`Server.cpp:503-516`), one per such request, though `TESTES.md:74-80` and `450-452` ask that
none leak: `OnlyBrokenAreLost` has it as its exception; the idle sweep exempts pipe and file descriptors,
not the sockets they work for (`Server.cpp:425`), so that a transfer of over 60 s is cut, though
`Server.hpp:68` says that connections with a CGI or a file in flight are skipped; a
`Content-Length` of 0 with nothing behind it waits (`Request.cpp:85`); more than
`MAX_HEADER_BYTES` piled up behind a request in service are refused with 431
(`Server.cpp:202`); a missing semicolon of a list directive swallows what follows
(`ConfigParser.cpp:204, 218, 328`); a size may wrap, to 0, which is no limit
(`ConfigParser.cpp:273`), or be read from no digits (271); the limit's location is that of
the raw URI, though the comment at `Server.cpp:223` says both agree, and with dots they
do not; an index file that is a script is sent as its source (`Response.cpp:377`);
an upload that fails half-way is answered 201 (`Server.cpp:672`). `TESTES.md:211-215` posts a
raw body to `/files/meu_teste.txt` and expects to get it back under that name; the code takes a
raw body's name from its `Content-Disposition` alone and otherwise stores it as
`upload_<time>.bin` (`Response.cpp:510-535`), so that the GET which follows is answered 404: `Post`
and `UploadName` have it so, and `Confined` says only that the name is one below the store.

## Proofs

`SiteProofs.tla` proves, with `RequestsAssumption` (what a request is) for all of it, and
`TokensAssumption` (what a token is) and `SizesAssumption` (sizes are naturals) for the
last one, for any configuration files, requests and disk:

* `StaysBelow == SiteSpec => []Confined`. The inductive invariant `ConfinedInv` says that the
  stack of `_normalizeUri()` only ever has names that lead down, and that an answer
  which opens, lists, runs or removes is of the path made of that stack. The work is in
  that `Front` and `Append` keep it so, that a request which climbed is refused before
  anything is touched, and that `UploadName` is one name whatever the client sent.
* `ScriptsStayHidden == SiteSpec => []SourceOnlyThroughIndex`, from the order of the cascade:
  the extension has been looked at when a file is opened, and only an index file can
  be another.
* `PortsApart == SiteSpec => []NamesStayOnTheirPort`. `HostsInv` adds that before the server
  is up no request is there, and that every socket's port is that of some server: so
  `_matchConfig()` never has to fall back to a server of another port (`MatchedOnPort`).
* `OneLocation == SiteSpec => []LimitOfItsLocation`. `LimitInv` ties the stack to the part of
  the URI already seen: for a URI without dots and empty segments, the stack is the
  names among the first `p` segments (`Taken`), so that `Normalized` gives the URI back,
  the slash at its end included, and both look-ups are of one string.

* `ResolvedByCounting == SiteSpec => []ResolvesByDescent`, for a URI of any length. `Kept` and
  `Climbs` count, the code keeps a stack: `ResolveInv` says that after `p` segments the
  stack is `Along` the places of the names that no `..` has taken back (`Trail`), the
  n-th of them n deep, and that its length is `Descent`. `OneMore` gives what counting
  one segment more does; a name makes the trail longer (`TrailGrows`), a `..` takes
  its last place away (`TrailShrinks`), since all places behind it have gone, and
  anything else leaves it. At the end a place of the trail is found by counting the
  places before it (`IncreasingCounts`, `KeptAlong`).
* `DiskIsGuarded == SiteSpec => ChangesWhereAllowed`. Only `Post` and `Delete` change the
  disk. `DiskInv` joins the invariants above with `Matched` (the server of a request
  is one that was read) and `Parsed`, the types of all that the parser makes, which
  it keeps through every directive (`ParsedNext`): without it a path could not be
  taken apart again. Then: without a location there is only GET (`LocationLets`), so
  that the one which was asked for leave is the one whose store is written to
  (`PostPuts`); and the string the location was found by leads to just the names
  that follow the root in the path removed (`NormalizedLeads`, `DeleteTakes`), as the
  root is never empty.

`ReadingProofs.tla` proves, with `TextsAssumption` and `FilesAssumption` (what is read is a file,
or one with a token left out), `TokensAssumption` and `SizesAssumption`, for any set of files of
any length, with blocks and directives in any number and order:

* `ReadAsMeant == SiteSpec => []ReadsWhatIsMeant` and `OmissionsCaught == SiteSpec =>
  []CatchesOmissions`, both from one invariant. Neither property is inductive, nor can one be
  proved without what the other needs: the parser has one index and no tree, so both rest
  on where in the tree the index is. `ReadingInv` says of each text *t* and each *q*: if what is being
  read is *t* without its *q*-th token (with *q* one more than there are, nothing is missing) and that token
  is not spare (`Missing`), then the parser has refused it, or has accepted all of *t* and built
  `Meant(t)`, or is at a `Stage` (`Outcome`). A stage is a place between two servers, directives or
  statements (`ServerAt`, `DirectiveAt`, `StatementAt`), or at the semicolon before one, no token of
  which the parser has passed being the one that is missing (`Due`); and what has been built is what
  the part of the tree before it means (`ServerSoFar`, `LocationSoFar`). TLC has checked `ReadingInv`
  on the instance of the run `site`.
* *Where things are.* A tree as tokens is sequences put together, again and again. `Offsets` and
  `Stands` say where each of them begins and what stands there (`ServerPlace`, `DirectivePlace`,
  `StatementsStand`); `NextStatement` and `NextDirective`, what comes behind each.
* *Braces.* The first pass only counts. `EvenFile`: the count never falls below 0 in a file and ends
  there; so it is kept without a token that is no brace, and is lost without one that is
  (`BalanceKept`, `BalanceLost`). A brace that is missing is refused before anything is
  read, and from then on it is known that none is.
* *One item more.* `Meant` is made of folds; the parser adds to a record. `MeantMore`,
  `ServerMore` and `LocationMore` say what each fold gives for a list with one more item: appended for a
  list, replaced for what is said last, and for `error_page` a function that overrides.
* *A statement is read or refused.* `StatementPassed`: from the place of a statement on, the
  helper either comes to the end of it with none of its tokens missing, or throws,
  whichever token is missing. For each shape it says what stands in the place of the token that is
  not there: the next name, a brace, a semicolon (`SingleLacks`, `ReturnLacks`, `MethodsLack`,
  `ListLacks`). Here the marks are found: a name whose first argument reads like a name is such a
  case, and so a spare token. `ServerTakenIn` and `LocationTakenIn` then say what a
  statement read in whole leaves in the record, a size that fits its word among them.
* One lemma for each turn of the loops: `FileStep`, `TopEnds`, `TopGoesOn`, `ServerSays`,
  `LocationStarts`, `ServerEnds`, `LocationSays`, `LocationEnds`.

The proofs about `EventLoop` use `SizesAssumption` and `ShapeAssumption` (sizes are naturals,
the listening sockets fit in the table, routes and faults are known ones). With nothing
else, whatever peers and scripts do:

* `TypeCorrect == Spec => []TypeOK`: every variable keeps its type, whatever
  peers and scripts do. It is inductive as it stands. The work is in what C++
  would not tell: that an erased index is within the vector (`RemoveAt`), that a branch which uses a Client without
  looking it up first finds one that exists (`CgiBranch`, `FileBranch`,
  `HolderIsClient`), and that what is written into a map is a descriptor. It says nothing of
  `bytesSent`, which may count bytes of another response (finding 6).
* `PollSetIsSound == Spec => []PollSetSound`: `poll()` is never given a closed
  descriptor, nor one twice, for any number of descriptors, connections and
  children, any faults, and under all the stale map entries of finding 1. The
  inductive invariant is `TypeOK /\ PollSetSound`: the types are needed because
  removing an entry, and searching one by number, is only meaningful within
  them. The argument: whoever closes a number removes its only entry in the same
  step (`SoundErase`, `SoundRemove`, using that there is only one), and what is
  appended was free the step before, hence not polled (`SoundAppend`), two pipe
  ends being different numbers; everything else leaves descriptors and numbers
  as they are (`SoundSameFds`, `SoundMoreOpen`, `SoundWant`). There is one lemma
  per group of actions for each of the two invariants, and one step per action.
* `DispatchedOnce == Spec => OncePerPass`: the entries still to be looked at
  (`Left`) lose at most one descriptor in a step and gain none, although handlers
  erase and append entries under the index. It rests on the soundness of the poll
  set: as no descriptor is polled twice, an erased entry is the one looked at or
  one that `i--` compensates, and what is appended carries no report.
* `OnlyItsOwnChild == Spec => []KillsItsOwnChild`. Not inductive as it stands:
  `_checkCgiTimeouts()` tells a running CGI by `isCgi`, the loop by which pipe is
  reported. `Owns` adds that the two agree: a client that still has a stdout pipe is a
  CGI client, the child of a CGI client has not been waited for, and no two clients have
  the same one. A `fork()` yields a number no live child has, so that a new client's pid
  is nobody's; whoever waits for a child clears the flag in the same step
  (`OwnsWaitedFor`).

* `NothingElseIsLost == Spec => []OnlyBrokenAreLost` (`LostProofs`). One branch alone erases
  an entry without closing its descriptor, that for broken CGI pipes. `Kept` adds that what
  `poll()` has reported as broken is an end of a pipe or a reset connection and still is
  when its entry is looked at, and that nobody resets a listening socket. Everything
  else closes what it erases (`KeptRemove`, which needs that there is only one entry),
  and appends an entry for what it opens (`KeptAppend`).

With `Cooperative == Faults \subseteq {"idle"}`: peers leave or are silent only between two
requests, scripts read their input and end. Without it each of these is false (findings
1 and 6, the stdin left open and the idle sweep), and the run `cooperative` checks them in that setting; the proofs are for any
number of descriptors, connections, children and partial transfers and any routes.

* `StaysOrderly == Spec => []Orderly` (`CooperationProofs`), the invariant the others rest on.
  The maps alone are not inductive, nor is any part of it. `Wired`: who is a
  client is a connection, and the pipes and files that are mapped are exactly those the
  clients hold. `Attended`: each child has one client that waits for it, and does not end
  while its stdin is still open, so that the branch for broken pipes is never taken.
  `Watched`: each open descriptor is polled for what its client needs next, so that
  an event brings the entry to the branch that expects it. `Reports`: what `poll()` has
  reported is still so when the entry is reached, although other entries have been
  handled since. A `close()` gives a number back, and `Wired` says that nothing is left under it
  when it is handed out again: that is the step that fails with finding 1.
* `MapsAreTrue == Spec => []MapsPointHome` and `ServiceIsWired == Spec => []InServiceWired`
  follow from it, at every step and not only between two passes.
* `CountsItsOwn == Spec => []SentIsOfTheBuffer`: no response is sent from its middle, since
  a file is then mapped to the client that waits for it and has been sent nothing.
* `PromisesKept == Spec => KeepsPromises` (`PromisesProofs`), the refinement. Each step moves
  at most one connection (`OneMoves`) along one of the five actions of `Connections`; `Orderly`
  says which client the entry at hand works for and in which phase it is, so that
  a helper's end is an answer to a request that waits for one, and what a sweep or a
  peer closes is owed nothing. One lemma per group of actions (`HelperKeeps`,
  `ReceiverKeeps`, `SenderKeeps`, `SweepKeeps`, `OutsideKeeps`), one step per action.
* `RoomyLosesNone == Spec => []NothingLost` (`LostProofs`), with `Roomy == NOFILE >= 3 * NPEER + 4 *
  NLISTEN - 1` besides. The one step that loses a descriptor then is a second `pipe()`
  that fails. `Few` counts what is open: a connection takes three at most, its socket and
  two pipes, and the one about to launch a CGI has none of its pipes yet, so that four are
  free (`FourAreFree`). The bound is that of the run `cooperative`, nine, and cannot be
  less: with eight TLC finds a second `pipe()` that fails.

With `WithoutScripts == Routes \cap {"cgi", "cgiBody"} = {}` and any faults:

* `FilesAreNeverLost == Spec => []NothingLost` (`LostProofs`), by `Scriptless` (no pipe, no child,
  no entry of `_cgiToClient`) and `Covers` (what is open is polled): what is lost in finding 1
  is the CGI branches' doing, not that of stale entries as such.

`TransfersProofs.tla` proves, with `TransfersAssumption` and `OutputsAssumption` (bodies and
outputs are sequences of units) and nothing else, for any number of connections, uploads
and names:

* `TransfersTyped == Spec => []TypeOK`.
* `Faithful == Spec => []DownloadsAreFaithful`. `DownloadInv`: as long as no upload has had the
  file open, what has been read is the prefix of what the file was, as long as the
  offset, and the rest is still in the file, under its name or under none.
* `Whole == Spec => []UploadsAreWhole`. `UploadInv`: the file of an upload that has been alone in
  it is the prefix of its body that has been written, or it is known to be cut; a write at the
  end of a prefix makes a longer one (`WriteAtPrefix`). As long as the upload has the file to
  itself the body is the one it was opened with: `MoreArrives` on a form gives the file up.
* `Quoted == Spec => []ScriptsAreQuoted`. `ScriptInv`: what has been read is a prefix of the
  output (`SubSeqGrows`), since a piece without a zero byte is appended whole
  (`CStringWhole`); with blank lines of one kind the first one found is the first
  there is (`BlankIsFirst`).

`RequestStreamProofs.tla` proves, with `LimitsAssumption` and `StreamsAssumption` (a stream is a
sequence of messages; no body without framing, no trailers but behind chunks, none of
both for `GET`), for streams of any length, bodies in any number of chunks of any size, any
limits and any reads:

* `StreamIsTyped == Spec => []TypeOK`, `NothingIsSkipped == Spec => []BufferStartsAMessage` and
  `CompleteInTime == Spec => []CompleteWhenWhole`, all from `StreamInv`. Its core is `Held`, the
  five things `client.req` can be while message *k* is next: nothing parsed yet; refused with
  431 or 400; refused with 413; headers accepted and waiting; whole. `Parsed` adds that it has
  been taken as far as the buffer goes. `StreamInv` needs both: `Held` alone would let a
  complete request wait in the buffer. `ParseStep` is the lemma everything rests on: one call of
  `_parseClientRequest()` on any beginning of what is to come (`Opens`, `Here`) gives
  `Parsed`, and what was complete stays complete; so the cutting does not matter. Under it:
  where each chunk and the last of them begin on the wire (`ChunksAre`, `ChunkPlaces`), that
  the walk over the buffer finds exactly the chunks that are there, and the end exactly when
  it is there (`ChunksFound`), and that the empty line is found where the head ends
  (`HeaderSeen`). `LeftOver` is the Keep-Alive reset: what is behind the boundary, with what is
  still to come, is message *k + 1* behind its strays.
* `NoByteIsLost == Spec => []HoldsTheRest`: with what is left of trailers in front of the messages
  the boundary holds behind trailers too, and the damage of finding 5 goes no further.
* `AnswersHold == Spec => []AnswersButCutForms`, with no further hypothesis: every answer is as
  `AnswersWhatWasSent` has it, but that of a form with more behind it (`CutForm`: finding 4) and the
  400 to what is left of trailers (finding 5).
  `Truth` ties `out` to `Expected` of the message that is next, and says that all before it
  leave the connection open, from which it is due an answer (`IsDue`); `Further` is the
  partial write.
* `AnswersAreRight == FormsComeLast => (Spec => []AnswersWhatWasSent)`: where a form is the last
  of its stream there is no exception. The run `form` shows that the hypothesis is needed; the
  streams of the run `stream` satisfy it.

Induction is by sets and not by predicates: `UpFrom` and `DownFrom` say that a set
which has a number whenever it has all below, or above, has every number; `BackwardExists` gives the
function that a definition by recursion towards the end describes.

Only model-checked: all liveness (`KeepsPromisesInTime`, `EveryCgiReaped`,
`BlocksOnlyOnMuted`, `AllAnswered`, `EveryRequestAnswered`, `EveryTransferEnds`): fairness
and `ENABLED` are out of the prover's reach. So are `RECURSIVE` operators and the library's
induction theorems, which take a predicate. No prover takes a literal for a string, or expands `@@` and
`:>`: the proofs name the literals they meet (`Text`), and the modules they are about
write functions out.

## Not modelled

* The environment handed to a CGI (`Response.cpp:599-720`, the part in the child), which is
  data for another program; `chdir()` and `execve()` failing is a script that exits.
* Header syntax, beyond whether a request is valid; wording, HTML and MIME types.
* `_tokenize()`'s comments and blanks: a token list is where the model begins.
* File permissions, beyond *locked*; symbolic links; a disk that is full at `open()`.
* The usage message of `main()`. The sample site is data; configurations of its shape
  are inputs of `Site`, scripts are the environment of `EventLoop` and `Transfers`.

## Plan

Modelled and checked: `EventLoop` and `Connections`, `RequestStream`, `Site` with parser and
routing, `Transfers`. Every invariant and action property that a passing run checks is
proved, and so is the refinement of `Connections`. What is left is liveness, which stays with
TLC, and the parts listed above as not modelled.
