# Verification of byte_stacker

byte_stacker tunnels TCP connections through UDP.  A client program
(`byte_stacker_in`) accepts TCP connections at local points, a server program
(`byte_stacker_out`) makes TCP connections to the external points they stand for,
and the trunk between the two carries the bytes as numbered chunks in datagrams.
This directory models the program in TLA+, checks it with TLC and proves with TLAPS
every safety property that a passing run checks, for all values of the constants.

    tlc -config OutLink_in.cfg OutLink      one run
    tlapm OutLinkProofs.tla                 the proofs about a link, about a minute
    tlapm TrunkProofs.tla                   the proofs about the trunk, two minutes
    tlapm ServerThreadsProofs.tla           the proofs about the server's threads
    tlapm CommandLineProofs.tla             the proofs about the start of the programs

`PROJECT.json` lists the runs, the mutants, the source lines of every definition,
the findings and the hazards.

## The system

| part | state | operations | where |
|---|---|---|---|
| OutLink: one TCP connection | socket, `write_chunks_`, `network_write_buffer_`, `next_write_chunk_id_`, `stop_*`, `read_processing_`, `write_processing_`, `close_invoked_` | Run, SendData, Stop, the handlers of resolve, connect, read, write, idle timer, CheckReadyClose | `common/outlink.*` |
| TrunkLink: one end of the trunk | `out_links_` (link, next index, live deadline), `packet_data_cache_` | SendData, CloseConnect, ProcessTrunkData and its handlers, the update timer | `common/trunklink.*` |
| TrunkClient | `connect_cache_`, UDP socket | AddConnect, create resends, ProcessAckConnectData | `common/trunklink.*` |
| TrunkServer | `clients_link_`, UDP sockets, link fabric | ProcessConnectData, AddClientLink, routing of sends | `common/trunklink.*` |
| client program | points, acceptors, one io_context thread | main, ListenLocalPoint, RegisterConnect | `byte_stacker_in/` |
| server program | points, four io_context threads, `stop_flag` | main, link fabric, statistics, signal | `byte_stacker_out/` |
| parser | none | ParsePoint (two), ParseTrunkPoint | `common/parser.*` |

How they interact.  The client accepts a socket, makes an OutLink and registers it
(AddConnect); the create datagram makes the server build the matching OutLink, which
resolves and connects.  From then on both ends do the same: a link calls
`TrunkLink::SendData` for what it read, the trunk calls `OutLink::SendData(index, ...)`
for what arrived.  A link that ends calls `CloseConnect`: the trunk sends a release
datagram with the next index and drops the link, and the other end calls
`OutLink::Stop(index)`.  A link that misses live datagrams for 5 s is told `Stop(0)`.
All calls are made from io_context handlers: one thread in the client, four without
strands in the server.

What is hard about it:

- the read loop, the write loop, the idle timer and the trunk work on one link at
  the same time, some flags are atomics, some are under `write_chunks_lock_`;
- `socket_.cancel()` does not reach an operation that has completed and whose
  handler is only queued;
- datagrams are lost, repeated, reordered; creates, data and releases overtake each
  other; caches give up after 2 s, live timeouts come after 5 s;
- an end may forget a connection, or its whole memory, while the other goes on.

What makes a part correct:

- OutLink: the peer gets chunks 0, 1, 2, ... exactly; a stop by index delivers
  all that lies before it; no wake-up is lost; the hoster is told once, at the end,
  when nothing uses the socket any more, and always in the end.
- Trunk: each end gets a prefix of what the other read; a release cuts nothing off;
  a link is never replaced or rewound; a link whose partner does not know the
  connection is told to stop.
- Server threads: one live link per connection, listed exactly while it lives; packets
  go where the connection was heard from; mutexes, those of the links included, are
  taken in one order; statistics lose nothing; a signal ends the program with nothing
  running.
- Command line: accepted arguments and only those; the values are those written; the
  exit code says what was wrong; a server has all its sockets or does not run.

## Modules

`OutLink.tla` is one link.  Its variables have the names of the fields; `starter`,
`reader`, `writer`, `posts` and `closer` say which asynchronous operation or handler
is where, e.g. `writer = "woken"` is an idle timer whose handler is queued.  A handler
that works under `write_chunks_lock_`, or touches one shared flag, is one step.  A
handler with a window in which another thread may act is split at the window, and
`Busy` counts the threads that stand in one, so that nothing runs inside a window when
`PoolSize = 1`.  The queue of the io_context is taken as a set: a queued handler may
run in any order, which includes the order of the queue.  Chunks are indices; a
partial write ends between two of them.

| definition | code |
|---|---|
| `Run`, `ResolverProcessing`, `Connecting`, `RequestConnectProcessing`, `StartWriting` | Run, the handlers of resolve and connect |
| `ReadCompletes`, `RequestReadProcessing`, `ReaderCancels`, `ReaderMarks` | the read, its handler, CancelReadWrite in two steps |
| `FillNetworkBuffer`, `RequestWrite`, `WriteCompletes`, `RequestWriteProcessing`, `WriterCancels`, `TimerExpires`, `TimerHandler` | the write loop |
| `CheckReadyCloseProcessing`, `CloseConnect` | the end of a link |
| `SendData`, `Stop` | calls of the trunk |

`OrderedLink.tla` is the abstract link: the peer receives ever longer prefixes of the
stream, the trunk takes chunks, until the trunk is told, once, that it is over.
`OutLink!ImplementsOrderedLink` is the refinement (`delivered <- socket_out`,
`closings <- close_calls`).

`OutLinkProofs.tla` holds the theorems about OutLink.

`Trunk.tla` is both ends of the trunk and the network between them.  A link appears in
it with what the trunk sees of it: it takes chunks from its peer at any time, gives the
chunks it received to its peer in order, stops at an index, and ends.  `network` is the
set of datagrams in flight; with `Duplication` they stay there for good and arrive any
number of times, without it each is received once or lost.  Every handler is one
action: the update timer (`Update`) does what SendLivePacket and OnCacheResend do, which
touch different fields, and `due` says whether a second has passed since the last live
packet.  `source` and `load` of a packet are not in the datagram, they let the
properties say where a chunk came from.  A failed assertion ends an end for good
(`up`).

At each end the fields `sent` and `delivered` are histories.  Indexes have a width
(`MaxIndex` is 2^32 - 1 in the code): the last but one, `kBadPacketIndex`, is used up
without anything being sent, the last one means "no stop" in a release.

`Pipe.tla` is the abstract trunk: an end opens links, links read chunks, an end gives
its peer the next chunk of the stream that was read at the other end, links close.  It
says nothing of datagrams, indexes, caches and timers.  `Trunk!ImplementsPipe` is the
refinement; `open` is mapped to the connections in `out_links`.  `TrunkProofs.tla`
holds the theorems about Trunk.

`ServerThreads.tla` is the server program at the grain of its mutexes: the three of the
trunk and the `write_chunks_lock_` of every link.  A critical section that takes no
other mutex is one step; SendLivePacket, OnCacheResend and ProcessConnectData, which
hold one mutex while they take another or look and then insert, and RequestWrite, which
takes `write_chunks_lock_` and then again, are several steps; `held` and `chunks_held`
say who is inside.  `write_chunks_lock_` is recursive (`Open`), the others are not
(`Free`).  Each socket, the update timer, the reader or end of a link and its write loop
(`writer`) have at most one handler at a time, as in the code (a socket receives again
when its datagram is processed; a link closes when neither loop goes on), and at most
`PoolSize` of them run.  In the loop of SendLivePacket `todo` are the connections that
get a live packet, `stops` the links past their deadline, which get `Stop(0)`.  The main
thread is a process of its own.  `MCServerThreads.tla` is the instance for TLC,
`ServerThreadsProofs.tla` holds the theorems.

| definition | code |
|---|---|
| `Receive`, `AddClientLink`, `SendAck`, `LookForLink`, `InsertLink`, `GetOutLink`, `GiveToLink`, `ProcessLive` | RequestReadingTrunk and what it calls |
| `TimerExpires`, `SendLivePacket`, `OnCacheResend`, `TimerSends`, `TimerStops`, `TimerLoopEnds` | RequestUpdate and what it calls |
| `LinkReads`, `ReadFails`, `CancelReadWrite` | RequestReadProcessing |
| `LinkEnds`, `GetNextPacketIndex`, `CachePacket`, `SendPacket`, `RemoveOutLink` | CheckReadyCloseProcessing; TrunkLink::SendData, CloseConnect |
| `WriterCalled`, `WriteFails`, `WriterLocks`, `WriterLocksAgain`, `WriterUnlocks` | RequestWrite and who calls it |
| `Signal`, `LookAtFlag`, `GetStat`, `Join` | main |

`CommandLine.tla` is the start of both programs: `Argument` is one turn of the loop over
`argv`, `Checks` what follows the loop, then the server binds its sockets one by one and
the client spawns its listeners.  The parser works on texts abstracted to what it tells
apart: a number (also one that does not fit), nothing, something that is not wholly a
number, a missing separator; an address is an IPv4 address, a name, or empty.  The
properties compare it with the usage text, written as a grammar.  `ParsePorts` is the
loop of ParseTrunkPoint as a recursive function, the grammar says which lists it should
accept without recursion.  `CommandLineProofs.tla` holds the theorems about it.

Mutants, definitions marked so in a comment, stand before the definition they replace;
no behaviour of the model uses them.

## Runs

| run | what it shows |
|---|---|
| `in_link` | a link of the client (one thread, connected socket): stream order, stop index, wake-ups, graceful stop, quiet end, refinement of OrderedLink; if the peer closes some day, a stopped or broken link calls CloseConnect |
| `out_link` | a link of the server (four threads, resolve and connect that fail): the same, without the quiet end |
| `trunk_safety` | one connection, two chunks each way, every datagram delivered in any order any number of times: releases cut nothing off, refinement of Pipe |
| `half_open` | lossy network, restart, a link refused or made twice, a chunk lost for good that a link waits for, the last indexes: a link whose partner does not know the connection is told to stop, a link that is there is not replaced, rewound or opened again; refinement of Pipe |
| `server_threads` | two sockets, timer, both loops of the links and main thread from mutex to mutex: one live link per connection, routes, indexes of a link that is gone, statistics, lock order, end of the program after a signal |
| `command_line` | all command lines of up to three arguments for both programs: exit codes, values, sockets |

Six runs end in a violation, because the code does not do what its own comments,
assertions and protocol description say:

| run | what fails |
|---|---|
| `silent_peer` | a read that completed before `cancel()` re-arms itself; with a silent peer the link is never closed (outlink.h:31-32) |
| `unreachable_point` | no endpoint can be connected to: the hoster is not told (outlink.h:77-78) |
| `late_chunk` | a chunk after the live timeout's `Stop(0)` reaches `assert(false)` in SendData; the build files set no build type, so assertions are on |
| `early_close` | with four threads CloseConnect is called while a handler is about to cancel the socket (trunklink.h:214-216) |
| `recreated_target` | a create repeated after the server's link ended connects to the target again (trunklink.cpp:612-614) |
| `given_up_chunk` | a chunk leaves the cache after 2 s without having been received (protocol.md:10) |

Deadlock is not checked: a link ends, and then nothing more happens to it; all bounded
counters may be used up.

### Bounds, and why they are enough

`NumChunks = 3` in OutLink: a chunk that is written, one that is awaited, one that came
too early; two of them in one buffer make a partial write.  `MaxReads = 2`: a read
after a read.  `MaxPoints = 2`: a connect that fails and one that follows.
`PoolSize = 4` is the real number.  In Trunk the connections share nothing but the
timers, so one is enough for its stream; two chunks each way let data overtake data and
a release; one chunk with two links of the server and one restart let old datagrams
meet a new link.  `DeadlineTicks` and `DeadTicks` are 1 or 2: each entry is resent
before it is dropped, and a link survives a missing live packet before it dies; live
packets and resends are due independently, so no proportion of the two is fixed.
`MaxCreated` and `MaxRestarts` cap what could go on for ever, as guards; a create that
would exceed `MaxCreated` is one that the fabric refuses.  `trunk_safety` has one link
per end, the second one is in `half_open` and `recreated_target`: `LinkNeverRewinds`
says something of repeated creates only where another link could be made.  In
`half_open` only the client's peer sends (`Talkers`): it is there to have a link wait
for a chunk; with `MaxIndex = 2` a link that has read nothing releases with an ordinary
index, after one chunk with `kBadPacketIndex`, after two with the last index.
`trunk_safety` keeps away from these (`MaxIndex = 4`): there a release is cut off or
lost by design of the numbers.

In ServerThreads two datagrams on two sockets from two addresses are the two creates
that race, or a create and what follows it; two links of one connection let a create
come while the first link is closing; `PoolSize = 4` is the real number.  Each socket
hears one address (`OneAddressEach`): a client that comes by another address comes by
another socket; the proofs have any addresses at any socket.  In CommandLine three
arguments are a point, a trunk option and the repetition of one; the widths are scaled
down (`IdBound = 4`, `PortBound = 8`) with numbers on both sides of them, and 8, which
is port 0.

### Fairness

OutLink: the io_context serves its queue in order and no handler blocks, so a queued
handler runs; resolver, connect and timer report in the end; a live peer reads what it
is sent or resets, so a pending write completes or fails.  Nothing makes a peer send
or close, so a pending read has no fairness; `ClosingPeerSpec` adds that assumption and
`silent_peer` shows what happens without it.

Trunk: the update timer of a running end fires and live packets fall due, nothing else.
A link that was told to stop need not call CloseConnect (`silent_peer` and
`unreachable_point` show links that never do), so `HalfOpenIsStopped` promises no more
than the stop.  Delivery of datagrams has no fairness: they may all be lost.

ServerThreads: a thread that can take its next step does (weak fairness; the mutexes
need no more, because after a signal no new handler begins and each handler is finite).
Nothing makes a datagram arrive, the timer fire or a signal come.  CommandLine has no
liveness property.

## Proofs

`OutLinkProofs` assumes only what `OutLink` states of its constants (a pool of at least
one thread, natural bounds) and proves for all their values:

| theorem | |
|---|---|
| `TypeCorrect` | `[]TypeOK` |
| `StreamOrdered` | `[]StreamOrder`: what the peer has received and what is buffered are chunks 0, 1, 2, ... up to the awaited one |
| `PendingInWindow` | `[]PendingChunksInWindow` |
| `IdleWriterIsIdle` | `[]IdleWriterHasNothingToDo`: no wake-up is lost |
| `LinkImplementsOrderedLink` | `Spec => ImplementsOrderedLink` |
| `GracefulStopDelivers` | `[]GracefulStopDeliversAll`: a writer that ends in good order has delivered all before the stop index |
| `OneThreadStopsBeforeClose` | with `PoolSize = 1`, `[]StoppedBeforeClose` (with four threads `early_close` refutes it) |

The inductive invariant is `Inv == DataInv /\ ControlInv`.  `TypeOK` is not inductive
alone: a partial write must not be longer than the buffer and a connect attempt needs an
endpoint, which `ShapeInv` says.  `StreamOrder` speaks of a concatenation; `StreamInv`
says the same as a length equation and two sequences of consecutive numbers (`InOrder`),
which `FillNetworkBuffer` extends and a partial write cuts: the lemmas `Appending` and
`Slicing` are those two facts, `FillAppends` and `RequestWriteData` carry them through
the write loop.  `ControlInv` ties the flags the code reads (`read_processing_`,
`write_processing_`, `close_invoked_`) to where the handlers are; the refinement
needs it to know that CloseConnect is called once and that nothing is written or read
after it.  `GracefulStopDelivers` adds `DrainInv`: only `Stop(0)` gives a link a
stop index before its last chunk, `stop_after_all_write` is set only behind the chunk of
the stop, and a writer drains with an empty buffer; `FillStops` and `RequestWriteDrains`
are the two places of the write loop that set and use the flag.

`TrunkProofs` proves, for any number of connections, chunks, links, restarts and ticks
and any width of the index, over a network that loses, reorders and repeats datagrams:

| theorem | |
|---|---|
| `Inductive` | `[]IInv` |
| `TypeCorrect` | `[]TypeOK` |
| `TrunkImplementsPipe` | `Spec => ImplementsPipe`, if `NumChunks <= MaxIndex + 1` |
| `LinksGoForward` | `Spec => LinkNeverRewinds`, if `NumChunks <= MaxIndex` |
| `ReleaseCutsNoChunk` | `[]NoChunkCutOff`, if `NumChunks <= MaxIndex` |

The three hypotheses are about the code, not about the proof.  `GetNextPacketIndex`
counts modulo 2^32, so a link that reads more chunks than there are indexes gives two
chunks one name, and the last index is `kUndefinedChunkID`, which in a release says that
there is no stop.  `IInv` itself needs none of them: it says what an index means while
it has not wrapped around (`Numbered`).  The instances of the runs satisfy the hypotheses,
`half_open` with the index at its end.

`ImplementsPipe` speaks of what peers read and get; `IInv` says why it holds.  Whatever
an end may still receive (`Packets`: in flight, or in a cache that sends it again) is a
chunk that was read at the other end under the number it carries (`WasRead`), or a
release that carries the number of chunks read by a link that has closed
(`HasClosed`); the chunks waiting in a link are such chunks too (`ChunkInv`); and a link is
the last one its end has made, with its two indexes equal to what it has read and given
(`LinkInv`).  The histories only grow, so nothing old becomes false (`HistoryGrows`,
`WasReadStays`, `HasClosedStays`): that is what makes any delay and repetition harmless.
The proof of a step does not go through the dozen actions for each part: `EveryStep` sorts
them once into five kinds (a link is opened, reads, gives, stores what arrived, or
nothing of this moves), and each part is shown to survive the five.  `CutInv` is a second
invariant on top of `IInv`, for `ReleaseCutsNoChunk`: while the other end has made one
link only, a stop index that came in a release is the number of chunks that link had read
when it closed.  It must say "one link only", because a second link of the server for the
same connection counts from 0 again (`recreated_target`), and so says `NoChunkCutOff`.

`ServerThreadsProofs` assumes what `ServerThreads` states of its constants (its bounds,
and that the timer, "nobody", sockets and links are different things) and proves for
any number of sockets, addresses, connections, threads, datagrams, links and chunks:

| theorem | |
|---|---|
| `TypeCorrect` | `[]TypeOK` |
| `OneLink` | `[]OneLinkPerConnection`: also when creates for one connection race |
| `RouteHeard` | `[]RouteWasHeard` |
| `StreamLeft` | `[]GoneLinkLeftItsStream`: chunks numbered 0, 1, ... and one release behind them |
| `StatisticsRight` | `[]StatisticsAddUp` |
| `NoCircle` | `[]NobodyWaitsInCircle`: no deadlock between handlers, over the mutexes of the trunk and of all links |

The inductive invariant is `IInv`.  `LockInv` says who can be in a mutex between two
steps: a socket in that of `out_links_` exactly while it stands between the look and
the insertion, so at most one stands there, and what it saw stays true (`LookInv`, by
`EntriesComeByInsertion`).  That makes `OneLinkPerConnection` inductive.
`ChunksLockInv` says that `write_chunks_lock_` is held across steps by the write loop
of its link only, and `NoCircle` follows from it and `LockInv`: the timer, which alone
holds one mutex while it asks for others, asks for that of `clients_link_`, in which
nobody stays, and for those of links, and a write loop waits for nothing, since it may
take its own mutex again and CheckReadyClose only posts.  `StreamInv` ties the next
index in the entry of a link to what the link has cached; it needs
`OneLinkPerConnection`, for else a link could take its index from the entry of another
(`IndexIsTaken`), and `TypeOK` needs it for the bound of the indexes.  The proof of a
step has one lemma per part of `IInv` and in it one step per action that touches the
part.

`CommandLineProofs` assumes what `CommandLine` states of its constants and proves for
command lines and port lists of any length, any numbers and widths:

| theorem | |
|---|---|
| `Inductive` | `[]IInv` |
| `ExitRight` | `[]ExitTellsWhy` |
| `OptionsRight` | `[]OptionsAsWritten` |
| `AllSocketsOrNone` | `[]ServerHasItsSockets`: no port twice, but for port 0, any free port |

What the recursive function of the port loop computes is proved without an induction rule
(those of the library take an operator as a parameter, which no installed prover can
instantiate): `ParsedFrom` is a closed form, `ParsedIsFixpoint` shows that it solves the
equation of the function, and `RestIsUnique` that any two solutions agree at the first
piece, for the set of places where they differ would have a last element (`Least` and
`Greatest`, from the well-founded order of the naturals).  `ParserFollowsUsage` then
compares the closed form with the grammar.  `IInv` says of the arguments seen so far what
`points` and `trp` must be (`PointsInv`, `TrunkInv`: the last one counts), how far main is
(`ProgressInv`) and which sockets are bound (`SocketsInv`); the parts of the properties
about `points` and `trp` hold in every state of the loop over `argv`, not only behind it,
and that is what makes them inductive.

Each inductive invariant was checked by TLC on instances like those of the runs before
it was proved.

Only model-checked is liveness, which is beyond the prover: `LinkEventuallyCloses`,
`HalfOpenIsStopped` and `SignalEndsServer`.

## Not modelled

- The layout of packets, their size checks and the dispatch by command.  One effect of
  them is in Trunk: data acknowledgements are refused where they arrive, and
  ProcessAckData is empty, so they are left out.
- In Trunk a handler is one action; the windows between its mutexes are in
  ServerThreads, which in turn leaves the content of packets to Trunk.
- That a link which was stopped goes away: it does not always (findings).  Nor is it
  promised that two links of one connection are never mixed: they are (`recreated_target`).
- Memory: `write_chunks_` and the caches have no limit in the code.
- Destruction of the objects at the end of a program.  (`~OutLink` asserts a closed
  socket; a program that is stopped with open connections destroys open ones.)
- Logging, the vendored uuid library (ids are assumed fresh), the stub `inlink.h`, the
  tests.
- The client after an accept: the chain from ListenLocalPoint to AddConnect has no state
  of its own.  The text of arguments character by character.

## Plan

1. OutLink, OrderedLink, OutLinkProofs: done.
2. Trunk, Pipe, TrunkProofs: done.
3. ServerThreads, ServerThreadsProofs: done.
4. CommandLine, CommandLineProofs: done.
5. Left: the coarse link of Trunk implemented by OutLink, so that the theorems about the
   two compose; the lemmas about safety on which the three liveness properties rest.
