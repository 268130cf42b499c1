--------------------------- MODULE ServerThreads ---------------------------
(***************************************************************************)
(* The server program with its threads (byte_stacker_out.cpp and the       *)
(* TrunkServer of common/trunklink.cpp): handlers of the trunk sockets, of *)
(* the update timer and of the links run on the threads of the io_context, *)
(* the main thread prints statistics until a signal stops the program.     *)
(*                                                                         *)
(* A step goes from one mutex to the next.  A critical section that takes  *)
(* no other mutex is one step, possible while nobody holds its mutex; one  *)
(* that does is several steps, and "held" and "chunks_held" say who is in  *)
(* it.  What becomes of packets is the matter of module Trunk, what a link *)
(* does with its peer that of module OutLink.                              *)
(***************************************************************************)
EXTENDS Integers, FiniteSets

CONSTANTS
  Sockets,       \* trunk_sockets_
  Addresses,     \* where datagrams come from
  Conns,         \* connection ids
  Timer,         \* the handler of the update timer
  Nobody,        \* who holds a mutex that is free
  PoolSize,      \* kPoolSize
  Arrivals,      \* bound: at which socket datagrams come from where
  MaxDatagrams,  \* bound: datagrams received
  MaxMade,       \* bound: links made for one connection
  NumChunks      \* bound: chunks one link reads from its peer

ASSUME PoolAssumption  == PoolSize \in Nat \ {0}
ASSUME BoundAssumption == MaxDatagrams \in Nat /\ MaxMade \in Nat /\ NumChunks \in Nat
ASSUME ArrivalsAssumption == Arrivals \subseteq Sockets \X Addresses

VARIABLES
  socket,        \* for each socket: where its handler is, buffer and client_holder
  timer,         \* where the update timer is
  todo,          \* connections its present loop has still to send for
  stops,         \* links its present loop has still to stop
  link,          \* for each link: where its reader or its end is, and the packet it makes
  writer,        \* for each link: where its write loop is
  out_links,     \* out_links_: connection, which of its links, next index
  clients_link,  \* clients_link_: connection -> socket and address
  held,          \* who holds each mutex of the trunk across steps
  chunks_held,   \* who holds the write_chunks_lock_ of each link: its write loop, or nobody
  counter,       \* out_stream_counter_ and in_stream_counter_
  main,          \* where the main thread is
  stop_flag,     \* stop_flag of main
  ctx_stopped,   \* ctx.stop() was called
  datagrams,     \* datagrams received so far
  heard,         \* history: connection, socket and address of each datagram
  emitted,       \* the packets put in packet_data_cache_ so far
  counted,       \* history: what was added to each counter
  reported       \* history: what GetStat returned of each counter

trunk_vars == <<socket, clients_link, datagrams, heard>>
timer_vars == <<timer, todo, stops>>
write_vars == <<writer, chunks_held>>
link_vars  == <<link, emitted, write_vars>>
main_vars  == <<main, stop_flag, ctx_stopped, reported>>
stat_vars  == <<counter, counted>>
vars == <<trunk_vars, timer_vars, link_vars, main_vars, stat_vars, out_links, held>>

Links    == Conns \X (1 .. MaxMade)
Mutexes  == {"out_links", "cache", "clients"}

\* A link also stands for the handler of its write loop.
ASSUME NamesAssumption ==
  /\ Timer # Nobody /\ {Timer, Nobody} \intersect (Sockets \union Links) = {}
  /\ Sockets \intersect Links = {}

\* A release takes the mutexes that data takes, OutLink::Stop the one that SendData takes.
Commands == {"create", "data", "live"}

\* What a buffer holds is of no use once the socket receives again.
Receiving == [pc |-> "receiving"]

Free(mutex) == held[mutex] = Nobody

Lock(mutex, who) == held' = [held EXCEPT ![mutex] = who]
Unlock(mutex)    == held' = [held EXCEPT ![mutex] = Nobody]

\* Mutant: a mutex like the others, which its holder cannot take again.
OpenOnce(l, who) == chunks_held[l] = Nobody

\* write_chunks_lock_ is recursive.
Open(l, who) == chunks_held[l] \in {Nobody, who}

Listed(c) == \E e \in out_links : e.conn = c

\* The entry of a link in out_links_.
Entry(e, l) == e \in out_links /\ e.conn = l[1] /\ e.made = l[2]

\* The n-th link is the next one to be made for a connection.
NextToMake(c, n) ==
  /\ link[<<c, n>>].pc = "none"
  /\ \A m \in 1 .. n - 1 : link[<<c, m>>].pc # "none"

-----------------------------------------------------------------------------
Init ==
  /\ socket = [k \in Sockets |-> Receiving]
  /\ timer = "waiting" /\ todo = {} /\ stops = {}
  /\ link = [l \in Links |-> [pc |-> "none", cmd |-> "data", index |-> 0]]
  /\ out_links = {} /\ clients_link = [c \in Conns |-> {}]
  /\ writer = [l \in Links |-> "none"]
  /\ held = [mutex \in Mutexes |-> Nobody] /\ chunks_held = [l \in Links |-> Nobody]
  /\ counter = [s \in {"out", "in"} |-> 0] /\ counted = counter /\ reported = counter
  /\ main = "flag" /\ stop_flag = FALSE /\ ctx_stopped = FALSE
  /\ datagrams = 0 /\ heard = {} /\ emitted = {}

-----------------------------------------------------------------------------
(* The threads of the io_context.                                          *)

SocketBusy(k) == socket[k] # Receiving
TimerBusy     == timer # "waiting"
LinkBusy(l)   == link[l].pc \notin {"none", "idle", "stopped", "gone"}
WriterBusy(l) == writer[l] \in {"called", "locked", "filled", "marked"}

Busy == {k \in Sockets : SocketBusy(k)} \union {l \in Links : LinkBusy(l)}
          \union (IF TimerBusy THEN {Timer} ELSE {})
BusyWriters == {l \in Links : WriterBusy(l)}

\* A thread takes a handler from the queue.
ThreadTakesHandler ==
  ~ctx_stopped /\ Cardinality(Busy) + Cardinality(BusyWriters) < PoolSize

-----------------------------------------------------------------------------
(* The sockets: RequestReadingTrunk.                                       *)

Goes(k, pc) == socket' = [socket EXCEPT ![k].pc = pc]

Returns(k) == socket' = [socket EXCEPT ![k] = Receiving]

\* A datagram fills buffer and client_holder, and the handler runs.
Receive(k, c, cmd, from) ==
  /\ socket[k] = Receiving /\ datagrams < MaxDatagrams /\ <<k, from>> \in Arrivals
  /\ ThreadTakesHandler
  /\ socket' = [socket EXCEPT ![k] =
       [pc |-> "note", conn |-> c, cmd |-> cmd, from |-> from, made |-> 0]]
  /\ datagrams' = datagrams + 1
  /\ heard' = heard \union {<<c, k, from>>}
  /\ UNCHANGED <<clients_link, timer_vars, link_vars, main_vars, stat_vars, out_links, held>>

\* Mutant: all sockets share one client_holder.
SharedHolder(k) == {socket[j].from : j \in {i \in Sockets : SocketBusy(i)}}

\* ts.client_holder
ClientHolder(k) == {socket[k].from}

\* Mutant: the guard lives until the datagram is processed.
KeepsClients(k) == Lock("clients", k)

\* The guard of AddClientLink ends with it.
AddClientLinkReturns(k) == UNCHANGED held

FirstOf(cmd) ==
  IF cmd = "create" THEN "ack_create" ELSE IF cmd = "data" THEN "find" ELSE "live"

AddClientLink(k) ==
  /\ socket[k].pc = "note" /\ Free("clients")
  /\ \E address \in ClientHolder(k) :
       clients_link' = [clients_link EXCEPT ![socket[k].conn] = {<<k, address>>}]
  /\ AddClientLinkReturns(k)
  /\ Goes(k, FirstOf(socket[k].cmd))
  /\ UNCHANGED <<datagrams, heard, timer_vars, link_vars, main_vars, stat_vars,
                 out_links>>

Count(s) ==
  /\ counter' = [counter EXCEPT ![s] = @ + 1]
  /\ counted' = [counted EXCEPT ![s] = @ + 1]

\* SendPacket looks the connection up in clients_link_, and sends on that socket.  Then
\* data is counted.
SendAck(k) ==
  /\ Free("clients")
  /\ \/ socket[k].pc = "ack_create" /\ Goes(k, "create") /\ UNCHANGED stat_vars
     \/ socket[k].pc = "ack_data" /\ Goes(k, "give") /\ Count("out")
  /\ UNCHANGED <<clients_link, datagrams, heard, timer_vars, link_vars, main_vars,
                 out_links, held>>

\* Mutant: the mutex is free between the look and the insertion.
LockForLook(k) == UNCHANGED held

\* ProcessConnectData holds out_links_lock_ from the look to the insertion.
LockForInsertion(k) == Lock("out_links", k)

LookForLink(k) ==
  /\ socket[k].pc = "create" /\ Free("out_links")
  /\ \/ Listed(socket[k].conn) /\ Returns(k) /\ UNCHANGED held
     \/ ~Listed(socket[k].conn) /\ Goes(k, "insert") /\ LockForInsertion(k)
  /\ UNCHANGED <<clients_link, datagrams, heard, timer_vars, link_vars, main_vars,
                 stat_vars, out_links>>

\* The fabric makes a link, which is listed and run, or returns none.  A link of the
\* server begins with the resolver: Run takes no mutex.
InsertLink(k) ==
  /\ socket[k].pc = "insert"
  /\ LET c == socket[k].conn
     IN  \/ \E n \in 1 .. MaxMade :
              /\ NextToMake(c, n)
              /\ out_links' = out_links \union {[conn |-> c, made |-> n, next |-> 0]}
              /\ link' = [link EXCEPT ![<<c, n>>].pc = "idle"]
         \/ UNCHANGED <<out_links, link>>
  /\ Unlock("out_links") /\ Returns(k)
  /\ UNCHANGED <<clients_link, datagrams, heard, timer_vars, emitted, write_vars, main_vars,
                 stat_vars>>

\* GetOutLink in ProcessDataToOutlink.
GetOutLink(k) ==
  /\ socket[k].pc = "find" /\ Free("out_links")
  /\ \/ \E e \in out_links :
          /\ e.conn = socket[k].conn
          /\ socket' = [socket EXCEPT ![k].pc = "ack_data", ![k].made = e.made]
     \/ ~Listed(socket[k].conn) /\ Returns(k)
  /\ UNCHANGED <<clients_link, datagrams, heard, timer_vars, link_vars, main_vars,
                 stat_vars, out_links, held>>

\* The link that was found, listed or not by now, gets the chunk (OutLink::SendData).
GiveToLink(k) ==
  /\ socket[k].pc = "give" /\ Open(<<socket[k].conn, socket[k].made>>, k)
  /\ Returns(k)
  /\ UNCHANGED <<clients_link, datagrams, heard, timer_vars, link_vars, main_vars,
                 stat_vars, out_links, held>>

\* ProcessLive moves a deadline under the mutex.
ProcessLive(k) ==
  /\ socket[k].pc = "live" /\ Free("out_links")
  /\ Returns(k)
  /\ UNCHANGED <<clients_link, datagrams, heard, timer_vars, link_vars, main_vars,
                 stat_vars, out_links, held>>

SocketStep(k) ==
  \/ AddClientLink(k) \/ SendAck(k)
  \/ LookForLink(k) \/ InsertLink(k)
  \/ GetOutLink(k) \/ GiveToLink(k)
  \/ ProcessLive(k)

-----------------------------------------------------------------------------
(* The update timer: SendLivePacket, when it is due, and OnCacheResend,    *)
(* each holding its mutex while it sends.                                  *)

TimerExpires(due) ==
  /\ timer = "waiting" /\ ThreadTakesHandler
  /\ timer' = IF due THEN "live" ELSE "resend"
  /\ UNCHANGED <<trunk_vars, todo, stops, link_vars, main_vars, stat_vars, out_links, held>>

\* Some links are past their deadline.
SendLivePacket ==
  /\ timer = "live" /\ Free("out_links")
  /\ Lock("out_links", Timer)
  /\ \E dead \in SUBSET out_links :
       /\ stops' = {<<e.conn, e.made>> : e \in dead}
       /\ todo' = {e.conn : e \in out_links \ dead}
  /\ timer' = "sending_live"
  /\ UNCHANGED <<trunk_vars, link_vars, main_vars, stat_vars, out_links>>

\* Of what was put in the cache some is past its deadline, some is not due.
OnCacheResend ==
  /\ timer = "resend" /\ Free("cache")
  /\ Lock("cache", Timer)
  /\ \E due \in SUBSET emitted : todo' = {p.source[1] : p \in due}
  /\ timer' = "sending_cache"
  /\ UNCHANGED <<trunk_vars, stops, link_vars, main_vars, stat_vars, out_links>>

\* SendPacket takes clients_link_lock_ inside of the other mutex.
TimerSends(c) ==
  /\ timer \in {"sending_live", "sending_cache"} /\ c \in todo /\ Free("clients")
  /\ todo' = todo \ {c}
  /\ UNCHANGED <<trunk_vars, timer, stops, link_vars, main_vars, stat_vars, out_links, held>>

\* Stop(0) takes write_chunks_lock_ inside of out_links_lock_.
TimerStops(l) ==
  /\ timer = "sending_live" /\ l \in stops /\ Open(l, Timer)
  /\ stops' = stops \ {l}
  /\ UNCHANGED <<trunk_vars, timer, todo, link_vars, main_vars, stat_vars, out_links, held>>

TimerLoopEnds ==
  /\ todo = {} /\ stops = {}
  /\ \/ timer = "sending_live" /\ Unlock("out_links") /\ timer' = "resend"
     \/ timer = "sending_cache" /\ Unlock("cache") /\ timer' = "waiting"
  /\ UNCHANGED <<trunk_vars, todo, stops, link_vars, main_vars, stat_vars, out_links>>

TimerStep ==
  \/ SendLivePacket \/ OnCacheResend
  \/ \E c \in todo : TimerSends(c)
  \/ \E l \in stops : TimerStops(l)
  \/ TimerLoopEnds

-----------------------------------------------------------------------------
(* The links: their read loop, which calls SendData, and CloseConnect.  A  *)
(* link does one at a time, and CloseConnect last.                         *)

LinkGoes(l, pc) == link' = [link EXCEPT ![l].pc = pc]

\* A link reads when it is connected.
LinkReads(l) ==
  /\ link[l].pc = "idle" /\ writer[l] # "none"
  /\ \E e \in out_links : Entry(e, l) /\ e.next < NumChunks
  /\ ThreadTakesHandler
  /\ Count("in")
  /\ link' = [link EXCEPT ![l].pc = "index", ![l].cmd = "data"]
  /\ UNCHANGED <<trunk_vars, timer_vars, emitted, write_vars, main_vars, out_links, held>>

\* A read fails, or is cancelled.
ReadFails(l) ==
  /\ link[l].pc = "idle" /\ writer[l] # "none" /\ ThreadTakesHandler
  /\ LinkGoes(l, "cancel")
  /\ UNCHANGED <<trunk_vars, timer_vars, emitted, write_vars, main_vars, stat_vars, out_links,
                 held>>

\* The reader takes write_chunks_lock_ to stop the writer, posts a check and ends.
CancelReadWrite(l) ==
  /\ link[l].pc = "cancel" /\ chunks_held[l] = Nobody
  /\ LinkGoes(l, "stopped")
  /\ UNCHANGED <<trunk_vars, timer_vars, emitted, write_vars, main_vars, stat_vars, out_links,
                 held>>

\* Mutant: the link is removed before the other end is told.
RemovesFirst == "remove"

\* CloseConnect: SendDisconnectInformation, then RemoveOutLink.
ClosesWith == "index"

\* A check that was posted finds that neither loop goes on: both have ended, or the
\* name could not be resolved.
LinkEnds(l) ==
  /\ \/ link[l].pc = "stopped" /\ writer[l] \in {"marked", "ended"}
     \/ link[l].pc = "idle" /\ writer[l] = "none"
  /\ ThreadTakesHandler
  /\ link' = [link EXCEPT ![l].pc = ClosesWith, ![l].cmd = "release"]
  /\ UNCHANGED <<trunk_vars, timer_vars, emitted, write_vars, main_vars, stat_vars, out_links,
                 held>>

\* Mutant: a link that has told the other end is not removed.
BackToIdle(l) == "idle"

\* What SendCmdData returns to.
Caller(l) == IF link[l].cmd = "data" THEN "idle" ELSE "remove"

\* The index is that of whatever link the connection has in out_links_; without one
\* nothing is sent.
GetNextPacketIndex(l) ==
  /\ link[l].pc = "index" /\ Free("out_links")
  /\ IF Listed(l[1])
       THEN \E e \in out_links :
              /\ e.conn = l[1]
              /\ link' = [link EXCEPT ![l].pc = "cache", ![l].index = e.next]
              /\ out_links' = (out_links \ {e}) \union {[e EXCEPT !.next = @ + 1]}
       ELSE LinkGoes(l, Caller(l)) /\ UNCHANGED out_links
  /\ UNCHANGED <<trunk_vars, timer_vars, emitted, write_vars, main_vars, stat_vars, held>>

CachePacket(l) ==
  /\ link[l].pc = "cache" /\ Free("cache")
  /\ LET p == [source |-> l, cmd |-> link[l].cmd, index |-> link[l].index]
     IN  emitted' = emitted \union {p}
  /\ LinkGoes(l, "send")
  /\ UNCHANGED <<trunk_vars, timer_vars, write_vars, main_vars, stat_vars, out_links, held>>

SendPacket(l) ==
  /\ link[l].pc = "send" /\ Free("clients")
  /\ LinkGoes(l, Caller(l))
  /\ UNCHANGED <<trunk_vars, timer_vars, emitted, write_vars, main_vars, stat_vars, out_links,
                 held>>

\* Every entry with the connection's id goes.
RemoveOutLink(l) ==
  /\ link[l].pc = "remove" /\ Free("out_links")
  /\ out_links' = {e \in out_links : e.conn # l[1]}
  /\ LinkGoes(l, "gone")
  /\ UNCHANGED <<trunk_vars, timer_vars, emitted, write_vars, main_vars, stat_vars, held>>

LinkStep(l) ==
  \/ CancelReadWrite(l)
  \/ GetNextPacketIndex(l) \/ CachePacket(l) \/ SendPacket(l) \/ RemoveOutLink(l)

-----------------------------------------------------------------------------
(* The write loop of a link: RequestWrite, called by the handlers of the   *)
(* connect, of a write and of the idle timer.                              *)

WriterGoes(l, pc) == writer' = [writer EXCEPT ![l] = pc]

WriterCalled(l) ==
  /\ writer[l] \in {"none", "waiting"}
  /\ link[l].pc # "none" /\ link[l].cmd = "data"
  /\ ThreadTakesHandler
  /\ WriterGoes(l, "called")
  /\ UNCHANGED <<trunk_vars, timer_vars, link, emitted, chunks_held, main_vars, stat_vars,
                 out_links, held>>

\* A write fails: the loop ends without RequestWrite.
WriteFails(l) ==
  /\ writer[l] = "waiting" /\ ThreadTakesHandler
  /\ WriterGoes(l, "ended")
  /\ UNCHANGED <<trunk_vars, timer_vars, link, emitted, chunks_held, main_vars, stat_vars,
                 out_links, held>>

\* RequestWrite takes the mutex, and FillNetworkBuffer or CancelReadWrite takes it again.
WriterLocks(l) ==
  /\ writer[l] = "called" /\ Open(l, l)
  /\ WriterGoes(l, "locked") /\ chunks_held' = [chunks_held EXCEPT ![l] = l]
  /\ UNCHANGED <<trunk_vars, timer_vars, link, emitted, main_vars, stat_vars, out_links, held>>

WriterLocksAgain(l) ==
  /\ writer[l] = "locked" /\ Open(l, l)
  /\ \E pc \in {"filled", "marked"} : WriterGoes(l, pc)
  /\ UNCHANGED <<trunk_vars, timer_vars, link, emitted, chunks_held, main_vars, stat_vars,
                 out_links, held>>

\* Mutant: CloseConnect, once begun, is awaited with the mutex held.
AwaitsClose(l) == link[l].cmd = "release" => link[l].pc = "gone"

\* CheckReadyClose is called with the mutex held; it posts the check and returns.
CheckReadyCloseReturns(l) == TRUE

WriterUnlocks(l) ==
  /\ \/ writer[l] = "filled" /\ WriterGoes(l, "waiting")
     \/ writer[l] = "marked" /\ CheckReadyCloseReturns(l) /\ WriterGoes(l, "ended")
  /\ chunks_held' = [chunks_held EXCEPT ![l] = Nobody]
  /\ UNCHANGED <<trunk_vars, timer_vars, link, emitted, main_vars, stat_vars, out_links, held>>

WriterStep(l) == WriterLocks(l) \/ WriterLocksAgain(l) \/ WriterUnlocks(l)

-----------------------------------------------------------------------------
(* The main thread.                                                        *)

\* Mutant: the main thread is not told.
StopsContextOnly == ctx_stopped' = TRUE /\ UNCHANGED stop_flag

SignalHandler == stop_flag' = TRUE /\ ctx_stopped' = TRUE

\* SIGINT or SIGTERM.
Signal ==
  /\ ThreadTakesHandler
  /\ SignalHandler
  /\ UNCHANGED <<main, reported, trunk_vars, timer_vars, link_vars, stat_vars, out_links, held>>

\* Mutant: a counter is read and not reset.
Loaded(s) == counter

\* exchange(0)
Exchanged(s) == [counter EXCEPT ![s] = 0]

TakeCounter(s) ==
  /\ reported' = [reported EXCEPT ![s] = @ + counter[s]]
  /\ counter' = Exchanged(s)

\* The loop of main looks at the flag and sleeps.
LookAtFlag ==
  /\ main = "flag"
  /\ main' = IF stop_flag THEN "joining" ELSE "sleeping"
  /\ UNCHANGED <<stop_flag, ctx_stopped, reported, trunk_vars, timer_vars, link_vars, stat_vars,
                 out_links, held>>

\* Then it takes both counters and, under the mutex, the number of links.
GetStat ==
  /\ \/ main = "sleeping" /\ TakeCounter("out") /\ main' = "in"
     \/ main = "in" /\ TakeCounter("in") /\ main' = "amount"
     \/ main = "amount" /\ Free("out_links") /\ main' = "flag" /\ UNCHANGED <<counter, reported>>
  /\ UNCHANGED <<counted, stop_flag, ctx_stopped, trunk_vars, timer_vars, link_vars, out_links, held>>

\* A thread ends when the io_context is stopped and its handler has returned.
ThreadsEnded == ctx_stopped /\ Busy = {} /\ BusyWriters = {}

Join ==
  /\ main = "joining" /\ ThreadsEnded
  /\ main' = "ended"
  /\ UNCHANGED <<stop_flag, ctx_stopped, reported, trunk_vars, timer_vars, link_vars, stat_vars,
                 out_links, held>>

MainStep == LookAtFlag \/ GetStat \/ Join

-----------------------------------------------------------------------------
Next ==
  \/ \E k \in Sockets :
       \/ \E c \in Conns, cmd \in Commands, from \in Addresses : Receive(k, c, cmd, from)
       \/ SocketStep(k)
  \/ \E due \in BOOLEAN : TimerExpires(due)
  \/ TimerStep
  \/ \E l \in Links :
       \/ LinkReads(l) \/ ReadFails(l) \/ LinkEnds(l) \/ LinkStep(l)
       \/ WriterCalled(l) \/ WriteFails(l) \/ WriterStep(l)
  \/ Signal
  \/ MainStep

\* A thread that can go on does; nothing says that a handler is ever begun.
Fairness ==
  /\ \A k \in Sockets : WF_vars(SocketStep(k))
  /\ WF_vars(TimerStep)
  /\ \A l \in Links : WF_vars(LinkStep(l)) /\ WF_vars(WriterStep(l))
  /\ WF_vars(MainStep)

Spec == Init /\ [][Next]_vars /\ Fairness

-----------------------------------------------------------------------------
(* Properties.                                                             *)

Packets == [source : Links, cmd : {"data", "release"}, index : 0 .. NumChunks]

TypeOK ==
  /\ socket \in [Sockets ->
       {Receiving} \union
       [pc : {"note", "ack_create", "create", "insert", "find", "ack_data", "give", "live"},
        conn : Conns, cmd : Commands, from : Addresses, made : 0 .. MaxMade]]
  /\ timer \in {"waiting", "live", "sending_live", "resend", "sending_cache"}
  /\ todo \subseteq Conns /\ stops \subseteq Links
  /\ link \in [Links -> [pc : {"none", "idle", "index", "cache", "send", "cancel", "stopped",
                              "remove", "gone"},
                         cmd : {"data", "release"}, index : 0 .. NumChunks]]
  /\ writer \in [Links -> {"none", "waiting", "called", "locked", "filled", "marked", "ended"}]
  /\ out_links \subseteq [conn : Conns, made : 1 .. MaxMade, next : 0 .. NumChunks + 1]
  /\ clients_link \in [Conns -> SUBSET (Sockets \X Addresses)]
  /\ emitted \subseteq Packets
  /\ held \in [Mutexes -> Sockets \union {Timer, Nobody}]
  /\ chunks_held \in [Links -> Links \union {Nobody}]
  /\ main \in {"flag", "sleeping", "in", "amount", "joining", "ended"}
  /\ stop_flag \in BOOLEAN /\ ctx_stopped \in BOOLEAN
  /\ counter \in [{"out", "in"} -> Nat] /\ counted \in [{"out", "in"} -> Nat]
  /\ reported \in [{"out", "in"} -> Nat]
  /\ datagrams \in 0 .. MaxDatagrams /\ heard \subseteq Conns \X Sockets \X Addresses

\* out_links_ lists the links that live, from when they are run until they have closed,
\* and one at most for a connection: also when creates for it come by two sockets at
\* the same time, or while its last link is closing (ProcessConnectData, CloseConnect).
OneLinkPerConnection ==
  /\ {<<e.conn, e.made>> : e \in out_links} = {l \in Links : link[l].pc \notin {"none", "gone"}}
  /\ \A e, f \in out_links : e.conn = f.conn => e = f

\* Packets of a connection go out by a socket at which a datagram of this connection
\* was received, and to the address it came from there: another client must not get
\* them (client_holder, AddClientLink).
RouteWasHeard ==
  \A c \in Conns : \A route \in clients_link[c] : <<c, route[1], route[2]>> \in heard

\* The indexes of the packets of one kind that a link has cached.
Indexes(l, cmd) == {p.index : p \in {q \in emitted : q.source = l /\ q.cmd = cmd}}

\* Of a link that is gone the other end can know everything: its chunks were cached as
\* 0, 1, ... without gap or repetition, and one release behind them, whatever links the
\* connection had before and got since (GetNextPacketIndex, CloseConnect).
GoneLinkLeftItsStream ==
  \A l \in Links : link[l].pc = "gone" =>
    \E n \in 0 .. NumChunks : Indexes(l, "data") = 0 .. n - 1 /\ Indexes(l, "release") = {n}

\* Nothing that was carried is left out of the statistics or told twice, whenever the
\* main thread looks at the counters (GetStat).
StatisticsAddUp == \A s \in {"out", "in"} : reported[s] + counter[s] = counted[s]

\* Handlers that hold a mutex across steps.
Holders ==
  ({held[mutex] : mutex \in Mutexes} \union {chunks_held[l] : l \in Links}) \ {Nobody}

\* The mutexes that such a handler may ask for next.
AsksFor(who, mutex) ==
  \/ /\ who = Timer
     /\ \/ mutex = "out_links" /\ timer = "live"
        \/ mutex = "cache" /\ timer = "resend"
        \/ mutex = "clients" /\ todo # {}
  \/ /\ who \in Sockets
     /\ \/ mutex = "clients" /\ socket[who].pc \in {"note", "ack_create", "ack_data"}
        \/ mutex = "out_links" /\ socket[who].pc \in {"create", "find", "live"}

AsksForChunks(who, l) ==
  \/ who = Timer /\ l \in stops
  \/ who \in Sockets /\ socket[who].pc = "give" /\ l = <<socket[who].conn, socket[who].made>>
  \/ who = l /\ writer[l] \in {"called", "locked"} /\ ~Open(l, l)

\* Those who hold them.
WaitsFor(who) ==
  {held[mutex] : mutex \in {m \in Mutexes : AsksFor(who, m)}}
    \union {chunks_held[l] : l \in {m \in Links : AsksForChunks(who, m)}}

\* No handlers wait for each other, nor one for itself: mutexes that are taken while
\* another is held are taken in one order by all of them, a link's write_chunks_lock_
\* last, and only that one is taken twice by one handler (SendLivePacket, OnCacheResend,
\* ProcessConnectData, SendPacket; RequestWrite, OutLink::Stop).
NobodyWaitsInCircle ==
  \A waiting \in (SUBSET Holders) \ {{}} :
    \E who \in waiting : WaitsFor(who) \intersect waiting = {}

\* A signal ends the program: what runs returns, nothing new is begun, and the main
\* thread hears of it (main).
SignalEndsServer == ctx_stopped ~> main = "ended"
=============================================================================
