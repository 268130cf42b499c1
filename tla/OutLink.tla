------------------------------ MODULE OutLink ------------------------------
(***************************************************************************)
(* One OutLink object (src/common/outlink.cpp): the TCP socket of one      *)
(* tunnelled connection and the asynchronous handlers that work on it.     *)
(*                                                                         *)
(* A handler runs on one of the PoolSize threads of the io_context.  One   *)
(* that takes write_chunks_lock_ or touches one shared flag only is one    *)
(* step; one with a window in which another thread can act (a flag lowered *)
(* before the socket is used) is split there, and the thread it holds is   *)
(* counted in Busy.  With PoolSize = 1 nothing runs inside such a window.  *)
(*                                                                         *)
(* A chunk of the tunnel is its index; the bytes of a chunk are not told   *)
(* apart, so the buffer given to the socket is a sequence of chunk         *)
(* indices and a partial write ends at a chunk boundary.                   *)
(***************************************************************************)
EXTENDS Integers, Sequences, FiniteSets

CONSTANTS
  PoolSize,   \* threads that run the io_context: 1 in the client, 4 in the server
  Connected,  \* made from an accepted socket (client) or from an address (server)
  NumChunks,  \* chunks the other side of the tunnel sends before its release
  MaxPoints,  \* bound: endpoints a name resolves to
  MaxReads    \* bound: reads of data from the TCP peer

ASSUME PoolSizeAssumption  == PoolSize \in Nat \ {0}
ASSUME ConnectedAssumption == Connected \in BOOLEAN
ASSUME NumChunksAssumption == NumChunks \in Nat
ASSUME MaxPointsAssumption == MaxPoints \in Nat
ASSUME MaxReadsAssumption  == MaxReads \in Nat

kUndefinedChunkID == -1

VARIABLES
  socket_open,             \* socket_.is_open(), and connected
  read_processing,
  write_processing,
  close_invoked,
  stop_write_chunk_id,
  stop_after_all_write,
  stop_write_immediate,
  next_write_chunk_id,
  write_chunks,            \* keys of write_chunks_
  network_write_buffer,
  bytes_transferred,       \* argument of the queued RequestWriteProcessing
  resolved_points,         \* how many endpoints are left to try
  starter,                 \* Run and the resolve and connect handlers
  reader,                  \* the asynchronous read and its handler
  writer,                  \* the asynchronous write, the idle timer, their handlers
  posts,                   \* queued CheckReadyCloseProcessing
  closer,                  \* CheckReadyCloseProcessing
  close_calls,             \* calls of hoster_->CloseConnect
  fault,                   \* what ended the process
  socket_out,              \* history: chunks the TCP peer has received
  taken,                   \* history: calls of hoster_->SendData
  stops                    \* history: arguments Stop was called with

flags    == <<read_processing, write_processing, close_invoked>>
stopping == <<stop_write_chunk_id, stop_after_all_write, stop_write_immediate>>
stream   == <<next_write_chunk_id, write_chunks, network_write_buffer>>
fields   == <<socket_open, flags, stopping, stream, bytes_transferred, resolved_points>>
ending   == <<closer, close_calls, fault>>
history  == <<socket_out, taken, stops>>
vars == <<fields, starter, reader, writer, posts, ending, history>>

Starters == {"created", "resolving", "connecting", "reading_started",
             "started", "unresolved", "unreachable"}
Readers  == {"idle", "reading", "data", "eof", "cancelling", "marking", "ended"}
Writers  == {"idle", "waiting", "woken", "writing", "written", "broken",
             "failing", "drained", "stopped", "failed"}

TypeOK ==
  /\ socket_open \in BOOLEAN
  /\ read_processing \in BOOLEAN
  /\ write_processing \in BOOLEAN
  /\ close_invoked \in BOOLEAN
  /\ stop_write_chunk_id \in (0..NumChunks) \union {kUndefinedChunkID}
  /\ stop_after_all_write \in BOOLEAN
  /\ stop_write_immediate \in BOOLEAN
  /\ next_write_chunk_id \in 0..NumChunks
  /\ write_chunks \subseteq 0..(NumChunks - 1)
  /\ network_write_buffer \in Seq(0..(NumChunks - 1))
  /\ bytes_transferred \in 0..NumChunks
  /\ resolved_points \in 0..MaxPoints
  /\ starter \in Starters
  /\ reader \in Readers
  /\ writer \in Writers
  /\ posts \in Nat
  /\ closer \in {"idle", "closing"}
  /\ close_calls \in Nat
  /\ fault \in {"none", "stale_chunk", "bad_descriptor"}
  /\ socket_out \in Seq(0..(NumChunks - 1))
  /\ taken \in Nat
  /\ stops \subseteq {0, NumChunks}

Init ==
  /\ socket_open = Connected
  /\ read_processing = FALSE /\ write_processing = FALSE
  /\ close_invoked = FALSE
  /\ stop_write_chunk_id = kUndefinedChunkID
  /\ stop_after_all_write = FALSE /\ stop_write_immediate = FALSE
  /\ next_write_chunk_id = 0
  /\ write_chunks = {} /\ network_write_buffer = <<>>
  /\ bytes_transferred = 0 /\ resolved_points = 0
  /\ starter = "created" /\ reader = "idle" /\ writer = "idle"
  /\ posts = 0 /\ closer = "idle"
  /\ close_calls = 0 /\ fault = "none"
  /\ socket_out = <<>> /\ taken = 0 /\ stops = {}

-----------------------------------------------------------------------------
(* Threads and cancellation (boost::asio).                                 *)

\* Handlers that hold a thread in the middle of their work.
Busy == Cardinality({p \in {<<1, starter>>, <<2, reader>>, <<3, writer>>, <<4, closer>>} :
                       p[2] \in {"reading_started", "cancelling", "marking",
                                 "failing", "closing"}})

\* A thread of the pool is free to run a handler.
Free == fault = "none" /\ Busy < PoolSize

\* socket_.cancel() aborts the operations that are pending; a handler whose
\* operation has already completed is queued and is not called back.
Cancelled(op) ==
  CASE op = "reading" -> "eof"
    [] op = "writing" -> "broken"
    [] OTHER          -> op

\* write_idle_timer_.cancel() queues the handler of a pending wait.
Woken(op) == IF op = "waiting" THEN "woken" ELSE op

-----------------------------------------------------------------------------
(* The chunks and the buffer, under write_chunks_lock_.                    *)

\* Mutant: the stop index is taken for the last valid chunk.
StopReachedEarly(id) ==
  stop_write_chunk_id # kUndefinedChunkID /\ stop_write_chunk_id <= id + 1

StopReached(id) ==
  stop_write_chunk_id # kUndefinedChunkID /\ stop_write_chunk_id <= id

\* The loop takes the chunks below "end" and no more: they are all there, and
\* it breaks at the first index that is missing or at the stop index.
TakesUpTo(end) ==
  /\ next_write_chunk_id..(end - 1) \subseteq write_chunks
  /\ \A id \in next_write_chunk_id..(end - 1) : ~StopReached(id)
  /\ end \in write_chunks => StopReached(end)

\* Mutant: the first stored chunk is taken, whatever its index.
FillWithoutOrder(buffer) ==
  /\ \/ write_chunks = {} /\ UNCHANGED <<next_write_chunk_id, write_chunks>>
        /\ network_write_buffer' = buffer
     \/ \E id \in write_chunks :
          /\ \A other \in write_chunks : id <= other
          /\ next_write_chunk_id' = next_write_chunk_id + 1
          /\ network_write_buffer' = Append(buffer, id)
          /\ write_chunks' = write_chunks \ {id}
  /\ stop_after_all_write' = (stop_after_all_write \/ StopReached(next_write_chunk_id'))

FillNetworkBuffer(buffer) ==
  \/ /\ StopReached(next_write_chunk_id)
     /\ stop_after_all_write' = TRUE
     /\ write_chunks' = {}
     /\ network_write_buffer' = buffer
     /\ UNCHANGED next_write_chunk_id
  \/ /\ ~StopReached(next_write_chunk_id)
     /\ \E end \in next_write_chunk_id..NumChunks :
          /\ TakesUpTo(end)
          /\ next_write_chunk_id' = end
          /\ network_write_buffer' =
               buffer \o [i \in 1..(end - next_write_chunk_id) |->
                            next_write_chunk_id + i - 1]
          /\ stop_after_all_write' = (stop_after_all_write \/ StopReached(end))
          /\ write_chunks' =
               IF StopReached(end) THEN {}
               ELSE write_chunks \ (next_write_chunk_id..(end - 1))

\* CancelReadWrite(); write_processing_ = false; CheckReadyClose().
\* socket_.cancel() throws on a closed socket: no thread catches it.
EndWrite(reason) ==
  IF socket_open
    THEN /\ reader' = Cancelled(reader)
         /\ stop_write_immediate' = TRUE
         /\ write_processing' = FALSE
         /\ writer' = reason
         /\ posts' = posts + 1
         /\ UNCHANGED fault
    ELSE /\ fault' = "bad_descriptor"
         /\ write_processing' = TRUE
         /\ UNCHANGED <<reader, stop_write_immediate, writer, posts>>

WriteOn(op) ==
  /\ writer' = op
  /\ write_processing' = TRUE
  /\ UNCHANGED <<reader, stop_write_immediate, posts, fault>>

\* Called with write_processing_ set and no write or wait outstanding.
RequestWrite(buffer) ==
  /\ \/ /\ stop_write_immediate
        /\ network_write_buffer' = buffer
        /\ UNCHANGED <<next_write_chunk_id, write_chunks, stop_after_all_write>>
        /\ EndWrite("stopped")
     \/ /\ ~stop_write_immediate
        /\ FillNetworkBuffer(buffer)
        /\ \/ network_write_buffer' # <<>> /\ WriteOn("writing")
           \/ network_write_buffer' = <<>> /\ stop_after_all_write' /\ EndWrite("drained")
           \/ network_write_buffer' = <<>> /\ ~stop_after_all_write' /\ WriteOn("waiting")
  /\ UNCHANGED <<socket_open, close_invoked, stop_write_chunk_id,
                 resolved_points, closer, close_calls, history>>

-----------------------------------------------------------------------------
(* Start: Run, name resolution, connect.                                   *)

\* read_processing_ = true; RequestRead().  The write side starts in StartWriting.
StartReading ==
  /\ read_processing' = TRUE
  /\ reader' = "reading"
  /\ starter' = "reading_started"

Run ==
  /\ Free /\ starter = "created"
  /\ \/ socket_open /\ StartReading
     \/ ~socket_open /\ starter' = "resolving" /\ UNCHANGED <<read_processing, reader>>
  /\ UNCHANGED <<socket_open, write_processing, close_invoked, stopping, stream,
                 bytes_transferred, resolved_points, writer, posts, ending,
                 history>>

\* Mutant: the empty list is not tested for.
ConnectingAnyway(points) == "connecting"

\* RequestConnect() with this many endpoints left: an empty list just returns.
Connecting(points) == IF points = 0 THEN "unreachable" ELSE "connecting"

ResolverProcessing ==
  /\ Free /\ starter = "resolving"
  /\ \/ starter' = "unresolved" /\ posts' = posts + 1 /\ UNCHANGED resolved_points
     \/ \E points \in 0..MaxPoints :
          /\ resolved_points' = points
          /\ starter' = Connecting(points)
          /\ UNCHANGED posts
  /\ UNCHANGED <<socket_open, flags, stopping, stream, bytes_transferred,
                 reader, writer, ending, history>>

RequestConnectProcessing ==
  /\ Free /\ starter = "connecting"
  /\ \/ /\ resolved_points' = resolved_points - 1
        /\ starter' = Connecting(resolved_points - 1)
        /\ UNCHANGED <<socket_open, read_processing, reader>>
     \/ /\ socket_open' = TRUE
        /\ StartReading
        /\ UNCHANGED resolved_points
  /\ UNCHANGED <<write_processing, close_invoked, stopping, stream,
                 bytes_transferred, writer, posts, ending, history>>

\* write_processing_ = true; RequestWrite(), at the end of Run and of
\* RequestConnectProcessing: the read handler may have run by now.
StartWriting ==
  /\ fault = "none" /\ starter = "reading_started"
  /\ starter' = "started"
  /\ RequestWrite(network_write_buffer)
  /\ UNCHANGED <<read_processing, bytes_transferred>>

-----------------------------------------------------------------------------
(* The reader.                                                             *)

\* The network completes the pending read; its handler is queued.
ReadCompletes(result) ==
  /\ fault = "none" /\ reader = "reading"
  /\ result = "data" => taken < MaxReads
  /\ reader' = result
  /\ UNCHANGED <<fields, starter, writer, posts, ending, history>>

\* Data goes to the trunk and the next read is requested, whatever stop flags say.
RequestReadProcessing ==
  /\ Free
  /\ \/ /\ reader = "data"
        /\ taken' = taken + 1
        /\ reader' = "reading"
        /\ UNCHANGED read_processing
     \/ /\ reader = "eof"
        /\ read_processing' = FALSE
        /\ reader' = "cancelling"
        /\ UNCHANGED taken
  /\ UNCHANGED <<socket_open, write_processing, close_invoked, stopping, stream,
                 bytes_transferred, resolved_points, starter, writer, posts,
                 ending, socket_out, stops>>

\* CancelReadWrite of the read handler, first socket_.cancel() ...
ReaderCancels ==
  /\ fault = "none" /\ reader = "cancelling"
  /\ \/ /\ socket_open
        /\ writer' = Cancelled(writer)
        /\ reader' = "marking"
        /\ UNCHANGED fault
     \/ /\ ~socket_open
        /\ fault' = "bad_descriptor"
        /\ UNCHANGED <<writer, reader>>
  /\ UNCHANGED <<fields, starter, posts, closer, close_calls, history>>

\* Mutant: the reader ends without CheckReadyClose().
ReaderMarksOnly ==
  /\ fault = "none" /\ reader = "marking"
  /\ stop_write_immediate' = TRUE
  /\ writer' = Woken(writer)
  /\ reader' = "ended"
  /\ UNCHANGED <<socket_open, flags, stop_write_chunk_id, stop_after_all_write,
                 stream, bytes_transferred, resolved_points, starter, posts,
                 ending, history>>

\* ... then the flag and the timer, under the lock, and CheckReadyClose().
ReaderMarks ==
  /\ fault = "none" /\ reader = "marking"
  /\ stop_write_immediate' = TRUE
  /\ writer' = Woken(writer)
  /\ posts' = posts + 1
  /\ reader' = "ended"
  /\ UNCHANGED <<socket_open, flags, stop_write_chunk_id, stop_after_all_write,
                 stream, bytes_transferred, resolved_points, starter, ending,
                 history>>

-----------------------------------------------------------------------------
(* The writer.                                                             *)

\* The network takes the first n chunks of the buffer; the handler is queued.
WriteCompletes(n) ==
  /\ fault = "none" /\ writer = "writing"
  /\ n \in 1..Len(network_write_buffer)
  /\ socket_out' = socket_out \o SubSeq(network_write_buffer, 1, n)
  /\ bytes_transferred' = n
  /\ writer' = "written"
  /\ UNCHANGED <<socket_open, flags, stopping, stream, resolved_points, starter,
                 reader, posts, ending, taken, stops>>

\* The connection is reset by the peer.
WriteFails ==
  /\ fault = "none" /\ writer = "writing"
  /\ writer' = "broken"
  /\ UNCHANGED <<fields, starter, reader, posts, ending, history>>

\* Mutant: a partial write is taken for a whole one.
NothingUnwritten(n) == IF n > 0 THEN <<>> ELSE network_write_buffer

Unwritten(n) == SubSeq(network_write_buffer, n + 1, Len(network_write_buffer))

WriteSucceeded ==
  /\ Free /\ writer = "written"
  /\ RequestWrite(Unwritten(bytes_transferred))
  /\ bytes_transferred' = 0
  /\ UNCHANGED <<starter, read_processing>>

WriteFailed ==
  /\ Free /\ writer = "broken"
  /\ write_processing' = FALSE
  /\ writer' = "failing"
  /\ UNCHANGED <<socket_open, read_processing, close_invoked, stopping, stream,
                 bytes_transferred, resolved_points, starter, reader, posts,
                 ending, history>>

RequestWriteProcessing == WriteSucceeded \/ WriteFailed

\* socket_.cancel(); CheckReadyClose() at the end of a failed write.
WriterCancels ==
  /\ fault = "none" /\ writer = "failing"
  /\ \/ /\ socket_open
        /\ reader' = Cancelled(reader)
        /\ writer' = "failed"
        /\ posts' = posts + 1
        /\ UNCHANGED fault
     \/ /\ ~socket_open
        /\ fault' = "bad_descriptor"
        /\ UNCHANGED <<reader, writer, posts>>
  /\ UNCHANGED <<fields, starter, closer, close_calls, history>>

\* kWriteIdleTimeout has passed; the handler is queued.
TimerExpires ==
  /\ fault = "none" /\ writer = "waiting"
  /\ writer' = "woken"
  /\ UNCHANGED <<fields, starter, reader, posts, ending, history>>

\* The handler of the idle timer, expired or cancelled.
TimerHandler ==
  /\ Free /\ writer = "woken"
  /\ RequestWrite(network_write_buffer)
  /\ UNCHANGED <<starter, read_processing, bytes_transferred>>

-----------------------------------------------------------------------------
(* The end of the link.                                                    *)

\* Mutant: the reader is not waited for.
WriterReady == ~write_processing

ReadyClose == ~read_processing /\ ~write_processing

\* Mutant: close_invoked_ is not tested.
CloseDueAgain == ReadyClose

CloseDue == ReadyClose /\ ~close_invoked

\* The post is served; the first time both sides are down the socket is closed.
CheckReadyCloseProcessing ==
  /\ Free /\ posts > 0
  /\ posts' = posts - 1
  /\ \/ /\ CloseDue
        /\ close_invoked' = TRUE
        /\ socket_open' = FALSE
        /\ closer' = "closing"
     \/ /\ ~CloseDue
        /\ UNCHANGED <<close_invoked, socket_open, closer>>
  /\ UNCHANGED <<read_processing, write_processing, stopping, stream,
                 bytes_transferred, resolved_points, starter, reader, writer,
                 close_calls, fault, history>>

\* hoster_->CloseConnect(selfid_)
CloseConnect ==
  /\ fault = "none" /\ closer = "closing"
  /\ closer' = "idle"
  /\ close_calls' = close_calls + 1
  /\ UNCHANGED <<fields, starter, reader, writer, posts, fault, history>>

-----------------------------------------------------------------------------
(* Calls of the trunk.                                                     *)

\* The trunk finds the link in its table, from Run (which holds the lock of
\* the table) to CloseConnect; a second thread may have found it just before.
Known == Free /\ starter # "created" /\ (close_calls = 0 \/ PoolSize > 1)

\* Mutants: off by one.
TooOldByTwo(chunk_id)  == chunk_id + 1 < next_write_chunk_id
TooLateByOne(chunk_id) ==
  stop_write_chunk_id # kUndefinedChunkID /\ stop_write_chunk_id < chunk_id

TooOld(chunk_id)  == chunk_id < next_write_chunk_id
TooLate(chunk_id) == StopReached(chunk_id)

\* Mutant: the writer sleeps on when its chunk comes.
NeverAwaited(chunk_id) == FALSE

\* A new chunk, and the one the writer waits for.
Awaited(chunk_id) == chunk_id = next_write_chunk_id /\ chunk_id \notin write_chunks

SendData(chunk_id) ==
  /\ Known
  /\ \/ TooOld(chunk_id) /\ UNCHANGED <<write_chunks, writer, fault>>
     \/ /\ ~TooOld(chunk_id) /\ TooLate(chunk_id)
        /\ fault' = "stale_chunk"
        /\ UNCHANGED <<write_chunks, writer>>
     \/ /\ ~TooOld(chunk_id) /\ ~TooLate(chunk_id)
        /\ write_chunks' = write_chunks \union {chunk_id}
        /\ writer' = IF Awaited(chunk_id) THEN Woken(writer) ELSE writer
        /\ UNCHANGED fault
  /\ UNCHANGED <<socket_open, flags, stopping, next_write_chunk_id,
                 network_write_buffer, bytes_transferred, resolved_points,
                 starter, reader, posts, closer, close_calls, history>>

Stop(stop_chunk) ==
  /\ Known
  /\ stops' = stops \union {stop_chunk}
  /\ \/ /\ stop_chunk <= next_write_chunk_id
        /\ stop_write_chunk_id' = next_write_chunk_id
        /\ stop_after_all_write' = TRUE
        /\ write_chunks' = {}
        /\ writer' = Woken(writer)
     \/ /\ stop_chunk > next_write_chunk_id
        /\ stop_write_chunk_id' = stop_chunk
        /\ write_chunks' = {id \in write_chunks : id < stop_chunk}
        /\ UNCHANGED <<stop_after_all_write, writer>>
  /\ UNCHANGED <<socket_open, flags, stop_write_immediate, next_write_chunk_id,
                 network_write_buffer, bytes_transferred, resolved_points,
                 starter, reader, posts, ending, socket_out, taken>>

-----------------------------------------------------------------------------
\* What a free thread of the pool, the network and the trunk may do.
Next ==
  \/ Run \/ ResolverProcessing \/ RequestConnectProcessing \/ StartWriting
  \/ \E result \in {"data", "eof"} : ReadCompletes(result)
  \/ RequestReadProcessing \/ ReaderCancels \/ ReaderMarks
  \/ \E n \in 1..NumChunks : WriteCompletes(n)
  \/ WriteFails \/ RequestWriteProcessing \/ WriterCancels
  \/ TimerExpires \/ TimerHandler
  \/ CheckReadyCloseProcessing \/ CloseConnect
  \/ \E chunk_id \in 0..(NumChunks - 1) : SendData(chunk_id)
  \/ \E stop_chunk \in {0, NumChunks} : Stop(stop_chunk)

Spec == Init /\ [][Next]_vars

-----------------------------------------------------------------------------
(* Fairness.  The io_context serves its queue in order and every handler   *)
(* ends, so a queued handler runs; the resolver, the connect attempt and   *)
(* the timer report in the end; a peer that is alive reads what it is sent *)
(* or resets the connection.  Nothing makes a peer send or close.          *)
FairSpec ==
  /\ Spec
  /\ WF_vars(Run) /\ WF_vars(ResolverProcessing) /\ WF_vars(RequestConnectProcessing)
  /\ WF_vars(StartWriting)
  /\ WF_vars(RequestReadProcessing) /\ WF_vars(ReaderCancels) /\ WF_vars(ReaderMarks)
  /\ WF_vars((\E n \in 1..NumChunks : WriteCompletes(n)) \/ WriteFails)
  /\ WF_vars(RequestWriteProcessing) /\ WF_vars(WriterCancels)
  /\ WF_vars(TimerExpires) /\ WF_vars(TimerHandler)
  /\ WF_vars(CheckReadyCloseProcessing) /\ WF_vars(CloseConnect)

\* A peer that closes its side of the connection some day.
ClosingPeerSpec == FairSpec /\ WF_vars(ReadCompletes("eof"))

-----------------------------------------------------------------------------
(* Properties.                                                             *)

\* What the peer has received, followed by what is still in the buffer, is the
\* stream of chunks up to the one awaited: FillNetworkBuffer, partial writes,
\* duplicates and reordering lose, repeat and swap nothing.
StreamOrder ==
  socket_out \o Unwritten(bytes_transferred) = [i \in 1..next_write_chunk_id |-> i - 1]

\* The assertion of FillNetworkBuffer (outlink.cpp:46) and its other half: a
\* stored chunk is one still awaited, and never one at or past the stop index.
PendingChunksInWindow ==
  \A id \in write_chunks : id >= next_write_chunk_id /\ ~StopReached(id)

\* The writer sleeps on the idle timer only when there is nothing to do: no
\* call of the trunk and no error of the reader is left to the 10 s timeout.
IdleWriterHasNothingToDo ==
  writer = "waiting" =>
    /\ next_write_chunk_id \notin write_chunks
    /\ ~StopReached(next_write_chunk_id)
    /\ ~stop_after_all_write /\ ~stop_write_immediate

\* A writer that ends because everything was written has written every chunk up
\* to the release of the other side, unless the link was told to stop at once.
GracefulStopDeliversAll ==
  writer = "drained" =>
    /\ Len(socket_out) = next_write_chunk_id
    /\ 0 \notin stops => next_write_chunk_id = NumChunks

\* trunklink.h:214-216: when the trunk is told to remove the link, the link has
\* ended every operation of its own.
StoppedBeforeClose ==
  closer = "closing" \/ close_calls > 0 =>
    /\ starter # "reading_started"
    /\ reader \in {"idle", "ended"}
    /\ writer \in {"idle", "drained", "stopped", "failed"}

\* outlink.cpp:335-339 takes a chunk at or past the stop index for an error of
\* logic, and asserts that there is none.
NoChunkAfterStop == fault # "stale_chunk"

\* outlink.h:31-32: a link that is told to stop, or that fails, calls
\* CloseConnect of its hoster.
LinkEventuallyCloses ==
  (stop_after_all_write \/ stop_write_immediate) ~> (close_calls = 1 \/ fault # "none")

\* outlink.h:77-78: when no endpoint can be connected to, the hoster is told.
FailedConnectIsReported == starter = "unreachable" ~> close_calls > 0

\* The link keeps what OrderedLink promises.
Link == INSTANCE OrderedLink WITH
          delivered <- socket_out, taken <- taken, closings <- close_calls
ImplementsOrderedLink == Link!Spec
=============================================================================
