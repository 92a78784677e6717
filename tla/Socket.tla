------------------------------- MODULE Socket -------------------------------
(***************************************************************************)
(* Util/socket: a Socket object of either role over the operating system's *)
(* sockets (linux_socket).  One thread calls it.  pc is where that thread  *)
(* is: outside (idle), about to make a system call that can block or fail, *)
(* or between the events of one select().  The system's answers (which     *)
(* connections are readable, how many bytes a call moves, what fails) are  *)
(* chosen; a connection is the stream of bytes its peer sends on it and    *)
(* the bytes the peer gets.  The caller makes the calls of one of Scripts, *)
(* with any arguments.  MaxFaults bounds the system calls that fail,       *)
(* MaxArrivals the peers that connect.                                     *)
(* Timers, messages, the COOKIE socket type and user-provided callbacks    *)
(* other than the five of this file are left out.                          *)
(***************************************************************************)
EXTENDS StopListening, SequencesExt, FiniteSets, FiniteSetsExt

CONSTANTS
  Descriptors,       \* descriptors of connections; a client has the least only
  Streams,           \* what a peer may send: [framing, frames, fin]: a callback, byte
                     \* sequences, and whether the peer then closes
  Payloads,          \* what the caller may send
  ListenParams,      \* [type, stop, receive] the caller may set
  Timeouts,          \* what SetListenTimeout may be given, in ms, positive
  ConnectParams,     \* [non_blocking, timeout, retries, sleep, tries, bind_retries]
  ByteBase,          \* values of a byte
  SizeLimit,         \* 2^64, the modulus of size_t
  SleepLimit,        \* 2^63, the modulus of a sleep time
  BufferLimit,       \* kMaxBytesTransferrable
  ReceiveSize,       \* receive_buffer_max_size_
  Scripts,           \* the calls the caller makes, in order, by name
  MicrosPerMilli, MaxMsec, MaxFaults, MaxArrivals,
  KeepListening(_, _, _, _)   \* ShouldKeepListening, of StopConditions

ASSUME SocketAssumption ==
  /\ Descriptors \subseteq Nat \ {0} /\ Descriptors # {}
  /\ {ByteBase, SizeLimit, SleepLimit, BufferLimit, ReceiveSize, MicrosPerMilli} \subseteq Nat \ {0}
  /\ {MaxMsec, MaxFaults, MaxArrivals} \subseteq Nat

VARIABLES
  role,          \* role_
  initialized,   \* is_socket_initialized_
  bound,         \* server_socket_is_bound_and_accepting_connection_requests_
  connections,   \* connections_
  received,      \* received_bytes_per_socket_, of the descriptors that have an entry
  sending,       \* bytes_to_send_per_socket_
  params,        \* listen_params_ (now), and ServerConnect's orig_params (orig)
  connect,       \* connect_params_ and bind_params_
  stats,         \* stats_
  abort,         \* stats_.abort_listening_with_code_
  pc,            \* where the calling thread is
  call,          \* the call in progress, or the last one
  result,        \* what it has returned, or the codes of the loop so far
  scan,          \* HandleSelectEvents: itr, read_sockets, error_sockets
  left,          \* what is left of the flush in progress
  client,        \* the client's system socket: none, fresh, connected, closed
  link,          \* per descriptor: the connection's two streams
  arrivals,      \* peers still to connect
  faults,        \* system calls that may still fail
  script         \* calls the caller has still to make

object == << role, initialized, bound, connections, received, sending, params, connect, stats, abort >>
thread == << pc, call, result, scan, left >>
system == << client, link, arrivals, faults >>
vars == << object, thread, system, script >>

\* A connection: the bytes the peer has still to send and whether it then
\* closes; all it sends, and of that what the caller has taken; what has been
\* queued for it and what has reached it; torn when a flush failed half-way;
\* stale when it was opened on a descriptor whose buffers were not empty.
Bytes(stream) == FlattenSeq(stream.frames)
Byte == 0 .. ByteBase - 1
ASSUME BytesAssumption ==
  /\ \A stream \in Streams : Bytes(stream) \in Seq(Byte)
  /\ Payloads \subseteq Seq(Byte)
Unused == [wire |-> << >>, stream |-> [framing |-> 0, frames |-> << >>, fin |-> FALSE], taken |-> << >>,
           queued |-> << >>, delivered |-> << >>, torn |-> FALSE, stale |-> FALSE]
Buffer(map, d) == IF d \in DOMAIN map THEN map[d] ELSE << >>
Put(map, d, bytes) == [e \in {d} \cup DOMAIN map |-> IF e = d THEN bytes ELSE map[e]]
\* The bytes after the first n.
Rest(bytes, n) == SubSeq(bytes, n + 1, Len(bytes))
NoEntries == [d \in {} |-> << >>]
Client == Min(Descriptors)
IsConnected == Len(connections) = 1
Handles(type) == type \in params.now.type \/ "HANDLE_ALL_EVENTS" \in params.now.type
NoCallback == [header |-> 0, big |-> FALSE, count |-> -1]
NoCall == [api |-> "none", to |-> 0, data |-> << >>, clear |-> FALSE, tries |-> 0, fresh |-> FALSE]

Call(api, to, data, clear) ==
  /\ pc = "idle" /\ script # << >> /\ Head(script) = api /\ script' = Tail(script)
  /\ call' = [api |-> api, to |-> to, data |-> data, clear |-> clear, tries |-> 0, fresh |-> abort = {}]
Fault == faults > 0 /\ faults' = faults - 1
Return(codes) == pc' = "idle" /\ result' = codes

-----------------------------------------------------------------------------
(* The five receive callbacks: ReceiveInt64Bytes, ReceiveInt32Bytes and    *)
(* their big-endian twins read a length of header bytes in front of the    *)
(* message; ReceiveNumBytes is told the length (count).                    *)

LengthOf(big, bytes) ==
  FoldLeft(LAMBDA n, b : n * ByteBase + b, 0, IF big THEN bytes ELSE Reverse(bytes))
\* Mutant: the bytes of the length are not counted.
AnnouncedBody(callback, buffer) ==
  IF callback.count >= 0 THEN callback.count
  ELSE LengthOf(callback.big, SubSeq(buffer, 1, callback.header)) % SizeLimit
Announced(callback, buffer) ==
  IF callback.count >= 0 THEN callback.count
  ELSE (callback.header + LengthOf(callback.big, SubSeq(buffer, 1, callback.header))) % SizeLimit
ReceiveBytes(callback, buffer) ==
  IF Len(buffer) < callback.header \/ Len(buffer) < Announced(callback, buffer) THEN {}
  ELSE IF Len(buffer) > Announced(callback, buffer) THEN {"RECEIVED_UNEXPECTED_BYTES"}
  ELSE {"OK"}

\* HandleReceivedBytes: the codes that are added for a buffer.
HandleReceivedBytes(buffer) ==
  IF ~Handles("HANDLE_RECEIVE") THEN {"RECEIVE"}
  ELSE IF params.now.receive # NoCallback THEN ReceiveBytes(params.now.receive, buffer)
  ELSE {}

-----------------------------------------------------------------------------
(* Parameters and resets, between calls.                                   *)

SetListenParams(p) ==
  /\ Call("SetListenParams", 0, << >>, FALSE)
  /\ params' = [params EXCEPT !.now = p]
  /\ UNCHANGED << role, initialized, bound, connections, received, sending, connect, stats, abort,
                  pc, result, scan, left, system >>

SetListenTimeout(ms) ==
  /\ Call("SetListenTimeout", 0, << >>, FALSE)
  /\ params' = [params EXCEPT
       !.now.type = @ \cup {"USE_STOP_CONDITION"},
       !.now.stop = TimedOut("USE_STOP_CONDITION" \in params.now.type, @, ms)]
  /\ UNCHANGED << role, initialized, bound, connections, received, sending, connect, stats, abort,
                  pc, result, scan, left, system >>

\* The one-argument form: a null callback gives received bytes to the caller.
SetListenReceiveDataCallback(callback) ==
  /\ Call("SetListenReceiveDataCallback", 0, << >>, FALSE)
  /\ params' = [params EXCEPT !.now.receive = callback, !.now.type =
       IF callback = NoCallback THEN @ \ {"HANDLE_RECEIVE", "HANDLE_ALL_EVENTS"}
       ELSE IF "HANDLE_ALL_EVENTS" \in @ THEN @ ELSE @ \cup {"HANDLE_RECEIVE"}]
  /\ UNCHANGED << role, initialized, bound, connections, received, sending, connect, stats, abort,
                  pc, result, scan, left, system >>

\* The caller has taken from d's buffer all but what is kept.
Take(d, kept) == [link[d] EXCEPT !.taken = @ \o SubSeq(received[d], 1, Len(received[d]) - Len(kept))]

\* SwapBuffer with an empty vector.
SwapBuffer(d) ==
  /\ Call("SwapBuffer", d, << >>, FALSE)
  /\ d \in DOMAIN received
  /\ received' = Put(received, d, << >>)
  /\ link' = [link EXCEPT ![d] = Take(d, << >>)]
  /\ UNCHANGED << role, initialized, bound, connections, sending, params, connect, stats, abort,
                  pc, result, scan, left, client, arrivals, faults >>

\* ResetForReceive(), or with the bytes after the message it has used.
ResetForReceive(extra) ==
  /\ Call("ResetForReceive", 0, extra, FALSE)
  /\ \/ extra = << >> /\ received' = NoEntries
     \/ \E d \in DOMAIN received :
          /\ DOMAIN received = {d}
          /\ \E n \in 0 .. Len(received[d]) : extra = Rest(received[d], n)
          /\ received' = Put(NoEntries, d, extra)
  /\ stats' = Zeroed(stats, SendReceiveCounts \cup Errors)
  /\ abort' = {}
  /\ link' = [d \in Descriptors |->
               IF d \in DOMAIN received THEN Take(d, Buffer(received', d)) ELSE link[d]]
  /\ UNCHANGED << role, initialized, bound, connections, sending, params, connect,
                  pc, result, scan, left, client, arrivals, faults >>

ResetSocketErrorsAndAbortSignals ==
  /\ Call("ResetSocketErrorsAndAbortSignals", 0, << >>, FALSE)
  /\ stats' = Zeroed(stats, Errors)
  /\ abort' = {}
  /\ UNCHANGED << role, initialized, bound, connections, received, sending, params, connect,
                  pc, result, scan, left, system >>

-----------------------------------------------------------------------------
(* Closing.                                                                *)

\* ShutdownAllConnections and the rest of CloseServerSocket; a connection
\* that does not close ends it early, with the connections gone.
CloseServerSocket(ok) ==
  /\ connections' = << >> /\ received' = NoEntries /\ sending' = NoEntries
  /\ IF ok THEN /\ bound' = FALSE /\ initialized' = FALSE
                /\ stats' = ResetSocketStatsLight(stats) /\ abort' = {}
     ELSE UNCHANGED << bound, initialized, stats, abort >>
  /\ UNCHANGED << client, link >>

\* The received bytes stay; what was queued is dropped even when it fails.
CloseClientSocket(ok) ==
  /\ sending' = NoEntries
  /\ stats' = ResetSocketStatsLight(stats) /\ abort' = {}
  /\ IF ok THEN connections' = << >> /\ initialized' = FALSE /\ client' = "none"
     ELSE UNCHANGED << connections, initialized, client >>
  /\ link' = [link EXCEPT ![Client].queued = link[Client].delivered]
  /\ UNCHANGED << bound, received >>

Disconnect ==
  /\ Call("Disconnect", 0, << >>, FALSE)
  /\ \/ ~initialized /\ Return({"FALSE"})
        /\ UNCHANGED << initialized, bound, connections, received, sending, stats, abort, client, link, faults >>
     \/ initialized /\ \E ok \in BOOLEAN :
          /\ Return({IF ok THEN "TRUE" ELSE "FALSE"})
          /\ ok \/ connections # << >>
          /\ IF ok THEN UNCHANGED faults ELSE Fault
          /\ IF role = "SERVER" THEN CloseServerSocket(ok) ELSE CloseClientSocket(ok)
  /\ UNCHANGED << role, params, connect, scan, left, arrivals >>

\* Reset(full_reset): buffers, statistics, connections; errors are ignored.
Reset(full) ==
  /\ Call("Reset", 0, << >>, FALSE)
  /\ initialized' = FALSE /\ bound' = FALSE /\ connections' = << >>
  /\ received' = NoEntries /\ sending' = NoEntries
  /\ stats' = IF full THEN NoStats ELSE ResetSocketStatsLight(stats)
  /\ abort' = {} /\ client' = "none"
  /\ UNCHANGED << role, params, connect, pc, result, scan, left, link, arrivals, faults >>

-----------------------------------------------------------------------------
(* Connecting.                                                             *)

\* ServerConnect's own listen_params_: every event ends the loop.
Alone(p) == [p EXCEPT !.type = {}, !.stop = DefaultCondition]

\* The state of a connection to a peer that has just been opened on d.
Opened(d, stream) ==
  [Unused EXCEPT !.wire = Bytes(stream), !.stream = stream,
                 !.stale = Buffer(received, d) # << >> \/ Buffer(sending, d) # << >>]
Start == IF ~initialized THEN "setup"
         ELSE IF role = "CLIENT" /\ ~IsConnected THEN "connect" ELSE "resume"
ConnectFailed ==
  Return({CASE call.api = "Listen" -> "BAD_INITIALIZATION_ERROR"
            [] call.api = "SendData" -> "CANNOT_CONNECT"
            [] OTHER -> "FALSE"})

SetupSocket(ok) ==
  /\ pc = "setup"
  /\ IF ok
     THEN /\ initialized' = TRUE
          /\ client' = IF role = "CLIENT" THEN "fresh" ELSE client
          /\ pc' = IF role = "CLIENT" THEN "connect" ELSE "resume"
          /\ UNCHANGED << params, abort, result, faults >>
     ELSE /\ Fault /\ ConnectFailed
          /\ IF role = "SERVER" /\ call.api # "Listen"
             THEN params' = [params EXCEPT !.now = Alone(params.now)] /\ abort' = {}
             ELSE UNCHANGED << params, abort >>
          /\ UNCHANGED << initialized, client >>
  /\ UNCHANGED << role, bound, connections, received, sending, connect, stats,
                  call, scan, left, link, arrivals, script >>

\* The doubled sleep time as the code computes it: a wrapped uint64_t read as
\* an int64_t, and "false", that is 0, when it has been doubled too often.
SleepTime(sleep, tries, errors) ==
  LET doublings == IF tries <= 0 THEN 0 ELSE errors \div tries
      product == (sleep * 2 ^ doublings) % (2 * SleepLimit)
  IN  IF sleep = 0 \/ 2 ^ doublings > SleepLimit \/ product < sleep THEN 0
      ELSE IF product >= SleepLimit THEN product - 2 * SleepLimit ELSE product
ComputeConnectSleepTime(errors) ==
  IF connect.retries = 0 \/ (connect.retries >= 0 /\ connect.retries < errors) THEN -1
  ELSE SleepTime(connect.sleep, connect.tries, errors)
Slept(s, sleep) ==
  [s EXCEPT !["msec_waiting_to_connect"] = @ + (IF sleep > 0 THEN MicrosPerMilli * sleep ELSE 0)]

\* connect() of a socket that was connected before fails, of a closed one too.
Connect ==
  /\ Call("Connect", 0, << >>, FALSE)
  /\ IF role = "SERVER" THEN Return({"FALSE"})
     ELSE pc' = (IF initialized THEN "connect" ELSE "setup") /\ UNCHANGED result
  /\ UNCHANGED << object, scan, left, system >>

\* connect(), or with non_blocking_ the select() of CheckConnectStatus after
\* it, finds the socket connected.
ConnectSucceeds ==
  /\ pc = "connect" /\ client = "fresh"
  /\ connections' = Append(connections, Client)
  /\ stats' = Zeroed(stats, {"msec_waiting_to_connect"})
  /\ client' = "connected"
  /\ \E stream \in Streams : link' = [link EXCEPT ![Client] = Opened(Client, stream)]
  /\ IF call.api = "Connect" THEN Return({"TRUE"}) ELSE pc' = "resume" /\ UNCHANGED result
  /\ UNCHANGED << role, initialized, bound, received, sending, params, connect, abort,
                  call, scan, left, arrivals, faults, script >>

Retry == pc' = "connect" /\ call' = [call EXCEPT !.tries = @ + 1] /\ UNCHANGED result

\* HandleConnectError: only a refused connect() is tried again.
ConnectError(refused) ==
  LET counted == Counted(stats, {"connection_errors"})
      sleep == ComputeConnectSleepTime(counted["connection_errors"])
      timedOut == connect.timeout > 0 /\ stats["msec_waiting_to_connect"] >= connect.timeout
  IN  /\ pc = "connect" /\ ~connect.non_blocking /\ client # "closed"
      /\ IF client = "connected" THEN ~refused /\ UNCHANGED faults ELSE Fault
      /\ IF refused /\ ~timedOut /\ sleep >= 0
         THEN stats' = Slept(counted, sleep) /\ Retry
         ELSE stats' = counted /\ ConnectFailed /\ UNCHANGED call
      /\ UNCHANGED << role, initialized, bound, connections, received, sending, params, connect,
                      abort, scan, left, client, link, arrivals, script >>

\* HandleNonBlockingConnect: the socket is not connected yet, was refused (and
\* is closed and set up again), or select() fails; num_retries_ only decides
\* how long it sleeps.
NonBlockingConnect(why) ==
  LET slept == Slept(stats, ComputeConnectSleepTime(stats["connection_errors"]))
  IN  /\ pc = "connect" /\ connect.non_blocking /\ client = "fresh" /\ Fault
      /\ IF why = "failed" THEN ConnectFailed /\ UNCHANGED call ELSE Retry
      /\ IF why = "refused"
         THEN stats' = ResetSocketStatsLight(slept) /\ sending' = NoEntries /\ abort' = {}
              /\ connections' = << >>
         ELSE /\ stats' = IF why = "failed" THEN Counted(slept, {"errors", "select_errors"}) ELSE slept
              /\ UNCHANGED << sending, abort, connections >>
      /\ UNCHANGED << role, initialized, bound, received, params, connect, scan, left,
                      client, link, arrivals, script >>

\* The socket options of a closed descriptor cannot be set, and a non-blocking
\* connect() of a connected socket does not say that it is in progress.
ConnectImpossible ==
  /\ pc = "connect"
  /\ client = "closed" \/ (client = "connected" /\ connect.non_blocking)
  /\ ConnectFailed
  /\ UNCHANGED << object, call, scan, left, system, script >>

-----------------------------------------------------------------------------
(* Listening.                                                              *)

\* Listen, and a server's SendData without its connection: ServerConnect.
Listen(clear) ==
  /\ Call("Listen", 0, << >>, clear)
  /\ pc' = Start
  /\ UNCHANGED << object, result, scan, left, system >>

\* The bytes received before, then ThreadListen up to its loop.
ExistingBytes ==
  IF \/ role = "SERVER" /\ call.clear
     \/ role = "CLIENT" /\ Cardinality(DOMAIN received) = 1
  THEN UNION {HandleReceivedBytes(received[d]) : d \in {e \in DOMAIN received : received[e] # << >>}}
  ELSE {}
ThreadListen == pc' = (IF role = "SERVER" /\ ~bound THEN "bind" ELSE "select") /\ result' = {}

BeginListen ==
  /\ pc = "resume" /\ call.api = "Listen"
  /\ abort' = abort \cup ExistingBytes
  /\ ThreadListen
  /\ UNCHANGED << role, initialized, bound, connections, received, sending, params, connect, stats,
                  call, scan, left, system, script >>

ListenReturns(codes) == pc' = (IF call.api = "Listen" THEN "idle" ELSE "accept") /\ result' = codes

\* HandleBindError looks at num_connection_errors_, not at the bind errors.
BindRetried ==
  /\ connect.bind_retries # 0
  /\ connect.bind_retries < 0 \/ connect.bind_retries >= stats["connection_errors"]

Bind ==
  /\ pc = "bind"
  /\ bound' = TRUE /\ pc' = "select"
  /\ UNCHANGED << role, initialized, connections, received, sending, params, connect, stats, abort,
                  call, result, scan, left, system, script >>

\* bind() fails because the port is in use or otherwise, or listen() does.
BindError(why) ==
  /\ pc = "bind" /\ Fault
  /\ IF why = "in use" /\ BindRetried
     THEN /\ stats' = Counted(stats, {"bind_errors"}) /\ pc' = "bind"
          /\ call' = [call EXCEPT !.tries = @ + 1]
          /\ UNCHANGED << initialized, bound, connections, received, sending, abort, client, link, result >>
     ELSE /\ CloseServerSocket(TRUE)
          /\ ListenReturns({IF why = "listen" THEN "LISTEN_ERROR" ELSE "BIND_ERROR"})
          /\ UNCHANGED call
  /\ UNCHANGED << role, params, connect, scan, left, arrivals, script >>

\* The loop's condition, and the codes with it in to_return.
Keeps ==
  KeepListening(stats, abort,
    IF "USE_STOP_CONDITION" \in params.now.type THEN params.now.stop ELSE DefaultCondition, result)

StopListening ==
  /\ pc = "select" /\ ~Keeps.keep
  /\ ListenReturns(Keeps.codes)
  /\ UNCHANGED << object, call, scan, left, system, script >>

\* select() fails; gone when the descriptor is no longer a socket.
SelectError(gone) ==
  /\ pc = "select" /\ Keeps.keep /\ Fault
  /\ stats' = Counted(stats, {"errors", "select_errors"})
  /\ IF gone /\ role = "CLIENT"
     THEN connections' = << >> /\ client' = "closed" /\ ListenReturns({"SELECT_ERROR"})
     ELSE result' = Keeps.codes /\ UNCHANGED << connections, client, pc >>
  /\ UNCHANGED << role, initialized, bound, received, sending, params, connect, abort,
                  call, scan, left, link, arrivals, script >>

\* The counted silence is capped at MaxMsec, beyond every limit in use.
SelectTimeout ==
  /\ pc = "select" /\ Keeps.keep
  /\ stats' = [stats EXCEPT !["msec_since_last_event"] = Min({@ + 1, MaxMsec})]
  /\ result' = Keeps.codes
  /\ UNCHANGED << role, initialized, bound, connections, received, sending, params, connect, abort,
                  pc, call, scan, left, system, script >>

\* HandleNewConnection, from statistics s, under the parameters p; accept()
\* returns the least descriptor that is free.
HandleNewConnection(ok, p, s, codes) ==
  LET handled == {"HANDLE_NEW_CONNECTIONS", "HANDLE_ALL_EVENTS"} \cap p.type # {}
  IN  IF ~handled
      THEN /\ ~ok
           /\ abort' = codes \cup {"NEW_CONNECTION"} /\ stats' = s
           /\ UNCHANGED << connections, link, arrivals, faults >>
      ELSE IF ok
      THEN /\ ToSet(connections) # Descriptors
           /\ LET d == Min(Descriptors \ ToSet(connections))
              IN  /\ connections' = Append(connections, d)
                  /\ \E stream \in Streams : link' = [link EXCEPT ![d] = Opened(d, stream)]
           /\ LET counted == Counted(s, {"distinct", "current"})
              IN  stats' = [counted EXCEPT !["peak"] = Max({@, counted["current"]})]
           /\ arrivals' = arrivals - 1 /\ abort' = codes /\ UNCHANGED faults
      ELSE /\ Fault /\ stats' = Counted(s, {"errors", "connection_errors"})
           /\ arrivals' \in {arrivals, arrivals - 1} /\ abort' = codes
           /\ UNCHANGED << connections, link >>

Readable == {d \in ToSet(connections) : link[d].wire # << >> \/ link[d].stream.fin}

\* select() finds a connection request (new) or events on connections.
SelectEvents(new, ready, failed) ==
  /\ pc = "select" /\ Keeps.keep
  /\ ready \subseteq Readable /\ failed \subseteq ToSet(connections)
  /\ new \/ ready # {} \/ failed # {}
  /\ new => role = "SERVER" /\ arrivals > 0 /\ ToSet(connections) # Descriptors
  /\ result' = Keeps.codes
  /\ LET quiet == Zeroed(stats, {"msec_since_last_event"})
     IN  IF role = "CLIENT" /\ failed # {}
         THEN /\ Fault /\ stats' = Counted(quiet, {"errors", "client_errors"})
              /\ UNCHANGED << connections, link, arrivals, abort, pc, scan >>
         ELSE /\ scan' = [itr |-> 1, ready |-> ready, failed |-> failed]
              /\ IF new
                 THEN \E ok \in BOOLEAN :
                        /\ HandleNewConnection(ok, params.now, quiet, abort)
                        /\ pc' = IF ok THEN "events" ELSE "select"
                 ELSE /\ stats' = quiet /\ pc' = "events"
                      /\ IF failed = {} THEN UNCHANGED faults ELSE Fault
                      /\ UNCHANGED << connections, link, arrivals, abort >>
  /\ UNCHANGED << role, initialized, bound, received, sending, params, connect,
                  call, left, client, script >>

\* An error on the listening socket itself.
ServerSocketError ==
  /\ pc = "select" /\ Keeps.keep /\ role = "SERVER" /\ Fault
  /\ stats' = Counted(Zeroed(stats, {"msec_since_last_event"}), {"errors", "server_errors"})
  /\ result' = Keeps.codes
  /\ UNCHANGED << role, initialized, bound, connections, received, sending, params, connect, abort,
                  pc, call, scan, left, client, link, arrivals, script >>

\* ServerConnect when its Listen has returned: a failure keeps its parameters.
ServerConnected(ok) ==
  /\ pc = "accept" /\ result = {"NEW_CONNECTION"}
  /\ params' = [params EXCEPT !.now = params.orig]
  /\ HandleNewConnection(ok, params.orig, stats, {})
  /\ IF ok THEN /\ pc' = "resume" /\ UNCHANGED result
                /\ call' = [call EXCEPT !.to = IF @ = 0 THEN connections'[1] ELSE @]
     ELSE ConnectFailed /\ UNCHANGED call
  /\ UNCHANGED << role, initialized, bound, received, sending, connect, scan, left, client, script >>

ServerNotConnected ==
  /\ pc = "accept" /\ result # {"NEW_CONNECTION"}
  /\ ConnectFailed
  /\ UNCHANGED << object, call, scan, left, system, script >>

-----------------------------------------------------------------------------
(* HandleSelectEvents: the connections in turn, from scan.itr.             *)

Current == connections[scan.itr]
Scanning == pc = "events" /\ scan.itr <= Len(connections)
Advance == scan' = [scan EXCEPT !.itr = @ + 1] /\ pc' = "events"

\* RemoveConnection: erased even if it does not close; its buffers stay.
RemoveConnection(s, closes) ==
  /\ connections' = RemoveAt(connections, scan.itr)
  /\ stats' = IF closes THEN [s EXCEPT !["current"] = @ - 1]
              ELSE Counted(s, {"errors", "disconnect_errors"})
  /\ client' = IF role = "CLIENT" THEN "closed" ELSE client

\* HandleGeneralSocketError: when it succeeds the loop steps over the
\* connection after the one it erased, or past the end of the vector.
EventError(closes) ==
  /\ Scanning /\ Current \in scan.failed
  /\ IF closes THEN UNCHANGED faults ELSE Fault
  /\ RemoveConnection(Counted(stats, IF closes THEN {"errors"} ELSE {"errors", "event_errors"}), closes)
  /\ IF ~closes THEN UNCHANGED << scan, pc >>
     ELSE IF scan.itr = Len(connections) THEN pc' = "undefined" /\ UNCHANGED scan
     ELSE Advance
  /\ UNCHANGED << role, initialized, bound, received, sending, params, connect, abort,
                  call, result, left, link, arrivals, script >>

EventNone ==
  /\ Scanning /\ Current \notin scan.ready \cup scan.failed
  /\ Advance
  /\ UNCHANGED << object, call, result, left, system, script >>

EventsDone ==
  /\ pc = "events" /\ scan.itr > Len(connections)
  /\ pc' = "select"
  /\ UNCHANGED << object, call, result, scan, left, system, script >>

Receiving == Scanning /\ Current \in scan.ready \ scan.failed
Full == Len(Buffer(received, Current)) >= BufferLimit

\* ReceiveData that gets n bytes.
ReceiveData(n) ==
  /\ Receiving /\ ~Full
  /\ n \in 1 .. Min({ReceiveSize, Len(link[Current].wire)})
  /\ LET bytes == SubSeq(link[Current].wire, 1, n)
         buffer == Buffer(received, Current) \o bytes
         counted == Counted(stats, {"received_transactions"} \cup
                              (IF Last(bytes) = 0 THEN {"nulls"} ELSE {}))
     IN  /\ received' = Put(received, Current, buffer)
         /\ stats' = [counted EXCEPT !["received_bytes"] = @ + n]
         /\ abort' = abort \cup HandleReceivedBytes(buffer)
  /\ link' = [link EXCEPT ![Current].wire = Rest(@, n)]
  /\ Advance
  /\ UNCHANGED << role, initialized, bound, connections, sending, params, connect,
                  call, result, left, client, arrivals, faults, script >>

\* HandleReceiveError lets an error that may pass go.
ReceiveErrorPasses ==
  /\ Receiving /\ ~Full /\ Fault
  /\ received' = Put(received, Current, Buffer(received, Current))
  /\ stats' = Counted(stats, {"errors"})
  /\ Advance
  /\ UNCHANGED << role, initialized, bound, connections, sending, params, connect, abort,
                  call, result, left, client, link, arrivals, script >>

\* ReceiveData fails: the buffer is full, the peer has closed, or the
\* connection was reset.  The connection is removed.
ReceiveFails(why, closes) ==
  /\ Receiving
  /\ CASE why = "full" -> Full
       [] why = "closed" -> ~Full /\ link[Current].wire = << >> /\ link[Current].stream.fin
       [] why = "reset" -> ~Full /\ faults > 0
  /\ LET used == Cardinality({why} \cap {"reset"}) + Cardinality({closes} \cap {FALSE})
     IN  faults >= used /\ faults' = faults - used
  /\ received' = Put(received, Current, Buffer(received, Current))
  /\ RemoveConnection(Counted(
       CASE why = "closed" -> Counted(stats, {"received_transactions"})
         [] why = "reset" -> Counted(stats, {"errors"})
         [] OTHER -> stats, {"errors", "receive_errors"}), closes)
  /\ UNCHANGED << role, initialized, bound, sending, params, connect, abort,
                  pc, call, result, scan, left, link, arrivals, script >>

-----------------------------------------------------------------------------
(* Sending.                                                                *)

\* SendData, which flushes, or SendDataNoFlush; to = 0 is the connection of
\* the API that names none.
SendData(api, to, data) ==
  /\ Call(api, to, data, FALSE)
  /\ to # 0 => role = "SERVER" \/ to = Client
  /\ IF api = "SendDataNoFlush" /\ to # 0 /\ data = << >> THEN Return({"TRUE"})
     ELSE pc' = Start /\ UNCHANGED result
  /\ UNCHANGED << object, scan, left, system >>

Sends == pc = "resume" /\ call.api \in {"SendData", "SendDataNoFlush"}
Connected ==
  \/ role = "CLIENT"
  \/ IF call.to = 0 THEN IsConnected ELSE call.to \in ToSet(connections)

\* A server that has not the connection waits for one: with the default API
\* unless it has exactly one.
ServerConnect ==
  /\ Sends /\ ~Connected
  /\ params' = [now |-> Alone(params.now), orig |-> params.now]
  /\ abort' = {}
  /\ ThreadListen
  /\ UNCHANGED << role, initialized, bound, connections, received, sending, connect, stats,
                  call, scan, left, system, script >>

\* FlushSendBuffer(d) of the buffer b.
Flush(b) == pc' = (IF b = << >> THEN "idle" ELSE "send") /\ result' = {"SUCCESS"} /\ left' = b

Enqueue ==
  LET d == IF call.to # 0 THEN call.to ELSE connections[1]
      buffer == Buffer(sending, d) \o call.data
      queued == IF call.data = << >> THEN sending ELSE Put(sending, d, buffer)
  IN  /\ Sends /\ Connected
      /\ sending' = queued
      /\ link' = [link EXCEPT ![d].queued = @ \o call.data]
      /\ call' = [call EXCEPT !.to = d]
      /\ IF call.api = "SendDataNoFlush" THEN Return({"TRUE"}) /\ UNCHANGED left
         ELSE IF d \notin DOMAIN queued THEN Return({"UNKNOWN_SOCKET"}) /\ UNCHANGED left
         ELSE Flush(buffer)
      /\ UNCHANGED << role, initialized, bound, connections, received, params, connect, stats, abort,
                      scan, client, arrivals, faults, script >>

\* FlushSendBuffer of one descriptor, named or, for a server, its first.
FlushSendBuffer(to) ==
  LET d == IF to # 0 THEN to ELSE IF role = "CLIENT" THEN Client ELSE connections[1]
  IN  /\ pc = "idle" /\ script # << >> /\ Head(script) = "FlushSendBuffer" /\ script' = Tail(script)
      /\ call' = [NoCall EXCEPT !.api = "FlushSendBuffer", !.to = IF to = 0 /\ role = "SERVER" /\ connections = << >> THEN 0 ELSE d]
      /\ IF call'.to = 0 THEN Return({"SUCCESS"}) /\ UNCHANGED left
         ELSE IF d \notin DOMAIN sending THEN Return({"UNKNOWN_SOCKET"}) /\ UNCHANGED left
         ELSE Flush(sending[d])
      /\ UNCHANGED << object, scan, system >>

\* FlushSendBuffers of a server: its buffers that are not empty, in order.
FlushSendBuffers ==
  LET full == {d \in DOMAIN sending : sending[d] # << >>}
  IN  /\ \/ /\ pc = "idle" /\ role = "SERVER"
            /\ script # << >> /\ Head(script) = "FlushSendBuffers" /\ script' = Tail(script)
         \/ pc = "flush" /\ UNCHANGED script
      /\ IF connections = << >> \/ full = {} THEN Return({"SUCCESS"}) /\ UNCHANGED << call, left >>
         ELSE call' = [NoCall EXCEPT !.api = "FlushSendBuffers", !.to = Min(full)] /\ Flush(sending[Min(full)])
      /\ UNCHANGED << object, scan, system >>

\* What FlushSendBuffer does when its SendBlob has succeeded.
\* Mutant: the buffer is not cleared.
NothingCleared(d) == sending
ClearSendBuffer(d) == Put(sending, d, << >>)

\* SendBlob: select() finds the socket writable and send() takes n bytes; when
\* none are left the buffer is cleared.
SendBlob(n) ==
  LET d == call.to
      rest == Rest(left, n)
      counted == [stats EXCEPT !["sent_bytes"] = @ + n]
  IN  /\ pc = "send" /\ d \in ToSet(connections) /\ n \in 1 .. Len(left)
      /\ link' = [link EXCEPT ![d].delivered = @ \o SubSeq(left, 1, n)]
      /\ left' = rest
      /\ IF rest # << >>
         THEN stats' = counted /\ UNCHANGED << sending, pc >>
         ELSE /\ stats' = Counted(counted, {"sent_transactions"})
              /\ sending' = ClearSendBuffer(d)
              /\ pc' = IF call.api = "FlushSendBuffers" THEN "flush" ELSE "idle"
      /\ UNCHANGED << role, initialized, bound, connections, received, params, connect, abort,
                      call, result, scan, client, arrivals, faults, script >>

\* select() or send() fails: the whole buffer stays, sent bytes included.  A
\* descriptor that is no connection any more cannot be selected.
SendBlobFails(code) ==
  /\ pc = "send"
  /\ IF call.to \in ToSet(connections) THEN Fault ELSE code = "SELECT_ERROR" /\ UNCHANGED faults
  /\ Return({code})
  /\ link' = [link EXCEPT ![call.to].torn = @ \/ left # sending[call.to]]
  /\ UNCHANGED << object, call, scan, left, client, arrivals, script >>

-----------------------------------------------------------------------------
SocketInit ==
  /\ role \in {"SERVER", "CLIENT"}
  /\ initialized = FALSE /\ bound = FALSE /\ connections = << >>
  /\ received = NoEntries /\ sending = NoEntries
  /\ \E p \in ListenParams : params = [now |-> p, orig |-> p]
  /\ connect \in ConnectParams /\ (role = "SERVER" => ~connect.non_blocking)
  /\ stats = NoStats /\ abort = {}
  /\ pc = "idle" /\ call = NoCall /\ result = {} /\ left = << >>
  /\ scan = [itr |-> 1, ready |-> {}, failed |-> {}]
  /\ client = "none" /\ link = [d \in Descriptors |-> Unused]
  /\ arrivals = MaxArrivals /\ faults = MaxFaults /\ script \in Scripts

Parameters ==
  \/ \E p \in ListenParams : SetListenParams(p) \/ SetListenReceiveDataCallback(p.receive)
  \/ \E ms \in Timeouts : SetListenTimeout(ms)
Buffers ==
  \/ \E d \in Descriptors : SwapBuffer(d)
  \/ \E extra \in (UNION {Suffixes(received[d]) : d \in DOMAIN received}) \cup {<< >>} :
       ResetForReceive(extra)
  \/ ResetSocketErrorsAndAbortSignals
Closing == Disconnect \/ \E full \in BOOLEAN : Reset(full)
Connecting ==
  \/ \E ok \in BOOLEAN : SetupSocket(ok)
  \/ Connect \/ ConnectSucceeds \/ ConnectImpossible
  \/ \E refused \in BOOLEAN : ConnectError(refused)
  \/ \E why \in {"not yet", "refused", "failed"} : NonBlockingConnect(why)
Listening ==
  \/ \E clear \in BOOLEAN : Listen(clear)
  \/ BeginListen \/ Bind \/ \E why \in {"in use", "bind", "listen"} : BindError(why)
  \/ StopListening \/ SelectTimeout \/ ServerSocketError
  \/ \E gone \in BOOLEAN : SelectError(gone)
  \/ \E new \in BOOLEAN, ready, failed \in SUBSET Descriptors : SelectEvents(new, ready, failed)
  \/ ServerNotConnected \/ \E ok \in BOOLEAN : ServerConnected(ok)
Events ==
  \/ EventNone \/ EventsDone \/ ReceiveErrorPasses
  \/ \E n \in 1 .. ReceiveSize : ReceiveData(n)
  \/ \E closes \in BOOLEAN : EventError(closes)
  \/ \E why \in {"full", "closed", "reset"}, closes \in BOOLEAN : ReceiveFails(why, closes)
Sending ==
  \/ \E api \in {"SendData", "SendDataNoFlush"}, to \in Descriptors \cup {0}, data \in Payloads :
       SendData(api, to, data)
  \/ ServerConnect \/ Enqueue \/ FlushSendBuffers
  \/ \E to \in Descriptors \cup {0} : FlushSendBuffer(to)
  \/ \E n \in 1 .. Len(left) : SendBlob(n)
  \/ \E code \in {"SELECT_ERROR", "SOCKET_NOT_READY", "SOCKET_ERROR", "SEND_ERROR"} : SendBlobFails(code)
SocketNext == Parameters \/ Buffers \/ Closing \/ Connecting \/ Listening \/ Events \/ Sending
SocketSpec == SocketInit /\ [][SocketNext]_vars

-----------------------------------------------------------------------------
(* Properties.                                                             *)

\* On a connection that was opened with empty buffers (a descriptor that is
\* used again keeps those of its last connection): the bytes the caller
\* has taken, those in received_bytes_per_socket_ and those still to come are
\* what the peer sends, in order, however recv() cuts them and whatever fails
\* meanwhile (ReceiveData, ResetForReceive, SwapBuffer); and, unless a flush
\* failed half-way, what has reached the peer and what is still buffered is
\* what the caller queued (SendDataNoFlush, FlushSendBuffer, SendBlob).
StreamsIntact ==
  \A d \in ToSet(connections) : ~link[d].stale =>
    /\ link[d].taken \o Buffer(received, d) \o link[d].wire = Bytes(link[d].stream)
    /\ ~link[d].torn /\ pc # "send" => link[d].delivered \o Buffer(sending, d) = link[d].queued

\* A Listen that began without an abort code and returns OK alone has in some
\* buffer exactly the next message of the peer's stream, if the caller has
\* taken whole messages so far: cutting or joining the messages on the way
\* never makes the length-prefixed callbacks accept something else.
MessagesAreWhole ==
  pc = "idle" /\ call.api = "Listen" /\ call.fresh /\ result = {"OK"} =>
    \/ \E d \in DOMAIN received :
         \/ link[d].stale \/ link[d].stream.framing # params.now.receive
         \/ \A i \in 0 .. Len(link[d].stream.frames) :
              link[d].taken # FlattenSeq(SubSeq(link[d].stream.frames, 1, i))
         \/ \E i \in DOMAIN link[d].stream.frames :
              /\ link[d].taken = FlattenSeq(SubSeq(link[d].stream.frames, 1, i - 1))
              /\ received[d] = link[d].stream.frames[i]

\* BindParams::num_retries_ and ConnectParams::num_retries_: if it is not negative,
\* "the value represents how many times to retry Bind()", or Connect(), blocking or
\* not, in one call (HandleBindError, HandleConnectError, HandleNonBlockingConnect).
RetriesBounded ==
  LET retries == IF role = "SERVER" THEN connect.bind_retries ELSE connect.retries
  IN  retries >= 0 => call.tries <= retries
=============================================================================
