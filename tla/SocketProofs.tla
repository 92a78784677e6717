---------------------------- MODULE SocketProofs ----------------------------
(***************************************************************************)
(* That the streams of a Socket stay intact (StreamsIntact), whatever the  *)
(* scripts of calls, the cuts of the bytes, the failures of the system     *)
(* calls and the stop conditions are.  SocketInv adds to StreamsIntact     *)
(* what a step needs to know: the types, which role each place of the      *)
(* thread belongs to, that a client has its own descriptor only, and that  *)
(* during a flush the bytes still to go are those in left, not those in    *)
(* the send buffer.  One lemma per group of actions, combined at the end.  *)
(***************************************************************************)
EXTENDS Socket, SequenceTheorems, WellFoundedInduction, TLAPS

\* The least of some natural numbers is one of them, and least.
LEMMA LeastIn ==
  ASSUME NEW T, T \subseteq Nat, T # {}
  PROVE  Min(T) \in T /\ \A y \in T : Min(T) <= y
<1> DEFINE R == OpToRel(<, Nat)
<1>1. \A x, y \in Nat : <<y, x>> \in R <=> y < x
  BY DEF OpToRel
<1>2. IsWellFoundedOn(R, Nat)
  BY NatLessThanWellFounded, Zenon
<1> HIDE DEF R
<1>3. PICK x \in T : \A y \in T : ~(<<y, x>> \in R)
  BY <1>2, WFMin
<1>4. \A y \in T : ~(y < x)
  BY <1>1, <1>3
<1>5. \A y \in T : x <= y
  BY <1>4
<1> QED
  BY <1>5 DEF Min

\* The client's descriptor, and the least free one, are descriptors.
LEMMA ClientIn == Client \in Descriptors
  BY LeastIn, SocketAssumption DEF Client

\* The least free descriptor, the one the system hands out next, is free.
LEMMA FreeIn ==
  ASSUME NEW S, S \subseteq Descriptors, S # Descriptors
  PROVE  Min(Descriptors \ S) \in Descriptors \ S
<1> DEFINE T == Descriptors \ S
<1>1. T \subseteq Nat /\ T # {}
  BY SocketAssumption
<1> HIDE DEF T
<1>2. Min(T) \in T
  BY <1>1, LeastIn
<1> QED
  BY <1>2 DEF T

-----------------------------------------------------------------------------
(* Sequences.                                                              *)

\* The members of a sequence over S.
LEMMA MembersIn ==
  ASSUME NEW S, NEW s \in Seq(S)
  PROVE  ToSet(s) \subseteq S /\ s \in Seq(ToSet(s)) /\ (s # << >> => s[1] \in ToSet(s))
  BY DEF ToSet
\* Nothing is in the empty sequence.
LEMMA NoMembers == ToSet(<< >>) = {}
  BY DEF ToSet

\* Appending adds one member.
LEMMA MembersOfAppend ==
  ASSUME NEW S, NEW s \in Seq(S), NEW e \in S
  PROVE  Append(s, e) \in Seq(S) /\ ToSet(Append(s, e)) = ToSet(s) \cup {e}
<1>1. /\ Append(s, e) \in Seq(S) /\ Len(Append(s, e)) = Len(s) + 1
      /\ \A i \in 1 .. Len(s) : Append(s, e)[i] = s[i]
      /\ Append(s, e)[Len(s) + 1] = e
  BY AppendProperties
<1>2. DOMAIN Append(s, e) = 1 .. Len(s) + 1 /\ DOMAIN s = 1 .. Len(s) /\ Len(s) \in Nat
  BY <1>1
<1>3. ToSet(Append(s, e)) \subseteq ToSet(s) \cup {e}
  BY <1>1, <1>2 DEF ToSet
<1>4. ToSet(s) \cup {e} \subseteq ToSet(Append(s, e))
  BY <1>1, <1>2 DEF ToSet
<1> QED
  BY <1>1, <1>3, <1>4

\* Removing an element adds no member.
LEMMA MembersOfRemoveAt ==
  ASSUME NEW S, NEW s \in Seq(S), NEW i \in 1 .. Len(s)
  PROVE  RemoveAt(s, i) \in Seq(S) /\ ToSet(RemoveAt(s, i)) \subseteq ToSet(s)
<1>1. s \in Seq(ToSet(s)) /\ Len(s) \in Nat /\ ToSet(s) \subseteq S
  BY MembersIn
<1> DEFINE W == ToSet(s)
           a == SubSeq(s, 1, i - 1)
           b == SubSeq(s, i + 1, Len(s))
<1> HIDE DEF W
<1>2. s \in Seq(W) /\ W \subseteq S
  BY <1>1 DEF W
<1>3. a \in Seq(W) /\ b \in Seq(W)
  BY <1>1, <1>2, SubSeqProperties
<1> DEFINE c == a \o b
<1> HIDE DEF a, b
<1>4. c \in Seq(W)
  BY <1>3, ConcatProperties
<1> HIDE DEF c
<1>5. ToSet(c) \subseteq W
  BY <1>4, MembersIn
<1>6. c \in Seq(S)
  BY <1>2, <1>4
<1> QED
  BY <1>5, <1>6 DEF RemoveAt, a, b, c, W

\* Taking n bytes off the front loses none.
LEMMA FirstAndRest ==
  ASSUME NEW s \in Seq(Byte), NEW n \in 0 .. Len(s)
  PROVE  /\ SubSeq(s, 1, n) \in Seq(Byte) /\ Rest(s, n) \in Seq(Byte)
         /\ SubSeq(s, 1, n) \o Rest(s, n) = s
         /\ Len(Rest(s, n)) = Len(s) - n
<1> HIDE DEF Byte
<1>0. Len(s) \in Nat /\ n \in Nat /\ n <= Len(s) /\ \A i \in 1 .. Len(s) : s[i] \in Byte
  OBVIOUS
<1>1. SubSeq(s, 1, n) \in Seq(Byte)
  BY <1>0, SubSeqProperties
<1>3. Rest(s, n) \in Seq(Byte) /\ Len(Rest(s, n)) = Len(s) - n
  BY <1>0, SubSeqProperties DEF Rest
<1>2. SubSeq(s, 1, n) \o Rest(s, n) = SubSeq(s, 1, Len(s))
  <2>1. 1 \in 1 .. Len(s) + 1 /\ n \in 1 - 1 .. Len(s) /\ Len(s) \in n .. Len(s)
    BY <1>0
  <2> QED
    BY <2>1, ConcatAdjacentSubSeq DEF Rest
<1> QED
  BY <1>1, <1>2, <1>3, SubSeqFull

\* Bytes that are received, taken or sent move across one boundary of the
\* stream and leave it as it was.
LEMMA MoveToTheLeft ==
  ASSUME NEW a \in Seq(Byte), NEW b \in Seq(Byte), NEW n \in 0 .. Len(b)
  PROVE  a \o SubSeq(b, 1, n) \in Seq(Byte) /\ (a \o SubSeq(b, 1, n)) \o Rest(b, n) = a \o b
<1> DEFINE x == SubSeq(b, 1, n)
           y == Rest(b, n)
<1>1. x \in Seq(Byte) /\ y \in Seq(Byte)
  BY FirstAndRest
<1>4. x \o y = b
  BY FirstAndRest
<1> HIDE DEF x, y, Byte
<1>2. a \o x \in Seq(Byte)
  BY <1>1, ConcatProperties
<1>3. (a \o x) \o y = a \o (x \o y)
  BY <1>1, ConcatAssociative
<1> QED
  BY <1>1, <1>2, <1>3, <1>4 DEF x, y
\* What was taken out, what is buffered and what is on the wire, in order.
Whole(a, b, c) == a \o b \o c

\* Receiving the first n bytes of the wire leaves the whole stream as it was.
LEMMA MoveInTheMiddle ==
  ASSUME NEW a \in Seq(Byte), NEW b \in Seq(Byte), NEW c \in Seq(Byte), NEW n \in 0 .. Len(c)
  PROVE  Whole(a, b \o SubSeq(c, 1, n), Rest(c, n)) = Whole(a, b, c)
<1> DEFINE x == b \o SubSeq(c, 1, n)
           y == Rest(c, n)
<1>1. x \in Seq(Byte) /\ y \in Seq(Byte)
  BY MoveToTheLeft, FirstAndRest
<1>3. x \o y = b \o c
  BY MoveToTheLeft
<1> HIDE DEF x, y, Byte
<1>2. (a \o x) \o y = a \o (x \o y)
  BY <1>1, ConcatAssociative
<1>4. (a \o b) \o c = a \o (b \o c)
  BY ConcatAssociative
<1>5. (a \o x) \o y = (a \o b) \o c
  BY <1>2, <1>3, <1>4
<1> QED
  BY <1>5 DEF x, y, Whole

\* An empty buffer on either side changes nothing; all of a buffer leaves none over.
LEMMA Nothing ==
  ASSUME NEW a \in Seq(Byte)
  PROVE  << >> \in Seq(Byte) /\ a \o << >> = a /\ << >> \o a = a /\ Rest(a, Len(a)) = << >>
         /\ SubSeq(a, 1, Len(a)) = a
<1> HIDE DEF Byte
<1>1. << >> \in Seq(Byte) /\ a \o << >> = a /\ << >> \o a = a /\ SubSeq(a, 1, Len(a)) = a
  BY ConcatEmptySeq, SubSeqFull
<1>2. Len(a) \in Nat
  OBVIOUS
<1>3. SubSeq(a, Len(a) + 1, Len(a)) = << >>
  BY <1>2, SubSeqEmpty
<1> QED
  BY <1>1, <1>3 DEF Rest

-----------------------------------------------------------------------------
(* Buffers.                                                                *)

\* A map from descriptors to buffers of bytes.
IsBuffers(map) == DOMAIN map \subseteq Descriptors /\ \A d \in DOMAIN map : map[d] \in Seq(Byte)

\* A buffer, absent or not, is a sequence of bytes.
LEMMA BufferType ==
  ASSUME NEW map, IsBuffers(map), NEW d
  PROVE  Buffer(map, d) \in Seq(Byte)
  BY DEF Buffer, IsBuffers

\* The cleared map holds an empty buffer for everyone.
LEMMA BuffersEmpty == IsBuffers(NoEntries) /\ \A d : Buffer(NoEntries, d) = << >>
  BY DEF IsBuffers, Buffer, NoEntries

\* Storing one buffer leaves the others alone.
LEMMA BuffersPut ==
  ASSUME NEW map, IsBuffers(map), NEW d \in Descriptors, NEW bytes \in Seq(Byte)
  PROVE  /\ IsBuffers(Put(map, d, bytes))
         /\ DOMAIN Put(map, d, bytes) = {d} \cup DOMAIN map
         /\ Buffer(Put(map, d, bytes), d) = bytes
         /\ \A e : e # d => Buffer(Put(map, d, bytes), e) = Buffer(map, e)
  BY DEF IsBuffers, Buffer, Put

-----------------------------------------------------------------------------
(* The inductive invariant.                                                *)

\* What a Socket is constructed as.
Roles == {"SERVER", "CLIENT"}
\* The call in progress.
Calls == [api : {"none", "SetListenParams", "SetListenTimeout", "SetListenReceiveDataCallback",
                 "SwapBuffer", "ResetForReceive", "ResetSocketErrorsAndAbortSignals", "Disconnect",
                 "Reset", "Connect", "Listen", "SendData", "SendDataNoFlush", "FlushSendBuffer",
                 "FlushSendBuffers"},
          to : Descriptors \cup {0}, data : Seq(Byte), clear : BOOLEAN, tries : Nat, fresh : BOOLEAN]
\* A connection as both ends see it.
Connections == [wire : Seq(Byte), stream : Streams \cup {Unused.stream}, taken : Seq(Byte),
                queued : Seq(Byte), delivered : Seq(Byte), torn : BOOLEAN, stale : BOOLEAN]

\* The types of the part of the state that the streams depend on.
TypesOK ==
  /\ role \in Roles /\ connections \in Seq(Descriptors)
  /\ IsBuffers(received) /\ IsBuffers(sending) /\ left \in Seq(Byte)
  /\ link \in [Descriptors -> Connections] /\ call \in Calls

\* Which role the thread's place belongs to.
PlacesOK ==
  /\ pc = "connect" => role = "CLIENT"
  /\ pc = "accept" => role = "SERVER"
  /\ pc \in {"bind", "select", "events"} /\ role = "CLIENT" => call.api = "Listen"
  /\ pc = "resume" /\ role = "CLIENT" => connections # << >>
\* A client has one connection at most, on its own descriptor.
ClientOK == role = "CLIENT" => ToSet(connections) \subseteq {Client}
\* A flush works on an entry of the send buffers.
FlushOK == pc = "send" => call.to \in DOMAIN sending

\* What d's peer has still to get of what was queued.
Pending(d) == IF pc = "send" /\ d = call.to THEN left ELSE Buffer(sending, d)
\* What the peer sent is what was taken, is buffered or is on the way.
ReceivesAll(d) == Whole(link[d].taken, Buffer(received, d), link[d].wire) = Bytes(link[d].stream)
\* What was queued is what was delivered and what is pending.
SendsAll(d) == ~link[d].torn => link[d].delivered \o Pending(d) = link[d].queued
\* Both directions of one connection.
StreamOK(d) == ~link[d].stale => ReceivesAll(d) /\ SendsAll(d)
\* Every connection in connections_.
StreamsOK == \A d \in ToSet(connections) : StreamOK(d)

\* The inductive invariant.
SocketInv == TypesOK /\ PlacesOK /\ ClientOK /\ FlushOK /\ StreamsOK

\* It says what StreamsIntact says.
LEMMA InvGivesStreams == SocketInv => StreamsIntact
  BY DEF SocketInv, StreamsOK, StreamOK, ReceivesAll, SendsAll, Pending, StreamsIntact, Whole

-----------------------------------------------------------------------------
(* Steps that leave the streams alone.                                     *)

\* The thread moves on, or connections go.
LEMMA Stays ==
  ASSUME SocketInv, UNCHANGED << role, received, sending, link, left >>,
         connections' \in Seq(Descriptors), ToSet(connections') \subseteq ToSet(connections),
         pc # "send", pc' # "send", call' \in Calls, PlacesOK'
  PROVE  SocketInv'
<1>1. TypesOK'
  BY DEF SocketInv, TypesOK
<1>2. ClientOK' /\ FlushOK'
  BY DEF SocketInv, ClientOK, FlushOK
<1>3. StreamsOK'
  BY DEF SocketInv, StreamsOK, StreamOK, ReceivesAll, SendsAll, Pending
<1> QED
  BY <1>1, <1>2, <1>3 DEF SocketInv

\* The thread moves on and nothing else happens.
LEMMA Continues ==
  ASSUME SocketInv, UNCHANGED << role, received, sending, link, left, connections >>,
         pc # "send", pc' # "send", call' \in Calls, PlacesOK'
  PROVE  SocketInv'
<1>1. connections' \in Seq(Descriptors) /\ ToSet(connections') \subseteq ToSet(connections)
  BY DEF SocketInv, TypesOK
<1> QED
  BY <1>1, Stays

\* The call returns and nothing else happens.
LEMMA Returns ==
  ASSUME SocketInv, UNCHANGED << role, received, sending, link, left, connections >>,
         pc # "send", pc' = "idle", call' \in Calls
  PROVE  SocketInv'
<1>1. PlacesOK' /\ pc' # "send"
  BY DEF PlacesOK
<1> QED
  BY <1>1, Continues

\* Every connection goes.
LEMMA Closes ==
  ASSUME SocketInv, UNCHANGED << role, left >>, connections' = << >>,
         IsBuffers(received'), IsBuffers(sending'), link' \in [Descriptors -> Connections],
         pc' # "send", call' \in Calls, PlacesOK'
  PROVE  SocketInv'
<1>1. ToSet(connections') = {}
  BY NoMembers
<1>2. TypesOK'
  BY DEF SocketInv, TypesOK
<1>3. ClientOK' /\ FlushOK' /\ StreamsOK'
  BY <1>1 DEF ClientOK, FlushOK, StreamsOK
<1> QED
  BY <1>2, <1>3 DEF SocketInv

\* A call of the caller.
LEMMA CallType ==
  ASSUME NEW api, NEW to, NEW data, NEW clear, Call(api, to, data, clear),
         api \in {"SetListenParams", "SetListenTimeout", "SetListenReceiveDataCallback",
                  "SwapBuffer", "ResetForReceive", "ResetSocketErrorsAndAbortSignals", "Disconnect",
                  "Reset", "Connect", "Listen", "SendData", "SendDataNoFlush"},
         to \in Descriptors \cup {0}, data \in Seq(Byte), clear \in BOOLEAN
  PROVE  pc = "idle" /\ call' \in Calls /\ call'.api = api
  BY DEF Call, Calls

\* No bytes at all are a sequence of bytes.
LEMMA EmptyType == << >> \in Seq(Byte)
  OBVIOUS

\* The calls that set parameters.
LEMMA ParametersStep == SocketInv /\ Parameters => SocketInv'
<1> SUFFICES ASSUME SocketInv, Parameters PROVE SocketInv'
  OBVIOUS
<1>1. ASSUME NEW p \in ListenParams, SetListenParams(p) PROVE SocketInv'
  <2>1. pc = "idle" /\ call' \in Calls
    BY <1>1, CallType, EmptyType DEF SetListenParams
  <2>2. pc' = pc /\ UNCHANGED << role, received, sending, link, left, connections >>
    BY <1>1 DEF SetListenParams, system
  <2> QED
    BY <2>1, <2>2, Returns
<1>2. ASSUME NEW p \in ListenParams, SetListenReceiveDataCallback(p.receive) PROVE SocketInv'
  <2>1. pc = "idle" /\ call' \in Calls
    BY <1>2, CallType, EmptyType DEF SetListenReceiveDataCallback
  <2>2. pc' = pc /\ UNCHANGED << role, received, sending, link, left, connections >>
    BY <1>2 DEF SetListenReceiveDataCallback, system
  <2> QED
    BY <2>1, <2>2, Returns
<1>3. ASSUME NEW ms \in Timeouts, SetListenTimeout(ms) PROVE SocketInv'
  <2>1. pc = "idle" /\ call' \in Calls
    BY <1>3, CallType, EmptyType DEF SetListenTimeout
  <2>2. pc' = pc /\ UNCHANGED << role, received, sending, link, left, connections >>
    BY <1>3 DEF SetListenTimeout, system
  <2> QED
    BY <2>1, <2>2, Returns
<1> QED
  BY <1>1, <1>2, <1>3 DEF Parameters

-----------------------------------------------------------------------------
(* The receiving side.                                                     *)

SameButReceived(d) ==
  /\ link'[d] \in Connections
  /\ link'[d].stale = link[d].stale /\ link'[d].torn = link[d].torn
  /\ link'[d].queued = link[d].queued /\ link'[d].delivered = link[d].delivered
  /\ ReceivesAll(d) => ReceivesAll(d)'

\* A step on the receiving side keeps the invariant when it only regroups a stream.
LEMMA ReceivingStays ==
  ASSUME SocketInv, UNCHANGED << role, sending, left, connections >>,
         pc # "send", pc' # "send", call' \in Calls, PlacesOK', IsBuffers(received'),
         link' = [d \in Descriptors |-> link'[d]], \A d \in Descriptors : SameButReceived(d)
  PROVE  SocketInv'
<1>1. link' \in [Descriptors -> Connections]
  BY DEF SameButReceived
<1>2. TypesOK'
  BY <1>1 DEF SocketInv, TypesOK
<1>3. ClientOK' /\ FlushOK'
  BY DEF SocketInv, ClientOK, FlushOK
<1>4. ToSet(connections) \subseteq Descriptors /\ ToSet(connections') = ToSet(connections)
  BY MembersIn DEF SocketInv, TypesOK
<1>5. ASSUME NEW d \in ToSet(connections) PROVE StreamOK(d)'
  <2>1. StreamOK(d) /\ SameButReceived(d)
    BY <1>4, <1>5 DEF SocketInv, StreamsOK
  <2>2. Pending(d)' = Pending(d)
    BY DEF Pending
  <2>3. SendsAll(d) => SendsAll(d)'
    BY <2>1, <2>2 DEF SendsAll, SameButReceived
  <2> QED
    BY <2>1, <2>3 DEF StreamOK, SameButReceived
<1>6. StreamsOK'
  BY <1>4, <1>5 DEF StreamsOK
<1> QED
  BY <1>2, <1>3, <1>6 DEF SocketInv

\* The caller takes the first bytes of a buffer.
LEMMA TakeKeepsStream ==
  ASSUME TypesOK, NEW d \in DOMAIN received, NEW n \in 0 .. Len(received[d]), NEW kept,
         kept = Rest(received[d], n), Buffer(received', d) = kept, link'[d] = Take(d, kept)
  PROVE  SameButReceived(d)
<1> DEFINE b == received[d]
           a == link[d].taken
           w == link[d].wire
<1>1. d \in Descriptors /\ b \in Seq(Byte) /\ Buffer(received, d) = b
  BY DEF TypesOK, IsBuffers, Buffer
<1>2. link[d] \in Connections
  BY <1>1 DEF TypesOK
<1>3. a \in Seq(Byte) /\ w \in Seq(Byte)
  BY <1>2 DEF Connections
<1>4. Len(b) - Len(kept) = n
  <2>1. Len(Rest(b, n)) = Len(b) - n
    BY <1>1, FirstAndRest
  <2>2. Len(b) \in Nat /\ n \in Nat
    BY <1>1
  <2> QED
    BY <2>1, <2>2
<1>5. link'[d] = [link[d] EXCEPT !.taken = a \o SubSeq(b, 1, n)]
  BY <1>4 DEF Take
<1>6. a \o SubSeq(b, 1, n) \in Seq(Byte) /\ (a \o SubSeq(b, 1, n)) \o Rest(b, n) = a \o b
  BY <1>1, <1>3, MoveToTheLeft
<1>7. /\ link'[d].taken = a \o SubSeq(b, 1, n) /\ link'[d].wire = w
      /\ link'[d].stream = link[d].stream
      /\ link'[d].stale = link[d].stale /\ link'[d].torn = link[d].torn
      /\ link'[d].queued = link[d].queued /\ link'[d].delivered = link[d].delivered
  BY <1>2, <1>5 DEF Connections
<1>8. link'[d] \in Connections
  BY <1>2, <1>5, <1>6 DEF Connections
<1>9. ReceivesAll(d) => ReceivesAll(d)'
  BY <1>1, <1>6, <1>7 DEF ReceivesAll, Whole
<1> QED
  BY <1>7, <1>8, <1>9 DEF SameButReceived

\* SwapBuffer hands a receive buffer to the caller.
LEMMA SwapBufferStep ==
  ASSUME SocketInv, NEW d \in Descriptors, SwapBuffer(d)
  PROVE  SocketInv'
<1>1. pc = "idle" /\ call' \in Calls
  BY CallType, EmptyType DEF SwapBuffer
<1>2. /\ d \in DOMAIN received /\ received' = Put(received, d, << >>)
      /\ link' = [link EXCEPT ![d] = Take(d, << >>)]
      /\ UNCHANGED << role, sending, left, connections, pc >>
  BY DEF SwapBuffer
<1>3. TypesOK /\ IsBuffers(received) /\ received[d] \in Seq(Byte) /\ link \in [Descriptors -> Connections]
  BY <1>2 DEF SocketInv, TypesOK, IsBuffers
<1>4. IsBuffers(received') /\ Buffer(received', d) = << >>
      /\ \A e : e # d => Buffer(received', e) = Buffer(received, e)
  BY <1>2, <1>3, EmptyType DEF IsBuffers, Buffer, Put
<1>5. SameButReceived(d)
  <2>1. << >> = Rest(received[d], Len(received[d]))
    BY <1>3, Nothing
  <2>2. Len(received[d]) \in 0 .. Len(received[d])
    BY <1>3
  <2>3. link'[d] = Take(d, << >>)
    BY <1>2, <1>3
  <2> QED
    BY <1>2, <1>3, <1>4, <2>1, <2>2, <2>3, TakeKeepsStream
<1>6. ASSUME NEW e \in Descriptors, e # d PROVE SameButReceived(e)
  BY <1>2, <1>3, <1>4, <1>6 DEF SameButReceived, ReceivesAll
<1>7. link' = [e \in Descriptors |-> link'[e]]
  BY <1>2, <1>3
<1>8. PlacesOK' /\ pc' # "send" /\ pc # "send"
  BY <1>1, <1>2 DEF PlacesOK
<1> QED
  BY <1>1, <1>2, <1>4, <1>5, <1>6, <1>7, <1>8, ReceivingStays

\* ResetForReceive puts the left-over bytes back in front.
LEMMA ResetForReceiveStep ==
  ASSUME SocketInv, NEW extra, extra \in Seq(Byte), ResetForReceive(extra)
  PROVE  SocketInv'
<1>1. pc = "idle" /\ call' \in Calls
  BY CallType DEF ResetForReceive
<1>2. /\ link' = [d \in Descriptors |->
                   IF d \in DOMAIN received THEN Take(d, Buffer(received', d)) ELSE link[d]]
      /\ UNCHANGED << role, sending, left, connections, pc >>
  BY DEF ResetForReceive
<1>3. TypesOK /\ IsBuffers(received) /\ link \in [Descriptors -> Connections]
      /\ \A d \in DOMAIN received : d \in Descriptors /\ received[d] \in Seq(Byte)
  BY DEF SocketInv, TypesOK, IsBuffers
<1> DEFINE SomeKept ==
             /\ IsBuffers(received')
             /\ \A d \in DOMAIN received : \E n \in 0 .. Len(received[d]) :
                  Buffer(received', d) = Rest(received[d], n)
             /\ \A d : d \notin DOMAIN received => Buffer(received', d) = << >>
<1>4. SomeKept
  <2>1. CASE received' = NoEntries
    <3>1. IsBuffers(received') /\ \A d : Buffer(received', d) = << >>
      BY <2>1, BuffersEmpty
    <3>2. ASSUME NEW d \in DOMAIN received
          PROVE  \E n \in 0 .. Len(received[d]) : << >> = Rest(received[d], n)
      <4>1. << >> = Rest(received[d], Len(received[d])) /\ Len(received[d]) \in 0 .. Len(received[d])
        BY <1>3, Nothing
      <4> QED
        BY <4>1
    <3> QED
      BY <3>1, <3>2
  <2>2. ASSUME NEW d \in DOMAIN received, DOMAIN received = {d},
               NEW n \in 0 .. Len(received[d]), extra = Rest(received[d], n),
               received' = Put(NoEntries, d, extra)
        PROVE  SomeKept
    <3>1. /\ IsBuffers(received') /\ Buffer(received', d) = extra
          /\ \A e : e # d => Buffer(received', e) = << >>
      BY <1>3, <2>2 DEF IsBuffers, Buffer, Put, NoEntries
    <3> QED
      BY <3>1, <2>2
  <2> QED
    BY <2>1, <2>2 DEF ResetForReceive
<1>5. ASSUME NEW d \in Descriptors PROVE SameButReceived(d)
  <2>1. CASE d \in DOMAIN received
    <3>1. PICK n \in 0 .. Len(received[d]) : Buffer(received', d) = Rest(received[d], n)
      BY <1>4, <2>1
    <3>2. link'[d] = Take(d, Buffer(received', d))
      BY <1>2, <2>1
    <3> QED
      BY <1>3, <2>1, <3>1, <3>2, TakeKeepsStream
  <2>2. CASE d \notin DOMAIN received
    <3>1. link'[d] = link[d] /\ link[d] \in Connections
      BY <1>2, <1>3, <2>2
    <3>2. Buffer(received', d) = << >> /\ Buffer(received, d) = << >>
      BY <1>4, <2>2 DEF Buffer
    <3> QED
      BY <3>1, <3>2 DEF SameButReceived, ReceivesAll
  <2> QED
    BY <2>1, <2>2
<1>6. link' = [d \in Descriptors |-> link'[d]]
  BY <1>2
<1>7. PlacesOK' /\ pc' # "send" /\ pc # "send"
  BY <1>1, <1>2 DEF PlacesOK
<1> QED
  BY <1>1, <1>2, <1>4, <1>5, <1>6, <1>7, ReceivingStays

\* The calls on the receive buffers.
LEMMA BuffersStep == SocketInv /\ Buffers => SocketInv'
<1> SUFFICES ASSUME SocketInv, Buffers PROVE SocketInv'
  OBVIOUS
<1>1. ASSUME NEW d \in DOMAIN received, NEW extra \in Suffixes(received[d]) PROVE extra \in Seq(Byte)
  <2>1. received[d] \in Seq(Byte)
    BY DEF SocketInv, TypesOK, IsBuffers
  <2> DEFINE b == received[d]
  <2> HIDE DEF b
  <2>2. b \in Seq(Byte) /\ extra \in {SubSeq(b, l, Len(b)) : l \in 1 .. Len(b)} \cup {<< >>}
    BY <1>1, <2>1 DEF Suffixes, b
  <2>3. ASSUME NEW l \in 1 .. Len(b) PROVE SubSeq(b, l, Len(b)) \in Seq(Byte)
    <3>1. l \in Int /\ Len(b) \in Int /\ \A i \in l .. Len(b) : b[i] \in Byte
      BY <2>2
    <3> QED
      BY <3>1, SubSeqProperties
  <2> QED
    BY <2>2, <2>3, EmptyType
<1>2. CASE ResetSocketErrorsAndAbortSignals
  <2>1. pc = "idle" /\ call' \in Calls
    BY <1>2, CallType, EmptyType DEF ResetSocketErrorsAndAbortSignals
  <2>2. pc' = pc /\ UNCHANGED << role, received, sending, link, left, connections >>
    BY <1>2 DEF ResetSocketErrorsAndAbortSignals, system
  <2> QED
    BY <2>1, <2>2, Returns
<1>3. ASSUME NEW extra \in (UNION {Suffixes(received[d]) : d \in DOMAIN received}) \cup {<< >>},
             ResetForReceive(extra)
      PROVE  SocketInv'
  <2>1. extra \in Seq(Byte)
    <3>1. extra = << >> \/ \E d \in DOMAIN received : extra \in Suffixes(received[d])
      BY <1>3
    <3> QED
      BY <1>1, <3>1, EmptyType
  <2> QED
    BY <1>3, <2>1, ResetForReceiveStep
<1> QED
  BY <1>2, <1>3, SwapBufferStep DEF Buffers

-----------------------------------------------------------------------------
(* Closing.                                                                *)

LEMMA DisconnectStep == SocketInv /\ Disconnect => SocketInv'
<1> SUFFICES ASSUME SocketInv, Disconnect PROVE SocketInv'
  OBVIOUS
<1>1. pc = "idle" /\ call' \in Calls
  BY CallType, EmptyType DEF Disconnect
<1>2. pc' = "idle" /\ UNCHANGED << role, left >>
  BY DEF Disconnect, Return
<1>3. pc' # "send" /\ pc # "send" /\ PlacesOK'
  BY <1>1, <1>2 DEF PlacesOK
<1>4. TypesOK /\ link \in [Descriptors -> Connections] /\ IsBuffers(received) /\ IsBuffers(NoEntries)
  BY BuffersEmpty DEF SocketInv, TypesOK
<1>5. CASE UNCHANGED << connections, received, sending, link >>
  BY <1>1, <1>2, <1>5, Returns
<1>6. ASSUME NEW ok \in BOOLEAN, CloseServerSocket(ok) PROVE SocketInv'
  <2>1. connections' = << >> /\ IsBuffers(received') /\ IsBuffers(sending') /\ link' = link
    BY <1>4, <1>6 DEF CloseServerSocket
  <2> QED
    BY <1>1, <1>2, <1>3, <1>4, <2>1, Closes
<1>7. ASSUME NEW ok \in BOOLEAN, CloseClientSocket(ok), role = "CLIENT" PROVE SocketInv'
  <2>1. /\ IsBuffers(received') /\ received' = received /\ IsBuffers(sending') /\ sending' = NoEntries
        /\ link' = [link EXCEPT ![Client].queued = link[Client].delivered]
        /\ connections' = << >> \/ connections' = connections
    BY <1>4, <1>7 DEF CloseClientSocket
  <2>2. Client \in Descriptors /\ link[Client] \in Connections
    BY <1>4, ClientIn
  <2>3. link' \in [Descriptors -> Connections]
    BY <1>4, <2>1, <2>2 DEF Connections
  <2>4. CASE connections' = << >>
    BY <1>1, <1>2, <1>3, <2>1, <2>3, <2>4, Closes
  <2>5. CASE connections' = connections
    <3>1. TypesOK' /\ ClientOK' /\ FlushOK'
      BY <1>1, <1>2, <2>1, <2>3, <2>5 DEF SocketInv, TypesOK, ClientOK, FlushOK
    <3>2. ASSUME NEW d \in ToSet(connections) PROVE StreamOK(d)'
      <4>1. d = Client /\ StreamOK(d)
        BY <1>7 DEF SocketInv, ClientOK, StreamsOK
      <4>2. /\ link'[d].stale = link[d].stale /\ link'[d].taken = link[d].taken
            /\ link'[d].wire = link[d].wire /\ link'[d].stream = link[d].stream
            /\ link'[d].delivered = link[d].delivered /\ link'[d].queued = link[d].delivered
            /\ link[d].delivered \in Seq(Byte)
        BY <1>4, <2>1, <2>2, <4>1 DEF Connections
      <4>3. ReceivesAll(d) => ReceivesAll(d)'
        BY <2>1, <4>2 DEF ReceivesAll
      <4>4. Pending(d)' = << >>
        BY <1>3, <2>1, BuffersEmpty DEF Pending
      <4>5. SendsAll(d)'
        BY <4>2, <4>4, Nothing DEF SendsAll
      <4> QED
        BY <4>1, <4>2, <4>3, <4>5 DEF StreamOK
    <3>3. StreamsOK'
      BY <2>5, <3>2 DEF StreamsOK
    <3> QED
      BY <1>3, <3>1, <3>3 DEF SocketInv
  <2> QED
    BY <2>1, <2>4, <2>5
<1>8. role = "SERVER" \/ role = "CLIENT"
  BY <1>4 DEF TypesOK, Roles
<1> QED
  BY <1>5, <1>6, <1>7, <1>8 DEF Disconnect

\* Disconnect and Reset.
LEMMA ClosingStep == SocketInv /\ Closing => SocketInv'
<1> SUFFICES ASSUME SocketInv, NEW full \in BOOLEAN, Reset(full) PROVE SocketInv'
  BY DisconnectStep DEF Closing
<1>1. pc = "idle" /\ call' \in Calls
  BY CallType, EmptyType DEF Reset
<1>2. /\ connections' = << >> /\ IsBuffers(received') /\ IsBuffers(sending') /\ link' = link
      /\ UNCHANGED << role, left, pc >>
  BY BuffersEmpty DEF Reset
<1>3. link' \in [Descriptors -> Connections] /\ pc' # "send" /\ PlacesOK'
  BY <1>1, <1>2 DEF SocketInv, TypesOK, PlacesOK
<1> QED
  BY <1>1, <1>2, <1>3, Closes

-----------------------------------------------------------------------------
(* Connecting.                                                             *)

\* A new connection starts with its whole stream to come.
LEMMA OpenedConnection ==
  ASSUME TypesOK, NEW d \in Descriptors, NEW stream \in Streams, link'[d] = Opened(d, stream),
         UNCHANGED << received, sending >>, pc' # "send"
  PROVE  link'[d] \in Connections /\ StreamOK(d)'
<1> DEFINE s == Buffer(received, d) # << >> \/ Buffer(sending, d) # << >>
<1>1. /\ link'[d].wire = Bytes(stream) /\ link'[d].stream = stream /\ link'[d].taken = << >>
      /\ link'[d].queued = << >> /\ link'[d].delivered = << >> /\ link'[d].torn = FALSE
      /\ link'[d].stale = s
  BY DEF Opened, Unused
<1>2. Bytes(stream) \in Seq(Byte) /\ << >> \in Seq(Byte) /\ s \in BOOLEAN
  BY BytesAssumption, EmptyType
<1>3. link'[d] \in Connections
  BY <1>1, <1>2 DEF Opened, Unused, Connections
<1>4. ASSUME ~link'[d].stale PROVE ReceivesAll(d)' /\ SendsAll(d)'
  <2>1. Buffer(received', d) = << >> /\ Buffer(sending', d) = << >>
    BY <1>1, <1>4
  <2>2. ReceivesAll(d)'
    <3>1. << >> \o << >> = << >> /\ << >> \o Bytes(stream) = Bytes(stream)
      BY <1>2, Nothing
    <3> QED
      BY <1>1, <2>1, <3>1 DEF ReceivesAll, Whole
  <2>3. SendsAll(d)'
    <3>1. << >> \o << >> = << >>
      BY <1>2, Nothing
    <3>2. Pending(d)' = << >>
      BY <2>1 DEF Pending
    <3> QED
      BY <1>1, <3>1, <3>2 DEF SendsAll
  <2> QED
    BY <2>2, <2>3
<1> QED
  BY <1>3, <1>4 DEF StreamOK

\* A connection opens with nothing lost on it, or is marked stale when its descriptor left bytes behind.
LEMMA Opens ==
  ASSUME SocketInv, UNCHANGED << role, received, sending, left >>,
         pc # "send", pc' # "send", call' \in Calls, PlacesOK',
         NEW d \in Descriptors, NEW stream \in Streams, role = "CLIENT" => d = Client,
         connections' = Append(connections, d), link' = [link EXCEPT ![d] = Opened(d, stream)]
  PROVE  SocketInv'
<1>1. TypesOK /\ link \in [Descriptors -> Connections] /\ connections \in Seq(Descriptors)
  BY DEF SocketInv, TypesOK
<1>2. connections' \in Seq(Descriptors) /\ ToSet(connections') = ToSet(connections) \cup {d}
      /\ ToSet(connections) \subseteq Descriptors
  BY <1>1, MembersOfAppend, MembersIn
<1>3. link'[d] = Opened(d, stream) /\ \A e \in Descriptors : e # d => link'[e] = link[e]
  BY <1>1
<1>4. link'[d] \in Connections /\ StreamOK(d)'
  BY <1>1, <1>3, OpenedConnection
<1>5. link' \in [Descriptors -> Connections]
  BY <1>1, <1>3, <1>4
<1>6. TypesOK'
  BY <1>1, <1>2, <1>5 DEF TypesOK
<1>7. ClientOK' /\ FlushOK'
  BY <1>2 DEF SocketInv, ClientOK, FlushOK
<1>8. ASSUME NEW e \in ToSet(connections), e # d PROVE StreamOK(e)'
  <2>1. link'[e] = link[e] /\ StreamOK(e)
    BY <1>2, <1>3, <1>8 DEF SocketInv, StreamsOK
  <2> QED
    BY <2>1 DEF StreamOK, ReceivesAll, SendsAll, Pending
<1>9. StreamsOK'
  BY <1>2, <1>4, <1>8 DEF StreamsOK
<1> QED
  BY <1>6, <1>7, <1>9 DEF SocketInv

\* One more try is still a call.
LEMMA TriesType ==
  ASSUME NEW c \in Calls
  PROVE  [c EXCEPT !.tries = @ + 1] \in Calls /\ [c EXCEPT !.tries = @ + 1].api = c.api
<1>1. c.tries + 1 \in Nat
  BY DEF Calls
<1> DEFINE n == c.tries + 1
<1>2. [c EXCEPT !.tries = @ + 1] = [c EXCEPT !.tries = n]
  BY DEF Calls
<1> HIDE DEF n
<1>3. n \in Nat
  BY <1>1 DEF n
<1>4. [c EXCEPT !.tries = n] \in Calls /\ [c EXCEPT !.tries = n].api = c.api
  BY <1>3 DEF Calls
<1> QED
  BY <1>2, <1>4

\* A retry stays in the connecting loop.
LEMMA RetryType == SocketInv /\ Retry => pc' = "connect" /\ call' \in Calls
  BY TriesType DEF SocketInv, TypesOK, Retry

\* A failed connect returns.
LEMMA FailedPlace == ConnectFailed => pc' = "idle"
  BY DEF ConnectFailed, Return

\* The connecting loop.
LEMMA ConnectingStep == SocketInv /\ Connecting => SocketInv'
<1> SUFFICES ASSUME SocketInv, Connecting PROVE SocketInv'
  OBVIOUS
<1>0. TypesOK /\ call \in Calls /\ role \in Roles /\ link \in [Descriptors -> Connections]
      /\ IsBuffers(received) /\ IsBuffers(NoEntries)
  BY BuffersEmpty DEF SocketInv, TypesOK
<1>1. ASSUME NEW ok \in BOOLEAN, SetupSocket(ok) PROVE SocketInv'
  <2>1. pc = "setup" /\ UNCHANGED << role, received, sending, link, left, connections, call >>
    BY <1>1 DEF SetupSocket
  <2>2. pc' = (IF role = "CLIENT" THEN "connect" ELSE "resume") \/ pc' = "idle"
    BY <1>1, FailedPlace DEF SetupSocket
  <2>3. PlacesOK' /\ pc' # "send" /\ call' \in Calls
    BY <1>0, <2>1, <2>2 DEF PlacesOK, Roles
  <2> QED
    BY <2>1, <2>3, Continues
<1>2. CASE Connect
  <2>1. pc = "idle" /\ call' \in Calls
    BY <1>2, CallType, EmptyType DEF Connect
  <2>2. UNCHANGED << role, received, sending, link, left, connections >>
    BY <1>2 DEF Connect, object, system
  <2>3. pc' \in {"idle", "setup"} \/ (pc' = "connect" /\ role # "SERVER")
    BY <1>2 DEF Connect, Return
  <2>4. PlacesOK' /\ pc' # "send"
    BY <1>0, <2>2, <2>3 DEF PlacesOK, Roles
  <2> QED
    BY <2>1, <2>2, <2>4, Continues
<1>3. CASE ConnectSucceeds
  <2>1. /\ pc = "connect" /\ UNCHANGED << role, received, sending, left, call >>
        /\ connections' = Append(connections, Client)
    BY <1>3 DEF ConnectSucceeds
  <2>2. PICK stream \in Streams : link' = [link EXCEPT ![Client] = Opened(Client, stream)]
    BY <1>3 DEF ConnectSucceeds
  <2>3. pc' \in {"idle", "resume"}
    BY <1>3 DEF ConnectSucceeds, Return
  <2>4. connections' # << >>
    BY <2>1, ClientIn DEF SocketInv, TypesOK
  <2>5. PlacesOK' /\ pc' # "send" /\ call' \in Calls
    BY <1>0, <2>1, <2>3, <2>4 DEF PlacesOK
  <2> QED
    BY <2>1, <2>2, <2>5, ClientIn, Opens
<1>4. CASE ConnectImpossible
  <2>1. pc = "connect" /\ pc' = "idle" /\ UNCHANGED << role, received, sending, link, left, connections, call >>
    BY <1>4, FailedPlace DEF ConnectImpossible, object, system
  <2> QED
    BY <1>0, <2>1, Returns
<1>5. ASSUME NEW refused \in BOOLEAN, ConnectError(refused) PROVE SocketInv'
  <2>1. pc = "connect" /\ UNCHANGED << role, received, sending, link, left, connections >>
    BY <1>5 DEF ConnectError
  <2>2. (pc' = "idle" /\ call' \in Calls) \/ (pc' = "connect" /\ call' \in Calls)
    BY <1>0, <1>5, FailedPlace, RetryType DEF ConnectError
  <2>3. PlacesOK' /\ pc' # "send"
    BY <2>1, <2>2 DEF SocketInv, PlacesOK
  <2> QED
    BY <2>1, <2>2, <2>3, Continues
<1>6. ASSUME NEW why \in {"not yet", "refused", "failed"}, NonBlockingConnect(why) PROVE SocketInv'
  <2>1. pc = "connect" /\ UNCHANGED << role, received, link, left >>
    BY <1>6 DEF NonBlockingConnect
  <2>2. (pc' = "idle" /\ call' \in Calls) \/ (pc' = "connect" /\ call' \in Calls)
    BY <1>0, <1>6, FailedPlace, RetryType DEF NonBlockingConnect
  <2>3. PlacesOK' /\ pc' # "send"
    BY <2>1, <2>2 DEF SocketInv, PlacesOK
  <2>4. CASE sending' = NoEntries /\ connections' = << >>
    BY <1>0, <2>1, <2>2, <2>3, <2>4, Closes
  <2>5. CASE UNCHANGED << sending, connections >>
    BY <2>1, <2>2, <2>3, <2>5, Continues
  <2> QED
    BY <1>6, <2>4, <2>5 DEF NonBlockingConnect
<1> QED
  BY <1>1, <1>2, <1>3, <1>4, <1>5, <1>6 DEF Connecting

-----------------------------------------------------------------------------
(* Listening.                                                              *)

\* Where a call goes on, and where a Listen goes when it is done.
LEMMA StartPlace ==
  ASSUME SocketInv, pc' = Start, UNCHANGED << role, connections >>
  PROVE  PlacesOK' /\ pc' # "send"
<1>1. CASE pc' = "setup"
  BY <1>1 DEF PlacesOK
<1>2. CASE pc' = "connect" /\ role = "CLIENT"
  BY <1>2 DEF PlacesOK
<1>3. CASE pc' = "resume" /\ (role = "CLIENT" => IsConnected)
  <2>1. role = "CLIENT" => connections # << >>
    BY <1>3 DEF IsConnected
  <2> QED
    BY <1>3, <2>1 DEF PlacesOK
<1> QED
  BY <1>1, <1>2, <1>3 DEF Start

\* Where the thread is after a round of Listen.
LEMMA ListenPlace ==
  ASSUME SocketInv, NEW codes, pc \in {"bind", "select"}, ListenReturns(codes), UNCHANGED << role, call >>
  PROVE  PlacesOK' /\ pc' # "send" /\ call' \in Calls
  BY DEF SocketInv, TypesOK, PlacesOK, Roles, ListenReturns

\* Where the thread is after ThreadListen is entered.
LEMMA ThreadPlace ==
  ASSUME SocketInv, pc = "resume", ThreadListen, UNCHANGED << role, call >>,
         role = "CLIENT" => call.api = "Listen"
  PROVE  PlacesOK' /\ pc' # "send" /\ call' \in Calls
  BY DEF SocketInv, TypesOK, PlacesOK, Roles, ThreadListen

\* A step that keeps the thread's place.
LEMMA SamePlace ==
  ASSUME SocketInv, UNCHANGED << role, connections, call, pc >>
  PROVE  PlacesOK' /\ call' \in Calls
  BY DEF SocketInv, TypesOK, PlacesOK

\* A new connection.
LEMMA NewConnection ==
  ASSUME SocketInv, NEW ok, NEW p, NEW s, NEW codes, HandleNewConnection(ok, p, s, codes), role = "SERVER",
         UNCHANGED << role, received, sending, left >>, pc # "send", pc' # "send",
         call' \in Calls, PlacesOK'
  PROVE  SocketInv'
<1>1. CASE UNCHANGED << connections, link >>
  BY <1>1, Continues
<1>2. ASSUME NEW d, d = Min(Descriptors \ ToSet(connections)), ToSet(connections) # Descriptors,
             connections' = Append(connections, d), NEW stream \in Streams,
             link' = [link EXCEPT ![d] = Opened(d, stream)]
      PROVE  SocketInv'
  <2>1. ToSet(connections) \subseteq Descriptors
    BY MembersIn DEF SocketInv, TypesOK
  <2>2. d \in Descriptors
    BY <1>2, <2>1, FreeIn
  <2> QED
    BY <1>2, <2>2, Opens
<1> QED
  BY <1>1, <1>2 DEF HandleNewConnection

\* select reports events.
LEMMA SelectEventsStep ==
  ASSUME SocketInv, NEW new \in BOOLEAN, NEW ready, NEW failed, SelectEvents(new, ready, failed)
  PROVE  SocketInv'
<1>1. pc = "select" /\ UNCHANGED << role, received, sending, left, call >>
  BY DEF SelectEvents
<1>2. pc' \in {"select", "events"}
  BY <1>1 DEF SelectEvents
<1>3. PlacesOK' /\ pc' # "send" /\ pc # "send" /\ call' \in Calls
  BY <1>1, <1>2 DEF SocketInv, TypesOK, PlacesOK
<1>4. CASE UNCHANGED << connections, link >>
  BY <1>1, <1>3, <1>4, Continues
<1>5. ASSUME NEW ok \in BOOLEAN, new,
             HandleNewConnection(ok, params.now, Zeroed(stats, {"msec_since_last_event"}), abort)
      PROVE  SocketInv'
  <2>1. role = "SERVER"
    BY <1>5 DEF SelectEvents
  <2> QED
    BY <1>1, <1>3, <1>5, <2>1, NewConnection
<1> QED
  BY <1>4, <1>5 DEF SelectEvents

\* A server's Connect accepts its first client.
LEMMA ServerConnectedStep ==
  ASSUME SocketInv, NEW ok \in BOOLEAN, ServerConnected(ok)
  PROVE  SocketInv'
<1>1. /\ pc = "accept" /\ UNCHANGED << role, received, sending, left >>
      /\ HandleNewConnection(ok, params.orig, stats, {})
  BY DEF ServerConnected
<1>2. role = "SERVER" /\ call \in Calls /\ connections \in Seq(Descriptors)
  BY <1>1 DEF SocketInv, PlacesOK, TypesOK
<1>3. CASE ok
  <2>1. PICK d : ToSet(connections) # Descriptors /\ d = Min(Descriptors \ ToSet(connections))
                 /\ connections' = Append(connections, d)
    BY <1>1, <1>3 DEF HandleNewConnection
  <2>2. ToSet(connections) \subseteq Descriptors
    BY <1>2, MembersIn
  <2>3. d \in Descriptors
    BY <2>1, <2>2, FreeIn
  <2>4. connections'[1] \in Descriptors
    BY <1>2, <2>1, <2>3
  <2>5. pc' = "resume" /\ call' = [call EXCEPT !.to = IF call.to = 0 THEN connections'[1] ELSE call.to]
    BY <1>3 DEF ServerConnected
  <2>6. call' \in Calls /\ PlacesOK' /\ pc' # "send" /\ pc # "send"
    BY <1>1, <1>2, <2>4, <2>5 DEF Calls, PlacesOK
  <2> QED
    BY <1>1, <1>2, <2>6, NewConnection
<1>4. CASE ~ok
  <2>1. pc' = "idle" /\ call' = call
    BY <1>4, FailedPlace DEF ServerConnected
  <2>2. call' \in Calls /\ PlacesOK' /\ pc' # "send" /\ pc # "send"
    BY <1>1, <1>2, <2>1 DEF PlacesOK
  <2> QED
    BY <1>1, <1>2, <2>2, NewConnection
<1> QED
  BY <1>3, <1>4

\* Listen, up to the events select reports.
LEMMA ListeningStep == SocketInv /\ Listening => SocketInv'
<1> SUFFICES ASSUME SocketInv, Listening PROVE SocketInv'
  OBVIOUS
<1>0. call \in Calls /\ role \in Roles /\ link \in [Descriptors -> Connections] /\ IsBuffers(NoEntries)
      /\ connections \in Seq(Descriptors)
  BY BuffersEmpty DEF SocketInv, TypesOK
<1>1. ASSUME NEW clear \in BOOLEAN, Listen(clear) PROVE SocketInv'
  <2>1. pc = "idle" /\ call' \in Calls
    BY <1>1, CallType, EmptyType DEF Listen
  <2>2. pc' = Start /\ UNCHANGED << role, received, sending, link, left, connections >>
    BY <1>1 DEF Listen, object, system
  <2> QED
    BY <2>1, <2>2, StartPlace, Continues
<1>2. CASE BeginListen
  <2>1. /\ pc = "resume" /\ call.api = "Listen" /\ ThreadListen
        /\ UNCHANGED << role, received, sending, link, left, connections, call >>
    BY <1>2 DEF BeginListen, system
  <2> QED
    BY <2>1, ThreadPlace, Continues
<1>3. CASE Bind
  <2>1. /\ pc = "bind" /\ pc' = "select"
        /\ UNCHANGED << role, received, sending, link, left, connections, call >>
    BY <1>3 DEF Bind, system
  <2>2. PlacesOK' /\ pc' # "send"
    BY <2>1 DEF SocketInv, PlacesOK
  <2> QED
    BY <1>0, <2>1, <2>2, Continues
<1>4. ASSUME NEW why, BindError(why) PROVE SocketInv'
  <2>1. pc = "bind" /\ UNCHANGED << role, left >>
    BY <1>4 DEF BindError
  <2>2. CASE /\ pc' = "bind" /\ call' = [call EXCEPT !.tries = @ + 1]
             /\ UNCHANGED << connections, received, sending, link >>
    <3>1. call' \in Calls /\ call'.api = call.api
      BY <1>0, <2>2, TriesType
    <3>2. PlacesOK' /\ pc' # "send"
      BY <2>1, <2>2, <3>1 DEF SocketInv, PlacesOK
    <3> QED
      BY <2>1, <2>2, <3>1, <3>2, Continues
  <2>3. ASSUME NEW codes, CloseServerSocket(TRUE), ListenReturns(codes), UNCHANGED call PROVE SocketInv'
    <3>1. connections' = << >> /\ IsBuffers(received') /\ IsBuffers(sending') /\ link' = link
      BY <1>0, <2>3 DEF CloseServerSocket
    <3>2. PlacesOK' /\ pc' # "send" /\ call' \in Calls
      BY <2>1, <2>3, ListenPlace
    <3> QED
      BY <1>0, <2>1, <3>1, <3>2, Closes
  <2> QED
    BY <1>4, <2>2, <2>3 DEF BindError
<1>5. CASE StopListening
  <2>1. /\ pc = "select" /\ ListenReturns(Keeps.codes)
        /\ UNCHANGED << role, received, sending, link, left, connections, call >>
    BY <1>5 DEF StopListening, object, system
  <2> QED
    BY <2>1, ListenPlace, Continues
<1>6. CASE SelectTimeout \/ ServerSocketError
  <2>1. /\ pc = "select" /\ pc' = pc
        /\ UNCHANGED << role, received, sending, link, left, connections, call >>
    BY <1>6 DEF SelectTimeout, ServerSocketError, system
  <2> QED
    BY <2>1, SamePlace, Continues
<1>7. ASSUME NEW gone \in BOOLEAN, SelectError(gone) PROVE SocketInv'
  <2>1. pc = "select" /\ UNCHANGED << role, received, sending, link, left, call >>
    BY <1>7 DEF SelectError
  <2>2. CASE UNCHANGED << connections, pc >>
    BY <2>1, <2>2, SamePlace, Continues
  <2>3. CASE connections' = << >> /\ ListenReturns({"SELECT_ERROR"})
    <3>1. PlacesOK' /\ pc' # "send" /\ call' \in Calls
      BY <2>1, <2>3, ListenPlace
    <3>2. connections' \in Seq(Descriptors) /\ ToSet(connections') \subseteq ToSet(connections)
      BY <2>3, NoMembers
    <3> QED
      BY <2>1, <3>1, <3>2, Stays
  <2> QED
    BY <1>7, <2>2, <2>3 DEF SelectError
<1>8. CASE ServerNotConnected
  <2>1. /\ pc = "accept" /\ pc' = "idle"
        /\ UNCHANGED << role, received, sending, link, left, connections, call >>
    BY <1>8, FailedPlace DEF ServerNotConnected, object, system
  <2> QED
    BY <1>0, <2>1, Returns
<1> QED
  BY <1>1, <1>2, <1>3, <1>4, <1>5, <1>6, <1>7, <1>8, SelectEventsStep, ServerConnectedStep DEF Listening

-----------------------------------------------------------------------------
(* The events of one select().                                             *)

\* HandleSelectEvents' place in connections_.
ScanOK == scan \in [itr : Nat \ {0}, ready : SUBSET Descriptors, failed : SUBSET Descriptors]

\* The iterator of HandleSelectEvents points at a connection.
LEMMA CurrentIn ==
  ASSUME SocketInv, ScanOK, Scanning
  PROVE  /\ pc = "events" /\ scan.itr \in 1 .. Len(connections)
         /\ Current \in ToSet(connections) /\ Current \in Descriptors
<1>1. connections \in Seq(Descriptors) /\ scan.itr \in Nat \ {0} /\ scan.itr <= Len(connections) /\ pc = "events"
  BY DEF SocketInv, TypesOK, ScanOK, Scanning
<1>2. scan.itr \in 1 .. Len(connections) /\ Len(connections) \in Nat
  BY <1>1
<1> QED
  BY <1>1, <1>2 DEF Current, ToSet

\* Where the thread is while it handles events.
LEMMA EventPlace ==
  ASSUME SocketInv, pc = "events", pc' \in {"events", "select", "undefined"}, UNCHANGED << role, call >>
  PROVE  PlacesOK' /\ pc' # "send" /\ pc # "send" /\ call' \in Calls
  BY DEF SocketInv, TypesOK, PlacesOK

\* RemoveConnection.
LEMMA RemovalLeaves ==
  ASSUME SocketInv, ScanOK, Scanning, NEW s, NEW closes, RemoveConnection(s, closes)
  PROVE  connections' \in Seq(Descriptors) /\ ToSet(connections') \subseteq ToSet(connections)
<1>1. scan.itr \in 1 .. Len(connections) /\ connections \in Seq(Descriptors)
  BY CurrentIn DEF SocketInv, TypesOK
<1>2. connections' = RemoveAt(connections, scan.itr)
  BY DEF RemoveConnection
<1> QED
  BY <1>1, <1>2, MembersOfRemoveAt

\* An entry of received_bytes_per_socket_ is made for d, with what it had.
LEMMA EntryMade ==
  ASSUME SocketInv, NEW d \in Descriptors, received' = Put(received, d, Buffer(received, d))
  PROVE  IsBuffers(received') /\ \A e : Buffer(received', e) = Buffer(received, e)
<1>1. IsBuffers(received) /\ Buffer(received, d) \in Seq(Byte)
  BY BufferType DEF SocketInv, TypesOK
<1> QED
  BY <1>1 DEF IsBuffers, Buffer, Put

\* recv moves bytes from the wire to the receive buffer.
LEMMA ReceiveDataStep ==
  ASSUME SocketInv, ScanOK, NEW n, ReceiveData(n)
  PROVE  SocketInv'
<1>0. PICK d \in Descriptors : d = Current
  BY CurrentIn DEF ReceiveData, Receiving
<1> DEFINE w == link[d].wire
           b == Buffer(received, d)
           a == link[d].taken
<1>1. pc = "events" /\ d \in Descriptors
  BY CurrentIn DEF ReceiveData, Receiving
<1>2. /\ n \in 1 .. Min({ReceiveSize, Len(w)})
      /\ received' = Put(received, d, b \o SubSeq(w, 1, n))
      /\ link' = [link EXCEPT ![d].wire = Rest(w, n)]
      /\ pc' = "events" /\ UNCHANGED << role, sending, left, connections, call >>
  BY <1>0 DEF ReceiveData, Advance
<1>3. /\ link \in [Descriptors -> Connections] /\ link[d] \in Connections
      /\ IsBuffers(received) /\ b \in Seq(Byte)
  BY <1>1, BufferType DEF SocketInv, TypesOK
<1>4. w \in Seq(Byte) /\ a \in Seq(Byte)
  BY <1>3 DEF Connections
<1>5. n \in 0 .. Len(w)
  <2>1. {ReceiveSize, Len(w)} \subseteq Nat
    BY <1>4, SocketAssumption
  <2>2. Min({ReceiveSize, Len(w)}) <= Len(w) /\ Min({ReceiveSize, Len(w)}) \in Nat
    BY <2>1, LeastIn
  <2>3. Len(w) \in Nat
    BY <1>4
  <2> QED
    BY <1>2, <2>2, <2>3
<1>6. /\ b \o SubSeq(w, 1, n) \in Seq(Byte) /\ Rest(w, n) \in Seq(Byte)
      /\ Whole(a, b \o SubSeq(w, 1, n), Rest(w, n)) = Whole(a, b, w)
  <2> HIDE DEF a, b, w
  <2>1. Rest(w, n) \in Seq(Byte)
    BY <1>4, <1>5, FirstAndRest
  <2>2. b \o SubSeq(w, 1, n) \in Seq(Byte)
    BY <1>3, <1>4, <1>5, MoveToTheLeft
  <2>3. Whole(a, b \o SubSeq(w, 1, n), Rest(w, n)) = Whole(a, b, w)
    BY <1>3, <1>4, <1>5, MoveInTheMiddle
  <2> QED
    BY <2>1, <2>2, <2>3
<1>7. /\ IsBuffers(received') /\ Buffer(received', d) = b \o SubSeq(w, 1, n)
      /\ \A e : e # d => Buffer(received', e) = Buffer(received, e)
  BY <1>1, <1>2, <1>3, <1>6 DEF IsBuffers, Buffer, Put
<1>8. SameButReceived(d)
  <2>1. link'[d] = [link[d] EXCEPT !.wire = Rest(w, n)]
    BY <1>1, <1>2, <1>3
  <2>2. /\ link'[d].taken = a /\ link'[d].wire = Rest(w, n) /\ link'[d].stream = link[d].stream
        /\ link'[d].stale = link[d].stale /\ link'[d].torn = link[d].torn
        /\ link'[d].queued = link[d].queued /\ link'[d].delivered = link[d].delivered
    BY <1>3, <2>1 DEF Connections
  <2>3. link'[d] \in Connections
    BY <1>3, <1>6, <2>1 DEF Connections
  <2>4. ReceivesAll(d) => ReceivesAll(d)'
    BY <1>6, <1>7, <2>2 DEF ReceivesAll
  <2> QED
    BY <2>2, <2>3, <2>4 DEF SameButReceived
<1>9. ASSUME NEW e \in Descriptors, e # d PROVE SameButReceived(e)
  BY <1>2, <1>3, <1>7, <1>9 DEF SameButReceived, ReceivesAll
<1>10. link' = [e \in Descriptors |-> link'[e]]
  BY <1>2, <1>3
<1>11. PlacesOK' /\ pc' # "send" /\ pc # "send" /\ call' \in Calls
  BY <1>1, <1>2, EventPlace
<1> QED
  BY <1>2, <1>7, <1>8, <1>9, <1>10, <1>11, ReceivingStays

\* HandleSelectEvents.
LEMMA EventsStep == SocketInv /\ ScanOK /\ Events => SocketInv'
<1> SUFFICES ASSUME SocketInv, ScanOK, Events PROVE SocketInv'
  OBVIOUS
<1>1. CASE EventNone \/ EventsDone
  <2>1. /\ pc = "events" /\ pc' \in {"events", "select"}
        /\ UNCHANGED << role, received, sending, link, left, connections, call >>
    BY <1>1 DEF EventNone, EventsDone, Scanning, Advance, object, system
  <2> QED
    BY <2>1, EventPlace, Continues
<1>2. ASSUME NEW closes \in BOOLEAN, EventError(closes) PROVE SocketInv'
  <2>1. /\ Scanning /\ pc = "events" /\ pc' \in {"events", "undefined"}
        /\ UNCHANGED << role, received, sending, link, left, call >>
    BY <1>2 DEF EventError, Scanning, Advance
  <2>2. connections' \in Seq(Descriptors) /\ ToSet(connections') \subseteq ToSet(connections)
    BY <1>2, <2>1, RemovalLeaves DEF EventError
  <2> QED
    BY <2>1, <2>2, EventPlace, Stays
<1>3. CASE ReceiveErrorPasses
  <2>1. PICK d \in Descriptors : d = Current
    BY <1>3, CurrentIn DEF ReceiveErrorPasses, Receiving
  <2>2. /\ pc = "events" /\ pc' = "events" /\ received' = Put(received, d, Buffer(received, d))
        /\ UNCHANGED << role, sending, link, left, connections, call >>
    BY <1>3, <2>1 DEF ReceiveErrorPasses, Receiving, Scanning, Advance
  <2>3. IsBuffers(received') /\ \A e : Buffer(received', e) = Buffer(received, e)
    BY <2>2, EntryMade
  <2>4. link \in [Descriptors -> Connections]
    BY DEF SocketInv, TypesOK
  <2>5. \A e \in Descriptors : SameButReceived(e)
    BY <2>2, <2>3, <2>4 DEF SameButReceived, ReceivesAll
  <2>6. link' = [e \in Descriptors |-> link'[e]]
    BY <2>2, <2>4
  <2>7. PlacesOK' /\ pc' # "send" /\ pc # "send" /\ call' \in Calls
    BY <2>2, EventPlace
  <2> QED
    BY <2>2, <2>3, <2>5, <2>6, <2>7, ReceivingStays
<1>4. ASSUME NEW why, NEW closes \in BOOLEAN, ReceiveFails(why, closes) PROVE SocketInv'
  <2>1. PICK d \in Descriptors : d = Current
    BY <1>4, CurrentIn DEF ReceiveFails, Receiving
  <2>2. /\ Scanning /\ pc = "events" /\ pc' = "events"
        /\ received' = Put(received, d, Buffer(received, d))
        /\ UNCHANGED << role, sending, link, left, call >>
    BY <1>4, <2>1 DEF ReceiveFails, Receiving, Scanning
  <2>3. IsBuffers(received') /\ \A e : Buffer(received', e) = Buffer(received, e)
    BY <2>2, EntryMade
  <2>4. connections' \in Seq(Descriptors) /\ ToSet(connections') \subseteq ToSet(connections)
    BY <1>4, <2>2, RemovalLeaves DEF ReceiveFails
  <2>5. PlacesOK' /\ pc' # "send" /\ pc # "send" /\ call' \in Calls
    BY <2>2, EventPlace
  <2>6. TypesOK'
    BY <2>2, <2>3, <2>4, <2>5 DEF SocketInv, TypesOK
  <2>7. ClientOK' /\ FlushOK'
    BY <2>2, <2>4, <2>5 DEF SocketInv, ClientOK, FlushOK
  <2>8. StreamsOK'
    BY <2>2, <2>3, <2>4 DEF SocketInv, StreamsOK, StreamOK, ReceivesAll, SendsAll, Pending
  <2> QED
    BY <2>5, <2>6, <2>7, <2>8 DEF SocketInv
<1> QED
  BY <1>1, <1>2, <1>3, <1>4, ReceiveDataStep DEF Events

-----------------------------------------------------------------------------
(* The sending side.                                                       *)

\* A flush of d's buffer begins, or ends at once.
LEMMA FlushBegins ==
  ASSUME SocketInv, UNCHANGED << role, received, sending, connections, link >>,
         pc # "send", call' \in Calls, NEW d \in DOMAIN sending, call'.to = d, Flush(sending[d])
  PROVE  SocketInv'
<1>1. pc' \in {"idle", "send"} /\ left' = sending[d] /\ left' = Buffer(sending, d)
  BY DEF Flush, Buffer
<1>2. TypesOK' /\ PlacesOK' /\ ClientOK' /\ FlushOK'
  BY <1>1 DEF SocketInv, TypesOK, IsBuffers, PlacesOK, ClientOK, FlushOK
<1>3. \A e : Pending(e)' = Pending(e)
  BY <1>1 DEF Pending
<1>4. StreamsOK'
  BY <1>3 DEF SocketInv, StreamsOK, StreamOK, ReceivesAll, SendsAll
<1> QED
  BY <1>2, <1>4 DEF SocketInv

\* The caller's bytes are put behind those in d's buffer.
LEMMA Queues ==
  ASSUME SocketInv, UNCHANGED << role, received, connections >>, pc # "send", pc' \in {"idle", "send"},
         NEW d \in Descriptors, NEW data \in Seq(Byte), call' \in Calls, call'.to = d,
         IsBuffers(sending'), Buffer(sending', d) = Buffer(sending, d) \o data,
         \A e : e # d => Buffer(sending', e) = Buffer(sending, e),
         link' = [link EXCEPT ![d].queued = @ \o data], left' \in Seq(Byte),
         pc' = "send" => left' = Buffer(sending', d) /\ d \in DOMAIN sending'
  PROVE  SocketInv'
<1>1. link \in [Descriptors -> Connections] /\ link[d] \in Connections /\ Buffer(sending, d) \in Seq(Byte)
  BY BufferType DEF SocketInv, TypesOK
<1> DEFINE q == link[d].queued
           b == Buffer(sending, d)
           g == link[d].delivered
<1>2. q \in Seq(Byte) /\ b \in Seq(Byte) /\ g \in Seq(Byte)
  BY <1>1 DEF Connections
<1>3. q \o data \in Seq(Byte)
  <2> HIDE DEF q
  <2> QED
    BY <1>2, ConcatProperties
<1>4. link'[d] = [link[d] EXCEPT !.queued = q \o data] /\ \A e \in Descriptors : e # d => link'[e] = link[e]
  BY <1>1
<1>5. link'[d] \in Connections /\ link'[d].queued = q \o data /\ link'[d].delivered = g
      /\ link'[d].torn = link[d].torn /\ link'[d].stale = link[d].stale /\ link'[d].stream = link[d].stream
      /\ link'[d].taken = link[d].taken /\ link'[d].wire = link[d].wire
  BY <1>1, <1>3, <1>4 DEF Connections
<1>6. link' \in [Descriptors -> Connections]
  BY <1>1, <1>4, <1>5
<1>7. TypesOK' /\ PlacesOK' /\ ClientOK' /\ FlushOK'
  BY <1>6 DEF SocketInv, TypesOK, PlacesOK, ClientOK, FlushOK
<1>8. ToSet(connections') = ToSet(connections) /\ ToSet(connections) \subseteq Descriptors
  BY MembersIn DEF SocketInv, TypesOK
<1>9. ASSUME NEW e \in ToSet(connections) PROVE StreamOK(e)'
  <2>1. StreamOK(e) /\ e \in Descriptors
    BY <1>8, <1>9 DEF SocketInv, StreamsOK
  <2>2. ReceivesAll(e) => ReceivesAll(e)'
    BY <1>4, <1>5, <2>1 DEF ReceivesAll
  <2>3. link'[e].stale = link[e].stale
    BY <1>4, <1>5, <2>1
  <2>4. CASE e # d
    <3>1. Pending(e)' = Pending(e)
      BY <2>4 DEF Pending
    <3> QED
      BY <1>4, <2>1, <2>2, <2>4, <3>1 DEF StreamOK, SendsAll
  <2>5. CASE e = d
    <3>1. Pending(e)' = b \o data /\ Pending(e) = b
      BY <2>5 DEF Pending
    <3>2. g \o (b \o data) = (g \o b) \o data
      <4> HIDE DEF g, b
      <4>1. (g \o b) \o data = g \o (b \o data)
        BY ONLY <1>2, data \in Seq(Byte), ConcatAssociative
      <4> QED
        BY <4>1
    <3>3. SendsAll(e) => SendsAll(e)'
      BY <1>5, <2>5, <3>1, <3>2 DEF SendsAll
    <3> QED
      BY <2>1, <2>2, <2>3, <3>3 DEF StreamOK
  <2> QED
    BY <2>4, <2>5
<1>10. StreamsOK'
  BY <1>8, <1>9 DEF StreamsOK
<1> QED
  BY <1>7, <1>10 DEF SocketInv

\* SendData and SendDataNoFlush queue bytes.
LEMMA EnqueueStep == SocketInv /\ Enqueue => SocketInv'
<1> SUFFICES ASSUME SocketInv, Enqueue PROVE SocketInv'
  OBVIOUS
<1>1. call \in Calls /\ role \in Roles /\ connections \in Seq(Descriptors) /\ left \in Seq(Byte)
      /\ IsBuffers(sending) /\ call.to \in Descriptors \cup {0} /\ call.data \in Seq(Byte)
  BY DEF SocketInv, TypesOK, Calls
<1>2. pc = "resume" /\ Connected
  BY DEF Enqueue, Sends
<1>3. PICK d : d = IF call.to # 0 THEN call.to ELSE connections[1]
  OBVIOUS
<1>4. d \in Descriptors
  <2>1. CASE call.to # 0
    BY <1>1, <1>3, <2>1
  <2>2. CASE call.to = 0
    <3>1. connections # << >>
      <4>1. CASE role = "CLIENT"
        BY <1>2, <4>1 DEF SocketInv, PlacesOK
      <4>2. CASE role = "SERVER"
        <5>1. Len(connections) = 1
          BY <1>2, <2>2, <4>2 DEF Connected, IsConnected
        <5> QED
          BY <5>1
      <4> QED
        BY <1>1, <4>1, <4>2 DEF Roles
    <3> QED
      BY <1>1, <1>3, <2>2, <3>1
  <2> QED
    BY <2>1, <2>2
<1> DEFINE data == call.data
           b == Buffer(sending, d) \o data
<1>5. b \in Seq(Byte) /\ Buffer(sending, d) \in Seq(Byte)
  <2>1. Buffer(sending, d) \in Seq(Byte)
    BY <1>1, BufferType
  <2> QED
    BY <1>1, <2>1, ConcatProperties
<1>6. /\ sending' = (IF data = << >> THEN sending ELSE Put(sending, d, b))
      /\ link' = [link EXCEPT ![d].queued = @ \o data] /\ call' = [call EXCEPT !.to = d]
      /\ UNCHANGED << role, received, connections >>
  BY <1>3 DEF Enqueue
<1>7. /\ IsBuffers(sending') /\ Buffer(sending', d) = b
      /\ \A e : e # d => Buffer(sending', e) = Buffer(sending, e)
  <2>1. CASE data = << >>
    <3>1. b = Buffer(sending, d)
      BY <1>5, <2>1, Nothing
    <3> QED
      BY <1>1, <1>6, <2>1, <3>1
  <2>2. CASE data # << >>
    <3> HIDE DEF b
    <3> QED
      BY <1>1, <1>4, <1>5, <1>6, <2>2 DEF IsBuffers, Buffer, Put
  <2> QED
    BY <2>1, <2>2
<1>8. call' \in Calls /\ call'.to = d
  BY <1>1, <1>4, <1>6 DEF Calls
<1>9. /\ pc' \in {"idle", "send"} /\ left' \in {left, b}
      /\ pc' = "send" => left' = b /\ d \in DOMAIN sending'
  BY <1>3, <1>6 DEF Enqueue, Return, Flush
<1>10. pc # "send" /\ left' \in Seq(Byte) /\ data \in Seq(Byte)
  BY <1>1, <1>2, <1>5, <1>9
<1> HIDE DEF data
<1> QED
  BY <1>4, <1>6, <1>7, <1>8, <1>9, <1>10, Queues

\* A flush is a call.
LEMMA FlushCallType ==
  ASSUME NEW api \in {"FlushSendBuffer", "FlushSendBuffers"}, NEW to \in Descriptors \cup {0}
  PROVE  /\ [NoCall EXCEPT !.api = api, !.to = to] \in Calls
         /\ [NoCall EXCEPT !.api = api, !.to = to].to = to
  BY EmptyType DEF NoCall, Calls

\* FlushSendBuffer starts on one buffer.
LEMMA FlushSendBufferStep ==
  ASSUME SocketInv, NEW to \in Descriptors \cup {0}, FlushSendBuffer(to)
  PROVE  SocketInv'
<1>1. PICK d : d = IF to # 0 THEN to ELSE IF role = "CLIENT" THEN Client ELSE connections[1]
  OBVIOUS
<1>2. /\ pc = "idle" /\ UNCHANGED << role, received, sending, connections, link >>
      /\ call' = [NoCall EXCEPT !.api = "FlushSendBuffer",
                                !.to = IF to = 0 /\ role = "SERVER" /\ connections = << >> THEN 0 ELSE d]
  BY <1>1 DEF FlushSendBuffer, object, system
<1>3. CASE to = 0 /\ role = "SERVER" /\ connections = << >>
  <2>1. call'.to = 0 /\ call' \in Calls
    <3>1. call' = [NoCall EXCEPT !.api = "FlushSendBuffer", !.to = 0]
      BY <1>2, <1>3
    <3> QED
      BY <3>1, FlushCallType
  <2>2. pc' = "idle" /\ left' = left
    BY <1>3, <2>1 DEF FlushSendBuffer, Return
  <2> QED
    BY <1>2, <2>1, <2>2, Returns
<1>4. CASE ~(to = 0 /\ role = "SERVER" /\ connections = << >>)
  <2>1. d \in Descriptors
    <3>1. role \in Roles /\ connections \in Seq(Descriptors)
      BY DEF SocketInv, TypesOK
    <3> QED
      BY <1>1, <1>4, <3>1, ClientIn DEF Roles
  <2>2. call'.to = d /\ call' \in Calls /\ d # 0
    <3>1. call' = [NoCall EXCEPT !.api = "FlushSendBuffer", !.to = d]
      BY <1>2, <1>4
    <3>2. d # 0
      BY <2>1, SocketAssumption
    <3> QED
      BY <2>1, <3>1, <3>2, FlushCallType
  <2>3. CASE d \notin DOMAIN sending
    <3>1. pc' = "idle" /\ left' = left
      BY <1>1, <2>2, <2>3 DEF FlushSendBuffer, Return
    <3> QED
      BY <1>2, <2>2, <3>1, Returns
  <2>4. CASE d \in DOMAIN sending
    <3>1. Flush(sending[d])
      BY <1>1, <2>2, <2>4 DEF FlushSendBuffer
    <3> QED
      BY <1>2, <2>2, <2>4, <3>1, FlushBegins
  <2> QED
    BY <2>3, <2>4
<1> QED
  BY <1>3, <1>4

\* FlushSendBuffers starts on the first of all the buffers.
LEMMA FlushSendBuffersStep == SocketInv /\ FlushSendBuffers => SocketInv'
<1> SUFFICES ASSUME SocketInv, FlushSendBuffers PROVE SocketInv'
  OBVIOUS
<1> DEFINE full == {d \in DOMAIN sending : sending[d] # << >>}
<1>1. pc # "send" /\ UNCHANGED << role, received, sending, connections, link >>
  BY DEF FlushSendBuffers, object, system
<1>2. CASE Return({"SUCCESS"}) /\ UNCHANGED << call, left >>
  <2>1. pc' = "idle" /\ call' \in Calls
    BY <1>2 DEF Return, SocketInv, TypesOK
  <2> QED
    BY <1>1, <1>2, <2>1, Returns
<1>3. CASE /\ full # {} /\ call' = [NoCall EXCEPT !.api = "FlushSendBuffers", !.to = Min(full)]
           /\ Flush(sending[Min(full)])
  <2>1. full \subseteq Descriptors /\ full \subseteq Nat
    BY SocketAssumption DEF SocketInv, TypesOK, IsBuffers
  <2>2. PICK d : d = Min(full)
    OBVIOUS
  <2>3. d \in full
    <3> HIDE DEF full
    <3> QED
      BY <1>3, <2>1, <2>2, LeastIn
  <2>4. d \in DOMAIN sending /\ d \in Descriptors
    BY <2>1, <2>3
  <2>5. call' \in Calls /\ call'.to = d
    <3>1. call' = [NoCall EXCEPT !.api = "FlushSendBuffers", !.to = d]
      BY <1>3, <2>2
    <3> QED
      BY <2>4, <3>1, FlushCallType
  <2>6. Flush(sending[d])
    BY <1>3, <2>2
  <2> QED
    BY <1>1, <2>4, <2>5, <2>6, FlushBegins
<1> QED
  BY <1>2, <1>3 DEF FlushSendBuffers

\* send() takes n bytes of what is left.
LEMMA SendBlobStep ==
  ASSUME SocketInv, NEW n, SendBlob(n)
  PROVE  SocketInv'
<1>1. PICK d : d = call.to
  OBVIOUS
<1>2. /\ pc = "send" /\ d \in ToSet(connections) /\ n \in 1 .. Len(left) /\ left' = Rest(left, n)
      /\ link' = [link EXCEPT ![d].delivered = @ \o SubSeq(left, 1, n)]
      /\ UNCHANGED << role, received, connections, call >>
      /\ \/ left' # << >> /\ UNCHANGED << sending, pc >>
         \/ left' = << >> /\ sending' = Put(sending, d, << >>) /\ pc' \in {"flush", "idle"}
  BY <1>1 DEF SendBlob, ClearSendBuffer
<1>3. /\ link \in [Descriptors -> Connections] /\ left \in Seq(Byte) /\ IsBuffers(sending)
      /\ ToSet(connections) \subseteq Descriptors /\ call \in Calls /\ d \in DOMAIN sending
  BY <1>1, <1>2, MembersIn DEF SocketInv, TypesOK, FlushOK
<1>4. d \in Descriptors /\ link[d] \in Connections /\ n \in 0 .. Len(left)
  BY <1>2, <1>3
<1> DEFINE g == link[d].delivered
           first == SubSeq(left, 1, n)
<1>5. g \in Seq(Byte)
  BY <1>4 DEF Connections
<1>6. g \o first \in Seq(Byte) /\ (g \o first) \o left' = g \o left
  <2> HIDE DEF g
  <2>1. g \o first \in Seq(Byte)
    BY <1>3, <1>4, <1>5, MoveToTheLeft
  <2>2. (g \o first) \o Rest(left, n) = g \o left
    BY <1>3, <1>4, <1>5, MoveToTheLeft
  <2> QED
    BY <1>2, <2>1, <2>2
<1>7. left' \in Seq(Byte)
  BY <1>2, <1>3, <1>4, FirstAndRest
<1>8. link'[d] = [link[d] EXCEPT !.delivered = g \o first] /\ \A e \in Descriptors : e # d => link'[e] = link[e]
  BY <1>2, <1>3, <1>4
<1> HIDE DEF first
<1>9. link'[d] \in Connections /\ link'[d].delivered = g \o first /\ link'[d].queued = link[d].queued
      /\ link'[d].torn = link[d].torn /\ link'[d].stale = link[d].stale /\ link'[d].stream = link[d].stream
      /\ link'[d].taken = link[d].taken /\ link'[d].wire = link[d].wire
  BY <1>4, <1>6, <1>8 DEF Connections
<1>10. link' \in [Descriptors -> Connections]
  BY <1>2, <1>3, <1>8, <1>9
<1>11. /\ IsBuffers(sending') /\ DOMAIN sending' = DOMAIN sending
       /\ \A e : e # d => Buffer(sending', e) = Buffer(sending, e)
       /\ left' = << >> => Buffer(sending', d) = << >>
  BY <1>2, <1>3, <1>4, EmptyType DEF IsBuffers, Buffer, Put
<1>12. TypesOK' /\ PlacesOK' /\ ClientOK' /\ FlushOK'
  <2>1. TypesOK'
    BY <1>2, <1>7, <1>10, <1>11 DEF SocketInv, TypesOK
  <2>2. PlacesOK' /\ ClientOK'
    BY <1>2 DEF SocketInv, PlacesOK, ClientOK
  <2>3. FlushOK'
    BY <1>2, <1>11 DEF SocketInv, FlushOK
  <2> QED
    BY <2>1, <2>2, <2>3
<1>13. ASSUME NEW e \in ToSet(connections) PROVE StreamOK(e)'
  <2>1. StreamOK(e) /\ e \in Descriptors
    BY <1>3, <1>13 DEF SocketInv, StreamsOK
  <2>2. ReceivesAll(e) => ReceivesAll(e)'
    BY <1>2, <1>8, <1>9, <2>1 DEF ReceivesAll
  <2>3. CASE e # d
    <3>1. Pending(e)' = Pending(e)
      BY <1>1, <1>2, <1>11, <2>3 DEF Pending
    <3> QED
      BY <1>8, <2>1, <2>2, <2>3, <3>1 DEF StreamOK, SendsAll
  <2>4. CASE e = d
    <3>1. Pending(e) = left
      BY <1>1, <1>2, <2>4 DEF Pending
    <3>2. Pending(e)' = left'
      BY <1>1, <1>2, <1>11, <2>4 DEF Pending
    <3>3. SendsAll(e) => SendsAll(e)'
      BY <1>6, <1>9, <2>4, <3>1, <3>2 DEF SendsAll
    <3> QED
      BY <1>9, <2>1, <2>2, <2>4, <3>3 DEF StreamOK
  <2> QED
    BY <2>3, <2>4
<1>14. StreamsOK'
  BY <1>2, <1>13 DEF StreamsOK
<1> QED
  BY <1>12, <1>14 DEF SocketInv

\* A flush that fails: torn, unless nothing had been sent.
LEMMA SendBlobFailsStep ==
  ASSUME SocketInv, NEW code, SendBlobFails(code)
  PROVE  SocketInv'
<1>1. PICK d : d = call.to
  OBVIOUS
<1>2. /\ pc = "send" /\ pc' = "idle" /\ UNCHANGED << role, received, sending, connections, call, left >>
      /\ link' = [link EXCEPT ![d].torn = @ \/ left # sending[d]]
  BY <1>1 DEF SendBlobFails, Return, object
<1>3. /\ link \in [Descriptors -> Connections] /\ d \in DOMAIN sending /\ d \in Descriptors
      /\ ToSet(connections) \subseteq Descriptors
  BY <1>1, <1>2, MembersIn DEF SocketInv, TypesOK, FlushOK, IsBuffers
<1>4. link[d] \in Connections
  BY <1>3
<1> DEFINE t == link[d].torn \/ left # sending[d]
<1>5. link'[d] = [link[d] EXCEPT !.torn = t] /\ \A e \in Descriptors : e # d => link'[e] = link[e]
  BY <1>2, <1>3
<1>6. t \in BOOLEAN
  OBVIOUS
<1> HIDE DEF t
<1>7. link'[d] \in Connections /\ link'[d].torn = t /\ link'[d].delivered = link[d].delivered
      /\ link'[d].queued = link[d].queued /\ link'[d].stale = link[d].stale
      /\ link'[d].stream = link[d].stream /\ link'[d].taken = link[d].taken /\ link'[d].wire = link[d].wire
  BY <1>4, <1>5, <1>6 DEF Connections
<1>8. link' \in [Descriptors -> Connections]
  BY <1>2, <1>3, <1>5, <1>7
<1>9. TypesOK' /\ PlacesOK' /\ ClientOK' /\ FlushOK'
  BY <1>2, <1>8 DEF SocketInv, TypesOK, PlacesOK, ClientOK, FlushOK
<1>10. ASSUME NEW e \in ToSet(connections) PROVE StreamOK(e)'
  <2>1. StreamOK(e) /\ e \in Descriptors
    BY <1>3, <1>10 DEF SocketInv, StreamsOK
  <2>2. ReceivesAll(e) => ReceivesAll(e)'
    BY <1>2, <1>5, <1>7, <2>1 DEF ReceivesAll
  <2>3. CASE e # d
    <3>1. Pending(e)' = Pending(e)
      BY <1>1, <1>2, <2>3 DEF Pending
    <3> QED
      BY <1>5, <2>1, <2>2, <2>3, <3>1 DEF StreamOK, SendsAll
  <2>4. CASE e = d
    <3>1. Pending(e) = left /\ Pending(e)' = sending[d]
      BY <1>1, <1>2, <1>3, <2>4 DEF Pending, Buffer
    <3>2. ~t => left = sending[d] /\ ~link[d].torn
      BY DEF t
    <3>3. SendsAll(e) => SendsAll(e)'
      BY <1>7, <2>4, <3>1, <3>2 DEF SendsAll
    <3> QED
      BY <1>7, <2>1, <2>2, <2>4, <3>3 DEF StreamOK
  <2> QED
    BY <2>3, <2>4
<1>11. StreamsOK'
  BY <1>2, <1>10 DEF StreamsOK
<1> QED
  BY <1>9, <1>11 DEF SocketInv

\* The loop of send calls of a flush.
LEMMA SendingStep == SocketInv /\ Sending => SocketInv'
<1> SUFFICES ASSUME SocketInv, Sending PROVE SocketInv'
  OBVIOUS
<1>1. ASSUME NEW api \in {"SendData", "SendDataNoFlush"}, NEW to \in Descriptors \cup {0},
             NEW data \in Payloads, SendData(api, to, data)
      PROVE  SocketInv'
  <2>1. data \in Seq(Byte)
    BY BytesAssumption
  <2>2. pc = "idle" /\ call' \in Calls
    BY <1>1, <2>1, CallType DEF SendData
  <2>3. UNCHANGED << role, received, sending, link, left, connections >> /\ pc' \in {"idle", Start}
    BY <1>1 DEF SendData, Return, object, system
  <2>4. CASE pc' = "idle"
    BY <2>2, <2>3, <2>4, Returns
  <2>5. CASE pc' = Start
    BY <2>2, <2>3, <2>5, StartPlace, Continues
  <2> QED
    BY <2>3, <2>4, <2>5
<1>2. CASE ServerConnect
  <2>1. /\ pc = "resume" /\ ThreadListen /\ role # "CLIENT"
        /\ UNCHANGED << role, received, sending, link, left, connections, call >>
    BY <1>2 DEF ServerConnect, Sends, Connected, system
  <2> QED
    BY <2>1, ThreadPlace, Continues
<1> QED
  BY <1>1, <1>2, EnqueueStep, FlushSendBuffersStep, FlushSendBufferStep, SendBlobStep, SendBlobFailsStep
  DEF Sending

-----------------------------------------------------------------------------
(* Only select() and the events after it move HandleSelectEvents' place.   *)

LEMMA AdvanceScan == ScanOK /\ Advance => ScanOK'
<1> SUFFICES ASSUME ScanOK, Advance PROVE ScanOK'
  OBVIOUS
<1>1. scan.itr + 1 \in Nat \ {0}
  BY DEF ScanOK
<1> DEFINE n == scan.itr + 1
<1>2. scan' = [scan EXCEPT !.itr = n]
  BY DEF Advance
<1> HIDE DEF n
<1> QED
  BY <1>1, <1>2 DEF ScanOK, n

\* The iterator stays.
LEMMA SameScan == ScanOK /\ scan' = scan => ScanOK'
  BY DEF ScanOK

\* Every step keeps the iterator in type.
LEMMA ScanStep == ScanOK /\ SocketNext => ScanOK'
<1> SUFFICES ASSUME ScanOK, SocketNext PROVE ScanOK'
  OBVIOUS
<1>1. CASE Parameters
  <2>1. scan' = scan
    BY <1>1 DEF Parameters, SetListenParams, SetListenReceiveDataCallback, SetListenTimeout
  <2> QED
    BY <2>1, SameScan
<1>2. CASE Buffers
  <2>1. scan' = scan
    BY <1>2 DEF Buffers, SwapBuffer, ResetForReceive, ResetSocketErrorsAndAbortSignals
  <2> QED
    BY <2>1, SameScan
<1>3. CASE Closing
  <2>1. scan' = scan
    BY <1>3 DEF Closing, Disconnect, Reset
  <2> QED
    BY <2>1, SameScan
<1>4. CASE Connecting
  <2>1. scan' = scan
    BY <1>4 DEF Connecting, SetupSocket, Connect, ConnectSucceeds, ConnectImpossible, ConnectError,
                NonBlockingConnect
  <2> QED
    BY <2>1, SameScan
<1>5. CASE Listening
  <2>1. ASSUME NEW new \in BOOLEAN, NEW ready \in SUBSET Descriptors, NEW failed \in SUBSET Descriptors,
               SelectEvents(new, ready, failed)
        PROVE  ScanOK'
    <3>1. scan' = scan \/ scan' = [itr |-> 1, ready |-> ready, failed |-> failed]
      BY <2>1 DEF SelectEvents
    <3> QED
      BY <3>1, SameScan DEF ScanOK
  <2>2. CASE scan' = scan
    BY <2>2, SameScan
  <2> QED
    BY <1>5, <2>1, <2>2
    DEF Listening, Listen, BeginListen, Bind, BindError, StopListening, SelectTimeout, ServerSocketError,
        SelectError, ServerNotConnected, ServerConnected
<1>6. CASE Events
  <2>1. scan' = scan \/ Advance
    BY <1>6 DEF Events, EventNone, EventsDone, ReceiveErrorPasses, ReceiveData, EventError, ReceiveFails
  <2> QED
    BY <2>1, SameScan, AdvanceScan
<1>7. CASE Sending
  <2>1. scan' = scan
    BY <1>7 DEF Sending, SendData, ServerConnect, Enqueue, FlushSendBuffers, FlushSendBuffer, SendBlob,
                SendBlobFails
  <2> QED
    BY <2>1, SameScan
<1> QED
  BY <1>1, <1>2, <1>3, <1>4, <1>5, <1>6, <1>7 DEF SocketNext

-----------------------------------------------------------------------------

\* A constructed Socket.
LEMMA InvInitially == SocketInit => SocketInv /\ ScanOK
<1> SUFFICES ASSUME SocketInit PROVE SocketInv /\ ScanOK
  OBVIOUS
<1>1. Unused \in Connections
  BY EmptyType DEF Unused, Connections
<1>2. TypesOK
  <2>1. role \in Roles /\ connections \in Seq(Descriptors) /\ left \in Seq(Byte) /\ call \in Calls
    BY EmptyType DEF SocketInit, Roles, NoCall, Calls
  <2>2. IsBuffers(received) /\ IsBuffers(sending)
    BY BuffersEmpty DEF SocketInit
  <2>3. link \in [Descriptors -> Connections]
    BY <1>1 DEF SocketInit
  <2> QED
    BY <2>1, <2>2, <2>3 DEF TypesOK
<1>3. ToSet(connections) = {} /\ pc = "idle"
  BY NoMembers DEF SocketInit
<1>4. PlacesOK /\ ClientOK /\ FlushOK /\ StreamsOK
  BY <1>3 DEF PlacesOK, ClientOK, FlushOK, StreamsOK
<1>5. ScanOK
  BY DEF SocketInit, ScanOK
<1> QED
  BY <1>2, <1>4, <1>5 DEF SocketInv

\* The invariant holds of every Socket, in either role and whatever the
\* descriptors, streams, payloads, scripts, parameters and faults.
THEOREM SocketInvHolds == SocketSpec => [](SocketInv /\ ScanOK)
<1>1. SocketInv /\ ScanOK /\ SocketNext => (SocketInv /\ ScanOK)'
  BY ParametersStep, BuffersStep, ClosingStep, ConnectingStep, ListeningStep, EventsStep, SendingStep, ScanStep
  DEF SocketNext
<1>2. SocketInv /\ ScanOK /\ UNCHANGED vars => (SocketInv /\ ScanOK)'
  <2> SUFFICES ASSUME SocketInv, ScanOK, UNCHANGED vars PROVE SocketInv' /\ ScanOK'
    OBVIOUS
  <2>1. UNCHANGED << role, connections, received, sending, pc, call, left, link, scan >>
    BY DEF vars, object, thread, system
  <2>2. TypesOK' /\ PlacesOK' /\ ClientOK' /\ FlushOK'
    BY <2>1 DEF SocketInv, TypesOK, PlacesOK, ClientOK, FlushOK
  <2>3. StreamsOK'
    BY <2>1 DEF SocketInv, StreamsOK, StreamOK, ReceivesAll, SendsAll, Pending
  <2> QED
    BY <2>1, <2>2, <2>3, SameScan DEF SocketInv
<1> QED
  BY <1>1, <1>2, InvInitially, PTL DEF SocketSpec

\* StreamsIntact, for every Socket: on a connection opened with empty buffers
\* no byte is lost, repeated or reordered between the peer and the caller, in
\* either direction, whatever recv() and send() cut and whatever fails.
THEOREM SocketStreamsIntact == SocketSpec => []StreamsIntact
  BY SocketInvHolds, InvGivesStreams, PTL
=============================================================================
