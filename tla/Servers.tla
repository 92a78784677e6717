------------------------------ MODULE Servers ------------------------------
(***************************************************************************)
(* network/ and framework/QueryHandler: how the servers of a study come to *)
(* share a query.  The analyst delivers it to a proxy, the proxy           *)
(* distributes it, the other servers greet one another, and a server       *)
(* begins once it is connected to everybody the query needs.  Messages     *)
(* that come earlier wait in messageCache.  At the end a server that has   *)
(* all complete messages erases its query, which closes its connections.   *)
(*                                                                         *)
(* Every callback of libevent is one action.  conns holds the connections, *)
(* by <<opener, accepter, number>>; each has two ends.  An end has the     *)
(* callbacks it is set to, the QueryHandler they point to, its input and   *)
(* the wire, what is on the way to it.  What travels is cut into units, so *)
(* that it can arrive in pieces: a connection header is three, a message   *)
(* two.  FronctocolManager is external: here it sends a payload to every   *)
(* partner, is finished when it has all of theirs, and then says so.       *)
(***************************************************************************)
EXTENDS Integers, Sequences, SequencesExt, FiniteSets, FiniteSetsExt, TLC

CONSTANTS
  Servers,     \* organization ids of the servers
  Analyst,     \* and of the analyst, who is no server
  Studies,     \* [proxy, roles, vertical]: roles and verticalIdx of the servers' Peer entries
  Deliveries,  \* what the analyst may send: sequences of queries
               \* [study, analyst, id, verticals, valid]
  MaxFaults    \* connections that fail or come from strangers

\* QueryId::operator<, a conjunction, and what std::map makes of it.
Less(a, b) == a.study < b.study /\ a.analyst < b.analyst /\ a.id < b.id
SameKey(a, b) == ~Less(a, b) /\ ~Less(b, a)

\* The queries of one study by one analyst: at most one entry of queries.
ASSUME ServersAssumption ==
  /\ Servers \subseteq Nat /\ Analyst \notin Servers /\ MaxFaults \in Nat
  /\ \A d \in Deliveries : \A i, j \in DOMAIN d : SameKey(d[i], d[j])

VARIABLES
  study,       \* studies, the configuration all servers have read
  handlers,    \* queries of each NewConnectionHandler: its one QueryHandler, or NoHandler
  conns,       \* the connections
  status,      \* of each server's process: running, aborted, or undefined behaviour
  born,        \* QueryHandlers each server has made
  sent, handled, \* messages, by << from, to >>: given to sendOutgoingMessages; handled
  deliveries,  \* the queries the analyst sends, one of Deliveries
  delivered,   \* those it has begun to send
  faults       \* that may still happen

vars == << study, handlers, conns, status, born, sent, handled, deliveries, delivered, faults >>

NoHandler == [n |-> 0]
NoQuery == [id |-> 0, verticals |-> {}]
\* QueryHandler(queryId, study, orgId), before anything is read or connected.
NewHandler(n, query) ==
  [n |-> n, query |-> query, read |-> NoQuery, proxy |-> 0, peers |-> << >>,
   initialized |-> FALSE, inits |-> 0, cache |-> << >>,
   payloads |-> {}, completes |-> {}, finished |-> FALSE]

Other(side) == IF side = "client" THEN "server" ELSE "client"
Owner(c, side) == IF side = "client" THEN c[1] ELSE c[2]
End(cb, n, wire) == [cb |-> cb, handler |-> n, cached |-> FALSE, in |-> << >>, wire |-> wire]
Open(e) == e.cb \notin {"closed", "ended"}
Unit(name, msg) == << name, msg >>
Header(kind) ==
  << Unit("constant", kind), Unit("partial", kind), Unit("header", kind) >> \o
    (IF kind \in {"DELIVERY", "DISTRIBUTION"} THEN << Unit("json", kind) >> ELSE << >>)
Message(msg) == << Unit("head", msg), Unit("body", msg) >>

-----------------------------------------------------------------------------
(* What a callback does, as functions on w, the values of the variables.   *)

Now == [handlers |-> handlers, conns |-> conns, status |-> status, born |-> born,
        sent |-> sent, handled |-> handled, closing |-> FALSE]
Becomes(w) ==
  /\ handlers' = w.handlers /\ conns' = w.conns /\ status' = w.status
  /\ born' = w.born /\ sent' = w.sent /\ handled' = w.handled
Undefined(w, s) == [w EXCEPT !.status[s] = "undefined"]
\* An exception that leaves a callback, or a failed log_assert.
Aborted(w, s) == [w EXCEPT !.status[s] = "aborted"]
Dangling(w, s, n) == w.handlers[s].n # n

Has(role, p) == role \in study.roles[p]
InQuery(p, verticals) == Has("dataowner", p) /\ study.vertical[p] \in verticals
Partners(s, verticals) ==
  {p \in Servers \ {s} : Has("recipient", p) \/ Has("dealer", p) \/ InQuery(p, verticals)}

\* sendOutgoingMessages: one message, which is dropped when p is no peer.
Send(w, s, p, msg) ==
  LET noted == [w EXCEPT !.sent[<< s, p >>] = Append(@, msg)]
      c == w.handlers[s].peers[p][1]
      far == Other(w.handlers[s].peers[p][2])
  IN  IF p \in DOMAIN w.handlers[s].peers /\ Open(w.conns[c][far])
      THEN [noted EXCEPT !.conns[c][far].wire = @ \o Message(msg)] ELSE noted
SendAll(w, s, msg) ==
  FoldSet(LAMBDA p, v : Send(v, s, p, msg), w, Partners(s, w.handlers[s].read.verticals))

\* handlePayload and handleComplete, with the FronctocolManager behind them.
Handle(w, s, p, msg) ==
  LET h == [w.handlers[s] EXCEPT
              !.payloads = IF msg = "payload" THEN @ \cup {p} ELSE @,
              !.completes = IF msg = "complete" THEN @ \cup {p} ELSE @]
      ready == ~h.finished /\ Partners(s, h.read.verticals) \subseteq h.payloads
      noted == [w EXCEPT !.handled[<< p, s >>] = Append(@, msg),
                         !.handlers[s] = [h EXCEPT !.finished = @ \/ ready]]
  IN  IF ready THEN SendAll(noted, s, "complete") ELSE noted
\* Mutant: closed when its own manager has finished, whatever the others say.
ClosedWithoutCompletes(w, s) == w.handlers[s].finished
IsClosed(w, s) ==
  /\ w.handlers[s].finished
  /\ Partners(s, w.handlers[s].read.verticals) \subseteq w.handlers[s].completes

\* Mutant: a message that comes before init is dropped.
UpdateDrops(w, s, p, msg) == IF w.handlers[s].initialized THEN Handle(w, s, p, msg) ELSE w
\* QueryHandler::update.
Update(w, s, p, msg) ==
  IF w.handlers[s].initialized THEN Handle(w, s, p, msg)
  ELSE [w EXCEPT !.handlers[s].cache = Append(@, << p, msg >>)]

\* Mutant: init leaves messageCache as it is.
InitForgetsCache(w, s) ==
  SendAll([w EXCEPT !.handlers[s].inits = @ + 1, !.handlers[s].initialized = TRUE], s, "payload")
\* QueryHandler::init.
InitQuery(w, s) ==
  LET begun == SendAll([w EXCEPT !.handlers[s].inits = @ + 1], s, "payload")
  IN  FoldLeft(LAMBDA v, m : Handle(v, s, m[1], m[2]),
               [begun EXCEPT !.handlers[s].initialized = TRUE, !.handlers[s].cache = << >>],
               w.handlers[s].cache)

\* Mutant: the dealers are not waited for.
ReadyWithoutDealers(w, s) ==
  IF {p \in Partners(s, w.handlers[s].read.verticals) : ~Has("dealer", p)} \subseteq DOMAIN w.handlers[s].peers
  THEN InitQuery(w, s) ELSE w
QueryReady(w, s) ==
  IF Partners(s, w.handlers[s].read.verticals) \subseteq DOMAIN w.handlers[s].peers
  THEN InitQuery(w, s) ELSE w

\* readEventHandler, again and again until no whole message is left: a head
\* alone is kept in cachedHeader.
ReadEvents(w, s, c, side, sender) ==
  LET e == w.conns[c][side]
      units == (IF e.cached THEN << Unit("head", "") >> ELSE << >>) \o e.in
      msgs == [i \in 1 .. Len(units) \div 2 |-> units[2 * i][2]]
      read == [w EXCEPT !.conns[c][side] = [e EXCEPT !.in = << >>, !.cached = Len(units) % 2 = 1]]
      done == FoldLeft(LAMBDA v, m : Update(v, s, sender, m), read, msgs)
  IN  [done EXCEPT !.closing = msgs # << >> /\ IsClosed(done, s)]

ChangeToEventHandlerCallback(w, s, c, side, sender) ==
  LET n == w.conns[c][side].handler
      e == [w.conns[c][side] EXCEPT !.cb = "event", !.cached = FALSE]
      joined == QueryReady([w EXCEPT !.conns[c][side] = e,
                              !.handlers[s].peers = (sender :> << c, side >>) @@ @], s)
  IN  IF Dangling(w, s, n) THEN Undefined(w, s)
      \* the second EventHandler frees bev once more
      ELSE IF sender \in DOMAIN w.handlers[s].peers THEN Undefined(w, s)
      ELSE IF e.in # << >> THEN ReadEvents(joined, s, c, side, sender) ELSE joined

\* init_connection and the header, to every peer once for each of its parts in
\* the query; a peer that is connected already raises an exception.
SendToPeers(w, s, kind, candidates) ==
  LET verticals == w.handlers[s].read.verticals
      parts(p) == Cardinality({r \in {"recipient", "dataowner"} :
                    IF r = "recipient" THEN Has(r, p) ELSE InQuery(p, verticals)})
      before(p) == Cardinality({c \in DOMAIN w.conns : c[1] = s /\ c[2] = p})
      new == UNION {{<< s, p, before(p) + i >> : i \in 1 .. parts(p)} : p \in candidates}
      made == [c \in new |-> [client |-> End("connecting", w.handlers[s].n, << >>),
                              server |-> End("header", 0, << >>),
                              kind |-> kind, query |-> w.handlers[s].query, read |-> w.handlers[s].read]]
  IN  IF \E c \in new : c[2] \in DOMAIN w.handlers[s].peers THEN Aborted(w, s)
      ELSE [w EXCEPT !.conns = made @@ @]

\* The end of a QueryHandler closes its connections; of what was on the way
\* to p only the first kept[p] units had left the output buffer.
OnTheWay(w, s, p) == LET e == w.handlers[s].peers[p] IN w.conns[e[1]][Other(e[2])].wire
Losses(w, s) ==
  LET peers == DOMAIN w.handlers[s].peers
  IN  {kept \in [peers -> 0 .. Max({Len(OnTheWay(w, s, p)) : p \in peers} \cup {0})] :
         \A p \in peers : kept[p] <= Len(OnTheWay(w, s, p))}
Erase(w, s, kept) ==
  LET peers == w.handlers[s].peers
      mine == {peers[p] : p \in DOMAIN peers}
      end(c, side) ==
        IF << c, side >> \in mine THEN End("closed", 0, << >>)
        ELSE IF << c, Other(side) >> \in mine
        THEN [w.conns[c][side] EXCEPT !.wire = SubSeq(@, 1, kept[Owner(c, side)])]
        ELSE w.conns[c][side]
  IN  [w EXCEPT !.handlers[s] = NoHandler,
         !.conns = [c \in DOMAIN w.conns |->
                      [w.conns[c] EXCEPT !.client = end(c, "client"), !.server = end(c, "server")]]]

\* Step 1 of readQueryJsonHandler has found the whole query.
ReadQueryJson(w, s, c) ==
  LET e == w.conns[c].server
      query == w.conns[c].read
      parsed == [w EXCEPT !.conns[c].server.in = Tail(@), !.handlers[s].read = query]
      dropped == Erase(parsed, s, [p \in Servers |-> Len(OnTheWay(parsed, s, p))])
  IN  IF Dangling(w, s, e.handler) THEN Undefined(w, s)
      ELSE IF ~query.valid
      THEN [dropped EXCEPT !.conns[c].server.cb = "freed"]  \* rqjh is deleted, the callbacks stay
      ELSE IF w.conns[c].kind = "DELIVERY"
      THEN LET asked == SendToPeers(parsed, s, "DISTRIBUTION", Servers \ {s})
           IN  IF asked.status[s] # "running" THEN asked
               ELSE [asked EXCEPT !.conns[c].server = End("closed", 0, << >>)]
      ELSE LET greeted == SendToPeers(parsed, s, "GREETING", {p \in Servers : p > s})
           IN  IF greeted.status[s] # "running" THEN greeted
               ELSE ChangeToEventHandlerCallback(greeted, s, c, "server", c[1])

\* Steps 4 to 7 of readConnectionHeaderHandler; the header is read.
HeaderRead(w, s, c) ==
  LET kind == w.conns[c].kind
      query == w.conns[c].query
      exists == w.handlers[s] # NoHandler /\ SameKey(w.handlers[s].query, query)
      made == IF exists THEN w
              ELSE [w EXCEPT !.born[s] = @ + 1, !.handlers[s] = NewHandler(w.born[s] + 1, query)]
      proxied == CASE kind = "DELIVERY" -> [made EXCEPT !.handlers[s].proxy = s]
                   [] kind = "DISTRIBUTION" -> [made EXCEPT !.handlers[s].proxy = c[1]]
                   [] OTHER -> made
      bound == [proxied EXCEPT !.conns[c].server.handler = proxied.handlers[s].n,
                               !.conns[c].server.cb = IF kind = "GREETING" THEN @ ELSE "json"]
  IN  IF kind = "STRANGER" THEN [w EXCEPT !.conns[c].server = End("closed", 0, << >>)]
      ELSE IF kind = "GREETING" THEN ChangeToEventHandlerCallback(bound, s, c, "server", c[1])
      ELSE IF bound.conns[c].server.in # << >> THEN ReadQueryJson(bound, s, c)
      ELSE bound

\* Steps 1 to 3: the constant is taken once something follows it, the rest
\* when it is there.
ReadConnectionHeader(w, s, c) ==
  LET e == w.conns[c].server
      constant == IF e.cached \/ Len(e.in) <= 1 THEN w
                  ELSE [w EXCEPT !.conns[c].server.cached = TRUE, !.conns[c].server.in = Tail(@)]
      rest == constant.conns[c].server
  IN  IF rest.cached /\ Len(rest.in) >= 2
      THEN HeaderRead([constant EXCEPT !.conns[c].server.in = SubSeq(@, 3, Len(@))], s, c)
      ELSE constant

-----------------------------------------------------------------------------
(* The callbacks, and the analyst.                                         *)

\* A query that readEventHandler finds closed is erased there, and the
\* callback then still writes to its EventHandler.
Finish(w, s) ==
  IF ~w.closing THEN Becomes(w)
  ELSE \E kept \in Losses(w, s), after \in {"running", "undefined"} :
         Becomes([Erase(w, s, kept) EXCEPT !.status[s] = after])

\* n more units arrive at an end and its read callback runs.
Read(c, side, n) ==
  LET e == conns[c][side]
      s == Owner(c, side)
      w == [Now EXCEPT !.conns[c][side].in = @ \o SubSeq(e.wire, 1, n),
                       !.conns[c][side].wire = SubSeq(@, n + 1, Len(@))]
  IN  /\ s \in Servers /\ status[s] = "running" /\ n \in 1 .. Len(e.wire)
      /\ \/ e.cb = "header" /\ Finish(ReadConnectionHeader(w, s, c), s)
         \/ e.cb = "json" /\ Finish(ReadQueryJson(w, s, c), s)
         \/ e.cb = "event" /\ Finish(ReadEvents(w, s, c, side, Owner(c, Other(side))), s)
      /\ UNCHANGED << study, deliveries, delivered, faults >>

\* sendConnectionError with BEV_EVENT_CONNECTED; then the header leaves.
Connected(c) ==
  LET s == c[1]
      w == [Now EXCEPT !.conns[c].server.wire = Header(conns[c].kind)]
  IN  /\ conns[c].client.cb = "connecting" /\ status[s] = "running" /\ status[c[2]] = "running"
      /\ Finish(ChangeToEventHandlerCallback(w, s, c, "client", c[2]), s)
      /\ UNCHANGED << study, deliveries, delivered, faults >>

\* With any other event there is no certificate to compare, and a log_assert
\* ends the process; its connections close.
ConnectionFails(c) ==
  /\ conns[c].client.cb = "connecting" /\ status[c[1]] = "running"
  /\ IF status[c[2]] = "running" THEN faults > 0 /\ faults' = faults - 1 ELSE UNCHANGED faults
  /\ status' = [status EXCEPT ![c[1]] = "aborted"]
  /\ conns' = [d \in DOMAIN conns |->
       [conns[d] EXCEPT !.client = IF d[1] = c[1] THEN End("closed", 0, << >>) ELSE @,
                        !.server = IF d[2] = c[1] THEN End("closed", 0, << >>) ELSE @]]
  /\ UNCHANGED << study, handlers, born, sent, handled, deliveries, delivered >>

\* BEV_EVENT_EOF: the other end has closed and all it had sent is read.
EndOfFile(c, side) ==
  LET e == conns[c][side]
      s == Owner(c, side)
      ended == [Now EXCEPT !.conns[c][side].cb = "ended"]
  IN  /\ s \in Servers /\ status[s] = "running" /\ e.wire = << >>
      /\ conns[c][Other(side)].cb = "closed"
      /\ \/ e.cb \in {"header", "json"} /\ Becomes(ended)
         \/ e.cb = "freed" /\ Becomes(Undefined(ended, s))
         \/ e.cb = "event" /\ IF handlers[s].finished
                               THEN \E kept \in Losses(ended, s) : Becomes(Erase(ended, s, kept))
                               ELSE Becomes(ended)
      /\ UNCHANGED << study, deliveries, delivered, faults >>

\* The analyst connects to the proxy and sends the next query, or one whose
\* connection broke again.
Deliver ==
  LET c == << Analyst, study.proxy, delivered + 1 >>
      query == deliveries[delivered + 1]
      last == conns[<< Analyst, study.proxy, delivered >>]
  IN  /\ delivered < Len(deliveries)
      /\ delivered > 0 /\ deliveries[delivered] = query => last.server.cb = "ended"
      /\ delivered' = delivered + 1
      /\ conns' = (c :> [client |-> End("analyst", 0, << >>), server |-> End("header", 0, Header("DELIVERY")),
                         kind |-> "DELIVERY", query |-> query, read |-> query]) @@ conns
      /\ UNCHANGED << study, handlers, status, born, sent, handled, deliveries, faults >>

\* The analyst's end closes, after n units more have left it.
AnalystCloses(c, n) ==
  /\ conns[c].client.cb = "analyst" /\ n \in 0 .. Len(conns[c].server.wire)
  /\ IF n < Len(conns[c].server.wire) THEN faults > 0 /\ faults' = faults - 1 ELSE UNCHANGED faults
  /\ conns' = [conns EXCEPT ![c].client = End("closed", 0, << >>),
                            ![c].server.wire = SubSeq(@, 1, n)]
  /\ UNCHANGED << study, handlers, status, born, sent, handled, deliveries, delivered >>

\* Somebody whose header fails a check of steps 1, 4 or 5.
StrangerConnects(s) ==
  /\ faults > 0 /\ faults' = faults - 1
  /\ conns' = (<< Analyst, s, 0 >> :> [client |-> End("stranger", 0, << >>),
                 server |-> End("header", 0, Header("STRANGER")), kind |-> "STRANGER",
                 query |-> deliveries[1], read |-> NoQuery]) @@ conns
  /\ UNCHANGED << study, handlers, status, born, sent, handled, deliveries, delivered >>

ServersInit ==
  /\ study \in Studies
  /\ handlers = [s \in Servers |-> NoHandler] /\ conns = << >>
  /\ status = [s \in Servers |-> "running"] /\ born = [s \in Servers |-> 0]
  /\ sent = [p \in Servers \X Servers |-> << >>] /\ handled = sent
  /\ deliveries \in Deliveries /\ delivered = 0 /\ faults = MaxFaults

Callback(c, side) ==
  \/ \E n \in 1 .. Len(conns[c][side].wire) : Read(c, side, n)
  \/ EndOfFile(c, side)
  \/ side = "client" /\ Connected(c)
ServersNext ==
  \/ \E c \in DOMAIN conns :
       \/ \E side \in {"client", "server"} : Callback(c, side)
       \/ ConnectionFails(c)
       \/ \E n \in 0 .. Len(conns[c].server.wire) : AnalystCloses(c, n)
  \/ Deliver \/ \E s \in Servers : StrangerConnects(s)

ServersSpec == ServersInit /\ [][ServersNext]_vars

-----------------------------------------------------------------------------
(* Properties.                                                             *)

\* A server begins a query (QueryHandler::init) once only, with the query
\* read and a connection to every server the query needs, whatever the order
\* in which the distribution and the greetings reached it.
StartsWithEveryone ==
  \A s \in Servers : handlers[s] # NoHandler /\ handlers[s].initialized =>
    /\ handlers[s].inits = 1 /\ handlers[s].read # NoQuery
    /\ Partners(s, handlers[s].read.verticals) \subseteq DOMAIN handlers[s].peers

\* The messages a server has given to sendOutgoingMessages for another are
\* those handled there, waiting in its messageCache, in its input and on the
\* way, in this order: none is dropped, none is left behind the greeting and
\* none overtaken when init empties the cache.
Bodies(units) == LET bodies == SelectSeq(units, LAMBDA u : u[1] = "body")
                 IN  [i \in DOMAIN bodies |-> bodies[i][2]]
MessagesInOrder ==
  \A c \in DOMAIN conns, side \in {"client", "server"} :
    LET s == Owner(c, side)
        p == Owner(c, Other(side))
        cached == SelectSeq(handlers[s].cache, LAMBDA m : m[1] = p)
    IN  s \in Servers /\ p \in Servers /\ conns[c][side].cb = "event" /\ Open(conns[c][Other(side)]) =>
          /\ sent[<< p, s >>] = handled[<< p, s >>] \o [i \in DOMAIN cached |-> cached[i][2]]
                               \o Bodies(conns[c][side].in \o conns[c][side].wire)
          /\ conns[c][side].wire = << >> => Bodies(conns[c][side].in) = << >>

\* While no process has ended, a server that sees a connection of a query end
\* has finished the query itself: those who erase it first, and lose what is
\* in their output buffers, cut nobody short.
NobodyCutShort ==
  (\A s \in Servers : status[s] # "aborted") =>
    \A c \in DOMAIN conns, side \in {"client", "server"} :
      conns[c][side].cb = "ended" /\ Owner(c, Other(side)) \in Servers =>
        handlers[Owner(c, side)] = NoHandler

\* What is identified by its queryId: a QueryHandler has read the query whose
\* QueryId it was made for ("A given query is identified by a StudyID ... and
\* a query id", QueryContext.h).
QueriesKeptApart ==
  \A s \in Servers : handlers[s] # NoHandler /\ handlers[s].read # NoQuery =>
    handlers[s].read.id = handlers[s].query.id

\* Some callback of an end is due; so is the next delivery.
Due(c, side) ==
  LET e == conns[c][side]
  IN  /\ Owner(c, side) \in Servers /\ status[Owner(c, side)] = "running"
      /\ \/ e.cb \in {"header", "json", "event"} /\ e.wire # << >>
         \/ e.cb \in {"header", "json", "event", "freed"} /\ conns[c][Other(side)].cb = "closed"
         \/ e.cb = "connecting"
Broken == conns[<< Analyst, study.proxy, delivered >>].server.cb = "ended"
Quiet ==
  /\ \A c \in DOMAIN conns, side \in {"client", "server"} : ~Due(c, side)
  /\ delivered > 0 /\ (Broken => delivered = Len(deliveries))

\* Nobody is left waiting: when no callback is due any more, every server has
\* erased the query, and if it was valid every server in it has handled a
\* payload of every other, unless a process has ended or the analyst's last
\* connection broke.  (Every callback uses something up, so this is where each
\* run comes to.)
NobodyLeftWaiting ==
  Quiet /\ ~Broken /\ (\A s \in Servers : status[s] # "aborted") =>
    LET query == deliveries[delivered]
        parties == {study.proxy} \cup Partners(study.proxy, query.verticals)
    IN  /\ \A s \in Servers : handlers[s] = NoHandler
        /\ query.valid => \A s \in parties : \A p \in Partners(s, query.verticals) :
                            "payload" \in ToSet(handled[<< p, s >>])
=============================================================================
