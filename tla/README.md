# SAFRN in TLA+

SAFRN is a secure multi-party engine for statistics over vertically partitioned
data: dataowners hold rows of different column groups (*verticals*), a dealer
hands out correlated randomness, and recipients learn the result and nothing
else. This directory models SAFRN 1 (`src/core`): the query fronctocols, what
every party does, message by message and completion by completion, and that the
parties fit together; the layer that brings the servers of a query together; and
the three libraries under `shared/` that have logic of their own, the sockets, the
typed values and the formulas.

Paths below are relative to `src/core/server/src/main/cpp/` unless they start
with `src/`.

## 1. Inventory

| component | state | operations | hard behaviour | what makes it correct |
|---|---|---|---|---|
| `dataowner/Moments` | `state`, `numPartiesAwaiting`, `randomnessDone`, shared lists, sums, dispensers | `init`, `handleReceive` (a partner's list), `handleComplete` (patron, sort, zip, two joint batches) | lists, sorts and randomness arrive in any order and share one counter; children are cast by state | the counter is what is missing; every cast is right; inputs are ready; the result holds every pair |
| `dataowner/MomentsPatron`, `dealer/MomentsHouse` (Basement) | patron state, dispenser slots; `numDealersRemaining` | `init`, `handleComplete`, `generateOutputDispenser` | two files must invoke in the same order; null slots | streams agree; no null slot is handed over; counts are exact |
| `dealer/MomentsHouse` (House) | `numDealersRemaining` | `init`, `handleComplete` | houses finish before their patrons start | completes exactly when the last house does |
| `recipient/MomentsReceiver` | `numDataowners`, `results` | `init`, `handleReceive` | counts messages, not senders | prints only whole results |
| `dataowner/Regression` | as Moments, and about forty members holding shares | 24 states of `handleComplete` | the same races, then twenty batches whose inputs are filled, moved and read in different cases; thirteen dispensers | randomness suffices, nothing is read unset, lockstep |
| `dataowner/RegressionPatron`, `dealer/RegressionHouse` | twelve steps; `numDealersRemaining` set to a literal | as for moments | two paired steps reuse a counter; twelve houses in order; a literal count | streams agree, slots full, counts exact |
| `dataowner/RegressionPayloadCompute`, `RegressionInfo` | packed rows | packing, products in any order, unpacking | closed index formulas in `size_t` | the row is the row of the normal equations |
| `recipient/RegressionReceiver` | `numDataowners`, `results` | `init`, `handleReceive` | as above | as above |
| `dataowner/Lookup`, `dealer/RandomTableLookup` | shares, `numPartiesAwaiting`, `revealedValue` | `init`, `handleReceive`, `handleComplete`, dealer's `generate` | role told from the counter; wrap of the index | the right row, never a share taken for the opened index |
| `dataowner/LookupPatron`, `dealer/LookupHouse` | three steps | as above | order across files | as above |
| `network/*`, `framework/Query*`, `QueryHandler` | connections with their callbacks and buffers, the map `queries`, `messageCache` | delivery, distribution and greeting headers, `initQuery`, messages, completion, end of file, errors | headers in pieces, messages before `init`, both ends closing, two queries with one key | a server starts when it has everybody, loses no message, cuts nobody short, leaves nobody waiting |
| `src/core/shared/.../Util/socket`, `linux_socket` | connections, receive and send buffers, statistics, status | `Listen`, `Connect`, `SendData`, flushes, resets, `Disconnect`; five receive callbacks | partial reads and writes, one buffer for two connections, retries, failures between the steps | nothing lost, doubled or joined wrongly; whole messages; `Listen` stops on its condition |
| `.../Util/data_structures` (`GenericValue`) | a value with its type | comparison, gates, arithmetic, bits, bytes, text | mixed widths and signs, promotion, the end of a type's range | arithmetic modulo the type; order is numeric; representations round-trip |
| `.../Util/data_structures` (formulas) | an expression tree | `ParseExpression`, `GetExpressionString` | a splitter that works from the left on a grammar that nests to the right | what is printed is read back; a formula means what it says |
| `Startup*`, `GlobalInfo`, `MomentsInfo` | configuration | reading files | sizes the parties must agree on | constants here; of start-up, only the payloads are modelled |
| `PeerSet`, `Identity`, `EventWrapper`, JSON, other utilities, client | records, sorted lists | parsing, I/O | little | *not modelled* |
| Fortissimo (`ff::`) | the event loop and the MPC primitives | `invoke`, `send`, `complete` | joins children of different parties by peer set and order | external; see `Fronctocol` |
| `src/safrn0`, scripts, wiki | | | | *not modelled*: superseded prototype, deployment, documentation |

**Interaction.** A query is a tree of *fronctocols*. Each party runs its own root
(`Moments`, `MomentsRandomnessHouse`, `MomentsReceiver`); a fronctocol invokes
children with a peer set, exchanges messages with the same fronctocol at other
parties, and hears of a child in `handleComplete`. The library joins the n-th
child a party declares for a peer set with the n-th child of the other parties
for that set, and nothing else: so the order of `invoke` calls, written in
different files for different parties, *is* the protocol. With one dataowner in
each vertical, `{self, other, dealer}` and the whole party are the same peer set
and the two kinds of children share one stream.

Before that, an analyst delivers the query to a *proxy* server, which distributes it
to the other servers; these greet one another so that every two of them share a
connection, and each starts its root fronctocol when it has all its connections.
`Socket` and the generic values are libraries that the fronctocols do not call.

## 2. Modules

| module | models | composes |
|---|---|---|
| `Fronctocol` | parties, peer sets, declaration streams, joining of children; `Matched` | |
| `FronctocolLemmas` | what holds of parties, peer sets, children and streams in every query | `Fronctocol` |
| `Moments` | the moments query at dataowners, dealer and recipients | `Fronctocol` |
| `MomentsProofs` | the theorems about `Moments` (its invariant, its streams) and about both levels of the query together | `MomentsQuery`, `FronctocolLemmas`, an instance of `MomentsRandomnessProofs` |
| `ChildContract` | abstract: what a parent relies on in a randomness child | |
| `MomentsRandomness` | patron and Basement of moments | `Fronctocol`, implements `ChildContract` |
| `MomentsRandomnessProofs` | the theorems about it | `MomentsRandomness`, `FronctocolLemmas` |
| `MomentsQuery` | the query with its randomness child spelled out | `Moments`, `MomentsRandomness`; implements `Moments` |
| `Dealing` | patrons walking lists of steps, a dealer opening lists of houses, several at once | `Fronctocol`, implements `ChildContract` |
| `RegressionCounts` | the amounts the regression patron asks for | |
| `RegressionRandomness`, `LookupRandomness` | the lists for `Dealing` | |
| `AllRandomness` | the randomness of all three kinds of query side by side | `Dealing` with the lists, `MomentsRandomness`; implements `ChildContract` |
| `DealingProofs` | the theorems about both | `AllRandomness`, an instance of `MomentsRandomnessProofs` |
| `Regression` | the regression query | `Fronctocol`, `RegressionCounts` |
| `RegressionProofs` | the theorems about `Regression`: its invariant and its streams | `Regression`, `FronctocolLemmas` |
| `RegressionPayload` | packing and unpacking of a row | |
| `Lookup` | the table lookup with its share arithmetic | |
| `LookupProofs` | the theorems about `Lookup`; first, sums and XORs over any finite set and the induction they need | `Lookup` |
| `ListSharing` | padding, splitting and exchange of the lists, with the share arithmetic | |
| `AlgorithmsProofs` | the theorems about the sharing of lists and the rows of a regression | `ListSharing`, `RegressionPayload` |
| `Servers` | the connection layer and the life of a query on every server | |
| `StopListening` | the statistics of a socket and the conditions over them | |
| `Socket` | a `Socket` of either role over system calls that fail or do half; when it stops listening is a constant operator, `KeepListening` | `StopListening` |
| `StopConditions` | how the tree of conditions is evaluated: the `KeepListening` of the runs | `Socket` |
| `SocketProofs` | the theorems about `Socket` | `Socket` |
| `DataTypes`, `ValueCodec`, `GenericValues` | the types; bits, bytes and text; the operators | each extends the one before |
| `Expressions` | parsing and printing of formulas | |
| `MCMoments`, `MCMomentsQuery`, `MCRegression`, `MCRandomness` | instances: dataowners `a1 a2` in vertical 0, `b1 b2` in vertical 1 | |
| `MCAlgorithms` | the computations, one at a time | `GenericValues`, `Expressions`, `RegressionPayload`, `ListSharing` |
| `MCServers`, `MCSocket` | instances | |

How state and actions correspond to the code:

* One action is one handler call. `HandleComplete` of `Moments` is the disjunction
  of the handler's branches in the code's order: before the randomness a sort
  (`SortBeforeRandomness`) or the patron (`RandomnessReady`), then the cases of
  the switch. When the patron comes last the code sets the counter to 1 and
  *falls through* to the sort's case; `RandomnessReady` does both at once.
* `numPartiesAwaiting` is not reset by the joint batches, in the code or here.
* A value is its provenance. `powerSums[p]` is the set of partners whose zipped
  list is in the sum; a message to a recipient carries that set, and a recipient's
  `results` is the set of `<<dataowner, partner>>` shares it has added. In
  `Regression` a share is the *name of the member* that holds it: every phase
  lists what its set-up reads, moves out and assigns, what its children fill, and
  how much it draws from each dispenser. `unset` collects reads of members that
  hold nothing.
* `open[p]` are the children p has invoked and that have not completed,
  `declared[p][ps]` the stream of kinds declared for a peer set. A child can
  complete once the parties it waits for have declared their n-th child: the
  dealer for a patron, nobody for a house (it only sends), every peer otherwise.
* `wire` holds messages in flight and they are delivered in any order between
  different senders; Fortissimo runs over connections that neither lose nor
  duplicate, and it holds a message until its fronctocol has been started.
* `Lookup` keeps numbers: shares modulo `Modulus`, XOR as symmetric difference. The
  code's state stays `awaitingTypeCastFromBit` after the index share has been
  sent; the model's `"sent"` marks that the child is gone.
* `RegressionPayload` keeps monomials, so that an index that is off finds the
  wrong monomial; a read outside a vector finds `OutOfBounds`.
* `ListSharing` puts back the numbers that `Moments` and `Regression` leave out of the
  exchange of lists. A dataowner's random numbers come from a generator with a seed, so
  that the instances stay small; `modSub` is the library's and taken to be subtraction
  modulo its argument, larger operands included. The payload of a regression row is in
  `RegressionPayload`; here it is the columns of the row's own variables.
* In `Servers` one action is one libevent callback at one server. A connection has two
  ends, and an end has the callbacks it is set to, the handler they point to, its input
  buffer, and what is still on the way. Headers and messages are cut into units, so
  every callback can find half of one. The three `FronctocolManager`s a server keeps
  for a query are one external manager here: it sends to every partner, finishes when
  it has heard them all and says so.
* In `Socket` one thread calls the object; `pc` is where it is between system calls. What
  `select` reports, how many bytes `recv` and `send` move, and which call fails are
  choices. `link` is the operating system's side of a connection: what the peer has
  still to send, what it has been given, and a record of both for the properties.
  `ShouldKeepListening` calls itself on the parts of a condition. It is in
  `StopConditions` and `Socket` takes it as a constant, so that a theorem about `Socket`
  holds whatever the conditions say.
* `GenericValues` takes two operands and applies any operation to them. The types keep
  their order and the relations of their widths, but are narrow: 2, 3, 5, 10, 15 and 20
  bits stand for 2, 4, 8, 16, 32 and 64, and a byte has 5 bits, since TLC's own
  integers have 32. Everything the code writes as a literal is computed from the
  widths. A DOUBLE counts halves and takes part in comparisons only. `errno` is a
  variable: a range error left by one parse is seen by the next (`string_utils.cpp:826`).
* `Expressions` works on tokens. Its parser is recursive, as the code's is, so nothing is
  proved about it.

## 3. Runs

Each run's `.cfg` gives values to the constants of its module and nothing else.

| run | instance | checks |
|---|---|---|
| `moments_four` | 2 + 2, symmetry | `AwaitsWhatIsMissing`, `DispensersSuffice`, `Lockstep`, `ResultIsWhole`, and `Inv`, which the proofs use |
| `moments_query_pair` | 1 + 1, fair, both levels | `HandedOverWhole`, `BothLevelsMatched`, `ImplementsMoments` (refinement, with its fairness), `Termination` |
| `lookup_three` | three dataowners, 3 rows, modulus 7, fair | `LooksUpTheRow`, `ShareNeverTakenAsOpened`, `Termination` |
| `randomness_pair` | 1 + 1, regression, lookups and moments, fair | `OutputsAreFull`, `Matched`, `BasementCountsHouses` (the literal counts), `KeepsContract`, `PatronsComplete` |
| `regression` | 2 + 1, fair, d = 3 | `Matched`, `AwaitsWhatIsMissing`, `DispensersSuffice`, `NothingReadUnset`, `ResultIsWhole`, `Lockstep`, `Termination` |
| `algorithms` | every operation on boundary operands of every type; trees two operations deep; chains of up to five terms; rows of up to 3 + 3 variables; lists of three dataowners, in any order of arrival | `OutputRuleExceptBySignOfTwo`, `OrderIsNumeric`, `InversesExceptInt2AndPadding`, `GatesOnBits`, `TextRoundTrip`, `ParsesWhatItPrints`, `ChainsReadRightIfInverseLast`, `NormalEquations`, `SortsOpenToBothLists` |
| `socket` | two peers, seven scripts of calls, one fault | `StreamsIntact`, `MessagesAreWhole` |
| `servers` | three servers, one delivery and a second try, one fault | `StartsWithEveryone`, `MessagesInOrder`, `NobodyCutShort`, `NobodyLeftWaiting` |
| `servers_two_queries` | two queries of one analyst | `QueriesKeptApart`, *violated* |
| `socket_retries` | one retry allowed, two failures | `RetriesBounded`, *violated* |
| `socket_stop_condition` | the header's example of a condition, and one with XOR | `StopsOnItsCondition`, *violated* |
| `formulas` | the sums and powers of the header's example | `FormulasMeanWhatTheySay`, *violated* |

**What the violated runs show.**

* `QueryId::operator<` is the conjunction of three comparisons
  (`framework/QueryContext.cpp:20`), so two queries of one study and one analyst are
  one key of `queries`: the second query's connections go to the first one's
  handler. `QueryContext.h` says that the study and the query id identify a
  query.
* `HandleNonBlockingConnect` ignores the verdict of `ComputeConnectSleepTime`
  (`socket.cpp:1728`), and `HandleBindError` compares `num_retries_` with the number of
  *connection* errors, which `bind` never raises (`socket.cpp:2832`): both retry for ever,
  where `socket.h` promises `num_retries_` times. The trace shows the first, and for a
  server the second breaks the property as well.

* `ShouldKeepListening` says whether to go on where a condition says when to stop. It
  exchanges AND and OR accordingly but leaves XOR as it is (`socket.cpp:500`), so an XOR
  stops the loop exactly when it does not hold; the trace shows the first test of the
  loop. The example in `socket.h:972`, `current_connections == 0`, does not work
  either: the limit of none is compared with `>=` (`socket.cpp:591`), and with the XOR
  condition taken out of `DocumentedConditions` the trace shows a loop that ends while
  two connections are open. `socket.h:970` promises "arbitrary expressions".
* `ParseExpression` splits a formula at `^` before it looks for a coefficient
  (`data_structures.cpp:5638`) and reads `2x^2` as `(2x)^2`, which the example above
  `Expression` (`data_structures.h:1506`) reads as 2 times `x^2`.

**Where code and header differ on some inputs only**, the `algorithms` run checks an
equivalence: the promise is kept exactly outside the inputs named, and broken on every one of
them.

* `OutputRuleExceptBySignOfTwo`: `data_structures.h:1856` gives a result the sign "unsigned
  iff both inputs are unsigned", and 1919 says that overflow "is not an error". The
  code tests the sign of `two` twice (`data_structures.cpp:3781`, 3874, 3953 and the smaller
  widths alike), so a signed value before an unsigned one gives an unsigned result; and with 64
  bits a negative first operand makes the operation fail (3824).
* `InversesExceptInt2AndPadding`: `data_structures.h:1795` calls the two byte-string
  functions inverses. A negative INT2 is written as `00000010` or `00000011`
  (`data_structures.cpp:1421`) and read as `11111110` or `11111111` (2497); a string shorter than
  its type is written with its padding (1337), against `data_structures.h:1736`.
* `TextRoundTrip`: the extreme 64-bit numbers are refused exactly after an overflow
  anywhere before (`string_utils.cpp:826`).
* `ChainsReadRightIfInverseLast`: `ParseExpression` nests chains to the right and toggles a
  flag at every subtraction or division, so that the second one undoes the first
  (`data_structures.cpp:5547`): `a-b-c-d` is read as `a-(b+(c-d))`. A chain is read right
  exactly when nothing before its last two operators is a minus or a division.

Quirks that the models reproduce and that no promise in the repository contradicts: the
text of ABS, NEQ, SQRT and MODULUS cannot be parsed back; `x^y^2` is refused; the
comparison of two strings in `MergeComparison` compares the first with itself;
`ParseIfInteger` bounds the 32-bit types by `LONG_MAX` and so truncates.
`ParsesWhatItPrints` is about what the parser accepts.

**Bounds.** The races of a dataowner need two partners (a counter that goes from 2
to 1 to 0): two dataowners in each vertical for moments, three in all for a regression,
whose liveness is checked as well. Streams coincide only with one dataowner in each
vertical, so the patrons and houses, and the composed moments query, run there; that a
regression's streams agree with two dataowners too, and that patrons with several partners
keep what `randomness_pair` checks, is proved for every number of them (`MatchedHolds`,
`OutputsCorrect`, `BasementCorrect`, `ContractKept`; only `PatronsComplete` is not).
Symmetry (dataowners of one vertical are interchangeable) is used in `moments_four` only,
for invariants. `PayloadLength` 2 or 3 distinguishes payloadLength gets from
payloadLength - 1. In `Regression`, two variables in one vertical and one in the
other, lists of four rows, and tables of two and three rows make every phase
non-empty and the counts differ from each other. `Lookup` needs
2 * TableSize < Modulus, as in the code, where the modulus is a large prime.
`Servers` needs
three servers, so that one that is not the proxy greets another; `MaxFaults` is the
number of connections that fail or come from strangers, and one is enough for a
delivery to be repeated. In `Socket` a byte has three values and a length one or two
bytes, messages have at most one: every header and every message can be cut at every
place, in both byte orders, and `size_t` and the sleep time wrap within reach. `Scripts`
bounds what the caller does, not in which states it does it. Operands of
`GenericValues` are the ends of each type's range and the numbers next to them and to 0.
`ListSharing` has two dataowners of one vertical around one of the other, so that a
partner's place differs from its place of arrival; files shorter and longer than the
list (rows beyond `maxListSize` are not shared, as in the code); and startModulus above
keyModulus. `generateGlobals` has exactly two verticals, and so has `ListSharing`.

**Fairness.** Weak fairness on the handlers of every process (on each handler, in `Moments`
and `Lookup`): a process keeps serving events, every message arrives (TCP, no crash handling exists in the code: a lost party ends the
query), and a child completes once all its peers have invoked it. Completing
earlier is allowed and never assumed. `MomentsQuery` assumes nothing about the
Randomness child itself: that it completes is shown.
`Servers` needs no fairness: every callback uses something up, so each behaviour ends,
and `NobodyLeftWaiting` is about the states in which nothing more can happen. For this
reason, and because a caller's script and a computation end, `Servers`, `Socket` and
`MCAlgorithms` are run without the deadlock check.

Every passing property has a mutant: an operator just before the one it changes,
marked `Mutant`, with the bug it stands for.

## 4. What is proved

Everything below holds for any finite set of dataowners, any verticals in which
everyone has a partner, any recipients, and any payload length, number of variables
and number of table rows; what is said of `Lookup` for any table, any modulus more than
twice its size, and any shares; of `ListSharing` for any files, seeds, sizes and moduli; of
`Socket` for any descriptors, streams, payloads, scripts, limits, stop conditions and any
number of failing calls.

| module | theorem | says |
|---|---|---|
| `MomentsProofs` | `InvHolds` | `Spec => []Inv` |
| | `TypeCorrect` | `TypeOK`: no counter wraps |
| | `CounterCorrect` | `AwaitsWhatIsMissing` |
| | `CastsCorrect` | `ChildrenMatchState` |
| | `InputsCorrect` | `InputsReady` |
| | `RandomnessSuffices` | `DispensersSuffice` |
| | `ResultCorrect` | `ResultIsWhole` |
| | `CompletionCorrect` | `CompleteLeavesNothing` |
| | `StreamsHold` | `StreamInv`: the streams of every party, phase by phase |
| | `MatchedHolds` | `Matched` |
| | `LockstepHolds` | `Lockstep` |
| | `QueryIsMoments` | the query with its randomness child spelled out implements `Moments` (safety) |
| | `QueryRunsRandomness` | ... and, seen from the child, `MomentsRandomness` |
| | `HandoverCorrect` | `HandedOverWhole` |
| | `BothLevelsCorrect` | `BothLevelsMatched` |
| `MomentsRandomnessProofs` | `InvHolds` | `Inv` of `MomentsRandomness` |
| | `OutputCorrect` | `OutputIsFull` |
| | `BasementCorrect` | `BasementCountsHouses` |
| | `MatchedHolds` | `Matched` |
| | `KeepsContract` | patrons and Basement implement `ChildContract` |
| `RegressionProofs` | `InvHolds` | `Inv` of `Regression` |
| | `TypeCorrect` | `TypeOK`: no counter wraps |
| | `CounterCorrect` | `AwaitsWhatIsMissing` |
| | `RandomnessSuffices` | `DispensersSuffice` |
| | `SharesCorrect` | `NothingReadUnset` |
| | `ResultCorrect` | `ResultIsWhole` |
| | `StreamsHold` | `StreamInv` |
| | `MatchedHolds` | `Matched` |
| | `LockstepHolds` | `Lockstep` |
| `DealingProofs` | `DealtListsAgree` | the lists of a regression and of any number of lookups agree |
| | `InvHolds` | `Inv` of `Dealing`, for lists that agree |
| | `AllInvHolds` | the invariant of whichever kind of query runs |
| | `OutputsCorrect` | `OutputsAreFull` |
| | `BasementCorrect` | `BasementCountsHouses` |
| | `MatchedHolds` | `Matched` |
| | `ContractKept` | `KeepsContract`: all three implement `ChildContract` |
| `LookupProofs` | `InvHolds` | `Inv` of `Lookup` |
| | `RowCorrect` | `LooksUpTheRow` |
| | `SharesKeptApart` | `ShareNeverTakenAsOpened` |
| `AlgorithmsProofs` | `SharingInvHolds` | `SharingInv` of `ListSharing` |
| | `SharedListsOpen` | `SortsOpenToBothLists` |
| | `PayloadInvHolds` | `PayloadInv` of `RegressionPayload` |
| | `NormalEquationsHold` | `NormalEquations` |
| `SocketProofs` | `SocketInvHolds` | `SocketInv` of `Socket`, and `ScanOK` |
| | `SocketStreamsIntact` | `StreamsIntact` |

Assumptions: `PartiesAssumption` (finite sets, the dealer is not a dataowner),
`VerticalAssumption` (a vertical for each dataowner, a partner for each; without one
`numCrossParties` is 0 and `Moments` waits for ever), `PayloadAssumption`
(`payloadLength` is at least 1), `CountsAssumption` (batches and tables are not empty),
`ListsAssumption` (the types of the lists), `LookupAssumption` (someone besides the
revealer; the modulus is more than two tables, which the comparison needs). Those of
`ListSharing` are `OwnersAssumption` (two verticals, as `generateGlobals` has it; how many
dataowners each has is free), `SharingAssumption` (sizes and moduli are positive) and
`DataAssumption` (files hold integers, generators return naturals; that a power of an
integer is one is said there because the provers do not know exponentiation). Those of `Socket` are
`SocketAssumption` (there is a descriptor; limits are positive) and `BytesAssumption` (what
is sent, by the peer or the caller, are bytes); of `KeepListening` nothing is assumed.
TLC evaluates all of them in the runs. The
theorems of `DealingProofs` about `Spec` and `AllSpec` have one hypothesis, that every
pair of lists in `Lists` *agrees* (`Agree`): the houses are opened in the order in which
the patron asks for them, and the literal counts those of the whole party.
`DealtListsAgree` proves it of the lists the code has; it is the one place
where the order of twelve `case`s and that of twelve `invoke`s are compared.

`TypeOK`, `ChildrenMatchState`, `InputsReady` and `CompleteLeavesNothing` of `Moments` are
parts or consequences of `Inv` and not listed in a run of their own. The inductive
invariants of the other modules and both `StreamInv`s were checked with TLC on the
instances of the runs before they were proved.

**A query (`MomentsProofs`, `RegressionProofs`).** None of the properties is inductive.
Whether a completing sort may start the zips depends on the counter, which depends on
what is open, which depends on which lists came and whether the patron has. `Inv` says
that a dataowner is always in one of its *phases* (`Idle`, `Collecting`, `Sorting`,
`Zipping`, then `Lifting`, `Dividing` for moments, `Reducing` and `InBatch(k)` for the
twenty joint batches of a regression, and `Completed`), each of which fixes *all* of its
variables from three facts: what has arrived, what is sorted, and whether the
randomness is there. In `Collecting` and `Sorting` the state name depends on
`randomnessDone`, which is how the code remembers the race. `WireInv` says that a list
share is in flight only if it has not been received, so no partner is counted twice;
`HouseInv` that the dealer counts its open houses; `ReceiverInv` that a dataowner's share
of the result is either in flight, or added, or not sent, never two of these, and that
the counter is the number of dataowners not yet heard.

For a regression two tables carry the batches: `Spent(k)` is what the first k batches
have drawn from each dispenser, as a polynomial in the number of variables and table
rows, and `Held[k]` names the members that are filled while batch k runs and that a
later case still reads. That each of the twenty batches leads from one row to the next
are the lemmas `SpentAdds`, `NextLeft` and `SharesFlow`; that the last row of `Spent` is
what `RegressionRandomnessPatron` has asked for is arithmetic over its twelve counts
(`CountsSuffice`).

The proofs have one lemma for each action (`NextInv` combines them), and under it a
step for each phase the action can start from. The counting facts (removing one
partner lowers the cardinality by one, children correspond one to one to partners,
since p's peer sets differ for different partners) are in `FronctocolLemmas`.

**Streams (the second parts of `MomentsProofs` and of `RegressionProofs`).** `Matched`
compares two parties that may be phases apart. `StreamInv` says that what a party has
declared for a peer set it belongs to is fixed by its own phase alone, and is a prefix
of one sequence that does not depend on the party: p's children for
`{p, q}` are q's, seen from the other end. `Lockstep` is part of it: a joint batch
completes only when every dataowner has declared it (`Met`), and who has declared how
many can be read off the length of its stream.

**Patrons and dealers (`MomentsRandomnessProofs`, `DealingProofs`).** A patron at step k
has filled the slots of the steps before it, and at its own step exactly those partners
for which no child is open; the counter is the number of the others. Its
streams are those of the first k steps. In `Dealing` several lookups may use one peer
set, so a child carries its *place* in the stream; `PlacesDiffer` shows that no two
steps get the same place for one peer set, hence that a completing child belongs to
the step the patron is at, and that the dealer's houses are as many as
`numDealersRemaining` was set to (`HousesCount`).

**Composition and refinement (the third part of `MomentsProofs`).** It instantiates the proofs about
`MomentsRandomness` with the patrons' variables of the query. Each step of the query
is a step of `Moments`, or of the child alone, and vice versa (`OuterStep`, `InnerStep`);
both invariants then hold at once, and `HandedOverWhole` follows from an invariant that
ties `randomnessDone` to the patron's completion. The refinements of `ChildContract`
take one step per action: it starts a party, finishes one that had started (after the
dealer, because a patron's first child waits for it), or stutters.

**The table lookup (`LookupProofs`).** Two arguments meet. The first is
about messages: `WireInv` says that a message is either a share for a revealer that is
counting or the opened index for a dataowner that waits, and `RevealerInv` that the
revealer's counter and its running sum belong to one set of dataowners, `Pending`.
It rests on the TypeCastFromBit having the same revealer: nobody else can
complete it before the revealer has set its counter. The second is about numbers. The
shares that `sendIndexShare` reduces add up to `location - r`, plus one table if Compare
said `location <= r`; opened, this is between 1 and `TableSize` (`IndexOpens`), and from
`r` it leads to `location`. XORing rows is linear in the bits that select them
(`XorOfXors`), so the outputs XOR to what the unit vector selects, one row.

The sums and XORs are folds over sets of any size. The first part of the module shows that the recursive
function inside a fold exists, that the order of a fold does not matter, and what
adding or removing a member does. Induction over the size of a set is done with sets: a
non-empty set of naturals has a least member (`WFMin`), so a set with 0 and all
successors is all of `Nat`; no induction theorem with an operator parameter is needed.

**The sharing of lists (`AlgorithmsProofs`, first part).** What a sort gets was put together
by three steps of two dataowners: p's own constructor fills one half of a list, q's sends
p the noise it drew for p, and p's `handleReceive` puts that in the other half, before or after
anything from p's other partners. `SharingInv` fixes each piece from the seeds alone:
`ListInPlace` says that p's list for q holds, in p's half, p's rows less p's noise for q, and in the
other half, once q's share is in, q's noise for p; `MessagesAreNoise` says the same of a
share in flight; `Progress` that the counter is the number of partners of
whom the share is `Missing`, so that no sort starts on a list with an empty half.
`IndexLemma` shows that `indexOfCrossParties` numbers the partners without gaps
or collisions, `DrawBound` that a draw stays within those the generator makes, and
`SharesOpen` that noise drawn below one modulus and subtracted in another still cancels.

**The rows of a regression (`AlgorithmsProofs`, second part).** `UpperTriangle` appends the rows of a
triangle in a loop, here a recursive function. `BeforeExists` shows that the recursion has
a solution, `TriangleLemma` that cell (i, j) is where the closed formula of the code
looks for it, by induction over sets of numbers as for the folds; `OtherRowLemma` and
`DVRowLemma` then place each monomial of the two rows, and `PayloadLengthLemma` shows that
padding to `payloadLength` cuts none off. `PayloadInv` is needed because the products across
the verticals come in any order: each is zero or already the right one. `AccessLemma`
puts `accessMatrixShare`'s three cases together, on both sides of the diagonal.

**Socket (`SocketProofs`).** `StreamsIntact` is not inductive. During a flush the send buffer
still holds what has been sent: what is `Pending` is then `left`, not the buffer, and that
is of use only while `call.to` has an entry (`FlushOK`). A client that fails to close
its socket empties the send buffers and keeps the connection: the step is right because
a client's connections are all on its one descriptor (`ClientOK`). That accepting is a
server's and connecting a client's affair, and that a client which resumes a call after Connect
has its connection, is a matter of where the thread is (`PlacesOK`). The iterator of
`HandleSelectEvents`, which survives `RemoveConnection`, has to point into the list when bytes
are received (`ScanOK`). A new connection finds empty buffers or is marked stale (`Opens`). The arithmetic is
about sequences: moving bytes from the front of one to the end of the one before it
leaves their concatenation as it was (`MoveToTheLeft`, `MoveInTheMiddle`). There is a lemma
per action that moves bytes, and one per group of actions.

**Only model-checked.**

* Liveness and ENABLED are out of the prover's reach: `Termination`, `PatronsComplete`, the
  fairness of `ImplementsMoments` (its safety part is `QueryIsMoments`).
* `ParsesWhatItPrints` and `ChainsReadRightIfInverseLast` are about recursive operators on
  trees, which the provers cannot unfold.
* The five properties of `GenericValues` are about numbers modulo 2^w: the provers know neither that
  2^n is positive nor that 2^(n + 1) is twice 2^n, and the codecs recurse over digits.
* `MessagesAreWhole` compares a buffer with what `FlattenSeq` makes of the first i
  messages, for which one would need induction over sequences of messages.
* The four properties of `Servers`: `StartsWithEveryone` holds for the orders of delivery
  and the studies of the instances and is a statement about these; `MessagesInOrder`,
  `NobodyCutShort` and `NobodyLeftWaiting` are about messages folded into the callbacks' states
  and, the last, about where a behaviour may end.

## 5. Not modelled

* Of the connection layer: `TestManager`, `writeEventHandler` (never registered), and the
  exception of `peers.at` for an analyst nobody knows. The layer is commented out of
  `server`'s CMakeLists (lines 18-25) and no longer fits `Query.h`; the running server
  uses `ff::posixnet`. It is modelled as it stands, but for who owns the memory: after
  `condFinishEvent` has erased a query, `readEventHandler` still touches the freed
  `EventHandler` (`network/EventHandler.cpp:175`), and a second connection from a peer
  frees a bufferevent twice (`network/NewConnectionHandler.cpp:88`).
* Of `Socket`: the timers, the COOKIE type, host names, `windows_socket`. `StreamsIntact`
  says nothing of a descriptor that was closed and given to another peer, nor of a
  flush that failed half-way, where the code itself gives up. Only `socket_utils` uses it.
* Of the values: arithmetic on DOUBLE, the evaluation of a formula, the lexing of numbers
  and names. `StripExtraneousParentheses` also strips parentheses that do not match, as
  its header warns. Nothing else in the repository calls these functions.
* Start-up (but for `setupMoments`' payloads), JSON, printing, logging, files; the client.
* The abort path: nothing sets `Moments::abortFlag`; `Regression`'s constructor sets its
  own but `init` does not look at it (see the hazards).
* The values of shares in `Moments` and `Regression` after the exchange of the lists: that the arithmetic of
  Fortissimo's primitives is right is the library's affair.
* Lost or duplicated messages and crashes among fronctocols: the code has no retry,
  timeout or recovery; a failed party ends the query.

## 6. Plan

Done: `Fronctocol`, `Moments`, `MomentsRandomness`, `MomentsQuery`, `Dealing` and its lists,
`Regression`, `Lookup`, `ListSharing` and `RegressionPayload`, all with proofs of the safety
properties their runs check; `Socket`, with a proof that its streams are intact; `Servers`,
the generic values and the formulas.

Next, in this order:

1. Proofs: `MessagesInOrder` of `Servers`, from an invariant over the two ends of one
   connection.
2. The abort path of `Regression` and the start-up checks: which sizes (list length,
   table rows) each dataowner takes from its own files and what happens when they differ.
3. `RandomSquareMatrix` and the blinded inverse of the regression.
4. `PeerSet`: its sorted list against plain sets, and its serialisation.
