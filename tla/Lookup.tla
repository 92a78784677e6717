------------------------------- MODULE Lookup -------------------------------
(***************************************************************************)
(* dataowner::Lookup: the dataowners hold additive shares of a row number  *)
(* and end with XOR shares of that row of a public table.  The dealer has  *)
(* dealt shares of a random r and of the unit vector u with u[r] = 1       *)
(* (dealer::RandomTableLookupInfo::generate).  The dataowners open         *)
(* location - r at one of them, the revealer, which sends it to the rest;  *)
(* each then XORs the rows its share of u selects.                         *)
(*                                                                         *)
(* A row is modelled as a set of bits and XOR as symmetric difference; the *)
(* rows of the table are distinct.                                         *)
(***************************************************************************)
EXTENDS Integers, FiniteSets, FiniteSetsExt

CONSTANTS
  Dataowners,
  Revealer,       \* Lookup::revealer
  TableSize,      \* RandomTableLookupInfo::table_size_
  Modulus,        \* RandomTableLookupInfo::r_modulus_
  Noise           \* the values a random share may take in this instance

ASSUME LookupAssumption ==
  /\ IsFiniteSet(Dataowners) /\ Revealer \in Dataowners
  /\ Dataowners # {Revealer}
  /\ TableSize \in Nat \ {0} /\ Modulus \in Nat /\ 2 * TableSize < Modulus
  /\ Noise \subseteq 0 .. Modulus - 1

Rows == 0 .. TableSize - 1
Others == Dataowners \ {Revealer}

SumAll(f, S) == MapThenSumSet(LAMBDA p : f[p], S)
XorAll(f, S) == FoldSet(LAMBDA p, acc : SymDiff(f[p], acc), {}, S)

\* Shares of x: noise for all but the revealer, who holds what is missing.
Additive(x, noise) ==
  [p \in Dataowners |->
     IF p = Revealer THEN (x - SumAll(noise, Others)) % Modulus ELSE noise[p]]
XorShared(b, noise) ==
  [p \in Dataowners |->
     IF p = Revealer THEN SymDiff(b, XorAll(noise, Others)) ELSE noise[p]]
Opened(f) == SumAll(f, Dataowners) % Modulus

VARIABLES
  location,         \* the row number that is looked up (never computed with)
  locationShare,    \* Lookup::locationShare
  r, u,             \* Lookup::randomTable, the dealer's shares
  compareShare,     \* Compare::outputShare, <<>> until it is known
  bitShare,         \* TypeCastFromBit::outputBitShare, <<>> until it is known
  state,            \* Lookup::state
  numPartiesAwaiting, revealedValue,
  output,           \* Lookup::output_p_value_shares
  wire              \* messages in flight, [from, to, val]

inputs == <<location, locationShare, r, u>>
children == <<compareShare, bitShare>>
local == <<state, numPartiesAwaiting, revealedValue, output>>
vars == <<inputs, children, local, wire>>

NoiseVectors == [Others -> Noise]
BitNoise == [Others -> SUBSET {1}]

Init ==
  /\ location \in Rows
  /\ \E n \in NoiseVectors : locationShare = Additive(location, n)
  /\ \E s \in Rows :
       /\ \E n \in NoiseVectors : r = Additive(s, n)
       /\ \E n \in [Others -> SUBSET Rows] : u = XorShared({s}, n)
  /\ compareShare = <<>>
  /\ bitShare = <<>>
  /\ state = [p \in Dataowners |-> "idle"]
  /\ numPartiesAwaiting = [p \in Dataowners |-> 0]
  /\ revealedValue = [p \in Dataowners |-> 0]
  /\ output = [p \in Dataowners |-> {}]
  /\ wire = {}

-----------------------------------------------------------------------------
\* What Compare(0, location - r) computes: 0 - (location - r) mod p is in the
\* lower half, that is, location <= r.
Distance == (Opened(locationShare) - Opened(r)) % Modulus
NotAbove == 2 * ((0 - Distance) % Modulus) < Modulus

LookupInit(p) ==
  /\ state[p] = "idle"
  /\ state' = [state EXCEPT ![p] = "awaitingCompare"]
  /\ UNCHANGED <<inputs, children, numPartiesAwaiting, revealedValue, output, wire>>

\* Compare and TypeCastFromBit (both of the library) leave shares of their bit,
\* which are drawn when the first dataowner completes.
Drawn(known, fresh) == IF known = <<>> THEN fresh ELSE known

\* handleComplete, case awaitingCompare: invoke the TypeCastFromBit.
CompareDone(p) ==
  /\ state[p] = "awaitingCompare"
  /\ \A q \in Dataowners : state[q] # "idle"
  /\ \E n \in BitNoise :
       compareShare' = Drawn(compareShare, XorShared(IF NotAbove THEN {1} ELSE {}, n))
  /\ state' = [state EXCEPT ![p] = "awaitingTypeCastFromBit"]
  /\ UNCHANGED <<inputs, bitShare, numPartiesAwaiting, revealedValue, output, wire>>

\* Mutants: the comparison's correction is dropped; another dataowner opens the
\* masked bit of the TypeCastFromBit.
UncorrectedIndex(p, bit) == (Modulus + locationShare[p] - r[p]) % Modulus
AnotherRevealer == CHOOSE p \in Dataowners : p # Revealer

\* The share of the index: location - r, one table further if that is negative.
IndexShare(p, bit) ==
  (Modulus + locationShare[p] - r[p] + bit * TableSize) % Modulus

\* The dataowner that opens the masked bit inside the TypeCastFromBit: Lookup
\* passes its own revealer on.
CastRevealer == Revealer

\* That dataowner completes once everybody has sent it their share of the bit,
\* the others once it has sent them the sum.
CastCanComplete(p) ==
  /\ state[p] = "awaitingTypeCastFromBit"
  /\ IF p = CastRevealer
     THEN \A q \in Dataowners : state[q] \notin {"idle", "awaitingCompare"}
     ELSE bitShare # <<>>

\* Mutant: the revealer waits for a share of its own.
CountsItself == Cardinality(Dataowners)

\* The shares the revealer waits for: one from everybody else.
SharesAwaited == Cardinality(Others)

\* handleComplete, case awaitingTypeCastFromBit: sendIndexShare.  The state stays
\* awaitingTypeCastFromBit in the code; "sent" marks that the child is gone.
CastDone(p) ==
  /\ CastCanComplete(p)
  /\ \E n \in NoiseVectors :
       bitShare' = Drawn(bitShare, Additive(IF XorAll(compareShare, Dataowners) = {1}
                                              THEN 1 ELSE 0, n))
  /\ state' = [state EXCEPT ![p] = "sent"]
  /\ IF p # Revealer
     THEN /\ wire' = wire \cup
               {[from |-> p, to |-> Revealer, val |-> IndexShare(p, bitShare'[p])]}
          /\ numPartiesAwaiting' = [numPartiesAwaiting EXCEPT ![p] = 0]
          /\ UNCHANGED revealedValue
     ELSE /\ numPartiesAwaiting' =
               [numPartiesAwaiting EXCEPT ![p] = @ + SharesAwaited]
          /\ revealedValue' =
               [revealedValue EXCEPT ![p] = IndexShare(p, bitShare'[p])]
          /\ UNCHANGED wire
  /\ UNCHANGED <<inputs, compareShare, output>>

\* computeFinalShare: XOR the rows A[val + i] with u[i] = 1, and complete.  Row i
\* of the table is the set {i}, so that the XOR of rows is a set of row numbers.
Selected(bits, val) ==
  XorAll([i \in Rows |-> {(val + i) % TableSize}], bits)
ComputeFinalShare(p, val) ==
  /\ output' = [output EXCEPT ![p] = SymDiff(@, Selected(u[p], val))]
  /\ state' = [state EXCEPT ![p] = "complete"]

\* handleReceive with numPartiesAwaiting = 0, "i.e. if we are not the revealer":
\* the message is taken as the opened value.
ReceiveOpened(p, m) ==
  /\ numPartiesAwaiting[p] = 0
  /\ revealedValue' = [revealedValue EXCEPT ![p] = m.val]
  /\ ComputeFinalShare(p, m.val)
  /\ wire' = wire \ {m}
  /\ UNCHANGED numPartiesAwaiting

\* handleReceive at a dataowner that counts: add the share; after the last one
\* send the sum to everybody else.
ReceiveShare(p, m) ==
  /\ numPartiesAwaiting[p] # 0
  /\ revealedValue' = [revealedValue EXCEPT ![p] = (@ + m.val) % Modulus]
  /\ numPartiesAwaiting' = [numPartiesAwaiting EXCEPT ![p] = @ - 1]
  /\ IF numPartiesAwaiting[p] - 1 = 0
     THEN /\ wire' = (wire \ {m}) \cup
               {[from |-> p, to |-> q, val |-> revealedValue'[p]] : q \in Others}
          /\ ComputeFinalShare(p, revealedValue'[p])
     ELSE /\ wire' = wire \ {m}
          /\ UNCHANGED <<state, output>>

HandleReceive(p, m) ==
  /\ m.to = p
  /\ state[p] # "idle"
  /\ ReceiveOpened(p, m) \/ ReceiveShare(p, m)
  /\ UNCHANGED <<inputs, children>>

AllComplete == \A p \in Dataowners : state[p] = "complete"
Terminated == AllComplete /\ UNCHANGED vars

Next ==
  \/ \E p \in Dataowners : LookupInit(p) \/ CompareDone(p) \/ CastDone(p)
  \/ \E p \in Dataowners : \E m \in wire : HandleReceive(p, m)
  \/ Terminated

Spec == Init /\ [][Next]_vars

\* Every dataowner handles its events and every message arrives.
FairSpec ==
  /\ Spec
  /\ \A p \in Dataowners :
       /\ WF_vars(LookupInit(p)) /\ WF_vars(CompareDone(p)) /\ WF_vars(CastDone(p))
       /\ WF_vars(\E m \in wire : HandleReceive(p, m))

-----------------------------------------------------------------------------
\* The XOR of all outputs is the row that was looked up, for every location, every
\* r and every sharing: the opened index, its wrap around the table, the
\* comparison and the selection by u have to fit together.  The opened index is at
\* most one table long, so that computeFinalShare may cast it down to size_t.
LooksUpTheRow ==
  AllComplete =>
    /\ XorAll(output, Dataowners) = {location}
    /\ \A p \in Dataowners : revealedValue[p] \in 0 .. TableSize

\* Lookup::handleReceive tells the two roles apart by numPartiesAwaiting alone.
\* No share of the index reaches the revealer while its counter is still zero: it
\* would be taken for the opened value.
ShareNeverTakenAsOpened ==
  \A m \in wire : m.to = Revealer /\ state[Revealer] # "idle" =>
    numPartiesAwaiting[Revealer] # 0

\* Every dataowner completes its lookup.
Termination == <>AllComplete

-----------------------------------------------------------------------------
(* The inductive invariant from which LookupProofs derives the above *)

States == {"idle", "awaitingCompare", "awaitingTypeCastFromBit", "sent", "complete"}
Early == {"idle", "awaitingCompare", "awaitingTypeCastFromBit"}

Bit == IF NotAbove THEN 1 ELSE 0
ShareOf == [p \in Dataowners |-> IndexShare(p, bitShare[p])]

\* The dataowners whose share the revealer has not added yet.
Pending == {q \in Others : state[q] \in Early \/ \E m \in wire : m.from = q}

Shape ==
  /\ state \in [Dataowners -> States]
  /\ numPartiesAwaiting \in [Dataowners -> Nat]
  /\ revealedValue \in [Dataowners -> Int]
  /\ DOMAIN output = Dataowners
  /\ wire \subseteq [from : Dataowners, to : Dataowners, val : Int]

\* What was dealt and what the children leave opens to the right values.
DealtInv ==
  /\ location \in Rows
  /\ locationShare \in [Dataowners -> Int] /\ Opened(locationShare) = location
  /\ r \in [Dataowners -> Int] /\ Opened(r) \in Rows
  /\ u \in [Dataowners -> SUBSET Rows] /\ XorAll(u, Dataowners) = {Opened(r)}
BitsInv ==
  /\ compareShare # <<>> => XorAll(compareShare, Dataowners) = IF Bit = 1 THEN {1} ELSE {}
  /\ bitShare # <<>> => bitShare \in [Dataowners -> Int] /\ Opened(bitShare) = Bit
  /\ (\E p \in Dataowners : state[p] \notin {"idle", "awaitingCompare"}) =>
       compareShare # <<>>
  /\ bitShare # <<>> <=> state[Revealer] \in {"sent", "complete"}

\* A message is a share on its way to a revealer that counts, or the opened index on
\* its way to one that waits for it.
WireInv ==
  \A m \in wire :
    \/ /\ m.to = Revealer /\ m.from \in Others /\ m.val = ShareOf[m.from]
       /\ state[m.from] = "sent" /\ state[Revealer] = "sent"
    \/ /\ m.from = Revealer /\ m.to \in Others /\ m.val = revealedValue[Revealer]
       /\ state[m.to] = "sent" /\ state[Revealer] = "complete"

\* The revealer counts and adds each share once.
RevealerInv ==
  /\ state[Revealer] \in Early =>
       numPartiesAwaiting[Revealer] = 0 /\ \A q \in Others : state[q] \in Early
  /\ state[Revealer] = "sent" =>
       /\ Pending # {}
       /\ numPartiesAwaiting[Revealer] = Cardinality(Pending)
       /\ revealedValue[Revealer] = SumAll(ShareOf, Dataowners \ Pending) % Modulus
  /\ state[Revealer] = "complete" =>
       /\ Pending = {}
       /\ numPartiesAwaiting[Revealer] = 0
       /\ revealedValue[Revealer] = Opened(ShareOf)

\* Everybody computes with the value that was opened, once.
OwnerInv ==
  \A p \in Dataowners :
    /\ p # Revealer => numPartiesAwaiting[p] = 0
    /\ output[p] = IF state[p] = "complete" THEN Selected(u[p], revealedValue[p]) ELSE {}
    /\ state[p] = "complete" =>
         state[Revealer] = "complete" /\ revealedValue[p] = revealedValue[Revealer]

Inv == Shape /\ DealtInv /\ BitsInv /\ WireInv /\ RevealerInv /\ OwnerInv
=============================================================================
