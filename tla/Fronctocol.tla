----------------------------- MODULE Fronctocol -----------------------------
(***************************************************************************)
(* The parties of a SAFRN query and the part of the Fortissimo library     *)
(* (ff::, not in this repository) that SAFRN's fronctocols rest on.        *)
(*                                                                         *)
(* A fronctocol runs at several parties under one parent.  Each party      *)
(* invokes its children with a peer set, and the library joins the n-th    *)
(* child that one party declares for a peer set to the n-th child the      *)
(* other parties declare for the SAME peer set.  Nothing else identifies a *)
(* child: neither its type nor its arguments cross the network.  So each   *)
(* party keeps one stream of declarations per peer set, and the streams of *)
(* the parties have to agree.                                              *)
(***************************************************************************)
EXTENDS Naturals, Sequences, FiniteSets

CONSTANTS
  Dataowners,   \* the parties that hold rows of the study
  Dealer,       \* the one party that deals correlated randomness
  Recipients,   \* the parties that learn the result
  Vertical      \* the vertical (column group) of each dataowner

ASSUME PartiesAssumption ==
  /\ IsFiniteSet(Dataowners)
  /\ IsFiniteSet(Recipients)
  /\ Dealer \notin Dataowners

\* A study has data in at least two verticals; a dataowner without a partner
\* in another vertical would wait for ever.
ASSUME VerticalAssumption ==
  /\ Vertical \in [Dataowners -> Nat]
  /\ \A p \in Dataowners : \E q \in Dataowners : Vertical[q] # Vertical[p]

Parties == Dataowners \cup {Dealer}

\* The dataowners of the other verticals, which forEachDataowner with the test
\* other.vertical != self.vertical visits.
Cross(p) == {q \in Dataowners : Vertical[q] # Vertical[p]}

\* The peer sets the fronctocols below use.  With one dataowner in each vertical
\* a pair IS the set of all dataowners, and the streams of both coincide.
Pair(p, q) == {p, q}
DealtPair(p, q) == {p, q, Dealer}
Pairs(p) == {Pair(p, q) : q \in Cross(p)}
DealtPairs(p) == {DealtPair(p, q) : q \in Cross(p)}
PeerSets == {Parties, Dataowners}
              \cup (UNION {Pairs(p) : p \in Dataowners})
              \cup (UNION {DealtPairs(p) : p \in Dataowners})
AllPairs == UNION {Pairs(p) : p \in Dataowners}
AllDealtPairs == UNION {DealtPairs(p) : p \in Dataowners}

Child(kind, peers) == [kind |-> kind, peers |-> peers]
Children(kind, S) == {Child(kind, ps) : ps \in S}

-----------------------------------------------------------------------------
VARIABLES
  declared,   \* declared[p][ps]: the kinds p has declared for ps, in order
  open        \* open[p]: the children p has invoked and that have not completed

NoStream == [ps \in PeerSets |-> <<>>]

\* The streams d after one child of this kind is invoked for each peer set of S.
Declare(d, kind, S) ==
  [ps \in PeerSets |-> IF ps \in S THEN Append(d[ps], kind) ELSE d[ps]]

\* A child c of p has n-th place in its stream and each party of need has
\* declared an n-th child for that peer set: what c is waiting for exists.
Met(p, c, need) ==
  \E n \in 1 .. Len(declared[p][c.peers]) :
    /\ declared[p][c.peers][n] = c.kind
    /\ \A q \in need : Len(declared[q][c.peers]) >= n

\* Two parties never disagree on what the n-th child of a peer set is: the
\* library would feed the messages of one protocol to another.
Matched ==
  \A ps \in PeerSets : \A p, q \in ps :
    \A n \in (1 .. Len(declared[p][ps])) \cap (1 .. Len(declared[q][ps])) :
      declared[p][ps][n] = declared[q][ps][n]
=============================================================================
