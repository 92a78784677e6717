----------------------------- MODULE AllRandomness ---------------------------
(***************************************************************************)
(* The patrons and the dealer's houses of all three kinds of query, one at *)
(* a time: those of a regression and of several lookups at once as lists   *)
(* that Dealing runs, those of a moments query as MomentsRandomness.       *)
(***************************************************************************)
EXTENDS RegressionRandomness, LookupRandomness

CONSTANT PayloadLength    \* MomentsInfo::payloadLength

VARIABLES zipAdjacentDispensers, output,  \* of MomentsRandomness
          query                           \* the kind of query

Moments == INSTANCE MomentsRandomness

momentsOnly == << zipAdjacentDispensers, output >>
all == << query, lists, vars, momentsOnly >>

\* What a variable of MomentsRandomness is when Dealing runs.
NoMoments == zipAdjacentDispensers = << >> /\ output = << >>
AllInit ==
  \/ query = "listed" /\ Init /\ NoMoments
  \/ query = "moments" /\ Moments!Init /\ lists = RegressionLists /\ outputs = << >>

\* A step of Dealing, or of MomentsRandomness.
Listed(A) == query = "listed" /\ A /\ UNCHANGED << query, lists, momentsOnly >>
OfMoments(A) == query = "moments" /\ A /\ UNCHANGED << query, lists, outputs >>

AllNext == Listed(Next) \/ OfMoments(Moments!Next)
AllSpec == AllInit /\ [][AllNext]_all

\* What the parents and the event loop see to: a patron that is invoked, and a
\* child of it that completes once all its peers have invoked it.
PatronProceeds(p) ==
  \/ Listed(\/ PatronInit(p)
            \/ \E c \in open[p] : Joined(c, c.peers) /\ PatronHandleComplete(p, c))
  \/ OfMoments(\/ Moments!PatronInit(p)
               \/ \E c \in open[p] :
                    Moments!Met(p, c, c.peers) /\ Moments!PatronHandleComplete(p, c))
BasementProceeds == Listed(BasementInit) \/ OfMoments(Moments!BasementInit)
FairAllSpec ==
  AllSpec /\ WF_all(BasementProceeds) /\ \A p \in Dataowners : WF_all(PatronProceeds(p))

Idle(p) == state[p] = IF query = "listed" THEN 0 ELSE "idle"
Complete(p) == state[p] = IF query = "listed" THEN Done ELSE "complete"

\* A patron that completes hands over dispensers for every slot (none is still
\* the null pointer it was made with) and takes exactly what it had asked for
\* (generateOutputDispenser of all three patrons).
OutputsAreFull == IF query = "listed" THEN OutputIsFull ELSE Moments!OutputIsFull

\* Patrons and dealer together keep the contract their parents rely on: each
\* starts and finishes once, no patron before the dealer has started.
Contract == INSTANCE ChildContract WITH
  Party <- Parties, DealerParty <- Dealer,
  started <- {p \in Dataowners : ~Idle(p)} \cup {p \in {Dealer} : basementState # "idle"},
  finished <- {p \in Dataowners : Complete(p)} \cup {p \in {Dealer} : basementState = "complete"}
KeepsContract == Contract!ContractSpec

\* Every patron completes, even if no house ever closes: no order in which the
\* dealer and the partners answer leaves one waiting.
PatronsComplete == <>(\A p \in Dataowners : Complete(p))
=============================================================================
