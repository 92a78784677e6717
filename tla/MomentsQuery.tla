---------------------------- MODULE MomentsQuery ----------------------------
(***************************************************************************)
(* A moments query with the child that Moments takes for granted put back: *)
(* the Randomness child of a dataowner IS a MomentsRandomnessPatron, and   *)
(* that of the dealer's house IS the MomentsRandomnessBasement.  Such a    *)
(* child starts after its parent has invoked it and the parent hears of it *)
(* when it has completed; the patrons and the Basement have streams and    *)
(* children of their own.                                                  *)
(*                                                                         *)
(* Moments is the abstract specification here: there the child completes   *)
(* as soon as the dealer has invoked its part.                             *)
(***************************************************************************)
EXTENDS Moments

VARIABLES
  innerDeclared, innerOpen,      \* the streams and children one level down
  patronState, patronAwaiting, dispensers, zipAdjacentDispensers, output,
  basementState, basementRemaining

inner == <<innerDeclared, innerOpen, patronState, patronAwaiting, dispensers,
           zipAdjacentDispensers, output, basementState, basementRemaining>>

Randomness == INSTANCE MomentsRandomness WITH
  declared <- innerDeclared, open <- innerOpen, state <- patronState,
  numPartiesAwaiting <- patronAwaiting, numDealersRemaining <- basementRemaining

QueryInit == Init /\ Randomness!Init

\* Mutant: the Basement is started only when every dataowner's patron runs.
BasementWaits ==
  /\ Patron \in open[Dealer]
  /\ \A p \in Dataowners : patronState[p] = "complete"
  /\ Randomness!BasementInit
  /\ UNCHANGED vars

\* The children's own steps.  A child's init runs once its parent has invoked it.
StartPatron(p) ==
  /\ Patron \in open[p]
  /\ Randomness!PatronInit(p)
  /\ UNCHANGED vars
StartBasement ==
  /\ Patron \in open[Dealer]
  /\ Randomness!BasementInit
  /\ UNCHANGED vars
PatronStep(p, c) == Randomness!PatronHandleComplete(p, c) /\ UNCHANGED vars
BasementStep(c) == Randomness!BasementHandleComplete(c) /\ UNCHANGED vars

\* Mutant: the parent takes over the dispensers while the patron is still at it.
PatronReportsEarly(p, c) ==
  /\ c = Patron => patronState[p] # "idle"
  /\ HandleComplete(p, c)
  /\ UNCHANGED inner

\* The parents' steps, as in Moments, but that a Randomness child completes when
\* the patron, or the Basement, has.
OwnerStep(p, c) ==
  /\ c = Patron => patronState[p] = "complete"
  /\ HandleComplete(p, c)
  /\ UNCHANGED inner
HouseStep(c) ==
  /\ c = Patron => basementState = "complete"
  /\ HouseHandleComplete(c)
  /\ UNCHANGED inner

Outer(A) == A /\ UNCHANGED inner

QueryNext ==
  \/ \E p \in Dataowners : Outer(MomentsInit(p)) \/ StartPatron(p)
  \/ \E p, q \in Dataowners : Outer(HandleReceive(p, q))
  \/ \E p \in Dataowners : \E c \in innerOpen[p] : PatronStep(p, c)
  \/ \E p \in Dataowners : \E c \in open[p] :
       OwnerStep(p, c) \/ Outer(DivisionDone(p, c))
  \/ Outer(HouseInit)
  \/ StartBasement
  \/ \E c \in innerOpen[Dealer] : BasementStep(c)
  \/ \E c \in open[Dealer] : HouseStep(c)
  \/ \E r \in Recipients : Outer(ReceiverInit(r))
  \/ \E r \in Recipients : \E m \in resultWire : Outer(ReceiverHandleReceive(r, m))
  \/ Terminated /\ UNCHANGED inner

allVars == <<vars, inner>>

QuerySpec == QueryInit /\ [][QueryNext]_allVars

\* As in Moments; a child of the library completes once all its peers have invoked
\* it, and of a Randomness child nothing is assumed.
QueryFairness ==
  /\ \A p \in Dataowners :
       /\ WF_allVars(Outer(MomentsInit(p)))
       /\ WF_allVars(StartPatron(p))
       /\ \A q \in Dataowners : WF_allVars(Outer(HandleReceive(p, q)))
       /\ WF_allVars(\E c \in innerOpen[p] :
                       Randomness!Met(p, c, c.peers) /\ PatronStep(p, c))
       /\ WF_allVars(\E c \in open[p] : Met(p, c, c.peers) /\ OwnerStep(p, c))
       /\ WF_allVars(\E c \in open[p] :
                       Met(p, c, c.peers) /\ Outer(DivisionDone(p, c)))
  /\ WF_allVars(Outer(HouseInit))
  /\ WF_allVars(StartBasement)
  /\ WF_allVars(\E c \in innerOpen[Dealer] :
                  Randomness!Met(Dealer, c, c.peers) /\ BasementStep(c))
  /\ WF_allVars(\E c \in open[Dealer] : Met(Dealer, c, c.peers) /\ HouseStep(c))
  /\ \A r \in Recipients :
       /\ WF_allVars(Outer(ReceiverInit(r)))
       /\ WF_allVars(\E m \in resultWire : Outer(ReceiverHandleReceive(r, m)))

FairQuerySpec == QuerySpec /\ QueryFairness

-----------------------------------------------------------------------------
\* The query implements Moments with its fairness: taking the patron and the
\* Basement for one child that needs only the dealer, and that does complete, is
\* sound.
ImplementsMoments == FairSpec

\* What the parent believes it was given (Moments::DealtRandomness) is what the
\* patron had put into its dispenser before the parent read it.
HandedOverWhole ==
  \A p \in Dataowners : randomnessDone[p] =>
    patronState[p] = "complete" /\ output[p] = DealtRandomness

\* Neither the streams of the query nor those of its randomness child get out
\* of step: no two parties disagree on what the n-th child of a peer set is.
BothLevelsMatched == Matched /\ Randomness!Matched
=============================================================================
