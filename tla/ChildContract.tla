---------------------------- MODULE ChildContract ----------------------------
(***************************************************************************)
(* What a parent fronctocol relies on when it invokes a randomness child   *)
(* at several parties: each party starts its part once; the dealer's part  *)
(* may finish at any time after that; the part of any other party finishes *)
(* at most once, and only after the dealer has started dealing.            *)
(***************************************************************************)
CONSTANTS Party, DealerParty

VARIABLES started, finished   \* the parties that have started, finished

ContractInit == started = {} /\ finished = {}

Start(p) ==
  /\ p \notin started
  /\ started' = started \cup {p}
  /\ UNCHANGED finished

Finish(p) ==
  /\ p \in started \ finished
  /\ p # DealerParty => DealerParty \in started
  /\ finished' = finished \cup {p}
  /\ UNCHANGED started

ContractNext == \E p \in Party : Start(p) \/ Finish(p)

ContractSpec == ContractInit /\ [][ContractNext]_<<started, finished>>
=============================================================================
