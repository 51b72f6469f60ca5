--------------------------- MODULE MCKeeperChain ---------------------------
(***************************************************************************)
(* Instances of KeeperChain for TLC.                                       *)
(***************************************************************************)
EXTENDS KeeperChain, TLC

CONSTANTS m1, m2

\* Two markets that start and end together.
SameLockTime == [m \in Markets |-> 1]
SameEnd == [m \in Markets |-> 1]

\* What handleMarketCreated of the subgraph writes: matchEndTime = null.
EndsUnknown == [m \in Markets |-> Null]
===========================================================================
