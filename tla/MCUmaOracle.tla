---------------------------- MODULE MCUmaOracle ----------------------------
(***************************************************************************)
(* Instances of UmaOracle for TLC.                                         *)
(***************************************************************************)
EXTENDS UmaOracle, TLC

CONSTANTS keeper, rival

\* The score, and what a source reports too early.
TwoResults == {[home |-> 2, away |-> 1, extraTime |-> FALSE],
               [home |-> 1, away |-> 1, extraTime |-> TRUE]}

ByPenalties(pens, when) ==
    [scope |-> "Penalties", homeGoals |-> 1, awayGoals |-> 1, extraTime |-> TRUE,
     penaltiesHome |-> pens, penaltiesAway |-> 0, reportedAt |-> when]

\* A result decided by penalties, one without their number, one from the future.
RivalFacts == {ByPenalties(5, 0), ByPenalties(0, 0), ByPenalties(5, 9)}

AllIds == Markets \X IdForms
AllFacts == RivalFacts \cup {FactsOf(r, t) : r \in TwoResults, t \in 0 .. MaxTime}
TwoOfEach == keeper :> 2 @@ rival :> 1
============================================================================
