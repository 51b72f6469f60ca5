----------------------------- MODULE MCRewards -----------------------------
(***************************************************************************)
(* Instances of Rewards for TLC.                                           *)
(***************************************************************************)
EXTENDS Rewards

CONSTANTS u1, u2

Item(u, n) == [user |-> u, amount |-> n]
Report(r, o, q) == [referrals |-> r, orders |-> o, quests |-> q]

\* Week 0: u1 has earned 4, and an order of u2 that is indexed late gives her 2;
\* week 1 has no rewards at first.
TwoWeeks ==
    0 :> <<Report(<<Item(u1, 1), Item(u1, 3)>>, <<Item(u2, 1000)>>, <<>>),
           Report(<<Item(u1, 1), Item(u1, 3)>>, <<Item(u2, 1000), Item(u2, 1000)>>, <<>>)>>
    @@ 1 :> <<Report(<<>>, <<>>, <<>>), Report(<<>>, <<>>, <<Item(u2, 2)>>)>>

\* Roots whose leaves are those of the contract.
ByHand == {{<<u1, 0, 4>>, <<u2, 0, 2>>, <<u1, 1, 4>>}}

(***************************************************************************)
(* Constraint: the programs, or claims under a changing contract, and not  *)
(* both at once.  No fair action leaves it.                                *)
(***************************************************************************)
BackendAtRest ==
    /\ \A w \in Weeks : index[w] = 1 /\ db[w] = {}
    /\ \A p \in Programs : run[p] = Idle
    /\ mempool = {} /\ toolRuns = 0 /\ faults = 0

ContractPlain ==
    /\ ~paused /\ vesting.enabled /\ vesting.duration = VestingPeriod
    /\ isPublisher \subseteq {KeeperKey}
    /\ funds = 0
    /\ \A w \in Weeks : weekly[w].merkleRoot \notin HandRoots

Focus == BackendAtRest \/ ContractPlain
============================================================================
