--------------------------- MODULE MCSportsbook ---------------------------
(* Constants of the model-checking runs of Sportsbook. *)
EXTENDS SportsbookClaims, Mappers, TLC

Amm        == [m \in Markets |-> "amm"]
TenEach    == [m \in Markets |-> 10]

\* An LP can fund a vault that lends 10 to a market; bettors have little.
Purses3 == [a \in Accounts |-> IF a \in LPs THEN 100 ELSE 3]
Purses60 == [a \in Accounts |-> IF a \in LPs THEN 60 ELSE 30]
Purses100 == [a \in Accounts |-> IF a \in LPs THEN 100 ELSE IF a = Treasury THEN 4 ELSE 6]

\* Outcomes are counted from 1 here, from 0 in the mappers.
Renumbered(r) == [o \in {x + 1 : x \in DOMAIN r} |-> r[o - 1]]

\* The home team gives three quarters of a goal and wins by two, by one or not
\* at all: a winner, a half win, and an outcome that two outcomes do not have;
\* and what no mapper answers, weights above 100%.
HandicapResults ==
    {Renumbered(AH_Mapper(-750, home, 0)) : home \in 0 .. 2} \union {1 :> 10000 @@ 2 :> 1}

\* Three goals or two, over and under 2.5.
TotalsResults == {Renumbered(OU_Mapper(2500, home, 1)) : home \in 1 .. 2}

\* Something has been done to market m.
Used(m) ==
    \/ status[m] # "Open"
    \/ kickedOff[m] \/ marketPaused[m]
    \/ totalLiquidity[m] # InitialLiquidity[m]
    \/ m \in active

\* The constants treat users, and in MCVault markets, alike.
UserSymmetry == Permutations(Users)
MarketSymmetry == Permutations(Markets)
===========================================================================
