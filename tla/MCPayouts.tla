----------------------------- MODULE MCPayouts -----------------------------
(***************************************************************************)
(* A run with markets of different kinds of which one is used: markets     *)
(* share only the vault and the wallets, and the run with two live markets *)
(* covers what they do to each other through those.                        *)
(***************************************************************************)
EXTENDS MCSportsbook

CONSTANTS amm, pari

MixedStrategy  == amm :> "amm" @@ pari :> "parimutuel"
MixedLiquidity == amm :> 10 @@ pari :> 0

VaultUsed == active # {} \/ totalSupply > 0

\* Bound: only one market is used, and the vault only with a market that
\* borrows from it.
OneMarketUsed ==
    /\ \A m, k \in Markets : Used(m) /\ Used(k) => m = k
    /\ VaultUsed => \A m \in Markets \ WithVault : ~Used(m)
===========================================================================
