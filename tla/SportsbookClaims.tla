-------------------------- MODULE SportsbookClaims --------------------------
(***************************************************************************)
(* A statement of the repository's comments about the contracts that the   *)
(* code does not satisfy: the property of a run that ends in a             *)
(* counterexample.                                                         *)
(***************************************************************************)
EXTENDS Sportsbook

\* "When a loss exceeds the limit, the excess is deducted from the reserve"
\* of settleWithReserve: the reserve pays at most the loss.  The excess is
\* deducted, and then _handleLoss deducts the whole loss once more.
ReservePaysLossOnce ==
    [][losses' # losses => reserve - reserve' <= losses' - losses]_vars

=============================================================================
