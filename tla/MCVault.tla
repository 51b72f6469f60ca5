------------------------------ MODULE MCVault ------------------------------
(***************************************************************************)
(* A run of one vault with two markets, and with LPs that come and go.     *)
(***************************************************************************)
EXTENDS MCSportsbook

\* What departs from an open vault of one LP who has deposited once or not at
\* all, the default reserve ratio and one market.
Unusual ==
    {x \in {"paused", "ratio", "flows", "markets"} :
        CASE x = "paused"  -> vaultPaused
          [] x = "ratio"   -> reserveRatio # 1000
          [] x = "flows"   -> totalSupply \notin {0, 100}
          [] x = "markets" -> \A m \in Markets : Used(m)}

\* Bound: one of these at a time.
OneUnusual == Cardinality(Unusual) <= 1
===========================================================================
