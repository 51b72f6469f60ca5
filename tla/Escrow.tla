------------------------------- MODULE Escrow -------------------------------
(***************************************************************************)
(* What a market promises to its bettors and to the vault, whatever its    *)
(* pricing: an escrow of stakes and at most one loan.                      *)
(*                                                                         *)
(*   - stakes are taken in the open phase only, and are held in full       *)
(*     together with the loan until the outcome is settled or voided;      *)
(*   - settling and voiding clear the loan, once;                          *)
(*   - voiding keeps exactly the stakes, for the refunds;                  *)
(*   - nothing is paid before the escrow is settled or voided, and then    *)
(*     only out of what it holds.                                          *)
(***************************************************************************)
EXTENDS Integers

VARIABLES
    phase,  \* "open", "closed", "paying" or "refunding"
    held,   \* tokens in the escrow
    stakes, \* sum of the bets taken
    loan    \* principal the vault has lent and not got back

evars == <<phase, held, stakes, loan>>

Init ==
    /\ phase = "open"
    /\ held = 0 /\ stakes = 0 /\ loan = 0

Stake ==
    /\ phase = "open"
    /\ stakes' > stakes
    /\ held' - held = stakes' - stakes
    /\ UNCHANGED <<phase, loan>>

Lend ==
    /\ phase = "open"
    /\ loan = 0
    /\ loan' > 0
    /\ held' = held + loan'
    /\ UNCHANGED <<phase, stakes>>

Close ==
    /\ phase = "open"
    /\ phase' = "closed"
    /\ UNCHANGED <<held, stakes, loan>>

Settle ==
    /\ phase = "closed"
    /\ phase' = "paying"
    /\ loan' = 0
    /\ held' \in 0 .. held
    /\ UNCHANGED stakes

Void ==
    /\ phase \in {"open", "closed"}
    /\ phase' = "refunding"
    /\ loan' = 0
    /\ held' = stakes
    /\ UNCHANGED stakes

Pay ==
    /\ phase \in {"paying", "refunding"}
    /\ held' \in 0 .. held
    /\ UNCHANGED <<phase, stakes, loan>>

Next == Stake \/ Lend \/ Close \/ Settle \/ Void \/ Pay

Spec == Init /\ [][Next]_evars

=============================================================================
