------------------------------- MODULE Params -------------------------------
(***************************************************************************)
(* The parameters of the platform and the delay before they change         *)
(* (contracts/src/governance: ParamController.sol, RangeValidator.sol).    *)
(*                                                                         *)
(* A validator is the RangeValidator or none.  Who holds the roles is      *)
(* left out: every call that some role may make may come at any time.      *)
(***************************************************************************)
EXTENDS Integers, Sequences

CONSTANTS
    Keys,
    Values,         \* values that callers pass
    Ranges,         \* <<min, max>> that the owner of the validator passes
    DefaultRange,   \* ParamKeys.getValidRange
    Delays,         \* delays that the administrator passes
    MinDelay,       \* MIN_TIMELOCK_DELAY, in units of the clock
    MaxDelay,       \* MAX_TIMELOCK_DELAY
    MaxProposals,   \* bound on proposalCount
    MaxClock        \* bound on the clock

ASSUME ParamsAssumption ==
    /\ Values \subseteq Nat
    /\ Ranges \subseteq Nat \X Nat
    /\ DefaultRange \in [Keys -> Nat \X Nat]
    /\ Delays \subseteq Nat
    /\ MinDelay \in Nat /\ MaxDelay \in Nat /\ MinDelay <= MaxDelay

VARIABLES
    clock,              \* block.timestamp
    params,
    isParamRegistered,  \* the registered keys
    validators,         \* the keys that have the RangeValidator
    customRange,
    proposals,
    timelockDelay,
    changesPaused       \* ParamController.paused()

paramsVars == <<clock, params, isParamRegistered, validators, customRange, proposals,
                timelockDelay, changesPaused>>

NoRange == <<>>

\* proposedAt is the timestamp that is hashed into the identifier.
Proposals == [key : Keys, oldValue : Nat, newValue : Nat, proposedAt : Nat, eta : Nat,
              executed : BOOLEAN, cancelled : BOOLEAN]

ParamsInit ==
    /\ clock = 0
    /\ params = [k \in Keys |-> 0]
    /\ isParamRegistered = {}
    /\ validators = {}
    /\ customRange = [k \in Keys |-> NoRange]
    /\ proposals = <<>>
    /\ timelockDelay \in Delays \cap (MinDelay .. MaxDelay)
    /\ changesPaused = FALSE

-----------------------------------------------------------------------------
getRange(key) == IF customRange[key] = NoRange THEN DefaultRange[key] ELSE customRange[key]

validate(key, value) == value >= getRange(key)[1] /\ value <= getRange(key)[2]

\* One parameter, or a batch of them: all are registered or none is.
registerParams(initial, validated) ==
    /\ DOMAIN initial \cap isParamRegistered = {}
    /\ \A k \in validated : validate(k, initial[k])
    /\ params' = [k \in Keys |-> IF k \in DOMAIN initial THEN initial[k] ELSE params[k]]
    /\ isParamRegistered' = isParamRegistered \cup DOMAIN initial
    /\ validators' = validators \cup validated
    /\ UNCHANGED <<clock, customRange, proposals, timelockDelay, changesPaused>>

tryGetParam(key, default) == IF key \in isParamRegistered THEN params[key] ELSE default

proposeChange(key, newValue) ==
    /\ ~changesPaused
    /\ key \in isParamRegistered
    /\ newValue # params[key]
    /\ key \in validators => validate(key, newValue)
    /\ Len(proposals) < MaxProposals
    /\ proposals' = Append(proposals,
           [key |-> key, oldValue |-> params[key], newValue |-> newValue,
            proposedAt |-> clock, eta |-> clock + timelockDelay,
            executed |-> FALSE, cancelled |-> FALSE])
    /\ UNCHANGED <<clock, params, isParamRegistered, validators, customRange,
                   timelockDelay, changesPaused>>

Pending(id) == ~proposals[id].executed /\ ~proposals[id].cancelled

executeProposal(id) ==
    /\ ~changesPaused
    /\ Pending(id)
    /\ clock >= proposals[id].eta
    /\ proposals' = [proposals EXCEPT ![id].executed = TRUE]
    /\ params' = [params EXCEPT ![proposals[id].key] = proposals[id].newValue]
    /\ UNCHANGED <<clock, isParamRegistered, validators, customRange, timelockDelay,
                   changesPaused>>

cancelProposal(id) ==
    /\ Pending(id)
    /\ proposals' = [proposals EXCEPT ![id].cancelled = TRUE]
    /\ UNCHANGED <<clock, params, isParamRegistered, validators, customRange,
                   timelockDelay, changesPaused>>

\* Mutant: the bounds of the delay are not checked.
AnyDelay(newDelay) == TRUE

DelayAllowed(newDelay) == newDelay \in MinDelay .. MaxDelay

updateTimelockDelay(newDelay) ==
    /\ DelayAllowed(newDelay)
    /\ timelockDelay' = newDelay
    /\ UNCHANGED <<clock, params, isParamRegistered, validators, customRange, proposals,
                   changesPaused>>

\* pause and unpause.
setChangesPaused(on) ==
    /\ changesPaused # on
    /\ changesPaused' = on
    /\ UNCHANGED <<clock, params, isParamRegistered, validators, customRange, proposals,
                   timelockDelay>>

updateValidator(key, on) ==
    /\ key \in isParamRegistered
    /\ validators' = IF on THEN validators \cup {key} ELSE validators \ {key}
    /\ UNCHANGED <<clock, params, isParamRegistered, customRange, proposals,
                   timelockDelay, changesPaused>>

\* setRange, and clearCustomRange for NoRange; a batch is several calls.
setRange(key, range) ==
    /\ range # NoRange => range[1] <= range[2]
    /\ customRange' = [customRange EXCEPT ![key] = range]
    /\ UNCHANGED <<clock, params, isParamRegistered, validators, proposals,
                   timelockDelay, changesPaused>>

Tick ==
    /\ clock < MaxClock
    /\ clock' = clock + 1
    /\ UNCHANGED <<params, isParamRegistered, validators, customRange, proposals,
                   timelockDelay, changesPaused>>

ParamsStep ==
    \/ \E ks \in SUBSET Keys \ {{}} : \E initial \in [ks -> Values], validated \in SUBSET ks :
           registerParams(initial, validated)
    \/ \E key \in Keys, newValue \in Values : proposeChange(key, newValue)
    \/ \E id \in DOMAIN proposals : executeProposal(id)
    \/ \E id \in DOMAIN proposals : cancelProposal(id)
    \/ \E newDelay \in Delays : updateTimelockDelay(newDelay)
    \/ \E on \in BOOLEAN : setChangesPaused(on)
    \/ \E key \in Keys, on \in BOOLEAN : updateValidator(key, on)
    \/ \E key \in Keys, range \in Ranges \cup {NoRange} : setRange(key, range)
    \/ Tick

-----------------------------------------------------------------------------
\* A proposal of this state that makes the value of the key become v.
Makes(id, key, v) ==
    /\ Pending(id) /\ proposals'[id].executed
    /\ proposals[id].key = key /\ proposals[id].newValue = v
    /\ clock >= proposals[id].proposedAt + MinDelay

ChangeWaits(key) ==
    /\ key \in isParamRegistered'
    /\ params'[key] # params[key] =>
           \E id \in DOMAIN proposals : Makes(id, key, params'[key])

\* The value of a registered parameter changes only by executing a proposal
\* for that key and value that was neither executed nor cancelled and was
\* made at least MIN_TIMELOCK_DELAY earlier, whatever the administrator did
\* to the delay, the validators and the pause in between
\* (ParamController.sol: executeProposal, updateTimelockDelay).
ChangesWait == [][\A key \in isParamRegistered : ChangeWaits(key)]_paramsVars
=============================================================================
