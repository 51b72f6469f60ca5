# PitchOne: specification, model checking and proofs

PitchOne is a sports betting platform. Smart contracts (`contracts/`) take the
bets, borrow liquidity from a vault of liquidity providers and pay the winners;
a keeper written in Go (`backend/internal/keeper`) locks and settles the markets
in time; a subgraph indexes the chain for the keeper and for the user
interfaces. This directory holds TLA+ modules for the parts that carry the
money and for the part that drives them, TLC configurations that check them on
small instances, and proofs of the safety properties for all instances.

Every definition is translated from the source; `PROJECT.json` maps each one to
the lines it stands for.

## 1. Inventory

### Contracts

**LP vault** (`contracts/src/liquidity/LiquidityVault_V3.sol`).
State: the token balance, the reserve fund inside it, one loan per authorised
market (principal and liability limit), the sum of the loans, vault shares.
Operations: ERC-4626 deposit, mint, withdraw, redeem; `borrow`, `settle`,
`settleWithReserve` and `returnPrincipal` for markets; authorisation, limits,
reserve and pause for the operator.
Hard: one balance serves LPs, markets and reserve at the same time; two ledgers
of the same debt; rounding of shares; a loss that meets a limit and a small
reserve. Correct when the reserve is held in tokens, the ledgers agree, no
debtor loses its role, and no LP call dilutes the others.

**Market** (`contracts/src/core/Market_V3.sol`, `pricing/*Strategy.sol`).
State: a status from Open over Locked and Resolved to Finalized, or to
Cancelled from any of the first three; the pool, shares and bets per outcome,
ERC-1155 positions, exposures, the weighted result, the payout scale.
Operations: `placeBetFor` (from the router), `fundFromVault`, `lock`,
`resolve`, `finalize(scale)`, `cancel`, `cancelResolved`, `redeem`, `refund`.
It calls the vault in the same transaction and reverts with it.
Hard: payouts are parts of a pool that is never reduced, in any order and with
rounding; half wins and pushes; scaled settlements; cancellation after the
result; positions that are transferred. Correct when every winner and every
refund is covered, and the payout of one holder does not depend on the others'
order.

**Fees and referrals** (`core/FeeRouter.sol`, `core/ReferralRegistry.sol`).
State: the split of a fee over four recipients, the totals per pot, the fees
received; for every user a referrer, when he was bound and how many he has
bound, the terms of a rebate.
Operations: `routeFee`, `batchRouteFee`, setters, pause, emergency withdrawal;
`bind`, `emergencyUnbind`, the calls of the router.
Hard: entries of a batch fail one by one, by calls of the router to itself; the
split may be read from parameters that change one at a time; the limit of the
rebate is declared in one contract and enforced in the other. Correct when every
fee is in exactly one pot, no rebate exceeds the cap and the referral counts
agree with the bindings.

**Parameter governance** (`governance/ParamController.sol`,
`RangeValidator.sol`).
State: values, registered keys, validators with their ranges, proposals, the
delay.
Operations: register, propose, execute, cancel, change of delay, validator and
range, pause.
Hard: everything a proposal was made from may change before it is executed.
Correct when no registered value changes without a proposal that has waited for
the least delay.

**Rewards distributor** (`core/RewardsDistributor.sol`).
State: one root, scale and total per week, what each user has claimed, vesting,
publishers.
Operations: `publishRoot`, `claim`, `batchClaim`, and the owner's settings.
Hard: what a claim pays depends on when it is made and on settings that may
change after the publication. Correct when nobody is paid twice or more than a
leaf of the root says, and a root, once published, stays.

**Oracle adapter** (`oracle/UMAOptimisticOracleAdapter.sol`).
State: the assertion of each market id, proposed and final results; bonds and
windows are with UMA's oracle.
Operations: propose, dispute, settle, queries.
Hard: everybody may call, UMA's oracle can also be called past the adapter, and
the keeper proposes again in every round. Correct when a market ties up one bond
and a final result was open to dispute for the whole window.

**Router** (`BettingRouter_V3`): takes the stake and the fee and calls
`placeBetFor`. **Factory and templates**; **result mappers** (pure functions from
a score to weighted outcomes); **parlays** (`Basket`, `CorrelationGuard`);
**growth** (campaigns, quests) and **credits and coupons**. Earlier liquidity
providers and pricing engines are still in the tree and no V3 contract calls
them.

### Keeper

**Service and scheduler** (`keeper.go`, `scheduler.go`).
State: a running flag, a stop and a done channel, one goroutine per task with
its retry count, server goroutines, connections.
Operations: `Start`, `Shutdown`, ticks, retries, cancellation.
Hard: Start and Shutdown come from different goroutines; the wait of Shutdown
may expire while tasks run; a Start may be let through while the one before is
still leaving; channels that may be closed twice. Correct when connections are
closed under stopped tasks only and a cancelled service ends. `cmd/keeper` does
not use it: `main` runs the scheduler itself, with the lock and the settle task,
cancels its context on a signal and exits two seconds later. The tests call Start
and Shutdown, and only the scheduler of Start has the rewards task.

**Worker pools** (`settle_task.go`, `settle_task_uma.go`).
State: a buffered channel of jobs, workers, one collector goroutine per job.
Hard: cancellation at any moment in each of the three kinds of goroutines.
Correct when no market is handled twice in a round, no job is lost, and the
round returns.

**Chain calls** (`lock_task.go`, `settle_task.go`, `web3.go`,
`graphql/client.go`).
State: nothing that survives a restart; the account's nonce lives in the node.
Hard: every worker asks for the next nonce for itself; a receipt is awaited for
two minutes only; the index that selects the markets lags behind the chain; a
restart forgets what is in flight. Correct when what is reported has happened,
nothing is settled before its time, and every due market is settled in the end.

**Proposals to the oracle** (`settle_task_uma.go`). State: nothing that survives
a round. Fetches the result of each due market and proposes it through the
adapter. Hard: a market stays due, so it is proposed again, with results that may
differ, over receipts that come late.

**Weekly rewards** (`rewards_task.go`, `cmd/rewards/main.go`, `rewards/`).
State: the row of a week in the database, the root on the chain, exported files.
Operations: aggregate a week from the index, build the Merkle tree, save, export,
publish and wait. The task runs in the last hour of a week, an operator runs the
command at any time.
Hard: two programs, three records of one week that fail apart, an index that
still moves, a wait without a limit. Correct when a run that reports a
publication is right about the root, and every proof of the tree verifies.

**Fixtures task and data sources**: periodic upsert from HTTP services.
**Alerts and configuration**.

### How they interact

    LPs -- deposit, withdraw --> LiquidityVault_V3
                                   ^ borrow, settle, returnPrincipal
    bettors -- router ----------> Market_V3 <-- lock, resolve -- keeper tasks
                                   |                                ^ due markets
                                   +-- events --> subgraph ---------+
                                                  |
    users -- claim --> RewardsDistributor <-- publish -- rewards task, command
                                                            | rows
                                                         database
    UMA task -- propose --> UMAOptimisticOracleAdapter -- assert --> UMA's oracle
    ParamController -- shares --> FeeRouter -- rebates --> ReferralRegistry

Contract calls are transactions: one at a time, all or nothing. Keeper and chain
are concurrent: transactions are mined, and the index follows, at any time.

## 2. Modules

| module | models | by |
|---|---|---|
| `Vault` | `LiquidityVault_V3` | one action per external function |
| `Market` | `Market_V3`, payouts and refunds of the strategies, the token balances | extends `Vault`; one action per transaction, vault calls as conjuncts |
| `Sportsbook` | vault and market with all their callers, and their properties | extends `Market`; chooses caller and arguments |
| `Escrow` | abstract: what a market promises | `Sportsbook` implements it, once per market |
| `SportsbookClaims` | a statement of a comment that the code contradicts | extends `Sportsbook` |
| `Mappers` | `contracts/src/mappers` | one operator per mapper, from a score to weights; `MCSportsbook` takes its results from it |
| `MCSportsbook`, `MCPayouts`, `MCVault` | instances | purses, results, constraints |
| `SettlePool` | one round of either worker pool | one action per step of a goroutine |
| `Scheduler` | `scheduler.go` | used by `Keeper` |
| `Keeper` | `keeper.go`: Start, Shutdown, servers | extends `Scheduler` |
| `KeeperChain`, `MCKeeperChain` | what lock task and settle workers do on the chain | with node, chain and index around them |
| `RewardsDistributor` | the contract | one action per external function |
| `Rewards`, `MCRewards` | the task, the command, database, node and index around the contract | extends `RewardsDistributor` |
| `Merkle`, `MCMerkle` | `rewards/merkle.go` and the verifier of the contract | one action per level of a tree or a proof |
| `UmaAdapter` | the adapter over UMA's oracle | one action per external function |
| `UmaOracle`, `MCUmaOracle` | the UMA task and everyone else who calls | extends `UmaAdapter` |
| `Params` | `ParamController`, `RangeValidator` | one action per external function |
| `Fees`, `MCFees` | `FeeRouter`, `ReferralRegistry` | extends `Params`, which it may read its shares from |
| `SportsbookProofs`, `KeeperProofs`, `KeeperChainProofs`, `RewardsProofs`, `AlgorithmProofs`, `UmaProofs`, `FeesProofs` | theorems | section 5; each extends the module it is about, `KeeperProofs` both `Keeper` and `SettlePool` |
| `SumTheorems` | lemmas about sums over finite sets | no component: what the community modules define and do not prove |

**Contracts.** A variable is a storage variable of the contract, with the name
of the source in its comment. A guard is a revert condition; a revert of the
callee is a false conjunct of the caller's action, so a market cannot be
finalized while the vault refuses the settlement. The router's effect on a market
(move the net amount in, call `placeBetFor`) is one action. Amounts are natural
numbers: widths are 256 bits and no amount of tokens comes near, so a checked
subtraction is a guard and `TypeOK` says that none underflows. Divisions are
floors or ceilings, as in the code. The strategies are modelled by what a market
reads of them: the parimutuel strategy gives one share per token, an AMM curve
any of `ShareAmounts`; payout and refund formulas are those of the code.
A definition with the comment "Mutant" is a variation of the one after it that
`PROJECT.json` uses to show that a property depends on that code.

**SettlePool.** The channel of jobs is FIFO and filled in order, hence two
counters. `kind` chooses between the two pools, which differ in what a worker
does on cancellation and in whether the pool joins its workers.

**Scheduler, Keeper.** Steps are cut where another goroutine can come between:
reading `stopChan` and closing it are two steps, the test-and-set of `running`
under its mutex is one. Ticks and expiries may come at any time. Start may be called
any number of times; one that comes while the flag is set is refused, the others
enter. `Pooled` are the tasks whose `Execute` can be left waiting for ever by a
cancellation, as a round of `SettlePool` can.

**KeeperChain.** The pending transactions of the account are a sequence, a nonce
is a place in it, and a nonce already read moves forward when a transaction is
mined; zero means used. `Accepted` is the node: it appends at the next nonce or
replaces a pending transaction (gas prices are not modelled, so either may
happen). `by` names the sender who still waits; a wait that expires or a restart
leaves the transaction behind with nobody waiting. One action `Disown` stands
for both, with different senders. `Refused` are the markets whose resolve reverts
on what their mapper makes of the result; their settlements are sent and mined
like the others.

**Rewards, RewardsDistributor.** A root is the set of its leaves: `Merkle` shows
that the proofs built with a tree verify, and forged ones are left to the hash.
Leaves are made the way each side makes them, and the two differ (section 6).
`db`, `run`, `mempool` and `exported` are the four places where a week's list can
be; a crash empties `run` and leaves the others. The index is a sequence of
reports per week which a run may read at any point. Aggregation follows the
code's pages: one page of referrals and of quests, all pages of orders.

**Merkle.** Hashes are any set with an operation; nothing is assumed of it, not
even that it is free of collisions, since a tree's own proofs need none of that.

**UmaOracle.** Bonds are counted and not valued. An id is a market with the way
its 32 bytes were made, because keeper and documents pad an address on different
sides. UMA's oracle is external: an assertion can be disputed once while its
window is open, and a disputed one is settled either way.

**Params, Fees.** Who holds the roles is left out: each call that some role may
make may come at any time. There is one token and one registry, and recipients
are pots of the router's books. In a batch the code calls itself once per entry;
an entry that reverts takes its own effects back and its amount goes to the
treasury, so the batch is the sum over the entries that succeed plus that amount.
`Blocked` users are those whom the token does not pay. The router's own address is
among the users and may be named as a referrer: its rebates stay with it, and count
as stray.

## 3. Runs

| run | asks | bounds and why they are enough |
|---|---|---|
| `payouts` | are winners, refunds and the settlement covered, do the books agree, does a market implement the escrow | an AMM market with a loan of 10 and a parimutuel market with limits; two bettors, bets of 2 and 3, shares of 1 and 3 per AMM bet, redemption in any parts, exact and 50% scale, and what `AH_Mapper` makes of a line of -0.75 and victories by 0 to 2: a full win, a half win, an outcome that two outcomes do not have; weights above 100%, which no mapper gives. Odd amounts over odd share counts give every rounding; two bettors and all splits give every order |
| `vault` | does an LP call ever lower the value of a share, do losses stay within the principals, is the reserve there | two AMM markets on one vault, deposits of 100, withdrawals of 60 shares, reserve in and out by 4, 50% reserve ratio, pauses; `OU_Mapper` at 2.5, whose Under two outcomes do not have. `VirtualShares` is 1, where rounding is coarsest. The constraint `OneUnusual` allows one departure at a time from an open vault with one deposit and one market in use |
| `pool_rounds` | one holder, no job lost, complete rounds, quiet after join, termination unless stranded | four jobs and two workers, both pools, cancellation at any step: more jobs than workers is where a round can strand, two workers where they can race |
| `keeper_service` | connections, leftovers, the end of a cancelled service | two tasks with two attempts, one of them pooled; two callers of Start, beside or after each other, one of Shutdown, two servers |
| `keeper_chain` | true reports, no early settlement, rounds end, due markets are settled | two markets, of which one refuses its result, two workers and the lock task, two pending transactions, time up to 2, one fault of any kind (failed call, late receipt, restart, cancelled market). Two senders suffice to collide on a nonce, and two pending transactions to be replaced in either place |
| `rewards` | is a week paid within its root and once, is what a run reports true and final, do runs end | two users, two weeks, an order that is indexed late, one run of the command beside the task, one fault of any kind, 6 tokens, a vesting period of 2. One fault and one run of the command give every overlap of two publications of a week. The constraint `Focus` looks at the programs, or at claims under a changing contract; no fair action leaves it |
| `merkle` | does each proof built with a tree verify against its root | trees of 1 to 9 leaves, which have odd levels at every height, hashes modulo 499 |
| `uma_oracle` | one bond per market, final results were contestable and stay | one market under both forms of its id, a keeper with two bonds and a rival with one, the clock up to 2 with a window of 1, one fault. Two forms and two callers give every double proposal |
| `fees` | do fees pass through whole, rebates within the cap, do counts agree, do changes wait | two users of whom one cannot be paid, the router as a third, one key with two values, delays inside and outside the limits, two proposals, fees of 20 up to 40 in all, batches of up to two. Two entries are enough for one to fail beside another. The constraint `Focus` allows two settings that differ from those of the deployment, and few events beside them |
| `reserve_twice`, `never_settled`, `reward_claims` | each refutes one statement of a comment, document or test | section 6 |

Four more configurations are kept beside these runs. `AllResolve.cfg` is
`keeper_chain` with two markets that take their results, where `DueMarketsResolve`
says that each of them is settled, whatever races their workers lose (294118
states). `Restarted.cfg` and `ShutdownAlone.cfg` (module `Keeper`) and
`StrandedRound.cfg` (module `SettlePool`) give the counterexamples of section 6.

`payouts` has the constraint `OneMarketUsed`: two markets of different kinds
exist and one of them is used, which checks both kinds with one set of
properties. What two live markets do to each other goes through the vault
alone and is the subject of `vault`. Bettors, and the two markets of `vault`, are
interchangeable and declared symmetric; the runs that do so check safety only.

The types of six state spaces (vault and market, worker pool, chain calls,
rewards, oracle, tree) are theorems; the two runs that list a `TypeOK` are
`payouts`, where it also says that no checked subtraction underflows, and
`keeper_service`, where it bounds the attempts of a task. Both are theorems too,
as is every other safety property of a passing run.

All runs but `uma_oracle` and `fees`, where somebody can always do something,
switch the deadlock check off because their systems stop: a market ends
when everything is paid, a round when it has returned, a service when it has
shut down, a proof when it is verified, the clock at `MaxTime` (with nothing left
to do by then).

What the passing runs show, beyond types:

- *Money.* `WinnersCovered`, `WinnersPotExact`, `RefundsCovered`,
  `SettlementCovered`: in no order of partial redemptions, at no scale and after no
  late cancellation does a funded market lack the tokens it owes; an exact
  settlement leaves exactly what the winners are owed.
- *Books.* `DebtAgrees`, `StakesHeld`, `ReserveBacked`: three records of the same
  debt agree, so settlements are never refused for a wrong balance.
- *Holders.* `PayoutTermsFrozen`, `ShareValueKept`, `LpLossWithinPrincipal`,
  `ExposureCoversAll`: nobody's claim changes by what another does.
- *Rounds.* `OneHolder`, `NoJobLost`, `RoundComplete`, `QuietAfterJoin`.
- *Service.* `StartLeavesNothing`: between two Starts, too; `ConnectionsOutliveTasks`
  of a Keeper that is started once; `CancelledServiceEnds` unless a pool is stranded.
- *Chain calls.* `OneReader` (a receipt is never taken for that of another
  transaction), `ReportsTrue`, `NoneSettledEarly`, `RoundsEnd`; `DueMarketsResolve`,
  beside a market that is tried in every round and never settled.
- *Rewards.* `PaidWithinRoot`, `ClaimBooksAgree`, `PublishedIsFinal`: under any
  overlap of claims with changes of vesting, publishers and pause;
  `CompletedIsPublished`, `RunsEnd`: under any overlap of task and command;
  `ProofsVerify`: with the duplicated last node of an odd level.
- *Oracle.* `OneBondPerMarket`, `FinalWasContestable`, `FinalForGood`: whatever
  the keeper repeats and others do past the adapter.
- *Fees.* `FeesPassThrough`, `RebatesWithinCap`, `ReferralsAgree`, `ChangesWait`.

## 4. Fairness

The contracts, with the oracle adapter, have none: nobody is obliged to call, and
their properties are safety properties.

- `SettlePool`: weak fairness of each goroutine, and a worker's settlement ends.
  The second is justified by the two-minute limit of the receipt wait and is
  what `RoundsEnd` of `KeeperChain` shows for the tasks' own calls.
- `Keeper`: weak fairness of goroutines, of `Execute` and of the retry delay.
  Strong fairness of a task that leaves its loop: Go picks a ready case of a
  `select` at random, so a closed channel wins against the ticker in the end.
  Nobody has to cancel the context or to call Start or Shutdown. `Execute` need
  not return: that of a pooled task can strand once the context is cancelled, and
  `CancelledServiceEnds` says that Start returns or a task is stranded.
- `KeeperChain`: the clock goes on, the head of the queue is mined, the index
  catches up, and tasks and senders run. Faults are bounded by `MaxFaults`, so
  liveness is what holds once they stop. No fairness of `Restart`, `CallFails`,
  `AdminCancel`, and none between senders that race for a nonce: nothing in the code
  gives them a turn. A market that refuses its result comes back in every round and can
  take the nonce of another's settlement in every round; TLC refutes the statement
  that the other is settled all the same. So `DueMarketsResolve` says that a market is
  settled, or, beside one that refuses its result only, that it loses its nonce
  (`LosesNonce`) again and again.
- `Rewards`: weak fairness of the steps of each program and of mining. None of
  time, users, faults or a start of either program. The wait for a receipt has no
  limit (`publisher.go:138`), so `RunsEnd` leaves out `Stranded`, the run whose
  transaction the node has dropped.

## 5. Proofs

All for any finite sets of markets, users, LPs and weeks, any workers, tasks and
callers, and any amounts and bounds that satisfy the named assumptions of the
modules. These say only what kind of value a constant is (amounts, splits, rates
and the weights of a result are natural numbers), that leaves fit the words of the
contract, and that the names of senders, of nobody and of the index's null differ.
Every safety invariant and every action property of a passing run is a theorem.

**Sums** (`SumTheorems`). The sums of `FiniteSetsExt` are folds, defined with a
recursive function over subsets and a choice of the element to take first. The
induction theorem for finite sets takes an operator and cannot be used. The
lemmas go by a minimal counterexample: the subsets for which a statement fails
form a set; if it is not empty it has a minimal member (well-foundedness of strict
inclusion), and taking one element out of that one gives a contradiction. First
that the recursive function exists and does not depend on where it is defined,
then that any element may be taken first (`SumRemove`), and from these that sums
are monotone and additive, change with one value as that value does, split over
parts, and that a table adds up alike by rows and columns (`SumExchange`).
`SumSuperadditive`: a rate that rounds down pays on parts at most what it pays on
their sum.

**Types and reserve** (`SportsbookProofs`). One lemma per vault function that
keeps `VaultTypeOK` and the reserve within the balance, lifted to the
transactions.
`TypeCorrect`: `Spec => []TypeOK`. `ReserveIsBacked`: `Spec => []ReserveBacked`.

**Ledgers** (`SportsbookProofs`). `DebtAgrees`, `StakesHeld` and `DebtorsActive`
are not inductive one by one: a settlement reduces the total, which needs that
a market's principal was counted there; a market that is authorised again would
lose its principal if a debtor could be inactive. `LedgerInv` adds `PoolCounted`
(the pool counts at least the initial liquidity, and a market without a vault has
no loan). It is preserved by each
transaction; `DebtsAgree`, `StakesAreHeld`, `DebtorsAreActive` follow.
`DebtLedgerCorrect`: `_totalBorrowed` is the sum of all principals.

**Refinement** (`SportsbookProofs`). `MarketsAreEscrows`: the initial state of each
market is one of `Escrow`, and each transaction is a step of the escrow or
leaves it alone. The ledger invariant is what makes `cancelResolved` a `Void`:
what it returns, up to the cash, is the whole principal, and the stakes remain.
`PayoutTermsAreFrozen` is the action property of the same name.

**LPs** (`SportsbookProofs`). `ShareValueIsKept` needs for each of deposit, mint,
withdraw and redeem that tokens and shares move at a price no better than the
one before the call: `SharesDown` and `AssetsDown` are floors, `SharesUp` and
`AssetsUp` ceilings, and the two sides are compared after multiplying out.
`LpLossIsWithinPrincipal`: what the LPs own is the tokens outside the reserve and
the loans; a settlement takes at most the principal from the second and brings at
least what the reserve gains to the first.

**Payments** (`SportsbookProofs`). What is owed to many holders is a sum of floors
over users and outcomes, which no single transaction updates in a way that could
be followed. `BooksInv` relates the books of one market: the bets of all outcomes
are the pool without the initial liquidity, a parimutuel share is a token bet, the
shares of an outcome are what users hold until the market ends, a result is one
that `resolve` accepts, and there is no scale and no claim before finalization.
`PayInv` then speaks of one account that holds everybody's shares: what it could
redeem (`PooledClaims`) or be refunded (`PooledRefunds`) is at most what the
market holds. That is inductive: at finalization it is the expected payout, by
the weights of the result, which are at most 10000 together (`ExpectedBound`); a
redemption of some shares takes out at most what the pooled claim falls by, since
payouts are superadditive in the shares. By the same property and
`SumExchange` single holders are never owed more than the one account
(`ManyHolders`), whence `WinnersAreCovered` and `RefundsAreCovered` for any
holders, in any order. `WinnersPotIsExact` is the other part of `PayInv`, and
`SettlementsAreCovered` compares the transfer to the vault with the stakes held: a
profit is at most the bets, and what a loss, scaled or not, leaves to be sent is at
most the loan.

**Exposures** (`SportsbookProofs`). `ExposureInv`: the shares held in a market are
at most the exposures of all users. A bet adds the same to both, a transfer moves
shares only, and a redemption takes from the exposure of the redeemer at most
the shares he burns. `ExposuresCoverAll` is the same sum taken by users.

**Tokens and supply** (`SportsbookProofs`). Every transaction is a transfer between
the vault and an account, a market and an account, or a market and the vault, or
moves no tokens, so that vault, markets, users, LPs and treasury together hold
what they began with (`TokensAreKept`). `SupplyIsHeld`: a deposit or withdrawal changes
one LP's shares and the total supply by as much.

**Rounds** (`KeeperProofs`). `RoundInv` relates the counters of the channel
to workers and answers: a job in a worker's hands has been taken and has no
answer, and one that has been taken is in some worker's hands or answered; a
pool past its join has no worker. The four safety properties follow for any
number of markets and workers. `NoRoundStrands` is the safety side of
`PoolReturnsUnlessStranded`: a worker of the settle task's pool that finds the
context cancelled leaves with one job, which it answers, so that as many jobs are
answered as cancelled as workers are gone until the channel is drained
(`LeaversInv`). With a worker per market the last worker cannot leave jobs behind,
and in the UMA pool workers do not leave: every market that was sent is answered.

**Service** (`KeeperProofs`). `TypeOK` is not inductive: a retry counts one attempt
on, and that there is one left is known from the test that led to the back-off
(`AttemptLeft`). `LifeInv` adds that the flag is set while a Start is between its
test-and-set and its wait for the others, and that one at most is (`OneUnderway`);
that tasks and servers run only under such a Start, which has spawned them; and that
connections are closed only after `doneChan`, and that only by a Start that returns
(`Announced`).
`StartLeavesNothingCorrect` holds for any number of Starts that follow each other.
`ConnectionsOutliveTasksCorrect` has the hypothesis `StartedOnce` in its property:
that one Start at most was let through. It is a hypothesis about the callers, not
a guard of the model, and without it the statement is false (`Restarted.cfg`, section 6).

**Chain calls** (`KeeperChainProofs`). `KeeperInv` is `TypeOK`, `OneReader`,
`Reports` (what is reported *or about to be* has been executed) and `Timely`
(every market on its way to be settled, in a round, in a sender's hands or in
the queue, has waited for its delay). `OneReader` is needed for `Reports`: a
receipt of success must be one of the call that the reader is going to report.
`KeeperTyped`, `KeeperReadsItsOwn`, `KeeperReportsTrue` and
`KeeperWaitsForTheMatch` follow.

**Rewards** (`RewardsProofs`). `IInv` is the types of contract and programs with
`PaidWithinRoot`, `ClaimBooksAgree` and `Reported`: a good receipt in a program's
hands, and a run that has reported, are of the root that the week has. It is
inductive because a root once set is never replaced, which is `PublishedIsFinal`,
and because a transaction in the pool of the node is awaited by a program that
still waits for that same list. For `ClaimBooksAgree` a batch of claims adds to
each week what its user is paid for it, and to the tokens that left the sum of
those. `PaidWithinRootCorrect`, `ClaimBooksAgreeCorrect`,
`CompletedIsPublishedCorrect`, `PublishedIsFinalCorrect`.

**Merkle** (`AlgorithmProofs`). `Climbing`: each level is the pairwise hash of the
one below, the path of a proof halves its index from level to level, and what
the verifier has computed is the node of the tree at its place on the path.
`ClimbingCorrect`, and from it `ProofsVerifyCorrect`: for any number of leaves and
any hash.

**Mappers** (`AlgorithmProofs`). For any line and score: `QuarterLineIsTwoLines`, a
bet on a quarter line wins what two half bets on the lines beside it win, for
either side; `HandicapsAreMirrored`, exchanging the teams and the sign of the line
exchanges what the sides win; `OutcomesAreCounted`, a result names outcomes that
the mapper counts. For correct scores `ScoresAreDecoded`, and two statements of
what does not fit: `ScoresBeyondCount` and `ScoresAgreeInRowZero` (section 6).
The proofs are case splits over the difference of goals in linear arithmetic.

**Oracle** (`UmaProofs`). `IInv` is the types with `Books`: the maps between ids
and assertions are inverse to each other, a final result belongs to a settled
assertion that was accepted, and none is settled in favour of its proposer
before its window is over unless it was disputed. `OneBondPerMarketCorrect`, `FinalWasContestableCorrect`,
`FinalForGoodCorrect`.

**Parameters, referrals and fees** (`FeesProofs`). A proposal waits at least the
least delay from when it was made, whatever happens to the delay afterwards
(`EtasFar`); `ChangesWaitCorrect` follows. `ReferralsAgreeCorrect`: binding adds one
user to the set that a referrer's count stands for, unbinding removes one, and a
referrer who is bound to the user cannot be chosen. `MoneyInv` is the types of the
router's books with `FeesPassThrough` and `RebatesWithinCap`. A batch is a sum over
the entries that succeed: the parts of each add up to its amount because the
treasury takes the rest (`SharesAreWhole`, exchanged by `PartsAddUp`), the rebates
by referrer add up to the rebates by entry, and each is within the limit because
the setter of the rate is. `FeesPassThroughCorrect`, `RebatesWithinCapCorrect`.

**Only model-checked.** Liveness (`RoundsEnd`, `DueMarketsResolve`, `CancelledServiceEnds`,
`PoolReturnsUnlessStranded`, `RunsEnd`): the prover does not handle fairness and ENABLED.

## 6. Disagreements between code and documentation

Three are counterexamples of runs; `PROJECT.json` quotes the lines.

- `reserve_twice`: a scaled settlement takes the excess over the limit from the
  reserve, and then the whole loss once more.
- `never_settled`: the settle task selects markets by a field that the subgraph
  sets to null and nobody fills in. `DueMarketsResolve` says what holds in spite
  of it: a market whose end is known is settled.
- `reward_claims`: the tree's leaf takes the week's lowest byte and the amount's
  decimal digits, the contract's leaf the two numbers, so no entry of an exported
  distribution can be claimed.

Three are counterexamples of configurations that are kept beside the runs:

- `Restarted.cfg` (`ShutdownLeavesNothing`): Start resets the flag before it closes `doneChan`, and the channels
  are made once. A second Start that is let through then, or later, runs its tasks
  while the first one's `doneChan` makes Shutdown close the connections under them.
- `ShutdownAlone.cfg` (`ShutdownCompletes`): Shutdown closes `stopChan`, which the
  servers and Start watch; the scheduler waits for Start's context only. Unless somebody cancels that, tasks
  go on and Shutdown never completes, though a test expects
  it to (`keeper_test.go:303`).
- `StrandedRound.cfg` (`PoolReturns`): a worker of the V3 pool that sees a cancellation answers one job
  and leaves; with more markets than workers the pool waits for answers that no one
  will give, and Start does not return, against `keeper_test.go:153`. `PoolReturnsUnlessStranded` says that a round
  returns or ends like this (`Stranded`); `NoRoundStrands` is a theorem for rounds with a
  worker per market.

Others were met while modelling, and the models have them:

- A market that refuses its result stays due: the settle task sends its resolve
  again in every round, each time for a transaction that reverts (`keeper_chain` has
  one), and no code gives it up or cancels it. It may starve others (section 4).
- Two concurrent calls of Shutdown can both close `stopChan`
  (`keeper.go:315`).
- A push pays only the holders of the push outcome (`Market_V3.sol:774`), while
  comments and the market design speak of a refund for all.
- Mappers and templates: the deployed template of correct scores lists its 36
  scores row by row (`script/Deploy_V3.s.sol:534`), while `Score_Mapper` numbers a
  score ten times the home goals plus the away goals. A 1-0 is outcome 10, which
  that template calls 1-4; with four or more home goals and for "other" (999) the
  market refuses the result. The deployed over/under template has two outcomes, and Under is outcome 2
  of `OU_Mapper`: with fewer goals than the line such a market cannot be resolved,
  only cancelled. `OU_Mapper` settles quarter lines whole, with no half wins.
  `createMarket` does nothing with `mapperInitData` (`MarketFactory_V3.sol:268`), so
  every market of a template has the line that the template's mapper was deployed
  with.
- The initial liquidity is in a market's pool from creation on, whether the vault
  has lent it or not, against the equation of the design document.
- Oracle: a rejected assertion is never replaced (a comment at
  `UMAOptimisticOracleAdapter.sol:295` leaves the case open), and `isFinalized` is
  true after a rejection. The keeper puts the address first in an id
  (`settle_task_uma.go:124`), the design puts it last
  (`docs/design/UMA_OO_INTEGRATION.md:270`); `OneBondPerMarket` is about one id, and
  under its two ids one market can take a bond each. Nobody in the repository registers
  the UMA task, settles an assertion or resolves a market with its result.
- Rewards: `cmd/rewards/README.md:243` forbids a published week to be overwritten;
  the row of the database is, by either program. Referrals and quests beyond the
  first 1000 are not read. Nothing publishes a saved week whose publication failed,
  but an operator.
- Fees: the design has a split that sums to 10000 and changes behind a timelock
  (`docs/design/05_FeeRouter_Vault.md:20`). `setFeeSplit` is the owner's alone, and
  shares read from parameters that are changed one by one need not sum to it: what
  is left over goes to the treasury, and too large shares make the entry fail.
  `MAX_REFERRAL_BPS` of `FeeRouter` is used nowhere. No V3 contract calls
  `routeFee`: `BettingRouter_V3` sends its fee to an address of its own.

## 7. Not modelled

- *Within the modelled parts:* price curves and odds of the AMM strategies
  (fixed-point logarithms and square roots; any number of shares of
  `ShareAmounts` instead); roles other than the market role (represented by who
  calls); batch calls (they repeat the single one in one transaction); gas
  prices and ABI encoding; the page limit of the keeper's queries; `settleMarketV2`,
  which has the shape of V3 with another call.
- *Rewards, oracle, fees:* the transfer of ownership and the addresses that
  withdrawals and fees go to; the nonces of the rewards publisher and of the UMA
  task (those of the account are in `KeeperChain`); `emergencyWithdraw` of the
  adapter; the mock oracle; several tokens or registries.
- *Pure input and output:* fixtures and data sources, alerts, configuration, the
  query service, the user interfaces, deployment. A call to them that fails is a
  fault of `KeeperChain`.
- *Superseded or generated:* earlier liquidity providers and pricing engines,
  contract bindings. The bindings are 33238 of the 45112 lines of Go: they encode
  calls and decode answers, and hold nothing to model.
- *Direct transfers:* tokens sent to a market or to the vault by plain ERC-20
  transfers. They can only add to what `StakesHeld` and the like bound from below;
  `WinnersPotExact` and the escrow's equalities are about the other tokens.
- *Result mappers:* decoding of raw results and the names of outcomes.
- *Not yet:* `BettingRouter_V3`, the factory, parlays, growth, credits and coupons.

## 8. Plan

Done, in this order: vault and market with their callers; the escrow; worker
pools; service and scheduler; chain calls; rewards with their contract and tree;
the oracle adapter and its callers; parameters, fees and referrals; the result
mappers; the proofs of section 5.

What is left, by what can go wrong:

1. `Parlay`: `Basket` and `CorrelationGuard` over the results of `Market`:
   payouts out of one balance.
2. `Betting`: `BettingRouter_V3` in front of `Market`: stake = net + fee, batches
   whose entries fail (the loop of line 178 does not advance past one).
3. The factory, with templates beside the mappers they are made for.
4. `Growth`: campaigns, quests, payout scaling, credits and coupons.
5. In `KeeperChain`: the page limit of the queries, and the lock window that can
   be missed.

Theorems to come: that the distributor implements an abstract ledger of claims;
that LP shares of a vault without loans can all be withdrawn.
