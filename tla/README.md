# Verification of IRG_GDP

TLA+ models of the parts of this repository that decide something: who may
sign with a wallet, what an Ombudsman's order becomes, whether a transaction is
written to the chain once, when a payment is executed, how a deposit is
mirrored, what a gold unit may become on the chain and in the database, what
the votes of governance, of the payment authority and of a recall decide, and
how the sister instruments issue, pay and redeem. TLC checks each model on
a small instance; TLAPS proves every safety property the passing runs check for
every value of the constants. `PROJECT.json` lists the components, the runs, the mutants
that break each property, the lines every definition translates, the hazards
and the findings.

Run a check with `tlc -workers 2 -config <run>.cfg <Module>` and a proof with
`tlapm <Module>Proofs.tla`.

## 1. The system

A Django back end (`src/backend`) with a REST API, a Node middleware
(`src/middleware/server.js`) that signs and submits transactions, Solidity
contracts (`src/contracts`) on a permissioned Besu chain, background commands
(watchers and cron jobs), static pages and Firebase functions.

| Component | State it keeps | Operations | Talks to |
|---|---|---|---|
| wallet access (`wallet_access/services.py`, `admin.py`, `transaction_guard.py`) | `WalletActivation`, nominees, `WalletDevice`, `RecoveryCase`, `OwnershipTransferCase` rows | activate, verify password, bind a device, freeze, self / social / trustee recovery, cancel, execute an order, transfer ownership, admin actions | chain submission (each event), watchers (orders, executions) |
| Ombudsman watcher (`watch_ombudsman_orders`) | `ChainWatcherCursor` row, `last` in memory | poll, process a batch, store the cursor | chain (reads), `execute_ombudsman_order` |
| chain event watcher (`watch_chain_events`) | its own cursor row | `RecoveryExecuted`, `WalletRecoveryRequested` | chain, case and wallet rows |
| submission client (`chain/client.py`, `chain/views.py`) | `TxAuditLog` rows | submit with retries, audit sink | middleware (HTTP both ways) |
| middleware | idempotency cache (Redis or memory), nonces | `/submit-tx`, forward audit | chain, audit sink |
| payment authority (`payment_bridge`) | `PaaTransaction`, `PaaCorpusFund`, `PaaBudget`, oracle confirmations, rule changes, audit log | create, approve, confirm by oracle, execute, cancel, vote on rules | called by the corpus application |
| corpus (`corpus`) | `CorpusFund`, `Deposit`, `Settlement`, investments, NAV | confirm a deposit, process a settlement | payment authority |
| IRG_GDP contract (`IRGGDP.sol`) | requests, units, earmarks, supply, parameters | request, verify, mint, transfer, swap, earmark, release, recall | called through the middleware |
| IRG_GDP in Django (`irg_gdp`) | unit, minting, swap, trade, transfer, earmark rows | mint, swap, match orders, transfer, earmark | chain submission |
| governance (`governance`) | `Proposal`, `Vote`, `GovernanceAction` rows | submit, edit, cast, execute | chain submission; reads units for the voting power |
| recall (`recall`) | `RecallOrder`, `DACProposal`, `DACVote`, `NodeAgent` rows | initiate, approve, execute, vote, heartbeat, admin actions | burns units of `irg_gdp` |
| disputes (`disputes`) | `Dispute`, `Compensation` rows | file, review, resolve, pay | chain submission |
| `irg_jr`, `irg_jdb`, `irg_gic` | issuances, rights, buybacks; designs, orders, royalties; certificates, redemptions | issue with or without a verified payment, buy back; approve, register, order, pay; invest, redeem | `irg_jr` mints units of `irg_gdp`; all send hashes to the chain |
| inactivity watchdog (`wallet_access/middleware.py`, `sweep_inactivity`) | last activity and the stages of `WalletActivation`, a cache per process | touch, prompt, remind, alert the nominees | mail; the nominees' own claims |
| escrow reconciliation (`reconcile_escrow.py`) | `EscrowReconciliationLog`, one row per day | reconcile the last days | chain (logs), the bank's figure |
| licence guard, monthly jobs | cached verdict | check, flush | external services |
| accounts and KYC, oracle rates, notifications, front end, Firebase, deployment | rows of their own, or none | CRUD and I/O | - |

What is hard in it:

* several claims, an Ombudsman, an admin and the owner act on one wallet row, in
  any order, through handlers that each restore the wallet their own way;
* `services.py` saves a case and its wallet with no transaction around the two,
  while a watcher process executes orders beside web requests, crashes, replays;
* the chain can be reorganised below the watcher's confirmations;
* a submission that timed out at the client goes on in the middleware, its
  audit callback and the retry loop overwrite each other's row;
* a payment can be approved, cancelled, revived, executed again; a budget is
  replaced by two statements;
* the corpus posts first and writes its mirror afterwards from stale rows;
* the contract's mappings answer for ids never given out;
* every handler of `irg_gdp`, `irg_jr`, `irg_jdb`, `irg_gic`, governance, recall
  and disputes loads rows, waits for a chain transaction, and saves the whole
  rows it loaded, without a lock: requests undo each other, votes and credits
  are lost, and what dies half way is done again by hand.

What makes each component correct is the list of properties in section 3; the
`hazards` of `PROJECT.json` name the line where each of these bites.

## 2. Modules

| Module | Models | State and actions |
|---|---|---|
| `WalletLifecycle` | one wallet, all handlers that write its rows | a variable per row set; one action per handler (`ActivateWallet` ... `HandleRecoveryExecuted`, admin actions), and where a handler saves several rows without a transaction one per save (`work`: what a request has still to save; it may die instead); a deadline is a timer `none / running / elapsed` |
| `OrderWatcher` | the order watcher and `execute_ombudsman_order` cut into its saves | `chain`, `final`, stored `cursor`, the process' program counter, case and wallet rows; crash, failing save, failing cursor store, reorganisation, and `cancel_recovery` in its own steps |
| `ChainSubmit` | retry loop, `/submit-tx`, idempotency cache, audit callback | per submission the client, one request per attempt, the cache, the number of writes, one callback per attempt; the row, and in a caller's open transaction its draft, which the transaction commits or takes away |
| `SubmitOnce` | what a submission promises | on record before it is sent, unless a caller's transaction holds the row back; a signed one written once; on record for good |
| `PaaTransactions` | the authority on its own database (`django_local`) | a row per idempotency key, funds, budget, executions in the audit log; one action per locked handler, the budget replacement in two |
| `ClearedLedger` | what the authority promises once its statuses are forgotten | payments requested, approved, vouched for by oracles and paid; accounts opened, and balances that move only with a payment |
| `CorpusMirror` | the corpus handlers in front of it; EXTENDS `PaaTransactions` and composes with its actions | each web request's place, what it read, total balance |
| `GdpContract` | `IRGGDP.sol` | each mapping and counter; one action per function, `Tick` for `block.timestamp` |
| `Handlers` | what REST handlers and admin actions have in common | users, requests served at a time, tables in the order of insertion |
| `GdpMinting` | checklist, cap, `execute_mint`, the admin action, `confirm_payment`'s mint | a minting record per id, one program counter per request with what it read, units made per record; history: records completed without a cap check that still held |
| `GdpUnits` | transfer, earmark, release, swap, burning of units | unit, earmark and swap rows by creation; each request holds the row it loaded; history: saves of outdated rows |
| `OrderBook` | `place_order` and `_match_order` | trade rows, the order a request has inserted and not matched yet |
| `Governance` | a proposal and its votes | the row, a vote per user, requests with the row they loaded |
| `RuleChange` | votes on a revision of the budget, a court's approval, its application in two statements and a save | rows of rule changes, active budgets, requests with the row they read |
| `Recall` | a recall order, the DAC proposal linked to it, nodes, execution unit by unit | rows, burned units, requests with the row they loaded and the units left |
| `JewelleryRights`, `DesignBank`, `Certificates`, `Disputes` | the handlers of `irg_jr`, `irg_jdb`, `irg_gic`, `disputes` | their rows; a request's place between two saves |
| `Inactivity` | touches, the cache of the process, the nightly sweep wallet by wallet on the rows it loaded | the columns of the watchdog, a clock, the rows that sweeps and handlers hold and save whole; history: when each owner was last seen, wallets whose owner was last seen while a row of theirs was held |
| `Reconciliation` | `reconcile_escrow` over several days, by runs that overlap | the days of the blocks, the log's rows, each run's place; history: days two runs raced for |
| `MC*` | instances for TLC | sets, parameters, symmetry; `MCIrgGdp`, `MCDecisions` and `MCInstruments` run several modules that share no row, one of them in each behaviour |
| `SetTheorems` | lemmas on sums over finite sets, maxima and cardinalities | - |
| `PaymentProofs` | proofs about `PaaTransactions` and `CorpusMirror` | - |
| `DecisionsProofs` | proofs about `Governance`, `RuleChange`, `Recall` | - |
| `InstrumentsProofs` | proofs about `GdpMinting`, `GdpUnits`, `OrderBook` and the parts of `MCInstruments` | - |
| other `*Proofs` | proofs about the module they are named for | - |

A definition whose comment says "(mutant of X)" is the mutated form of `X`
listed in `PROJECT.json`; no specification uses it.

The models meet at these seams. `WalletLifecycle` takes a handler in a
transaction as one action and every other save by save; a request loads its rows
with its first save. `OrderWatcher` also takes loads and saves apart, for the two
handlers that overlap in practice, and keeps one wallet with trustee claims pending. `OrderWatcher`
reads the events a contract emits; how they got there is `ChainSubmit`, which
stands for every method of `services/blockchain.py`. `CorpusMirror` runs the
steps of its requests between the actions of `PaaTransactions`, whose
replacement of the budget is what `RuleChange` decides about. `GdpUnits` takes a
finished mint (`GdpMinting`) and the burning of a unit (`Recall`) as actions of
its environment, and `GdpMinting` takes over from `JewelleryRights` the mint
that ends a confirmed payment. `GdpContract` is not below these: the handlers
send it a hash of what they do and do not look at its answer, so a failed
transaction changes nothing in them.

In the modules built on `Handlers` a step of a request is what it does between
two points where another request can see it: the load, each save, the end. A
read that is followed at once by its save, and the rows of one database
transaction, are one step. A request dies at any point; what it caught with
`except` is an action of its own (`MintRaises`, `ConfirmRaises`,
`ApprovalRaises`, `MintFails`).

## 3. Runs

Passing runs. Every property has a mutant, a plausible bug in the mapped code
under which TLC finds it violated.

**wallet_lifecycle** - two devices, one case, one transfer, one admin, two
requests between their saves (beside a transfer one: `TwoOrATransfer`), one wrong
password to a lock (the code's limit is a constant), lists of none or two
nominees. Two devices are what it takes for an old one to survive a rebind, two
requests for one to resume, or to die, after another has moved the wallet on; two
claims at a time are in wallet_order_final and order_watcher, and any number in the
proofs. The bounds on attempts and nominees only cut counters that the handlers compare with
a threshold. *SigningNeedsPassword*: the guard never lets a wallet without a
password hash through, although an admin can mark it ACTIVATED. *LockAccounting*:
the counter and the lock agree. *ExecutionRecorded*: nothing is RECOVERED without
an execution on record in the database or, where the admin's request died after
its first save, on the chain. *SelfRecoveryBinds*: an EXECUTED self-recovery has
its device, whoever died where. *RecoveredTakesNothingNew*, *DecidedStaysDecided*
and *RebindCoolsOff* are about steps; the last is about self-recovery and the
transfer, which retire what is ACTIVE and bind a device that cools off. An
activation does neither, and wallet_two_devices shows what comes of it.

**order_watcher** - two cases, one of which the owner may cancel, chains of four
blocks, one confirmation, one crash, one reorganisation, one error of each
kind. Four blocks hold two orders beyond the confirmed one and a replay of a
batch; approving and rejecting are the only dispositions that write rows the
others do not (the rest are checked in wallet_lifecycle). *DecisionsAreFinal*:
confirmations suffice against reorganisations no deeper than they are.
*LastOrderWins*: with no replay pending a case has the outcome of the last
order. *Converges* (liveness): in the end, whatever crashed.

**chain_submit** - one submission, three attempts, one restart of the
middleware; the cache is durable or not, the client simulates or not; the
transaction is signed on the device, or by the middleware, or is submitted from
inside a transaction of the caller (as the matching of orders does), where the
PENDING row is not committed when the chain is asked, may be rolled back, and may
meet a row the audit sink has made in its place. Submissions share nothing, so one
is the whole state space; three attempts allow a first that is given up on, a
second that races it and a third that finds either's result. *SubmittedIsReal*,
*TraceStays*, *SubmissionEnds* (liveness), and *SubmitsOnce*: the specification
implements `SubmitOnce`. A submission is on record before it is sent, a signed
blob is written once, what is on record stays there. The docstring of the client
(`chain/client.py:7-9`) says the first of every submission; one from inside a
transaction is excepted, for it departs from that. For system transactions the
further writes are hidden by the refinement mapping, and the finding below is
about them.

**corpus_mirror** - two deposits, two settlements of which one has a reference,
two web requests at a time, one of which may die anywhere. A settlement without a
reference is keyed by the clock, so each repeat is a transaction of its own.
*OnePostEach*: one transaction per deposit and per key of a settlement.
*MirrorNotInflated*.

**gdp_contract** - two accounts, two requests, units and earmarks each, two points
of a checklist (five in the contract; the code treats them alike), two sets
of parameters, three timestamps. *SupplyIsCirculating*, *MintsAreChecked*,
*EarmarkHolds*, *StatusPath*. The last two except unit 0: the record of an
earmark never made is all zeros, so the owner of unit 0 can release it early,
or make it active again after its swap; no text of the repository says what
should happen, so this is recorded as a hazard. Ids of two units suffice to tell
unit 0 from the others and a recall of an id not minted yet from one that is.

**irg_gdp** - three parts, each with two requests at a time. Minting: three
records of one user, one of them created by `irg_jr`, of 2, 1 and 1 grams under
a cap of 2, so that one, two or none fit. Units: one mint of a unit that counts
for two, three unit rows, one earmark, one swap: a unit can be moved twice, and
an outdated save can meet a transfer, an earmark, its release, a swap or a burn.
Book: three orders of two sizes and two prices on both sides, which is what
it takes for an order to be matched while it waits. *CapUnlessOverlap*: only a
mint that overlaps another of its user, or that nothing checks (admin action,
`confirm_payment`), passes the cap. It counts records, as the code does: a
completed record that `verify_checklist` opens again may be executed again,
for a second unit. *CompletedHasUnit*. *OneLiveUnitPerMint*: units are
not doubled by moving them, but for each save of an outdated row.
*BookIsUncrossed*: no two open orders that cross rest in the book.

**decisions** - four parts. Governance: two voters of power 1 or 2, quorum 2.
Rule changes: two members, two votes required, two changes of which both bring a
budget, and either one that is voted on or two that only a court approves (the
constraint `VotedOrTwo`: an overtaken application needs two changes, a lost vote
needs one). Recall: two GDP units and one id that names none, two nodes, two
votes; an order names two of the three at most (`SmallRecall`), which is a unit
before and after one that is passed over or raises; an order that names no unit
has no DAC proposal. The authority: two transactions (one needs the board, one is
at the threshold of dual approval), three approvers, two oracles, one replacement
of the budget; a third approver is what it takes to revive an executed
transaction. *TallyIsRecorded*: the tally may lose votes, it never shows one that
is not recorded, and nothing passes without the quorum in recorded votes.
*ImplementedWasApproved*, *OneActiveBudget*, *BurnsAreApproved*. *CompletedIsDone*:
a completed recall has burned every GDP unit it names; what it names beyond those
is passed over in silence (`recall/views.py:102`). *ExecutionsAreCleared*: each
execution is paid for by another person's approval and all oracles.
*BudgetCounts*. *PaysAsCleared*: the authority implements `ClearedLedger`. A
balance moves only with a payment whose oracles have spoken and which has
approvals beyond those its earlier executions used, and only on the account fixed
when it was requested; a revived payment is one approval more, a cancellation
nothing at all.

**instruments** - one issuance with two rights and one buyback, two orders of a
design, one certificate with two redemptions, two disputes and two ombudsmen;
one wallet whose stages come two, one and one ticks after each other in five,
which is the whole sequence with a return of the owner at a point of it; two
runs of the reconciliation over two days, two rows in its log.
*IssuesOnce*: gold is minted once per issuance, on the chain and in the database,
whatever died and was repeated or backfilled; excepted are papers two requests
worked on at a time and mints whose request died, or raised, before the minting
record was saved: the backfill sends those again. *RoyaltyLedger*: the designer's
row may lose credits, it never shows one without its payment.
*RedeemedIsSettled*. *AlertsOnlyTheSilent*: the nominees hear only of an owner who
was not seen for the prompt's term. Excepted, until he is next seen, is an owner
who was last seen while a sweep or a handler held his row, or by an activation, which
leaves the stages in place. *OneVerdictPerDay*: however often a day is
reconciled, and whatever failed before, but for a day one run came to while
another was about to insert its row.

CHECK_DEADLOCK is FALSE where a model really stops: all submissions over, all
bounded ids used, all transactions at their end.

Runs that show a disagreement between the code and a text of the repository
(each quoted in `findings`):

* **wallet_order_final** - the owner's cancellation of another claim restores a
  wallet that an executed order made RECOVERED;
* **wallet_two_devices** - a LOCKED wallet is activated again: two ACTIVE devices,
  neither of which cools off;
* **chain_duplicates** - two attempts of a system transaction are both written;
* **trade_double_match** - an order another matching has taken is executed again.

What the models also show, without a run of its own: cancelling one of two open
claims unpauses the wallet (`services.py:875`); a watcher without a stored
cursor skips orders when it restarts (`chain/models.py:100`); a crash between
two saves leaves a wallet RECOVERING with no open case (`services.py:872`), and one
between the admin's saves a RECOVERED wallet with an APPROVED case
(`admin.py:58`); wrong passwords end a pause (`services.py:429`); a settlement
without a reference is paid again when it is repeated (`corpus/views.py:256`); a
rolled-back matching leaves transactions on the chain whose row is gone
(`irg_gdp/views.py:412`); the backfill mints again what was minted without its
record (`irg_jr/admin.py:168`); a recall passes over what it names that is no GDP
unit, and completes (`recall/views.py:102`); an
executed settlement is never debited from the mirror (`corpus/views.py:276`); a
release makes a burned unit ACTIVE again (`irg_gdp/views.py:576`); a redemption
is settled by `redeem` and again by its approval (`irg_gic/views.py:98`,
`admin.py:19`); a right can be bought back once per request filed for it
(`irg_jr/views.py:403`); a DAC vote approves an order that was cancelled
(`recall/views.py:180`); a heartbeat activates a suspended node
(`recall/views.py:120`); `resolve` of a dispute always fails
(`disputes/views.py:115`); a recall initiated with units fails, because their
ids are `UUID` objects in a JSON field (`recall/views.py:35`), so such orders
come from the admin form; on a 29 February the registration of a copyright
fails after the design was saved (`irg_jdb/views.py:79`); a touch under a running
sweep is overtaken by the stage the sweep saves, and the nominees may be alerted
of an owner who was there (`services.py:612`, against the docstring of
`InactivityEvent`); a run of `reconcile_escrow --days` writes its verdict over
earlier ones, and a day with two rows stops every later run
(`reconcile_escrow.py:182`).

Distinct states: wallet_lifecycle 1,729,451; order_watcher 575,903;
chain_submit 765,056; corpus_mirror 3,325,869; gdp_contract 417,216; irg_gdp
1,558,238; decisions 1,247,180; instruments INSTR. The contract's arithmetic is checked (Solidity 0.8): an overflow
reverts, which is no step, so amounts are natural numbers.

## 4. Fairness

Safety runs use none. `OrderWatcher!FairSpec`: the watcher is a sidecar that its
supervisor restarts and whose loop sleeps and polls again, so its steps are
weakly fair; blocks keep coming, or the last would never be confirmed. Web
requests are not fair: an owner's cancellation may stop for ever.
`ChainSubmit!FairSpec`: a client that is alive goes on, because `requests.post`
has a timeout; the middleware, the network and the audit callback promise
nothing.
The other modules state safety only: their requests may stop anywhere, and no
job of the repository takes up what they left.

## 5. Proofs

Assumptions are the named ASSUMEs of the modules, which TLC evaluates in every
run: limits are natural numbers, tables have the keys they are read with.

**WalletLifecycleProofs** proves every invariant and action property of
wallet_lifecycle for any devices, cases, transfers, admins, requests and limits.
The inductive invariant is `TypeOK`, `LockAccounting` and five facts the
properties need: `Provisioned` (no device row before the password hash, which is
what stops a wallet an admin marks ACTIVATED), `CaseShape` (a row without a path is
unfiled, only social and trustee cases are announced as executed), `WorkShape`
(what a request between two saves can know of its case), `RecoveredHasRecord` (an
execution is in the database, or on the chain and never taken back there) and
`BindingsCounted` (each self-recovery past its device has one that cooled off). A
step is described once by what it does to cases, wallet and devices (`CasesStep`,
`WalletStep`, `DeviceStep`); the conjuncts and the three action properties are
proved from these.

**SetTheorems** carries what the others need about data. A sum over a finite set
is `MapThenFoldSet` of the community modules, which chooses among the solutions
of a recursive equation: that one exists and that all agree is shown by taking a
smallest set for which it fails, since the library's induction theorem cannot be
instantiated here. From there on sums are unfolded by one element, updated at
one point, compared and split. The module also proves that `Max` and `Min` of a
finite set of integers are in it, and bounds cardinalities by sums.

**PaymentProofs** proves `PaaTypeOK`, `ExecutionsAreCleared`, `BudgetCounts`,
`PaysAsCleared`, `OnePostEach` and `MirrorNotInflated`, for any keys, amounts, people and oracles
and any deposits, settlements and web requests. For the authority the invariant
is per row (`Covered`): the approvals cover the executions so far and, in a row
whose status is `approved`, one more. That is why approving out of turn or after
a cancellation cannot buy a second execution with the same people. Thresholds
enter only through the number of approvals each level needs. The budget's sum
moves by one amount with each execution (`Counted`). For the mirror a posted
transaction exists and one request at most is about to write its settlement
(`Posts`), and a request about a deposit has read a balance made of other
confirmed deposits (`Reads`), so that saving it late adds no deposit twice.

`AuthorityIsLedger` is the refinement of `ClearedLedger`, `MirrorIsLedger` the same
with the corpus in front of the authority. The mapping forgets the status of a row
and keeps its account, its approvals, whether its oracles have spoken and how
often it was executed; one lemma per handler shows what saving its row does to
the ledger (`RowOnLedger`). Creating is `Register`, approving `Approve`, the last
confirmation `Speak`, executing `Pay`, creating a fund `Open`; cancelling, a
confirmation that is not the last and the replacement of the budget stutter. Only
`Pay` needs the invariant: the ledger asks for the approvals that the code, which
asks for the status `approved`, does not count again.

**GdpContractProofs** proves `TypeOK`, `MintsAreChecked`, `EarmarkHolds`,
`StatusPath` and `SupplyIsCirculating` for any accounts, amounts and bounds. Carried along: `RequestsMade`
(a request never made has purity 0, so `getPurityFactor` reverts on it; Approved
means a full checklist), `Owned` (a unit with an owner is minted and not
recalled, hence a recall takes it from every release) and `RecordsMade` (a record
names a minted unit, or was never made and names unit 0). For the supply, an id
that was not given out is worth nothing (`Unminted`): a recall that names it
takes nothing off.

**OrderWatcherProofs** proves `DecisionsAreFinal`. The invariant adds that the
final blocks keep up with the confirmations (`FinalKeepsUp`) and that the
watcher reads only below them (`ReadsFinal`), whether it resumes from the stored
cursor or starts at the head: a reorganisation then replaces nothing it has read.
`LastOrderWins` needs to know where the watcher is (`Ordered`): while no save
has raised, each case has the outcome of the last decisive order up to the
position the watcher has done, or of a later one it had read before it crashed
and will read again; and the same for the wallet, which is saved after its case.
The theorem assumes `FirstCursor > 0`, a stored cursor: without one the watcher
begins at the head and skips orders, which is a hazard no property covers.

**ChainSubmitProofs** proves `SubmittedIsReal`, `TraceStays` and that the
specification implements `SubmitOnce`, for any number of submissions, attempts
and restarts. Carried along: every hash that is stored, held back in a draft,
cached or under way is that of a write (`HashesReal`), a client is never behind its
row (`RowsInOrder`, `ClientInOrder`: what is sent has a row, or a draft in the
caller's transaction), and each write has an attempt of its own that reached the
chain. The last bounds the writes by the attempts (cardinality of the attempts past
that point) and leaves one for a signed blob. For the refinement every step begins a
submission, records one from inside a transaction, writes, or shows nothing
(`Begins`, `Records`, `IsWritten`, `Unseen`).

**DecisionsProofs**, for any members, units, requests and numbers of votes.
`TallyIsRecorded`: every row of a proposal, stored or held by a request, shows
no more than the recorded votes (`Shown`), and these only grow (`PowerGrows`),
so a row saved late is still true. `ImplementedWasApproved` and
`OneActiveBudget`: a row that is approved or implemented is backed by votes that
were cast or by a court, and so is every copy of a row that a request holds
(`Backed`); without a torn application at most one request is between the two
statements, and then no budget is active (`NotTorn`). `BurnsAreApproved` and
`CompletedIsDone`: each request's copy is bounded by what is on record
(`StepOK`), a count it holds by the votes that were cast, its approval by who gave
it, and the GDP units it names and has not left to do are burned (`Remaining`);
records grow (`Grows`).

**InstrumentsProofs**, for any rows, users, requests and bounds.

* Minting. `CompletedHasUnit`: a request between the unit and the record has made
  the unit (`UnitMade`), and nothing unmakes one. `CapUnlessOverlap` is not
  inductive: to it comes `CapKept`, that a request whose check still holds has
  left room for its record beside what is completed.
* Units. An ACTIVE earmark can make its unit live again whatever became of it, so
  `OneLiveUnitPerMint` is proved of claims, live units and earmarks that can
  still be released: their number (`Claims`, a sum of `Worth`) is at most one more
  than the saves of outdated rows.
* Order book. `BookIsUncrossed` is inductive once an order in matching is known
  to be in the book: it leaves its matching only when nothing crosses it, and
  what is inserted later finds it.
* Jewellery rights. `IssuesOnce`: a paper that no two requests worked on at a time
  is in the hands of one at most (`Alone`), and its rows are where that request's
  step says, each in its own part (`IssuanceOK`, `RightsOK`, `MintOK`). The rights
  are counted but for a paper whose request died between a right and its issuance,
  the mints on the chain but for one whose request left a mint without its record.
* Design bank. `RoyaltyLedger`: the designer's row and every copy of it that a
  request will save are covered by payments that were made, and the design's count of
  orders, with every copy an order holds, by the orders placed (`Covered`,
  `RowsCovered`); both only grow.
* Certificates. `RedeemedIsSettled`: a certificate is saved as REDEEMED after its
  redemption row, and until then the request that made the row is there
  (`Sole`), so that no other finds the certificate free.
* Disputes: types only; its one rule about outcomes fails before it acts.
* Watchdog. `AlertsOnlyTheSilent`: the prompt and the reminder are the prompt's term
  later than the moment the owner was last seen, in the stored row, in one a handler
  will save and in those a sweep has still to do (`Timely`), unless he was last seen
  while one of these was held; and an alert comes after a reminder.
* Reconciliation. `OneVerdictPerDay`: on a day without a race whoever is to create
  the row is alone and there is none (`Orderly`).

`InstrumentsTyped` puts the type invariants together for the composed run.

The assumptions the proofs add to those of the instances are that the sets summed
over are finite (`Key`, `User`, `Order`, `Record`: rows of a table), and that
issuances and buybacks, rows of two tables, have names of their own.

Only model-checked are `Converges` and `SubmissionEnds`, which are
liveness under fairness and need ENABLED; and the violations, which are
counterexamples. All other properties of the passing runs are theorems.

## 6. Not modelled

* The early return of `chain/client.py` when no middleware is configured.
* The http and callback transports of the payment authority and its trustees.
* The generated CRUD of the model view sets (a PUT or PATCH can set any writable
  column at any time, so no property of a row survives it), except the edits of
  a proposal's text; the fields of admin forms, except where an action is named
  for them; serializers, permissions, roles.
* Parts of modelled applications that only add rows nothing reads: gold
  assessments, design licences, household registrations, bonus allocations,
  governance parameters, emergency actions and their reversal, audit rows.
* The licence guard and the monthly jobs: batch work driven by the clock or by an
  outside service; both jobs stop when they construct their transaction.
* The totals of locked and refunded escrows in the reconciliation: figures that
  decide nothing.
* `CorpusFund.sol` and `Governance.sol`: the database decides without them.
* Accounts, KYC, oracle rates, notifications, Firebase, static pages, deployment:
  I/O with outside services and rows that are only stored.
* Events, notifications and e-mails: nothing reads them, but for the two the
  watchers read.

## 7. Order of work

1. `WalletLifecycle` and its proofs. 2. `OrderWatcher`. 3. `ChainSubmit`,
`SubmitOnce`. 4. `PaaTransactions` and proofs. 5. `CorpusMirror`. 6.
`GdpContract` and proofs. 7. `GdpMinting`, `GdpUnits`, `OrderBook`. 8.
`Governance`, `RuleChange`, `Recall`. 9. `JewelleryRights`, `DesignBank`,
`Certificates`, `Disputes`. 10. Proofs of `OrderWatcher`, `ChainSubmit`,
`GdpMinting`, `RuleChange` and `Recall`. 11. `Inactivity`, `Reconciliation`. 12.
`SetTheorems`, and with it the remaining safety properties. 13. `ClearedLedger`,
which `PaaTransactions` and `CorpusMirror` implement.

Next would come an abstract specification for the book, refined by `OrderBook`, and
one for the devices of a wallet once activations retire them.
