# LedgerOps in TLA+

A verification project for LedgerOps: a double-entry ledger in Go over
PostgreSQL, with several tenants and transfers between them.  The modules here
are translated from `internal/app`, `internal/domain`, `internal/adapters` and
`cmd/api`; `PROJECT.json` maps every definition to its lines.

## 1. Inventory

| Component | State | Operations | Interacts with |
|---|---|---|---|
| Posting (`usecases.go` `PostTransfer`, `domain.Post`) | accounts, transactions, entries, idempotency keys | look a key up, replay, lock two rows, decide, write, claim the key, commit; call itself after a lost claim | every other writer, through row locks, unique keys and the connection pool |
| Opening accounts (`CreateAccount`) | accounts | courtesy read, insert | posting |
| Books verification (`VerifyBooks`) | none of its own | three reads and a comparison | reads what posting commits |
| Balances and statements (`GetBalance`, `GetEntries`) | none | existence check, entries by recorded instant, running balances | read what posting commits; the clock posting reads |
| Tenants, links, aliases | tenants, tenant_links, counterparty_aliases | provision, authorize, revoke, register | the coordinator and the key resolver read them |
| Transfer preparation (`prepareTransfer`) | system accounts | resolve an alias over an active link, bootstrap four accounts | directory, posting |
| Transfer coordinator (`transfer_coordinator.go`) | transfer_state, in-memory attempt counts, goroutines | send, forward legs, retry, compensate, ticker scan | posts every leg through `PostTransfer` |
| Transfer view (`GetTransfer`, `requireTransferParty`) | none | authorize, read the row and four keys | reads what the coordinator writes |
| HTTP layer, authentication, status mapping | none | decode, identify the caller by its key, map refusals | calls the use cases |
| Migration and application role (`migrate`) | schema_migrations, the role with its owner marker and password | read facts, plan, claim the role, apply files, set the password | other runs on the cluster, the service's login |
| Startup (`cmd/api`) | - | probe the database, wire the router | the role and the schema |
| Metrics, logging, console, release tooling | - | - | observation or tooling |

Concurrency: each HTTP request is a goroutine with its own transaction at READ
COMMITTED; the coordinator adds goroutines that outlive the request; migrate
runs are processes of their own.  Failure: any statement, a commit whose answer
is lost, the process at any point.  Time: a ten-second attempt, a fifteen-second
lease, backoff sleeps, and the clock entries are ordered by.  What must hold:

- posting: wallets never below zero (I4), balances tie to entries (I3), a key
  posts once (I7), answers tell the truth, requests over hot accounts queue;
- verification: a verdict names exactly what has drifted;
- statements: the history of the account, of one's own tenant only (I9);
- directory: names and active pairs are unique (I10, I11), revocation is final
  and effective at the next use, an alias keeps its meaning, a key is one tenant's;
- coordinator: legs post in order and are undone in reverse, the money ends in
  one place, the status says which, every transfer ends;
- view: what is shown is consistent, and is never taken back by what is shown later;
- migration: one database has the role and the schema, the history tells what is
  there, a service finds a complete schema, refusals changed nothing.

`PROJECT.json` lists under `hazards` the places where each of these is at risk.

## 2. Modules

| Module | Models | Size of a step |
|---|---|---|
| `Ledger` | `PostTransfer` and `CreateAccount` over the PostgreSQL adapter | one SQL statement, or the wait it needs |
| `AtomicLedger` | what the ledger promises: each request one indivisible step | a request |
| `Books` | `VerifyBooks` and out-of-band alterations beside `Ledger` (extends it) | one SELECT |
| `Statements` | `GetBalance` and `GetEntries` beside `Ledger` (extends it) | one SELECT |
| `TransferSaga` | one cross-tenant transfer with its goroutines, row, ticker and crashes | one transaction |
| `CrossTenantTransfer` | what a transfer promises: where the money is and what is reported | one movement or report |
| `TransferView` | `GET /transfers/{id}` beside `TransferSaga` (extends it) | one SELECT |
| `TenantDirectory` | keys, tenants, links, aliases, `prepareTransfer` | one SQL statement |
| `Migration` | the `migrate` command and the service's startup on a cluster | one SQL statement |
| `LedgerProofs` | the theorems about `Ledger` | |
| `AtomicProofs` | `Ledger` implements `AtomicLedger` (extends `LedgerProofs`) | |
| `BooksProofs`, `StatementsProofs` | the theorems about `Books` and `Statements` (extend `LedgerProofs`) | |
| `SagaProofs` | the theorems about `TransferSaga` and its promise | |
| `ViewProofs` | the theorems about `TransferView` (extends `SagaProofs`) | |
| `DirectoryProofs`, `MigrationProofs` | the theorems about `TenantDirectory` and `Migration` | |
| `MCLedger`, `MCBooks`, `MCStatements`, `MCTransferSaga`, `MCTransferView`, `MCTenantDirectory`, `MCMigration` | the instances TLC checks | |

**Ledger.**  `kind`, `balance`, `posted` and `claims` are the committed tables;
`rowLock` and `keyLock` are PostgreSQL's; `free` and `conns` are the pgx pool;
`pc`, `cmd`, `snap`, `answer` belong to the request.  A transaction's
uncommitted writes are invisible to everyone else, so they are not variables:
`MakeDurable` performs them at the commit.  `Claim` waits for the holder of the
key, as `INSERT ... ON CONFLICT DO NOTHING` does, and its loser goes back to
`begin` with its locks and its connection, as the recursion at usecases.go:199
does.  `Check` is the courtesy read of an opening, which builds the row it finds
and refuses one it cannot build.  `Wrap` is int64 addition in `Money.Add`; `DeltasFit` is the bigint range
of the UPDATE.  A transaction is named by the request that posts it, entries
are determined by it.  Definitions marked "Mutant" are not part of any
specification: each is a plausible defect of the definition below it and
`PROJECT.json` says which property notices it.

**AtomicLedger** has no locks and no int64.  `RequestsAreAtomic` maps a running
request to "pending".  `unknown_account` needs a history: the ledger reads its
two rows one after the other, so an answer may rest on a row that has been
opened since; `missed` records that it was absent at some time after arrival.

**Books** composes with `Ledger` by conjoining: the scan's reads interleave with
its steps.  Entries are the postings' amounts plus `edits`, what was changed out
of band; an alteration that names no tenant is one of every tenant's row of that
id (`SameName`).  `overlap` is a history of what committed since the scan's first
read.

**Statements** composes the same way.  `Write` is a step of `Ledger` together
with the reading of the clock in it: `recorded` is `recorded_at`, one tick for
each posting, less an error of up to `ClockError`.  `EntriesFor` is the set of
listings the query's ORDER BY allows.  `trail` is a history of the balances each
row went through; the code stores no such thing, and that the listing reproduces
it is the property.  One client asks for a balance and then for a statement.

**TransferSaga.**  A posting is one step: that is what `Ledger` and
`RequestsAreAtomic` establish.  A leg's movement is fixed by the row, so the
books of one transfer are the set `posted` of keys.  `status` and `nextAt` are
the row; `nextAt` is relative to the clock: "now", "lease", or the goroutine
whose backoff it waits for.  `th` holds the goroutines, with the phase of
`attemptLeg` or of the reversal they are in and who called it.  `Ticker` selects
the program: "never" is what `cmd/api` wires, "any" the one-second ticker of the
brief running beside the other goroutines, "alone" only the ticks that find a
transfer nobody works on (what happens after a restart).  `KeepsPromise` maps
the five keys to a place for the money (`Money`) and the row's status to the
report of `CrossTenantTransfer`.  The keys a transfer derives from its own
(`:leg2`, `:leg3`, `:leg1:reverse`, `:leg2:reverse`) share the one namespace of
idempotency keys with those that clients choose for `POST /transfers`; the model
takes them to be used by this transfer and nobody else.

**TransferView** adds one reader to `TransferSaga`.  `ReadOrder` is the order of
GetTransfer's statements; the saga takes any number of steps between two of
them.  A reader is known by its relation to the transfer: operator, sender,
receiver, another tenant, or nobody the platform knows; a key whose lookup fails
is answered like one nobody has.  `seen` is a history of the last view anybody was
shown, against which the next one is held.

**TenantDirectory.**  A call reads, decides, writes; `Writing` is the wait a
unique index or a row lock imposes.  `before` is a history of what was revoked
or taken when a call began.  The target account of an alias is left out.  Every
call comes with a key: `Identified` is the middleware of the route's group,
`TenantOfKey` the demo resolver in front of the table, and `acts` the scope the
handler finds in its context.  A tenant's key is its id, as hashes of different
keys differ; a caller can use the key of a tenant provisioned in the run once
that call was answered.

**Migration.**  `role` is the cluster's application role with its comment (the
owner marker), `db` each database's schema_migrations, the files it holds, their
owner and the advisory lock.  `pc` walks a run through `ReadFacts`, the preflight
checks in their order, and the three steps of the plan; `facts` is what it has
read and may be stale.  golang-migrate is external and modelled from its use: a
file is marked dirty, run as one transaction, marked clean, under the lock.
`Fail` kills a run between any two statements, or lets `hasLedgerSchema`, which is
read in one step with the role's owner, take its own failure for "no schema".
Only the user that created the role is taken to hold its admin option: superusers
and options granted by hand (migrate_exec.go:32-44) are left out.  `Repair` and `DropRole` are the
operator following the refusals' advice, `Serve` is a service whose login
succeeds.  An older demo stack may have left a schema and a role without marker.

## 3. Runs

Passing runs:

| Run | Bounds | Shows |
|---|---|---|
| `Ledger_requests` | 3 requests of 2 tenants, 3 accounts, 2 keys, word -4..3 | I4, I7, truthful answers and the refinement of `AtomicLedger`, with failures and unheard commits anywhere; no tenant gets another's transaction |
| `Ledger_liveness` | 3 requests, 4 connections | hot accounts and keys queue, everyone is answered |
| `Books_verdict` | 2 requests, 1 scan, 1 alteration, 3 tenants | I3; an undisturbed verdict is exact; no posting touches a wallet altered to below zero |
| `Statements_history` | 3 requests, 2 tenants that share account names, 2 calls | running balances are the account's history in commit order, explain a balance answered before, and are the caller's own |
| `Saga_wired` | 2 senders, 2 crashes, 1 lost statement, budget 5 | the coordinator as wired keeps leg order, one outcome, a truthful status and one chain, reports money it holds without a row, and implements `CrossTenantTransfer`; undisturbed transfers end |
| `Saga_ticker_resolves` | 1 sender, 1 crash, 1 lost, 1 unheard, budget 2 | with a ticker, half-way transfers are finished or undone |
| `View_transfer` | 2 senders, 1 reader at a time, 1 crash, 1 lost statement, budget 2 | a view never contradicts itself about where the money is, and no later view takes back what an earlier one told |
| `Directory_calls` | 3 calls, over a link and an alias from before, keys of the operator, of tenants, of the demo | names and active pairs stay unique, revocation is final, aliases lead where the link does and keep their meaning, a revoked link carries nothing, a key is one tenant's |
| `Migration_cluster` | 3 runs by 2 users on 2 databases, 1 service, 3 files, 2 failures, every right or all but one, with or without a demo schema | one database gets role and files, its history is true after any failure, no service starts on half a schema, refusals changed nothing, one of the undisturbed runs succeeds |

Why the bounds are enough for the cases at hand: two requests make a race for a
row or a key and the third is a bystander or a second loser; the word is small so
that both ends of the range are one transfer away; amounts let a wallet cover
one of two debits.  Two crashes reach a crash after a restart.  The budget of
five is the code's; two suffices where the question is what a crash interrupts or
what a reader sees of a retry and of the compensation after the last.
The goroutine slots of the runs without a ticker are more than one chain needs.
Three files make a first, a middle and a last one (the code embeds six, which
differ only in that the first creates the role); two runs race for one database
while the third races for the role; two failures leave a history dirty and then
hit the run that follows.  Only `Migration_cluster` turns the check for deadlock
off: when all runs have ended the cluster may rest.  Requests, callers and
goroutines are symmetric where no liveness is checked.

Runs in which TLC finds what the code does to contradict what a comment or a
document says of it (the quotations are in `findings`):

| Run | Property | What happens |
|---|---|---|
| `Ledger_pool` | `EveryRequestAnswered` | with two connections, the loser of a claim holds one and its rows and waits for another; a transfer under another key holds that one and waits for the rows |
| `Saga_unheard` | `StatusTruthful` | the reversal leaves out a leg whose commit was not heard of |
| `Saga_wallet` | `RefundReachesPayer` | another wallet of the tenant is refunded |

**Further instances.**  TLC violates the property in each of these as well:

| Change | Property | What happens |
|---|---|---|
| `Books_verdict.cfg`, `MaxTampers = 0` | `HealthyLedgerBalances` | a posting that commits between the two reads of usecases.go:644-651 is reported as drift; "Drifted is empty on a healthy ledger" (usecases.go:748) |
| `Saga_wired.cfg`, 1 crash | `EveryTransferEnds` | nothing outside a test-only route calls `processDueTransfers`, so a crash leaves the transfer pending; ADR-015, lines 46-47, has it "resumable on the next process's startup" |
| `Directory_calls.cfg` | `BootstrapIdempotent` | two first transfers both find no account, the loser of the insert is answered 500; "'already exists' is the expected, successful case" (transfer_coordinator.go:573-575) |
| `Statements_history.cfg`, `ClockError = 1` | `StatementIsHistory` | two postings that share a tick, or processes whose clocks disagree, are listed against the order of their commits, with a running balance the wallet never had; the order by instant and sequence is said to be "settled" (usecases.go:524-527), but every transaction numbers its own entries from 0 |
| `Migration_cluster.cfg`, `Careless = TRUE` | `OneDatabase` | the DROP ROLE that the cluster rule's refusal suggests hits a database that is being migrated, or one that is migrated again later, whose empty schema_migrations then counts as the ledger schema |
| `Migration_cluster.cfg`, `p3 = p2` | `ServesCompleteSchema` | the startup probe takes the failure of its UPDATE on a missing table for the missing grant (main.go:173) and serves a database without a schema |
| `Migration_cluster.cfg`, without the last conjunct of its premise | `SomeRunSucceeds` | two users migrate one database: one owns the role, the other the tables, and every further run of either is refused |

Two comments describe a read the code does not have: counterparty_alias.go:79-81
and postgres/counterparty_aliases.go:28-31 speak of a courtesy check that
normally intercepts a second registration of an alias.  `RegisterCounterpartyAlias`
writes without one; only the primary key refuses, and `CreateAlias` models that.

Three more things the models make visible and no property forbids: a view may
show leg 2 "pending" and leg 3 "posted", as the keys are read one after the
other; a run that reads the history while another is inside a file is told that
"a previous run was interrupted" (migrate_plan.go:106); and a user with the
admin option but without CREATEROLE passes the preflight of an existing role,
as brief.md:1833 wants it, and is then denied by the CREATE ROLE that
`createMarkedAppRole` tries first.

**The ticker.**  `processDueTransfers` is reached only through a test-only route
today, so the safety runs take `Ticker = "never"`.  Before it is wired as the
brief describes, these instances of `TransferSaga` deserve a look; TLC violates
the property in each:

| Change to `Saga_wired.cfg` | Property | What happens |
|---|---|---|
| `Ticker = "any"`, 4 goroutines, no failures | `LegsInOrder` | a chain that lost its claim of leg 2 takes nil for success and posts leg 3 |
| the same | `KeepsPromise` | a reversal outlives its lease, and `AdvanceAfterLegOutcome` overwrites a terminal status |
| `Ticker = "alone"`, 3 goroutines, 1 crash | `PaidOrRefunded`, `KeepsPromise` | a crash between leg 1's refund and the "reversed" write: the forward legs are taken up again |
| the same, under `FairSpec` | `EveryTransferEnds` | a crash between leg 3's posting and the "settled" write: `nextLegFor` finds nothing to do |

**Fairness.**  `Ledger!FairSpec`: each request's next step is weakly fair; the
Go scheduler, the pool and PostgreSQL's lock queues serve those who can proceed.
`TransferSaga!FairSpec`: the steps of senders and goroutines, the clock and, if
there is one, the ticker.  `Migration!Spec`: every run is started and a started
run takes its next statement when it can.  Failures, crashes, revocations, new
wallets and the operator's remedies are never fair.  A transfer that keeps
failing is not assumed to succeed.

## 4. Proofs

Every theorem holds for every value of the constants that satisfies the named
assumption of its module (`LedgerAssumption`, `SagaAssumption`, ...): ids are
ordered like integers, initial balances are in the word, and so on.  These
conditions go beyond that, and the theorems that need one state it:

- `Ticker = "never"`: the program as `cmd/api` wires it.  With a ticker the
  properties are violated (section 3), so no theorem could do without.
- `[][~CompensatesPosted]_vars` and `[][~AbandonsRefund]_vars`: two steps of the
  coordinator that a behaviour may not take.  The first is that the last attempt
  of a leg fails although one of its attempts has posted it, and
  `handleLegFailure`, which looks at its count and not at the books, starts the
  compensation that leaves this leg out; the second, that `handleReversalFailure`
  gives up on leg 1's reversal although it has posted.  Both need a commit
  whose answer was lost; any number of such commits is covered as long as a later
  attempt replays the leg, or the process dies first.  Without the first
  condition TLC violates `LegsInOrder`, `PaidOrRefunded`, `StatusTruthful` and
  `ViewConsistent` (`Saga_unheard` is an instance), without the second
  `KeepsPromise`: they are where the code departs from its promise, and the
  theorems show that without a ticker these properties fail nowhere else.
- `unheard = 0`: so far every commit of a leg has been heard of.  It implies the
  two conditions (`HeardIsNeverMisjudged`), and stands for them where a theorem
  speaks of a state and not of a behaviour.
- `[][~OutsortsPayer]_vars`: nobody opens a wallet that sorts before the sender's
  first one once leg 1 has been paid from that.  `Saga_wallet` is what happens
  without it.
- `ClockError = 0`: a posting's instant is later than those of the postings that
  committed before it locked its rows.  With an error the property is violated.

| Module | Theorem | States |
|---|---|---|
| `LedgerProofs` | `TypeCorrect` | `[]TypeOK`: committed balances stay inside the word |
| | `NeverNegative` | I4, `[]WalletsNeverNegative` |
| | `ExactlyOnce` | I7, `[]KeyedExactlyOnce` |
| | `LoserReplays` | `[]LoserFindsWinner` |
| `AtomicProofs` | `AnswersAreTrue` | `[]AnswersTruthful` |
| | `LedgerIsAtomic` | `RequestsAreAtomic`: the ledger implements `AtomicLedger` |
| `BooksProofs` | `BooksTypesCorrect`, `BooksAlwaysTie` | `[]BooksTypeOK`; I3, `[]BooksTie` |
| | `VerdictIsExact` | `QuietVerdictExact` |
| | `AlterationStaysVisible` | `AlteredWalletFrozen` |
| `StatementsProofs` | `StatementsTypesCorrect`, `TenantsKeptApart` | `[]StatementsTypeOK`; I9, `[]TenantsReadTheirOwn`, for any clock |
| | `BalancesAreExplained` | `[]StatementExplainsBalance`, exact clock |
| | `StatementsTellHistory` | `StatementIsHistory`, exact clock |
| `SagaProofs` | `TypeCorrect`, `HeldMoneyReported` | `[]TypeOK`, `[]HeldIsReported`, with or without a ticker |
| | `SingleChain` | `[]OneChain`, no ticker |
| | `RefundReachesPayerUnlessOutsorted` | `[]RefundReachesPayer`, with or without a ticker, unless `OutsortsPayer` |
| | `RightUnlessMisjudged` | `[](LegsInOrder /\ PaidOrRefunded /\ StatusTruthful)`, no ticker, unless `CompensatesPosted` |
| | `PromiseKeptUnlessMisjudged` | `KeepsPromise`, no ticker, unless `CompensatesPosted` or `AbandonsRefund` |
| | `HeardIsNeverMisjudged` | `[](unheard = 0)` implies that neither happens, no ticker |
| | `LegsPostInOrder`, `OneSideIsPaid`, `StatusIsTrue` | `LegsInOrder`, `PaidOrRefunded`, `StatusTruthful` while `unheard = 0`, no ticker |
| | `SagaKeepsPromise` | `KeepsPromise` of every behaviour with `[](unheard = 0)`, no ticker |
| `ViewProofs` | `ViewsRightUnlessMisjudged` | `[]ViewConsistent`, no ticker, unless `CompensatesPosted` |
| | `ViewsAreConsistent` | `ViewConsistent` while `unheard = 0`, no ticker |
| | `ViewsStand` | `[]ViewsNeverTurnBack`, no ticker, unheard commits included |
| `DirectoryProofs` | `TypeCorrect` | `[]TypeOK` |
| | `NamesAreUnique`, `PairsAreLinkedOnce` | I10, `[]NameBoundOnce`; I11, `[]OneActiveLink` |
| | `AliasesFollowLinks`, `RevocationIsRespected` | `[]AliasBehindLink`, `[]RevocationHolds` |
| | `RevokedLinksStay`, `AliasesKeepTheirMeaning` | `RevokedIsFinal`, `AliasKeepsMeaning` |
| | `KeysIdentify` | `[]KeysNameTenants` |
| `MigrationProofs` | `TypeCorrect`, `HistoryIsTrue`, `NothingWasChanged` | `[]MigrationTypeOK`, `[]HistoryTellsTruth`, `[]NoChangesTrue` |
| | `ServicesFindTheirSchema` | `[]ServesCompleteSchema`, if the passwords of services differ by database |
| | `RoleServesOneDatabase` | `[]OneDatabase`, if `Careless = FALSE` |

Both hypotheses of `MigrationProofs` are those of the run; section 3 shows
what happens without them.

**The ledger.**  None of its safety invariants is inductive: whether a commit
may overdraw a wallet depends on what its request read some steps ago.  `CoreInv`
adds

- `PhaseOK`: which commands reach which phase; what has posted is done;
- `LocksOK`: whoever goes on after locking a row holds a snapshot equal to the
  committed row (`Held`), and whoever is about to commit holds snapshots on
  which `domain.Post` said yes and whose deltas fit (`Decided`);
- `KeysOK`: whoever is about to commit a transfer holds its key, unclaimed;
- `NestedOK`: which phases hold a connection;

and `IInv` is `CoreInv` with `WalletsNeverNegative`.  The two are apart because
`CoreInv` survives the alterations of `Books` (a wallet set to below zero) and
the other does not.  A step of one request leaves the others' program state and
locks alone (`OthersUntouched`) and changes only rows it holds (`BooksFrame`),
so `Held` and `Decided` are stable under others (`HeldStable`, `DecidedStable`);
what `Post` checked on the snapshot is then true of the row at the commit, and
as the UPDATE fails outside the word, the checked sum is the stored one
(`WalletsStep`).

**The refinement.**  `AInv` adds to `IInv` that an answer given is true
(`TellsTruth`; it stays true because claims and postings are never taken back),
that a request still running has none (`PendingOK`), and that a request which
has asked for no row has found none missing (`FreshOK`), which is what lets a
refusal "unknown account" rest on `missed`.  Each step of `Ledger` then maps to
the arrival, the step or the answer of one abstract request, or to a stutter:
`MakeDurable` is the step, and everything up to it stutters.

**The books.**  `BInv` is `CoreInv` with `Tied`, and what a scan has read as long as
nothing overlapped it (`ScanOK`).  A balance is compared with a sum over a set
of postings; the sum operator of the community modules is a fold, defined by
recursion over sets, about which the library proves nothing.  That it is zero of
the empty set and grows by the new element's value is shown by
the smallest counterexample: among the subsets that have no such sum there is a
smallest (`SmallestSubset`, from the theorems on finite sets), and taking an
element out of it gives a smaller one.

**The statements.**  `GInv` needs no clock.  `HInv` adds that the instants of one
account's postings are in the order of its commits (`StampsOK`: the clock is read
between the two locks and the commit, so a later posting of the row reads it
later), that the listing in that order folds to `trail`
(`HistoryOK`), and that a trail ends on the stored balance (`TrailTies`).  `StatementIsHistory` speaks of blocks of consecutive
positions: the operator's statement of an account name lists every tenant's
account of that name, one after the other.  The folds and the sorted listing are again proved
by the smallest counterexample, over numbers.

**The coordinator.**  `Base` holds with any ticker.  `Alone` is that one goroutine,
on the inline path, works on the transfer, or one handler is about to start
it: a second dispatch either finds the row or has lost the insert.  With one
chain the phase of its goroutine bounds which of the five keys are posted, and
says what the row holds and for when it is due (`Stage`): a leg that is being
attempted may have posted unheard of, one that has been recorded has, one that
is being compensated for has not.  The last is what `CompensatesPosted` would
break, so the step lemma `ChainInvStep` assumes that it does not happen; the
three safety invariants follow from `Stage` and the terminal rows (`Truth`).
While every commit is heard of, what a goroutine still tries to post has not
posted (`Heard`), so neither misjudgement can happen, and `IInv` is inductive
without a condition on steps.  `PromiseKeptUnlessMisjudged` maps each posting of
a key to a movement and each write of a terminal status to the report; giving up
is a step of the promise as the money has not been returned (`Refunds`).
`PayerOK`, for the refund, needs no chain: leg 1's reversal looks the wallet up
again, and finds the one that was debited as long as that comes first.
`ViewProofs` adds `ReadOK`: what a reader has seen so far was true when it was
read, in the order of the reads, and postings are never taken back.  `ViewsStand`
needs no condition on the coordinator's decisions: `SeenOK` says that what a view
has told still stands of the books and the row (`StillSo`) and that what the next
one has read so far follows it.  The books only grow, and an end is final whatever
the coordinator has misjudged, because the one chain that could write the row
ends with it (`EndsAreFinal`).

**The directory.**  `Relies` says, phase by phase, what the row a call has read
must be worth still; it is stable because the three tables only grow
(`TablesGrow`), a revocation included.  What does not stay true of a courtesy
read, that a name, a pair or an alias is free, is re-established by the wait on
the unique index (`Free`): two calls that would write the same entry are never
both at their commit.

**Migration.**  `LockOK` and `FilesOK` tie the advisory lock to the phases inside
the migrator, and the dirty mark to the file the holder of the lock is in;
`LoginOK` says that a password on the role is that of a run whose database has
all its files.  `ClusterOK`, for `OneDatabase`, says that a run past the claim is
in the database whose marker the role carries, and that a schema is that
database's or was given up.

**Model-checked only.**  The liveness properties `EveryRequestAnswered`,
`UndisturbedEnds`, `TransferResolves` and `SomeRunSucceeds` (fairness and ENABLED
are out of the prover's reach), and that the three violations do happen.  Every other property
of a passing run is a theorem above, `LegsInOrder`, `PaidOrRefunded`,
`StatusTruthful`, `ViewConsistent` and `KeepsPromise` under the conditions named.
That the assumptions of the constants can be met is what the runs show: TLC
evaluates each of them on its instance.

## 5. Not modelled, and why

Decoding, the wire format and the choice of status codes keep no state; the
outcomes of the models keep the refusals apart as the wire does.  Metrics,
logging, console and release tooling change nothing the properties speak of.
Parsing of flags and environment, the SCRAM verifier and the redaction of secrets
are pure functions over strings.  Currency is a single constant in the code.
Generated ids enter as freshness only, timestamps as an order.  The test-only
fault seams inject what the models let happen anywhere.  The SQL of the six
migration files is a sequence of numbers: what it contains is in the constraints
the other modules obey.  PostgreSQL's deadlock detector appears as `Abort` in
`TenantDirectory`; `Ledger` has no circular wait for it to break.  `ClaimDue`
returns a batch: several transfers in one tick share nothing but the order in
which they are dispatched, so `TransferSaga` follows one; that a slow one holds up
the rest of its batch is not covered.

## 6. Plan

Done: the modules, their runs, and the theorems of section 4.

Theorems left: none of the safety properties.  `AnswersAreTrue` and the legs
of the coordinator meet in prose only (a posting is one step of `TransferSaga`
because `Ledger` implements `AtomicLedger`); a module that composes the two would
make that a theorem as well.

Models: the batch of `ClaimDue` over several transfers, once a ticker is wired.
