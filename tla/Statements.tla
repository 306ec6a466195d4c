----------------------------- MODULE Statements -----------------------------
(***************************************************************************)
(* The read models of one account, Ledger.GetBalance and                   *)
(* Ledger.GetEntries (src/internal/app/usecases.go), beside the write path *)
(* they read.                                                              *)
(*                                                                         *)
(* A statement lists an account's entries by the instant each posting read *)
(* off the clock while it held its locks, and folds them into running      *)
(* balances.  Nothing stores the order in which postings committed: that a *)
(* statement is the account's history rests on where the clock is read.    *)
(* One client makes two calls, one after the other; it reads without locks *)
(* and each call has a connection of its own.                              *)
(***************************************************************************)
EXTENDS Ledger, SequencesExt

CONSTANTS
  Operator,    \* the caller with the platform's key: ports.Unscoped()
  NoTenant,    \* no ?tenant_id= in the query
  Call,        \* the calls the client may make
  ClockError   \* ticks by which a reading may lag: coarse or skewed clocks

\* GET /accounts/{id} has no unscoped mode.
BalanceCall == [op : {"balance"}, who : Tenant, named : {NoTenant}, account : AccountId]
EntriesCall == [op : {"entries"}, who : Tenant \cup {Operator},
                named : Tenant \cup {NoTenant}, account : AccountId]

\* Nothing has been posted yet: no entry explains another opening balance.
ASSUME StatementsAssumption ==
  /\ Operator \notin Tenant /\ NoTenant \notin Tenant
  /\ ClockError \in Nat
  /\ Call \subseteq BalanceCall \cup EntriesCall
  /\ InitBalance = [row \in Row |-> 0]

VARIABLES
  now,       \* the clock, one tick for each posting that reads it
  recorded,  \* transactions.recorded_at, of the entries too
  trail,     \* history: what each entry left on its row, in commit order
  rpc,       \* where the client's call stands
  ask,       \* the call
  told,      \* history: the balance an earlier call of the client answered
  page       \* the statement, or the refusal

readVars == <<rpc, ask, told, page>>
clockVars == <<now, recorded, trail>>
statementVars == <<vars, readVars, clockVars>>

NoCall == [op |-> "none"]
Untold == [row |-> <<NoTenant, 0>>, balance |-> 0]
NoPage == [outcome |-> "none", entries |-> <<>>]

-----------------------------------------------------------------------------
\* The two entries domain.Post assembles for transaction r.
EntriesOf(r) ==
  LET c == cmd[r]
      entry(id, amount, n) ==
        [tenant |-> c.tenant, account |-> id, txn |-> r, amount |-> amount,
         at |-> recorded[r], sequence |-> n]
  IN  {entry(c.from, -c.amount, 0), entry(c.to, c.amount, 1)}

\* entriesScopeFromQuery: only the operator may name a tenant not its own.
EntriesScope(who, named) == IF who = Operator /\ named # NoTenant THEN named ELSE who

ForeignTenantNamed(c) == c.who # Operator /\ c.named \notin {NoTenant, c.who}

\* Mutant: ORDER BY tenant_id, recorded_at DESC, sequence.
BeforeNewestFirst(e, f) == e.at > f.at \/ (e.at = f.at /\ e.sequence <= f.sequence)

\* Two rows of a tenant in the order of recorded_at, sequence.
Before(e, f) == e.at < f.at \/ (e.at = f.at /\ e.sequence <= f.sequence)

\* Mutant: the query of the unscoped mode, whoever asks.
AllRowsOf(scope, id) == {e \in UNION {EntriesOf(r) : r \in posted} : e.account = id}

\* WHERE account_id = $1, and tenant_id = $2 unless unscoped.
RowsOf(scope, id) ==
  {e \in UNION {EntriesOf(r) : r \in posted} :
     e.account = id /\ (scope = Operator \/ e.tenant = scope)}

\* EntriesFor: every listing the query may return.  Tenants are kept apart, in
\* whatever order they compare, and rows with equal keys come in any order.
EntriesFor(scope, id) ==
  {s \in SetToSeqs(RowsOf(scope, id)) :
     \A i, j \in DOMAIN s : i < j =>
       IF s[i].tenant = s[j].tenant THEN Before(s[i], s[j])
       ELSE \A k \in DOMAIN s : s[k].tenant = s[i].tenant => k < j}

\* runningBalances: int64 sums, restarted where the tenant changes.
Running(s) ==
  LET sum[i \in DOMAIN s] ==
        Wrap(s[i].amount + IF i = 1 \/ s[i].tenant # s[i - 1].tenant THEN 0 ELSE sum[i - 1])
  IN  sum

-----------------------------------------------------------------------------
StatementsInit ==
  /\ Init
  /\ now = 0
  /\ recorded = [r \in Request |-> 0]
  /\ trail = [row \in Row |-> <<>>]
  /\ rpc = "idle"
  /\ ask = NoCall
  /\ told = Untold
  /\ page = NoPage

\* Mutant: the clock is read before the locks are asked for.
StampsEarly(r) == pc[r] = "lookup" /\ pc'[r] = "lockLow"

\* now := l.clock(), with both rows locked, of a posting that goes on to write.
Stamps(r) == pc[r] = "decide" /\ pc'[r] = "claim"

\* A step of the write path: what it reads off the clock, and the history of
\* the rows it commits to.
Write ==
  /\ Next
  /\ IF \E r \in Request : Stamps(r)
     THEN /\ now' = now + 1
          /\ \E r \in Request, e \in 0 .. ClockError :
               /\ Stamps(r)
               /\ recorded' = [recorded EXCEPT ![r] = now + 1 - e]
     ELSE UNCHANGED <<now, recorded>>
  /\ IF posted' = posted THEN UNCHANGED trail
     ELSE \E r \in posted' \ posted :
            LET c == cmd[r]
                from == <<c.tenant, c.from>>
                to == <<c.tenant, c.to>>
                debited == Debited(c, balance)
                afterDebit == [trail EXCEPT ![from] = Append(@, debited[from])]
            IN  trail' = [afterDebit EXCEPT ![to] = Append(@, Credited(c, debited)[to])]
  /\ UNCHANGED readVars

\* The call arrives; naming another tenant is refused before anything is read.
Ask(c) ==
  /\ rpc = "idle"
  /\ c.op = "balance" => told = Untold
  /\ ask' = c
  /\ \/ /\ ForeignTenantNamed(c)
        /\ rpc' = "done"
        /\ page' = [NoPage EXCEPT !.outcome = "unknown_account"]
     \/ /\ ~ForeignTenantNamed(c)
        /\ rpc' = "begin"
        /\ UNCHANGED page
  /\ UNCHANGED <<vars, clockVars, told>>

ReadBegin ==
  /\ rpc = "begin"
  /\ free > 0
  /\ free' = free - 1
  /\ rpc' = "account"
  /\ UNCHANGED <<dbVars, rowLock, keyLock, cmd, pc, conns, snap, answer>>
  /\ UNCHANGED <<clockVars, ask, told, page>>

\* The call returns, and its connection with it.
ReadEnd(phase, outcome, entries) ==
  /\ rpc' = phase
  /\ page' = [outcome |-> outcome, entries |-> entries]
  /\ free' = free + 1
  /\ UNCHANGED <<dbVars, rowLock, keyLock, cmd, pc, conns, snap, answer>>
  /\ UNCHANGED <<clockVars, ask>>

Scope == EntriesScope(ask.who, ask.named)

\* Accounts().Get under one tenant, ExistsAnyTenant under none.  No wallet is
\* below zero here, so buildAccount refuses no row.
AccountFound ==
  \E t \in Tenant : (Scope = Operator \/ t = Scope) /\ kind[<<t, ask.account>>] # "absent"

\* GetBalance's one read.
ReadBalance ==
  /\ rpc = "account" /\ ask.op = "balance" /\ AccountFound
  /\ told' = [row |-> <<ask.who, ask.account>>, balance |-> balance[<<ask.who, ask.account>>]]
  /\ ReadEnd("idle", "none", <<>>)

\* The existence check of GetEntries.
ReadExists ==
  /\ rpc = "account" /\ ask.op = "entries" /\ AccountFound
  /\ rpc' = "entries"
  /\ UNCHANGED <<vars, clockVars, ask, told, page>>

\* Mutant: the operator who named a tenant is told the tenant is unknown.
ReadUnknownMisnamed ==
  /\ rpc = "account" /\ ~AccountFound
  /\ ReadEnd("done", "tenant_not_found", <<>>)
  /\ UNCHANGED told

ReadUnknown ==
  /\ rpc = "account" /\ ~AccountFound
  /\ ReadEnd("done", "unknown_account", <<>>)
  /\ UNCHANGED told

\* EntriesFor, a second statement, and the fold.
ReadEntries ==
  /\ rpc = "entries"
  /\ \E s \in EntriesFor(Scope, ask.account) :
       ReadEnd("done", "listed",
               [i \in DOMAIN s |-> [tenant |-> s[i].tenant, txn |-> s[i].txn,
                                    running |-> Running(s)[i]]])
  /\ UNCHANGED told

\* A statement of the call fails, or its process ends.
ReadFails ==
  /\ rpc \in {"account", "entries"}
  /\ ReadEnd("done", "internal_error", <<>>)
  /\ UNCHANGED told

StatementsNext ==
  \/ Write
  \/ \E c \in Call : Ask(c)
  \/ ReadBegin \/ ReadBalance \/ ReadExists \/ ReadUnknown \/ ReadEntries \/ ReadFails

StatementsSpec == StatementsInit /\ [][StatementsNext]_statementVars

-----------------------------------------------------------------------------
\* Types; a statement carries running balances an int64 holds.
StatementsTypeOK ==
  /\ TypeOK
  /\ now \in Nat
  /\ recorded \in [Request -> Int]
  /\ trail \in [Row -> Seq(Word)]
  /\ rpc \in {"idle", "begin", "account", "entries", "done"}
  /\ ask \in Call \cup {NoCall}
  /\ told.balance \in Word
  /\ page.outcome \in {"none", "listed", "unknown_account", "internal_error"}
  /\ \A i \in DOMAIN page.entries : page.entries[i].running \in Word

\* A statement is the history of its account, for every tenant it covers: the
\* tenant's entries are one block of it, whose running balances are, one by one
\* and in this order, the balances postings have left behind, whoever commits in
\* between and however the clock's order relates to the order of arrival
\* (usecases.go:164, 573-602).  So a wallet's statement never dips below zero
\* and closes on the stored balance.
StatementIsHistory ==
  [][rpc = "entries" /\ page'.outcome = "listed" =>
       \A t \in Tenant :
         LET mine == {i \in DOMAIN page'.entries : page'.entries[i].tenant = t}
             left == trail[<<t, ask.account>>]
         IN  IF Scope \in {t, Operator}
             THEN \E b \in {0} \cup DOMAIN page'.entries :
                    /\ mine = b + 1 .. b + Len(left)
                    /\ \A i \in 1 .. Len(left) : page'.entries[b + i].running = left[i]
             ELSE mine = {}]_statementVars

\* A balance the client was told of is explained by the statement it asks for
\* next: the two calls are separate transactions, yet the statement never
\* lacks the entries behind the balance (usecases.go:502, 549).
StatementExplainsBalance ==
  page.outcome = "listed" /\ told # Untold
    /\ ask.account = told.row[2] /\ Scope \in {Operator, told.row[1]}
    => \/ told.balance = 0
       \/ \E i \in DOMAIN page.entries : /\ page.entries[i].tenant = told.row[1]
                                         /\ page.entries[i].running = told.balance

\* I9: tenants share account names and one table of entries, and no tenant's
\* key reads another's entries, whatever it puts in the query; nor does it
\* learn whether the other tenant has such an account (handlers.go:320).
TenantsReadTheirOwn ==
  ask # NoCall /\ ask.who # Operator =>
    /\ \A i \in DOMAIN page.entries : page.entries[i].tenant = ask.who
    /\ rpc = "done" /\ ForeignTenantNamed(ask) => page.outcome = "unknown_account"
=============================================================================
