------------------------------- MODULE Ledger -------------------------------
(***************************************************************************)
(* The write path of the ledger: Ledger.PostTransfer and                   *)
(* Ledger.CreateAccount (src/internal/app/usecases.go) over the PostgreSQL *)
(* adapter (src/internal/adapters/postgres).                               *)
(*                                                                         *)
(* Every request runs in a goroutine of its own.  A step of this model is  *)
(* one SQL statement of the unit of work or one wait for it: a connection  *)
(* of the pool, a row lock, another transaction's uncommitted key.  What a *)
(* unit of work has written is invisible to the others until its commit,   *)
(* so the uncommitted writes are not variables: they are what Commit does. *)
(*                                                                         *)
(* A transaction is named by the request that posts it.                    *)
(***************************************************************************)
EXTENDS Integers

CONSTANTS
  Request,      \* concurrent calls of the two use cases
  Tenant,       \* tenant_id values
  AccountId,    \* account ids, as integers in their string order
  Key,          \* idempotency keys
  Command,      \* the request bodies that may be submitted
  MaxInt,       \* largest value of an int64 / bigint: 2^63 - 1 in the code
  PoolSize,     \* connections of the pgx pool
  InitKind,     \* the accounts already open when the model starts
  InitBalance,  \* and their balances
  None          \* no request

Row == Tenant \X AccountId
AccountKind == {"wallet", "system"}
RowKind == AccountKind \cup {"absent"}
Word == (-MaxInt - 1) .. MaxInt

\* A body of POST /transfers, and the arguments of CreateAccount.
TransferCommand == [op : {"transfer"}, tenant : Tenant, from : AccountId,
                    to : AccountId, amount : Word, key : Key]
OpenCommand == [op : {"open"}, tenant : Tenant, id : AccountId, kind : AccountKind]

ASSUME LedgerAssumption ==
  /\ AccountId \subseteq Int
  /\ MaxInt \in Nat \ {0}
  /\ PoolSize \in Nat \ {0}
  /\ None \notin Request
  /\ Command \subseteq TransferCommand \cup OpenCommand
  /\ InitKind \in [Row -> RowKind]
  /\ InitBalance \in [Row -> Word]
  /\ \A row \in Row : InitKind[row] = "wallet" => InitBalance[row] >= 0
  /\ \A row \in Row : InitKind[row] = "absent" => InitBalance[row] = 0

VARIABLES
  kind,     \* accounts.kind of every committed row, "absent" if there is none
  balance,  \* accounts.balance_minor of every committed row
  posted,   \* committed transactions, with their two entries
  claims,   \* idempotency_keys: the transaction a committed key names
  rowLock,  \* the unit of work that locked (or has inserted) a row
  keyLock,  \* the unit of work whose insert of a key is not yet committed
  free,     \* idle connections of the pool
  cmd,      \* what each request asks for
  pc,       \* where each request stands
  conns,    \* connections each request holds: one per nested PostTransfer
  snap,     \* the account snapshots LockForUpdate returned
  answer    \* what the caller is told

dbVars == <<kind, balance, posted, claims>>
vars == <<kind, balance, posted, claims, rowLock, keyLock, free,
          cmd, pc, conns, snap, answer>>

Phase == {"idle", "begin", "lookup", "render", "lockLow", "lockHigh", "decide",
          "claim", "commit", "check", "insert", "done"}
Refusal == {"invalid_amount", "unknown_account", "insufficient_funds"}
Outcome == Refusal \cup {"none", "posted", "replayed", "idempotency_key_conflict",
                         "opened", "account_already_exists", "internal_error"}
Answer == [outcome : Outcome, txn : Request \cup {None}]
NoAnswer == [outcome |-> "none", txn |-> None]

\* One account as the pure core sees it; "unread" until its lock is granted.
Snapshot == [kind : RowKind \cup {"unread"}, balance : Word]
Unread == [kind |-> "unread", balance |-> 0]
NoCommand == [op |-> "none"]

-----------------------------------------------------------------------------
(* Arithmetic and the pure core                                            *)

\* Money.Add: int64 addition wraps around.
Wrap(n) == IF n > MaxInt THEN n - 2 * (MaxInt + 1)
           ELSE IF n < -MaxInt - 1 THEN n + 2 * (MaxInt + 1) ELSE n

\* Mutant: a wallet may not be emptied either.
TakesToZero(s, delta) == s.kind = "wallet" /\ Wrap(s.balance + delta) <= 0

\* Account.Apply refuses the delta.
TakesBelowZero(s, delta) == s.kind = "wallet" /\ Wrap(s.balance + delta) < 0

\* domain.Post's checks on the snapshots s, in its order; "posted" if none
\* refuses.
Post(c, s) ==
  IF c.amount <= 0 THEN "invalid_amount"
  ELSE IF s[c.from].kind = "absent" \/ s[c.to].kind = "absent" THEN "unknown_account"
  ELSE IF TakesBelowZero(s[c.from], -c.amount) THEN "insufficient_funds"
  ELSE IF TakesBelowZero(s[c.to], c.amount) THEN "insufficient_funds"
  ELSE "posted"

\* The two UPDATEs of ApplyDeltas, in order, on the balances b: a result that
\* is no bigint fails the statement.
Debited(c, b) == [b EXCEPT ![<<c.tenant, c.from>>] = @ - c.amount]
\* Mutant: the second UPDATE sets the balance rather than adding to it.
CreditSets(c, b) == [b EXCEPT ![<<c.tenant, c.to>>] = c.amount]

Credited(c, b) == [b EXCEPT ![<<c.tenant, c.to>>] = @ + c.amount]
\* Mutant: no range check on the stored balance.
DeltasUnchecked(c, b) == TRUE

DeltasFit(c, b) ==
  /\ Debited(c, b)[<<c.tenant, c.from>>] \in Word
  /\ Credited(c, Debited(c, b))[<<c.tenant, c.to>>] \in Word

\* fingerprintTransfer: the parsed body, without the tenant.
Fingerprint(c) == <<c.from, c.to, c.amount>>

\* Mutant: the row locks in the order the body names the accounts.
FirstNamed(c) == c.from

\* dedupedSorted: the order in which LockForUpdate asks for the row locks.
Low(c) == IF c.from <= c.to THEN c.from ELSE c.to
High(c) == IF Low(c) = c.from THEN c.to ELSE c.from

-----------------------------------------------------------------------------
Init ==
  /\ kind = InitKind
  /\ balance = InitBalance
  /\ posted = {}
  /\ claims = [k \in Key |-> None]
  /\ rowLock = [row \in Row |-> None]
  /\ keyLock = [k \in Key |-> None]
  /\ free = PoolSize
  /\ cmd = [r \in Request |-> NoCommand]
  /\ pc = [r \in Request |-> "idle"]
  /\ conns = [r \in Request |-> 0]
  /\ snap = [r \in Request |-> [id \in AccountId |-> Unread]]
  /\ answer = [r \in Request |-> NoAnswer]

Goto(r, phase) == pc' = [pc EXCEPT ![r] = phase]

\* The request returns: its unit of work ends, and with it the deferred
\* rollbacks of the calls it is nested in.
Finish(r, outcome, txn) ==
  /\ Goto(r, "done")
  /\ answer' = [answer EXCEPT ![r] = [outcome |-> outcome, txn |-> txn]]
  /\ rowLock' = [row \in Row |-> IF rowLock[row] = r THEN None ELSE rowLock[row]]
  /\ keyLock' = [k \in Key |-> IF keyLock[k] = r THEN None ELSE keyLock[k]]
  /\ free' = free + conns[r]
  /\ conns' = [conns EXCEPT ![r] = 0]
  /\ UNCHANGED <<cmd, snap>>

\* A request arrives at its handler.
Submit(r, c) ==
  /\ pc[r] = "idle"
  /\ cmd' = [cmd EXCEPT ![r] = c]
  /\ Goto(r, "begin")
  /\ UNCHANGED <<dbVars, rowLock, keyLock, free, conns, snap, answer>>

\* Store.Begin takes a connection of the pool, waiting for one if it must.
Begin(r) ==
  /\ pc[r] = "begin"
  /\ free > 0
  /\ free' = free - 1
  /\ conns' = [conns EXCEPT ![r] = @ + 1]
  /\ Goto(r, IF cmd[r].op = "open" THEN "check" ELSE "lookup")
  /\ UNCHANGED <<dbVars, rowLock, keyLock, cmd, snap, answer>>

\* IdempotencyStore.Lookup, and the conflict it can reveal.
Lookup(r) ==
  /\ pc[r] = "lookup"
  /\ LET winner == claims[cmd[r].key]
     IN  \/ /\ winner # None
            /\ Fingerprint(cmd[winner]) # Fingerprint(cmd[r])
            /\ Finish(r, "idempotency_key_conflict", None)
         \/ /\ winner # None
            /\ Fingerprint(cmd[winner]) = Fingerprint(cmd[r])
            /\ Goto(r, "render")
            /\ UNCHANGED <<rowLock, keyLock, free, cmd, conns, snap, answer>>
         \/ /\ winner = None
            /\ Goto(r, "lockLow")
            /\ UNCHANGED <<rowLock, keyLock, free, cmd, conns, snap, answer>>
  /\ UNCHANGED dbVars

\* Mutant: the claimed transaction is read without its tenant.
RenderUnscoped(r) ==
  /\ pc[r] = "render"
  /\ Finish(r, "replayed", claims[cmd[r].key])
  /\ UNCHANGED dbVars

\* A replay: Transactions.Get finds the claimed transaction only under the
\* tenant that posted it.
Render(r) ==
  /\ pc[r] = "render"
  /\ LET winner == claims[cmd[r].key]
     IN  IF cmd[winner].tenant = cmd[r].tenant
         THEN Finish(r, "replayed", winner)
         ELSE Finish(r, "internal_error", None)
  /\ UNCHANGED dbVars

\* NewAccount: a wallet is not below zero.
WalletLegal(row) == kind[row] = "wallet" => balance[row] >= 0

\* Mutant: a SELECT without FOR UPDATE.
ReadOne(r, id) ==
  LET row == <<cmd[r].tenant, id>>
  IN  /\ snap' = [snap EXCEPT ![r][id] = [kind |-> kind[row], balance |-> balance[row]]]
      /\ UNCHANGED rowLock

\* lockOne: SELECT ... FOR UPDATE waits for the row's lock and reads the row's
\* last committed version; a row that is not there is no reason to wait.
LockOne(r, id) ==
  LET row == <<cmd[r].tenant, id>>
  IN  \/ /\ kind[row] = "absent"
         /\ snap' = [snap EXCEPT ![r][id] = [kind |-> "absent", balance |-> 0]]
         /\ UNCHANGED rowLock
      \/ /\ kind[row] # "absent" /\ WalletLegal(row)
         /\ rowLock[row] = None
         /\ rowLock' = [rowLock EXCEPT ![row] = r]
         /\ snap' = [snap EXCEPT ![r][id] = [kind |-> kind[row], balance |-> balance[row]]]

\* buildAccount refuses a row that is a wallet below zero, which only a change
\* made behind the ledger's back can leave: the transfer fails with that
\* refusal, credits to the account included.
RejectRow(r, id) ==
  LET row == <<cmd[r].tenant, id>>
  IN  /\ ~WalletLegal(row)
      /\ rowLock[row] = None
      /\ Finish(r, "insufficient_funds", None)

LockLow(r) ==
  /\ pc[r] = "lockLow"
  /\ \/ /\ LockOne(r, Low(cmd[r]))
        /\ Goto(r, IF Low(cmd[r]) = High(cmd[r]) THEN "decide" ELSE "lockHigh")
        /\ UNCHANGED <<keyLock, free, cmd, conns, answer>>
     \/ RejectRow(r, Low(cmd[r]))
  /\ UNCHANGED dbVars

LockHigh(r) ==
  /\ pc[r] = "lockHigh"
  /\ \/ /\ LockOne(r, High(cmd[r]))
        /\ Goto(r, "decide")
        /\ UNCHANGED <<keyLock, free, cmd, conns, answer>>
     \/ RejectRow(r, High(cmd[r]))
  /\ UNCHANGED dbVars

\* domain.Post, then Append and ApplyDeltas inside the unit of work.
Decide(r) ==
  /\ pc[r] = "decide"
  /\ LET verdict == Post(cmd[r], snap[r])
     IN  \/ /\ verdict # "posted"
            /\ Finish(r, verdict, None)
         \/ /\ verdict = "posted"
            /\ ~DeltasFit(cmd[r], balance)
            /\ Finish(r, "internal_error", None)
         \/ /\ verdict = "posted"
            /\ DeltasFit(cmd[r], balance)
            /\ Goto(r, "claim")
            /\ UNCHANGED <<rowLock, keyLock, free, cmd, conns, snap, answer>>
  /\ UNCHANGED dbVars

\* Mutant: a plain overwrite of the key.
ClaimOverwrites(r) ==
  /\ pc[r] = "claim"
  /\ keyLock[cmd[r].key] = None
  /\ keyLock' = [keyLock EXCEPT ![cmd[r].key] = r]
  /\ Goto(r, "commit")
  /\ UNCHANGED <<dbVars, rowLock, free, cmd, conns, snap, answer>>

\* Mutant: an insert that gives up rather than wait for the key's holder.
ClaimNoWait(r) ==
  /\ pc[r] = "claim"
  /\ LET k == cmd[r].key
     IN  \/ /\ keyLock[k] = None /\ claims[k] = None
            /\ keyLock' = [keyLock EXCEPT ![k] = r]
            /\ Goto(r, "commit")
         \/ /\ keyLock[k] # None \/ claims[k] # None
            /\ Goto(r, "begin")
            /\ UNCHANGED keyLock
  /\ UNCHANGED <<dbVars, rowLock, free, cmd, conns, snap, answer>>

\* IdempotencyStore.Claim: INSERT ... ON CONFLICT DO NOTHING waits for the
\* transaction that holds the key.  The loser calls PostTransfer again while
\* its own unit of work, locks and connection included, is still open.
Claim(r) ==
  /\ pc[r] = "claim"
  /\ LET k == cmd[r].key
     IN  /\ keyLock[k] = None
         /\ \/ /\ claims[k] = None
               /\ keyLock' = [keyLock EXCEPT ![k] = r]
               /\ Goto(r, "commit")
            \/ /\ claims[k] # None
               /\ Goto(r, "begin")
               /\ UNCHANGED keyLock
  /\ UNCHANGED <<dbVars, rowLock, free, cmd, conns, snap, answer>>

\* accountAlreadyOpen, the courtesy read of CreateAccount: it builds the
\* account, and a row that cannot be built ends the call with that refusal.
Check(r) ==
  /\ pc[r] = "check"
  /\ LET row == <<cmd[r].tenant, cmd[r].id>>
     IN  \/ /\ kind[row] # "absent" /\ WalletLegal(row)
            /\ Finish(r, "account_already_exists", None)
         \/ /\ ~WalletLegal(row)
            /\ Finish(r, "insufficient_funds", None)
         \/ /\ kind[row] = "absent"
            /\ Goto(r, "insert")
            /\ UNCHANGED <<rowLock, keyLock, free, cmd, conns, snap, answer>>
  /\ UNCHANGED dbVars

\* AccountRepository.Create: the primary key makes the second insert of a row
\* wait for the first, and fail if that one commits.
Insert(r) ==
  /\ pc[r] = "insert"
  /\ LET row == <<cmd[r].tenant, cmd[r].id>>
     IN  \/ /\ kind[row] # "absent"
            /\ Finish(r, "internal_error", None)
         \/ /\ kind[row] = "absent"
            /\ rowLock[row] = None
            /\ rowLock' = [rowLock EXCEPT ![row] = r]
            /\ Goto(r, "commit")
            /\ UNCHANGED <<keyLock, free, cmd, conns, snap, answer>>
  /\ UNCHANGED dbVars

\* What the unit of work of r has written becomes visible, all of it at once.
MakeDurable(r) ==
  LET c == cmd[r]
  IN  \/ /\ c.op = "transfer"
         /\ balance' = Credited(c, Debited(c, balance))
         /\ posted' = posted \cup {r}
         /\ claims' = [claims EXCEPT ![c.key] = r]
         /\ UNCHANGED kind
      \/ /\ c.op = "open"
         /\ kind' = [kind EXCEPT ![<<c.tenant, c.id>>] = c.kind]
         /\ balance' = [balance EXCEPT ![<<c.tenant, c.id>>] = 0]
         /\ UNCHANGED <<posted, claims>>

Commit(r) ==
  /\ pc[r] = "commit"
  /\ MakeDurable(r)
  /\ IF cmd[r].op = "transfer" THEN Finish(r, "posted", r) ELSE Finish(r, "opened", None)

\* The commit took effect and the caller is told that it failed: the
\* connection, the request's context or the process ended before the answer.
CommitUnheard(r) ==
  /\ pc[r] = "commit"
  /\ MakeDurable(r)
  /\ Finish(r, "internal_error", None)

\* A statement, the commit or the process fails: everything is rolled back.
Abort(r) ==
  /\ pc[r] \notin {"idle", "done"}
  /\ Finish(r, "internal_error", None)
  /\ UNCHANGED dbVars

Step(r) ==
  \/ Begin(r) \/ Lookup(r) \/ Render(r) \/ LockLow(r) \/ LockHigh(r)
  \/ Decide(r) \/ Claim(r) \/ Check(r) \/ Insert(r) \/ Commit(r)

AllAnswered == \A r \in Request : pc[r] = "done"

Next ==
  \/ \E r \in Request : (\E c \in Command : Submit(r, c)) \/ Step(r)
                        \/ CommitUnheard(r) \/ Abort(r)
  \/ AllAnswered /\ UNCHANGED vars

Spec == Init /\ [][Next]_vars

\* The scheduler runs every goroutine, the pool and PostgreSQL hand out what
\* is free: a request that can take a step takes one.  Failures are not fair.
FairSpec == Spec /\ \A r \in Request : WF_vars(Step(r))

-----------------------------------------------------------------------------
\* Types; above all, every committed balance is an int64 (ApplyDeltas fails
\* rather than store another).
TypeOK ==
  /\ kind \in [Row -> RowKind]
  /\ balance \in [Row -> Word]
  /\ posted \subseteq Request
  /\ claims \in [Key -> Request \cup {None}]
  /\ rowLock \in [Row -> Request \cup {None}]
  /\ keyLock \in [Key -> Request \cup {None}]
  /\ free \in Nat
  /\ cmd \in [Request -> Command \cup {NoCommand}]
  /\ pc \in [Request -> Phase]
  /\ conns \in [Request -> Nat]
  /\ snap \in [Request -> [AccountId -> Snapshot]]
  /\ answer \in [Request -> Answer]

\* I4: no interleaving of postings takes a wallet below zero, although each
\* decides on a snapshot it read earlier in its transaction (usecases.go:160).
WalletsNeverNegative ==
  \A row \in Row : kind[row] = "wallet" => balance[row] >= 0

\* I7: a key names at most one transaction, and the key and the transaction
\* it names become durable together, whatever fails in between (ADR-005).
KeyedExactlyOnce ==
  /\ \A r \in posted : claims[cmd[r].key] = r
  /\ \A k \in Key : claims[k] # None => claims[k] \in posted /\ cmd[claims[k]].key = k

\* A caller who lost the race for its key, and so calls PostTransfer again
\* from inside its own open unit of work, "is now guaranteed to find the
\* winner's committed claim" (usecases.go:189-198): it never asks for a row
\* lock its own outer transaction holds.
LoserFindsWinner ==
  \A r \in Request :
    pc[r] # "done" /\ (conns[r] > 1 \/ (pc[r] = "begin" /\ conns[r] = 1))
      => /\ claims[cmd[r].key] # None
         /\ pc[r] \in {"begin", "lookup", "render"}

\* What the caller is told is what the books say, for every answer that is
\* not an error: a posting it was told of is there, a replay names the one
\* posting of that key by the same tenant with the same body, and a refusal or
\* a conflict has posted nothing.
AnswersTruthful ==
  \A r \in Request :
    LET a == answer[r]
    IN  /\ a.outcome = "posted" => r \in posted
        /\ a.outcome = "replayed" =>
             /\ a.txn \in posted \ {r}
             /\ cmd[a.txn].key = cmd[r].key
             /\ cmd[a.txn].tenant = cmd[r].tenant
             /\ Fingerprint(cmd[a.txn]) = Fingerprint(cmd[r])
        /\ a.outcome \in Refusal \cup {"replayed"} => r \notin posted
        /\ a.outcome = "idempotency_key_conflict" =>
             /\ r \notin posted
             /\ \E w \in posted : /\ cmd[w].key = cmd[r].key
                                  /\ Fingerprint(cmd[w]) # Fingerprint(cmd[r])

\* Liveness: a request that was accepted is answered; requests that lock the
\* same accounts or claim the same key queue, and never wait on one another in
\* a circle (accounts.go:25-29).
EveryRequestAnswered == \A r \in Request : pc[r] = "begin" ~> pc[r] = "done"

\* Locks, snapshots, retries and lost commits are invisible from outside: each
\* request takes effect atomically (AtomicLedger), the refusals it is given
\* included.
Atomic == INSTANCE AtomicLedger WITH
  status <- [r \in Request |->
               IF pc[r] \in {"idle", "done"} THEN pc[r] ELSE "pending"],
  missed <- {r \in Request : \E id \in AccountId : snap[r][id].kind = "absent"}
RequestsAreAtomic == Atomic!Spec
=============================================================================
