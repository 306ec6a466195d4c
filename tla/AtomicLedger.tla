---------------------------- MODULE AtomicLedger ----------------------------
(***************************************************************************)
(* What the ledger promises its callers: every request takes effect in one *)
(* indivisible step between its arrival and its answer, and the answer is  *)
(* the one that step calls for.  There are no locks, connections or         *)
(* transactions here, and no int64: amounts that do not fit are refused.   *)
(***************************************************************************)
EXTENDS Integers

CONSTANTS Request, Tenant, AccountId, Key, Command, MaxInt, InitKind, InitBalance, None

VARIABLES kind, balance, posted, claims, cmd, status, missed, answer

vars == <<kind, balance, posted, claims, cmd, status, missed, answer>>

Row == Tenant \X AccountId
Word == (-MaxInt - 1) .. MaxInt
FromRow(c) == <<c.tenant, c.from>>
ToRow(c) == <<c.tenant, c.to>>
SameBody(c, d) == c.from = d.from /\ c.to = d.to /\ c.amount = d.amount

Init ==
  /\ kind = InitKind
  /\ balance = InitBalance
  /\ posted = {}
  /\ claims = [k \in Key |-> None]
  /\ cmd = [r \in Request |-> [op |-> "none"]]
  /\ status = [r \in Request |-> "idle"]
  /\ missed = {}
  /\ answer = [r \in Request |-> [outcome |-> "none", txn |-> None]]

Arrive(r, c) ==
  /\ status[r] = "idle"
  /\ status' = [status EXCEPT ![r] = "pending"]
  /\ cmd' = [cmd EXCEPT ![r] = c]
  /\ UNCHANGED <<kind, balance, posted, claims, missed, answer>>

Reply(r, outcome, txn) ==
  /\ status[r] = "pending"
  /\ status' = [status EXCEPT ![r] = "done"]
  /\ answer' = [answer EXCEPT ![r] = [outcome |-> outcome, txn |-> txn]]
  /\ UNCHANGED <<cmd, missed>>

\* The movement takes place: both accounts are there, the key is new, a wallet
\* can cover what leaves it.  The caller may never learn of it.
PostTransfer(r) ==
  LET c == cmd[r]
  IN  /\ c.op = "transfer" /\ c.amount > 0
      /\ claims[c.key] = None
      /\ kind[FromRow(c)] # "absent" /\ kind[ToRow(c)] # "absent"
      /\ kind[FromRow(c)] = "wallet" => balance[FromRow(c)] >= c.amount
      /\ balance' = [[balance EXCEPT ![FromRow(c)] = @ - c.amount]
                              EXCEPT ![ToRow(c)] = @ + c.amount]
      /\ \A row \in Row : balance'[row] \in Word
      /\ posted' = posted \cup {r}
      /\ claims' = [claims EXCEPT ![c.key] = r]
      /\ Reply(r, "posted", r) \/ Reply(r, "internal_error", None)
      /\ UNCHANGED kind

CreateAccount(r) ==
  LET c == cmd[r]
  IN  /\ c.op = "open"
      /\ kind[<<c.tenant, c.id>>] = "absent"
      /\ kind' = [kind EXCEPT ![<<c.tenant, c.id>>] = c.kind]
      /\ Reply(r, "opened", None) \/ Reply(r, "internal_error", None)
      /\ UNCHANGED <<balance, posted, claims>>

\* A pending request finds one of its accounts not there.
Miss(r) ==
  /\ status[r] = "pending" /\ cmd[r].op = "transfer"
  /\ kind[FromRow(cmd[r])] = "absent" \/ kind[ToRow(cmd[r])] = "absent"
  /\ missed' = missed \cup {r}
  /\ UNCHANGED <<kind, balance, posted, claims, cmd, status, answer>>

\* The grounds on which a request is refused or replayed, as they stand when
\* it is answered.
Grounds(r, outcome, txn) ==
  LET c == cmd[r]
  IN  \/ outcome = "invalid_amount" /\ c.op = "transfer" /\ c.amount <= 0 /\ txn = None
      \/ outcome = "unknown_account" /\ r \in missed /\ txn = None
      \/ /\ outcome = "insufficient_funds" /\ c.op = "transfer" /\ txn = None
         /\ \/ kind[FromRow(c)] = "wallet" /\ balance[FromRow(c)] < c.amount
            \/ kind[ToRow(c)] = "wallet" /\ balance[ToRow(c)] + c.amount > MaxInt
      \/ /\ outcome = "idempotency_key_conflict" /\ c.op = "transfer" /\ txn = None
         /\ claims[c.key] # None /\ ~SameBody(cmd[claims[c.key]], c)
      \/ /\ outcome = "replayed" /\ c.op = "transfer"
         /\ txn = claims[c.key] /\ txn # None
         /\ SameBody(cmd[txn], c) /\ cmd[txn].tenant = c.tenant
      \/ /\ outcome = "account_already_exists" /\ c.op = "open" /\ txn = None
         /\ kind[<<c.tenant, c.id>>] # "absent"
      \/ outcome = "internal_error" /\ txn = None

Outcome == {"invalid_amount", "unknown_account", "insufficient_funds", "replayed",
            "idempotency_key_conflict", "account_already_exists", "internal_error"}

Decline(r) ==
  /\ \E outcome \in Outcome, txn \in Request \cup {None} :
       Grounds(r, outcome, txn) /\ Reply(r, outcome, txn)
  /\ UNCHANGED <<kind, balance, posted, claims>>

Next ==
  \E r \in Request :
    \/ \E c \in Command : Arrive(r, c)
    \/ PostTransfer(r) \/ CreateAccount(r) \/ Miss(r) \/ Decline(r)

Spec == Init /\ [][Next]_vars
=============================================================================
