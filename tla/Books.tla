------------------------------- MODULE Books --------------------------------
(***************************************************************************)
(* The operator's verdict, Ledger.VerifyBooks, beside the write path it    *)
(* reads, and the out-of-band alterations it exists to find.               *)
(*                                                                         *)
(* VerifyBooks runs three SELECTs in one transaction at PostgreSQL's       *)
(* default isolation level, READ COMMITTED (Store.Begin sets no other), so *)
(* each of them sees what is committed when it starts, and postings commit *)
(* between them.                                                           *)
(***************************************************************************)
EXTENDS Ledger, Functions

CONSTANTS
  AllTenants,   \* ports.Unscoped()
  Provisioned,  \* the tenants that exist
  AlterDelta,   \* amounts of an out-of-band alteration
  MaxTampers    \* bound on the number of alterations

ASSUME BooksAssumption ==
  /\ Provisioned \subseteq Tenant
  /\ AllTenants \notin Tenant
  /\ AlterDelta \subseteq Int
  /\ MaxTampers \in Nat

VARIABLES
  vpc,       \* where the verification stands
  scope,     \* whose books it scans
  stored,    \* AccountRepository.All: the rows it read
  computed,  \* TransactionRepository.ComputedBalances: the sums it read
  report,    \* BooksReport, or the refusal
  edits,     \* sum of what was changed out of band in an account's entries
  tampers,   \* number of out-of-band alterations so far
  overlap    \* history: what was committed since the scan's first read

scanVars == <<vpc, scope, stored, computed, report, overlap>>
tamperVars == <<edits, tampers>>
bookVars == <<vars, scanVars, tamperVars>>

NoReport == [verdict |-> "none", drifted |-> {}, trialBalance |-> 0]

-----------------------------------------------------------------------------
\* The signed amount transaction r enters on a row: its two entries.
EntryAmount(r, row) ==
  LET c == cmd[r]
  IN  (IF row = <<c.tenant, c.from>> THEN -c.amount ELSE 0)
      + (IF row = <<c.tenant, c.to>> THEN c.amount ELSE 0)

\* SELECT SUM(amount_minor) ... GROUP BY tenant_id, account_id: the entries
\* behind InitBalance, those of the transactions posted since, and what was
\* done to them out of band.
EntrySum(row) ==
  InitBalance[row] + edits[row] + SumFunction([r \in posted |-> EntryAmount(r, row)])

InScope(row) == scope = AllTenants \/ row[1] = scope
OpenRows == {row \in Row : kind[row] # "absent"}

\* Mutant: only a balance that is short counts as drift.
DriftedBelow(rows, balances, sums) == {row \in rows : balances[row] < sums[row]}

\* driftedAccounts: the rows the scan read whose balance is not the sum.
Drifted(rows, balances, sums) == {row \in rows : balances[row] # sums[row]}

\* The rows that have really drifted, now.
ActualDrift == {row \in OpenRows : balance[row] # EntrySum(row)}

BooksInit ==
  /\ Init
  /\ vpc = "idle"
  /\ scope = AllTenants
  /\ stored = [row \in {} |-> 0]
  /\ computed = [row \in {} |-> 0]
  /\ report = NoReport
  /\ edits = [row \in Row |-> 0]
  /\ tampers = 0
  /\ overlap = "nothing"

\* GET /health/trial-balance, unscoped or for one tenant, takes a connection.
VerifyBegin(s) ==
  /\ vpc = "idle"
  /\ free > 0
  /\ free' = free - 1
  /\ vpc' = "tenant"
  /\ scope' = s
  /\ UNCHANGED <<dbVars, rowLock, keyLock, cmd, pc, conns, snap, answer>>
  /\ UNCHANGED <<stored, computed, report, overlap, tamperVars>>

VerifyEnd(verdict) ==
  /\ vpc' = "done"
  /\ report' = verdict
  /\ free' = free + 1
  /\ UNCHANGED <<dbVars, rowLock, keyLock, cmd, pc, conns, snap, answer>>
  /\ UNCHANGED <<scope, stored, computed, overlap, tamperVars>>

\* Mutant: an unknown tenant is refused as an unknown account.
VerifyTenantMisnamed ==
  /\ vpc = "tenant"
  /\ scope \notin Provisioned \cup {AllTenants}
  /\ VerifyEnd([NoReport EXCEPT !.verdict = "unknown_account"])

\* The existence check, Tenants().ByID, ahead of every scan.
VerifyTenant ==
  /\ vpc = "tenant"
  /\ \/ /\ scope \notin Provisioned \cup {AllTenants}
        /\ VerifyEnd([NoReport EXCEPT !.verdict = "tenant_not_found"])
     \/ /\ scope \in Provisioned \cup {AllTenants}
        /\ vpc' = "accounts"
        /\ UNCHANGED <<vars, scope, stored, computed, report, overlap, tamperVars>>

\* AccountRepository.All builds a domain.Account from every row: a wallet
\* below zero cannot be built and its refusal ends the scan.
ReadAccounts ==
  /\ vpc = "accounts"
  /\ LET rows == {row \in OpenRows : InScope(row)}
     IN  \/ /\ \E row \in rows : ~WalletLegal(row)
            /\ VerifyEnd([NoReport EXCEPT !.verdict = "insufficient_funds"])
         \/ /\ \A row \in rows : WalletLegal(row)
            /\ stored' = [row \in rows |-> balance[row]]
            /\ overlap' = "nothing"
            /\ vpc' = "computed"
            /\ UNCHANGED <<vars, scope, computed, report, tamperVars>>

ReadComputed ==
  /\ vpc = "computed"
  /\ computed' = [row \in {x \in Row : InScope(x)} |-> EntrySum(row)]
  /\ vpc' = "trial"
  /\ UNCHANGED <<vars, scope, stored, report, overlap, tamperVars>>

\* The trial balance, the comparison and the verdict, which looks at the
\* drifted accounts only.
ReadTrialBalance ==
  /\ vpc = "trial"
  /\ LET drifted == Drifted(DOMAIN stored, stored, computed)
     IN  VerifyEnd([verdict |-> IF drifted = {} THEN "YES" ELSE "NO",
                    drifted |-> drifted,
                    trialBalance |->
                      SumFunction([row \in {x \in Row : InScope(x)} |-> EntrySum(row)])])

\* A statement of the scan fails, or its process ends.
VerifyFails ==
  /\ vpc \notin {"idle", "done"}
  /\ VerifyEnd([NoReport EXCEPT !.verdict = "internal_error"])

Scan ==
  \/ \E s \in Tenant \cup {AllTenants} : VerifyBegin(s)
  \/ VerifyTenant \/ ReadAccounts \/ ReadComputed \/ ReadTrialBalance \/ VerifyFails

\* The rows an alteration that names no tenant is about: every tenant's account
\* of that id.
SameName(row) == {other \in OpenRows : other[2] = row[2]}

\* alterStoredBalanceOutOfBand: an UPDATE of its own, which waits for the row
\* locks like any other.
AlterStoredBalance(rows, delta) ==
  /\ \A row \in rows : rowLock[row] = None /\ balance[row] + delta \in Word
  /\ balance' = [row \in Row |-> IF row \in rows THEN balance[row] + delta ELSE balance[row]]
  /\ UNCHANGED <<kind, posted, claims, edits>>

\* alterEntryOutOfBand: the amount of one recorded entry, with the trigger off.
AlterEntry(row, delta) ==
  /\ \E r \in posted : EntryAmount(r, row) # 0
  /\ edits' = [edits EXCEPT ![row] = @ + delta]
  /\ UNCHANGED dbVars

\* eraseEntryOutOfBand: one recorded entry is gone.
EraseEntry(row) ==
  /\ \E r \in posted : /\ EntryAmount(r, row) # 0
                       /\ edits' = [edits EXCEPT ![row] = @ - EntryAmount(r, row)]
  /\ edits[row] = 0
  /\ UNCHANGED dbVars

Tamper ==
  /\ tampers < MaxTampers
  /\ tampers' = tampers + 1
  /\ \/ \E row \in OpenRows, delta \in AlterDelta :
          AlterStoredBalance({row}, delta) \/ AlterStoredBalance(SameName(row), delta)
     \/ \E row \in Row : EraseEntry(row) \/ \E delta \in AlterDelta : AlterEntry(row, delta)
  /\ UNCHANGED <<rowLock, keyLock, free, cmd, pc, conns, snap, answer>>

Scanning == vpc \in {"computed", "trial"}

BooksNext ==
  \/ Next /\ UNCHANGED <<vpc, scope, stored, computed, report, tamperVars>>
          /\ overlap' = IF overlap = "nothing" /\ Scanning /\ ~UNCHANGED dbVars
                        THEN "postings" ELSE overlap
  \/ Scan
  \/ Tamper /\ UNCHANGED <<vpc, scope, stored, computed, report>> 
            /\ overlap' = IF Scanning THEN "tampering" ELSE overlap

BooksSpec == BooksInit /\ [][BooksNext]_bookVars

-----------------------------------------------------------------------------
\* Types; a verdict has one of the answers verdictHandler can give.
BooksTypeOK ==
  /\ TypeOK
  /\ vpc \in {"idle", "tenant", "accounts", "computed", "trial", "done"}
  /\ scope \in Tenant \cup {AllTenants}
  /\ DOMAIN stored \subseteq Row /\ DOMAIN computed \subseteq Row
  /\ report.verdict \in {"none", "YES", "NO", "tenant_not_found",
                         "insufficient_funds", "internal_error"}
  /\ report.drifted \subseteq Row
  /\ edits \in [Row -> Int]
  /\ tampers \in 0 .. MaxTampers
  /\ overlap \in {"nothing", "postings", "tampering"}

\* I3: as long as nobody reaches past the ledger, every stored balance is the
\* sum of the account's entries, in every committed state and whatever
\* interleaves or fails: no update is lost and no posting is half written.
BooksTie == tampers = 0 => ActualDrift = {}

\* A verdict taken while nothing else commits is exact: the accounts it names
\* are the ones of its scope that have drifted, and it says NO just when there
\* is one.
QuietVerdictExact ==
  [][vpc = "trial" /\ report'.verdict \in {"YES", "NO"} /\ overlap = "nothing"
       => /\ report'.drifted = {row \in ActualDrift : InScope(row)}
          /\ report'.verdict = "NO" <=> report'.drifted # {}]_bookVars

\* A wallet altered to below zero cannot be built any more (buildAccount), and
\* every transfer to or from it fails: until someone alters it again its
\* balance stays as it was found, whatever was under way when it was altered,
\* so no later deposit covers up what the next verification has to report.
\* A verification is refused on such a row only after an alteration.
AlteredWalletFrozen ==
  [][tampers' = tampers =>
       /\ \A row \in Row : kind[row] = "wallet" /\ balance[row] < 0 => balance'[row] = balance[row]
       /\ report'.verdict = "insufficient_funds" => tampers > 0]_bookVars

\* "Drifted is empty on a healthy ledger" (the comment on BooksReport): no
\* verdict says NO unless something was altered out of band.
HealthyLedgerBalances == tampers = 0 => report.verdict # "NO"
=============================================================================
