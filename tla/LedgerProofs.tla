---------------------------- MODULE LedgerProofs ----------------------------
(***************************************************************************)
(* Proofs about Ledger for any number of requests, accounts, tenants, keys *)
(* and connections, and any width of the integers.                         *)
(***************************************************************************)
EXTENDS Ledger, FiniteSetTheorems, TLAPS

TransferPhase == {"lookup", "render", "lockLow", "lockHigh", "decide", "claim"}
OpenPhase == {"check", "insert"}

\* Which commands reach which phase, and what a posted request has become.
PhaseOK ==
  \A r \in Request :
    /\ pc[r] # "idle" => cmd[r] \in Command
    /\ pc[r] \in TransferPhase => cmd[r] \in TransferCommand
    /\ pc[r] \in OpenPhase => cmd[r] \in OpenCommand
    /\ pc[r] = "render" => claims[cmd[r].key] # None
    /\ r \in posted => pc[r] = "done" /\ cmd[r] \in TransferCommand

\* The snapshot r took of account id is still the row, because r holds its
\* lock; an account that was not there is not held.
Held(r, id) ==
  LET row == <<cmd[r].tenant, id>>
  IN  \/ snap[r][id].kind = "absent"
      \/ /\ rowLock[row] = r
         /\ kind[row] # "absent"
         /\ snap[r][id].kind = kind[row]
         /\ snap[r][id].balance = balance[row]

\* What r has written in its unit of work is still what domain.Post allowed.
Decided(r) ==
  /\ Held(r, cmd[r].from) /\ Held(r, cmd[r].to)
  /\ Post(cmd[r], snap[r]) = "posted"
  /\ DeltasFit(cmd[r], balance)

LocksOK ==
  \A r \in Request :
    /\ pc[r] = "lockHigh" => Held(r, Low(cmd[r]))
    /\ pc[r] = "decide" => Held(r, cmd[r].from) /\ Held(r, cmd[r].to)
    /\ pc[r] = "claim" => Decided(r)
    /\ pc[r] = "commit" /\ cmd[r].op = "transfer" => Decided(r)
    /\ pc[r] = "commit" /\ cmd[r].op = "open" =>
         /\ rowLock[<<cmd[r].tenant, cmd[r].id>>] = r
         /\ kind[<<cmd[r].tenant, cmd[r].id>>] = "absent"

\* A request about to commit a transfer holds its key, and nobody has it.
KeysOK ==
  \A r \in Request :
    pc[r] = "commit" /\ cmd[r].op = "transfer" =>
      keyLock[cmd[r].key] = r /\ claims[cmd[r].key] = None

\* Connections held by phase: a second one, or a first kept at "begin", is a
\* nested call's.
NestedOK ==
  \A r \in Request :
    /\ pc[r] = "idle" => conns[r] = 0
    /\ pc[r] = "begin" /\ conns[r] # 0 => cmd[r] \in TransferCommand
    /\ pc[r] \notin {"idle", "begin", "done"} => conns[r] # 0

\* A row that is not there has no balance for CreateAccount to reset.
AbsentIsZero == \A row \in Row : kind[row] = "absent" => balance[row] = 0

\* What the write path keeps up whatever the balances are, and even if they are
\* altered behind its back.
CoreInv ==
  /\ TypeOK /\ PhaseOK /\ LocksOK /\ KeysOK /\ NestedOK
  /\ KeyedExactlyOnce /\ LoserFindsWinner /\ AbsentIsZero

IInv == CoreInv /\ WalletsNeverNegative

-----------------------------------------------------------------------------
\* A set of subsets of a finite set has a smallest member.
LEMMA SmallestSubset ==
  ASSUME NEW S, IsFiniteSet(S), NEW B \in SUBSET SUBSET S, B # {}
  PROVE  \E T \in B : \A U \in B : U \subseteq T => U = T
<1>1. IsWellFoundedOn(StrictSubsetOrdering(S), FiniteSubsetsOf(S))
  BY FS_StrictSubsetOrderingWellFounded
<1>2. B \subseteq FiniteSubsetsOf(S)
  BY FS_Subset DEF FiniteSubsetsOf
<1>3. \E T \in B : \A U \in B : ~(<<U, T>> \in StrictSubsetOrdering(S))
  BY <1>1, <1>2, WFMin
<1>4. \A T \in B, U \in B : U \subseteq T /\ U # T => <<U, T>> \in StrictSubsetOrdering(S)
  BY DEF StrictSubsetOrdering
<1> QED
  BY <1>3, <1>4

\* A command, by its op.
LEMMA CommandKinds ==
  ASSUME NEW c \in Command
  PROVE  /\ c.op = "transfer" <=> c \in TransferCommand
         /\ c.op = "open" <=> c \in OpenCommand
         /\ c.op \in {"transfer", "open"}
BY LedgerAssumption DEF TransferCommand, OpenCommand

\* The fields of a transfer, and the two locks LockForUpdate takes for it.
LEMMA TransferFields ==
  ASSUME NEW c \in TransferCommand
  PROVE  /\ c.tenant \in Tenant /\ c.key \in Key /\ c.amount \in Word
         /\ c.from \in AccountId /\ c.to \in AccountId
         /\ Low(c) \in AccountId /\ High(c) \in AccountId
         /\ \/ Low(c) = c.from /\ High(c) = c.to
            \/ Low(c) = c.to /\ High(c) = c.from
BY LedgerAssumption DEF TransferCommand, Low, High

\* Whatever ends a request leaves its own variables well typed.
LEMMA FinishTypes ==
  ASSUME TypeOK, NEW r \in Request, NEW o \in Outcome, NEW t \in Request \cup {None},
         Finish(r, o, t)
  PROVE  /\ rowLock' \in [Row -> Request \cup {None}]
         /\ keyLock' \in [Key -> Request \cup {None}]
         /\ free' \in Nat
         /\ cmd' \in [Request -> Command \cup {NoCommand}]
         /\ pc' \in [Request -> Phase]
         /\ conns' \in [Request -> Nat]
         /\ snap' \in [Request -> [AccountId -> Snapshot]]
         /\ answer' \in [Request -> Answer]
<1>1. [outcome |-> o, txn |-> t] \in Answer
  BY DEF Answer
<1>2. answer' \in [Request -> Answer]
  BY <1>1 DEF TypeOK, Finish
<1>3. "done" \in Phase
  BY DEF Phase
<1> QED
  BY <1>2, <1>3 DEF TypeOK, Finish, Goto

\* A fresh ledger over legal balances satisfies the invariant.
LEMMA InitIInv == Init => IInv
<1> SUFFICES ASSUME Init PROVE IInv
  OBVIOUS
<1>1. TypeOK
  <2>1. Unread \in Snapshot
    BY LedgerAssumption DEF Unread, Snapshot, Word
  <2>2. NoAnswer \in Answer
    BY DEF NoAnswer, Answer, Outcome
  <2>3. "idle" \in Phase
    BY DEF Phase
  <2> QED
    BY <2>1, <2>2, <2>3, LedgerAssumption DEF Init, TypeOK
<1>2. PhaseOK /\ LocksOK /\ KeysOK /\ NestedOK /\ LoserFindsWinner
  BY DEF Init, PhaseOK, LocksOK, KeysOK, NestedOK, LoserFindsWinner, TransferPhase, OpenPhase
<1>3. WalletsNeverNegative /\ KeyedExactlyOnce /\ AbsentIsZero
  BY LedgerAssumption DEF Init, WalletsNeverNegative, KeyedExactlyOnce, AbsentIsZero
<1> QED
  BY <1>1, <1>2, <1>3 DEF IInv, CoreInv

-----------------------------------------------------------------------------
\* Two's-complement wrap-around is the identity inside the word.
LEMMA WrapInside == ASSUME NEW n \in Word PROVE Wrap(n) = n
BY LedgerAssumption DEF Wrap, Word

\* A snapshot that passed domain.Post's checks is of two accounts.
LEMMA PostedMeansPresent ==
  ASSUME NEW c \in TransferCommand, NEW s, Post(c, s) = "posted"
  PROVE  /\ c.amount > 0
         /\ s[c.from].kind # "absent" /\ s[c.to].kind # "absent"
         /\ ~TakesBelowZero(s[c.from], -c.amount)
         /\ ~TakesBelowZero(s[c.to], c.amount)
<1>1. c.amount \in Int
  BY TransferFields, LedgerAssumption DEF Word
<1>2. ~(c.amount <= 0)
  BY DEF Post
<1>3. /\ s[c.from].kind # "absent" /\ s[c.to].kind # "absent"
      /\ ~TakesBelowZero(s[c.from], -c.amount)
      /\ ~TakesBelowZero(s[c.to], c.amount)
  BY DEF Post
<1> QED
  BY <1>1, <1>2, <1>3

\* The balances after the two UPDATEs of a transfer, row by row.
LEMMA Deltas ==
  ASSUME NEW b \in [Row -> Word], NEW c \in TransferCommand
  PROVE  /\ c.from # c.to =>
              Credited(c, Debited(c, b)) =
                [row \in Row |-> IF row = <<c.tenant, c.from>> THEN b[row] - c.amount
                                 ELSE IF row = <<c.tenant, c.to>> THEN b[row] + c.amount
                                 ELSE b[row]]
         /\ c.from = c.to => Credited(c, Debited(c, b)) = b
<1>1. /\ <<c.tenant, c.from>> \in Row /\ <<c.tenant, c.to>> \in Row
      /\ c.amount \in Int
      /\ \A row \in Row : b[row] \in Int
  BY TransferFields, LedgerAssumption DEF Row, Word
<1>2. CASE c.from # c.to
  BY <1>1, <1>2 DEF Credited, Debited
<1>3. CASE c.from = c.to
  <2> DEFINE row == <<c.tenant, c.to>>
             d == [b EXCEPT ![row] = b[row] - c.amount]
  <2>1. /\ row \in Row /\ b[row] \in Int
        /\ d \in [Row -> Int] /\ d[row] = b[row] - c.amount
        /\ \A other \in Row \ {row} : d[other] = b[other]
    BY <1>1
  <2>2. Credited(c, Debited(c, b)) = [d EXCEPT ![row] = d[row] + c.amount]
    BY <1>3 DEF Credited, Debited
  <2> HIDE DEF d, row
  <2>3. d[row] + c.amount = b[row]
    BY <1>1, <2>1
  <2>4. [d EXCEPT ![row] = d[row] + c.amount] = b
    BY <2>1, <2>3
  <2> QED
    BY <1>3, <2>2, <2>4
<1> QED
  BY <1>2, <1>3

\* Commit's effect on the balances stays inside the word.
LEMMA DurableTypes ==
  ASSUME CoreInv, NEW r \in Request, pc[r] = "commit", MakeDurable(r)
  PROVE  /\ kind' \in [Row -> RowKind]
         /\ balance' \in [Row -> Word]
         /\ posted' \subseteq Request
         /\ claims' \in [Key -> Request \cup {None}]
<1>0. cmd[r] \in Command
  BY DEF CoreInv, PhaseOK
<1>1. CASE cmd[r].op = "transfer"
  <2>1. cmd[r] \in TransferCommand
    BY <1>0, <1>1, CommandKinds
  <2>2. Decided(r)
    BY <1>1 DEF CoreInv, LocksOK
  <2>3. /\ kind' = kind
        /\ balance' = Credited(cmd[r], Debited(cmd[r], balance))
        /\ posted' = posted \cup {r}
        /\ claims' = [claims EXCEPT ![cmd[r].key] = r]
    BY <1>1 DEF MakeDurable
  <2>4. balance' \in [Row -> Word]
    <3>1. balance \in [Row -> Word]
      BY DEF CoreInv, TypeOK
    <3>2. /\ <<cmd[r].tenant, cmd[r].from>> \in Row
          /\ <<cmd[r].tenant, cmd[r].to>> \in Row
      BY <2>1, TransferFields DEF Row
    <3>3. CASE cmd[r].from = cmd[r].to
      BY <3>1, <3>3, <2>1, <2>3, Deltas
    <3>4. CASE cmd[r].from # cmd[r].to
      <4>1. /\ balance[<<cmd[r].tenant, cmd[r].from>>] - cmd[r].amount \in Word
            /\ balance[<<cmd[r].tenant, cmd[r].to>>] + cmd[r].amount \in Word
        BY <2>2, <3>1, <3>2, <3>4 DEF Decided, DeltasFit, Credited, Debited
      <4> QED
        BY <3>1, <3>2, <3>4, <4>1, <2>1, <2>3, Deltas
    <3> QED
      BY <3>3, <3>4
  <2> QED
    BY <2>3, <2>4 DEF CoreInv, TypeOK
<1>2. CASE cmd[r].op = "open"
  <2>1. cmd[r].kind \in RowKind /\ 0 \in Word
    BY <1>0, <1>2, CommandKinds, LedgerAssumption DEF OpenCommand, RowKind, Word
  <2> QED
    BY <2>1, <1>2 DEF MakeDurable, CoreInv, TypeOK
<1> QED
  BY <1>0, <1>1, <1>2, CommandKinds

\* No step takes a variable out of its type.
LEMMA TypeStep == ASSUME CoreInv, [Next]_vars PROVE TypeOK'
<1> USE DEF CoreInv
<1>1. CASE UNCHANGED vars
  BY <1>1 DEF TypeOK, vars
<1> SUFFICES ASSUME NEW r \in Request,
                    \/ \E c \in Command : Submit(r, c)
                    \/ Step(r) \/ CommitUnheard(r) \/ Abort(r)
             PROVE  TypeOK'
  BY <1>1 DEF Next
<1>2. ASSUME NEW c \in Command, Submit(r, c) PROVE TypeOK'
  BY <1>2 DEF Submit, Goto, TypeOK, dbVars, Phase
<1>3. CASE Begin(r)
  BY <1>3 DEF Begin, Goto, TypeOK, dbVars, Phase
<1>4. CASE Lookup(r)
  <2>1. CASE Finish(r, "idempotency_key_conflict", None)
    BY <2>1, <1>4, FinishTypes DEF Lookup, TypeOK, dbVars, Outcome
  <2>2. CASE ~Finish(r, "idempotency_key_conflict", None)
    BY <2>2, <1>4 DEF Lookup, Goto, TypeOK, dbVars, Phase
  <2> QED
    BY <2>1, <2>2
<1>5. CASE Render(r)
  <2>1. /\ claims[cmd[r].key] \in Request
        /\ \/ Finish(r, "replayed", claims[cmd[r].key])
           \/ Finish(r, "internal_error", None)
    BY <1>5, TransferFields DEF Render, TypeOK, PhaseOK, TransferPhase
  <2> QED
    BY <2>1, <1>5, FinishTypes DEF Render, TypeOK, dbVars, Outcome
<1>6. ASSUME NEW id \in AccountId, cmd[r] \in TransferCommand, LockOne(r, id)
      PROVE  /\ rowLock' \in [Row -> Request \cup {None}]
             /\ snap' \in [Request -> [AccountId -> Snapshot]]
  <2> DEFINE row == <<cmd[r].tenant, id>>
  <2>1. row \in Row
    BY <1>6, TransferFields DEF Row
  <2>2. /\ [kind |-> "absent", balance |-> 0] \in Snapshot
        /\ [kind |-> kind[row], balance |-> balance[row]] \in Snapshot
    BY <2>1, LedgerAssumption DEF TypeOK, Snapshot, RowKind, Word
  <2> HIDE DEF row
  <2>3. /\ rowLock' = rowLock \/ rowLock' = [rowLock EXCEPT ![row] = r]
        /\ \/ snap' = [snap EXCEPT ![r][id] = [kind |-> "absent", balance |-> 0]]
           \/ snap' = [snap EXCEPT ![r][id] = [kind |-> kind[row], balance |-> balance[row]]]
    BY <1>6 DEF LockOne, row
  <2>4. ASSUME NEW v \in Snapshot, snap' = [snap EXCEPT ![r][id] = v]
        PROVE  snap' \in [Request -> [AccountId -> Snapshot]]
    <3>1. [snap[r] EXCEPT ![id] = v] \in [AccountId -> Snapshot]
      BY DEF TypeOK
    <3> QED
      BY <2>4, <3>1 DEF TypeOK
  <2>5. rowLock' \in [Row -> Request \cup {None}]
    BY <2>3 DEF TypeOK
  <2> QED
    BY <2>2, <2>3, <2>4, <2>5
<1>7. CASE LockLow(r)
  <2>1. cmd[r] \in TransferCommand
    BY <1>7 DEF LockLow, PhaseOK, TransferPhase
  <2>2. CASE RejectRow(r, Low(cmd[r]))
    BY <2>2, <1>7, FinishTypes DEF LockLow, RejectRow, TypeOK, dbVars, Outcome, Refusal
  <2>3. CASE LockOne(r, Low(cmd[r])) /\ ~RejectRow(r, Low(cmd[r]))
    BY <2>1, <2>3, <1>6, <1>7, TransferFields DEF LockLow, Goto, TypeOK, dbVars, Phase
  <2> QED
    BY <2>2, <2>3, <1>7 DEF LockLow
<1>8. CASE LockHigh(r)
  <2>1. cmd[r] \in TransferCommand
    BY <1>8 DEF LockHigh, PhaseOK, TransferPhase
  <2>2. CASE RejectRow(r, High(cmd[r]))
    BY <2>2, <1>8, FinishTypes DEF LockHigh, RejectRow, TypeOK, dbVars, Outcome, Refusal
  <2>3. CASE LockOne(r, High(cmd[r])) /\ ~RejectRow(r, High(cmd[r]))
    BY <2>1, <2>3, <1>6, <1>8, TransferFields DEF LockHigh, Goto, TypeOK, dbVars, Phase
  <2> QED
    BY <2>2, <2>3, <1>8 DEF LockHigh
<1>9. CASE Decide(r)
  <2>1. Post(cmd[r], snap[r]) \in Outcome
    BY DEF Post, Outcome, Refusal
  <2>2. \/ Finish(r, Post(cmd[r], snap[r]), None)
        \/ Finish(r, "internal_error", None)
        \/ /\ Goto(r, "claim")
           /\ UNCHANGED <<rowLock, keyLock, free, cmd, conns, snap, answer>>
    BY <1>9 DEF Decide
  <2>3. CASE Goto(r, "claim") /\ UNCHANGED <<rowLock, keyLock, free, cmd, conns, snap, answer>>
    BY <2>3, <1>9 DEF Decide, Goto, TypeOK, dbVars, Phase
  <2>4. CASE Finish(r, Post(cmd[r], snap[r]), None)
    BY <2>1, <2>4, <1>9, FinishTypes DEF Decide, TypeOK, dbVars
  <2>5. CASE Finish(r, "internal_error", None)
    BY <2>5, <1>9, FinishTypes DEF Decide, TypeOK, dbVars, Outcome
  <2> QED
    BY <2>2, <2>3, <2>4, <2>5
<1>10. CASE Claim(r)
  <2>1. /\ keyLock' = keyLock \/ keyLock' = [keyLock EXCEPT ![cmd[r].key] = r]
        /\ Goto(r, "commit") \/ Goto(r, "begin")
        /\ UNCHANGED <<dbVars, rowLock, free, cmd, conns, snap, answer>>
    BY <1>10 DEF Claim
  <2>2. pc' \in [Request -> Phase]
    BY <2>1 DEF Goto, TypeOK, Phase
  <2>3. keyLock' \in [Key -> Request \cup {None}]
    BY <2>1 DEF TypeOK
  <2> QED
    BY <2>1, <2>2, <2>3 DEF TypeOK, dbVars
<1>11. CASE Check(r)
  <2>1. ASSUME NEW outcome \in {"account_already_exists", "insufficient_funds"},
               Finish(r, outcome, None)
        PROVE  TypeOK'
    <3>1. outcome \in Outcome
      BY DEF Outcome, Refusal
    <3> QED
      BY <2>1, <3>1, <1>11, FinishTypes DEF Check, TypeOK, dbVars
  <2>2. CASE kind[<<cmd[r].tenant, cmd[r].id>>] = "absent" /\ Goto(r, "insert")
    BY <2>2, <1>11 DEF Check, Goto, WalletLegal, Finish, TypeOK, dbVars, Phase
  <2> QED
    BY <1>11, <2>1, <2>2 DEF Check
<1>12. CASE Insert(r)
  <2>1. CASE Finish(r, "internal_error", None)
    BY <2>1, <1>12, FinishTypes DEF Insert, TypeOK, dbVars, Outcome
  <2>2. CASE ~Finish(r, "internal_error", None)
    <3>1. <<cmd[r].tenant, cmd[r].id>> \in Row
      BY <1>12 DEF Insert, PhaseOK, OpenPhase, OpenCommand, Row
    <3>2. /\ rowLock' = [rowLock EXCEPT ![<<cmd[r].tenant, cmd[r].id>>] = r]
          /\ Goto(r, "commit")
          /\ UNCHANGED <<keyLock, free, cmd, conns, snap, answer>>
      BY <2>2, <1>12 DEF Insert
    <3> QED
      BY <3>1, <3>2, <1>12 DEF Insert, Goto, TypeOK, dbVars, Phase
  <2> QED
    BY <2>1, <2>2
<1>13. CASE Commit(r)
  <2>1. Finish(r, "posted", r) \/ Finish(r, "opened", None)
    BY <1>13 DEF Commit
  <2> QED
    BY <2>1, <1>13, FinishTypes, DurableTypes DEF Commit, TypeOK, Outcome
<1>14. CASE CommitUnheard(r)
  BY <1>14, FinishTypes, DurableTypes DEF CommitUnheard, TypeOK, Outcome
<1>15. CASE Abort(r)
  BY <1>15, FinishTypes DEF Abort, TypeOK, dbVars, Outcome
<1> QED
  BY <1>2, <1>3, <1>4, <1>5, <1>7, <1>8, <1>9, <1>10, <1>11, <1>12, <1>13, <1>14, <1>15
     DEF Step

-----------------------------------------------------------------------------
\* Everything request r can do.
Move(r) ==
  \/ \E c \in Command : Submit(r, c)
  \/ Step(r) \/ CommitUnheard(r) \/ Abort(r)

\* What the grant of a row lock changes, and what it establishes.
LEMMA LockEffect ==
  ASSUME TypeOK, NEW r \in Request, NEW id \in AccountId,
         cmd[r] \in TransferCommand, LockOne(r, id)
  PROVE  /\ \A q \in Request \ {r} : snap'[q] = snap[q]
         /\ \A other \in AccountId \ {id} : snap'[r][other] = snap[r][other]
         /\ \A row \in Row : rowLock[row] \in Request => rowLock'[row] = rowLock[row]
         /\ \/ snap'[r][id].kind = "absent"
            \/ /\ rowLock'[<<cmd[r].tenant, id>>] = r
               /\ kind[<<cmd[r].tenant, id>>] # "absent"
               /\ snap'[r][id].kind = kind[<<cmd[r].tenant, id>>]
               /\ snap'[r][id].balance = balance[<<cmd[r].tenant, id>>]
<1> DEFINE row == <<cmd[r].tenant, id>>
<1>1. row \in Row
  BY TransferFields DEF Row
<1>2. \/ /\ snap' = [snap EXCEPT ![r][id] = [kind |-> "absent", balance |-> 0]]
         /\ rowLock' = rowLock
      \/ /\ kind[row] # "absent" /\ rowLock[row] = None
         /\ rowLock' = [rowLock EXCEPT ![row] = r]
         /\ snap' = [snap EXCEPT ![r][id] = [kind |-> kind[row], balance |-> balance[row]]]
  BY DEF LockOne
<1> HIDE DEF row
<1>3. ASSUME NEW v, snap' = [snap EXCEPT ![r][id] = v]
      PROVE  /\ \A q \in Request \ {r} : snap'[q] = snap[q]
             /\ \A other \in AccountId \ {id} : snap'[r][other] = snap[r][other]
             /\ snap'[r][id] = v
  BY <1>3 DEF TypeOK
<1>4. \A q \in Request \ {r} : snap'[q] = snap[q]
  BY <1>2, <1>3
<1>5. \A other \in AccountId \ {id} : snap'[r][other] = snap[r][other]
  BY <1>2, <1>3
<1>6. CASE /\ snap' = [snap EXCEPT ![r][id] = [kind |-> "absent", balance |-> 0]]
           /\ rowLock' = rowLock
  <2>1. snap'[r][id] = [kind |-> "absent", balance |-> 0]
    BY <1>3, <1>6
  <2> QED
    BY <2>1, <1>4, <1>5, <1>6
<1>7. CASE /\ kind[row] # "absent" /\ rowLock[row] = None
           /\ rowLock' = [rowLock EXCEPT ![row] = r]
           /\ snap' = [snap EXCEPT ![r][id] = [kind |-> kind[row], balance |-> balance[row]]]
  <2>1. snap'[r][id] = [kind |-> kind[row], balance |-> balance[row]]
    BY <1>3, <1>7
  <2>2. \A other \in Row : rowLock[other] \in Request => rowLock'[other] = rowLock[other]
    BY <1>1, <1>7, LedgerAssumption DEF TypeOK
  <2>3. rowLock'[row] = r
    BY <1>1, <1>7 DEF TypeOK
  <2> QED
    BY <2>1, <2>2, <2>3, <1>4, <1>5, <1>7 DEF row
<1> QED
  BY <1>2, <1>6, <1>7

\* A step of r is invisible in the program state of the others, and takes no
\* lock away from them.
LEMMA OthersUntouched ==
  ASSUME CoreInv, NEW r \in Request, Move(r)
  PROVE  /\ \A q \in Request \ {r} : /\ pc'[q] = pc[q] /\ cmd'[q] = cmd[q]
                                     /\ conns'[q] = conns[q] /\ snap'[q] = snap[q]
         /\ \A row \in Row : rowLock[row] \in Request \ {r} => rowLock'[row] = rowLock[row]
         /\ \A k \in Key : keyLock[k] \in Request \ {r} => keyLock'[k] = keyLock[k]
<1> DEFINE P == /\ \A q \in Request \ {r} : /\ pc'[q] = pc[q] /\ cmd'[q] = cmd[q]
                                            /\ conns'[q] = conns[q] /\ snap'[q] = snap[q]
                /\ \A row \in Row : rowLock[row] \in Request \ {r} => rowLock'[row] = rowLock[row]
                /\ \A k \in Key : keyLock[k] \in Request \ {r} => keyLock'[k] = keyLock[k]
<1> USE LedgerAssumption DEF CoreInv, TypeOK
<1>4. ASSUME NEW c \in Command, Submit(r, c) PROVE P
  BY <1>4 DEF Submit, Goto
<1>5. CASE Begin(r)
  BY <1>5 DEF Begin, Goto
<1>6. CASE Lookup(r)
  BY <1>6 DEF Lookup, Finish, Goto
<1>7. CASE Render(r)
  BY <1>7 DEF Render, Finish, Goto
<1>8. CASE LockLow(r)
  <2>1. cmd[r] \in TransferCommand /\ Low(cmd[r]) \in AccountId
    BY <1>8, TransferFields DEF LockLow, PhaseOK, TransferPhase
  <2>2. CASE LockOne(r, Low(cmd[r])) /\ ~RejectRow(r, Low(cmd[r]))
    <3>1. UNCHANGED <<keyLock, free, cmd, conns, answer>> /\ \E phase \in Phase : Goto(r, phase)
      BY <1>8, <2>2 DEF LockLow, Phase
    <3>2. /\ \A q \in Request \ {r} : snap'[q] = snap[q]
          /\ \A row \in Row : rowLock[row] \in Request => rowLock'[row] = rowLock[row]
      BY <2>1, <2>2, LockEffect
    <3> QED
      BY <3>1, <3>2 DEF Goto
  <2>3. CASE RejectRow(r, Low(cmd[r]))
    BY <2>3 DEF RejectRow, Finish, Goto
  <2> QED
    BY <1>8, <2>2, <2>3 DEF LockLow
<1>81. CASE LockHigh(r)
  <2>1. cmd[r] \in TransferCommand /\ High(cmd[r]) \in AccountId
    BY <1>81, TransferFields DEF LockHigh, PhaseOK, TransferPhase
  <2>2. CASE LockOne(r, High(cmd[r])) /\ ~RejectRow(r, High(cmd[r]))
    <3>1. UNCHANGED <<keyLock, free, cmd, conns, answer>> /\ \E phase \in Phase : Goto(r, phase)
      BY <1>81, <2>2 DEF LockHigh, Phase
    <3>2. /\ \A q \in Request \ {r} : snap'[q] = snap[q]
          /\ \A row \in Row : rowLock[row] \in Request => rowLock'[row] = rowLock[row]
      BY <2>1, <2>2, LockEffect
    <3> QED
      BY <3>1, <3>2 DEF Goto
  <2>3. CASE RejectRow(r, High(cmd[r]))
    BY <2>3 DEF RejectRow, Finish, Goto
  <2> QED
    BY <1>81, <2>2, <2>3 DEF LockHigh
<1>9. CASE Decide(r)
  BY <1>9 DEF Decide, Finish, Goto
<1>10. CASE Claim(r)
  BY <1>10 DEF Claim, Goto
<1>11. CASE Check(r)
  BY <1>11 DEF Check, Finish, Goto
<1>12. CASE Insert(r)
  <2>1. CASE Finish(r, "internal_error", None)
    BY <2>1 DEF Finish, Goto
  <2>2. CASE ~Finish(r, "internal_error", None)
    <3>1. /\ rowLock[<<cmd[r].tenant, cmd[r].id>>] = None
          /\ rowLock' = [rowLock EXCEPT ![<<cmd[r].tenant, cmd[r].id>>] = r]
          /\ Goto(r, "commit")
          /\ UNCHANGED <<keyLock, cmd, conns, snap>>
      BY <1>12, <2>2 DEF Insert
    <3>2. <<cmd[r].tenant, cmd[r].id>> \in Row
      BY <1>12 DEF Insert, PhaseOK, OpenPhase, OpenCommand, Row
    <3> QED
      BY <3>1, <3>2 DEF Goto
  <2> QED
    BY <2>1, <2>2
<1>13. CASE Commit(r) \/ CommitUnheard(r) \/ Abort(r)
  BY <1>13 DEF Commit, CommitUnheard, Abort, Finish, Goto
<1>14. P
  BY <1>4, <1>5, <1>6, <1>7, <1>8, <1>81, <1>9, <1>10, <1>11, <1>12, <1>13 DEF Move, Step
<1> QED
  BY <1>14 DEF P

\* Only a commit changes the books, and it changes only rows and the key its
\* request has locked.
LEMMA BooksFrame ==
  ASSUME CoreInv, NEW r \in Request, Move(r)
  PROVE  /\ UNCHANGED dbVars \/ (pc[r] = "commit" /\ pc'[r] = "done" /\ MakeDurable(r))
         /\ \A row \in Row : rowLock[row] # r =>
              kind'[row] = kind[row] /\ balance'[row] = balance[row]
         /\ \A k \in Key : keyLock[k] # r \/ claims[k] # None => claims'[k] = claims[k]
         /\ posted \subseteq posted' /\ posted' \subseteq posted \cup {r}
<1> USE DEF CoreInv
<1>1. UNCHANGED dbVars \/ (pc[r] = "commit" /\ pc'[r] = "done" /\ MakeDurable(r))
  <2>1. CASE Commit(r) \/ CommitUnheard(r)
    BY <2>1 DEF Commit, CommitUnheard, Finish, Goto, TypeOK
  <2>2. CASE ~(Commit(r) \/ CommitUnheard(r))
    <3>1. UNCHANGED dbVars
      BY <2>2 DEF Move, Step, Submit, Begin, Lookup, Render, LockLow, LockHigh, Decide,
                  Claim, Check, Insert, Abort
    <3> QED
      BY <3>1
  <2> QED
    BY <2>1, <2>2
<1>2. CASE UNCHANGED dbVars
  BY <1>1, <1>2 DEF dbVars
<1>3. CASE pc[r] = "commit" /\ pc'[r] = "done" /\ MakeDurable(r)
  <2>0. cmd[r] \in Command
    BY <1>3 DEF PhaseOK
  <2>1. CASE cmd[r].op = "transfer"
    <3>1. cmd[r] \in TransferCommand
      BY <2>0, <2>1, CommandKinds
    <3>2. /\ Decided(r)
          /\ keyLock[cmd[r].key] = r /\ claims[cmd[r].key] = None
      BY <1>3, <2>1 DEF LocksOK, KeysOK
    <3>3. /\ kind' = kind
          /\ balance' = Credited(cmd[r], Debited(cmd[r], balance))
          /\ posted' = posted \cup {r}
          /\ claims' = [claims EXCEPT ![cmd[r].key] = r]
      BY <1>3, <2>1 DEF MakeDurable
    <3>4. /\ rowLock[<<cmd[r].tenant, cmd[r].from>>] = r
          /\ rowLock[<<cmd[r].tenant, cmd[r].to>>] = r
      <4>1. snap[r][cmd[r].from].kind # "absent" /\ snap[r][cmd[r].to].kind # "absent"
        BY <3>1, <3>2, PostedMeansPresent DEF Decided
      <4> QED
        BY <3>2, <4>1 DEF Decided, Held
    <3>5. \A row \in Row : rowLock[row] # r => balance'[row] = balance[row]
      <4>1. balance \in [Row -> Word]
        BY DEF TypeOK
      <4>2. CASE cmd[r].from = cmd[r].to
        BY <3>1, <3>3, <4>1, <4>2, Deltas
      <4>3. CASE cmd[r].from # cmd[r].to
        BY <3>1, <3>3, <3>4, <4>1, <4>3, Deltas
      <4> QED
        BY <4>2, <4>3
    <3>6. \A k \in Key : keyLock[k] # r \/ claims[k] # None => claims'[k] = claims[k]
      BY <3>2, <3>3 DEF TypeOK
    <3> QED
      BY <1>1, <3>3, <3>5, <3>6
  <2>2. CASE cmd[r].op = "open"
    <3>1. rowLock[<<cmd[r].tenant, cmd[r].id>>] = r
      BY <1>3, <2>2 DEF LocksOK
    <3> QED
      BY <1>1, <1>3, <2>2, <3>1 DEF MakeDurable, TypeOK
  <2> QED
    BY <2>0, <2>1, <2>2, CommandKinds
<1> QED
  BY <1>1, <1>2, <1>3

-----------------------------------------------------------------------------
(* The inductive step, one part of the invariant at a time.                *)

\* Each phase is reached by its own kind of command, and what has posted is done.
LEMMA PhaseStep ==
  ASSUME CoreInv, TypeOK', NEW r \in Request, Move(r)
  PROVE  PhaseOK'
<1> SUFFICES ASSUME NEW q \in Request
             PROVE  /\ pc'[q] # "idle" => cmd'[q] \in Command
                    /\ pc'[q] \in TransferPhase => cmd'[q] \in TransferCommand
                    /\ pc'[q] \in OpenPhase => cmd'[q] \in OpenCommand
                    /\ pc'[q] = "render" => claims'[cmd'[q].key] # None
                    /\ q \in posted' => pc'[q] = "done" /\ cmd'[q] \in TransferCommand
  BY DEF PhaseOK
<1>0. /\ pc[q] # "idle" => cmd[q] \in Command
      /\ pc[q] \in TransferPhase => cmd[q] \in TransferCommand
      /\ pc[q] \in OpenPhase => cmd[q] \in OpenCommand
      /\ pc[q] = "render" => claims[cmd[q].key] # None
      /\ q \in posted => pc[q] = "done" /\ cmd[q] \in TransferCommand
  BY DEF CoreInv, PhaseOK
<1>1. CASE q # r
  <2>1. pc'[q] = pc[q] /\ cmd'[q] = cmd[q]
    BY <1>1, OthersUntouched
  <2>2. q \in posted' => q \in posted
    BY <1>1, BooksFrame
  <2>3. pc[q] = "render" => claims'[cmd[q].key] # None
    BY <1>0, BooksFrame, TransferFields DEF TransferPhase
  <2> QED
    BY <1>0, <2>1, <2>2, <2>3
<1>2. CASE q = r
  <2> USE <1>0, <1>2 DEF CoreInv, TypeOK
  <2>1. ASSUME NEW c \in Command, Submit(r, c)
        PROVE  pc'[r] = "begin" /\ cmd'[r] = c /\ r \notin posted'
    BY <2>1 DEF Submit, Goto, dbVars
  <2>2. CASE Begin(r)
    BY <2>2, CommandKinds DEF Begin, Goto, dbVars, TransferPhase, OpenPhase
  <2>3. CASE Lookup(r)
    BY <2>3 DEF Lookup, Finish, Goto, dbVars, TransferPhase, OpenPhase
  <2>4. CASE Render(r)
    BY <2>4 DEF Render, Finish, Goto, dbVars, TransferPhase, OpenPhase
  <2>5. CASE LockLow(r)
    <3>1. /\ cmd'[r] = cmd[r] /\ posted' = posted /\ pc[r] = "lockLow"
          /\ pc'[r] \in {"done", "decide", "lockHigh"}
      BY <2>5 DEF LockLow, RejectRow, Finish, Goto, dbVars
    <3> QED
      BY <3>1 DEF TransferPhase, OpenPhase
  <2>6. CASE LockHigh(r)
    <3>1. /\ cmd'[r] = cmd[r] /\ posted' = posted /\ pc[r] = "lockHigh"
          /\ pc'[r] \in {"done", "decide"}
      BY <2>6 DEF LockHigh, RejectRow, Finish, Goto, dbVars
    <3> QED
      BY <3>1 DEF TransferPhase, OpenPhase
  <2>7. CASE Decide(r)
    BY <2>7 DEF Decide, Finish, Goto, dbVars, TransferPhase, OpenPhase
  <2>8. CASE Claim(r)
    BY <2>8 DEF Claim, Goto, dbVars, TransferPhase, OpenPhase
  <2>9. CASE Check(r) \/ Insert(r)
    BY <2>9 DEF Check, Insert, Finish, Goto, dbVars, TransferPhase, OpenPhase
  <2>10. CASE Commit(r) \/ CommitUnheard(r)
    <3>1. /\ pc[r] = "commit" /\ pc'[r] = "done" /\ cmd'[r] = cmd[r]
      BY <2>10 DEF Commit, CommitUnheard, Finish, Goto
    <3>2. r \in posted' => cmd[r].op = "transfer"
      BY <2>10, <3>1 DEF Commit, CommitUnheard, MakeDurable
    <3> QED
      BY <3>1, <3>2, CommandKinds DEF TransferPhase, OpenPhase
  <2>11. CASE Abort(r)
    BY <2>11 DEF Abort, Finish, Goto, dbVars, TransferPhase, OpenPhase
  <2>12. CASE \E c \in Command : Submit(r, c)
    BY <2>1, <2>12 DEF TransferPhase, OpenPhase
  <2> QED
    BY <2>2, <2>3, <2>4, <2>5, <2>6, <2>7, <2>8, <2>9, <2>10, <2>11, <2>12 DEF Move, Step
<1> QED
  BY <1>1, <1>2

\* A count of connections that is not zero is one or more.
LEMMA OneOrMore == ASSUME NEW n \in Nat, n # 0 PROVE n = 1 \/ n > 1
OBVIOUS

\* Connections and nesting.
LEMMA NestedStep ==
  ASSUME CoreInv, TypeOK', NEW r \in Request, Move(r)
  PROVE  NestedOK' /\ LoserFindsWinner'
<1> SUFFICES ASSUME NEW q \in Request
             PROVE  /\ pc'[q] = "idle" => conns'[q] = 0
                    /\ pc'[q] = "begin" /\ conns'[q] # 0 => cmd'[q] \in TransferCommand
                    /\ pc'[q] \notin {"idle", "begin", "done"} => conns'[q] # 0
                    /\ pc'[q] # "done" /\ (conns'[q] > 1 \/ (pc'[q] = "begin" /\ conns'[q] = 1))
                         => /\ claims'[cmd'[q].key] # None
                            /\ pc'[q] \in {"begin", "lookup", "render"}
  BY DEF NestedOK, LoserFindsWinner
<1>0. /\ pc[q] = "idle" => conns[q] = 0
      /\ pc[q] = "begin" /\ conns[q] # 0 => cmd[q] \in TransferCommand
      /\ pc[q] \notin {"idle", "begin", "done"} => conns[q] # 0
      /\ pc[q] # "done" /\ (conns[q] > 1 \/ (pc[q] = "begin" /\ conns[q] = 1))
           => /\ claims[cmd[q].key] # None
              /\ pc[q] \in {"begin", "lookup", "render"}
      /\ conns[q] \in Nat
      /\ pc[q] \in TransferPhase => cmd[q] \in TransferCommand
  BY DEF CoreInv, TypeOK, NestedOK, LoserFindsWinner, PhaseOK
<1>1. CASE q # r
  <2>1. pc'[q] = pc[q] /\ cmd'[q] = cmd[q] /\ conns'[q] = conns[q]
    BY <1>1, OthersUntouched
  <2>2. ASSUME pc[q] # "done", conns[q] > 1 \/ (pc[q] = "begin" /\ conns[q] = 1)
        PROVE  claims'[cmd[q].key] # None
    <3>1. cmd[q] \in TransferCommand
      BY <1>0, <2>2 DEF TransferPhase
    <3> QED
      BY <1>0, <2>2, <3>1, BooksFrame, TransferFields
  <2> QED
    BY <1>0, <2>1, <2>2
<1>2. CASE q = r
  <2> USE <1>0, <1>2 DEF CoreInv, TypeOK
  <2>1. CASE \E c \in Command : Submit(r, c)
    BY <2>1 DEF Submit, Goto
  <2>2. CASE Begin(r)
    <3>1. /\ pc[r] = "begin" /\ conns'[r] = conns[r] + 1 /\ cmd'[r] = cmd[r]
          /\ claims' = claims
          /\ pc'[r] = IF cmd[r].op = "open" THEN "check" ELSE "lookup"
      BY <2>2 DEF Begin, Goto, dbVars
    <3>2. CASE conns[r] = 0
      BY <3>1, <3>2
    <3>3. CASE conns[r] # 0
      <4>1. cmd[r].op = "transfer"
        BY <3>1, <3>3 DEF TransferCommand
      <4>2. conns[r] = 1 \/ conns[r] > 1
        BY <3>3, OneOrMore
      <4>3. claims[cmd[r].key] # None
        BY <3>1, <4>2
      <4> QED
        BY <3>1, <4>1, <4>2, <4>3
    <3> QED
      BY <3>2, <3>3
  <2>3. CASE Lookup(r)
    BY <2>3 DEF Lookup, Finish, Goto, dbVars
  <2>4. CASE Render(r)
    BY <2>4 DEF Render, Finish, Goto, dbVars
  <2>5. CASE LockLow(r) \/ LockHigh(r)
    <3>1. /\ pc[r] \in {"lockLow", "lockHigh"}
          /\ \/ pc'[r] = "done"
             \/ pc'[r] \in {"decide", "lockHigh"} /\ conns'[r] = conns[r]
      BY <2>5 DEF LockLow, LockHigh, RejectRow, Finish, Goto
    <3> QED
      BY <3>1
  <2>6. CASE Decide(r)
    BY <2>6 DEF Decide, Finish, Goto
  <2>7. CASE Claim(r)
    <3>1. cmd[r] \in TransferCommand
      BY <2>7 DEF Claim, TransferPhase
    <3> QED
      BY <2>7, <3>1 DEF Claim, Goto, dbVars
  <2>8. CASE Check(r) \/ Insert(r)
    BY <2>8 DEF Check, Insert, Finish, Goto
  <2>9. CASE Commit(r) \/ CommitUnheard(r) \/ Abort(r)
    BY <2>9 DEF Commit, CommitUnheard, Abort, Finish, Goto
  <2> QED
    BY <2>1, <2>2, <2>3, <2>4, <2>5, <2>6, <2>7, <2>8, <2>9 DEF Move, Step
<1> QED
  BY <1>1, <1>2

\* Whoever claims a key keeps it locked, and unclaimed by others, until it commits.
LEMMA KeysStep ==
  ASSUME CoreInv, TypeOK', NEW r \in Request, Move(r)
  PROVE  KeysOK'
<1> SUFFICES ASSUME NEW q \in Request, pc'[q] = "commit", cmd'[q].op = "transfer"
             PROVE  keyLock'[cmd'[q].key] = q /\ claims'[cmd'[q].key] = None
  BY DEF KeysOK
<1>1. CASE q # r
  <2>1. pc[q] = "commit" /\ cmd'[q] = cmd[q]
    BY <1>1, OthersUntouched
  <2>2. /\ keyLock[cmd[q].key] = q /\ claims[cmd[q].key] = None
        /\ cmd[q].key \in Key
    BY <2>1, CommandKinds, TransferFields DEF CoreInv, KeysOK, PhaseOK
  <2> QED
    BY <1>1, <2>1, <2>2, OthersUntouched, BooksFrame
<1>2. CASE q = r
  <2> USE <1>2 DEF CoreInv, TypeOK
  <2>1. CASE Claim(r)
    <3>1. cmd[r] \in TransferCommand /\ cmd[r].key \in Key
      BY <2>1, TransferFields DEF Claim, PhaseOK, TransferPhase
    <3> QED
      BY <2>1, <3>1 DEF Claim, Goto, dbVars
  <2>2. CASE Insert(r)
    <3>1. cmd[r].op = "open" /\ cmd'[r] = cmd[r]
      BY <2>2 DEF Insert, Finish, PhaseOK, OpenPhase, OpenCommand
    <3> QED
      BY <3>1
  <2>3. CASE ~Claim(r) /\ ~Insert(r)
    <3>1. pc'[r] # "commit"
      <4>1. CASE LockLow(r) \/ LockHigh(r)
        BY <4>1 DEF LockLow, LockHigh, RejectRow, Finish, Goto
      <4>2. CASE ~(LockLow(r) \/ LockHigh(r))
        BY <2>3, <4>2 DEF Move, Step, Submit, Begin, Lookup, Render, Decide,
                          Check, Commit, CommitUnheard, Abort, Finish, Goto
      <4> QED
        BY <4>1, <4>2
    <3> QED
      BY <3>1
  <2> QED
    BY <2>1, <2>2, <2>3
<1> QED
  BY <1>1, <1>2

-----------------------------------------------------------------------------
\* Whether the deltas fit depends on the two rows of the transfer only.
LEMMA DeltasFitRows ==
  ASSUME NEW b \in [Row -> Word], NEW c \in TransferCommand
  PROVE  DeltasFit(c, b) <=>
           /\ b[<<c.tenant, c.from>>] - c.amount \in Word
           /\ c.from # c.to => b[<<c.tenant, c.to>>] + c.amount \in Word
<1>1. /\ <<c.tenant, c.from>> \in Row /\ <<c.tenant, c.to>> \in Row
      /\ c.amount \in Int
      /\ \A row \in Row : b[row] \in Int /\ b[row] \in Word
  BY TransferFields, LedgerAssumption DEF Row, Word
<1>2. Debited(c, b)[<<c.tenant, c.from>>] = b[<<c.tenant, c.from>>] - c.amount
  BY <1>1 DEF Debited
<1>3. CASE c.from = c.to
  <2>1. Credited(c, Debited(c, b))[<<c.tenant, c.to>>] \in Word
    BY <1>1, <1>3, Deltas
  <2> QED
    BY <1>2, <1>3, <2>1 DEF DeltasFit
<1>4. CASE c.from # c.to
  <2>1. Credited(c, Debited(c, b))[<<c.tenant, c.to>>] = b[<<c.tenant, c.to>>] + c.amount
    BY <1>1, <1>4, Deltas
  <2> QED
    BY <1>2, <1>4, <2>1 DEF DeltasFit
<1> QED
  BY <1>3, <1>4

\* What q has read of a row it has locked stays true while others move.
LEMMA HeldStable ==
  ASSUME CoreInv, NEW r \in Request, Move(r), NEW q \in Request, q # r,
         NEW id \in AccountId, cmd[q] \in TransferCommand, Held(q, id)
  PROVE  \/ snap'[q][id].kind = "absent"
         \/ /\ rowLock'[<<cmd[q].tenant, id>>] = q
            /\ kind[<<cmd[q].tenant, id>>] # "absent"
            /\ kind'[<<cmd[q].tenant, id>>] = kind[<<cmd[q].tenant, id>>]
            /\ balance'[<<cmd[q].tenant, id>>] = balance[<<cmd[q].tenant, id>>]
            /\ snap'[q][id].kind = kind[<<cmd[q].tenant, id>>]
            /\ snap'[q][id].balance = balance[<<cmd[q].tenant, id>>]
<1>1. snap'[q] = snap[q]
  BY OthersUntouched
<1>2. CASE snap[q][id].kind = "absent"
  BY <1>1, <1>2
<1>3. CASE snap[q][id].kind # "absent"
  <2> DEFINE row == <<cmd[q].tenant, id>>
  <2>1. /\ row \in Row
        /\ rowLock[row] = q
        /\ kind[row] # "absent"
        /\ snap[q][id].kind = kind[row]
        /\ snap[q][id].balance = balance[row]
    BY <1>3, TransferFields DEF Held, Row
  <2> HIDE DEF row
  <2>2. rowLock'[row] = q
    BY <2>1, OthersUntouched
  <2>3. kind'[row] = kind[row] /\ balance'[row] = balance[row]
    BY <2>1, BooksFrame
  <2> QED
    BY <1>1, <2>1, <2>2, <2>3 DEF row
<1> QED
  BY <1>2, <1>3

\* What domain.Post allowed q stays allowed while others move.
LEMMA DecidedStable ==
  ASSUME CoreInv, TypeOK', NEW r \in Request, Move(r), NEW q \in Request, q # r,
         cmd[q] \in TransferCommand, Decided(q)
  PROVE  Decided(q)'
<1> DEFINE from == <<cmd[q].tenant, cmd[q].from>>
           to == <<cmd[q].tenant, cmd[q].to>>
<1>1. snap'[q] = snap[q] /\ cmd'[q] = cmd[q]
  BY OthersUntouched
<1>2. cmd[q].from \in AccountId /\ cmd[q].to \in AccountId
  BY TransferFields
<1>3. /\ snap[q][cmd[q].from].kind # "absent" /\ snap[q][cmd[q].to].kind # "absent"
  BY PostedMeansPresent DEF Decided
<1>4. /\ rowLock'[from] = q /\ kind'[from] # "absent"
      /\ balance'[from] = balance[from]
      /\ snap'[q][cmd[q].from].kind = kind'[from]
      /\ snap'[q][cmd[q].from].balance = balance'[from]
  BY <1>1, <1>2, <1>3, HeldStable DEF Decided
<1>5. /\ rowLock'[to] = q /\ kind'[to] # "absent"
      /\ balance'[to] = balance[to]
      /\ snap'[q][cmd[q].to].kind = kind'[to]
      /\ snap'[q][cmd[q].to].balance = balance'[to]
  BY <1>1, <1>2, <1>3, HeldStable DEF Decided
<1>6. Held(q, cmd[q].from)' /\ Held(q, cmd[q].to)'
  BY <1>1, <1>4, <1>5 DEF Held
<1>7. Post(cmd[q], snap[q])' = "posted"
  BY <1>1 DEF Decided
<1>8. DeltasFit(cmd[q], balance)'
  <2>1. balance \in [Row -> Word] /\ balance' \in [Row -> Word]
    BY DEF CoreInv, TypeOK
  <2>2. DeltasFit(cmd[q], balance)
    BY DEF Decided
  <2>3. DeltasFit(cmd[q], balance')
    BY <2>1, <2>2, <1>4, <1>5, DeltasFitRows
  <2> QED
    BY <1>1, <2>3
<1> QED
  BY <1>6, <1>7, <1>8 DEF Decided

\* Every snapshot a request still relies on is of a row it holds.
LEMMA LocksStep ==
  ASSUME CoreInv, TypeOK', PhaseOK', NEW r \in Request, Move(r)
  PROVE  LocksOK'
<1> DEFINE row(c) == <<c.tenant, c.id>>
<1> SUFFICES ASSUME NEW q \in Request
             PROVE  /\ pc'[q] = "lockHigh" => Held(q, Low(cmd[q]))'
                    /\ pc'[q] = "decide" => Held(q, cmd[q].from)' /\ Held(q, cmd[q].to)'
                    /\ pc'[q] = "claim" => Decided(q)'
                    /\ pc'[q] = "commit" /\ cmd'[q].op = "transfer" => Decided(q)'
                    /\ pc'[q] = "commit" /\ cmd'[q].op = "open" =>
                         rowLock'[row(cmd'[q])] = q /\ kind'[row(cmd'[q])] = "absent"
  BY DEF LocksOK
<1>0. /\ pc[q] = "lockHigh" => Held(q, Low(cmd[q]))
      /\ pc[q] = "decide" => Held(q, cmd[q].from) /\ Held(q, cmd[q].to)
      /\ pc[q] = "claim" => Decided(q)
      /\ pc[q] = "commit" /\ cmd[q].op = "transfer" => Decided(q)
      /\ pc[q] = "commit" /\ cmd[q].op = "open" =>
           rowLock[row(cmd[q])] = q /\ kind[row(cmd[q])] = "absent"
  BY DEF CoreInv, LocksOK
<1>1. CASE q # r
  <2>1. pc'[q] = pc[q] /\ cmd'[q] = cmd[q]
    BY <1>1, OthersUntouched
  <2>2. ASSUME cmd[q] \in TransferCommand, NEW id \in AccountId, Held(q, id)
        PROVE  \/ snap'[q][id].kind = "absent"
               \/ /\ rowLock'[<<cmd'[q].tenant, id>>] = q
                  /\ kind'[<<cmd'[q].tenant, id>>] # "absent"
                  /\ snap'[q][id].kind = kind'[<<cmd'[q].tenant, id>>]
                  /\ snap'[q][id].balance = balance'[<<cmd'[q].tenant, id>>]
    BY <1>1, <2>1, <2>2, HeldStable
  <2>3. ASSUME pc[q] = "lockHigh" PROVE Held(q, Low(cmd[q]))'
    <3>1. cmd[q] \in TransferCommand /\ Low(cmd[q]) \in AccountId /\ Held(q, Low(cmd[q]))
      BY <1>0, <2>3, TransferFields DEF CoreInv, PhaseOK, TransferPhase
    <3> QED
      BY <2>1, <2>2, <3>1 DEF Held
  <2>4. ASSUME pc[q] = "decide" PROVE Held(q, cmd[q].from)' /\ Held(q, cmd[q].to)'
    <3>1. /\ cmd[q] \in TransferCommand /\ cmd[q].from \in AccountId /\ cmd[q].to \in AccountId
          /\ Held(q, cmd[q].from) /\ Held(q, cmd[q].to)
      BY <1>0, <2>4, TransferFields DEF CoreInv, PhaseOK, TransferPhase
    <3> QED
      BY <2>1, <2>2, <3>1 DEF Held
  <2>5. ASSUME pc[q] = "claim" \/ (pc[q] = "commit" /\ cmd[q].op = "transfer")
        PROVE  Decided(q)'
    <3>1. cmd[q] \in TransferCommand /\ Decided(q)
      BY <1>0, <2>5, CommandKinds DEF CoreInv, PhaseOK, TransferPhase
    <3> QED
      BY <1>1, <3>1, DecidedStable
  <2>6. ASSUME pc[q] = "commit", cmd[q].op = "open"
        PROVE  rowLock'[row(cmd[q])] = q /\ kind'[row(cmd[q])] = "absent"
    <3>1. /\ row(cmd[q]) \in Row
          /\ rowLock[row(cmd[q])] = q /\ kind[row(cmd[q])] = "absent"
      BY <1>0, <2>6, CommandKinds DEF CoreInv, PhaseOK, OpenCommand, Row
    <3> QED
      BY <1>1, <3>1, OthersUntouched, BooksFrame
  <2> QED
    BY <2>1, <2>3, <2>4, <2>5, <2>6
<1>2. CASE q = r
  <2> USE <1>2
  <2>1. ASSUME NEW id \in AccountId, cmd[r] \in TransferCommand, LockOne(r, id),
               UNCHANGED <<cmd, dbVars>>
        PROVE  Held(r, id)'
    BY <2>1, LockEffect DEF Held, CoreInv, dbVars
  <2>2. CASE LockLow(r)
    <3>1. /\ cmd[r] \in TransferCommand /\ Low(cmd[r]) \in AccountId
          /\ \/ Low(cmd[r]) = cmd[r].from /\ High(cmd[r]) = cmd[r].to
             \/ Low(cmd[r]) = cmd[r].to /\ High(cmd[r]) = cmd[r].from
      BY <2>2, TransferFields DEF LockLow, CoreInv, PhaseOK, TransferPhase
    <3>2. CASE RejectRow(r, Low(cmd[r]))
      BY <3>2 DEF RejectRow, Finish, Goto, CoreInv, TypeOK
    <3>3. CASE LockOne(r, Low(cmd[r])) /\ ~RejectRow(r, Low(cmd[r]))
      <4>1. /\ cmd' = cmd /\ UNCHANGED dbVars
            /\ pc'[r] = IF Low(cmd[r]) = High(cmd[r]) THEN "decide" ELSE "lockHigh"
        BY <2>2, <3>3 DEF LockLow, Goto, CoreInv, TypeOK
      <4>2. Held(r, Low(cmd[r]))'
        BY <2>1, <3>1, <3>3, <4>1
      <4>3. Low(cmd[r]) = High(cmd[r]) => Held(r, cmd[r].from)' /\ Held(r, cmd[r].to)'
        BY <3>1, <4>1, <4>2
      <4> QED
        BY <4>1, <4>2, <4>3
    <3> QED
      BY <2>2, <3>2, <3>3 DEF LockLow
  <2>3. CASE LockHigh(r)
    <3>1. /\ cmd[r] \in TransferCommand
          /\ Low(cmd[r]) \in AccountId /\ High(cmd[r]) \in AccountId
          /\ \/ Low(cmd[r]) = cmd[r].from /\ High(cmd[r]) = cmd[r].to
             \/ Low(cmd[r]) = cmd[r].to /\ High(cmd[r]) = cmd[r].from
          /\ Held(r, Low(cmd[r]))
      BY <1>0, <2>3, TransferFields DEF LockHigh, CoreInv, PhaseOK, TransferPhase
    <3>2. CASE RejectRow(r, High(cmd[r]))
      BY <3>2 DEF RejectRow, Finish, Goto, CoreInv, TypeOK
    <3>3. CASE LockOne(r, High(cmd[r])) /\ ~RejectRow(r, High(cmd[r]))
      <4>1. cmd' = cmd /\ UNCHANGED dbVars /\ pc'[r] = "decide"
        BY <2>3, <3>3 DEF LockHigh, Goto, CoreInv, TypeOK
      <4>2. Held(r, High(cmd[r]))'
        BY <2>1, <3>1, <3>3, <4>1
      <4>3. CASE Low(cmd[r]) # High(cmd[r])
        <5>1. <<cmd[r].tenant, Low(cmd[r])>> \in Row
          BY <3>1, TransferFields DEF Row
        <5>2. TypeOK
          BY DEF CoreInv
        <5>3. /\ \A other \in AccountId \ {High(cmd[r])} : snap'[r][other] = snap[r][other]
              /\ \A other \in Row : rowLock[other] \in Request => rowLock'[other] = rowLock[other]
          BY <3>1, <3>3, <5>2, LockEffect
        <5>4. Held(r, Low(cmd[r]))'
          BY <3>1, <4>1, <4>3, <5>1, <5>3 DEF Held, dbVars
        <5> QED
          BY <3>1, <4>1, <4>2, <5>4
      <4>4. CASE Low(cmd[r]) = High(cmd[r])
        BY <3>1, <4>1, <4>2, <4>4
      <4> QED
        BY <4>3, <4>4
    <3> QED
      BY <2>3, <3>2, <3>3 DEF LockHigh
  <2>4. CASE Decide(r)
    <3>1. CASE pc'[r] = "done"
      BY <3>1
    <3>2. CASE pc'[r] # "done"
      <4>1. /\ Post(cmd[r], snap[r]) = "posted" /\ DeltasFit(cmd[r], balance)
            /\ pc[r] = "decide" /\ pc'[r] = "claim"
            /\ UNCHANGED <<rowLock, cmd, snap, dbVars>>
        BY <2>4, <3>2 DEF Decide, Finish, Goto, CoreInv, TypeOK
      <4>2. Decided(r)
        BY <1>0, <4>1 DEF Decided
      <4> QED
        BY <4>1, <4>2 DEF Decided, Held, dbVars
    <3> QED
      BY <3>1, <3>2
  <2>5. CASE Claim(r)
    <3>1. /\ pc[r] = "claim" /\ pc'[r] \in {"begin", "commit"}
          /\ UNCHANGED <<rowLock, cmd, snap, dbVars>>
          /\ cmd[r].op = "transfer"
      BY <2>5 DEF Claim, Goto, CoreInv, TypeOK, PhaseOK, TransferPhase, TransferCommand
    <3> QED
      BY <1>0, <3>1 DEF Decided, Held, dbVars
  <2>6. CASE Insert(r)
    <3>1. /\ row(cmd[r]) \in Row /\ cmd[r].op = "open"
      BY <2>6 DEF Insert, CoreInv, PhaseOK, OpenPhase, OpenCommand, Row
    <3>2. CASE pc'[r] = "done"
      BY <3>2
    <3>3. CASE pc'[r] # "done"
      <4>1. /\ kind[row(cmd[r])] = "absent" /\ UNCHANGED <<cmd, dbVars>>
            /\ rowLock' = [rowLock EXCEPT ![row(cmd[r])] = r]
            /\ pc'[r] = "commit"
        BY <2>6, <3>3 DEF Insert, Finish, Goto, CoreInv, TypeOK
      <4> QED
        BY <3>1, <4>1 DEF CoreInv, TypeOK, dbVars
    <3> QED
      BY <3>2, <3>3
  <2>7. CASE ~(LockLow(r) \/ LockHigh(r) \/ Decide(r) \/ Claim(r) \/ Insert(r))
    <3>1. pc'[r] \notin {"lockHigh", "decide", "claim", "commit"}
      BY <2>7 DEF Move, Step, Submit, Begin, Lookup, Render, Check, Commit,
                  CommitUnheard, Abort, Finish, Goto, CoreInv, TypeOK
    <3> QED
      BY <3>1
  <2> QED
    BY <2>2, <2>3, <2>4, <2>5, <2>6, <2>7
<1> QED
  BY <1>1, <1>2

-----------------------------------------------------------------------------
\* A commit leaves no wallet below zero: the balances it changes are those of
\* the snapshots domain.Post accepted, and no addition has wrapped around.
LEMMA WalletsStep ==
  ASSUME CoreInv, WalletsNeverNegative, TypeOK', NEW r \in Request, Move(r)
  PROVE  WalletsNeverNegative'
<1>1. CASE UNCHANGED dbVars
  BY <1>1 DEF CoreInv, WalletsNeverNegative, dbVars
<1>2. CASE pc[r] = "commit" /\ MakeDurable(r)
  <2>0. cmd[r] \in Command
    BY <1>2 DEF CoreInv, PhaseOK
  <2>1. CASE cmd[r].op = "open"
    <3>1. <<cmd[r].tenant, cmd[r].id>> \in Row
      BY <2>0, <2>1, CommandKinds DEF OpenCommand, Row
    <3>2. /\ kind' = [kind EXCEPT ![<<cmd[r].tenant, cmd[r].id>>] = cmd[r].kind]
          /\ balance' = [balance EXCEPT ![<<cmd[r].tenant, cmd[r].id>>] = 0]
      BY <1>2, <2>1 DEF MakeDurable
    <3> QED
      BY <3>1, <3>2 DEF CoreInv, TypeOK, WalletsNeverNegative
  <2>2. CASE cmd[r].op = "transfer"
    <3> DEFINE c == cmd[r]
               from == <<c.tenant, c.from>>
               to == <<c.tenant, c.to>>
    <3>1. /\ c \in TransferCommand /\ Decided(r)
          /\ from \in Row /\ to \in Row /\ c.amount \in Int
      <4>1. c \in TransferCommand
        BY <2>0, <2>2, CommandKinds
      <4>2. Decided(r)
        BY <1>2, <2>2 DEF CoreInv, LocksOK
      <4>3. from \in Row /\ to \in Row /\ c.amount \in Int
        BY <4>1, TransferFields, LedgerAssumption DEF Row, Word
      <4> QED
        BY <4>1, <4>2, <4>3
    <3>2. balance \in [Row -> Word] /\ kind' = kind
      BY <1>2, <2>2 DEF CoreInv, TypeOK, MakeDurable
    <3>3. balance' = Credited(c, Debited(c, balance))
      BY <1>2, <2>2 DEF MakeDurable
    <3>4. CASE c.from = c.to
      BY <3>1, <3>2, <3>3, <3>4, Deltas DEF CoreInv, WalletsNeverNegative
    <3>5. CASE c.from # c.to
      <4>1. /\ snap[r][c.from].kind = kind[from] /\ snap[r][c.from].balance = balance[from]
            /\ snap[r][c.to].kind = kind[to] /\ snap[r][c.to].balance = balance[to]
            /\ ~TakesBelowZero(snap[r][c.from], -c.amount)
            /\ ~TakesBelowZero(snap[r][c.to], c.amount)
        <5>1. Post(c, snap[r]) = "posted" /\ Held(r, c.from) /\ Held(r, c.to)
          BY <3>1 DEF Decided
        <5>2. /\ snap[r][c.from].kind # "absent" /\ snap[r][c.to].kind # "absent"
              /\ ~TakesBelowZero(snap[r][c.from], -c.amount)
              /\ ~TakesBelowZero(snap[r][c.to], c.amount)
          BY <3>1, <5>1, PostedMeansPresent
        <5> QED
          BY <5>1, <5>2 DEF Held
      <4>2. balance[from] - c.amount \in Word /\ balance[to] + c.amount \in Word
        BY <3>1, <3>2, <3>5, DeltasFitRows DEF Decided
      <4>3. balance[from] \in Int /\ balance[to] \in Int
        BY <3>1, <3>2, LedgerAssumption DEF Word
      <4>4. kind[from] = "wallet" => balance[from] - c.amount >= 0
        <5>1. balance[from] + (-c.amount) = balance[from] - c.amount
          BY <3>1, <4>3
        <5>2. Wrap(balance[from] + (-c.amount)) = balance[from] - c.amount
          BY <4>2, <5>1, WrapInside
        <5>3. balance[from] - c.amount \in Int
          BY <3>1, <4>3
        <5> HIDE DEF c, from
        <5>4. kind[from] = "wallet" => ~(balance[from] - c.amount < 0)
          BY <4>1, <5>2 DEF TakesBelowZero
        <5> QED
          BY <5>3, <5>4
      <4>5. kind[to] = "wallet" => balance[to] + c.amount >= 0
        <5>2. Wrap(balance[to] + c.amount) = balance[to] + c.amount
          BY <4>2, WrapInside
        <5>3. balance[to] + c.amount \in Int
          BY <3>1, <4>3
        <5> HIDE DEF c, to
        <5>4. kind[to] = "wallet" => ~(balance[to] + c.amount < 0)
          BY <4>1, <5>2 DEF TakesBelowZero
        <5> QED
          BY <5>3, <5>4
      <4>6. \A row \in Row : kind[row] = "wallet" => balance[row] >= 0
        BY DEF CoreInv, WalletsNeverNegative
      <4>7. balance' = [row \in Row |-> IF row = from THEN balance[row] - c.amount
                                        ELSE IF row = to THEN balance[row] + c.amount
                                        ELSE balance[row]]
        BY <3>1, <3>2, <3>3, <3>5, Deltas
      <4> HIDE DEF c, from, to
      <4> QED
        BY <3>2, <4>4, <4>5, <4>6, <4>7 DEF WalletsNeverNegative
    <3> QED
      BY <3>4, <3>5
  <2> QED
    BY <2>0, <2>1, <2>2, CommandKinds
<1> QED
  BY <1>1, <1>2, BooksFrame

\* A row that is not there keeps its zero: a posting touches rows that are.
LEMMA AbsentStep ==
  ASSUME CoreInv, NEW r \in Request, Move(r)
  PROVE  AbsentIsZero'
<1> SUFFICES ASSUME NEW row \in Row, kind'[row] = "absent" PROVE balance'[row] = 0
  BY DEF AbsentIsZero
<1>1. CASE UNCHANGED dbVars
  BY <1>1 DEF CoreInv, AbsentIsZero, dbVars
<1>2. CASE pc[r] = "commit" /\ MakeDurable(r) /\ cmd[r].op = "transfer"
  <2>1. cmd[r] \in TransferCommand /\ Decided(r) /\ balance \in [Row -> Word]
    BY <1>2, CommandKinds DEF CoreInv, TypeOK, PhaseOK, LocksOK
  <2>2. snap[r][cmd[r].from].kind # "absent" /\ snap[r][cmd[r].to].kind # "absent"
    BY <2>1, PostedMeansPresent DEF Decided
  <2>3. /\ kind[<<cmd[r].tenant, cmd[r].from>>] # "absent"
        /\ kind[<<cmd[r].tenant, cmd[r].to>>] # "absent"
    BY <2>1, <2>2 DEF Decided, Held
  <2>4. kind' = kind /\ balance' = Credited(cmd[r], Debited(cmd[r], balance))
    BY <1>2 DEF MakeDurable
  <2>5. balance[row] = 0
    BY <2>4 DEF CoreInv, AbsentIsZero
  <2>6. balance'[row] = balance[row]
    <3>1. CASE cmd[r].from = cmd[r].to
      BY <2>1, <2>4, <3>1, Deltas
    <3>2. CASE cmd[r].from # cmd[r].to
      BY <2>1, <2>3, <2>4, <3>2, Deltas
    <3> QED
      BY <3>1, <3>2
  <2> QED
    BY <2>5, <2>6
<1>3. CASE pc[r] = "commit" /\ MakeDurable(r) /\ cmd[r].op = "open"
  BY <1>3 DEF MakeDurable, CoreInv, AbsentIsZero, TypeOK
<1>4. pc[r] = "commit" => cmd[r].op \in {"transfer", "open"}
  BY CommandKinds DEF CoreInv, PhaseOK
<1> QED
  BY <1>1, <1>2, <1>3, <1>4, BooksFrame

\* No request that has ended moves, and no request but a new one changes what
\* it asks for.
LEMMA Moving ==
  ASSUME CoreInv, NEW r \in Request, Move(r)
  PROVE  /\ pc[r] # "done"
         /\ pc[r] # "idle" => cmd' = cmd
         /\ \A w \in posted : w \in Request \ {r} /\ cmd'[w] = cmd[w]
<1>1. pc[r] # "done" /\ (pc[r] # "idle" => cmd' = cmd)
  BY DEF Move, Step, Submit, Begin, Lookup, Render, LockLow, LockHigh, Decide, Claim,
         Check, Insert, Commit, CommitUnheard, Abort, RejectRow, Finish
<1>2. \A w \in posted : w \in Request /\ pc[w] = "done"
  BY DEF CoreInv, TypeOK, PhaseOK
<1> QED
  BY <1>1, <1>2, OthersUntouched

\* The key and its transaction become durable in one commit.
LEMMA KeyedStep ==
  ASSUME CoreInv, TypeOK', NEW r \in Request, Move(r)
  PROVE  KeyedExactlyOnce'
<1>1. \A w \in posted : cmd'[w] = cmd[w] /\ cmd[w] \in TransferCommand /\ w # r
  <2>1. \A w \in posted : cmd[w] \in TransferCommand
    BY DEF CoreInv, TypeOK, PhaseOK
  <2> QED
    BY <2>1, Moving
<1>2. CASE UNCHANGED dbVars
  BY <1>1, <1>2 DEF CoreInv, KeyedExactlyOnce, dbVars
<1>3. CASE pc[r] = "commit" /\ MakeDurable(r) /\ cmd[r].op = "open"
  <2>1. posted' = posted /\ claims' = claims
    BY <1>3 DEF MakeDurable
  <2> QED
    BY <1>1, <2>1 DEF CoreInv, KeyedExactlyOnce
<1>4. CASE pc[r] = "commit" /\ MakeDurable(r) /\ cmd[r].op = "transfer"
  <2>1. /\ posted' = posted \cup {r}
        /\ claims' = [claims EXCEPT ![cmd[r].key] = r]
        /\ claims[cmd[r].key] = None
    BY <1>4 DEF MakeDurable, CoreInv, KeysOK
  <2>2. cmd' = cmd /\ cmd[r] \in TransferCommand /\ cmd[r].key \in Key
    <3>1. cmd' = cmd
      BY <1>4 DEF Move, Step, Submit, Begin, Lookup, Render, LockLow, LockHigh, Decide,
                  Claim, Check, Insert, Commit, CommitUnheard, Abort, Finish
    <3> QED
      BY <1>4, <3>1, CommandKinds, TransferFields DEF CoreInv, PhaseOK
  <2>3. \A w \in posted : claims[cmd[w].key] = w /\ cmd[w].key \in Key /\ w # None
    BY <1>1, TransferFields, LedgerAssumption DEF CoreInv, KeyedExactlyOnce, TypeOK
  <2>4. \A k \in Key : claims[k] # None => claims[k] \in posted /\ cmd[claims[k]].key = k
    BY DEF CoreInv, KeyedExactlyOnce
  <2>5. claims \in [Key -> Request \cup {None}]
    BY DEF CoreInv, TypeOK
  <2>6. \A w \in posted' : claims'[cmd[w].key] = w
    BY <2>1, <2>2, <2>3, <2>5
  <2>7. \A k \in Key : claims'[k] # None => claims'[k] \in posted' /\ cmd[claims'[k]].key = k
    BY <2>1, <2>2, <2>4, <2>5
  <2> QED
    BY <2>2, <2>6, <2>7 DEF KeyedExactlyOnce
<1>5. pc[r] = "commit" => cmd[r].op \in {"transfer", "open"}
  BY CommandKinds DEF CoreInv, PhaseOK
<1> QED
  BY <1>2, <1>3, <1>4, <1>5, BooksFrame

\* What requests have read and hold stays right if nothing but the pool changes.
LEMMA SameProgram ==
  ASSUME CoreInv, TypeOK',
         kind' = kind, balance' = balance, posted' = posted, claims' = claims,
         rowLock' = rowLock, keyLock' = keyLock, cmd' = cmd, pc' = pc,
         conns' = conns, snap' = snap, answer' = answer
  PROVE  CoreInv'
<1>1. PhaseOK' /\ KeysOK' /\ NestedOK'
  BY DEF CoreInv, PhaseOK, KeysOK, NestedOK
<1>3. LocksOK'
  <2>1. LocksOK
    BY DEF CoreInv
  <2>2. \A r, id : Held(r, id)' = Held(r, id)
    BY DEF Held
  <2>3. \A r : Decided(r)' = Decided(r)
    BY <2>2 DEF Decided
  <2> QED
    BY <2>1, <2>2, <2>3 DEF LocksOK
<1>4. KeyedExactlyOnce' /\ LoserFindsWinner' /\ AbsentIsZero'
  BY DEF CoreInv, KeyedExactlyOnce, LoserFindsWinner, AbsentIsZero
<1> QED
  BY <1>1, <1>3, <1>4 DEF CoreInv

\* The write path's part of the invariant is inductive by itself.
LEMMA CoreStep == CoreInv /\ [Next]_vars => CoreInv'
<1> SUFFICES ASSUME CoreInv, [Next]_vars PROVE CoreInv'
  OBVIOUS
<1>1. TypeOK'
  BY TypeStep
<1>2. CASE UNCHANGED vars
  <2>1. /\ kind' = kind /\ balance' = balance /\ posted' = posted /\ claims' = claims
        /\ rowLock' = rowLock /\ keyLock' = keyLock /\ cmd' = cmd /\ pc' = pc
        /\ conns' = conns /\ snap' = snap /\ answer' = answer
    BY <1>2 DEF vars, dbVars
  <2> QED
    BY <1>1, <2>1, SameProgram
<1>3. CASE \E r \in Request : Move(r)
  <2>1. PICK r \in Request : Move(r)
    BY <1>3
  <2>2. PhaseOK'
    BY <1>1, <2>1, PhaseStep
  <2>3. LocksOK' /\ KeysOK' /\ NestedOK' /\ LoserFindsWinner'
    BY <1>1, <2>1, <2>2, LocksStep, KeysStep, NestedStep
  <2>4. KeyedExactlyOnce' /\ AbsentIsZero'
    BY <1>1, <2>1, KeyedStep, AbsentStep
  <2> QED
    BY <1>1, <2>2, <2>3, <2>4 DEF CoreInv
<1> QED
  BY <1>2, <1>3 DEF Next, Move

\* A read beside the write path takes and returns a connection, and no more.
LEMMA PoolOnly ==
  ASSUME CoreInv, free' \in Nat,
         UNCHANGED <<dbVars, rowLock, keyLock, cmd, pc, conns, snap, answer>>
  PROVE  CoreInv'
<1>1. /\ kind' = kind /\ balance' = balance /\ posted' = posted /\ claims' = claims
      /\ rowLock' = rowLock /\ keyLock' = keyLock /\ cmd' = cmd /\ pc' = pc
      /\ conns' = conns /\ snap' = snap /\ answer' = answer
  BY DEF dbVars
<1>2. TypeOK'
  BY <1>1 DEF CoreInv, TypeOK
<1> QED
  BY <1>1, <1>2, SameProgram

\* The invariant is inductive.
LEMMA IInvStep == IInv /\ [Next]_vars => IInv'
<1> SUFFICES ASSUME IInv, [Next]_vars PROVE IInv'
  OBVIOUS
<1>1. CoreInv /\ CoreInv' /\ WalletsNeverNegative
  BY CoreStep DEF IInv
<1>2. CASE UNCHANGED vars
  BY <1>1, <1>2 DEF IInv, vars, WalletsNeverNegative
<1>3. CASE \E r \in Request : Move(r)
  <2>1. WalletsNeverNegative'
    BY <1>1, <1>3, WalletsStep DEF CoreInv
  <2> QED
    BY <1>1, <2>1 DEF IInv
<1> QED
  BY <1>2, <1>3 DEF Next, Move

-----------------------------------------------------------------------------
\* Every reachable state satisfies the inductive invariant.
THEOREM Inductive == Spec => []IInv
BY InitIInv, IInvStep, PTL DEF Spec

\* Every variable keeps its type; in particular no committed balance leaves
\* the int64 word, because ApplyDeltas fails rather than store one.
THEOREM TypeCorrect == Spec => []TypeOK
<1>1. IInv => TypeOK
  BY DEF IInv, CoreInv
<1> QED
  BY <1>1, Inductive, PTL

\* I4: however the requests interleave, no wallet's committed balance is
\* negative.
THEOREM NeverNegative == Spec => []WalletsNeverNegative
<1>1. IInv => WalletsNeverNegative
  BY DEF IInv
<1> QED
  BY <1>1, Inductive, PTL

\* I7: however requests race, fail or lose their commit's answer, a key and
\* the one transaction it names become durable together.
THEOREM ExactlyOnce == Spec => []KeyedExactlyOnce
<1>1. IInv => KeyedExactlyOnce
  BY DEF IInv, CoreInv
<1> QED
  BY <1>1, Inductive, PTL

\* PostTransfer's recursion after a lost claim ends at the winner's claim and
\* asks for no lock its own open unit of work holds.
THEOREM LoserReplays == Spec => []LoserFindsWinner
<1>1. IInv => LoserFindsWinner
  BY DEF IInv, CoreInv
<1> QED
  BY <1>1, Inductive, PTL
=============================================================================
