--------------------------- MODULE StatementsProofs -------------------------
(***************************************************************************)
(* Proofs about Statements, for any accounts, tenants, keys, calls and     *)
(* number of requests: what a statement lists is its account's history.    *)
(***************************************************************************)
EXTENDS Statements, LedgerProofs

-----------------------------------------------------------------------------
(* Running balances.  The least counterexample takes the place of          *)
(* induction again.                                                        *)

\* A set of numbers has a smallest member.
LEMMA SmallestNumber ==
  ASSUME NEW B \in SUBSET Nat, B # {}
  PROVE  \E n \in B : \A m \in B : n <= m
<1>1. PICK k \in B : k \in Nat
  OBVIOUS
<1> DEFINE S == 0 .. k
           C == {T \in SUBSET S : \E m \in B : T = 0 .. m}
<1>2. IsFiniteSet(S)
  BY FS_Interval
<1>3. C \in SUBSET SUBSET S /\ 0 .. k \in C
  BY <1>1
<1>4. PICK T \in C : \A U \in C : U \subseteq T => U = T
  <2> HIDE DEF C, S
  <2> QED
    BY <1>2, <1>3, SmallestSubset
<1>5. PICK n \in B : T = 0 .. n
  BY <1>4
<1>6. n \in Nat /\ n <= k
  BY <1>4, <1>5
<1>7. ASSUME NEW m \in B PROVE n <= m
  <2>1. CASE m <= n
    <3>1. 0 .. m \in C /\ 0 .. m \subseteq T /\ m \in Nat
      BY <1>5, <1>6, <2>1
    <3>2. 0 .. m = 0 .. n
      BY <1>4, <1>5, <3>1
    <3> QED
      BY <1>6, <3>1, <3>2
  <2>2. CASE ~(m <= n)
    BY <1>6, <2>2
  <2> QED
    BY <2>1, <2>2
<1> QED
  BY <1>7

\* An int64 sum is an int64.
LEMMA WrapSum == ASSUME NEW a \in Word, NEW b \in Word PROVE Wrap(a + b) \in Word
BY LedgerAssumption DEF Wrap, Word

\* What the fold adds entry i to: nothing, where it restarts.
Carried(s, g, i) == IF i = 1 \/ s[i].tenant # s[i - 1].tenant THEN 0 ELSE g[i - 1]

\* g is runningBalances of the first m entries of s.
Folds(g, s, m) ==
  /\ g \in [1 .. m -> Word]
  /\ \A i \in 1 .. m : g[i] = Wrap(s[i].amount + Carried(s, g, i))

\* The fold is defined on every list of entries.
LEMMA FoldExists ==
  ASSUME NEW n \in Nat, NEW s, \A i \in 1 .. n : s[i].amount \in Word
  PROVE  \E g : Folds(g, s, n)
<1> DEFINE B == {m \in 0 .. n : ~\E g : Folds(g, s, m)}
<1> SUFFICES ASSUME B # {} PROVE FALSE
  OBVIOUS
<1>1. PICK m \in B : \A k \in B : m <= k
  <2>1. B \in SUBSET Nat
    OBVIOUS
  <2> HIDE DEF B
  <2> QED
    BY <2>1, SmallestNumber
<1>2. m # 0
  <2>1. Folds([i \in 1 .. 0 |-> 0], s, 0)
    BY DEF Folds
  <2> QED
    BY <1>1, <2>1
<1>3. m \in 1 .. n /\ m - 1 \in 0 .. n /\ m - 1 \notin B
  BY <1>1, <1>2
<1>4. PICK g : Folds(g, s, m - 1)
  BY <1>3
<1>5. 0 \in Word
  BY LedgerAssumption DEF Word
<1>6. Carried(s, g, m) \in Word
  <2>1. m # 1 => m - 1 \in 1 .. m - 1
    BY <1>3
  <2> QED
    BY <1>4, <1>5, <2>1 DEF Folds, Carried
<1>7. Wrap(s[m].amount + Carried(s, g, m)) \in Word
  BY <1>3, <1>6, WrapSum
<1> DEFINE h == [i \in 1 .. m |-> IF i = m THEN Wrap(s[m].amount + Carried(s, g, m)) ELSE g[i]]
<1>8. h \in [1 .. m -> Word]
  <2>1. \A i \in 1 .. m : i # m => i \in 1 .. m - 1
    BY <1>3
  <2> QED
    BY <1>4, <1>7, <2>1 DEF Folds
<1>9. ASSUME NEW i \in 1 .. m PROVE h[i] = Wrap(s[i].amount + Carried(s, h, i))
  <2>1. i # 1 => i - 1 \in 1 .. m /\ i - 1 # m
    BY <1>3
  <2>2. Carried(s, h, i) = Carried(s, g, i)
    BY <2>1 DEF Carried
  <2>3. i # m => i \in 1 .. m - 1
    BY <1>3
  <2> QED
    BY <1>4, <2>2, <2>3 DEF Folds
<1> HIDE DEF h
<1> QED
  BY <1>1, <1>8, <1>9 DEF Folds

\* runningBalances folds the entries it is given into int64 balances.
LEMMA RunningFolds ==
  ASSUME NEW n \in Nat, NEW s, DOMAIN s = 1 .. n, \A i \in 1 .. n : s[i].amount \in Word
  PROVE  Folds(Running(s), s, n)
<1> DEFINE R(f) == f = [i \in DOMAIN s |-> Wrap(s[i].amount + IF i = 1 \/ s[i].tenant # s[i - 1].tenant
                                                          THEN 0 ELSE f[i - 1])]
           f == Running(s)
<1>1. PICK g : Folds(g, s, n)
  BY FoldExists
<1>2. R(g)
  BY <1>1 DEF Folds, Carried
<1>3. f = CHOOSE x : R(x)
  BY DEF Running, R
<1>4. R(f)
  <2> HIDE DEF R, f
  <2> QED
    BY <1>2, <1>3
<1>5. \A i \in 1 .. n : f[i] = Wrap(s[i].amount + Carried(s, f, i))
  BY <1>4 DEF Carried
<1>6. DOMAIN f = 1 .. n /\ f = [i \in 1 .. n |-> f[i]]
  BY <1>4
<1> HIDE DEF f
<1>7. \A i \in 1 .. n : f[i] \in Word
  <2> DEFINE B == {i \in 1 .. n : f[i] \notin Word}
  <2> SUFFICES ASSUME B # {} PROVE FALSE
    OBVIOUS
  <2>1. PICK i \in B : \A k \in B : i <= k
    <3>1. B \in SUBSET Nat
      OBVIOUS
    <3> HIDE DEF B
    <3> QED
      BY <3>1, SmallestNumber
  <2>2. i # 1 => i - 1 \in 1 .. n /\ f[i - 1] \in Word
    BY <2>1
  <2>3. Carried(s, f, i) \in Word
    BY <2>2, LedgerAssumption DEF Carried, Word
  <2>4. f[i] \in Word
    BY <1>5, <2>1, <2>3, WrapSum
  <2> QED
    BY <2>1, <2>4
<1> QED
  BY <1>5, <1>6, <1>7 DEF Folds, f

-----------------------------------------------------------------------------
(* The invariant, whatever the clock reads.                                *)

\* Where the client's call stands, what it asks for and what it has been told.
AskOK ==
  /\ rpc \in {"begin", "account", "entries"} => ask \in Call /\ ~ForeignTenantNamed(ask)
  /\ rpc = "entries" => ask.op = "entries"
  /\ rpc # "done" => page = NoPage

GInv ==
  /\ CoreInv /\ StatementsTypeOK /\ IsFiniteSet(posted)
  /\ \A r \in posted : cmd[r].amount > 0
  /\ AskOK /\ TenantsReadTheirOwn

\* The rows a transfer moves money between.
FromRow(c) == <<c.tenant, c.from>>
ToRow(c) == <<c.tenant, c.to>>

\* A write step commits nothing, or one transfer; then it appends to the trail
\* of either row what it leaves on it.
CommitsNothing == posted' = posted /\ trail' = trail
CommitsTransfer(r) ==
  /\ r \notin posted /\ posted' = posted \cup {r}
  /\ pc[r] = "commit" /\ cmd[r] \in TransferCommand /\ cmd[r].amount > 0
  /\ rowLock[FromRow(cmd[r])] = r /\ rowLock[ToRow(cmd[r])] = r
  /\ kind' = kind
  /\ balance' = Credited(cmd[r], Debited(cmd[r], balance))
  /\ balance[FromRow(cmd[r])] - cmd[r].amount \in Word
  /\ FromRow(cmd[r]) # ToRow(cmd[r]) => balance[ToRow(cmd[r])] + cmd[r].amount \in Word
  /\ trail' = [row \in Row |->
       IF row = FromRow(cmd[r]) /\ row = ToRow(cmd[r])
       THEN Append(Append(trail[row], balance[row] - cmd[r].amount), balance[row])
       ELSE IF row = FromRow(cmd[r]) THEN Append(trail[row], balance[row] - cmd[r].amount)
       ELSE IF row = ToRow(cmd[r]) THEN Append(trail[row], balance[row] + cmd[r].amount)
       ELSE trail[row]]

(* A step of the ledger commits nothing or exactly one transfer, whose rows
   and trails it extends. *)
LEMMA WriteCommits ==
  ASSUME CoreInv, StatementsTypeOK, Write, NEW r \in Request, Move(r)
  PROVE  CommitsNothing \/ CommitsTransfer(r)
<1>1. CASE posted' = posted
  BY <1>1 DEF Write, CommitsNothing
<1>2. CASE posted' # posted
  <2>1. r \notin posted /\ posted' = posted \cup {r}
    BY <1>2, BooksFrame
  <2>2. pc[r] = "commit" /\ MakeDurable(r)
    BY <1>2, BooksFrame DEF dbVars
  <2>3. /\ cmd[r].op = "transfer" /\ kind' = kind
        /\ balance' = Credited(cmd[r], Debited(cmd[r], balance))
    BY <1>2, <2>2 DEF MakeDurable
  <2>4. cmd[r] \in TransferCommand /\ Decided(r) /\ balance \in [Row -> Word]
    BY <2>2, <2>3, CommandKinds DEF CoreInv, TypeOK, PhaseOK, LocksOK
  <2> DEFINE c == cmd[r]
             from == FromRow(c)
             to == ToRow(c)
             d == Debited(c, balance)
             e == Credited(c, d)
  <2>5. /\ snap[r][c.from].kind # "absent" /\ snap[r][c.to].kind # "absent" /\ c.amount > 0
    BY <2>4, PostedMeansPresent DEF Decided
  <2>6. rowLock[from] = r /\ rowLock[to] = r
    BY <2>4, <2>5 DEF Decided, Held, FromRow, ToRow
  <2>7. /\ balance[from] - c.amount \in Word
        /\ from # to => balance[to] + c.amount \in Word
    BY <2>4, DeltasFitRows DEF Decided, FromRow, ToRow
  <2>8. /\ from \in Row /\ to \in Row /\ c.amount \in Int
        /\ \A row \in Row : balance[row] \in Int
    BY <2>4, TransferFields, LedgerAssumption DEF Row, Word, FromRow, ToRow
  <2>9. PICK q \in posted' \ posted :
          trail' = LET b == cmd[q]
                       f == <<b.tenant, b.from>>
                       t == <<b.tenant, b.to>>
                       debited == Debited(b, balance)
                       afterDebit == [trail EXCEPT ![f] = Append(@, debited[f])]
                   IN  [afterDebit EXCEPT ![t] = Append(@, Credited(b, debited)[t])]
    BY <1>2 DEF Write
  <2>10. trail' = [[trail EXCEPT ![from] = Append(@, d[from])] EXCEPT ![to] = Append(@, e[to])]
    BY <2>1, <2>9 DEF FromRow, ToRow
  <2>11. d[from] = balance[from] - c.amount
    BY <2>4, <2>8 DEF Debited, FromRow
  <2>12. e[to] = IF from = to THEN balance[to] ELSE balance[to] + c.amount
    <3>1. CASE from = to
      <4>1. c.from = c.to
        BY <3>1 DEF FromRow, ToRow
      <4>2. e = balance
        BY <2>4, <4>1, Deltas
      <4> QED
        BY <3>1, <4>2
    <3>2. CASE from # to
      BY <2>4, <2>8, <3>2 DEF Debited, Credited, FromRow, ToRow
    <3> QED
      BY <3>1, <3>2
  <2>13. trail \in [Row -> Seq(Word)]
    BY DEF StatementsTypeOK
  <2> DEFINE v == d[from]
             w == e[to]
  <2>14. trail' = [row \in Row |->
                     IF row = from /\ row = to THEN Append(Append(trail[row], v), w)
                     ELSE IF row = from THEN Append(trail[row], v)
                     ELSE IF row = to THEN Append(trail[row], w)
                     ELSE trail[row]]
    <3>1. trail' = [[trail EXCEPT ![from] = Append(@, v)] EXCEPT ![to] = Append(@, w)]
      BY <2>10
    <3> HIDE DEF from, to, v, w
    <3> QED
      BY <2>8, <2>13, <3>1
  <2>15. trail' = [row \in Row |->
           IF row = from /\ row = to
           THEN Append(Append(trail[row], balance[row] - c.amount), balance[row])
           ELSE IF row = from THEN Append(trail[row], balance[row] - c.amount)
           ELSE IF row = to THEN Append(trail[row], balance[row] + c.amount)
           ELSE trail[row]]
    <3> HIDE DEF from, to, d, e, c
    <3> QED
      BY <2>11, <2>12, <2>14
  <2> QED
    BY <2>1, <2>2, <2>3, <2>4, <2>5, <2>6, <2>7, <2>14, <2>15 DEF CommitsTransfer
<1> QED
  BY <1>1, <1>2

\* The clock is read by the request that moves, when it goes on to write.
LEMMA WriteStamps ==
  ASSUME CoreInv, StatementsTypeOK, Write, NEW r \in Request, Move(r)
  PROVE  /\ \A q \in Request \ {r} : recorded'[q] = recorded[q]
         /\ \/ ~Stamps(r) /\ now' = now /\ recorded' = recorded
            \/ /\ Stamps(r) /\ now' = now + 1
               /\ \E e \in 0 .. ClockError : recorded' = [recorded EXCEPT ![r] = now + 1 - e]
<1>1. \A q \in Request : Stamps(q) => q = r
  BY OthersUntouched DEF Stamps
<1>2. recorded \in [Request -> Int]
  BY DEF StatementsTypeOK
<1>3. CASE Stamps(r)
  <2>1. PICK q \in Request, e \in 0 .. ClockError :
          Stamps(q) /\ recorded' = [recorded EXCEPT ![q] = now + 1 - e]
    BY <1>3 DEF Write
  <2>2. q = r /\ now' = now + 1
    BY <1>1, <1>3, <2>1 DEF Write
  <2> QED
    BY <1>2, <1>3, <2>1, <2>2
<1>4. CASE ~Stamps(r)
  BY <1>1, <1>4 DEF Write
<1> QED
  BY <1>3, <1>4

\* A step of the write path keeps the types.
LEMMA WriteTypes ==
  ASSUME CoreInv, StatementsTypeOK, Write, NEW r \in Request, Move(r)
  PROVE  StatementsTypeOK'
<1>1. TypeOK'
  BY TypeStep DEF Next, Write, Move
<1>2. now \in Nat /\ recorded \in [Request -> Int] /\ trail \in [Row -> Seq(Word)]
      /\ balance \in [Row -> Word]
  BY DEF StatementsTypeOK, TypeOK
<1>3. now' \in Nat /\ recorded' \in [Request -> Int]
  <2>1. \A e \in 0 .. ClockError : now + 1 - e \in Int
    BY <1>2, StatementsAssumption
  <2>2. now + 1 \in Nat
    BY <1>2
  <2> QED
    BY <1>2, <2>1, <2>2, WriteStamps
<1>4. trail' \in [Row -> Seq(Word)]
  <2>1. CASE CommitsNothing
    BY <1>2, <2>1 DEF CommitsNothing
  <2>2. CASE CommitsTransfer(r)
    <3> DEFINE from == FromRow(cmd[r])
               to == ToRow(cmd[r])
               n == cmd[r].amount
    <3>1. /\ balance[from] - n \in Word
          /\ from # to => balance[to] + n \in Word
          /\ trail' = [row \in Row |->
               IF row = from /\ row = to
               THEN Append(Append(trail[row], balance[row] - n), balance[row])
               ELSE IF row = from THEN Append(trail[row], balance[row] - n)
               ELSE IF row = to THEN Append(trail[row], balance[row] + n)
               ELSE trail[row]]
      BY <2>2 DEF CommitsTransfer
    <3> HIDE DEF from, to, n
    <3>2. ASSUME NEW row \in Row PROVE trail'[row] \in Seq(Word)
      <4>1. /\ trail[row] \in Seq(Word) /\ balance[row] \in Word
            /\ \A x \in Word, s \in Seq(Word) : Append(s, x) \in Seq(Word)
        BY <1>2
      <4>2. CASE row = from
        BY <3>1, <4>1, <4>2
      <4>3. CASE row = to /\ row # from
        BY <3>1, <4>1, <4>3
      <4>4. CASE row # from /\ row # to
        BY <3>1, <4>1, <4>4
      <4> QED
        BY <4>2, <4>3, <4>4
    <3> QED
      BY <3>1, <3>2
  <2> QED
    BY <2>1, <2>2, WriteCommits
<1> QED
  BY <1>1, <1>3, <1>4 DEF StatementsTypeOK, Write, readVars

-----------------------------------------------------------------------------
(* What the queries read.                                                  *)

\* The entries that have been posted.
Recorded == UNION {EntriesOf(r) : r \in posted}

(* The fields of an entry that has been posted. *)
LEMMA EntryFields ==
  ASSUME GInv, NEW e \in Recorded
  PROVE  /\ e.amount \in Word /\ e.at \in Int /\ e.sequence \in {0, 1}
         /\ e.tenant \in Tenant /\ e.account \in AccountId
         /\ \E r \in posted : e \in EntriesOf(r) /\ e.txn = r /\ e.at = recorded[r]
<1>1. PICK r \in posted : e \in EntriesOf(r)
  BY DEF Recorded
<1>2. cmd[r] \in TransferCommand /\ r \in Request /\ cmd[r].amount > 0 /\ recorded[r] \in Int
  BY DEF GInv, CoreInv, TypeOK, PhaseOK, StatementsTypeOK
<1>3. cmd[r].amount \in Word /\ -cmd[r].amount \in Word
  BY <1>2, TransferFields, LedgerAssumption DEF Word
<1> QED
  BY <1>1, <1>2, <1>3, TransferFields DEF EntriesOf

\* There are finitely many.
LEMMA RecordedFinite == ASSUME GInv PROVE IsFiniteSet(Recorded)
<1> DEFINE f == [r \in posted |-> EntriesOf(r)]
           E == {EntriesOf(r) : r \in posted}
<1>1. f \in Surjection(posted, E)
  BY DEF Surjection
<1>2. IsFiniteSet(E)
  BY <1>1, FS_Surjection DEF GInv
<1>3. \A S \in E : IsFiniteSet(S)
  <2>1. ASSUME NEW a, NEW b PROVE IsFiniteSet({a, b})
    <3>1. IsFiniteSet({a})
      BY FS_Singleton
    <3>2. IsFiniteSet({a} \cup {b})
      BY <3>1, FS_AddElement
    <3>3. {a} \cup {b} = {a, b}
      OBVIOUS
    <3> QED
      BY <3>2, <3>3
  <2>2. ASSUME NEW r \in posted PROVE IsFiniteSet(EntriesOf(r))
    BY <2>1 DEF EntriesOf
  <2> QED
    BY <2>2
<1> HIDE DEF E
<1>4. IsFiniteSet(UNION E)
  BY <1>2, <1>3, FS_UNION
<1> QED
  BY <1>4 DEF E, Recorded

\* EntriesFor lists every entry of its scope and account, once.
LEMMA Listing ==
  ASSUME GInv, NEW scope, NEW id, NEW s \in EntriesFor(scope, id)
  PROVE  \E n \in Nat :
           /\ s \in [1 .. n -> RowsOf(scope, id)]
           /\ \A i, j \in 1 .. n : i # j => s[i] # s[j]
           /\ \A e \in RowsOf(scope, id) : \E i \in 1 .. n : s[i] = e
<1> DEFINE S == RowsOf(scope, id)
           n == Cardinality(S)
<1>1. IsFiniteSet(S)
  <2>1. S \subseteq Recorded
    BY DEF RowsOf, Recorded
  <2> QED
    BY <2>1, RecordedFinite, FS_Subset
<1>2. n \in Nat
  BY <1>1, FS_CardinalityType
<1>3. s \in SetToSeqs(S)
  BY DEF EntriesFor
<1>4. s \in [1 .. n -> S] /\ \A i, j \in 1 .. n : i # j => s[i] # s[j]
  BY <1>3 DEF SetToSeqs
<1>5. s \in Injection(1 .. n, S)
  BY <1>4 DEF Injection, IsInjective
<1>6. IsFiniteSet(1 .. n) /\ Cardinality(1 .. n) = n
  BY <1>2, FS_Interval
<1>7. s \in Surjection(1 .. n, S)
  BY <1>1, <1>5, <1>6, FS_Injection
<1> HIDE DEF S, n
<1>8. \A e \in S : \E i \in 1 .. n : s[i] = e
  BY <1>7 DEF Surjection
<1> QED
  BY <1>2, <1>4, <1>8 DEF S

-----------------------------------------------------------------------------
(* The steps of the client's calls.                                        *)

ReadStep ==
  \/ \E c \in Call : Ask(c)
  \/ ReadBegin \/ ReadBalance \/ ReadExists \/ ReadUnknown \/ ReadEntries \/ ReadFails

\* A read moves nothing of the write path but a connection of the pool.
LEMMA ReadLeaves ==
  ASSUME GInv, ReadStep
  PROVE  /\ CoreInv' /\ TypeOK'
         /\ UNCHANGED <<kind, balance, posted, cmd, pc, rowLock, snap, now, recorded, trail>>
<1>1. /\ free' = free \/ free' = free + 1 \/ (free > 0 /\ free' = free - 1)
      /\ UNCHANGED <<dbVars, rowLock, keyLock, cmd, pc, conns, snap, answer>>
      /\ UNCHANGED clockVars
  <2>1. ASSUME NEW c \in Call, Ask(c)
        PROVE  UNCHANGED vars /\ UNCHANGED clockVars
    BY <2>1 DEF Ask
  <2>2. ReadExists => UNCHANGED vars /\ UNCHANGED clockVars
    BY DEF ReadExists
  <2>3. CASE UNCHANGED vars /\ UNCHANGED clockVars
    BY <2>3 DEF vars, dbVars
  <2>4. CASE ReadBegin
    BY <2>4 DEF ReadBegin
  <2>5. CASE ReadBalance \/ ReadUnknown \/ ReadEntries \/ ReadFails
    <3>1. PICK phase, outcome, entries : ReadEnd(phase, outcome, entries)
      BY <2>5 DEF ReadBalance, ReadUnknown, ReadEntries, ReadFails
    <3> QED
      BY <3>1 DEF ReadEnd
  <2> QED
    BY <2>1, <2>2, <2>3, <2>4, <2>5 DEF ReadStep
<1>2. free' \in Nat
  <2>1. free \in Nat
    BY DEF GInv, CoreInv, TypeOK
  <2> QED
    BY <1>1, <2>1
<1>3. CoreInv'
  BY <1>1, <1>2, PoolOnly DEF GInv
<1> QED
  BY <1>1, <1>3 DEF CoreInv, dbVars, clockVars

\* A call, by what it may ask for.
LEMMA CallFields ==
  ASSUME NEW c \in Call
  PROVE  /\ c.who \in Tenant \cup {Operator} /\ c.account \in AccountId
         /\ c.named \in Tenant \cup {NoTenant}
         /\ c.op \in {"balance", "entries"} /\ c # NoCall
         /\ c.op = "balance" => c.who \in Tenant
BY StatementsAssumption DEF BalanceCall, EntriesCall, NoCall

\* What ReadEntries answers, entry by entry.
LEMMA Listed ==
  ASSUME GInv, ReadEntries
  PROVE  \E n, s :
           /\ n \in Nat
           /\ s \in EntriesFor(Scope, ask.account)
           /\ s \in [1 .. n -> RowsOf(Scope, ask.account)]
           /\ \A i, j \in 1 .. n : i # j => s[i] # s[j]
           /\ \A e \in RowsOf(Scope, ask.account) : \E i \in 1 .. n : s[i] = e
           /\ Folds(Running(s), s, n)
           /\ page'.outcome = "listed" /\ DOMAIN page'.entries = 1 .. n
           /\ \A i \in 1 .. n : /\ page'.entries[i].tenant = s[i].tenant
                                /\ page'.entries[i].running = Running(s)[i]
<1>1. PICK s \in EntriesFor(Scope, ask.account) :
        page' = [outcome |-> "listed",
                 entries |-> [i \in DOMAIN s |-> [tenant |-> s[i].tenant, txn |-> s[i].txn,
                                                  running |-> Running(s)[i]]]]
  BY DEF ReadEntries, ReadEnd
<1>2. PICK n \in Nat :
        /\ s \in [1 .. n -> RowsOf(Scope, ask.account)]
        /\ \A i, j \in 1 .. n : i # j => s[i] # s[j]
        /\ \A e \in RowsOf(Scope, ask.account) : \E i \in 1 .. n : s[i] = e
  BY Listing
<1>3. \A i \in 1 .. n : s[i].amount \in Word
  <2>1. \A i \in 1 .. n : s[i] \in Recorded
    BY <1>2 DEF RowsOf, Recorded
  <2> QED
    BY <2>1, EntryFields
<1>4. DOMAIN s = 1 .. n
  BY <1>2
<1>5. Folds(Running(s), s, n)
  BY <1>3, <1>4, RunningFolds
<1>6. /\ page'.outcome = "listed" /\ DOMAIN page'.entries = 1 .. n
      /\ \A i \in 1 .. n : /\ page'.entries[i].tenant = s[i].tenant
                           /\ page'.entries[i].running = Running(s)[i]
  BY <1>1, <1>4
<1> QED
  BY <1>2, <1>5, <1>6

\* Every step of a call keeps the types, and what it stands for.
LEMMA ReadKeepsGInv == ASSUME GInv, ReadStep PROVE GInv'
<1>0. /\ CoreInv' /\ TypeOK' /\ kind' = kind /\ balance' = balance /\ posted' = posted
      /\ cmd' = cmd /\ now' = now /\ recorded' = recorded /\ trail' = trail
      /\ StatementsTypeOK /\ AskOK /\ TenantsReadTheirOwn
  BY ReadLeaves DEF GInv
<1>1. SUFFICES StatementsTypeOK' /\ AskOK' /\ TenantsReadTheirOwn'
  BY <1>0 DEF GInv
<1>2. NoPage.outcome = "none" /\ NoPage.entries = <<>>
  BY DEF NoPage
<1>3. ASSUME NEW c \in Call, Ask(c) PROVE StatementsTypeOK' /\ AskOK' /\ TenantsReadTheirOwn'
  <2>1. /\ rpc = "idle" /\ ask' = c /\ told' = told /\ page = NoPage /\ c # NoCall
        /\ \/ /\ ForeignTenantNamed(c) /\ rpc' = "done"
              /\ page'.outcome = "unknown_account" /\ page'.entries = <<>>
           \/ ~ForeignTenantNamed(c) /\ rpc' = "begin" /\ page' = page
    BY <1>0, <1>3, CallFields DEF Ask, AskOK, NoPage
  <2> QED
    BY <1>0, <1>2, <1>3, <2>1 DEF StatementsTypeOK, AskOK, TenantsReadTheirOwn
<1>4. CASE ReadBegin
  BY <1>0, <1>4 DEF ReadBegin, StatementsTypeOK, AskOK, TenantsReadTheirOwn
<1>5. CASE ReadExists
  BY <1>0, <1>5 DEF ReadExists, StatementsTypeOK, AskOK, TenantsReadTheirOwn
<1>6. CASE ReadBalance
  <2>1. /\ rpc = "account" /\ ask.op = "balance" /\ rpc' = "idle" /\ ask' = ask
        /\ page' = NoPage
        /\ told' = [row |-> <<ask.who, ask.account>>, balance |-> balance[<<ask.who, ask.account>>]]
    BY <1>6 DEF ReadBalance, ReadEnd, NoPage
  <2>2. <<ask.who, ask.account>> \in Row
    BY <1>0, <2>1, CallFields DEF AskOK, Row
  <2>3. told'.balance \in Word
    BY <1>0, <2>1, <2>2 DEF StatementsTypeOK, TypeOK
  <2> QED
    BY <1>0, <1>2, <2>1, <2>3 DEF StatementsTypeOK, AskOK, TenantsReadTheirOwn
<1>7. ASSUME rpc \in {"account", "entries"}, rpc' = "done", ask' = ask, told' = told,
             page'.outcome \in {"unknown_account", "internal_error"}, page'.entries = <<>>
      PROVE  StatementsTypeOK' /\ AskOK' /\ TenantsReadTheirOwn'
  BY <1>0, <1>7 DEF StatementsTypeOK, AskOK, TenantsReadTheirOwn, ForeignTenantNamed
<1>8. CASE ReadUnknown \/ ReadFails
  BY <1>7, <1>8 DEF ReadUnknown, ReadFails, ReadEnd
<1>9. CASE ReadEntries
  <2>1. rpc = "entries" /\ rpc' = "done" /\ ask' = ask /\ told' = told
    BY <1>9 DEF ReadEntries, ReadEnd
  <2>2. PICK n, s :
           /\ n \in Nat
           /\ s \in [1 .. n -> RowsOf(Scope, ask.account)]
           /\ Folds(Running(s), s, n)
           /\ page'.outcome = "listed" /\ DOMAIN page'.entries = 1 .. n
           /\ \A i \in 1 .. n : /\ page'.entries[i].tenant = s[i].tenant
                                /\ page'.entries[i].running = Running(s)[i]
    BY <1>9, Listed
  <2>3. StatementsTypeOK'
    BY <1>0, <2>1, <2>2 DEF StatementsTypeOK, Folds
  <2>4. ask.who # Operator => \A i \in 1 .. n : s[i].tenant = ask.who
    <3>1. ask.who # Operator => Scope = ask.who
      BY DEF Scope, EntriesScope
    <3> QED
      BY <2>2, <3>1 DEF RowsOf
  <2> QED
    BY <1>0, <2>1, <2>2, <2>3, <2>4 DEF AskOK, TenantsReadTheirOwn
<1> QED
  BY <1>3, <1>4, <1>5, <1>6, <1>8, <1>9 DEF ReadStep

\* What was posted is of a positive amount, whatever the write path does next.
LEMMA WriteKeepsGInv == ASSUME GInv, Write PROVE GInv'
<1>0. /\ CoreInv /\ StatementsTypeOK /\ AskOK /\ TenantsReadTheirOwn
      /\ rpc' = rpc /\ ask' = ask /\ told' = told /\ page' = page
  BY DEF GInv, Write, readVars
<1>1. CoreInv' /\ TypeOK'
  BY CoreStep DEF GInv, Write, CoreInv
<1>2. AskOK' /\ TenantsReadTheirOwn'
  BY <1>0 DEF AskOK, TenantsReadTheirOwn, ForeignTenantNamed
<1>3. CASE UNCHANGED vars
  <2>1. UNCHANGED <<now, recorded, trail, posted, cmd>>
    BY <1>3 DEF Write, Stamps, vars
  <2> QED
    BY <1>0, <1>1, <1>2, <2>1 DEF GInv, StatementsTypeOK
<1>4. ASSUME NEW r \in Request, Move(r) PROVE GInv'
  <2>1. StatementsTypeOK'
    BY <1>0, <1>4, WriteTypes
  <2>2. \A w \in posted : w # r /\ cmd'[w] = cmd[w]
    BY <1>0, <1>4, Moving
  <2>3. CommitsNothing \/ CommitsTransfer(r)
    BY <1>0, <1>4, WriteCommits
  <2>4. pc[r] = "commit" => cmd' = cmd
    BY <1>0, <1>4, Moving
  <2>5. \A w \in posted' : cmd'[w].amount > 0
    BY <2>2, <2>3, <2>4 DEF GInv, CommitsNothing, CommitsTransfer
  <2>6. IsFiniteSet(posted')
    <3>1. IsFiniteSet(posted \cup {r})
      BY FS_AddElement DEF GInv
    <3>2. posted' \in SUBSET (posted \cup {r})
      BY <2>3 DEF CommitsNothing, CommitsTransfer
    <3> QED
      BY <3>1, <3>2, FS_Subset
  <2> QED
    BY <1>1, <1>2, <2>1, <2>5, <2>6 DEF GInv
<1> QED
  BY <1>3, <1>4 DEF Write, Next, Move

(* The empty ledger satisfies the general part. *)
LEMMA InitGInv == StatementsInit => GInv
<1> SUFFICES ASSUME StatementsInit PROVE GInv
  OBVIOUS
<1>1. CoreInv
  BY InitIInv DEF StatementsInit, IInv
<1>2. posted = {} /\ IsFiniteSet(posted)
  BY FS_EmptySet DEF StatementsInit, Init
<1>3. StatementsTypeOK
  <2>1. trail \in [Row -> Seq(Word)] /\ told.balance \in Word
    BY LedgerAssumption DEF StatementsInit, Untold, Word
  <2> QED
    BY <1>1, <2>1 DEF StatementsInit, StatementsTypeOK, CoreInv, NoPage
<1>4. AskOK /\ TenantsReadTheirOwn
  BY DEF StatementsInit, AskOK, TenantsReadTheirOwn
<1> QED
  BY <1>1, <1>2, <1>3, <1>4 DEF GInv

(* Postings and reads keep the general part. *)
LEMMA GInvStep == GInv /\ [StatementsNext]_statementVars => GInv'
<1> SUFFICES ASSUME GInv, [StatementsNext]_statementVars PROVE GInv'
  OBVIOUS
<1>1. CASE Write
  BY <1>1, WriteKeepsGInv
<1>2. CASE ReadStep
  BY <1>2, ReadKeepsGInv
<1>3. CASE UNCHANGED statementVars
  <2>1. CoreInv' /\ TypeOK'
    BY <1>3, CoreStep DEF GInv, CoreInv, statementVars
  <2> QED
    BY <1>3, <2>1 DEF statementVars, vars, clockVars, readVars, GInv, StatementsTypeOK,
                      AskOK, TenantsReadTheirOwn, ForeignTenantNamed
<1> QED
  BY <1>1, <1>2, <1>3 DEF StatementsNext, ReadStep

\* The inductive invariant of the read models.
THEOREM ReadsInductive == StatementsSpec => []GInv
BY InitGInv, GInvStep, PTL DEF StatementsSpec

\* Types, whatever the clock reads: above all, runningBalances keeps every
\* balance of a statement an int64.
THEOREM StatementsTypesCorrect == StatementsSpec => []StatementsTypeOK
<1>1. GInv => StatementsTypeOK
  BY DEF GInv
<1> QED
  BY ReadsInductive, <1>1, PTL

\* I9: whatever tenants share account names and whatever a caller puts in the
\* query, its key lists entries of its own tenant only.
THEOREM TenantsKeptApart == StatementsSpec => []TenantsReadTheirOwn
<1>1. GInv => TenantsReadTheirOwn
  BY DEF GInv
<1> QED
  BY ReadsInductive, <1>1, PTL

-----------------------------------------------------------------------------
(* Lists of entries in the order of recorded_at, sequence.                 *)

Earlier(e, f) == e.at < f.at \/ (e.at = f.at /\ e.sequence < f.sequence)

\* What a trail ends on.
LastOf(left) == IF left = <<>> THEN 0 ELSE left[Len(left)]

\* h lists the entries E in their order, and left is what each left behind.
HistoryOf(h, left, E) ==
  /\ h \in [1 .. Len(left) -> E]
  /\ \A e \in E : \E i \in 1 .. Len(left) : h[i] = e
  /\ \A i, j \in 1 .. Len(left) : i < j => Earlier(h[i], h[j])
  /\ \A i \in 1 .. Len(left) :
       left[i] = Wrap(h[i].amount + IF i = 1 THEN 0 ELSE left[i - 1])

\* A later entry goes to the end of the list.
LEMMA HistoryGrows ==
  ASSUME NEW left \in Seq(Word), NEW E, NEW h, HistoryOf(h, left, E),
         NEW e, \A f \in E : Earlier(f, e), NEW x \in Word, x = Wrap(e.amount + LastOf(left))
  PROVE  \E g : HistoryOf(g, Append(left, x), E \cup {e})
<1> DEFINE n == Len(left)
           more == Append(left, x)
           g == [i \in 1 .. n + 1 |-> IF i = n + 1 THEN e ELSE h[i]]
<1>1. /\ n \in Nat /\ Len(more) = n + 1 /\ more[n + 1] = x
      /\ \A i \in 1 .. n : more[i] = left[i] /\ i # n + 1 /\ i \in 1 .. n + 1
      /\ \A i \in 1 .. n + 1 : i = n + 1 \/ i \in 1 .. n
      /\ n = 0 <=> left = <<>>
  OBVIOUS
<1> HIDE DEF n, more
<1>2. /\ h \in [1 .. n -> E]
      /\ \A f \in E : \E i \in 1 .. n : h[i] = f
      /\ \A i, j \in 1 .. n : i < j => Earlier(h[i], h[j])
      /\ \A i \in 1 .. n : left[i] = Wrap(h[i].amount + IF i = 1 THEN 0 ELSE left[i - 1])
  BY DEF HistoryOf, n
<1>3. g[n + 1] = e /\ \A i \in 1 .. n : g[i] = h[i]
  BY <1>1
<1>4. g \in [1 .. n + 1 -> E \cup {e}]
  BY <1>1, <1>2
<1> HIDE DEF g
<1>5. \A f \in E \cup {e} : \E i \in 1 .. n + 1 : g[i] = f
  <2>1. n + 1 \in 1 .. n + 1
    BY <1>1
  <2>2. ASSUME NEW f \in E PROVE \E i \in 1 .. n + 1 : g[i] = f
    BY <1>1, <1>2, <1>3
  <2> QED
    BY <1>3, <2>1, <2>2
<1>6. ASSUME NEW i \in 1 .. n + 1, NEW j \in 1 .. n + 1, i < j PROVE Earlier(g[i], g[j])
  <2>1. i \in 1 .. n
    BY <1>1, <1>6
  <2>2. CASE j = n + 1
    BY <1>2, <1>3, <2>1, <2>2
  <2>3. CASE j # n + 1
    BY <1>1, <1>2, <1>3, <1>6, <2>1, <2>3
  <2> QED
    BY <2>2, <2>3
<1>7. ASSUME NEW i \in 1 .. n + 1
      PROVE  more[i] = Wrap(g[i].amount + IF i = 1 THEN 0 ELSE more[i - 1])
  <2>1. CASE i = n + 1
    <3>1. (IF i = 1 THEN 0 ELSE more[i - 1]) = LastOf(left)
      <4>1. CASE n = 0
        BY <1>1, <2>1, <4>1 DEF LastOf
      <4>2. CASE n # 0
        <5>1. n \in 1 .. n /\ i # 1 /\ i - 1 = n
          BY <1>1, <2>1, <4>2
        <5> QED
          BY <1>1, <4>2, <5>1 DEF LastOf, n
      <4> QED
        BY <4>1, <4>2
    <3> QED
      BY <1>1, <1>3, <2>1, <3>1
  <2>2. CASE i # n + 1
    <3>1. i \in 1 .. n /\ (i # 1 => i - 1 \in 1 .. n)
      BY <1>1, <2>2
    <3>2. left[i] = Wrap(h[i].amount + IF i = 1 THEN 0 ELSE left[i - 1])
      BY <1>2, <3>1
    <3> QED
      BY <1>1, <1>3, <3>1, <3>2
  <2> QED
    BY <2>1, <2>2
<1>8. /\ Len(more) = n + 1
      /\ g \in [1 .. n + 1 -> E \cup {e}]
      /\ \A f \in E \cup {e} : \E i \in 1 .. n + 1 : g[i] = f
      /\ \A i, j \in 1 .. n + 1 : i < j => Earlier(g[i], g[j])
      /\ \A i \in 1 .. n + 1 : more[i] = Wrap(g[i].amount + IF i = 1 THEN 0 ELSE more[i - 1])
  BY <1>1, <1>4, <1>5, <1>6, <1>7
<1>9. HistoryOf(g, more, E \cup {e})
  BY <1>8 DEF HistoryOf
<1> QED
  BY <1>9 DEF more

\* The order in which EntriesFor lists its rows.
Ordered(s, n) ==
  \A i, j \in 1 .. n : i < j =>
    IF s[i].tenant = s[j].tenant THEN Before(s[i], s[j])
    ELSE \A k \in 1 .. n : s[k].tenant = s[i].tenant => k < j

\* s lists the rows R, each of them once.
Lists(s, n, R) ==
  /\ s \in [1 .. n -> R]
  /\ \A i, j \in 1 .. n : i # j => s[i] # s[j]
  /\ \A e \in R : \E i \in 1 .. n : s[i] = e

\* h lists the rows of R that tenant t has, in their order.
Ranks(h, m, R, t) ==
  /\ h \in [1 .. m -> R]
  /\ \A i \in 1 .. m : h[i].tenant = t
  /\ \A e \in R : e.tenant = t => \E i \in 1 .. m : h[i] = e
  /\ \A i, j \in 1 .. m : i < j => Earlier(h[i], h[j])

\* left is what each of the entries h has left behind.
Accrues(left, h, m) ==
  \A i \in 1 .. m : left[i] = Wrap(h[i].amount + IF i = 1 THEN 0 ELSE left[i - 1])

\* h has its place in s, from b + 1 on.
Matches(s, h, m, b) == \A j \in 1 .. m : s[b + j] = h[j]

\* Where a listing has a tenant's entries.
Places(s, n, t) == {i \in 1 .. n : s[i].tenant = t}

\* A listing has the history of a tenant as one block, in order.
LEMMA HistoryIsBlock ==
  ASSUME NEW R, \A e \in R : e.at \in Int /\ e.sequence \in Int,
         NEW n \in Nat, NEW s, Lists(s, n, R), Ordered(s, n),
         NEW t, NEW m \in Nat, NEW h, Ranks(h, m, R, t)
  PROVE  \E b \in {0} \cup 1 .. n : Places(s, n, t) = b + 1 .. b + m /\ Matches(s, h, m, b)
<1> USE DEF Lists, Ranks, Matches
<1> DEFINE P == {i \in 1 .. n : s[i].tenant = t}
<1>0. P = Places(s, n, t)
  BY DEF Places
<1>1. P \in SUBSET Nat
  OBVIOUS
<1>2. \A j \in 1 .. m : \E i \in P : s[i] = h[j]
  OBVIOUS
<1>3. \A i \in P : \E j \in 1 .. m : s[i] = h[j]
  OBVIOUS
<1>4. CASE P = {}
  <2>1. m = 0
    BY <1>2, <1>4
  <2>2. P = 0 + 1 .. 0 + m /\ \A j \in 1 .. m : s[0 + j] = h[j]
    BY <1>4, <2>1
  <2> QED
    BY <1>0, <2>2
<1>5. ASSUME NEW i \in P, NEW j \in P, NEW x \in 1 .. m, NEW y \in 1 .. m,
             s[i] = h[x], s[j] = h[y], i < j
      PROVE  x < y
  <2>1. Before(s[i], s[j]) /\ s[i] # s[j]
    BY <1>5 DEF Ordered
  <2>2. ~Earlier(s[j], s[i])
    <3>1. /\ s[i].at \in Int /\ s[i].sequence \in Int
          /\ s[j].at \in Int /\ s[j].sequence \in Int
      OBVIOUS
    <3> QED
      BY <2>1, <3>1 DEF Before, Earlier
  <2>3. x # y /\ ~(y < x)
    BY <1>5, <2>1, <2>2
  <2> QED
    BY <2>3
<1>6. ASSUME NEW i \in P, NEW j \in P, NEW k \in 1 .. n, i < k, k < j PROVE k \in P
  <2> SUFFICES ASSUME s[k].tenant # t PROVE FALSE
    OBVIOUS
  <2>1. j < k
    BY <1>6 DEF Ordered
  <2> QED
    BY <1>6, <2>1
<1>7. CASE P # {}
  <2>1. PICK a \in P : \A i \in P : a <= i
    <3> HIDE DEF P
    <3> QED
      BY <1>1, <1>7, SmallestNumber
  <2> DEFINE b == a - 1
             B == {j \in 1 .. m : ~(b + j \in P /\ s[b + j] = h[j])}
  <2>2. b \in {0} \cup 1 .. n /\ a \in 1 .. n
    BY <2>1
  <2>3. \A j \in 1 .. m : b + j \in P /\ s[b + j] = h[j]
    <3> SUFFICES ASSUME B # {} PROVE FALSE
      OBVIOUS
    <3>1. PICK j \in B : \A k \in B : j <= k
      <4>1. B \in SUBSET Nat
        OBVIOUS
      <4> HIDE DEF B
      <4> QED
        BY <4>1, SmallestNumber
    <3>2. PICK i \in P : s[i] = h[j]
      BY <1>2, <3>1
    <3>3. a <= i /\ i \in 1 .. n /\ j \in 1 .. m
      BY <2>1, <3>1, <3>2
    <3>4. CASE j = 1
      <4>1. PICK x \in 1 .. m : s[a] = h[x]
        BY <1>3, <2>1
      <4>2. ~(a < i)
        BY <1>5, <3>2, <3>3, <3>4, <4>1
      <4>3. i = a /\ b + j = a
        BY <2>2, <3>3, <3>4, <4>2
      <4> QED
        BY <3>1, <3>2, <4>3
    <3>5. CASE j # 1
      <4> DEFINE p == b + (j - 1)
                 q == b + j
      <4>1. j - 1 \in 1 .. m /\ j - 1 \notin B
        <5>1. j - 1 \in 1 .. m /\ ~(j <= j - 1)
          BY <3>3, <3>5
        <5> HIDE DEF B
        <5> QED
          BY <3>1, <5>1
      <4>2. p \in P /\ s[p] = h[j - 1]
        BY <4>1
      <4>3. p < i
        <5>1. i # p
          <6>1. h[j - 1] # h[j]
            <7>1. Earlier(h[j - 1], h[j])
              BY <3>3, <4>1
            <7>2. h[j].at \in Int /\ h[j].sequence \in Int
              BY <3>3
            <7> QED
              BY <7>1, <7>2 DEF Earlier
          <6> QED
            BY <3>2, <4>2, <6>1
        <5>2. ~(i < p)
          <6>1. i < p => j < j - 1
            <7> HIDE DEF P, B, p, q
            <7> QED
              BY <1>5, <3>2, <3>3, <4>1, <4>2
          <6> QED
            BY <3>3, <6>1
        <5> QED
          BY <1>1, <3>2, <4>2, <5>1, <5>2
      <4>4. q = p + 1 /\ q <= i /\ q \in 1 .. n /\ p < q
        BY <2>2, <3>3, <4>2, <4>3
      <4>5. q \in P
        <5>1. q < i => q \in P
          <6> HIDE DEF P, B, p, q
          <6> QED
            BY <1>6, <3>2, <4>2, <4>4
        <5>2. ~(q < i) => q = i
          BY <3>3, <4>4
        <5> QED
          BY <3>2, <5>1, <5>2
      <4>6. PICK y \in 1 .. m : s[q] = h[y]
        BY <1>3, <4>5
      <4>7. j - 1 < y
        <5> HIDE DEF P, B, p, q
        <5> QED
          BY <1>5, <4>1, <4>2, <4>4, <4>5, <4>6
      <4>8. ~(q < i)
        <5>1. q < i => y < j
          <6> HIDE DEF P, B, p, q
          <6> QED
            BY <1>5, <3>2, <3>3, <4>5, <4>6
        <5> QED
          BY <3>3, <4>7, <5>1
      <4>9. q = i
        BY <3>3, <4>4, <4>8
      <4> QED
        BY <3>1, <3>2, <4>9
    <3> QED
      BY <3>4, <3>5
  <2>4. P = b + 1 .. b + m
    <3>1. ASSUME NEW i \in P PROVE i \in b + 1 .. b + m
      <4>1. PICK y \in 1 .. m : s[i] = h[y]
        BY <1>3
      <4>2. m \in 1 .. m
        BY <4>1
      <4>3. b + m \in P /\ s[b + m] = h[m]
        BY <2>3, <4>2
      <4>4. ~(b + m < i)
        <5>1. b + m < i => m < y
          <6> HIDE DEF P
          <6> QED
            BY <1>5, <4>1, <4>2, <4>3
        <5> QED
          BY <4>1, <5>1
      <4>5. a <= i /\ i \in Nat
        BY <2>1
      <4> QED
        BY <2>2, <4>4, <4>5
    <3>2. ASSUME NEW i \in b + 1 .. b + m PROVE i \in P
      <4>1. i - b \in 1 .. m /\ b + (i - b) = i
        BY <2>2
      <4> QED
        BY <2>3, <4>1
    <3> QED
      BY <3>1, <3>2
  <2> QED
    BY <1>0, <2>2, <2>3, <2>4
<1> QED
  BY <1>4, <1>7

\* The running balances of the block are what each entry left behind.
LEMMA BlockRuns ==
  ASSUME NEW n \in Nat, NEW s, NEW run, Folds(run, s, n),
         NEW m \in Nat, NEW h, NEW left,
         Accrues(left, h, m), NEW t, NEW b \in {0} \cup 1 .. n,
         Places(s, n, t) = b + 1 .. b + m, Matches(s, h, m, b)
  PROVE  \A j \in 1 .. m : run[b + j] = left[j]
<1> USE DEF Accrues, Matches
<1> DEFINE B == {j \in 1 .. m : run[b + j] # left[j]}
<1> SUFFICES ASSUME B # {} PROVE FALSE
  OBVIOUS
<1>1. PICK j \in B : \A k \in B : j <= k
  <2>1. B \in SUBSET Nat
    OBVIOUS
  <2> HIDE DEF B
  <2> QED
    BY <2>1, SmallestNumber
<1>2. j \in 1 .. m /\ b \in Nat /\ b + j \in b + 1 .. b + m
  BY <1>1
<1>3. \A i \in b + 1 .. b + m : i \in 1 .. n /\ s[i].tenant = t
  BY DEF Places
<1>4. b + j \in 1 .. n /\ s[b + j].tenant = t
  BY <1>2, <1>3
<1>5. run[b + j] = Wrap(h[j].amount + Carried(s, run, b + j))
  BY <1>2, <1>4 DEF Folds
<1>6. CASE j = 1
  <2>1. b + j = 1 \/ s[b + j - 1].tenant # t
    <3>1. CASE b = 0
      BY <1>2, <1>6, <3>1
    <3>2. CASE b # 0
      <4>1. b \in 1 .. n /\ b \notin b + 1 .. b + m /\ b + j - 1 = b
        BY <1>2, <1>6, <3>2
      <4> QED
        BY <4>1 DEF Places
    <3> QED
      BY <3>1, <3>2
  <2>2. Carried(s, run, b + j) = 0
    BY <1>4, <2>1 DEF Carried
  <2> QED
    BY <1>1, <1>2, <1>5, <1>6, <2>2
<1>7. CASE j # 1
  <2>1. j - 1 \in 1 .. m /\ j - 1 \notin B /\ b + j - 1 = b + (j - 1) /\ b + j # 1
        /\ b + (j - 1) \in b + 1 .. b + m
    BY <1>1, <1>2, <1>7
  <2>2. run[b + (j - 1)] = left[j - 1]
    BY <2>1
  <2>3. s[b + j - 1].tenant = t
    BY <1>3, <2>1
  <2>4. Carried(s, run, b + j) = left[j - 1]
    BY <1>4, <2>1, <2>2, <2>3 DEF Carried
  <2> QED
    BY <1>1, <1>2, <1>5, <1>7, <2>4
<1> QED
  BY <1>6, <1>7

-----------------------------------------------------------------------------
(* The invariant under an exact clock.                                     *)

\* A row's entries.
EntriesAt(row) == {e \in Recorded : e.tenant = row[1] /\ e.account = row[2]}

Touches(r, row) == row \in {FromRow(cmd[r]), ToRow(cmd[r])}

\* No reading is ahead of the clock, and who has read it while holding a row
\* read it after every posting to that row.
StampsOK ==
  /\ \A r \in Request : recorded[r] <= now
  /\ \A r \in Request, q \in posted, row \in Row :
       /\ pc[r] \in {"claim", "commit"} /\ cmd[r] \in TransferCommand
       /\ Touches(r, row) /\ Touches(q, row)
       => recorded[q] < recorded[r]

\* The trail ends on the stored balance.
TrailTies == \A row \in Row : balance[row] = LastOf(trail[row])

\* A row's entries, in the order of recorded_at and sequence, left its trail.
HistoryOK == \A row \in Row : \E h : HistoryOf(h, trail[row], EntriesAt(row))

\* What the client was told was once the balance.
ToldOK ==
  told # Untold =>
    /\ told.row \in Row
    /\ told.balance = 0 \/ \E i \in 1 .. Len(trail[told.row]) : trail[told.row][i] = told.balance

HInv ==
  /\ GInv /\ StampsOK /\ TrailTies /\ HistoryOK /\ ToldOK
  /\ StatementExplainsBalance

\* A request that has decided holds both rows.
LEMMA HoldsRows ==
  ASSUME CoreInv, NEW r \in Request, pc[r] \in {"claim", "commit"}, cmd[r] \in TransferCommand
  PROVE  rowLock[FromRow(cmd[r])] = r /\ rowLock[ToRow(cmd[r])] = r
<1>1. cmd[r].op = "transfer"
  BY DEF TransferCommand
<1>2. Decided(r)
  BY <1>1 DEF CoreInv, LocksOK
<1>3. snap[r][cmd[r].from].kind # "absent" /\ snap[r][cmd[r].to].kind # "absent"
  BY <1>2, PostedMeansPresent DEF Decided
<1> QED
  BY <1>2, <1>3 DEF Decided, Held, FromRow, ToRow

\* How a request comes to hold its decision.
LEMMA Deciding ==
  ASSUME CoreInv, NEW r \in Request, Move(r), pc'[r] \in {"claim", "commit"},
         cmd'[r] \in TransferCommand
  PROVE  /\ cmd' = cmd /\ UNCHANGED dbVars
         /\ Stamps(r) \/ (pc[r] = "claim" /\ ~Stamps(r))
<1>1. pc \in [Request -> Phase]
  BY DEF CoreInv, TypeOK
<1>2. pc[r] \in {"decide", "claim", "insert"} /\ (pc[r] = "decide" => pc'[r] = "claim")
  BY <1>1 DEF Move, Step, Submit, Begin, Lookup, Render, LockLow, LockHigh, Decide, Claim,
              Check, Insert, Commit, CommitUnheard, Abort, RejectRow, Finish, Goto
<1>3. cmd' = cmd /\ UNCHANGED dbVars
  <2>1. cmd' = cmd
    BY <1>2, Moving
  <2>2. pc'[r] # "done"
    OBVIOUS
  <2> QED
    BY <2>1, <2>2, BooksFrame
<1>4. pc[r] # "insert"
  BY <1>3 DEF CoreInv, PhaseOK, OpenPhase, OpenCommand, TransferCommand
<1> QED
  BY <1>2, <1>3, <1>4 DEF Stamps

(* With an exact clock a posting is stamped later than all before it. *)
LEMMA WriteKeepsStamps ==
  ASSUME ClockError = 0, GInv, StampsOK, Write, NEW m \in Request, Move(m)
  PROVE  StampsOK'
<1>0. /\ CoreInv /\ StatementsTypeOK /\ now \in Nat /\ recorded \in [Request -> Int]
      /\ posted \subseteq Request
  BY DEF GInv, StatementsTypeOK, CoreInv, TypeOK
<1>1. /\ \A q \in Request \ {m} : recorded'[q] = recorded[q]
      /\ \/ ~Stamps(m) /\ now' = now /\ recorded' = recorded
         \/ Stamps(m) /\ now' = now + 1 /\ recorded'[m] = now + 1
  <2>1. /\ \A q \in Request \ {m} : recorded'[q] = recorded[q]
        /\ \/ ~Stamps(m) /\ now' = now /\ recorded' = recorded
           \/ /\ Stamps(m) /\ now' = now + 1
              /\ \E e \in 0 .. ClockError : recorded' = [recorded EXCEPT ![m] = now + 1 - e]
    BY <1>0, WriteStamps
  <2>2. \A e \in 0 .. ClockError : e = 0 /\ now + 1 - e = now + 1
    BY <1>0
  <2> QED
    BY <1>0, <2>1, <2>2
<1>2. \A r \in Request : recorded'[r] <= now'
  BY <1>0, <1>1 DEF StampsOK
<1>3. \A q \in posted : q # m /\ cmd'[q] = cmd[q] /\ recorded'[q] = recorded[q] /\ recorded[q] <= now
  BY <1>0, <1>1, Moving DEF StampsOK
<1>4. ASSUME NEW r \in Request, NEW q \in posted', NEW row \in Row,
             pc'[r] \in {"claim", "commit"}, cmd'[r] \in TransferCommand,
             Touches(r, row)', Touches(q, row)'
      PROVE  recorded'[q] < recorded'[r]
  <2>1. CASE r = m
    <3>1. cmd' = cmd /\ posted' = posted /\ (Stamps(m) \/ (pc[m] = "claim" /\ ~Stamps(m)))
      BY <1>0, <1>4, <2>1, Deciding DEF dbVars
    <3>2. q \in posted /\ q \in Request /\ recorded[q] \in Int
      BY <1>0, <1>4, <3>1
    <3>3. CASE Stamps(m)
      <4>1. recorded'[q] <= now /\ recorded'[m] = now + 1 /\ recorded'[q] \in Int
        BY <1>1, <1>3, <3>2, <3>3
      <4> QED
        BY <1>0, <2>1, <4>1
    <3>4. CASE pc[m] = "claim" /\ ~Stamps(m)
      <4>1. recorded' = recorded /\ Touches(m, row) /\ Touches(q, row) /\ cmd[m] \in TransferCommand
        BY <1>1, <1>4, <2>1, <3>1, <3>4 DEF Touches
      <4> QED
        BY <2>1, <3>2, <3>4, <4>1 DEF StampsOK
    <3> QED
      BY <3>1, <3>3, <3>4
  <2>2. CASE r # m
    <3>1. pc[r] \in {"claim", "commit"} /\ cmd[r] \in TransferCommand /\ cmd'[r] = cmd[r]
          /\ recorded'[r] = recorded[r]
      BY <1>0, <1>1, <1>4, <2>2, OthersUntouched
    <3>2. Touches(r, row)
      BY <1>4, <3>1 DEF Touches
    <3>3. rowLock[row] = r
      BY <1>0, <3>1, <3>2, HoldsRows DEF Touches
    <3>4. CASE q \in posted
      <4>1. Touches(q, row) /\ recorded'[q] = recorded[q]
        BY <1>3, <1>4, <3>4 DEF Touches
      <4> QED
        BY <3>1, <3>2, <3>4, <4>1 DEF StampsOK
    <3>5. CASE q \notin posted
      <4>1. CommitsTransfer(m) /\ q = m
        <5>1. CommitsNothing \/ CommitsTransfer(m)
          BY <1>0, WriteCommits
        <5>2. CommitsNothing => posted' = posted
          BY DEF CommitsNothing
        <5>3. CommitsTransfer(m) => posted' = posted \cup {m}
          BY DEF CommitsTransfer
        <5> QED
          BY <1>4, <3>5, <5>1, <5>2, <5>3
      <4>2. cmd'[m] = cmd[m]
        BY <1>0, <4>1, Moving DEF CommitsTransfer
      <4>3. rowLock[row] = m
        BY <1>4, <4>1, <4>2 DEF Touches, CommitsTransfer
      <4> QED
        BY <2>2, <3>3, <4>3
    <3> QED
      BY <3>4, <3>5
  <2> QED
    BY <2>1, <2>2
<1> QED
  BY <1>2, <1>4 DEF StampsOK

\* An opening leaves every balance as it was: the row was not there.
LEMMA NothingMoves ==
  ASSUME CoreInv, NEW r \in Request, Move(r), posted' = posted
  PROVE  balance' = balance
<1>1. CASE UNCHANGED dbVars
  BY <1>1 DEF dbVars
<1>2. CASE pc[r] = "commit" /\ MakeDurable(r) /\ cmd[r].op = "open"
  <2> DEFINE new == <<cmd[r].tenant, cmd[r].id>>
  <2>1. kind[new] = "absent" /\ new \in Row
    BY <1>2, CommandKinds DEF CoreInv, LocksOK, PhaseOK, OpenCommand, Row
  <2>2. balance[new] = 0 /\ balance \in [Row -> Word] /\ balance' = [balance EXCEPT ![new] = 0]
    BY <1>2, <2>1 DEF CoreInv, AbsentIsZero, TypeOK, MakeDurable
  <2> HIDE DEF new
  <2> QED
    BY <2>1, <2>2
<1>3. ~(pc[r] = "commit" /\ MakeDurable(r) /\ cmd[r].op = "transfer")
  <2>1. ASSUME pc[r] = "commit", MakeDurable(r), cmd[r].op = "transfer" PROVE FALSE
    <3>1. r \in posted'
      BY <2>1 DEF MakeDurable
    <3> QED
      BY <2>1, <3>1 DEF CoreInv, PhaseOK
  <2> QED
    BY <2>1
<1>4. pc[r] = "commit" => cmd[r].op \in {"transfer", "open"}
  BY CommandKinds DEF CoreInv, PhaseOK
<1> QED
  BY <1>1, <1>2, <1>3, <1>4, BooksFrame

\* The two entries of transaction r.
Debit(r) == [tenant |-> cmd[r].tenant, account |-> cmd[r].from, txn |-> r,
             amount |-> -cmd[r].amount, at |-> recorded[r], sequence |-> 0]
Credit(r) == [tenant |-> cmd[r].tenant, account |-> cmd[r].to, txn |-> r,
              amount |-> cmd[r].amount, at |-> recorded[r], sequence |-> 1]

\* What a commit does to one row: its trail, its balance and its entries.
LEMMA RowCommits ==
  ASSUME GInv, Write, NEW r \in Request, Move(r), CommitsTransfer(r), NEW row \in Row
  PROVE  /\ cmd[r].amount \in Int /\ balance[row] \in Int
         /\ row = FromRow(cmd[r]) /\ row = ToRow(cmd[r]) =>
              /\ trail'[row] = Append(Append(trail[row], balance[row] - cmd[r].amount), balance[row])
              /\ balance[row] - cmd[r].amount \in Word
              /\ balance'[row] = balance[row]
              /\ EntriesAt(row)' = EntriesAt(row) \cup {Debit(r)} \cup {Credit(r)}
         /\ row = FromRow(cmd[r]) /\ row # ToRow(cmd[r]) =>
              /\ trail'[row] = Append(trail[row], balance[row] - cmd[r].amount)
              /\ balance[row] - cmd[r].amount \in Word
              /\ balance'[row] = balance[row] - cmd[r].amount
              /\ EntriesAt(row)' = EntriesAt(row) \cup {Debit(r)}
         /\ row # FromRow(cmd[r]) /\ row = ToRow(cmd[r]) =>
              /\ trail'[row] = Append(trail[row], balance[row] + cmd[r].amount)
              /\ balance[row] + cmd[r].amount \in Word
              /\ balance'[row] = balance[row] + cmd[r].amount
              /\ EntriesAt(row)' = EntriesAt(row) \cup {Credit(r)}
         /\ row # FromRow(cmd[r]) /\ row # ToRow(cmd[r]) =>
              /\ trail'[row] = trail[row]
              /\ balance'[row] = balance[row]
              /\ EntriesAt(row)' = EntriesAt(row)
<1> DEFINE c == cmd[r]
           from == FromRow(c)
           to == ToRow(c)
           n == c.amount
<1>1. /\ CoreInv /\ StatementsTypeOK /\ balance \in [Row -> Word] /\ c \in TransferCommand
      /\ c.amount \in Int /\ \A x \in Row : balance[x] \in Int
  <2>1. CoreInv /\ StatementsTypeOK /\ balance \in [Row -> Word]
    BY DEF GInv, CoreInv, TypeOK
  <2>2. c \in TransferCommand
    BY DEF CommitsTransfer
  <2>3. Word \subseteq Int
    BY LedgerAssumption DEF Word
  <2> QED
    BY <2>1, <2>2, <2>3, TransferFields
<1>2. /\ from # to => balance' = [x \in Row |-> IF x = from THEN balance[x] - n
                                                ELSE IF x = to THEN balance[x] + n ELSE balance[x]]
      /\ from = to => balance' = balance
  <2>1. from = to <=> c.from = c.to
    BY DEF FromRow, ToRow
  <2>2. balance' = Credited(c, Debited(c, balance))
    BY DEF CommitsTransfer
  <2> QED
    BY <1>1, <2>1, <2>2, Deltas DEF FromRow, ToRow
<1>3. /\ balance[from] - n \in Word /\ (from # to => balance[to] + n \in Word)
      /\ trail'[row] =
           IF row = from /\ row = to THEN Append(Append(trail[row], balance[row] - n), balance[row])
           ELSE IF row = from THEN Append(trail[row], balance[row] - n)
           ELSE IF row = to THEN Append(trail[row], balance[row] + n)
           ELSE trail[row]
  BY DEF CommitsTransfer
<1>4. /\ cmd' = cmd /\ recorded' = recorded /\ posted' = posted \cup {r}
  <2>1. pc[r] = "commit" /\ posted' = posted \cup {r}
    BY DEF CommitsTransfer
  <2> QED
    BY <1>1, <2>1, WriteStamps, Moving DEF Stamps
<1>5. Recorded' = Recorded \cup {Debit(r)} \cup {Credit(r)}
  <2>1. \A q \in posted \cup {r} : EntriesOf(q)' = EntriesOf(q)
    BY <1>4 DEF EntriesOf
  <2>2. EntriesOf(r) = {Debit(r)} \cup {Credit(r)}
    BY DEF EntriesOf, Debit, Credit
  <2>3. Recorded' = UNION {EntriesOf(q) : q \in posted \cup {r}}
    BY <1>4, <2>1 DEF Recorded
  <2> QED
    BY <2>2, <2>3 DEF Recorded
<1>6. /\ Debit(r).tenant = row[1] /\ Debit(r).account = row[2] <=> row = from
      /\ Credit(r).tenant = row[1] /\ Credit(r).account = row[2] <=> row = to
  <2>1. Debit(r).tenant = c.tenant /\ Debit(r).account = c.from
    BY DEF Debit
  <2>2. Credit(r).tenant = c.tenant /\ Credit(r).account = c.to
    BY DEF Credit
  <2>3. row = <<row[1], row[2]>>
    BY DEF Row
  <2> QED
    BY <2>1, <2>2, <2>3 DEF FromRow, ToRow
<1>7. EntriesAt(row)' = EntriesAt(row) \cup (IF row = from THEN {Debit(r)} ELSE {})
                                       \cup (IF row = to THEN {Credit(r)} ELSE {})
  <2>1. EntriesAt(row)' = {e \in Recorded' : e.tenant = row[1] /\ e.account = row[2]}
    BY DEF EntriesAt
  <2> HIDE DEF from, to
  <2> QED
    BY <1>5, <1>6, <2>1 DEF EntriesAt
<1> HIDE DEF from, to, n
<1>8. CASE row = from /\ row = to
  BY <1>1, <1>2, <1>3, <1>7, <1>8 DEF from, to, n
<1>9. CASE row = from /\ row # to
  <2>1. balance'[row] = balance[row] - n
    BY <1>2, <1>9
  <2> QED
    BY <1>1, <1>3, <1>7, <1>9, <2>1 DEF from, to, n
<1>10. CASE row # from /\ row = to
  <2>1. balance'[row] = balance[row] + n
    BY <1>2, <1>10
  <2> QED
    BY <1>1, <1>3, <1>7, <1>10, <2>1 DEF from, to, n
<1>11. CASE row # from /\ row # to
  <2>1. balance'[row] = balance[row]
    BY <1>2, <1>11
  <2> QED
    BY <1>1, <1>3, <1>7, <1>11, <2>1 DEF from, to, n
<1> QED
  BY <1>8, <1>9, <1>10, <1>11 DEF from, to

\* Entries already recorded stay as they are.
LEMMA EntriesStay ==
  ASSUME GInv, Write, NEW r \in Request, Move(r), CommitsNothing, NEW row \in Row
  PROVE  EntriesAt(row)' = EntriesAt(row)
<1>1. \A q \in posted : q # r /\ q \in Request /\ cmd'[q] = cmd[q]
  BY Moving DEF GInv
<1>2. \A q \in posted : recorded'[q] = recorded[q]
  BY <1>1, WriteStamps DEF GInv
<1>3. posted' = posted
  BY DEF CommitsNothing
<1>4. \A q \in posted : EntriesOf(q)' = EntriesOf(q)
  BY <1>1, <1>2 DEF EntriesOf
<1>5. Recorded' = Recorded
  BY <1>3, <1>4 DEF Recorded
<1> QED
  BY <1>5 DEF EntriesAt

\* What an append ends on.
LEMMA LastAppended ==
  ASSUME NEW left \in Seq(Word), NEW x \in Word
  PROVE  /\ LastOf(Append(left, x)) = x /\ Append(left, x) \in Seq(Word)
         /\ Len(Append(left, x)) = Len(left) + 1 /\ Len(left) \in Nat
         /\ \A i \in 1 .. Len(left) : Append(left, x)[i] = left[i]
<1>1. /\ Append(left, x) # <<>> /\ Len(Append(left, x)) = Len(left) + 1
      /\ Append(left, x)[Len(left) + 1] = x /\ Append(left, x) \in Seq(Word)
      /\ \A i \in 1 .. Len(left) : Append(left, x)[i] = left[i]
      /\ Len(left) \in Nat
  OBVIOUS
<1> QED
  BY <1>1 DEF LastOf

\* A posting is later than whatever is recorded of its rows.
LEMMA PostingIsLater ==
  ASSUME GInv, StampsOK, NEW r \in Request, CommitsTransfer(r),
         NEW row \in Row, Touches(r, row), NEW f \in EntriesAt(row)
  PROVE  f.at \in Int /\ f.at < recorded[r]
<1>1. f \in Recorded /\ f.tenant = row[1] /\ f.account = row[2]
  BY DEF EntriesAt
<1>2. PICK q \in posted : f \in EntriesOf(q) /\ f.at = recorded[q]
  BY <1>1, EntryFields
<1>3. f.tenant = cmd[q].tenant /\ f.account \in {cmd[q].from, cmd[q].to}
  BY <1>2 DEF EntriesOf
<1>4. row = <<row[1], row[2]>>
  BY DEF Row
<1>5. Touches(q, row)
  BY <1>1, <1>3, <1>4 DEF Touches, FromRow, ToRow
<1>6. f.at \in Int
  BY <1>1, EntryFields
<1> QED
  BY <1>2, <1>5, <1>6 DEF StampsOK, CommitsTransfer

\* A commit extends the history of its rows, and the trails still tie.
LEMMA CommitExtends ==
  ASSUME GInv, StampsOK, TrailTies, HistoryOK, Write, NEW r \in Request, Move(r),
         CommitsTransfer(r), NEW row \in Row
  PROVE  /\ balance'[row] = LastOf(trail'[row])
         /\ \E h : HistoryOf(h, trail'[row], EntriesAt(row)')
         /\ \A i \in 1 .. Len(trail[row]) :
              i \in 1 .. Len(trail'[row]) /\ trail'[row][i] = trail[row][i]
<1> DEFINE n == cmd[r].amount
           left == trail[row]
           b == balance[row]
           E == EntriesAt(row)
<1>1. /\ left \in Seq(Word) /\ b \in Word /\ b = LastOf(left) /\ n \in Int
      /\ b \in Int
  BY RowCommits DEF GInv, StatementsTypeOK, TypeOK, TrailTies
<1>2. PICK h : HistoryOf(h, left, E)
  BY DEF HistoryOK
<1>3. Touches(r, row) => \A f \in E : Earlier(f, Debit(r)) /\ Earlier(f, Credit(r))
  BY PostingIsLater DEF Earlier, Debit, Credit
<1>4. Debit(r).amount = -n /\ Credit(r).amount = n /\ Earlier(Debit(r), Credit(r))
  BY DEF Debit, Credit, Earlier
<1>5. /\ -n + b = b - n /\ n + (b - n) = b /\ n + b = b + n
  BY <1>1
<1>6. CASE row = FromRow(cmd[r]) /\ row = ToRow(cmd[r])
  <2> DEFINE mid == Append(left, b - n)
  <2>1. /\ trail'[row] = Append(mid, b) /\ b - n \in Word /\ balance'[row] = b
        /\ EntriesAt(row)' = (E \cup {Debit(r)}) \cup {Credit(r)}
        /\ Touches(r, row)
    BY <1>6, RowCommits DEF Touches
  <2>2. mid \in Seq(Word) /\ LastOf(mid) = b - n
    BY <1>1, <2>1, LastAppended
  <2> HIDE DEF n, left, b, E
  <2>3. PICK g : HistoryOf(g, mid, E \cup {Debit(r)})
    <3>1. b - n = Wrap(Debit(r).amount + LastOf(left))
      BY <1>1, <1>4, <1>5, <2>1, WrapInside
    <3> QED
      BY <1>1, <1>2, <1>3, <2>1, <3>1, HistoryGrows
  <2>4. PICK k : HistoryOf(k, Append(mid, b), (E \cup {Debit(r)}) \cup {Credit(r)})
    <3>1. b = Wrap(Credit(r).amount + LastOf(mid))
      BY <1>1, <1>4, <1>5, <2>2, WrapInside
    <3>2. \A f \in E \cup {Debit(r)} : Earlier(f, Credit(r))
      BY <1>3, <1>4, <2>1
    <3> HIDE DEF mid
    <3> QED
      BY <1>1, <2>2, <2>3, <3>1, <3>2, HistoryGrows
  <2>5. \A i \in 1 .. Len(left) : i \in 1 .. Len(Append(mid, b)) /\ Append(mid, b)[i] = left[i]
    <3>1. /\ Len(mid) = Len(left) + 1 /\ Len(left) \in Nat
          /\ \A i \in 1 .. Len(left) : mid[i] = left[i]
      BY <1>1, <2>1, LastAppended
    <3> HIDE DEF mid
    <3>2. /\ Len(Append(mid, b)) = Len(mid) + 1
          /\ \A i \in 1 .. Len(mid) : Append(mid, b)[i] = mid[i]
      BY <1>1, <2>2, LastAppended
    <3> QED
      BY <3>1, <3>2
  <2>6. LastOf(Append(mid, b)) = b
    BY <1>1, <2>2, LastAppended
  <2> QED
    BY <2>1, <2>4, <2>5, <2>6 DEF left
<1>7. ASSUME NEW e, NEW x \in Word, x = Wrap(e.amount + LastOf(left)),
             \A f \in E : Earlier(f, e), balance'[row] = x,
             trail'[row] = Append(left, x), EntriesAt(row)' = E \cup {e}
      PROVE  /\ balance'[row] = LastOf(trail'[row])
             /\ \E k : HistoryOf(k, trail'[row], EntriesAt(row)')
             /\ \A i \in 1 .. Len(left) :
                  i \in 1 .. Len(trail'[row]) /\ trail'[row][i] = left[i]
  <2> HIDE DEF left, E
  <2>1. PICK k : HistoryOf(k, Append(left, x), E \cup {e})
    BY <1>1, <1>2, <1>7, HistoryGrows
  <2>2. /\ LastOf(Append(left, x)) = x /\ Len(Append(left, x)) = Len(left) + 1 /\ Len(left) \in Nat
        /\ \A i \in 1 .. Len(left) : Append(left, x)[i] = left[i]
    BY <1>1, <1>7, LastAppended
  <2> QED
    BY <1>7, <2>1, <2>2
<1>8. CASE row = FromRow(cmd[r]) /\ row # ToRow(cmd[r])
  <2>1. /\ trail'[row] = Append(left, b - n) /\ b - n \in Word /\ balance'[row] = b - n
        /\ EntriesAt(row)' = E \cup {Debit(r)} /\ Touches(r, row)
    BY <1>8, RowCommits DEF Touches
  <2> HIDE DEF n, left, b, E
  <2>2. b - n = Wrap(Debit(r).amount + LastOf(left))
    BY <1>1, <1>4, <1>5, <2>1, WrapInside
  <2>3. \A f \in E : Earlier(f, Debit(r))
    BY <1>3, <2>1
  <2> QED
    BY <1>7, <2>1, <2>2, <2>3 DEF left
<1>9. CASE row # FromRow(cmd[r]) /\ row = ToRow(cmd[r])
  <2>1. /\ trail'[row] = Append(left, b + n) /\ b + n \in Word /\ balance'[row] = b + n
        /\ EntriesAt(row)' = E \cup {Credit(r)} /\ Touches(r, row)
    BY <1>9, RowCommits DEF Touches
  <2> HIDE DEF n, left, b, E
  <2>2. b + n = Wrap(Credit(r).amount + LastOf(left))
    BY <1>1, <1>4, <1>5, <2>1, WrapInside
  <2>3. \A f \in E : Earlier(f, Credit(r))
    BY <1>3, <2>1
  <2> QED
    BY <1>7, <2>1, <2>2, <2>3 DEF left
<1>10. CASE row # FromRow(cmd[r]) /\ row # ToRow(cmd[r])
  <2>1. trail'[row] = left /\ balance'[row] = b /\ EntriesAt(row)' = E
    BY <1>10, RowCommits
  <2> QED
    BY <1>1, <1>2, <2>1
<1> QED
  BY <1>6, <1>8, <1>9, <1>10

\* The write path keeps the history of every account.
LEMMA WriteKeepsHInv ==
  ASSUME ClockError = 0, HInv, Write
  PROVE  HInv'
<1>0. /\ GInv /\ StampsOK /\ TrailTies /\ HistoryOK /\ ToldOK /\ StatementExplainsBalance
      /\ rpc' = rpc /\ ask' = ask /\ told' = told /\ page' = page
  BY DEF HInv, Write, readVars
<1>1. GInv'
  BY <1>0, WriteKeepsGInv
<1>2. StatementExplainsBalance'
  BY <1>0 DEF StatementExplainsBalance, Scope
<1>3. CASE UNCHANGED vars
  <2>1. now' = now /\ recorded' = recorded /\ trail' = trail /\ posted' = posted /\ cmd' = cmd
        /\ balance' = balance /\ pc' = pc
    BY <1>3 DEF Write, Stamps, vars
  <2>2. StampsOK' /\ TrailTies' /\ ToldOK'
    BY <1>0, <2>1 DEF StampsOK, Touches, TrailTies, ToldOK
  <2>3. Recorded' = Recorded
    BY <2>1 DEF Recorded, EntriesOf
  <2>4. HistoryOK'
    BY <1>0, <2>1, <2>3 DEF HistoryOK, EntriesAt
  <2> QED
    BY <1>1, <1>2, <2>2, <2>4 DEF HInv
<1>4. ASSUME NEW r \in Request, Move(r) PROVE HInv'
  <2>1. StampsOK'
    BY <1>0, <1>4, WriteKeepsStamps
  <2>2. ASSUME NEW row \in Row
        PROVE  /\ balance'[row] = LastOf(trail'[row])
               /\ \E h : HistoryOf(h, trail'[row], EntriesAt(row)')
               /\ \A i \in 1 .. Len(trail[row]) :
                    i \in 1 .. Len(trail'[row]) /\ trail'[row][i] = trail[row][i]
    <3>1. CASE CommitsTransfer(r)
      BY <1>0, <1>4, <3>1, CommitExtends
    <3>2. CASE CommitsNothing
      <4>1. trail' = trail /\ balance' = balance
        BY <1>0, <1>4, <3>2, NothingMoves DEF CommitsNothing, GInv
      <4>2. EntriesAt(row)' = EntriesAt(row)
        BY <1>0, <1>4, <3>2, EntriesStay
      <4> QED
        BY <1>0, <4>1, <4>2 DEF TrailTies, HistoryOK
    <3> QED
      BY <1>0, <1>4, <3>1, <3>2, WriteCommits DEF GInv
  <2>3. TrailTies' /\ HistoryOK'
    BY <2>2 DEF TrailTies, HistoryOK
  <2>4. ToldOK'
    BY <1>0, <2>2 DEF ToldOK
  <2> QED
    BY <1>1, <1>2, <2>1, <2>3, <2>4 DEF HInv
<1> QED
  BY <1>3, <1>4 DEF Write, Next, Move

\* What GetEntries lists for a tenant it covers is that account's trail, and it
\* lists nothing for the others.
LEMMA ListsTrail ==
  ASSUME HInv, ReadEntries, NEW t \in Tenant
  PROVE  LET mine == {i \in DOMAIN page'.entries : page'.entries[i].tenant = t}
             left == trail[<<t, ask.account>>]
         IN  /\ page'.outcome = "listed"
             /\ Scope \in {t, Operator} =>
                  \E b \in {0} \cup DOMAIN page'.entries :
                    /\ mine = b + 1 .. b + Len(left)
                    /\ \A i \in 1 .. Len(left) : page'.entries[b + i].running = left[i]
             /\ Scope \notin {t, Operator} => mine = {}
<1> DEFINE row == <<t, ask.account>>
           R == RowsOf(Scope, ask.account)
           left == trail[row]
           m == Len(left)
<1>0. GInv /\ HistoryOK
  BY DEF HInv
<1>1. PICK n, s :
        /\ n \in Nat
        /\ s \in EntriesFor(Scope, ask.account)
        /\ s \in [1 .. n -> R]
        /\ \A i, j \in 1 .. n : i # j => s[i] # s[j]
        /\ \A e \in R : \E i \in 1 .. n : s[i] = e
        /\ Folds(Running(s), s, n)
        /\ page'.outcome = "listed" /\ DOMAIN page'.entries = 1 .. n
        /\ \A i \in 1 .. n : /\ page'.entries[i].tenant = s[i].tenant
                             /\ page'.entries[i].running = Running(s)[i]
  BY <1>0, Listed
<1> DEFINE mine == {i \in DOMAIN page'.entries : page'.entries[i].tenant = t}
<1>2. mine = Places(s, n, t)
  BY <1>1 DEF Places
<1>3. rpc = "entries" /\ ask \in Call /\ ask.account \in AccountId
  <2>1. rpc = "entries"
    BY DEF ReadEntries
  <2> QED
    BY <1>0, <2>1, CallFields DEF GInv, AskOK
<1>4. row \in Row /\ left \in Seq(Word) /\ m \in Nat
  BY <1>0, <1>3 DEF Row, GInv, StatementsTypeOK
<1>5. CASE Scope \notin {t, Operator}
  <2>1. \A i \in 1 .. n : s[i].tenant = Scope
    BY <1>1, <1>5 DEF RowsOf
  <2>2. mine = {}
    BY <1>2, <1>5, <2>1 DEF Places
  <2> QED
    BY <1>1, <1>5, <2>2
<1>6. CASE Scope \in {t, Operator}
  <2>1. /\ \A e \in EntriesAt(row) : e \in R /\ e.tenant = t
        /\ \A e \in R : e.tenant = t => e \in EntriesAt(row)
    BY <1>6 DEF EntriesAt, RowsOf, Recorded
  <2>2. PICK h : HistoryOf(h, left, EntriesAt(row))
    BY <1>0, <1>4 DEF HistoryOK
  <2>3. \A e \in R : e.at \in Int /\ e.sequence \in Int
    <3>1. R \subseteq Recorded
      BY DEF RowsOf, Recorded
    <3> QED
      BY <1>0, <3>1, EntryFields
  <2>4. Ordered(s, n)
    <3>1. DOMAIN s = 1 .. n
      BY <1>1
    <3> QED
      BY <1>1, <3>1 DEF EntriesFor, Ordered
  <2> HIDE DEF R, left, m, mine, row
  <2>5. Ranks(h, m, R, t) /\ Accrues(left, h, m)
    BY <2>1, <2>2 DEF HistoryOf, m, Ranks, Accrues
  <2>6. PICK b \in {0} \cup 1 .. n : Places(s, n, t) = b + 1 .. b + m /\ Matches(s, h, m, b)
    <3>1. n \in Nat /\ Lists(s, n, R)
      BY <1>1 DEF Lists
    <3> QED
      BY <1>4, <2>3, <2>4, <2>5, <3>1, HistoryIsBlock
  <2> DEFINE run == Running(s)
  <2>7. \A j \in 1 .. m : run[b + j] = left[j]
    <3>1. n \in Nat /\ Folds(run, s, n)
      BY <1>1
    <3> HIDE DEF run
    <3> QED
      BY <1>4, <2>5, <2>6, <3>1, BlockRuns
  <2>8. \A j \in 1 .. m : b + j \in 1 .. n
    <3>1. \A i \in b + 1 .. b + m : i \in 1 .. n
      BY <2>6 DEF Places
    <3>2. \A j \in 1 .. m : b + j \in b + 1 .. b + m
      BY <1>4
    <3> QED
      BY <3>1, <3>2
  <2>9. \A j \in 1 .. m : page'.entries[b + j].running = left[j]
    BY <1>1, <2>7, <2>8
  <2>10. \E x \in {0} \cup DOMAIN page'.entries :
           mine = x + 1 .. x + m /\ \A i \in 1 .. m : page'.entries[x + i].running = left[i]
    BY <1>1, <1>2, <2>6, <2>9
  <2> QED
    BY <1>1, <1>6, <2>10 DEF row, left, m, mine
<1> QED
  BY <1>5, <1>6

(* A read of GetBalance or GetEntries lists exactly a block of the account's
   history. *)
LEMMA ReadKeepsHInv == ASSUME HInv, ReadStep PROVE HInv'
<1>0. /\ GInv /\ StampsOK /\ TrailTies /\ HistoryOK /\ ToldOK /\ StatementExplainsBalance
      /\ AskOK
  BY DEF HInv, GInv
<1>1. /\ GInv' /\ balance' = balance /\ posted' = posted /\ cmd' = cmd /\ pc' = pc
      /\ now' = now /\ recorded' = recorded /\ trail' = trail
  BY <1>0, ReadKeepsGInv, ReadLeaves
<1>2. StampsOK' /\ TrailTies' /\ HistoryOK'
  <2>1. Recorded' = Recorded
    BY <1>1 DEF Recorded, EntriesOf
  <2> QED
    BY <1>0, <1>1, <2>1 DEF StampsOK, Touches, TrailTies, HistoryOK, EntriesAt
<1>3. told' = told => ToldOK'
  BY <1>0, <1>1 DEF ToldOK
<1>4. page'.outcome # "listed" => StatementExplainsBalance'
  BY DEF StatementExplainsBalance
<1>5. SUFFICES ToldOK' /\ StatementExplainsBalance'
  BY <1>1, <1>2 DEF HInv
<1>6. CASE ReadBalance
  <2>1. /\ rpc = "account" /\ ask.op = "balance" /\ page'.outcome = "none"
        /\ told' = [row |-> <<ask.who, ask.account>>, balance |-> balance[<<ask.who, ask.account>>]]
    BY <1>6 DEF ReadBalance, ReadEnd
  <2> DEFINE row == <<ask.who, ask.account>>
  <2>2. row \in Row
    BY <1>0, <2>1, CallFields DEF AskOK, Row
  <2>3. told'.row = row /\ told'.balance = LastOf(trail[row])
    BY <1>0, <2>1, <2>2 DEF TrailTies
  <2>4. trail[row] \in Seq(Word)
    BY <1>0, <2>2 DEF GInv, StatementsTypeOK
  <2> HIDE DEF row
  <2>5. LastOf(trail[row]) = 0 \/ \E i \in 1 .. Len(trail[row]) : trail[row][i] = LastOf(trail[row])
    <3>1. trail[row] # <<>> => Len(trail[row]) \in 1 .. Len(trail[row])
      BY <2>4
    <3> QED
      BY <3>1 DEF LastOf
  <2> QED
    BY <1>1, <1>4, <2>1, <2>2, <2>3, <2>5 DEF ToldOK
<1>7. CASE ReadEntries
  <2>1. ask' = ask /\ told' = told /\ Scope' = Scope
    BY <1>7 DEF ReadEntries, ReadEnd, Scope
  <2>2. ASSUME told # Untold, ask.account = told.row[2], Scope \in {Operator, told.row[1]},
               told.balance # 0
        PROVE  \E i \in DOMAIN page'.entries : /\ page'.entries[i].tenant = told.row[1]
                                               /\ page'.entries[i].running = told.balance
    <3> DEFINE t == told.row[1]
               left == trail[<<t, ask.account>>]
               mine == {i \in DOMAIN page'.entries : page'.entries[i].tenant = t}
    <3>1. told.row \in Row /\ told.row = <<t, ask.account>> /\ t \in Tenant
      BY <1>0, <2>2 DEF ToldOK, Row
    <3>2. PICK i \in 1 .. Len(left) : left[i] = told.balance
      BY <1>0, <2>2, <3>1 DEF ToldOK
    <3>3. PICK b \in {0} \cup DOMAIN page'.entries :
            /\ mine = b + 1 .. b + Len(left)
            /\ \A j \in 1 .. Len(left) : page'.entries[b + j].running = left[j]
      BY <1>7, <2>2, <3>1, ListsTrail
    <3>4. left \in Seq(Word) /\ Len(left) \in Nat
      <4>1. trail \in [Row -> Seq(Word)]
        BY <1>0 DEF GInv, StatementsTypeOK
      <4>2. left \in Seq(Word)
        BY <3>1, <4>1
      <4> QED
        BY <4>2
    <3>5. b \in Nat
      BY <1>0, <1>7, <3>3, Listed
    <3>6. b + i \in b + 1 .. b + Len(left)
      BY <3>2, <3>4, <3>5
    <3>7. b + i \in mine
      BY <3>3, <3>6
    <3> QED
      BY <3>2, <3>3, <3>7
  <2>3. StatementExplainsBalance'
    BY <2>1, <2>2 DEF StatementExplainsBalance
  <2> QED
    BY <1>3, <2>1, <2>3
<1>8. CASE ~ReadBalance /\ ~ReadEntries
  <2>1. told' = told /\ page'.outcome # "listed"
    <3>1. page = NoPage => page.outcome # "listed"
      BY DEF NoPage
    <3>2. ASSUME NEW c \in Call, Ask(c) PROVE told' = told /\ page'.outcome # "listed"
      <4>1. page = NoPage
        BY <1>0, <3>2 DEF Ask, AskOK
      <4> QED
        BY <3>1, <3>2, <4>1 DEF Ask, NoPage
    <3>3. ReadUnknown \/ ReadFails => told' = told /\ page'.outcome # "listed"
      BY DEF ReadUnknown, ReadFails, ReadEnd
    <3>4. ReadBegin \/ ReadExists => told' = told /\ page'.outcome # "listed"
      BY <1>0, <3>1 DEF ReadBegin, ReadExists, AskOK
    <3> QED
      BY <1>8, <3>2, <3>3, <3>4 DEF ReadStep
  <2> QED
    BY <1>3, <1>4, <2>1
<1> QED
  BY <1>6, <1>7, <1>8

(* The empty ledger has an empty history. *)
LEMMA InitHInv == StatementsInit => HInv
<1> SUFFICES ASSUME StatementsInit PROVE HInv
  OBVIOUS
<1>1. GInv
  BY InitGInv
<1>2. /\ posted = {} /\ trail = [row \in Row |-> <<>>] /\ balance = [row \in Row |-> 0]
      /\ recorded = [r \in Request |-> 0] /\ now = 0 /\ told = Untold /\ page = NoPage
  BY StatementsAssumption DEF StatementsInit, Init
<1>3. StampsOK
  BY <1>2 DEF StampsOK
<1>4. TrailTies
  BY <1>2 DEF TrailTies, LastOf
<1>5. HistoryOK
  <2>1. \A row \in Row : EntriesAt(row) = {} /\ Len(trail[row]) = 0
    BY <1>2 DEF EntriesAt, Recorded
  <2>2. ASSUME NEW row \in Row PROVE \E h : HistoryOf(h, trail[row], EntriesAt(row))
    <3>1. HistoryOf([i \in 1 .. 0 |-> 0], trail[row], EntriesAt(row))
      BY <2>1 DEF HistoryOf
    <3> QED
      BY <3>1
  <2> QED
    BY <2>2 DEF HistoryOK
<1>6. ToldOK /\ StatementExplainsBalance
  BY <1>2 DEF ToldOK, StatementExplainsBalance, NoPage
<1> QED
  BY <1>1, <1>3, <1>4, <1>5, <1>6 DEF HInv

(* The step of the induction for statements under an exact clock. *)
LEMMA HInvStep ==
  ASSUME ClockError = 0
  PROVE  HInv /\ [StatementsNext]_statementVars => HInv'
<1> SUFFICES ASSUME HInv, [StatementsNext]_statementVars PROVE HInv'
  OBVIOUS
<1>1. CASE Write
  BY <1>1, WriteKeepsHInv
<1>2. CASE ReadStep
  BY <1>2, ReadKeepsHInv
<1>3. CASE UNCHANGED statementVars
  <2>1. GInv'
    BY GInvStep DEF HInv
  <2>2. UNCHANGED <<balance, posted, cmd, pc, rpc, ask, told, page, now, recorded, trail>>
    BY <1>3 DEF statementVars, vars, readVars, clockVars
  <2>3. Recorded' = Recorded
    BY <2>2 DEF Recorded, EntriesOf
  <2> QED
    BY <2>1, <2>2, <2>3 DEF HInv, StampsOK, Touches, TrailTies, HistoryOK, EntriesAt, ToldOK,
                            StatementExplainsBalance, Scope
<1> QED
  BY <1>1, <1>2, <1>3 DEF StatementsNext, ReadStep

\* The inductive invariant of the statements, if the clock tells postings of a
\* row apart.
THEOREM HistoryInductive == ASSUME ClockError = 0 PROVE StatementsSpec => []HInv
<1>1. HInv /\ [StatementsNext]_statementVars => HInv'
  BY HInvStep
<1> QED
  BY InitHInv, <1>1, PTL DEF StatementsSpec

\* A balance GetBalance told of is a running balance of the statement asked for
\* next, whatever is posted in between.
THEOREM BalancesAreExplained ==
  ASSUME ClockError = 0 PROVE StatementsSpec => []StatementExplainsBalance
<1>1. HInv => StatementExplainsBalance
  BY DEF HInv
<1> QED
  BY HistoryInductive, <1>1, PTL

\* Because PostTransfer reads the clock with both rows locked, the order of
\* recorded_at and sequence is, account by account, the order of the commits:
\* GetEntries folds exactly the balances the postings left behind.
THEOREM StatementsTellHistory ==
  ASSUME ClockError = 0 PROVE StatementsSpec => StatementIsHistory
<1>1. ASSUME HInv, [StatementsNext]_statementVars, rpc = "entries", page'.outcome = "listed",
             NEW t \in Tenant
      PROVE  LET mine == {i \in DOMAIN page'.entries : page'.entries[i].tenant = t}
                 left == trail[<<t, ask.account>>]
             IN  IF Scope \in {t, Operator}
                 THEN \E b \in {0} \cup DOMAIN page'.entries :
                        /\ mine = b + 1 .. b + Len(left)
                        /\ \A i \in 1 .. Len(left) : page'.entries[b + i].running = left[i]
                 ELSE mine = {}
  <2>1. page = NoPage
    BY <1>1 DEF HInv, GInv, AskOK
  <2>2. page' # page
    BY <1>1, <2>1 DEF NoPage
  <2>3. ReadEntries
    <3>1. ~Write /\ ~UNCHANGED statementVars
      BY <2>2 DEF Write, statementVars, readVars
    <3>2. \A c \in Call : ~Ask(c)
      BY <1>1 DEF Ask
    <3>3. ~ReadBegin /\ ~ReadBalance /\ ~ReadExists /\ ~ReadUnknown
      BY <1>1 DEF ReadBegin, ReadBalance, ReadExists, ReadUnknown
    <3>4. ~ReadFails
      BY <1>1 DEF ReadFails, ReadEnd
    <3> QED
      BY <1>1, <3>1, <3>2, <3>3, <3>4 DEF StatementsNext
  <2> QED
    BY <1>1, <2>3, ListsTrail
<1>2. HInv /\ [StatementsNext]_statementVars =>
        [rpc = "entries" /\ page'.outcome = "listed" =>
           \A t \in Tenant :
             LET mine == {i \in DOMAIN page'.entries : page'.entries[i].tenant = t}
                 left == trail[<<t, ask.account>>]
             IN  IF Scope \in {t, Operator}
                 THEN \E b \in {0} \cup DOMAIN page'.entries :
                        /\ mine = b + 1 .. b + Len(left)
                        /\ \A i \in 1 .. Len(left) : page'.entries[b + i].running = left[i]
                 ELSE mine = {}]_statementVars
  BY <1>1
<1> QED
  BY HistoryInductive, <1>2, PTL DEF StatementsSpec, StatementIsHistory
=============================================================================
