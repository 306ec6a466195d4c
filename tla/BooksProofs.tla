----------------------------- MODULE BooksProofs ----------------------------
(***************************************************************************)
(* Proofs about Books, for any accounts, tenants, keys and number of       *)
(* requests and alterations: the books tie, a verdict nothing interferes   *)
(* with is exact, and an altered wallet stays as it was found.             *)
(***************************************************************************)
EXTENDS Books, LedgerProofs

-----------------------------------------------------------------------------
(* Sums over finite sets.  A set of subsets of a finite set has a smallest *)
(* member, so a fact about all of them that fails has a smallest           *)
(* counterexample: that takes the place of induction.                      *)

\* g sums f over the subsets of S, whichever element is taken last.
SumsUp(g, f, S) ==
  /\ g \in [SUBSET S -> Int]
  /\ g[{}] = 0
  /\ \A s \in SUBSET S : \A x \in s : g[s] = f[x] + g[s \ {x}]

\* A sum over a finite set does not depend on the order of its terms.
LEMMA SumExists ==
  ASSUME NEW S, IsFiniteSet(S), NEW f \in [S -> Int]
  PROVE  \E g : SumsUp(g, f, S)
<1> DEFINE B == {T \in SUBSET S : ~\E g : SumsUp(g, f, T)}
<1> SUFFICES ASSUME B # {} PROVE FALSE
  OBVIOUS
<1>0. B \in SUBSET SUBSET S
  OBVIOUS
<1>1. PICK T \in B : \A U \in B : U \subseteq T => U = T
  <2> HIDE DEF B
  <2> QED
    BY <1>0, SmallestSubset
<1>2. T # {}
  <2>1. SumsUp([s \in SUBSET {} |-> 0], f, {})
    BY DEF SumsUp
  <2> QED
    BY <2>1, <1>1
<1>3. PICK x \in T : TRUE
  BY <1>2
<1>4. PICK g : SumsUp(g, f, T \ {x})
  <2>1. T \ {x} \subseteq T /\ T \ {x} # T /\ T \ {x} \in SUBSET S
    BY <1>3
  <2>2. T \ {x} \notin B
    BY <1>1, <2>1
  <2> QED
    BY <2>1, <2>2
<1> DEFINE h == [s \in SUBSET T |-> IF x \in s THEN f[x] + g[s \ {x}] ELSE g[s]]
<1>5. /\ g \in [SUBSET (T \ {x}) -> Int] /\ g[{}] = 0
      /\ \A s \in SUBSET (T \ {x}) : \A y \in s : g[s] = f[y] + g[s \ {y}]
      /\ \A y \in T : f[y] \in Int
  BY <1>1, <1>4 DEF SumsUp
<1>6. h \in [SUBSET T -> Int] /\ h[{}] = 0
  <2>1. ASSUME NEW s \in SUBSET T PROVE s \ {x} \in SUBSET (T \ {x}) /\ (x \notin s => s \in SUBSET (T \ {x}))
    OBVIOUS
  <2> QED
    BY <1>3, <1>5, <2>1
<1>7. ASSUME NEW s \in SUBSET T, NEW y \in s PROVE h[s] = f[y] + h[s \ {y}]
  <2>1. s \ {y} \in SUBSET T
    OBVIOUS
  <2>2. CASE y = x
    BY <2>1, <2>2
  <2>3. CASE y # x /\ x \in s
    <3>1. /\ h[s] = f[x] + g[s \ {x}]
          /\ h[s \ {y}] = f[x] + g[(s \ {y}) \ {x}]
      BY <2>1, <2>3
    <3>2. /\ s \ {x} \in SUBSET (T \ {x}) /\ y \in s \ {x}
          /\ (s \ {x}) \ {y} = (s \ {y}) \ {x}
          /\ (s \ {x}) \ {y} \in SUBSET (T \ {x})
      BY <2>3
    <3>3. /\ g[s \ {x}] = f[y] + g[(s \ {y}) \ {x}]
          /\ f[x] \in Int /\ f[y] \in Int /\ g[(s \ {y}) \ {x}] \in Int
      <4>1. ASSUME NEW u \in SUBSET (T \ {x}), y \in u
            PROVE  g[u] = f[y] + g[u \ {y}] /\ u \ {y} \in SUBSET (T \ {x})
        BY <1>5, <4>1
      <4>2. ASSUME NEW u \in SUBSET (T \ {x}) PROVE g[u] \in Int
        BY <1>5
      <4>3. x \in T /\ y \in T
        BY <1>3
      <4> HIDE DEF B, h
      <4>4. g[s \ {x}] = f[y] + g[(s \ {x}) \ {y}] /\ g[(s \ {x}) \ {y}] \in Int
        BY <3>2, <4>1, <4>2
      <4> QED
        BY <1>5, <3>2, <4>3, <4>4
    <3> DEFINE a == f[x]
               b == f[y]
               c == g[(s \ {y}) \ {x}]
    <3>4. h[s] = a + (b + c) /\ h[s \ {y}] = a + c /\ a \in Int /\ b \in Int /\ c \in Int
      BY <3>1, <3>3
    <3> HIDE DEF h, a, b, c
    <3>5. h[s] = b + h[s \ {y}]
      BY <3>4
    <3> QED
      BY <3>5 DEF b
  <2>4. CASE x \notin s
    BY <1>5, <2>1, <2>4
  <2> QED
    BY <2>2, <2>3, <2>4
<1> HIDE DEF h
<1>8. SumsUp(h, f, T)
  BY <1>6, <1>7 DEF SumsUp
<1> QED
  BY <1>8, <1>1

\* The recursion of SumFunctionOnSet.
Recurs(g, f, S) ==
  g = [s \in SUBSET S |-> IF s = {} THEN 0
                          ELSE f[CHOOSE x \in s : TRUE] + g[s \ {CHOOSE x \in s : TRUE}]]

\* If the recursion has a solution, SumFunctionOnSet is one's value.
LEMMA SumRecurs ==
  ASSUME NEW S, NEW f, NEW g, Recurs(g, f, S)
  PROVE  \E h : Recurs(h, f, S) /\ SumFunctionOnSet(f, S) = h[S]
<1>1. SumFunctionOnSet(f, S) = (CHOOSE h : Recurs(h, f, S))[S]
  BY DEF SumFunctionOnSet, FoldFunctionOnSet, MapThenFoldSet, Recurs
<1>2. Recurs(CHOOSE h : Recurs(h, f, S), f, S)
  OBVIOUS
<1> QED
  BY <1>1, <1>2

\* Every function that sums up gives SumFunctionOnSet.
LEMMA SumIs ==
  ASSUME NEW S, IsFiniteSet(S), NEW f \in [S -> Int], NEW g, SumsUp(g, f, S)
  PROVE  SumFunctionOnSet(f, S) = g[S]
<1>1. Recurs(g, f, S)
  <2>1. ASSUME NEW s \in SUBSET S, s # {}
        PROVE  g[s] = f[CHOOSE x \in s : TRUE] + g[s \ {CHOOSE x \in s : TRUE}]
    <3>1. (CHOOSE x \in s : TRUE) \in s
      BY <2>1
    <3> HIDE <2>1
    <3> QED
      BY <3>1 DEF SumsUp
  <2> QED
    BY <2>1 DEF SumsUp, Recurs
<1>2. PICK h : Recurs(h, f, S) /\ SumFunctionOnSet(f, S) = h[S]
  BY <1>1, SumRecurs
<1> DEFINE B == {s \in SUBSET S : h[s] # g[s]}
<1> SUFFICES ASSUME B # {} PROVE FALSE
  BY <1>2
<1>3. B \in SUBSET SUBSET S
  OBVIOUS
<1>4. PICK T \in B : \A U \in B : U \subseteq T => U = T
  <2> HIDE DEF B
  <2> QED
    BY <1>3, SmallestSubset
<1> DEFINE x == CHOOSE x \in T : TRUE
<1>5. T # {}
  BY <1>2, <1>4 DEF Recurs, SumsUp
<1>6. x \in T /\ T \in SUBSET S /\ T \ {x} # T /\ T \ {x} \in SUBSET S
  BY <1>4, <1>5
<1>7. h[T] = f[x] + h[T \ {x}] /\ g[T] = f[x] + g[T \ {x}]
  BY <1>1, <1>2, <1>5, <1>6 DEF Recurs
<1>8. h[T \ {x}] = g[T \ {x}]
  BY <1>4, <1>6
<1> QED
  BY <1>4, <1>7, <1>8

\* One more term adds itself to the sum.
LEMMA SumAdds ==
  ASSUME NEW S, IsFiniteSet(S), NEW r, r \notin S, NEW f \in [S \cup {r} -> Int]
  PROVE  SumFunction(f) = f[r] + SumFunction([s \in S |-> f[s]])
<1> DEFINE R == S \cup {r}
           e == [s \in S |-> f[s]]
<1>1. IsFiniteSet(R) /\ R \ {r} = S /\ r \in R
  BY FS_AddElement
<1>2. PICK g : SumsUp(g, f, R)
  BY <1>1, SumExists
<1>3. SumFunctionOnSet(f, R) = f[r] + g[S]
  <2>1. f \in [R -> Int]
    OBVIOUS
  <2> HIDE DEF R, e
  <2>2. SumFunctionOnSet(f, R) = g[R]
    BY <1>1, <1>2, <2>1, SumIs
  <2>3. g[R] = f[r] + g[R \ {r}]
    BY <1>1, <1>2 DEF SumsUp
  <2> QED
    BY <1>1, <2>2, <2>3
<1> DEFINE h == [s \in SUBSET S |-> g[s]]
<1>4. SumsUp(h, e, S)
  <2>1. \A s \in SUBSET S : s \in SUBSET R /\ g[s] \in Int /\ h[s] = g[s]
    BY <1>2 DEF SumsUp
  <2>2. {} \in SUBSET S /\ h[{}] = 0
    BY <1>2, <2>1 DEF SumsUp
  <2>3. ASSUME NEW s \in SUBSET S, NEW x \in s
        PROVE  h[s] = e[x] + h[s \ {x}]
    <3>1. s \ {x} \in SUBSET S /\ g[s] = f[x] + g[s \ {x}] /\ e[x] = f[x]
      BY <1>2, <2>1 DEF SumsUp
    <3> HIDE DEF h, e
    <3> QED
      BY <2>1, <3>1
  <2> QED
    BY <2>1, <2>2, <2>3 DEF SumsUp
<1>5. SumFunctionOnSet(e, S) = g[S]
  <2>1. e \in [S -> Int] /\ h[S] = g[S]
    OBVIOUS
  <2> HIDE DEF e, h
  <2> QED
    BY <1>4, <2>1, SumIs
<1> QED
  BY <1>3, <1>5 DEF SumFunction

-----------------------------------------------------------------------------
(* The invariant.                                                          *)

\* lockOne reads no wallet below zero (buildAccount refuses it).
SnapsLegal ==
  \A r \in Request, id \in AccountId : snap[r][id].kind = "wallet" => snap[r][id].balance >= 0

\* The stored balance of every row is the sum of its entries.
Tied ==
  /\ WalletsNeverNegative
  /\ \A row \in Row : edits[row] = 0 /\ balance[row] = EntrySum(row)

\* What a scan has read is still so, unless something was committed since.
ScanOK ==
  /\ vpc # "done" => report = NoReport
  /\ report.verdict = "insufficient_funds" => tampers > 0
  /\ overlap = "nothing" /\ vpc \in {"computed", "trial"} =>
       stored = [row \in {x \in OpenRows : InScope(x)} |-> balance[row]]
  /\ overlap = "nothing" /\ vpc = "trial" =>
       computed = [row \in {x \in Row : InScope(x)} |-> EntrySum(row)]

BInv ==
  /\ CoreInv /\ BooksTypeOK /\ IsFiniteSet(posted)
  /\ SnapsLegal /\ ScanOK
  /\ tampers = 0 => Tied

-----------------------------------------------------------------------------
\* What a transfer enters on a row, row by row, and that it is an integer.
LEMMA EntryAmounts ==
  ASSUME CoreInv, NEW r \in Request, cmd[r] \in TransferCommand, NEW row \in Row
  PROVE  /\ EntryAmount(r, row) \in Int
         /\ cmd[r].from = cmd[r].to => EntryAmount(r, row) = 0
         /\ cmd[r].from # cmd[r].to =>
              EntryAmount(r, row) = IF row = <<cmd[r].tenant, cmd[r].from>> THEN -cmd[r].amount
                                    ELSE IF row = <<cmd[r].tenant, cmd[r].to>> THEN cmd[r].amount
                                    ELSE 0
<1>1. cmd[r].amount \in Int
  BY TransferFields, LedgerAssumption DEF Word
<1> DEFINE n == cmd[r].amount
<1>2. n \in Int /\ -n + n = 0 /\ -n + 0 = -n /\ 0 + n = n
  BY <1>1
<1> HIDE DEF n
<1>3. EntryAmount(r, row) = (IF row = <<cmd[r].tenant, cmd[r].from>> THEN -n ELSE 0)
                            + (IF row = <<cmd[r].tenant, cmd[r].to>> THEN n ELSE 0)
  BY DEF EntryAmount, n
<1>4. CASE cmd[r].from = cmd[r].to
  BY <1>2, <1>3, <1>4
<1>5. CASE cmd[r].from # cmd[r].to
  <2>1. <<cmd[r].tenant, cmd[r].from>> # <<cmd[r].tenant, cmd[r].to>>
    BY <1>5
  <2> QED
    BY <1>2, <1>3, <1>5, <2>1 DEF n
<1> QED
  BY <1>4, <1>5

\* The sum of a row's entries moves only with what is posted or altered.
LEMMA EntrySumFrame ==
  ASSUME posted' = posted, \A r \in posted : cmd'[r] = cmd[r],
         NEW row \in Row, edits'[row] = edits[row]
  PROVE  EntrySum(row)' = EntrySum(row)
<1>1. [r \in posted |-> EntryAmount(r, row)]' = [r \in posted |-> EntryAmount(r, row)]
  BY DEF EntryAmount
<1> DEFINE f == [r \in posted |-> EntryAmount(r, row)]
<1>2. f' = f
  BY <1>1
<1>3. EntrySum(row) = InitBalance[row] + edits[row] + SumFunction(f)
  BY DEF EntrySum
<1>4. EntrySum(row)' = InitBalance[row] + edits'[row] + SumFunction(f')
  BY DEF EntrySum
<1> HIDE DEF f
<1> QED
  BY <1>2, <1>3, <1>4

\* A posting adds its entries to the sum.
LEMMA EntrySumGrows ==
  ASSUME BInv, NEW r \in Request, r \notin posted, cmd[r] \in TransferCommand,
         posted' = posted \cup {r}, cmd' = cmd, edits' = edits, NEW row \in Row
  PROVE  /\ EntrySum(row) \in Int
         /\ EntrySum(row)' = EntrySum(row) + EntryAmount(r, row)
<1> DEFINE f == [q \in posted |-> EntryAmount(q, row)]
           g == [q \in posted \cup {r} |-> EntryAmount(q, row)]
<1>1. \A q \in posted \cup {r} : EntryAmount(q, row) \in Int
  BY EntryAmounts DEF BInv, CoreInv, TypeOK, PhaseOK
<1>2. /\ EntrySum(row) = InitBalance[row] + edits[row] + SumFunction(f)
      /\ EntrySum(row)' = InitBalance[row] + edits[row] + SumFunction(g)
  BY DEF EntrySum, EntryAmount
<1>3. /\ g \in [posted \cup {r} -> Int] /\ f = [q \in posted |-> g[q]]
      /\ g[r] = EntryAmount(r, row) /\ f \in [posted -> Int]
  BY <1>1
<1> HIDE DEF f, g
<1>4. SumFunction(g) = EntryAmount(r, row) + SumFunction(f)
  BY <1>3, SumAdds DEF BInv
<1>5. SumFunction(f) \in Int
  <2>1. PICK h : SumsUp(h, f, posted)
    BY <1>3, SumExists DEF BInv
  <2>2. SumFunctionOnSet(f, posted) = h[posted]
    BY <1>3, <2>1, SumIs DEF BInv
  <2> QED
    BY <1>3, <2>1, <2>2 DEF SumsUp, SumFunction
<1>6. InitBalance[row] \in Int /\ edits[row] \in Int /\ EntryAmount(r, row) \in Int
  BY <1>1, LedgerAssumption DEF Word, BInv, BooksTypeOK
<1> QED
  BY <1>2, <1>4, <1>5, <1>6

-----------------------------------------------------------------------------
(* A step of the write path.                                               *)

\* A commit moves each stored balance by what it enters on the row.
LEMMA MoveTies ==
  ASSUME BInv, Tied, TypeOK', NEW r \in Request, Move(r), edits' = edits
  PROVE  Tied'
<1>0. CoreInv /\ WalletsNeverNegative
  BY DEF BInv, Tied
<1>1. WalletsNeverNegative'
  BY <1>0, WalletsStep
<1>2. \A w \in posted : w \in Request \ {r} /\ cmd'[w] = cmd[w]
  BY <1>0, Moving
<1>3. \A row \in Row : edits'[row] = 0 /\ balance[row] = EntrySum(row)
  BY DEF Tied
<1>4. CASE UNCHANGED dbVars
  <2>1. \A row \in Row : EntrySum(row)' = EntrySum(row)
    BY <1>2, <1>4, EntrySumFrame DEF dbVars
  <2> QED
    BY <1>1, <1>3, <1>4, <2>1 DEF Tied, dbVars
<1>5. CASE pc[r] = "commit" /\ MakeDurable(r) /\ cmd[r].op = "open"
  <2> DEFINE new == <<cmd[r].tenant, cmd[r].id>>
  <2>1. kind[new] = "absent" /\ new \in Row
    BY <1>0, <1>5, CommandKinds DEF CoreInv, LocksOK, PhaseOK, OpenCommand, Row
  <2>2. balance[new] = 0 /\ balance \in [Row -> Word]
    BY <1>0, <2>1 DEF CoreInv, AbsentIsZero, TypeOK
  <2>3. balance' = [balance EXCEPT ![new] = 0] /\ posted' = posted
    BY <1>5 DEF MakeDurable
  <2> HIDE DEF new
  <2>4. balance' = balance
    BY <2>1, <2>2, <2>3
  <2>5. \A row \in Row : EntrySum(row)' = EntrySum(row)
    BY <1>2, <2>3, EntrySumFrame
  <2> QED
    BY <1>1, <1>3, <2>4, <2>5 DEF Tied
<1>6. CASE pc[r] = "commit" /\ MakeDurable(r) /\ cmd[r].op = "transfer"
  <2>1. /\ cmd[r] \in TransferCommand /\ balance \in [Row -> Word]
        /\ r \notin posted /\ cmd' = cmd
    BY <1>0, <1>2, <1>6, CommandKinds, Moving DEF CoreInv, PhaseOK, TypeOK
  <2>2. posted' = posted \cup {r} /\ balance' = Credited(cmd[r], Debited(cmd[r], balance))
    BY <1>6 DEF MakeDurable
  <2>3. ASSUME NEW row \in Row PROVE balance'[row] = EntrySum(row)'
    <3>1. EntrySum(row)' = balance[row] + EntryAmount(r, row)
      BY <1>3, <2>1, <2>2, EntrySumGrows
    <3>2. balance[row] \in Int /\ cmd[r].amount \in Int
      BY <2>1, TransferFields, LedgerAssumption DEF Word
    <3>3. CASE cmd[r].from = cmd[r].to
      <4>1. balance'[row] = balance[row] /\ EntryAmount(r, row) = 0
        BY <1>0, <2>1, <2>2, <3>3, Deltas, EntryAmounts
      <4> QED
        BY <3>1, <3>2, <4>1
    <3>4. CASE cmd[r].from # cmd[r].to
      <4> DEFINE from == <<cmd[r].tenant, cmd[r].from>>
                 to == <<cmd[r].tenant, cmd[r].to>>
                 n == cmd[r].amount
      <4>1. /\ balance'[row] = IF row = from THEN balance[row] - n
                               ELSE IF row = to THEN balance[row] + n ELSE balance[row]
            /\ EntryAmount(r, row) = IF row = from THEN -n ELSE IF row = to THEN n ELSE 0
        <5>1. balance' = [x \in Row |-> IF x = from THEN balance[x] - n
                                        ELSE IF x = to THEN balance[x] + n ELSE balance[x]]
          BY <2>1, <2>2, <3>4, Deltas
        <5>2. EntryAmount(r, row) = IF row = from THEN -n ELSE IF row = to THEN n ELSE 0
          BY <1>0, <2>1, <3>4, EntryAmounts
        <5> QED
          BY <5>1, <5>2
      <4>2. n \in Int
        BY <3>2
      <4> HIDE DEF from, to, n
      <4> QED
        BY <3>1, <3>2, <4>1, <4>2
    <3> QED
      BY <3>3, <3>4
  <2> QED
    BY <1>1, <1>3, <2>3 DEF Tied
<1>7. pc[r] = "commit" => cmd[r].op \in {"transfer", "open"}
  BY <1>0, CommandKinds DEF CoreInv, PhaseOK
<1> QED
  BY <1>0, <1>4, <1>5, <1>6, <1>7, BooksFrame

\* No step puts a wallet below zero into a snapshot.
LEMMA MoveSnapsLegal ==
  ASSUME CoreInv, SnapsLegal, NEW r \in Request, Move(r)
  PROVE  SnapsLegal'
<1> SUFFICES ASSUME NEW q \in Request, NEW id \in AccountId, snap'[q][id].kind = "wallet"
             PROVE  snap'[q][id].balance >= 0
  BY DEF SnapsLegal
<1>1. snap[q][id].kind = "wallet" => snap[q][id].balance >= 0
  BY DEF SnapsLegal
<1>2. CASE snap'[q][id] = snap[q][id]
  BY <1>1, <1>2
<1>3. ASSUME q = r, NEW at \in AccountId, cmd[r] \in TransferCommand, LockOne(r, at)
      PROVE  snap'[q][id].balance >= 0
  <2>0. \A other \in AccountId \ {at} : snap'[r][other] = snap[r][other]
    BY <1>3, LockEffect DEF CoreInv
  <2>1. CASE id # at
    BY <1>2, <1>3, <2>0, <2>1
  <2>2. CASE id = at
    <3> DEFINE row == <<cmd[r].tenant, at>>
    <3>1. /\ snap'[r][at].kind = kind[row] /\ snap'[r][at].balance = balance[row]
          /\ kind[row] # "absent"
      BY <1>3, <2>2, LockEffect DEF CoreInv
    <3>2. WalletLegal(row)
      BY <1>3, <3>1 DEF LockOne
    <3> QED
      BY <1>3, <2>2, <3>1, <3>2 DEF WalletLegal
  <2> QED
    BY <2>1, <2>2
<1>4. CASE snap' = snap
  BY <1>2, <1>4
<1>5. CASE q # r
  BY <1>2, <1>5, OthersUntouched
<1>6. CASE q = r /\ LockLow(r)
  <2>1. cmd[r] \in TransferCommand /\ Low(cmd[r]) \in AccountId
    BY <1>6, TransferFields DEF LockLow, CoreInv, PhaseOK, TransferPhase
  <2> QED
    BY <1>3, <1>4, <1>6, <2>1 DEF LockLow, RejectRow, Finish
<1>7. CASE q = r /\ LockHigh(r)
  <2>1. cmd[r] \in TransferCommand /\ High(cmd[r]) \in AccountId
    BY <1>7, TransferFields DEF LockHigh, CoreInv, PhaseOK, TransferPhase
  <2> QED
    BY <1>3, <1>4, <1>7, <2>1 DEF LockHigh, RejectRow, Finish
<1>8. CASE ~(LockLow(r) \/ LockHigh(r))
  BY <1>4, <1>8 DEF Move, Step, Submit, Begin, Lookup, Render, Decide, Claim, Check,
                    Insert, Commit, CommitUnheard, Abort, Finish
<1> QED
  BY <1>5, <1>6, <1>7, <1>8

\* The first disjunct of BooksNext.
WriteStep ==
  /\ Next
  /\ UNCHANGED <<vpc, scope, stored, computed, report, tamperVars>>
  /\ overlap' = IF overlap = "nothing" /\ Scanning /\ ~UNCHANGED dbVars
                THEN "postings" ELSE overlap

\* Postings and openings keep the books tied and the scan's reads current.
LEMMA WriteKeepsBInv == ASSUME BInv, WriteStep PROVE BInv'
<1>0. /\ CoreInv /\ SnapsLegal /\ ScanOK /\ BooksTypeOK /\ IsFiniteSet(posted)
      /\ vpc' = vpc /\ scope' = scope /\ stored' = stored /\ computed' = computed
      /\ report' = report /\ edits' = edits /\ tampers' = tampers
      /\ [Next]_vars
  BY DEF BInv, WriteStep, tamperVars
<1>1. CoreInv' /\ TypeOK'
  BY <1>0, CoreStep DEF CoreInv
<1>2. overlap' \in {"nothing", "postings", "tampering"}
  BY <1>0 DEF WriteStep, BooksTypeOK
<1>3. BooksTypeOK'
  BY <1>0, <1>1, <1>2 DEF BooksTypeOK
<1>4. ASSUME UNCHANGED dbVars, \A w \in posted : cmd'[w] = cmd[w] PROVE ScanOK'
  <2>1. kind' = kind /\ balance' = balance /\ posted' = posted
    BY <1>4 DEF dbVars
  <2>2. overlap' = overlap
    BY <1>4 DEF WriteStep
  <2>3. \A row \in Row : EntrySum(row)' = EntrySum(row)
    BY <1>0, <1>4, <2>1, EntrySumFrame
  <2>4. \A row \in Row : InScope(row)' = InScope(row)
    BY <1>0 DEF InScope
  <2>5. /\ [row \in {x \in OpenRows : InScope(x)} |-> balance[row]]'
             = [row \in {x \in OpenRows : InScope(x)} |-> balance[row]]
        /\ [row \in {x \in Row : InScope(x)} |-> EntrySum(row)]'
             = [row \in {x \in Row : InScope(x)} |-> EntrySum(row)]
    <3>1. {x \in OpenRows : InScope(x)}' = {x \in OpenRows : InScope(x)}
      BY <1>0, <2>1 DEF OpenRows, InScope
    <3>2. {x \in Row : InScope(x)}' = {x \in Row : InScope(x)}
      BY <1>0 DEF InScope
    <3> DEFINE D == {x \in Row : InScope(x)}
    <3>3. D \subseteq Row /\ D' = D
      BY <3>2
    <3>4. [row \in D |-> EntrySum(row)]' = [row \in D |-> EntrySum(row)]
      <4> HIDE DEF D
      <4> QED
        BY <2>3, <3>3
    <3> QED
      BY <2>1, <3>1, <3>4
  <2> QED
    BY <1>0, <2>2, <2>5 DEF ScanOK
<1>5. CASE UNCHANGED vars
  <2>1. UNCHANGED dbVars /\ cmd' = cmd /\ snap' = snap /\ posted' = posted /\ kind' = kind /\ balance' = balance
    BY <1>5 DEF vars, dbVars
  <2>2. ScanOK'
    BY <1>4, <2>1
  <2>3. SnapsLegal'
    BY <1>0, <2>1 DEF SnapsLegal
  <2>4. \A row \in Row : EntrySum(row)' = EntrySum(row)
    BY <1>0, <2>1, EntrySumFrame
  <2>5. Tied => Tied'
    BY <1>0, <2>1, <2>4 DEF Tied, WalletsNeverNegative
  <2> QED
    BY <1>0, <1>1, <1>3, <2>1, <2>2, <2>3, <2>5 DEF BInv
<1>6. ASSUME NEW r \in Request, Move(r) PROVE BInv'
  <2>1. SnapsLegal'
    BY <1>0, <1>6, MoveSnapsLegal
  <2>2. tampers' = 0 => Tied'
    BY <1>0, <1>1, <1>6, MoveTies DEF BInv
  <2>3. IsFiniteSet(posted')
    <3>1. IsFiniteSet(posted \cup {r})
      BY <1>0, FS_AddElement
    <3>2. posted' \in SUBSET (posted \cup {r})
      BY <1>0, <1>6, BooksFrame
    <3> QED
      BY <3>1, <3>2, FS_Subset
  <2>4. ScanOK'
    <3>1. CASE UNCHANGED dbVars
      BY <1>0, <1>4, <1>6, <3>1, Moving
    <3>2. CASE ~UNCHANGED dbVars
      <4>1. overlap' = "nothing" => vpc \notin {"computed", "trial"}
        BY <3>2 DEF WriteStep, Scanning
      <4> QED
        BY <1>0, <4>1 DEF ScanOK
    <3> QED
      BY <3>1, <3>2
  <2> QED
    BY <1>0, <1>1, <1>3, <2>1, <2>2, <2>3, <2>4 DEF BInv
<1> QED
  BY <1>0, <1>5, <1>6 DEF Next, Move, WriteStep

-----------------------------------------------------------------------------
(* A step of the scan.                                                     *)

\* The scan leaves the write path alone but for a connection of the pool.
ScanFrame ==
  /\ free' \in Nat
  /\ UNCHANGED <<dbVars, rowLock, keyLock, cmd, pc, conns, snap, answer>>
  /\ UNCHANGED tamperVars

\* So nothing the invariant says of the books is disturbed by it.
LEMMA ScanLeavesBooks ==
  ASSUME BInv, ScanFrame
  PROVE  /\ CoreInv' /\ TypeOK' /\ SnapsLegal' /\ IsFiniteSet(posted')
         /\ tampers' = tampers /\ edits' = edits
         /\ kind' = kind /\ balance' = balance /\ posted' = posted /\ cmd' = cmd
         /\ tampers' = 0 => Tied'
<1>1. /\ kind' = kind /\ balance' = balance /\ posted' = posted /\ claims' = claims
      /\ rowLock' = rowLock /\ keyLock' = keyLock /\ cmd' = cmd /\ pc' = pc
      /\ conns' = conns /\ snap' = snap /\ answer' = answer /\ free' \in Nat
      /\ tampers' = tampers /\ edits' = edits
  BY DEF ScanFrame, dbVars, tamperVars
<1>2. UNCHANGED <<dbVars, rowLock, keyLock, cmd, pc, conns, snap, answer>> /\ free' \in Nat
  BY DEF ScanFrame
<1>3. CoreInv' /\ TypeOK'
  BY <1>2, PoolOnly DEF BInv, CoreInv
<1>4. SnapsLegal' /\ IsFiniteSet(posted')
  BY <1>1 DEF BInv, SnapsLegal
<1>5. \A row \in Row : EntrySum(row)' = EntrySum(row)
  BY <1>1, EntrySumFrame
<1>6. tampers' = 0 => Tied'
  BY <1>1, <1>5 DEF BInv, Tied, WalletsNeverNegative
<1> QED
  BY <1>1, <1>3, <1>4, <1>6

\* However a scan ends, it ends with a report that keeps the invariant.
LEMMA EndKeepsBInv ==
  ASSUME BInv, NEW v, VerifyEnd(v),
         v.verdict \in {"YES", "NO", "tenant_not_found", "insufficient_funds", "internal_error"},
         v.verdict = "insufficient_funds" => tampers > 0,
         v.drifted \subseteq Row
  PROVE  BInv'
<1>1. ScanFrame
  <2>1. free' = free + 1 /\ free \in Nat
    BY DEF VerifyEnd, BInv, CoreInv, TypeOK
  <2>2. free' \in Nat
    BY <2>1
  <2> QED
    BY <2>2 DEF ScanFrame, VerifyEnd
<1>2. BooksTypeOK'
  BY <1>1, ScanLeavesBooks DEF VerifyEnd, BInv, BooksTypeOK
<1>3. ScanOK'
  BY <1>1, ScanLeavesBooks DEF VerifyEnd, ScanOK
<1> QED
  BY <1>1, <1>2, <1>3, ScanLeavesBooks DEF BInv

\* Every step of VerifyBooks keeps the invariant.
LEMMA ScanKeepsBInv == ASSUME BInv, Scan PROVE BInv'
<1>0. /\ CoreInv /\ SnapsLegal /\ ScanOK /\ BooksTypeOK /\ free \in Nat
  BY DEF BInv, CoreInv, TypeOK
<1>1. ASSUME NEW x \in {"tenant_not_found", "insufficient_funds", "internal_error"},
             x = "insufficient_funds" => tampers > 0,
             VerifyEnd([NoReport EXCEPT !.verdict = x])
      PROVE  BInv'
  <2> DEFINE v == [NoReport EXCEPT !.verdict = x]
  <2>1. v.verdict = x /\ v.drifted = {}
    BY DEF NoReport
  <2>2. VerifyEnd(v)
    BY <1>1
  <2> HIDE DEF v
  <2> QED
    BY <1>1, <2>1, <2>2, EndKeepsBInv
<1>2. ASSUME NEW s \in Tenant \cup {AllTenants}, VerifyBegin(s) PROVE BInv'
  <2>1. ScanFrame
    <3>1. free' \in Nat
      BY <1>0, <1>2 DEF VerifyBegin
    <3> QED
      BY <1>2, <3>1 DEF ScanFrame, VerifyBegin
  <2>2. vpc' = "tenant" /\ scope' = s /\ vpc = "idle" /\ UNCHANGED <<stored, computed, report, overlap>>
    BY <1>2 DEF VerifyBegin
  <2> QED
    BY <1>0, <2>1, <2>2, ScanLeavesBooks DEF BInv, BooksTypeOK, ScanOK
<1>3. ASSUME UNCHANGED <<vars, tamperVars>> PROVE ScanFrame
  BY <1>0, <1>3 DEF ScanFrame, vars, dbVars
<1>4. CASE VerifyTenant
  <2>1. CASE VerifyEnd([NoReport EXCEPT !.verdict = "tenant_not_found"])
    BY <1>1, <2>1
  <2>2. CASE ~VerifyEnd([NoReport EXCEPT !.verdict = "tenant_not_found"])
    <3>1. /\ vpc = "tenant" /\ vpc' = "accounts"
          /\ UNCHANGED <<vars, scope, stored, computed, report, overlap, tamperVars>>
      BY <1>4, <2>2 DEF VerifyTenant
    <3>2. ScanFrame
      BY <1>3, <3>1
    <3> QED
      BY <1>0, <3>1, <3>2, ScanLeavesBooks DEF BInv, BooksTypeOK, ScanOK
  <2> QED
    BY <2>1, <2>2
<1>5. CASE ReadAccounts
  <2> DEFINE rows == {row \in OpenRows : InScope(row)}
  <2>1. CASE \E row \in rows : ~WalletLegal(row)
    <3>1. ~WalletsNeverNegative
      BY <2>1 DEF WalletsNeverNegative, WalletLegal, OpenRows
    <3>2. tampers # 0 /\ tampers \in Nat
      BY <1>0, <3>1, BooksAssumption DEF BInv, Tied, BooksTypeOK
    <3>3. tampers > 0
      BY <3>2
    <3>4. VerifyEnd([NoReport EXCEPT !.verdict = "insufficient_funds"])
      BY <1>5, <2>1 DEF ReadAccounts
    <3> QED
      BY <1>1, <3>3, <3>4
  <2>2. CASE ~\E row \in rows : ~WalletLegal(row)
    <3>1. /\ vpc = "accounts" /\ vpc' = "computed" /\ overlap' = "nothing"
          /\ stored' = [row \in rows |-> balance[row]]
          /\ UNCHANGED <<vars, scope, computed, report, tamperVars>>
      BY <1>5, <2>2 DEF ReadAccounts
    <3>2. ScanFrame
      BY <1>3, <3>1
    <3>3. rows' = rows /\ rows \subseteq Row /\ balance' = balance
      BY <3>1 DEF OpenRows, InScope, vars
    <3>4. stored' = [row \in rows |-> balance[row]]'
      BY <3>1, <3>3
    <3>5. BooksTypeOK'
      BY <1>0, <3>1, <3>2, <3>3, ScanLeavesBooks DEF BooksTypeOK
    <3>6. ScanOK'
      BY <1>0, <3>1, <3>2, <3>4, ScanLeavesBooks DEF ScanOK
    <3> QED
      BY <3>2, <3>5, <3>6, ScanLeavesBooks DEF BInv
  <2> QED
    BY <2>1, <2>2
<1>6. CASE ReadComputed
  <2> DEFINE D == {x \in Row : InScope(x)}
             O == {x \in OpenRows : InScope(x)}
  <2>1. /\ vpc = "computed" /\ vpc' = "trial"
        /\ computed' = [row \in D |-> EntrySum(row)]
        /\ UNCHANGED <<vars, scope, stored, report, overlap, tamperVars>>
    BY <1>6 DEF ReadComputed
  <2>2. ScanFrame
    BY <1>3, <2>1
  <2>3. D' = D /\ D \subseteq Row /\ O' = O
    BY <2>1 DEF InScope, OpenRows, vars
  <2>4. \A row \in Row : EntrySum(row)' = EntrySum(row)
    BY <2>2, ScanLeavesBooks, EntrySumFrame
  <2>5. computed' = [row \in D |-> EntrySum(row)]'
    <3> HIDE DEF D
    <3> QED
      BY <2>1, <2>3, <2>4
  <2>6. BooksTypeOK'
    BY <1>0, <2>1, <2>2, <2>3, ScanLeavesBooks DEF BooksTypeOK
  <2>7. overlap' = "nothing" => stored' = [row \in O |-> balance[row]]'
    <3>1. overlap = "nothing" => stored = [row \in O |-> balance[row]]
      BY <1>0, <2>1 DEF ScanOK
    <3>2. balance' = balance
      BY <2>2, ScanLeavesBooks
    <3> HIDE DEF O
    <3> QED
      BY <2>1, <2>3, <3>1, <3>2
  <2>8. ScanOK'
    BY <1>0, <2>1, <2>2, <2>5, <2>7, ScanLeavesBooks DEF ScanOK
  <2> QED
    BY <2>2, <2>6, <2>8, ScanLeavesBooks DEF BInv
<1>7. CASE ReadTrialBalance
  <2>1. PICK v : /\ VerifyEnd(v) /\ v.verdict \in {"YES", "NO"}
                 /\ v.drifted = Drifted(DOMAIN stored, stored, computed)
    BY <1>7 DEF ReadTrialBalance
  <2>2. v.drifted \subseteq Row
    BY <1>0, <2>1 DEF Drifted, BooksTypeOK
  <2> QED
    BY <2>1, <2>2, EndKeepsBInv
<1>8. CASE VerifyFails
  BY <1>1, <1>8 DEF VerifyFails
<1> QED
  BY <1>2, <1>4, <1>5, <1>6, <1>7, <1>8 DEF Scan

-----------------------------------------------------------------------------
(* An out-of-band alteration.                                              *)

\* The write path survives an alteration of balances nobody has locked.
LEMMA AlterKeepsCore ==
  ASSUME CoreInv, NEW rows \in SUBSET OpenRows, \A row \in rows : rowLock[row] = None,
         balance' \in [Row -> Word], \A x \in Row \ rows : balance'[x] = balance[x],
         UNCHANGED <<kind, posted, claims, rowLock, keyLock, free, cmd, pc, conns, snap, answer>>
  PROVE  CoreInv'
<1>0. /\ balance \in [Row -> Word]
      /\ \A x \in Row : rowLock[x] \in Request => balance'[x] = balance[x]
  BY LedgerAssumption DEF CoreInv, TypeOK
<1>1. TypeOK' /\ PhaseOK' /\ KeysOK' /\ NestedOK' /\ KeyedExactlyOnce' /\ LoserFindsWinner'
  <2>1. TypeOK'
    BY DEF CoreInv, TypeOK
  <2>2. PhaseOK' /\ KeysOK' /\ NestedOK' /\ KeyedExactlyOnce' /\ LoserFindsWinner'
    BY DEF CoreInv, PhaseOK, KeysOK, NestedOK, KeyedExactlyOnce, LoserFindsWinner
  <2> QED
    BY <2>1, <2>2
<1>2. AbsentIsZero'
  BY <1>0 DEF CoreInv, AbsentIsZero, TypeOK, OpenRows
<1>3. ASSUME NEW r \in Request, cmd[r] \in TransferCommand, NEW id \in AccountId, Held(r, id)
      PROVE  Held(r, id)' /\ (snap[r][id].kind # "absent" =>
                                balance'[<<cmd[r].tenant, id>>] = balance[<<cmd[r].tenant, id>>])
  <2>1. <<cmd[r].tenant, id>> \in Row
    BY <1>3, TransferFields DEF Row
  <2> QED
    BY <1>0, <1>3, <2>1 DEF Held
<1>4. ASSUME NEW r \in Request, cmd[r] \in TransferCommand, Decided(r) PROVE Decided(r)'
  <2>1. cmd[r].from \in AccountId /\ cmd[r].to \in AccountId
    BY <1>4, TransferFields
  <2>2. /\ Held(r, cmd[r].from) /\ Held(r, cmd[r].to)
        /\ Post(cmd[r], snap[r]) = "posted" /\ DeltasFit(cmd[r], balance)
    BY <1>4 DEF Decided
  <2>3. snap[r][cmd[r].from].kind # "absent" /\ snap[r][cmd[r].to].kind # "absent"
    BY <1>4, <2>2, PostedMeansPresent
  <2>4. /\ Held(r, cmd[r].from)' /\ Held(r, cmd[r].to)'
        /\ balance'[<<cmd[r].tenant, cmd[r].from>>] = balance[<<cmd[r].tenant, cmd[r].from>>]
        /\ balance'[<<cmd[r].tenant, cmd[r].to>>] = balance[<<cmd[r].tenant, cmd[r].to>>]
    BY <1>3, <1>4, <2>1, <2>2, <2>3
  <2>5. balance' \in [Row -> Word]
    BY <1>1 DEF TypeOK
  <2>6. DeltasFit(cmd[r], balance')
    BY <1>0, <1>4, <2>2, <2>4, <2>5, DeltasFitRows
  <2> QED
    BY <2>2, <2>4, <2>6 DEF Decided
<1>5. LocksOK'
  <2> SUFFICES ASSUME NEW r \in Request
               PROVE  /\ pc[r] = "lockHigh" => Held(r, Low(cmd[r]))'
                      /\ pc[r] = "decide" => Held(r, cmd[r].from)' /\ Held(r, cmd[r].to)'
                      /\ pc[r] = "claim" => Decided(r)'
                      /\ pc[r] = "commit" /\ cmd[r].op = "transfer" => Decided(r)'
                      /\ pc[r] = "commit" /\ cmd[r].op = "open" =>
                           /\ rowLock[<<cmd[r].tenant, cmd[r].id>>] = r
                           /\ kind[<<cmd[r].tenant, cmd[r].id>>] = "absent"
    BY DEF LocksOK
  <2>1. pc[r] \in {"lockHigh", "decide", "claim"} \/ (pc[r] = "commit" /\ cmd[r].op = "transfer")
          => /\ cmd[r] \in TransferCommand
             /\ cmd[r].from \in AccountId /\ cmd[r].to \in AccountId /\ Low(cmd[r]) \in AccountId
    BY CommandKinds, TransferFields DEF CoreInv, PhaseOK, TransferPhase
  <2> QED
    BY <1>3, <1>4, <2>1 DEF CoreInv, LocksOK
<1> QED
  BY <1>1, <1>2, <1>5 DEF CoreInv

\* The third disjunct of BooksNext.
TamperStep ==
  /\ Tamper
  /\ UNCHANGED <<vpc, scope, stored, computed, report>>
  /\ overlap' = IF Scanning THEN "tampering" ELSE overlap

\* Nothing is promised of the altered row, and the rest goes on as before.
LEMMA TamperKeepsBInv == ASSUME BInv, TamperStep PROVE BInv'
<1>0. /\ CoreInv /\ SnapsLegal /\ ScanOK /\ BooksTypeOK /\ IsFiniteSet(posted)
  BY DEF BInv
<1>1. /\ vpc' = vpc /\ scope' = scope /\ stored' = stored /\ computed' = computed
      /\ report' = report /\ tampers < MaxTampers /\ tampers' = tampers + 1
      /\ UNCHANGED <<rowLock, keyLock, free, cmd, pc, conns, snap, answer>>
      /\ overlap' = IF Scanning THEN "tampering" ELSE overlap
  BY DEF TamperStep, Tamper
<1>2. tampers \in Nat /\ MaxTampers \in Nat
  BY <1>0, BooksAssumption DEF BooksTypeOK
<1>3. tampers' \in 0 .. MaxTampers /\ tampers' > 0 /\ tampers' # 0
  BY <1>1, <1>2
<1>4. CoreInv' /\ posted' = posted /\ edits' \in [Row -> Int]
  <2>1. \/ \E rows \in SUBSET OpenRows, delta \in AlterDelta : AlterStoredBalance(rows, delta)
        \/ \E row \in Row : \/ \E delta \in AlterDelta : AlterEntry(row, delta)
                           \/ EraseEntry(row)
    BY DEF TamperStep, Tamper, SameName
  <2>2. ASSUME NEW rows \in SUBSET OpenRows, NEW delta \in AlterDelta,
               AlterStoredBalance(rows, delta)
        PROVE  CoreInv' /\ posted' = posted /\ edits' \in [Row -> Int]
    <3>1. /\ \A row \in rows : rowLock[row] = None /\ balance[row] + delta \in Word
          /\ balance' = [row \in Row |-> IF row \in rows THEN balance[row] + delta ELSE balance[row]]
          /\ UNCHANGED <<kind, posted, claims, edits>>
      BY <2>2 DEF AlterStoredBalance
    <3>2. balance' \in [Row -> Word] /\ \A x \in Row \ rows : balance'[x] = balance[x]
      BY <1>0, <3>1 DEF CoreInv, TypeOK
    <3>3. CoreInv'
      BY <1>0, <1>1, <3>1, <3>2, AlterKeepsCore
    <3> QED
      BY <1>0, <3>1, <3>3 DEF BooksTypeOK
  <2>3. ASSUME UNCHANGED dbVars PROVE CoreInv' /\ posted' = posted
    <3>1. UNCHANGED vars
      BY <1>1, <2>3 DEF vars, dbVars
    <3> QED
      BY <1>0, <2>3, <3>1, CoreStep DEF dbVars
  <2>4. ASSUME NEW row \in Row, NEW delta \in AlterDelta, AlterEntry(row, delta)
        PROVE  CoreInv' /\ posted' = posted /\ edits' \in [Row -> Int]
    <3>1. edits' \in [Row -> Int]
      BY <1>0, <2>4, BooksAssumption DEF AlterEntry, BooksTypeOK
    <3> QED
      BY <2>3, <2>4, <3>1 DEF AlterEntry
  <2>5. ASSUME NEW row \in Row, EraseEntry(row)
        PROVE  CoreInv' /\ posted' = posted /\ edits' \in [Row -> Int]
    <3>1. PICK r \in posted : edits' = [edits EXCEPT ![row] = @ - EntryAmount(r, row)]
      BY <2>5 DEF EraseEntry
    <3>2. EntryAmount(r, row) \in Int
      BY <1>0, EntryAmounts DEF CoreInv, PhaseOK, TypeOK
    <3>3. edits' \in [Row -> Int]
      BY <1>0, <3>1, <3>2 DEF BooksTypeOK
    <3> QED
      BY <2>3, <2>5, <3>3 DEF EraseEntry
  <2> QED
    BY <2>1, <2>2, <2>4, <2>5
<1>5. TypeOK' /\ IsFiniteSet(posted')
  BY <1>0, <1>4 DEF CoreInv
<1>6. SnapsLegal'
  BY <1>0, <1>1 DEF SnapsLegal
<1>7. BooksTypeOK'
  BY <1>0, <1>1, <1>3, <1>4, <1>5 DEF BooksTypeOK
<1>8. ScanOK'
  BY <1>0, <1>1, <1>3 DEF ScanOK, Scanning
<1> QED
  BY <1>3, <1>4, <1>5, <1>6, <1>7, <1>8 DEF BInv

-----------------------------------------------------------------------------
(* The invariant, and what follows from it.                                *)

\* Nothing is posted, so the sums are the initial balances.
LEMMA InitBInv == BooksInit => BInv
<1> SUFFICES ASSUME BooksInit PROVE BInv
  OBVIOUS
<1>1. CoreInv /\ WalletsNeverNegative
  BY InitIInv DEF BooksInit, IInv
<1>2. /\ posted = {} /\ snap = [r \in Request |-> [id \in AccountId |-> Unread]]
      /\ balance = InitBalance /\ edits = [row \in Row |-> 0] /\ tampers = 0
      /\ vpc = "idle" /\ report = NoReport /\ scope = AllTenants /\ overlap = "nothing"
      /\ stored = [row \in {} |-> 0] /\ computed = [row \in {} |-> 0]
  BY DEF BooksInit, Init
<1>3. BooksTypeOK
  <2>1. DOMAIN stored = {} /\ DOMAIN computed = {}
    BY <1>2
  <2>2. tampers \in 0 .. MaxTampers
    BY <1>2, BooksAssumption
  <2> QED
    BY <1>1, <1>2, <2>1, <2>2 DEF BooksTypeOK, CoreInv, NoReport
<1>4. IsFiniteSet(posted)
  BY <1>2, FS_EmptySet
<1>5. SnapsLegal
  BY <1>2 DEF SnapsLegal, Unread
<1>6. ScanOK
  BY <1>2 DEF ScanOK, NoReport
<1>7. ASSUME NEW row \in Row PROVE edits[row] = 0 /\ balance[row] = EntrySum(row)
  <2> DEFINE f == [r \in posted |-> EntryAmount(r, row)]
             g == [s \in SUBSET {} |-> 0]
  <2>1. f \in [{} -> Int] /\ SumsUp(g, f, {}) /\ g[{}] = 0 /\ DOMAIN f = {}
    BY <1>2 DEF SumsUp
  <2>2. EntrySum(row) = InitBalance[row] + edits[row] + SumFunction(f)
    BY DEF EntrySum
  <2> HIDE DEF f, g
  <2>3. SumFunctionOnSet(f, {}) = 0
    BY <2>1, SumIs, FS_EmptySet
  <2>4. SumFunction(f) = 0
    BY <2>1, <2>3 DEF SumFunction
  <2>5. InitBalance[row] \in Int /\ edits[row] = 0 /\ balance[row] = InitBalance[row]
    BY <1>2, LedgerAssumption DEF Word
  <2> QED
    BY <2>2, <2>4, <2>5
<1> QED
  BY <1>1, <1>3, <1>4, <1>5, <1>6, <1>7 DEF BInv, Tied

\* Every step of the books keeps the invariant.
LEMMA BInvStep == BInv /\ [BooksNext]_bookVars => BInv'
<1> SUFFICES ASSUME BInv, [BooksNext]_bookVars PROVE BInv'
  OBVIOUS
<1>1. CASE UNCHANGED bookVars
  <2>1. UNCHANGED vars /\ UNCHANGED scanVars /\ UNCHANGED tamperVars
    BY <1>1 DEF bookVars
  <2>2. ScanFrame
    BY <2>1 DEF vars, dbVars, ScanFrame, BInv, CoreInv, TypeOK
  <2>3. /\ vpc' = vpc /\ scope' = scope /\ stored' = stored /\ computed' = computed
        /\ report' = report /\ overlap' = overlap
    BY <2>1 DEF scanVars
  <2>4. BooksTypeOK'
    BY <2>2, <2>3, ScanLeavesBooks DEF BInv, BooksTypeOK
  <2> DEFINE D == {x \in Row : InScope(x)}
             O == {x \in OpenRows : InScope(x)}
  <2>5. kind' = kind /\ balance' = balance /\ posted' = posted /\ cmd' = cmd
        /\ edits' = edits /\ tampers' = tampers
    BY <2>2, ScanLeavesBooks
  <2>6. D' = D /\ O' = O /\ D \subseteq Row
    BY <2>3, <2>5 DEF InScope, OpenRows
  <2>7. \A row \in Row : EntrySum(row)' = EntrySum(row)
    BY <2>5, EntrySumFrame
  <2>8. /\ [row \in D |-> EntrySum(row)]' = [row \in D |-> EntrySum(row)]
        /\ [row \in O |-> balance[row]]' = [row \in O |-> balance[row]]
    <3> HIDE DEF D, O
    <3> QED
      BY <2>5, <2>6, <2>7
  <2>9. ScanOK'
    BY <2>3, <2>5, <2>8 DEF BInv, ScanOK
  <2> QED
    BY <2>2, <2>4, <2>9, ScanLeavesBooks DEF BInv
<1>2. CASE WriteStep
  BY <1>2, WriteKeepsBInv
<1>3. CASE Scan
  BY <1>3, ScanKeepsBInv
<1>4. CASE TamperStep
  BY <1>4, TamperKeepsBInv
<1> QED
  BY <1>1, <1>2, <1>3, <1>4 DEF BooksNext, WriteStep, TamperStep

\* The inductive invariant of the books.
THEOREM BooksInductive == BooksSpec => []BInv
<1>1. BInv /\ [BooksNext]_bookVars => BInv'
  BY BInvStep
<1> QED
  BY InitBInv, <1>1, PTL DEF BooksSpec

\* Types, for any instance; a verdict has one of the answers verdictHandler
\* can give (handlers.go).
THEOREM BooksTypesCorrect == BooksSpec => []BooksTypeOK
<1>1. BInv => BooksTypeOK
  BY DEF BInv
<1> QED
  BY BooksInductive, <1>1, PTL

\* I3: whatever postings, openings, failures and verifications interleave,
\* every stored balance is the sum of the account's entries until someone
\* reaches past the ledger.
THEOREM BooksAlwaysTie == BooksSpec => []BooksTie
<1>1. BInv => BooksTie
  BY DEF BInv, BooksTie, Tied, ActualDrift, OpenRows
<1> QED
  BY BooksInductive, <1>1, PTL

\* A verdict comes from ReadTrialBalance alone, and with nothing committed
\* since its first read it compares what is there now.
LEMMA VerdictStep ==
  ASSUME BInv, [BooksNext]_bookVars, vpc = "trial", overlap = "nothing",
         report'.verdict \in {"YES", "NO"}
  PROVE  /\ report'.drifted = {row \in ActualDrift : InScope(row)}
         /\ report'.verdict = "NO" <=> report'.drifted # {}
<1>0. report.verdict = "none"
  BY DEF BInv, ScanOK, NoReport
<1>1. report' # report
  BY <1>0
<1>2. Scan
  BY <1>1 DEF BooksNext, bookVars, scanVars
<1>3. ~VerifyFails
  BY DEF VerifyFails, VerifyEnd, NoReport
<1>4. ReadTrialBalance
  BY <1>2, <1>3 DEF Scan, VerifyBegin, VerifyTenant, ReadAccounts, ReadComputed
<1> DEFINE d == Drifted(DOMAIN stored, stored, computed)
<1>5. report'.drifted = d /\ report'.verdict = IF d = {} THEN "YES" ELSE "NO"
  BY <1>4 DEF ReadTrialBalance, VerifyEnd
<1>6. d = {row \in ActualDrift : InScope(row)}
  <2> DEFINE O == {x \in OpenRows : InScope(x)}
             D == {x \in Row : InScope(x)}
  <2>1. stored = [row \in O |-> balance[row]] /\ computed = [row \in D |-> EntrySum(row)]
    BY DEF BInv, ScanOK
  <2>2. O \subseteq D
    BY DEF OpenRows
  <2>3. {row \in ActualDrift : InScope(row)} = {row \in O : balance[row] # EntrySum(row)}
    BY DEF ActualDrift
  <2> HIDE DEF O, D
  <2>4. DOMAIN stored = O /\ \A row \in O : stored[row] = balance[row] /\ computed[row] = EntrySum(row)
    BY <2>1, <2>2
  <2> QED
    BY <2>3, <2>4 DEF Drifted
<1> HIDE DEF d
<1> QED
  BY <1>5, <1>6

\* For any books, scope and history of alterations: a verdict during which
\* nothing was committed names exactly the accounts that have drifted.
THEOREM VerdictIsExact == BooksSpec => QuietVerdictExact
<1>1. BInv /\ [BooksNext]_bookVars =>
        [vpc = "trial" /\ report'.verdict \in {"YES", "NO"} /\ overlap = "nothing"
           => /\ report'.drifted = {row \in ActualDrift : InScope(row)}
              /\ report'.verdict = "NO" <=> report'.drifted # {}]_bookVars
  BY VerdictStep
<1> QED
  BY BooksInductive, <1>1, PTL DEF BooksSpec, QuietVerdictExact

\* The write path does not move a wallet below zero: no snapshot of it can be
\* built, and what a snapshot was taken of is locked and still the row.
LEMMA MoveLeavesOverdrawn ==
  ASSUME BInv, NEW r \in Request, Move(r),
         NEW row \in Row, kind[row] = "wallet", balance[row] < 0
  PROVE  balance'[row] = balance[row]
<1>0. CoreInv /\ SnapsLegal /\ balance \in [Row -> Word]
  BY DEF BInv, CoreInv, TypeOK
<1>1. CASE UNCHANGED dbVars
  BY <1>1 DEF dbVars
<1>2. CASE pc[r] = "commit" /\ MakeDurable(r) /\ cmd[r].op = "open"
  <2>1. row # <<cmd[r].tenant, cmd[r].id>>
    BY <1>0, <1>2 DEF CoreInv, LocksOK
  <2> QED
    BY <1>0, <1>2, <2>1 DEF MakeDurable
<1>3. CASE pc[r] = "commit" /\ MakeDurable(r) /\ cmd[r].op = "transfer"
  <2>1. cmd[r] \in TransferCommand /\ Decided(r)
    BY <1>0, <1>3, CommandKinds DEF CoreInv, PhaseOK, LocksOK
  <2>2. /\ Held(r, cmd[r].from) /\ Held(r, cmd[r].to)
        /\ snap[r][cmd[r].from].kind # "absent" /\ snap[r][cmd[r].to].kind # "absent"
        /\ cmd[r].from \in AccountId /\ cmd[r].to \in AccountId
    BY <2>1, PostedMeansPresent, TransferFields DEF Decided
  <2>3. ASSUME NEW id \in AccountId, Held(r, id), snap[r][id].kind # "absent"
        PROVE  row # <<cmd[r].tenant, id>>
    <3>1. snap[r][id].kind = "wallet" => snap[r][id].balance >= 0
      BY <1>0 DEF SnapsLegal
    <3>2. balance[row] \in Int /\ ~(balance[row] >= 0)
      BY <1>0, LedgerAssumption DEF Word
    <3> QED
      BY <2>3, <3>1, <3>2 DEF Held
  <2>4. row # <<cmd[r].tenant, cmd[r].from>> /\ row # <<cmd[r].tenant, cmd[r].to>>
    BY <2>2, <2>3
  <2> QED
    BY <1>0, <1>3, <2>4 DEF MakeDurable, Credited, Debited
<1>4. pc[r] = "commit" => cmd[r].op \in {"transfer", "open"}
  BY <1>0, CommandKinds DEF CoreInv, PhaseOK
<1> QED
  BY <1>0, <1>1, <1>2, <1>3, <1>4, BooksFrame

\* A wallet altered to below zero keeps its balance until it is altered again,
\* whatever was under way when it was; and only after an alteration is a
\* verification refused on one.
THEOREM AlterationStaysVisible == BooksSpec => AlteredWalletFrozen
<1>1. ASSUME BInv, BInv', [BooksNext]_bookVars, tampers' = tampers
      PROVE  /\ \A row \in Row : kind[row] = "wallet" /\ balance[row] < 0 => balance'[row] = balance[row]
             /\ report'.verdict = "insufficient_funds" => tampers > 0
  <2>1. report'.verdict = "insufficient_funds" => tampers > 0
    BY <1>1 DEF BInv, ScanOK
  <2>2. ASSUME NEW row \in Row, kind[row] = "wallet", balance[row] < 0
        PROVE  balance'[row] = balance[row]
    <3>1. CASE UNCHANGED bookVars
      BY <3>1 DEF bookVars, vars
    <3>2. CASE Next
      <4>1. CASE UNCHANGED vars
        BY <4>1 DEF vars
      <4>2. CASE \E r \in Request : Move(r)
        BY <1>1, <2>2, <4>2, MoveLeavesOverdrawn
      <4> QED
        BY <3>2, <4>1, <4>2 DEF Next, Move
    <3>3. CASE Scan
      BY <3>3 DEF Scan, VerifyBegin, VerifyTenant, ReadAccounts, ReadComputed,
                  ReadTrialBalance, VerifyFails, VerifyEnd, vars, dbVars
    <3>4. ~Tamper
      <4>1. tampers \in Nat
        BY <1>1, BooksAssumption DEF BInv, BooksTypeOK
      <4>2. tampers + 1 # tampers
        BY <4>1
      <4> QED
        BY <1>1, <4>2 DEF Tamper
    <3> QED
      BY <1>1, <3>1, <3>2, <3>3, <3>4 DEF BooksNext
  <2> QED
    BY <2>1, <2>2
<1>2. BInv /\ BInv' /\ [BooksNext]_bookVars =>
        [tampers' = tampers =>
           /\ \A row \in Row : kind[row] = "wallet" /\ balance[row] < 0 => balance'[row] = balance[row]
           /\ report'.verdict = "insufficient_funds" => tampers > 0]_bookVars
  BY <1>1
<1> QED
  BY BooksInductive, <1>2, PTL DEF BooksSpec, AlteredWalletFrozen
=============================================================================
