---------------------------- MODULE AtomicProofs ----------------------------
(***************************************************************************)
(* Proofs that Ledger keeps its promise to its callers: every answer is    *)
(* true of the books, and the requests take effect one at a time, as in    *)
(* AtomicLedger.  They rest on IInv of LedgerProofs and on AInv below.     *)
(***************************************************************************)
EXTENDS LedgerProofs

\* What the caller of r is told is what the books say.
TellsTruth(r) ==
  LET a == answer[r]
  IN  /\ a.outcome = "posted" => r \in posted
      /\ a.outcome = "replayed" =>
           /\ a.txn \in posted \ {r}
           /\ cmd[a.txn].key = cmd[r].key
           /\ cmd[a.txn].tenant = cmd[r].tenant
           /\ Fingerprint(cmd[a.txn]) = Fingerprint(cmd[r])
      /\ a.outcome \in Refusal \cup {"replayed"} => r \notin posted
      /\ a.outcome = "idempotency_key_conflict" =>
           /\ r \notin posted
           /\ \E w \in posted : /\ cmd[w].key = cmd[r].key
                                /\ Fingerprint(cmd[w]) # Fingerprint(cmd[r])

\* A request that is still running has been given no answer, and one about to
\* render a replay has compared the bodies.
PendingOK(r) ==
  /\ pc[r] # "done" => answer[r] = NoAnswer
  /\ pc[r] = "render" => Fingerprint(cmd[claims[cmd[r].key]]) = Fingerprint(cmd[r])

\* r has asked for no row yet.
AskedNothing(r) ==
  \/ pc[r] \in {"idle", "lockLow"}
  \/ pc[r] = "begin" /\ conns[r] = 0
  \/ pc[r] = "lookup" /\ conns[r] = 1

\* Until LockForUpdate has read an account, r has not found it missing: the
\* nested call of a claim's loser, which would read it again, never does.
FreshOK(r) ==
  /\ AskedNothing(r) => \A id \in AccountId : snap[r][id].kind # "absent"
  /\ pc[r] = "lockHigh" =>
       /\ Low(cmd[r]) # High(cmd[r])
       /\ \A id \in AccountId \ {Low(cmd[r])} : snap[r][id].kind # "absent"

AInv == \A r \in Request : TellsTruth(r) /\ PendingOK(r) /\ FreshOK(r)

-----------------------------------------------------------------------------
\* A step of r answers r, or nobody; it answers r only when r ends.
LEMMA AnswerFrame ==
  ASSUME CoreInv, NEW r \in Request, Move(r)
  PROVE  /\ \A q \in Request \ {r} : answer'[q] = answer[q]
         /\ pc'[r] # "done" => answer'[r] = answer[r]
<1> DEFINE P == /\ \A q \in Request \ {r} : answer'[q] = answer[q]
                /\ pc'[r] # "done" => answer'[r] = answer[r]
<1> USE DEF CoreInv, TypeOK
<1>1. ASSUME NEW o, NEW t, Finish(r, o, t) PROVE P
  BY <1>1 DEF Finish, Goto
<1>2. CASE answer' = answer
  BY <1>2
<1>3. answer' = answer \/ \E o, t : Finish(r, o, t)
  <2>1. CASE LockLow(r) \/ LockHigh(r)
    BY <2>1 DEF LockLow, LockHigh, RejectRow
  <2>2. CASE (\E c \in Command : Submit(r, c)) \/ Begin(r) \/ Claim(r)
    BY <2>2 DEF Submit, Begin, Claim
  <2>3. CASE Lookup(r) \/ Render(r) \/ Decide(r)
    BY <2>3 DEF Lookup, Render, Decide
  <2>4. CASE Check(r) \/ Insert(r) \/ Commit(r) \/ CommitUnheard(r) \/ Abort(r)
    BY <2>4 DEF Check, Insert, Commit, CommitUnheard, Abort
  <2> QED
    BY <2>1, <2>2, <2>3, <2>4 DEF Move, Step
<1>4. P
  BY <1>1, <1>2, <1>3
<1> QED
  BY <1>4

\* A committed claim names a posted transaction of that key.
LEMMA ClaimNamesPosting ==
  ASSUME CoreInv, NEW k \in Key, claims[k] # None
  PROVE  claims[k] \in posted /\ cmd[claims[k]].key = k
BY DEF CoreInv, KeyedExactlyOnce

\* What another request was told stays true.
LEMMA OthersTruth ==
  ASSUME CoreInv, AInv, NEW r \in Request, Move(r), NEW q \in Request \ {r}
  PROVE  TellsTruth(q)'
<1>1. /\ answer'[q] = answer[q] /\ cmd'[q] = cmd[q] /\ TellsTruth(q)
  BY AnswerFrame, OthersUntouched DEF AInv
<1>2. /\ posted \subseteq posted' /\ (q \in posted' => q \in posted)
      /\ \A w \in posted : cmd'[w] = cmd[w]
  BY BooksFrame, Moving
<1> QED
  BY <1>1, <1>2 DEF TellsTruth, Fingerprint

\* What r is told when it ends is true.
LEMMA OwnTruth ==
  ASSUME CoreInv, TypeOK', AInv, NEW r \in Request, Move(r)
  PROVE  TellsTruth(r)'
<1>0. /\ r \notin posted /\ pc[r] # "done" /\ answer[r] = NoAnswer
      /\ answer \in [Request -> Answer]
  BY Moving DEF AInv, PendingOK, CoreInv, TypeOK
<1>1. CASE answer'[r].outcome \notin Refusal \cup {"posted", "replayed", "idempotency_key_conflict"}
  BY <1>1 DEF TellsTruth
<1>2. ASSUME NEW o, NEW t, Finish(r, o, t)
      PROVE  answer'[r].outcome = o /\ answer'[r].txn = t
  BY <1>0, <1>2 DEF Finish
<1>3. ASSUME NEW o \in Refusal, Finish(r, o, None), UNCHANGED dbVars
      PROVE  TellsTruth(r)'
  <2>1. answer'[r].outcome = o
    BY <1>2, <1>3
  <2> QED
    BY <2>1, <1>0, <1>3 DEF TellsTruth, Refusal, dbVars
<1>4. ASSUME answer' = answer PROVE TellsTruth(r)'
  BY <1>0, <1>1, <1>4 DEF NoAnswer, Refusal
<1>5. ASSUME NEW o \in {"internal_error", "opened", "account_already_exists"}, Finish(r, o, None)
      PROVE  TellsTruth(r)'
  <2>1. answer'[r].outcome = o
    BY <1>2, <1>5
  <2> QED
    BY <2>1, <1>1 DEF Refusal
<1>6. CASE Lookup(r)
  <2>1. /\ cmd[r] \in TransferCommand /\ cmd[r].key \in Key
    BY <1>6, TransferFields DEF Lookup, CoreInv, PhaseOK, TransferPhase
  <2>2. CASE Finish(r, "idempotency_key_conflict", None) /\ answer' # answer
    <3> DEFINE w == claims[cmd[r].key]
    <3>1. w # None /\ Fingerprint(cmd[w]) # Fingerprint(cmd[r])
      BY <1>6, <2>2 DEF Lookup
    <3>2. w \in posted /\ cmd[w].key = cmd[r].key
      BY <2>1, <3>1, ClaimNamesPosting
    <3>3. answer'[r].outcome = "idempotency_key_conflict"
      BY <1>2, <2>2
    <3>4. cmd' = cmd /\ posted' = posted
      BY <1>6, <2>2 DEF Lookup, Finish, dbVars
    <3> HIDE DEF w
    <3> QED
      BY <1>0, <3>1, <3>2, <3>3, <3>4 DEF TellsTruth, Refusal
  <2> QED
    BY <1>4, <1>6, <2>2 DEF Lookup
<1>7. CASE Render(r)
  <2> DEFINE w == claims[cmd[r].key]
  <2>1. /\ cmd[r] \in TransferCommand /\ cmd[r].key \in Key
        /\ w # None /\ Fingerprint(cmd[w]) = Fingerprint(cmd[r])
    BY <1>7, TransferFields DEF Render, CoreInv, PhaseOK, TransferPhase, AInv, PendingOK
  <2>2. w \in posted /\ cmd[w].key = cmd[r].key
    BY <2>1, ClaimNamesPosting
  <2>3. CASE cmd[w].tenant = cmd[r].tenant
    <3>1. Finish(r, "replayed", w) /\ cmd' = cmd /\ posted' = posted
      BY <1>7, <2>3 DEF Render, Finish, dbVars
    <3>2. answer'[r].outcome = "replayed" /\ answer'[r].txn = w
      BY <1>2, <3>1
    <3> HIDE DEF w
    <3> QED
      BY <1>0, <2>1, <2>2, <2>3, <3>1, <3>2 DEF TellsTruth, Refusal
  <2>4. CASE cmd[w].tenant # cmd[r].tenant
    BY <1>5, <1>7, <2>4 DEF Render
  <2> QED
    BY <2>3, <2>4
<1>8. CASE LockLow(r) \/ LockHigh(r)
  BY <1>3, <1>4, <1>8 DEF LockLow, LockHigh, RejectRow, Refusal
<1>9. CASE Decide(r)
  <2>1. Post(cmd[r], snap[r]) # "posted" => Post(cmd[r], snap[r]) \in Refusal
    BY DEF Post, Refusal
  <2> QED
    BY <1>3, <1>4, <1>5, <1>9, <2>1 DEF Decide
<1>10. CASE Commit(r)
  <2>1. CASE cmd[r].op = "transfer"
    <3>1. r \in posted' /\ Finish(r, "posted", r)
      BY <1>10, <2>1 DEF Commit, MakeDurable
    <3>2. answer'[r].outcome = "posted"
      BY <1>2, <3>1
    <3> QED
      BY <3>1, <3>2 DEF TellsTruth, Refusal
  <2>2. CASE cmd[r].op # "transfer"
    BY <1>5, <1>10, <2>2 DEF Commit
  <2> QED
    BY <2>1, <2>2
<1>11. CASE Check(r) \/ Insert(r)
  BY <1>3, <1>4, <1>5, <1>11 DEF Check, Insert, Refusal
<1>12. CASE CommitUnheard(r) \/ Abort(r)
  BY <1>5, <1>12 DEF CommitUnheard, Abort
<1>13. CASE (\E c \in Command : Submit(r, c)) \/ Begin(r) \/ Claim(r)
  BY <1>4, <1>13 DEF Submit, Begin, Claim
<1> QED
  BY <1>6, <1>7, <1>8, <1>9, <1>10, <1>11, <1>12, <1>13 DEF Move, Step

\* No answer before the end, and no replay of another body.
LEMMA PendingStep ==
  ASSUME CoreInv, TypeOK', AInv, NEW r \in Request, Move(r), NEW q \in Request
  PROVE  PendingOK(q)'
<1>0. PendingOK(q)
  BY DEF AInv
<1>1. CASE q # r
  <2>1. pc'[q] = pc[q] /\ cmd'[q] = cmd[q] /\ answer'[q] = answer[q]
    BY <1>1, OthersUntouched, AnswerFrame
  <2>2. ASSUME pc[q] = "render"
        PROVE  /\ claims'[cmd[q].key] = claims[cmd[q].key]
               /\ cmd'[claims[cmd[q].key]] = cmd[claims[cmd[q].key]]
    <3>1. cmd[q].key \in Key /\ claims[cmd[q].key] # None
      BY <2>2, TransferFields DEF CoreInv, PhaseOK, TransferPhase
    <3> QED
      BY <3>1, ClaimNamesPosting, BooksFrame, Moving
  <2> QED
    BY <1>0, <2>1, <2>2 DEF PendingOK, Fingerprint
<1>2. CASE q = r
  <2>1. pc'[r] # "done" => answer'[r] = NoAnswer
    BY <1>0, <1>2, Moving, AnswerFrame DEF PendingOK
  <2>2. ASSUME pc'[r] = "render"
        PROVE  (Fingerprint(cmd[claims[cmd[r].key]]) = Fingerprint(cmd[r]))'
    <3>1. Lookup(r)
      <4>1. CASE LockLow(r) \/ LockHigh(r)
        BY <2>2, <4>1 DEF LockLow, LockHigh, RejectRow, Finish, Goto, CoreInv, TypeOK
      <4>2. CASE ~(LockLow(r) \/ LockHigh(r))
        BY <2>2, <4>2 DEF Move, Step, Submit, Begin, Render, Decide, Claim, Insert,
                   Check, Commit, CommitUnheard, Abort, Finish, Goto, CoreInv, TypeOK
      <4> QED
        BY <4>1, <4>2
    <3> QED
      BY <2>2, <3>1 DEF Lookup, Finish, Goto, dbVars, CoreInv, TypeOK
  <2> QED
    BY <1>2, <2>1, <2>2 DEF PendingOK
<1> QED
  BY <1>1, <1>2

\* Only a first call asks for rows, each of them once.
LEMMA FreshStep ==
  ASSUME CoreInv, TypeOK', AInv, NEW r \in Request, Move(r), NEW q \in Request
  PROVE  FreshOK(q)'
<1>0. FreshOK(q)
  BY DEF AInv
<1>1. CASE q # r
  <2>1. pc'[q] = pc[q] /\ cmd'[q] = cmd[q] /\ conns'[q] = conns[q] /\ snap'[q] = snap[q]
    BY <1>1, OthersUntouched
  <2> QED
    BY <1>0, <2>1 DEF FreshOK, AskedNothing
<1>2. CASE q = r
  <2> USE <1>2
  <2>0. /\ conns[r] \in Nat /\ pc \in [Request -> Phase] /\ conns \in [Request -> Nat]
        /\ snap \in [Request -> [AccountId -> Snapshot]]
        /\ pc[r] \notin {"idle", "begin", "done"} => conns[r] # 0
        /\ pc[r] = "idle" => conns[r] = 0
    BY DEF CoreInv, TypeOK, NestedOK
  <2>1. ASSUME pc'[r] \notin {"idle", "begin", "lookup", "lockLow", "lockHigh"}
        PROVE  FreshOK(r)'
    BY <2>1 DEF FreshOK, AskedNothing
  <2>2. ASSUME NEW o, NEW t, Finish(r, o, t) PROVE FreshOK(r)'
    BY <2>0, <2>1, <2>2 DEF Finish, Goto
  <2>3. CASE \E c \in Command : Submit(r, c)
    <3>1. /\ pc[r] = "idle" /\ pc'[r] = "begin" /\ snap' = snap
      BY <2>0, <2>3 DEF Submit, Goto
    <3> QED
      BY <1>0, <3>1 DEF FreshOK, AskedNothing
  <2>4. CASE Begin(r)
    <3>1. /\ pc[r] = "begin" /\ pc'[r] \in {"check", "lookup"} /\ snap' = snap
          /\ conns'[r] = conns[r] + 1
      BY <2>0, <2>4 DEF Begin, Goto
    <3>2. \A n \in Nat : n + 1 = 1 => n = 0
      OBVIOUS
    <3>3. conns'[r] = 1 => conns[r] = 0
      BY <2>0, <3>1, <3>2
    <3> QED
      BY <1>0, <3>1, <3>3 DEF FreshOK, AskedNothing
  <2>5. CASE Lookup(r)
    <3>1. CASE pc'[r] = "lockLow"
      <4>1. claims[cmd[r].key] = None /\ pc[r] = "lookup" /\ snap' = snap
        BY <2>0, <2>5, <3>1 DEF Lookup, Finish, Goto
      <4>2. conns[r] = 1
        <5>1. ~(conns[r] > 1)
          BY <4>1 DEF CoreInv, LoserFindsWinner
        <5>2. conns[r] # 0
          BY <2>0, <4>1
        <5> QED
          BY <2>0, <5>1, <5>2, OneOrMore
      <4> QED
        BY <1>0, <3>1, <4>1, <4>2 DEF FreshOK, AskedNothing
    <3>2. CASE pc'[r] # "lockLow"
      <4>1. pc'[r] \in {"done", "render"}
        BY <2>0, <2>5, <3>2 DEF Lookup, Finish, Goto
      <4> QED
        BY <2>1, <4>1
    <3> QED
      BY <3>1, <3>2
  <2>6. CASE LockLow(r)
    <3>1. cmd[r] \in TransferCommand /\ Low(cmd[r]) \in AccountId /\ pc[r] = "lockLow"
      BY <2>6, TransferFields DEF LockLow, CoreInv, PhaseOK, TransferPhase
    <3>2. CASE RejectRow(r, Low(cmd[r]))
      BY <2>2, <3>2 DEF RejectRow
    <3>3. CASE LockOne(r, Low(cmd[r])) /\ ~RejectRow(r, Low(cmd[r]))
      <4>1. /\ pc'[r] = IF Low(cmd[r]) = High(cmd[r]) THEN "decide" ELSE "lockHigh"
            /\ cmd' = cmd
        BY <2>0, <2>6, <3>3 DEF LockLow, Goto
      <4>2. \A other \in AccountId \ {Low(cmd[r])} : snap'[r][other] = snap[r][other]
        BY <3>1, <3>3, LockEffect DEF CoreInv
      <4> QED
        BY <1>0, <3>1, <4>1, <4>2 DEF FreshOK, AskedNothing
    <3> QED
      BY <2>6, <3>2, <3>3 DEF LockLow
  <2>7. CASE LockHigh(r)
    <3>1. CASE RejectRow(r, High(cmd[r]))
      BY <2>2, <3>1 DEF RejectRow
    <3>2. CASE ~RejectRow(r, High(cmd[r]))
      BY <2>0, <2>1, <2>7, <3>2 DEF LockHigh, Goto
    <3> QED
      BY <3>1, <3>2
  <2>8. CASE Claim(r)
    <3>1. /\ pc[r] = "claim" /\ pc'[r] \in {"begin", "commit"}
          /\ conns'[r] = conns[r]
      BY <2>0, <2>8 DEF Claim, Goto
    <3> QED
      BY <2>0, <3>1 DEF FreshOK, AskedNothing
  <2>9. CASE Render(r) \/ Decide(r) \/ Check(r) \/ Insert(r) \/ Commit(r)
             \/ CommitUnheard(r) \/ Abort(r)
    <3>1. pc'[r] \in {"done", "claim", "insert", "commit"}
      BY <2>0, <2>9 DEF Render, Decide, Check, Insert, Commit, CommitUnheard, Abort,
                        Finish, Goto
    <3> QED
      BY <2>1, <3>1
  <2> QED
    BY <2>3, <2>4, <2>5, <2>6, <2>7, <2>8, <2>9 DEF Move, Step
<1> QED
  BY <1>1, <1>2

\* No request has been answered, or has read anything, at the start.
LEMMA InitAInv == Init => AInv
<1> SUFFICES ASSUME Init, NEW r \in Request PROVE TellsTruth(r) /\ PendingOK(r) /\ FreshOK(r)
  BY DEF AInv
<1>1. answer[r] = NoAnswer /\ pc[r] = "idle" /\ snap[r] = [id \in AccountId |-> Unread]
  BY DEF Init
<1> QED
  BY <1>1 DEF TellsTruth, PendingOK, FreshOK, NoAnswer, Refusal, Unread

\* What is added to the invariant is preserved along with it.
LEMMA AInvStep == IInv /\ IInv' /\ AInv /\ [Next]_vars => AInv'
<1> SUFFICES ASSUME CoreInv, CoreInv', AInv, [Next]_vars PROVE AInv'
  BY DEF IInv
<1>1. CASE UNCHANGED vars
  BY <1>1 DEF AInv, vars, TellsTruth, PendingOK, FreshOK, AskedNothing, Fingerprint
<1>2. ASSUME NEW r \in Request, Move(r) PROVE AInv'
  <2>1. TypeOK'
    BY DEF CoreInv
  <2>2. ASSUME NEW q \in Request PROVE TellsTruth(q)' /\ PendingOK(q)' /\ FreshOK(q)'
    BY <1>2, <2>1, OthersTruth, OwnTruth, PendingStep, FreshStep
  <2> QED
    BY <2>2 DEF AInv
<1> QED
  BY <1>1, <1>2 DEF Next, Move

\* IInv and AInv together are inductive.
LEMMA Reachable == Spec => [](IInv /\ AInv)
BY InitIInv, IInvStep, InitAInv, AInvStep, PTL DEF Spec

-----------------------------------------------------------------------------
\* PostTransfer's and CreateAccount's answers are true when they are given and
\* stay true: a posting the caller was told of is in the books, a replay names
\* the one posting of that key, by its tenant and with its body, and a refusal
\* or a conflict has posted nothing.
THEOREM AnswersAreTrue == Spec => []AnswersTruthful
<1>1. AInv => AnswersTruthful
  BY DEF AInv, AnswersTruthful, TellsTruth
<1> QED
  BY <1>1, Reachable, PTL

-----------------------------------------------------------------------------
(* The refinement: what the abstract ledger sees of a request.             *)

Status == [r \in Request |-> IF pc[r] \in {"idle", "done"} THEN pc[r] ELSE "pending"]
Missed == {r \in Request : \E id \in AccountId : snap[r][id].kind = "absent"}

AtomicStep == Atomic!Next \/ UNCHANGED Atomic!vars

\* A request that ends replies, in one step of the abstract ledger.
LEMMA FinishReplies ==
  ASSUME CoreInv, NEW r \in Request, NEW o, NEW t, Finish(r, o, t),
         pc[r] \notin {"idle", "done"}
  PROVE  Atomic!Reply(r, o, t)
<1>1. /\ pc \in [Request -> Phase] /\ pc' = [pc EXCEPT ![r] = "done"]
      /\ answer' = [answer EXCEPT ![r] = [outcome |-> o, txn |-> t]]
      /\ cmd' = cmd /\ snap' = snap
  BY DEF CoreInv, TypeOK, Finish, Goto
<1>2. Status[r] = "pending" /\ Status' = [Status EXCEPT ![r] = "done"]
  BY <1>1 DEF Status
<1>3. Missed' = Missed
  BY <1>1 DEF Missed
<1> QED
  BY <1>1, <1>2, <1>3 DEF Atomic!Reply, Status, Missed

\* A request that ends without a commit has been declined, if there were
\* grounds for what it is told.
LEMMA FinishDeclines ==
  ASSUME CoreInv, NEW r \in Request, NEW o \in Atomic!Outcome, NEW t \in Request \cup {None},
         Finish(r, o, t), pc[r] \notin {"idle", "done"}, UNCHANGED dbVars,
         Atomic!Grounds(r, o, t)
  PROVE  AtomicStep
<1>1. Atomic!Reply(r, o, t)
  BY FinishReplies
<1>2. Atomic!Decline(r)
  BY <1>1 DEF Atomic!Decline, dbVars
<1> QED
  BY <1>2 DEF AtomicStep, Atomic!Next

\* An internal error needs no grounds.
LEMMA ErrorDeclines ==
  ASSUME CoreInv, NEW r \in Request, Finish(r, "internal_error", None),
         pc[r] \notin {"idle", "done"}, UNCHANGED dbVars
  PROVE  AtomicStep
<1>1. Atomic!Grounds(r, "internal_error", None) /\ "internal_error" \in Atomic!Outcome
  BY DEF Atomic!Grounds, Atomic!Outcome
<1> QED
  BY <1>1, FinishDeclines

\* A step from one phase to the next is invisible unless it finds an account
\* missing.
LEMMA PhaseInvisible ==
  ASSUME CoreInv, NEW r \in Request, NEW p, pc' = [pc EXCEPT ![r] = p],
         pc[r] \notin {"idle", "done"}, p \notin {"idle", "done"},
         UNCHANGED <<dbVars, cmd, answer>>, Missed' = Missed
  PROVE  AtomicStep
<1>1. pc \in [Request -> Phase]
  BY DEF CoreInv, TypeOK
<1>2. Status' = Status
  BY <1>1 DEF Status
<1> QED
  BY <1>2 DEF AtomicStep, Atomic!vars, Status, Missed, dbVars

\* lockOne finds the account missing, or nothing is seen of it.
LEMMA LockMisses ==
  ASSUME CoreInv, NEW r \in Request, NEW id \in AccountId, NEW p,
         cmd[r] \in TransferCommand, id = cmd[r].from \/ id = cmd[r].to,
         LockOne(r, id), pc' = [pc EXCEPT ![r] = p],
         pc[r] \notin {"idle", "done"}, p \notin {"idle", "done"},
         UNCHANGED <<dbVars, cmd, answer>>, snap[r][id].kind # "absent"
  PROVE  AtomicStep
<1>1. pc \in [Request -> Phase] /\ snap \in [Request -> [AccountId -> Snapshot]]
  BY DEF CoreInv, TypeOK
<1>2. /\ \A q \in Request \ {r} : snap'[q] = snap[q]
      /\ \A other \in AccountId \ {id} : snap'[r][other] = snap[r][other]
  BY LockEffect DEF CoreInv
<1>3. CASE kind[<<cmd[r].tenant, id>>] = "absent"
  <2>1. snap' = [snap EXCEPT ![r][id] = [kind |-> "absent", balance |-> 0]]
    BY <1>3 DEF LockOne
  <2>2. snap'[r][id].kind = "absent"
    BY <1>1, <2>1
  <2>3. Missed' = Missed \cup {r}
    BY <1>2, <2>2 DEF Missed
  <2>4. Status' = Status /\ Status[r] = "pending"
    BY <1>1 DEF Status
  <2>5. /\ cmd[r].op = "transfer"
        /\ \/ kind[Atomic!FromRow(cmd[r])] = "absent"
           \/ kind[Atomic!ToRow(cmd[r])] = "absent"
    BY <1>3 DEF TransferCommand, Atomic!FromRow, Atomic!ToRow
  <2>6. Atomic!Miss(r)
    BY <2>3, <2>4, <2>5 DEF Atomic!Miss, Status, Missed, dbVars
  <2> QED
    BY <2>6 DEF AtomicStep, Atomic!Next
<1>4. CASE kind[<<cmd[r].tenant, id>>] # "absent"
  <2> DEFINE v == [kind |-> kind[<<cmd[r].tenant, id>>],
                   balance |-> balance[<<cmd[r].tenant, id>>]]
  <2>1. snap' = [snap EXCEPT ![r][id] = v]
    BY <1>4 DEF LockOne
  <2>2. v.kind # "absent"
    BY <1>4
  <2> HIDE DEF v
  <2>3. snap'[r][id].kind # "absent"
    BY <1>1, <2>1, <2>2
  <2>4. Missed' = Missed
    BY <1>2, <2>3 DEF Missed
  <2> QED
    BY <2>4, PhaseInvisible
<1> QED
  BY <1>3, <1>4

\* An int64 sum of a wallet's balance and a delta is below zero only if the
\* balance does not cover the delta, or the sum has overflowed.
LEMMA WrapBelowZero ==
  ASSUME NEW b \in Word, b >= 0, NEW n \in Word, n > 0
  PROVE  /\ Wrap(b + (-n)) < 0 => b < n
         /\ Wrap(b + n) < 0 => b + n > MaxInt
BY LedgerAssumption DEF Wrap, Word

\* Each refusal of domain.Post has its grounds in the books at that moment,
\* because the snapshots it was decided on are of rows r has locked.
LEMMA RefusalGrounds ==
  ASSUME CoreInv, WalletsNeverNegative, NEW r \in Request, pc[r] = "decide", Post(cmd[r], snap[r]) # "posted"
  PROVE  Atomic!Grounds(r, Post(cmd[r], snap[r]), None)
<1> DEFINE c == cmd[r]
           from == <<c.tenant, c.from>>
           to == <<c.tenant, c.to>>
<1>1. /\ c \in TransferCommand /\ c.op = "transfer"
      /\ Held(r, c.from) /\ Held(r, c.to)
  BY DEF CoreInv, PhaseOK, TransferPhase, LocksOK, TransferCommand
<1>2. /\ c.from \in AccountId /\ c.to \in AccountId /\ c.amount \in Word /\ c.amount \in Int
      /\ from \in Row /\ to \in Row
  BY <1>1, TransferFields, LedgerAssumption DEF Row, Word
<1>3. /\ balance \in [Row -> Word]
      /\ \A row \in Row : kind[row] = "wallet" => balance[row] >= 0
  BY DEF CoreInv, TypeOK, WalletsNeverNegative
<1>a. Atomic!FromRow(c) = from /\ Atomic!ToRow(c) = to
  BY DEF Atomic!FromRow, Atomic!ToRow
<1>4. CASE c.amount <= 0
  BY <1>1, <1>4 DEF Post, Atomic!Grounds
<1>5. CASE ~(c.amount <= 0) /\ (snap[r][c.from].kind = "absent" \/ snap[r][c.to].kind = "absent")
  <2>1. Post(c, snap[r]) = "unknown_account"
    BY <1>5 DEF Post
  <2>2. r \in Missed
    BY <1>2, <1>5 DEF Missed
  <2> QED
    BY <2>1, <2>2 DEF Atomic!Grounds, Missed
<1>6. CASE ~(c.amount <= 0) /\ snap[r][c.from].kind # "absent" /\ snap[r][c.to].kind # "absent"
  <2>1. /\ snap[r][c.from].kind = kind[from] /\ snap[r][c.from].balance = balance[from]
        /\ snap[r][c.to].kind = kind[to] /\ snap[r][c.to].balance = balance[to]
    BY <1>1, <1>6 DEF Held
  <2>2. /\ Post(c, snap[r]) = "insufficient_funds"
        /\ \/ TakesBelowZero(snap[r][c.from], -c.amount)
           \/ TakesBelowZero(snap[r][c.to], c.amount)
    BY <1>6 DEF Post
  <2>3. c.amount > 0
    BY <1>2, <1>6
  <2> HIDE DEF c, from, to
  <2>4. \/ kind[from] = "wallet" /\ Wrap(balance[from] + (-c.amount)) < 0
        \/ kind[to] = "wallet" /\ Wrap(balance[to] + c.amount) < 0
    BY <2>1, <2>2 DEF TakesBelowZero
  <2>5. /\ balance[from] \in Word /\ balance[to] \in Word
    BY <1>2, <1>3
  <2>6. \/ kind[from] = "wallet" /\ balance[from] < c.amount
        \/ kind[to] = "wallet" /\ balance[to] + c.amount > MaxInt
    <3>1. CASE kind[from] = "wallet" /\ Wrap(balance[from] + (-c.amount)) < 0
      BY <1>2, <1>3, <2>3, <2>5, <3>1, WrapBelowZero
    <3>2. CASE kind[to] = "wallet" /\ Wrap(balance[to] + c.amount) < 0
      BY <1>2, <1>3, <2>3, <2>5, <3>2, WrapBelowZero
    <3> QED
      BY <2>4, <3>1, <3>2
  <2> QED
    BY <1>1, <1>a, <2>2, <2>6 DEF Atomic!Grounds, c
<1> QED
  BY <1>4, <1>5, <1>6

\* A commit, heard of or not, is the one moment at which the request takes
\* effect.
LEMMA CommitIsAtomic ==
  ASSUME CoreInv, TypeOK', AInv, NEW r \in Request, pc[r] = "commit", MakeDurable(r),
         \/ Finish(r, "internal_error", None)
         \/ cmd[r].op = "transfer" /\ Finish(r, "posted", r)
         \/ cmd[r].op = "open" /\ Finish(r, "opened", None)
  PROVE  AtomicStep
<1> DEFINE c == cmd[r]
<1>1. c \in Command
  BY DEF CoreInv, PhaseOK
<1>2. CASE c.op = "transfer"
  <2> DEFINE from == <<c.tenant, c.from>>
             to == <<c.tenant, c.to>>
  <2>1. /\ c \in TransferCommand /\ Decided(r) /\ claims[c.key] = None
        /\ balance \in [Row -> Word] /\ balance' \in [Row -> Word]
    BY <1>1, <1>2, CommandKinds DEF CoreInv, LocksOK, KeysOK, TypeOK
  <2>2. /\ c.amount > 0
        /\ snap[r][c.from].kind # "absent" /\ snap[r][c.to].kind # "absent"
        /\ ~TakesBelowZero(snap[r][c.from], -c.amount)
    BY <2>1, PostedMeansPresent DEF Decided
  <2>3. /\ kind[from] # "absent" /\ kind[to] # "absent"
        /\ snap[r][c.from].kind = kind[from] /\ snap[r][c.from].balance = balance[from]
    BY <2>1, <2>2 DEF Decided, Held
  <2>4. /\ balance[from] \in Word /\ balance[from] \in Int /\ c.amount \in Int
        /\ balance[from] - c.amount \in Word
    <3>1. balance[from] \in Word /\ c.amount \in Word
      BY <2>1, TransferFields DEF Row
    <3>2. balance[from] - c.amount \in Word
      BY <2>1, DeltasFitRows DEF Decided
    <3> QED
      BY <3>1, <3>2, LedgerAssumption DEF Word
  <2>5. /\ kind' = kind
        /\ balance' = Credited(c, Debited(c, balance))
        /\ posted' = posted \cup {r}
        /\ claims' = [claims EXCEPT ![c.key] = r]
    BY <1>2 DEF MakeDurable
  <2>6. kind[from] = "wallet" => balance[from] >= c.amount
    <3> HIDE DEF c, from
    <3>1. balance[from] + (-c.amount) = balance[from] - c.amount
      BY <2>4
    <3>2. Wrap(balance[from] + (-c.amount)) = balance[from] - c.amount
      BY <2>4, <3>1, WrapInside
    <3>3. kind[from] = "wallet" => ~(balance[from] - c.amount < 0)
      BY <2>2, <2>3, <3>2 DEF TakesBelowZero
    <3> QED
      BY <2>4, <3>3
  <2>7. Atomic!Reply(r, "posted", r) \/ Atomic!Reply(r, "internal_error", None)
    BY <1>2, FinishReplies
  <2>8. Atomic!FromRow(c) = from /\ Atomic!ToRow(c) = to /\ Atomic!Row = Row /\ Atomic!Word = Word
    BY DEF Atomic!FromRow, Atomic!ToRow, Atomic!Row, Atomic!Word, Row, Word
  <2>9. balance' = [[balance EXCEPT ![from] = @ - c.amount] EXCEPT ![to] = @ + c.amount]
    BY <2>5 DEF Credited, Debited
  <2>10. \A row \in Row : balance'[row] \in Word
    BY <2>1
  <2> HIDE DEF from, to
  <2>11. Atomic!PostTransfer(r)
    BY <1>2, <2>1, <2>2, <2>3, <2>5, <2>6, <2>7, <2>8, <2>9, <2>10 DEF Atomic!PostTransfer
  <2> QED
    BY <2>11 DEF AtomicStep, Atomic!Next
<1>3. CASE c.op = "open"
  <2> DEFINE row == <<c.tenant, c.id>>
  <2>1. kind[row] = "absent" /\ row \in Row
    BY <1>1, <1>3, CommandKinds DEF CoreInv, LocksOK, OpenCommand, Row
  <2>2. /\ kind' = [kind EXCEPT ![row] = c.kind]
        /\ balance' = [balance EXCEPT ![row] = 0]
        /\ posted' = posted /\ claims' = claims
    BY <1>3 DEF MakeDurable
  <2>3. balance' = balance
    <3>1. balance[row] = 0 /\ balance \in [Row -> Word]
      BY <2>1 DEF CoreInv, AbsentIsZero, TypeOK
    <3> HIDE DEF row
    <3> QED
      BY <2>1, <2>2, <3>1
  <2>4. Atomic!Reply(r, "opened", None) \/ Atomic!Reply(r, "internal_error", None)
    BY <1>3, FinishReplies
  <2>5. Atomic!CreateAccount(r)
    BY <1>3, <2>1, <2>2, <2>3, <2>4 DEF Atomic!CreateAccount
  <2> QED
    BY <2>5 DEF AtomicStep, Atomic!Next
<1> QED
  BY <1>1, <1>2, <1>3, CommandKinds

\* Every step of a request is a step of the abstract ledger, or is not seen.
LEMMA MoveIsAtomic ==
  ASSUME CoreInv, WalletsNeverNegative, TypeOK', AInv, NEW r \in Request, Move(r)
  PROVE  AtomicStep
<1>0. pc \in [Request -> Phase]
  BY DEF CoreInv, TypeOK
<1>1. ASSUME NEW c \in Command, Submit(r, c) PROVE AtomicStep
  <2>1. Status[r] = "idle" /\ Status' = [Status EXCEPT ![r] = "pending"]
    BY <1>0, <1>1 DEF Submit, Goto, Status
  <2>2. Missed' = Missed
    BY <1>1 DEF Submit, Missed
  <2>3. Atomic!Arrive(r, c)
    BY <1>1, <2>1, <2>2 DEF Submit, Atomic!Arrive, Status, Missed, dbVars
  <2> QED
    BY <2>3 DEF AtomicStep, Atomic!Next
<1>2. ASSUME NEW p, Goto(r, p), p \notin {"idle", "done"}, pc[r] \notin {"idle", "done"},
             UNCHANGED <<dbVars, cmd, answer, snap>>
      PROVE  AtomicStep
  <2>1. Missed' = Missed
    BY <1>2 DEF Missed
  <2> QED
    BY <1>2, <2>1, PhaseInvisible DEF Goto
<1>3. CASE Begin(r)
  BY <1>2, <1>3 DEF Begin
<1>4. CASE Lookup(r)
  <2> DEFINE w == claims[cmd[r].key]
  <2>1. CASE w # None /\ Fingerprint(cmd[w]) # Fingerprint(cmd[r])
    <3>1. /\ Finish(r, "idempotency_key_conflict", None) /\ UNCHANGED dbVars
          /\ pc[r] = "lookup"
      BY <1>4, <2>1 DEF Lookup
    <3>2. cmd[r].op = "transfer"
      BY <3>1 DEF CoreInv, PhaseOK, TransferPhase, TransferCommand
    <3>3. ~Atomic!SameBody(cmd[w], cmd[r])
      BY <2>1 DEF Fingerprint, Atomic!SameBody
    <3>4. /\ Atomic!Grounds(r, "idempotency_key_conflict", None)
          /\ "idempotency_key_conflict" \in Atomic!Outcome
      BY <2>1, <3>2, <3>3 DEF Atomic!Grounds, Atomic!Outcome
    <3> QED
      BY <3>1, <3>4, FinishDeclines
  <2>2. CASE ~(w # None /\ Fingerprint(cmd[w]) # Fingerprint(cmd[r]))
    BY <1>2, <1>4, <2>2 DEF Lookup
  <2> QED
    BY <2>1, <2>2
<1>5. CASE Render(r)
  <2> DEFINE w == claims[cmd[r].key]
  <2>1. /\ pc[r] = "render" /\ UNCHANGED dbVars
        /\ cmd[r].key \in Key /\ cmd[r].op = "transfer" /\ w # None
        /\ Fingerprint(cmd[w]) = Fingerprint(cmd[r])
    BY <1>5, TransferFields DEF Render, CoreInv, PhaseOK, TransferPhase, TransferCommand,
                                AInv, PendingOK
  <2>2. CASE cmd[w].tenant = cmd[r].tenant
    <3>1. Finish(r, "replayed", w) /\ w \in Request
      BY <1>5, <2>1, <2>2 DEF Render, CoreInv, TypeOK
    <3>2. Atomic!SameBody(cmd[w], cmd[r])
      BY <2>1 DEF Fingerprint, Atomic!SameBody
    <3>3. Atomic!Grounds(r, "replayed", w) /\ "replayed" \in Atomic!Outcome
      BY <2>1, <2>2, <3>2 DEF Atomic!Grounds, Atomic!Outcome
    <3> HIDE DEF w
    <3> QED
      BY <2>1, <3>1, <3>3, FinishDeclines
  <2>3. CASE cmd[w].tenant # cmd[r].tenant
    BY <1>5, <2>1, <2>3, ErrorDeclines DEF Render
  <2> QED
    BY <2>2, <2>3
<1>6. ASSUME NEW id \in AccountId, RejectRow(r, id), cmd[r] \in TransferCommand PROVE FALSE
  <2>1. <<cmd[r].tenant, id>> \in Row
    BY <1>6, TransferFields DEF Row
  <2> QED
    BY <1>6, <2>1 DEF RejectRow, WalletLegal, CoreInv, WalletsNeverNegative
<1>7. CASE LockLow(r)
  <2>1. /\ cmd[r] \in TransferCommand /\ Low(cmd[r]) \in AccountId
        /\ Low(cmd[r]) \in {cmd[r].from, cmd[r].to}
        /\ pc[r] = "lockLow" /\ snap[r][Low(cmd[r])].kind # "absent"
    BY <1>7, TransferFields DEF LockLow, CoreInv, PhaseOK, TransferPhase, AInv, FreshOK, AskedNothing
  <2>2. /\ LockOne(r, Low(cmd[r])) /\ UNCHANGED <<dbVars, cmd, answer>>
        /\ \E p \in {"decide", "lockHigh"} : pc' = [pc EXCEPT ![r] = p]
    BY <1>6, <1>7, <2>1 DEF LockLow, Goto
  <2>3. PICK p \in {"decide", "lockHigh"} : pc' = [pc EXCEPT ![r] = p]
    BY <2>2
  <2>4. p \notin {"idle", "done"}
    OBVIOUS
  <2> QED
    BY <2>1, <2>2, <2>3, <2>4, LockMisses
<1>8. CASE LockHigh(r)
  <2>1. /\ cmd[r] \in TransferCommand /\ High(cmd[r]) \in AccountId
        /\ High(cmd[r]) \in {cmd[r].from, cmd[r].to}
        /\ pc[r] = "lockHigh" /\ snap[r][High(cmd[r])].kind # "absent"
    BY <1>8, TransferFields DEF LockHigh, CoreInv, PhaseOK, TransferPhase, AInv, FreshOK
  <2>2. /\ LockOne(r, High(cmd[r])) /\ UNCHANGED <<dbVars, cmd, answer>>
        /\ pc' = [pc EXCEPT ![r] = "decide"]
    BY <1>6, <1>8, <2>1 DEF LockHigh, Goto
  <2>3. PICK p \in {"decide"} : pc' = [pc EXCEPT ![r] = p]
    BY <2>2
  <2>4. p \notin {"idle", "done"}
    OBVIOUS
  <2> QED
    BY <2>1, <2>2, <2>3, <2>4, LockMisses
<1>9. CASE Decide(r)
  <2>1. pc[r] = "decide" /\ UNCHANGED dbVars
    BY <1>9 DEF Decide
  <2>2. CASE Post(cmd[r], snap[r]) # "posted"
    <3>1. Finish(r, Post(cmd[r], snap[r]), None)
      BY <1>9, <2>2 DEF Decide
    <3>2. Post(cmd[r], snap[r]) \in Atomic!Outcome
      BY <2>2 DEF Post, Atomic!Outcome
    <3>3. Atomic!Grounds(r, Post(cmd[r], snap[r]), None)
      BY <2>1, <2>2, RefusalGrounds
    <3> QED
      BY <2>1, <3>1, <3>2, <3>3, FinishDeclines
  <2>3. CASE Post(cmd[r], snap[r]) = "posted"
    BY <1>2, <1>9, <2>1, <2>3, ErrorDeclines DEF Decide
  <2> QED
    BY <2>2, <2>3
<1>10. CASE Claim(r)
  BY <1>2, <1>10 DEF Claim
<1>11. CASE Check(r)
  <2>1. /\ pc[r] = "check" /\ UNCHANGED dbVars /\ cmd[r].op = "open"
    BY <1>11 DEF Check, CoreInv, PhaseOK, OpenPhase, OpenCommand
  <2>a. WalletLegal(<<cmd[r].tenant, cmd[r].id>>)
    <3>1. <<cmd[r].tenant, cmd[r].id>> \in Row
      BY <2>1, <1>11 DEF Check, CoreInv, PhaseOK, OpenPhase, OpenCommand, Row
    <3> QED
      BY <3>1 DEF WalletLegal, WalletsNeverNegative
  <2>2. CASE kind[<<cmd[r].tenant, cmd[r].id>>] # "absent"
    <3>1. Finish(r, "account_already_exists", None)
      BY <1>11, <2>a, <2>2 DEF Check
    <3>2. /\ Atomic!Grounds(r, "account_already_exists", None)
          /\ "account_already_exists" \in Atomic!Outcome
      BY <2>1, <2>2 DEF Atomic!Grounds, Atomic!Outcome
    <3> QED
      BY <2>1, <3>1, <3>2, FinishDeclines
  <2>3. CASE kind[<<cmd[r].tenant, cmd[r].id>>] = "absent"
    BY <1>2, <1>11, <2>1, <2>a, <2>3 DEF Check
  <2> QED
    BY <2>2, <2>3
<1>12. CASE Insert(r)
  BY <1>2, <1>12, ErrorDeclines DEF Insert
<1>13. CASE Commit(r)
  <2>1. pc[r] = "commit" /\ MakeDurable(r) /\ cmd[r].op \in {"transfer", "open"}
    BY <1>13, CommandKinds DEF Commit, CoreInv, PhaseOK
  <2> QED
    BY <1>13, <2>1, CommitIsAtomic DEF Commit
<1>14. CASE CommitUnheard(r)
  BY <1>14, CommitIsAtomic DEF CommitUnheard
<1>15. CASE Abort(r)
  BY <1>15, ErrorDeclines DEF Abort
<1> QED
  BY <1>1, <1>3, <1>4, <1>5, <1>7, <1>8, <1>9, <1>10, <1>11, <1>12, <1>13, <1>14, <1>15
     DEF Move, Step

\* Row locks, key locks, snapshots, the nested call of a claim's loser, lost
\* commits and the pool are invisible from outside: the requests take effect
\* one at a time, and each is refused, replayed or answered as the books call
\* for at one moment between its arrival and its answer.
THEOREM LedgerIsAtomic == Spec => RequestsAreAtomic
<1>1. Init => Atomic!Init
  <2> SUFFICES ASSUME Init PROVE Atomic!Init
    OBVIOUS
  <2>1. Status = [r \in Request |-> "idle"]
    BY DEF Init, Status
  <2>2. Missed = {}
    BY DEF Init, Missed, Unread
  <2> QED
    BY <2>1, <2>2 DEF Init, Atomic!Init, Status, Missed, NoCommand, NoAnswer
<1>2. IInv /\ IInv' /\ AInv /\ [Next]_vars => [Atomic!Next]_(Atomic!vars)
  <2> SUFFICES ASSUME IInv, IInv', AInv, [Next]_vars PROVE AtomicStep
    BY DEF AtomicStep
  <2>1. CASE UNCHANGED vars
    BY <2>1 DEF vars, AtomicStep, Atomic!vars
  <2>2. CASE \E r \in Request : Move(r)
    BY <2>2, MoveIsAtomic DEF IInv, CoreInv
  <2> QED
    BY <2>1, <2>2 DEF Next, Move
<1> QED
  BY <1>1, <1>2, Reachable, PTL DEF Spec, RequestsAreAtomic, Atomic!Spec
=============================================================================
