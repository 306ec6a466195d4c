----------------------------- MODULE SagaProofs -----------------------------
(***************************************************************************)
(* Proofs about TransferSaga, for every number of callers, goroutines and  *)
(* wallets, every retry budget and every number of failures.               *)
(***************************************************************************)
EXTENDS TransferSaga, FiniteSetTheorems, TLAPS

-----------------------------------------------------------------------------
(* What holds however the ticker runs.                                     *)

\* A row, and whoever works on one, means that leg 1 has posted, and from a
\* wallet that was open; without a row nothing but leg 1 has.
RowOK ==
  /\ "leg1" \in posted => wallets # {}
  /\ status # "absent" => "leg1" \in posted
  /\ status = "absent" => posted \subseteq {"leg1"}
  /\ \A c \in Caller : sender[c] \in {"record", "respond"} => "leg1" \in posted
  /\ \A c \in Caller : sender[c] = "respond" => status # "absent"
  /\ \A g \in Goroutine : th[g] # Free => status # "absent"

Base == SagaTypeOK /\ RowOK /\ HeldIsReported

\* walletAccountID answers one of the open wallets.
LEMMA FirstWalletOpen ==
  ASSUME wallets \subseteq Wallet, wallets # {}
  PROVE  FirstWallet \in wallets
BY SagaAssumption DEF FirstWallet

Thread == [pc : GoroutinePhase, leg : {0, 2, 3}, mode : Mode]

\* What attemptLeg's return leaves in its goroutine is a goroutine again.
LEMMA AfterTypes ==
  ASSUME NEW t \in Thread, NEW ok \in BOOLEAN
  PROVE  After(t, ok) \in Thread
BY DEF After, Free, GoroutinePhase, Mode, Thread

\* The control operators leave a goroutine in every slot.
LEMMA GotoTypes ==
  ASSUME th \in [Goroutine -> Thread], NEW g \in Goroutine,
         NEW phase \in GoroutinePhase, Goto(g, phase)
  PROVE  th' \in [Goroutine -> Thread]
BY DEF Goto, Thread

(* Returning to the caller keeps the goroutines' type. *)
LEMMA ReturnTypes ==
  ASSUME th \in [Goroutine -> Thread], NEW g \in Goroutine, NEW ok \in BOOLEAN, Return(g, ok)
  PROVE  th' \in [Goroutine -> Thread]
BY AfterTypes DEF Return

(* Backing off (a fresh goroutine takes over) keeps the goroutines' type. *)
LEMMA RescheduleTypes ==
  ASSUME th \in [Goroutine -> Thread], NEW g \in Goroutine, NEW h \in Goroutine,
         NEW phase \in GoroutinePhase, Reschedule(g, h, phase)
  PROVE  th' \in [Goroutine -> Thread]
<1>1. After(th[g], FALSE) \in Thread
  BY AfterTypes
<1>2. [pc |-> phase, leg |-> th[g].leg, mode |-> "inline"] \in Thread
  BY DEF Thread, Mode
<1> QED
  BY <1>1, <1>2 DEF Reschedule

(* The attempt counts never pass the retry budget. *)
LEMMA CountTypes ==
  ASSUME fails \in [Counter -> 0 .. RetryBudget], NEW key \in Counter, CountFailure(key)
  PROVE  fails' \in [Counter -> 0 .. RetryBudget]
<1>1. RetryBudget \in Nat
  BY SagaAssumption
<1> QED
  BY <1>1 DEF CountFailure

(* No transfer, no goroutine: the typing part holds. *)
LEMMA InitBase == Init => Base
BY SagaAssumption
   DEF Init, Base, SagaTypeOK, RowOK, HeldIsReported, SenderPhase, Status, Free,
       GoroutinePhase, Mode, LegKey

\* A step of a SendTransfer call.
LEMMA SendBase ==
  ASSUME Base, NEW c \in Caller, Send(c) \/ SendStep(c) \/ SendFails(c)
  PROVE  Base'
<1> USE DEF Base, SagaTypeOK, RowOK, HeldIsReported, SenderPhase, GotoSend, bookVars, rowVars, faultVars
<1>1. CASE Send(c) \/ Existing(c) \/ Prepare(c) \/ SendFails(c)
  BY <1>1 DEF Send, Existing, Prepare, SendFails
<1>2. CASE PostLeg1(c)
  <2>1. wallets # {} => FirstWallet \in Wallet
    BY FirstWalletOpen
  <2>2. MaxUnheard \in Nat
    BY SagaAssumption
  <2>3. CASE posted' = posted \cup {"leg1"} /\ wallets # {}
    BY <1>2, <2>1, <2>2, <2>3 DEF PostLeg1, LegKey
  <2>4. CASE UNCHANGED <<bookVars, unheard>>
    BY <1>2, <2>4 DEF PostLeg1
  <2> QED
    BY <1>2, <2>3, <2>4 DEF PostLeg1
<1>3. CASE CreateTransferState(c)
  BY <1>3, SagaAssumption DEF CreateTransferState, Status, Due
<1>4. CASE TriggerForwardLegs(c)
  BY <1>4 DEF TriggerForwardLegs, GoroutinePhase, Mode
<1> QED
  BY <1>1, <1>2, <1>3, <1>4 DEF SendStep

\* A step of a goroutine, of the ticker's dispatches among them.
LEMMA RunBase ==
  ASSUME Base, NEW g \in Goroutine, Run(g) \/ Tick(g)
  PROVE  Base'
<1> DEFINE Kept == /\ status # "absent" /\ status' # "absent"
                   /\ posted \subseteq posted'
                   /\ UNCHANGED <<sender, wallets>>
<1> SUFFICES SagaTypeOK' /\ Kept
  BY DEF Base, RowOK, HeldIsReported
<1>a. th \in [Goroutine -> Thread] /\ th[g] \in Thread /\ Free.pc = "free"
  BY DEF Base, SagaTypeOK, Thread, Free
<1>c. th[g] # Free => status # "absent"
  BY DEF Base, RowOK
<1>d. SagaTypeOK
  BY DEF Base
<1>e. MaxUnheard \in Nat
  BY SagaAssumption
<1> USE DEF SagaTypeOK, bookVars, rowVars, faultVars
<1>1. CASE Claim(g)
  <2>1. th' \in [Goroutine -> Thread]
    BY <1>a, <1>1, GotoTypes, ReturnTypes DEF Claim, GoroutinePhase
  <2> QED
    BY <1>a, <1>c, <1>d, <1>1, <2>1 DEF Claim, Thread
<1>2. CASE PostLeg(g) \/ PostLeg2Reversal(g)
  <2>1. th' \in [Goroutine -> Thread]
    BY <1>a, <1>2 DEF PostLeg, PostLeg2Reversal, Goto, Thread, GoroutinePhase
  <2> QED
    BY <1>a, <1>c, <1>d, <1>2, <2>1 DEF PostLeg, PostLeg2Reversal, LegKey, Leg, Undo, Thread
<1>3. CASE PostLegFails(g)
  <2>1. th' \in [Goroutine -> Thread]
    BY <1>a, <1>3 DEF PostLegFails, Goto, Thread, GoroutinePhase
  <2>2. fails' \in [Counter -> 0 .. RetryBudget]
    BY <1>d, <1>3, CountTypes DEF PostLegFails, Counter, LegKey, Leg
  <2>3. posted \subseteq posted' /\ posted' \subseteq LegKey
    BY <1>d, <1>3 DEF PostLegFails, LegKey, Leg
  <2>4. th[g] # Free
    BY <1>a, <1>3 DEF PostLegFails
  <2> QED
    BY <1>c, <1>d, <1>e, <1>3, <2>1, <2>2, <2>3, <2>4 DEF PostLegFails, Thread
<1>4. CASE RecordLegSuccess(g) \/ RecordReversal(g)
  <2>1. th' \in [Goroutine -> Thread]
    BY <1>a, <1>4, ReturnTypes DEF RecordLegSuccess, RecordReversal
  <2> QED
    BY <1>a, <1>c, <1>d, <1>4, <2>1
       DEF RecordLegSuccess, RecordReversal, Advance, Status, Due, Terminal, Thread
<1>5. CASE Retry(g)
  <2>1. th' \in [Goroutine -> Thread]
    BY <1>a, <1>5, RescheduleTypes DEF Retry, GoroutinePhase
  <2> QED
    BY <1>a, <1>c, <1>d, <1>5, <2>1 DEF Retry, Advance, Status, Due, Thread
<1>6. CASE Wake(g) \/ WakeReversal(g)
  <2>1. th' \in [Goroutine -> Thread]
    BY <1>a, <1>6 DEF Wake, WakeReversal, Goto, Thread, GoroutinePhase
  <2> QED
    BY <1>a, <1>c, <1>d, <1>6, <2>1 DEF Wake, WakeReversal, Thread
<1>7. CASE PostLeg1Reversal(g)
  <2>1. th' \in [Goroutine -> Thread]
    BY <1>a, <1>7 DEF PostLeg1Reversal, Goto, Thread, GoroutinePhase
  <2>2. th[g] # Free
    BY <1>a, <1>7 DEF PostLeg1Reversal
  <2>3. FirstWallet \in Wallet
    BY <1>c, <2>2, FirstWalletOpen DEF Base, RowOK
  <2> QED
    BY <1>c, <1>d, <1>7, <2>1, <2>2, <2>3 DEF PostLeg1Reversal, LegKey, Undo, Thread
<1>8. CASE ReversalFails(g)
  <2>1. PICK n \in {1, 2} : ReversalFails(g)!(n)
    BY <1>8 DEF ReversalFails
  <2>2. th' \in [Goroutine -> Thread]
    BY <1>a, <2>1, GotoTypes, RescheduleTypes DEF GoroutinePhase
  <2>3. th[g] # Free
    BY <1>a, <2>1
  <2>4. FirstWallet \in Wallet
    BY <1>c, <2>3, FirstWalletOpen DEF Base, RowOK
  <2>5. fails' \in [Counter -> 0 .. RetryBudget]
    BY <1>d, <2>1, CountTypes DEF Counter, LegKey, Undo
  <2>6. posted \subseteq posted' /\ posted' \subseteq LegKey
    BY <1>d, <2>1 DEF Undo, LegKey
  <2> QED
    BY <1>c, <1>d, <2>1, <2>2, <2>3, <2>4, <2>5, <2>6, <1>e DEF Thread
<1>9. CASE Inspect(g) \/ Derive(g) \/ Tick(g)
  <2>1. ASSUME Inspect(g) PROVE th' \in [Goroutine -> Thread]
    <3>1. /\ [th[g] EXCEPT !.pc = "claim", !.mode = "resume"] \in Thread
          /\ [th[g] EXCEPT !.pc = "derive"] \in Thread
      BY <1>a DEF Thread, GoroutinePhase, Mode
    <3> QED
      BY <1>a, <2>1, <3>1 DEF Inspect
  <2>2. ASSUME Derive(g) PROVE th' \in [Goroutine -> Thread]
    <3>1. /\ Free \in Thread
          /\ \A l \in {0, 2, 3}, m \in Mode : [pc |-> "claim", leg |-> l, mode |-> m] \in Thread
      BY DEF Thread, Free, GoroutinePhase, Mode
    <3>2. NextLeg \in {0, 2, 3} /\ "first" \in Mode /\ "second" \in Mode
      BY DEF NextLeg, Mode
    <3> QED
      BY <1>a, <2>2, <3>1, <3>2 DEF Derive
  <2>3. ASSUME Tick(g) PROVE th' \in [Goroutine -> Thread]
    BY <1>a, <2>3 DEF Tick, Thread, GoroutinePhase, Mode
  <2>4. th' \in [Goroutine -> Thread]
    BY <1>9, <2>1, <2>2, <2>3
  <2> QED
    BY <1>a, <1>c, <1>d, <1>9, <2>4 DEF Inspect, Derive, Tick, IsDue, Due, Thread
<1> QED
  BY <1>1, <1>2, <1>3, <1>4, <1>5, <1>6, <1>7, <1>8, <1>9 DEF Run

\* A statement of the coordinator fails, and the write it may have made.
LEMMA LostBase ==
  ASSUME Base, NEW g \in Goroutine, StatementLost(g)
  PROVE  Base'
<1>a. th \in [Goroutine -> Thread] /\ th[g] \in Thread /\ Free \in Thread /\ Free.pc = "free"
  BY DEF Base, SagaTypeOK, Thread, Free, GoroutinePhase, Mode
<1>b. th[g] # Free => status # "absent"
  BY DEF Base, RowOK
<1>c. SagaTypeOK
  BY DEF Base
<1>d. MaxLost \in Nat
  BY SagaAssumption
<1>1. th' \in [Goroutine -> Thread]
  BY <1>a, ReturnTypes, GotoTypes DEF StatementLost, GoroutinePhase
<1>2. th[g] # Free
  BY <1>a DEF StatementLost
<1>3. status' \in Status /\ status' # "absent"
  BY <1>b, <1>c, <1>2 DEF StatementLost, Advance, rowVars, SagaTypeOK, Status, Due, Terminal
<1>4. nextAt' \in {"now", "lease"} \cup Goroutine
  BY <1>c DEF StatementLost, Advance, rowVars, SagaTypeOK
<1>5. SagaTypeOK'
  BY <1>c, <1>d, <1>1, <1>3, <1>4 DEF StatementLost, SagaTypeOK, bookVars, Thread
<1>6. UNCHANGED <<sender, wallets, posted>>
  BY DEF StatementLost, bookVars
<1> QED
  BY <1>b, <1>2, <1>3, <1>5, <1>6 DEF Base, RowOK, HeldIsReported

\* Time, crashes, revocations and new wallets.
LEMMA RestBase ==
  ASSUME Base, TimePasses \/ Crash \/ Revoke \/ OpenWallet \/ UNCHANGED vars
  PROVE  Base'
<1> USE DEF Base, SagaTypeOK, RowOK, HeldIsReported
<1>1. CASE TimePasses
  BY <1>1 DEF TimePasses, bookVars, faultVars
<1>2. CASE Crash
  <2>1. th' \in [Goroutine -> Thread] /\ \A g \in Goroutine : th'[g] = Free
    BY <1>2 DEF Crash, Thread, Free, GoroutinePhase, Mode
  <2>2. /\ sender' \in [Caller -> SenderPhase]
        /\ \A c \in Caller : sender'[c] \notin {"record", "respond"}
        /\ \A c \in Caller : sender[c] \in {"record", "error"} => sender'[c] = "error"
    BY <1>2 DEF Crash, SenderPhase, Answered
  <2>3. fails' \in [Counter -> 0 .. RetryBudget] /\ crashes' \in 0 .. MaxCrashes
    BY <1>2, SagaAssumption DEF Crash
  <2> QED
    BY <1>2, <2>1, <2>2, <2>3 DEF Crash, bookVars, Thread
<1>3. CASE Revoke \/ OpenWallet
  BY <1>3 DEF Revoke, OpenWallet, bookVars, rowVars, faultVars
<1>4. CASE UNCHANGED vars
  BY <1>4 DEF vars
<1> QED
  BY <1>1, <1>2, <1>3, <1>4

(* Every step of the coordinator keeps the typing part. *)
LEMMA BaseStep == Base /\ [Next]_vars => Base'
BY SendBase, RunBase, LostBase, RestBase DEF Next

\* Every variable keeps its type, however goroutines, dispatches, crashes and
\* failures interleave: in particular the row holds a status the coordinator
\* writes, and no reversal credits a wallet that does not exist.
THEOREM TypeCorrect == Spec => []SagaTypeOK
<1>1. Base => SagaTypeOK
  BY DEF Base
<1> QED
  BY <1>1, InitBase, BaseStep, PTL DEF Spec

\* Money that has left the sender without a row is never silent
\* (transfer_coordinator.go:425): with or without a ticker, and whatever
\* crashes, is lost or is not heard of.
THEOREM HeldMoneyReported == Spec => []HeldIsReported
<1>1. Base => HeldIsReported
  BY DEF Base
<1> QED
  BY <1>1, InitBase, BaseStep, PTL DEF Spec

-----------------------------------------------------------------------------
(* Where a refund goes, however the ticker runs.                           *)

\* A wallet that comes first in id order is opened after leg 1 was paid from
\* another one.
OutsortsPayer == "leg1" \in posted /\ FirstWallet' # FirstWallet

\* Until that happens, the wallet looked up is the one that paid.
PayerOK ==
  /\ "leg1" \in posted => debited = FirstWallet
  /\ refunded # NoWallet => "leg1" \in posted /\ refunded = debited

\* Only leg 1 debits and only its reversal refunds, the wallet looked up then.
LEMMA BooksStep ==
  ASSUME Base, [Next]_vars
  PROVE  \/ UNCHANGED <<debited, refunded>> /\ ("leg1" \in posted' <=> "leg1" \in posted)
         \/ /\ "leg1" \notin posted /\ "leg1" \in posted'
            /\ debited' = FirstWallet /\ UNCHANGED <<wallets, refunded>>
         \/ /\ "leg1" \in posted /\ "leg1" \in posted'
            /\ refunded' = FirstWallet /\ UNCHANGED debited
<1>1. CASE \E g \in Goroutine : Run(g) \/ Tick(g) \/ StatementLost(g)
  <2>1. PICK g \in Goroutine : Run(g) \/ Tick(g) \/ StatementLost(g)
    BY <1>1
  <2>2. th[g].pc # "free" => "leg1" \in posted
    BY DEF Base, RowOK, Free
  <2>3. CASE PostLeg(g) \/ PostLegFails(g) \/ PostLeg2Reversal(g)
    BY <2>3 DEF PostLeg, PostLegFails, PostLeg2Reversal, Leg, Undo
  <2>4. CASE PostLeg1Reversal(g)
    BY <2>2, <2>4 DEF PostLeg1Reversal
  <2>5. CASE ReversalFails(g)
    BY <2>2, <2>5 DEF ReversalFails, Undo
  <2> QED
    BY <2>1, <2>3, <2>4, <2>5
       DEF Run, Tick, StatementLost, Claim, RecordLegSuccess, Retry, Wake, WakeReversal,
           RecordReversal, Inspect, Derive, bookVars
<1>2. CASE \E c \in Caller : Send(c) \/ SendStep(c) \/ SendFails(c)
  BY <1>2 DEF Send, SendStep, SendFails, Existing, Prepare, PostLeg1, CreateTransferState,
       TriggerForwardLegs, bookVars
<1> QED
  BY <1>1, <1>2 DEF Next, TimePasses, Crash, Revoke, OpenWallet, vars, bookVars

\* Leg 1's reversal credits the wallet that leg 1 debited
\* (transfer_coordinator.go:831-832), with or without a ticker and whatever is
\* repeated, crashes or goes unheard of, unless the sender opens a wallet in
\* between whose id comes before it.
THEOREM RefundReachesPayerUnlessOutsorted == Spec /\ [][~OutsortsPayer]_vars => []RefundReachesPayer
<1>1. Init => Base /\ PayerOK
  BY InitBase DEF Init, PayerOK
<1>2. Base /\ PayerOK /\ [Next]_vars /\ [~OutsortsPayer]_vars => Base' /\ PayerOK'
  <2> SUFFICES ASSUME Base, PayerOK, [Next]_vars, [~OutsortsPayer]_vars PROVE PayerOK'
    BY BaseStep
  <2>1. UNCHANGED wallets => FirstWallet' = FirstWallet
    BY DEF FirstWallet
  <2>2. "leg1" \in posted => FirstWallet' = FirstWallet
    BY <2>1 DEF OutsortsPayer, vars
  <2> HIDE DEF FirstWallet
  <2> QED
    BY <2>1, <2>2, BooksStep DEF PayerOK
<1>3. PayerOK => RefundReachesPayer
  BY DEF PayerOK, RefundReachesPayer
<1> QED
  BY <1>1, <1>2, <1>3, PTL DEF Spec

-----------------------------------------------------------------------------
(* The coordinator as cmd/api wires it, without a ticker: one chain.       *)

\* The goroutine that posts leg l, retries it, or compensates after it.
At(phase, l) == [pc |-> phase, leg |-> l, mode |-> "inline"]
Chain == {At(phase, l) : phase \in GoroutinePhase \ {"free", "inspect", "derive"}, l \in {2, 3}}

\* One goroutine works on the transfer, on the inline path, or one handler is
\* about to start it.
Alone ==
  /\ \A g \in Goroutine : th[g] \in Chain \cup {Free}
  /\ \A g, h \in Goroutine : th[g] # Free /\ th[h] # Free => g = h
  /\ \A c \in Caller : sender[c] = "respond" => \A g \in Goroutine : th[g] = Free
  /\ \A c, d \in Caller : sender[c] = "respond" /\ sender[d] = "respond" => c = d

(* What the states of the single chain have in common. *)
LEMMA ChainFields ==
  ASSUME NEW t \in Chain
  PROVE  /\ t # Free /\ t.mode = "inline" /\ t.leg \in {2, 3}
         /\ t.pc \in GoroutinePhase \ {"free", "inspect", "derive"}
         /\ t = At(t.pc, t.leg)
BY DEF Chain, At, Free

\* The control operators on the inline path: attemptLeg of leg 2 is followed by
\* leg 3 if it returned nil, and a goroutine sleeps for its own retry.
LEMMA InlineControl ==
  ASSUME th \in [Goroutine -> Thread], NEW g \in Goroutine, th[g] \in Chain
  PROVE  /\ \A phase : Goto(g, phase) => th' = [th EXCEPT ![g] = At(phase, th[g].leg)]
         /\ Return(g, TRUE) => th' = [th EXCEPT ![g] = IF th[g].leg = 2 THEN At("claim", 3) ELSE Free]
         /\ Return(g, FALSE) => th' = [th EXCEPT ![g] = Free]
         /\ \A h \in Goroutine : \A phase :
              Reschedule(g, h, phase) => h = g /\ th' = [th EXCEPT ![g] = At(phase, th[g].leg)]
<1> DEFINE l == th[g].leg
<1>1. th[g] = At(th[g].pc, l) /\ l \in {2, 3}
  BY ChainFields
<1> HIDE DEF l
<1>2. th[g].mode = "inline" /\ th[g].leg = l /\ \A phase : [th[g] EXCEPT !.pc = phase] = At(phase, l)
  BY <1>1 DEF At
<1>3. /\ After(th[g], TRUE) = IF l = 2 THEN At("claim", 3) ELSE Free
      /\ After(th[g], FALSE) = Free
  BY <1>2 DEF After, At
<1>4. ASSUME NEW phase, Goto(g, phase) PROVE th' = [th EXCEPT ![g] = At(phase, th[g].leg)]
  BY <1>2, <1>4 DEF Goto
<1>5. /\ Return(g, TRUE) => th' = [th EXCEPT ![g] = IF th[g].leg = 2 THEN At("claim", 3) ELSE Free]
      /\ Return(g, FALSE) => th' = [th EXCEPT ![g] = Free]
  BY <1>2, <1>3 DEF Return
<1>6. ASSUME NEW h \in Goroutine, NEW phase, Reschedule(g, h, phase)
      PROVE  h = g /\ th' = [th EXCEPT ![g] = At(phase, th[g].leg)]
  BY <1>2, <1>6 DEF Reschedule, At
<1> QED
  BY <1>4, <1>5, <1>6

\* Without a ticker, whoever takes a step works on the transfer.
LEMMA InlineActive ==
  ASSUME Ticker = "never", Base, Alone, NEW g \in Goroutine, Run(g) \/ Tick(g) \/ StatementLost(g)
  PROVE  /\ th \in [Goroutine -> Thread] /\ th[g] \in Chain
         /\ ~Tick(g) /\ ~Inspect(g) /\ ~Derive(g)
<1>1. th \in [Goroutine -> Thread] /\ Free.pc = "free"
  BY DEF Base, SagaTypeOK, Thread, Free
<1>2. ~Tick(g)
  BY DEF Tick
<1>3. th[g].pc # "free"
  BY <1>1, <1>2 DEF Run, StatementLost, Claim, PostLeg, PostLegFails, RecordLegSuccess, Retry,
       Wake, PostLeg2Reversal, PostLeg1Reversal, ReversalFails, WakeReversal, RecordReversal,
       Inspect, Derive
<1>4. th[g] \in Chain
  BY <1>1, <1>3 DEF Alone
<1> QED
  BY <1>1, <1>2, <1>4, ChainFields DEF Inspect, Derive

\* Its step leaves it on the chain or ends it, and touches no other goroutine.
LEMMA InlineStep ==
  ASSUME Ticker = "never", Base, Alone, NEW g \in Goroutine, Run(g) \/ Tick(g) \/ StatementLost(g)
  PROVE  \E t \in Chain \cup {Free} : th' = [th EXCEPT ![g] = t]
<1>1. th \in [Goroutine -> Thread] /\ th[g] \in Chain /\ ~Tick(g) /\ ~Inspect(g) /\ ~Derive(g)
  BY InlineActive
<1>2. th[g].leg \in {2, 3} /\ th[g].pc \notin {"inspect", "derive"}
  BY <1>1, ChainFields
<1> DEFINE Onward(phase) == At(phase, th[g].leg)
<1>3. \A phase \in GoroutinePhase \ {"free", "inspect", "derive"} : Onward(phase) \in Chain
  BY <1>2 DEF Chain
<1>4. At("claim", 3) \in Chain
  BY DEF Chain, GoroutinePhase
<1>5. ASSUME NEW phase \in GoroutinePhase \ {"free", "inspect", "derive"}, Goto(g, phase)
      PROVE  \E t \in Chain \cup {Free} : th' = [th EXCEPT ![g] = t]
  BY <1>1, <1>3, <1>5, InlineControl
<1>6. ASSUME Return(g, TRUE) \/ Return(g, FALSE)
      PROVE  \E t \in Chain \cup {Free} : th' = [th EXCEPT ![g] = t]
  BY <1>1, <1>4, <1>6, InlineControl
<1>7. ASSUME NEW h \in Goroutine, NEW phase \in GoroutinePhase \ {"free", "inspect", "derive"},
             Reschedule(g, h, phase)
      PROVE  \E t \in Chain \cup {Free} : th' = [th EXCEPT ![g] = t]
  BY <1>1, <1>3, <1>7, InlineControl
<1>8. CASE StatementLost(g)
  BY <1>2, <1>6, <1>8 DEF StatementLost
<1>9. CASE Run(g)
  <2> HIDE DEF Onward
  <2>1. CASE Claim(g) \/ RecordLegSuccess(g) \/ RecordReversal(g)
    BY <1>5, <1>6, <2>1 DEF Claim, RecordLegSuccess, RecordReversal, GoroutinePhase
  <2>2. CASE PostLeg(g) \/ PostLegFails(g) \/ Wake(g) \/ PostLeg2Reversal(g) \/ PostLeg1Reversal(g)
             \/ WakeReversal(g)
    BY <1>5, <2>2 DEF PostLeg, PostLegFails, Wake, PostLeg2Reversal, PostLeg1Reversal,
         WakeReversal, GoroutinePhase
  <2>3. CASE Retry(g) \/ ReversalFails(g)
    BY <1>5, <1>7, <2>3 DEF Retry, ReversalFails, GoroutinePhase
  <2> QED
    BY <1>1, <1>9, <2>1, <2>2, <2>3 DEF Run
<1> QED
  BY <1>1, <1>8, <1>9

(* Without a ticker no step starts a second chain. *)
LEMMA AloneStep == Ticker = "never" /\ Base /\ Alone /\ [Next]_vars => Alone'
<1> SUFFICES ASSUME Ticker = "never", Base, Alone, [Next]_vars PROVE Alone'
  OBVIOUS
<1>a. /\ th \in [Goroutine -> Thread] /\ sender \in [Caller -> SenderPhase]
      /\ status = "absent" => /\ \A g \in Goroutine : th[g] = Free
                              /\ \A c \in Caller : sender[c] # "respond"
  BY DEF Base, SagaTypeOK, RowOK, Thread
<1>1. CASE \E g \in Goroutine : Run(g) \/ Tick(g) \/ StatementLost(g)
  <2>1. PICK g \in Goroutine : Run(g) \/ Tick(g) \/ StatementLost(g)
    BY <1>1
  <2>2. PICK t \in Chain \cup {Free} : th' = [th EXCEPT ![g] = t]
    BY <2>1, InlineStep
  <2>3. th[g] # Free
    BY <2>1, InlineActive, ChainFields
  <2>4. UNCHANGED sender
    BY <2>1 DEF Run, Tick, StatementLost, Claim, PostLeg, PostLegFails, RecordLegSuccess, Retry,
         Wake, PostLeg2Reversal, PostLeg1Reversal, ReversalFails, WakeReversal, RecordReversal,
         Inspect, Derive
  <2> QED
    BY <1>a, <2>2, <2>3, <2>4 DEF Alone
<1>2. CASE \E c \in Caller : Send(c) \/ SendStep(c) \/ SendFails(c)
  <2>1. PICK c \in Caller : Send(c) \/ SendStep(c) \/ SendFails(c)
    BY <1>2
  <2>2. CASE TriggerForwardLegs(c)
    <3>1. [pc |-> "claim", leg |-> 2, mode |-> "inline"] \in Chain
      BY DEF Chain, At, GoroutinePhase
    <3> QED
      BY <1>a, <2>2, <3>1 DEF TriggerForwardLegs, GotoSend, Alone
  <2>3. CASE CreateTransferState(c)
    BY <1>a, <2>3 DEF CreateTransferState, GotoSend, Alone
  <2>4. CASE Send(c) \/ Existing(c) \/ Prepare(c) \/ PostLeg1(c) \/ SendFails(c)
    <3>1. PICK phase : phase # "respond" /\ sender' = [sender EXCEPT ![c] = phase]
      BY <2>4 DEF Send, Existing, Prepare, PostLeg1, SendFails, GotoSend
    <3>2. UNCHANGED th
      BY <2>4 DEF Send, Existing, Prepare, PostLeg1, SendFails
    <3> QED
      BY <1>a, <3>1, <3>2 DEF Alone
  <2> QED
    BY <2>1, <2>2, <2>3, <2>4 DEF SendStep
<1>3. CASE Crash
  BY <1>a, <1>3 DEF Crash, Alone, Answered
<1>4. CASE TimePasses \/ Revoke \/ OpenWallet \/ UNCHANGED vars
  BY <1>4 DEF TimePasses, Revoke, OpenWallet, vars, Alone
<1> QED
  BY <1>1, <1>2, <1>3, <1>4 DEF Next

(* At the start there is no chain at all. *)
LEMMA InitAlone == Init => Alone
BY DEF Init, Alone

\* As cmd/api wires it the coordinator never works on a transfer with two
\* goroutines, however often the transfer is sent, the process crashes or a
\* commit goes unheard of (transfer_coordinator.go:375-377).
THEOREM SingleChain == ASSUME Ticker = "never" PROVE Spec => []OneChain
<1>1. Alone => OneChain
  <2> SUFFICES ASSUME Alone PROVE OneChain
    OBVIOUS
  <2> DEFINE busy == {g \in Goroutine : th[g] # Free}
  <2>1. CASE busy = {}
    BY <2>1, FS_EmptySet DEF OneChain
  <2>2. CASE busy # {}
    <3>1. PICK g \in busy : TRUE
      BY <2>2
    <3>2. busy = {g}
      BY <3>1 DEF Alone
    <3> QED
      BY <3>2, FS_Singleton DEF OneChain
  <2> QED
    BY <2>1, <2>2
<1> QED
  BY <1>1, InitBase, BaseStep, InitAlone, AloneStep, PTL DEF Spec

-----------------------------------------------------------------------------
(* As long as no leg is given up on that has posted: the books follow the  *)
(* chain.  A posting may take effect unheard of any number of times, as    *)
(* long as an attempt within the budget replays it.                        *)

\* handleLegFailure compensates for a leg that has posted unheard of: it looks
\* at its count of attempts, not at the books.
CompensatesPosted ==
  \E g \in Goroutine : /\ th[g].pc = "post" /\ th'[g].pc \in {"undo1", "undo2"}
                       /\ Leg(th[g].leg) \in posted'

\* And handleReversalFailure gives up on a refund that has been made.
AbandonsRefund ==
  \E g \in Goroutine : th[g].pc = "undo1" /\ th'[g].pc = "halt" /\ Undo(1) \in posted'

\* A step that changes nothing decides nothing.
LEMMA StutterJudgesNothing == UNCHANGED vars => ~CompensatesPosted /\ ~AbandonsRefund
BY DEF vars, CompensatesPosted, AbandonsRefund

\* The attempts of a leg, after each of which it may have posted unheard of.
Forward == {"claim", "post", "retry", "sleep"}
Compensating == {"undo2", "undo2Sleep", "undo1", "undo1Sleep", "reversed", "halt"}

\* What the books and the row hold while goroutine g stands at t.
Stage(g, t) ==
  /\ status \in Due
  /\ t.leg = 3 \/ t.pc = "record" => "leg2" \in posted
  /\ "leg2" \in posted => t.leg = 3 \/ t.pc \in Forward \cup {"record"}
  /\ t.leg = 3 /\ t.pc = "record" => "leg3" \in posted
  /\ "leg3" \in posted => t.leg = 3 /\ t.pc \in Forward \cup {"record"}
  /\ t.pc = "reversed" => Undo(1) \in posted
  /\ Undo(1) \in posted => t.pc \in {"undo1", "undo1Sleep", "reversed", "halt"}
  /\ Undo(2) \in posted => t.leg = 3 /\ t.pc \in Compensating
  /\ t.leg = 3 /\ (t.pc \in {"undo1", "undo1Sleep", "reversed"} \/ Undo(1) \in posted) =>
       Undo(2) \in posted
  /\ t.pc \in {"undo2", "undo2Sleep"} => t.leg = 3
  /\ t.pc = "claim" => nextAt = "now"
  /\ t.pc = "sleep" => nextAt \in {"now", g}

Truth ==
  /\ LegsInOrder /\ PaidOrRefunded /\ StatusTruthful
  /\ Undo(2) \in posted => "leg3" \notin posted

ChainOK ==
  /\ \A g \in Goroutine : th[g] # Free => Stage(g, th[g])
  /\ \A c \in Caller : sender[c] = "respond" =>
       status = "pending" /\ nextAt = "now" /\ posted = {"leg1"}
  /\ Truth

\* A step of the chain is right if it leaves the right books for where it
\* goes, or ends with its status true.
LEMMA StageSuffices ==
  ASSUME Base', Alone, th \in [Goroutine -> Thread], NEW g \in Goroutine, th[g] \in Chain,
         NEW t \in Chain \cup {Free}, th' = [th EXCEPT ![g] = t], UNCHANGED sender,
         t # Free => Stage(g, t)', t = Free => Truth'
  PROVE  ChainOK'
<1>1. \A h \in Goroutine : th'[h] # Free => h = g /\ th'[h] = t
  BY ChainFields DEF Alone
<1>2. \A c \in Caller : sender'[c] # "respond"
  BY ChainFields DEF Alone
<1>3. Truth'
  <2>1. CASE t = Free
    BY <2>1
  <2>2. CASE t # Free
    <3>1. RowOK' /\ posted' \subseteq LegKey /\ t \in Chain
      BY <2>2 DEF Base, SagaTypeOK
    <3> QED
      BY <2>2, <3>1, ChainFields
        
            DEF RowOK, Stage, Forward, Compensating, Truth, LegsInOrder, PaidOrRefunded, StatusTruthful, Undo, Due, LegKey
  <2> QED
    BY <2>1, <2>2
<1> QED
  BY <1>1, <1>2, <1>3 DEF ChainOK

\* Every step of the chain does so.
LEMMA WorkChain ==
  ASSUME Ticker = "never", Base, Base', Alone, ChainOK, ~CompensatesPosted,
         NEW g \in Goroutine, Run(g) \/ Tick(g) \/ StatementLost(g)
  PROVE  ChainOK'
<1>a. /\ th \in [Goroutine -> Thread] /\ th[g] \in Chain
      /\ ~Tick(g) /\ ~Inspect(g) /\ ~Derive(g)
  BY InlineActive
<1>b. PICK l \in {2, 3} : th[g].leg = l /\ th[g].mode = "inline" /\ th[g] # Free
  BY <1>a, ChainFields
<1>c. Stage(g, th[g]) /\ Truth
  BY <1>b DEF ChainOK
<1>d. posted \subseteq LegKey /\ RowOK /\ RowOK' /\ "leg1" \in posted
  BY <1>b DEF Base, SagaTypeOK, RowOK
<1>e. UNCHANGED sender
  BY DEF Run, Tick, StatementLost, Claim, PostLeg, PostLegFails, RecordLegSuccess, Retry,
       Wake, PostLeg2Reversal, PostLeg1Reversal, ReversalFails, WakeReversal, RecordReversal,
       Inspect, Derive
<1>f. ASSUME NEW t \in Chain \cup {Free}, th' = [th EXCEPT ![g] = t],
             t # Free => Stage(g, t)', t = Free => Truth'
      PROVE  ChainOK'
  BY <1>a, <1>e, <1>f, StageSuffices
<1>g. \A phase \in GoroutinePhase \ {"free", "inspect", "derive"}, k \in {2, 3} :
        /\ At(phase, k) \in Chain /\ At(phase, k) # Free
        /\ At(phase, k).pc = phase /\ At(phase, k).leg = k
  BY DEF At, Chain, Free
<1>h. ASSUME NEW phase \in GoroutinePhase \ {"free", "inspect", "derive"},
             th' = [th EXCEPT ![g] = At(phase, l)], Stage(g, At(phase, l))'
      PROVE  ChainOK'
  BY <1>b, <1>f, <1>g, <1>h
<1>i. ASSUME th' = [th EXCEPT ![g] = Free], Truth'
      PROVE  ChainOK'
  BY <1>f, <1>i
<1>j. /\ \A phase : Goto(g, phase) => th' = [th EXCEPT ![g] = At(phase, l)]
      /\ l = 2 /\ Return(g, TRUE) => th' = [th EXCEPT ![g] = At("claim", 3)]
      /\ l = 3 /\ Return(g, TRUE) => th' = [th EXCEPT ![g] = Free]
      /\ Return(g, FALSE) => th' = [th EXCEPT ![g] = Free]
      /\ \A h \in Goroutine : \A phase :
           Reschedule(g, h, phase) => h = g /\ th' = [th EXCEPT ![g] = At(phase, l)]
  <2>1. /\ \A phase : Goto(g, phase) => th' = [th EXCEPT ![g] = At(phase, th[g].leg)]
        /\ Return(g, TRUE) => th' = [th EXCEPT ![g] = IF th[g].leg = 2 THEN At("claim", 3) ELSE Free]
        /\ Return(g, FALSE) => th' = [th EXCEPT ![g] = Free]
        /\ \A h \in Goroutine : \A phase :
             Reschedule(g, h, phase) => h = g /\ th' = [th EXCEPT ![g] = At(phase, th[g].leg)]
    BY <1>a, InlineControl
  <2>2. th[g].leg = l
    BY <1>b
  <2>3. /\ l = 2 => (IF th[g].leg = 2 THEN At("claim", 3) ELSE Free) = At("claim", 3)
        /\ l = 3 => (IF th[g].leg = 2 THEN At("claim", 3) ELSE Free) = Free
    BY <2>2
  <2>4. /\ l = 2 /\ Return(g, TRUE) => th' = [th EXCEPT ![g] = At("claim", 3)]
        /\ l = 3 /\ Return(g, TRUE) => th' = [th EXCEPT ![g] = Free]
    BY <2>1, <2>3, Zenon
  <2> QED
    BY <2>1, <2>2, <2>4, Zenon
<1>1. CASE Claim(g)
  <2>1. IsDue
    BY <1>1, <1>c DEF Claim, Stage, IsDue
  <2>2. th' = [th EXCEPT ![g] = At("post", l)]
    BY <1>1, <1>b, <1>j, <2>1 DEF Claim
  <2>3. Stage(g, At("post", l))'
    BY <1>1, <1>b, <1>c, <1>g, <2>1 DEF Claim, Stage, Forward, Compensating, bookVars, GoroutinePhase
  <2> QED
    BY <1>h, <2>2, <2>3 DEF GoroutinePhase
<1>2. CASE PostLeg(g)
  <2>1. th' = [th EXCEPT ![g] = At("record", l)]
    BY <1>2, <1>j DEF PostLeg
  <2>2. Stage(g, At("record", l))'
    BY <1>2, <1>b, <1>c, <1>g DEF PostLeg, Stage, Forward, Compensating, Leg, Undo, rowVars, GoroutinePhase
  <2> QED
    BY <1>h, <2>1, <2>2 DEF GoroutinePhase
<1>3. CASE PostLegFails(g)
  <2>1. posted' = posted \/ posted' = posted \cup {Leg(l)}
    BY <1>3, <1>b DEF PostLegFails
  <2>2. PICK phase \in {"retry", "undo1", "undo2"} :
          /\ Goto(g, phase)
          /\ phase = "undo1" => l = 2
          /\ phase = "undo2" => l = 3
    BY <1>3, <1>b DEF PostLegFails
  <2>3. th' = [th EXCEPT ![g] = At(phase, l)]
    BY <1>j, <2>2
  <2>5. phase # "retry" => Leg(l) \notin posted'
    <3>1. th[g].pc = "post" /\ th'[g].pc = phase
      BY <1>3, <1>a, <1>g, <2>3 DEF PostLegFails, GoroutinePhase
    <3> QED
      BY <1>b, <3>1 DEF CompensatesPosted
  <2>6. th[g].pc = "post" /\ UNCHANGED rowVars
    BY <1>3 DEF PostLegFails
  <2>4. Stage(g, At(phase, l))'
    <3>1. At(phase, l).pc = phase /\ At(phase, l).leg = l
      BY <1>g DEF GoroutinePhase
    <3> HIDE DEF At
    <3> QED
      BY <1>b, <1>c, <2>1, <2>2, <2>5, <2>6, <3>1
         DEF Stage, Undo, Leg, rowVars, Forward, Compensating
  <2> QED
    BY <1>h, <2>3, <2>4 DEF GoroutinePhase
<1>4. CASE RecordLegSuccess(g)
  <2>1. CASE l = 2
    <3>1. th' = [th EXCEPT ![g] = At("claim", 3)]
      BY <1>4, <1>b, <1>j, <2>1 DEF RecordLegSuccess
    <3>2. Stage(g, At("claim", 3))'
      BY <1>4, <1>b, <1>c, <1>g, <2>1
         DEF RecordLegSuccess, Advance, Stage, Forward, Compensating, Due, bookVars, Undo, GoroutinePhase
    <3>3. At("claim", 3) \in Chain \cup {Free} /\ At("claim", 3) # Free
      BY <1>g DEF GoroutinePhase
    <3> HIDE DEF At
    <3> QED
      BY <1>f, <3>1, <3>2, <3>3
  <2>2. CASE l = 3
    <3>1. th' = [th EXCEPT ![g] = Free]
      BY <1>4, <1>j, <2>2 DEF RecordLegSuccess
    <3>2. Truth'
      BY <1>4, <1>b, <1>c, <1>d, <2>2
        
            DEF RecordLegSuccess, Advance, Stage, Forward, Compensating, bookVars, Undo, Truth, LegsInOrder, PaidOrRefunded,
             StatusTruthful
    <3> QED
      BY <1>i, <3>1, <3>2
  <2> QED
    BY <2>1, <2>2
<1>5. CASE Retry(g)
  <2>1. th' = [th EXCEPT ![g] = At("sleep", l)] /\ status' = "retrying" /\ nextAt' = g
    <3>1. PICK h \in Goroutine : Reschedule(g, h, "sleep") /\ Advance("retrying", h)
      BY <1>5 DEF Retry
    <3> QED
      BY <1>j, <3>1 DEF Advance
  <2>2. Stage(g, At("sleep", l))'
    BY <1>5, <1>b, <1>c, <1>g, <2>1
       DEF Retry, Stage, Forward, Compensating, Due, bookVars, Undo, GoroutinePhase
  <2> QED
    BY <1>h, <2>1, <2>2 DEF GoroutinePhase
<1>6. CASE Wake(g)
  <2>1. th' = [th EXCEPT ![g] = At("claim", l)]
    BY <1>6, <1>j DEF Wake
  <2>2. Stage(g, At("claim", l))'
    BY <1>6, <1>b, <1>c, <1>g DEF Wake, Stage, Forward, Compensating, bookVars, rowVars, Undo, GoroutinePhase
  <2> QED
    BY <1>h, <2>1, <2>2 DEF GoroutinePhase
<1>7. CASE PostLeg2Reversal(g)
  <2>1. th' = [th EXCEPT ![g] = At("undo1", l)]
    BY <1>7, <1>j DEF PostLeg2Reversal
  <2>2. Stage(g, At("undo1", l))'
    BY <1>7, <1>b, <1>c, <1>g
       DEF PostLeg2Reversal, Stage, Forward, Compensating, rowVars, Undo, GoroutinePhase
  <2> QED
    BY <1>h, <2>1, <2>2 DEF GoroutinePhase
<1>8. CASE PostLeg1Reversal(g)
  <2>1. th' = [th EXCEPT ![g] = At("reversed", l)]
    BY <1>8, <1>j DEF PostLeg1Reversal
  <2>2. Stage(g, At("reversed", l))'
    BY <1>8, <1>b, <1>c, <1>g
       DEF PostLeg1Reversal, Stage, Forward, Compensating, rowVars, Undo, GoroutinePhase
  <2> QED
    BY <1>h, <2>1, <2>2 DEF GoroutinePhase
<1>9. CASE ReversalFails(g)
  <2>1. PICK n \in {1, 2} : ReversalFails(g)!(n)
    BY <1>9 DEF ReversalFails
  <2>2. PICK phase \in {"halt", "undo1Sleep", "undo2Sleep"} :
          /\ th' = [th EXCEPT ![g] = At(phase, l)]
          /\ phase # "halt" => phase = IF n = 1 THEN "undo1Sleep" ELSE "undo2Sleep"
    BY <1>j, <2>1
  <2>3. /\ th[g].pc = IF n = 1 THEN "undo1" ELSE "undo2"
        /\ posted' = posted \/ posted' = posted \cup {Undo(n)}
        /\ UNCHANGED rowVars
    BY <2>1
  <2>4. Stage(g, At(phase, l))'
    <3>1. At(phase, l).pc = phase /\ At(phase, l).leg = l
      BY <1>g DEF GoroutinePhase
    <3> HIDE DEF At
    <3> QED
      BY <1>b, <1>c, <2>2, <2>3, <3>1 DEF Stage, rowVars, Undo, Forward, Compensating
  <2> QED
    BY <1>h, <2>2, <2>4 DEF GoroutinePhase
<1>10. CASE WakeReversal(g)
  <2>1. PICK phase \in {"undo1", "undo2"} :
          /\ Goto(g, phase)
          /\ th[g].pc = IF phase = "undo1" THEN "undo1Sleep" ELSE "undo2Sleep"
    BY <1>10 DEF WakeReversal
  <2>2. th' = [th EXCEPT ![g] = At(phase, l)]
    BY <1>b, <1>j, <2>1
  <2>3. Stage(g, At(phase, l))'
    BY <1>10, <1>b, <1>c, <1>g, <2>1
       DEF WakeReversal, Stage, Forward, Compensating, bookVars, rowVars, Undo, GoroutinePhase
  <2> QED
    BY <1>h, <2>2, <2>3 DEF GoroutinePhase
<1>11. CASE RecordReversal(g)
  <2>1. th' = [th EXCEPT ![g] = Free]
    BY <1>11, <1>j DEF RecordReversal
  <2>2. Truth'
    BY <1>11, <1>b, <1>c, <1>d
      
          DEF RecordReversal, Advance, Stage, Forward, Compensating, bookVars, Undo, Truth, LegsInOrder, PaidOrRefunded,
           StatusTruthful
  <2> QED
    BY <1>i, <2>1, <2>2
<1>12. CASE StatementLost(g)
  <2>1. th' = [th EXCEPT ![g] = Free]
    <3>1. Return(g, FALSE)
      BY <1>12, <1>a, ChainFields DEF StatementLost
    <3> QED
      BY <1>j, <3>1
  <2>2. Truth'
    BY <1>12, <1>a, <1>b, <1>c, <1>d, ChainFields
      
          DEF StatementLost, Advance, Stage, Forward, Compensating, bookVars, rowVars, Undo, Due, Truth, LegsInOrder,
           PaidOrRefunded, StatusTruthful
  <2> QED
    BY <1>i, <2>1, <2>2
<1> QED
  BY <1>1, <1>2, <1>3, <1>4, <1>5, <1>6, <1>7, <1>8, <1>9, <1>10, <1>11, <1>12, <1>a DEF Run

\* A step of a SendTransfer call leaves the chain to the one that begins it.
LEMMA SendChain ==
  ASSUME Base, Base', Alone, ChainOK, NEW c \in Caller, Send(c) \/ SendStep(c) \/ SendFails(c)
  PROVE  ChainOK'
<1>a. /\ th \in [Goroutine -> Thread] /\ sender \in [Caller -> SenderPhase] /\ posted \subseteq LegKey
      /\ RowOK /\ RowOK'
  BY DEF Base, SagaTypeOK, Thread
<1>b. Truth
  BY DEF ChainOK
<1>1. CASE Send(c) \/ Existing(c) \/ Prepare(c) \/ SendFails(c)
  <2>1. PICK phase : phase # "respond" /\ sender' = [sender EXCEPT ![c] = phase]
    BY <1>1 DEF Send, Existing, Prepare, SendFails, GotoSend
  <2>2. UNCHANGED <<th, posted, status, nextAt>>
    BY <1>1 DEF Send, Existing, Prepare, SendFails, bookVars, rowVars
  <2> QED
    BY <1>a, <2>1, <2>2
       DEF ChainOK, Stage, Forward, Compensating, Truth, LegsInOrder, PaidOrRefunded, StatusTruthful
<1>2. CASE PostLeg1(c)
  <2>1. PICK phase : phase # "respond" /\ sender' = [sender EXCEPT ![c] = phase]
    BY <1>2 DEF PostLeg1, GotoSend
  <2>2. UNCHANGED <<th, status, nextAt>>
    BY <1>2 DEF PostLeg1, rowVars
  <2>3. CASE UNCHANGED posted
    BY <1>a, <2>1, <2>2, <2>3
       DEF ChainOK, Stage, Forward, Compensating, Truth, LegsInOrder, PaidOrRefunded, StatusTruthful
  <2>4. CASE "leg1" \notin posted /\ posted' = posted \cup {"leg1"}
    <3>1. status = "absent" /\ posted' = {"leg1"} /\ \A d \in Caller : sender'[d] # "respond"
      BY <1>a, <2>1, <2>4 DEF RowOK
    <3>2. \A g \in Goroutine : th'[g] = Free
      BY <1>a, <2>2, <3>1 DEF RowOK
    <3> QED
      BY <2>2, <3>1, <3>2
         DEF ChainOK, Truth, LegsInOrder, PaidOrRefunded, StatusTruthful, Undo
  <2> QED
    BY <1>2, <2>3, <2>4 DEF PostLeg1, bookVars
<1>3. CASE CreateTransferState(c)
  <2>1. UNCHANGED <<th, posted>>
    BY <1>3 DEF CreateTransferState, bookVars
  <2>2. CASE status # "absent"
    BY <1>3, <1>a, <2>1, <2>2
      
          DEF CreateTransferState, GotoSend, rowVars, ChainOK, Stage, Forward, Compensating, Truth, LegsInOrder, PaidOrRefunded,
           StatusTruthful
  <2>3. CASE status = "absent"
    <3>1. status' = "pending" /\ nextAt' = "now" /\ posted' = {"leg1"}
      BY <1>3, <1>a, <2>1, <2>3 DEF CreateTransferState, RowOK
    <3>2. \A g \in Goroutine : th'[g] = Free
      BY <1>a, <2>1, <2>3 DEF RowOK
    <3> QED
      BY <3>1, <3>2 DEF ChainOK, Truth, LegsInOrder, PaidOrRefunded, StatusTruthful, Undo
  <2> QED
    BY <2>2, <2>3
<1>4. CASE TriggerForwardLegs(c)
  <2>1. PICK g \in Goroutine : th' = [th EXCEPT ![g] = At("claim", 2)]
    BY <1>4 DEF TriggerForwardLegs, At
  <2>2. UNCHANGED <<posted, status, nextAt>> /\ sender' = [sender EXCEPT ![c] = "accepted"]
    BY <1>4 DEF TriggerForwardLegs, bookVars, rowVars, GotoSend
  <2>3. /\ status = "pending" /\ nextAt = "now" /\ posted = {"leg1"}
        /\ \A h \in Goroutine : th[h] = Free
        /\ \A d \in Caller : sender'[d] # "respond"
    BY <1>4, <1>a, <2>2 DEF TriggerForwardLegs, ChainOK, Alone
  <2>4. Stage(g, At("claim", 2))'
    BY <2>2, <2>3 DEF Stage, Forward, Compensating, At, Due, Undo
  <2>5. \A h \in Goroutine : th'[h] # Free => h = g /\ th'[h] = At("claim", 2)
    BY <1>a, <2>1, <2>3
  <2>6. Truth'
    BY <1>b, <2>2 DEF Truth, LegsInOrder, PaidOrRefunded, StatusTruthful
  <2> QED
    BY <2>3, <2>4, <2>5, <2>6 DEF ChainOK
<1> QED
  BY <1>1, <1>2, <1>3, <1>4 DEF SendStep

(* Time, a crash, a revocation and a new wallet leave the books of the
   transfer and its row as they are. *)
LEMMA RestChain ==
  ASSUME Base, ChainOK, TimePasses \/ Crash \/ Revoke \/ OpenWallet \/ UNCHANGED vars
  PROVE  ChainOK'
<1> USE
   DEF ChainOK, Stage, Forward, Compensating, Truth, LegsInOrder, PaidOrRefunded, StatusTruthful, bookVars, rowVars
<1>1. CASE TimePasses
  BY <1>1 DEF TimePasses
<1>2. CASE Crash
  BY <1>2 DEF Crash, Answered
<1>3. CASE Revoke \/ OpenWallet \/ UNCHANGED vars
  BY <1>3 DEF Revoke, OpenWallet, vars
<1> QED
  BY <1>1, <1>2, <1>3

\* No step forgets a commit that was not heard of.
LEMMA UnheardGrows ==
  ASSUME Base, [Next]_vars
  PROVE  unheard' \in Nat /\ unheard \in Nat /\ unheard' >= unheard
<1>1. unheard \in Nat
  BY DEF Base, SagaTypeOK
<1>2. unheard' = unheard \/ unheard' = unheard + 1
  BY DEF Next, Send, SendStep, SendFails, Existing, Prepare, PostLeg1, CreateTransferState,
       TriggerForwardLegs, Run, Tick, StatementLost, Claim, PostLeg, PostLegFails, RecordLegSuccess,
       Retry, Wake, PostLeg2Reversal, PostLeg1Reversal, ReversalFails, WakeReversal, RecordReversal,
       Inspect, Derive, TimePasses, Crash, Revoke, OpenWallet, vars, faultVars
<1> QED
  BY <1>1, <1>2

\* The inductive invariant of the wired coordinator while it compensates only
\* for legs that have not posted.
ChainInv == Base /\ Alone /\ ChainOK

(* Its step: a goroutine's is WorkChain's, whoever else takes one leaves the
   chain to it. *)
LEMMA ChainInvStep ==
  Ticker = "never" /\ ChainInv /\ ~CompensatesPosted /\ [Next]_vars => ChainInv'
<1> SUFFICES ASSUME Ticker = "never", ChainInv, ~CompensatesPosted, [Next]_vars PROVE ChainInv'
  OBVIOUS
<1>1. Base' /\ Alone'
  BY BaseStep, AloneStep DEF ChainInv
<1> QED
  BY <1>1, WorkChain, SendChain, RestChain DEF ChainInv, Next

(* The start satisfies the invariant. *)
LEMMA InitChainInv == Init => ChainInv
<1> SUFFICES ASSUME Init PROVE ChainOK
  BY InitBase, InitAlone DEF ChainInv
<1> QED
  BY DEF Init, ChainOK, Truth, LegsInOrder, PaidOrRefunded, StatusTruthful, Undo

\* Commits may go unheard of, the process crash and its statements be lost any
\* number of times: legs post and are undone in order
\* (transfer_coordinator.go:655-656, 1053-1055), the money is never on both
\* sides and GET /transfers/{id} reports what the books hold, unless the last
\* attempt of a leg fails although one of them has posted it.
THEOREM RightUnlessMisjudged ==
  ASSUME Ticker = "never"
  PROVE  Spec /\ [][~CompensatesPosted]_vars => [](LegsInOrder /\ PaidOrRefunded /\ StatusTruthful)
<1>1. ChainInv => LegsInOrder /\ PaidOrRefunded /\ StatusTruthful
  BY DEF ChainInv, ChainOK, Truth
<1>2. ChainInv /\ [Next]_vars /\ [~CompensatesPosted]_vars => ChainInv'
  BY ChainInvStep, StutterJudgesNothing
<1> QED
  BY <1>1, <1>2, InitChainInv, PTL DEF Spec

-----------------------------------------------------------------------------
(* As long as every commit has been heard of, no posting is misjudged.     *)

\* What a goroutine still tries to post has not posted.
Awaits(t) ==
  /\ t.pc \in Forward => Leg(t.leg) \notin posted
  /\ t.pc \in {"undo1", "undo1Sleep", "halt"} => Undo(1) \notin posted

Heard == \A g \in Goroutine : Awaits(th[g])

\* A step whose commit is heard of keeps it so, and gives up on no posting.
LEMMA WorkHeard ==
  ASSUME Ticker = "never", Base, Alone, ChainOK, Heard, UNCHANGED unheard,
         NEW g \in Goroutine, Run(g) \/ Tick(g) \/ StatementLost(g)
  PROVE  Heard'
<1>a. /\ th \in [Goroutine -> Thread] /\ th[g] \in Chain
      /\ ~Tick(g) /\ ~Inspect(g) /\ ~Derive(g)
  BY InlineActive
<1>b. PICK l \in {2, 3} : th[g].leg = l /\ th[g] # Free
  BY <1>a, ChainFields
<1>c. Stage(g, th[g]) /\ Awaits(th[g])
  BY <1>b DEF ChainOK, Heard
<1>d. ASSUME NEW t, th' = [th EXCEPT ![g] = t], Awaits(t)'
      PROVE  Heard'
  <2>1. \A h \in Goroutine : h # g => th'[h] = Free
    BY <1>a, <1>b, <1>d DEF Alone
  <2>2. Awaits(Free)'
    BY DEF Awaits, Free, Forward
  <2> QED
    BY <1>a, <1>d, <2>1, <2>2 DEF Heard
<1>e. ASSUME NEW phase \in GoroutinePhase, th' = [th EXCEPT ![g] = At(phase, l)],
             phase \in Forward => Leg(l) \notin posted',
             phase \in {"undo1", "undo1Sleep", "halt"} => Undo(1) \notin posted'
      PROVE  Heard'
  <2>1. Awaits(At(phase, l))'
    BY <1>e DEF Awaits, At
  <2> QED
    BY <1>d, <1>e, <2>1
<1>f. ASSUME th' = [th EXCEPT ![g] = Free] PROVE Heard'
  BY <1>d, <1>f DEF Awaits, Free, Forward
<1>g. /\ \A phase : Goto(g, phase) => th' = [th EXCEPT ![g] = At(phase, l)]
      /\ Return(g, FALSE) => th' = [th EXCEPT ![g] = Free]
      /\ \A h \in Goroutine : \A phase :
           Reschedule(g, h, phase) => h = g /\ th' = [th EXCEPT ![g] = At(phase, l)]
  BY <1>a, <1>b, InlineControl, Zenon
<1>h. Return(g, TRUE) => th' = [th EXCEPT ![g] = IF l = 2 THEN At("claim", 3) ELSE Free]
  BY <1>a, <1>b, InlineControl
<1>1. CASE Claim(g)
  <2>1. IsDue
    BY <1>1, <1>c DEF Claim, Stage, IsDue
  <2>2. th' = [th EXCEPT ![g] = At("post", l)]
    BY <1>1, <1>a, <1>g, <2>1, ChainFields DEF Claim
  <2> QED
    BY <1>1, <1>b, <1>c, <1>e, <2>2 DEF Claim, bookVars, Awaits, Forward, GoroutinePhase
<1>2. CASE PostLeg(g)
  BY <1>2, <1>e, <1>g DEF PostLeg, Forward, GoroutinePhase
<1>3. CASE PostLegFails(g)
  <2>1. UNCHANGED posted
    BY <1>3 DEF PostLegFails, Base, SagaTypeOK
  <2>2. PICK phase \in {"retry", "undo1", "undo2"} : th' = [th EXCEPT ![g] = At(phase, l)]
    BY <1>3, <1>b, <1>g DEF PostLegFails
  <2>3. th[g].pc = "post"
    BY <1>3 DEF PostLegFails
  <2> QED
    BY <1>b, <1>c, <1>e, <2>1, <2>2, <2>3 DEF Awaits, Stage, Forward, GoroutinePhase
<1>4. CASE RecordLegSuccess(g)
  <2>1. CASE l = 2
    <3>1. th' = [th EXCEPT ![g] = At("claim", 3)] /\ "leg3" \notin posted'
      BY <1>4, <1>b, <1>c, <1>h, <2>1 DEF RecordLegSuccess, Stage, bookVars
    <3>2. Awaits(At("claim", 3))'
      BY <3>1 DEF Awaits, At, Leg
    <3> QED
      BY <1>d, <3>1, <3>2
  <2>2. CASE l = 3
    BY <1>4, <1>f, <1>h, <2>2 DEF RecordLegSuccess
  <2> QED
    BY <2>1, <2>2
<1>5. CASE Retry(g) \/ Wake(g)
  <2>1. PICK phase \in {"sleep", "claim"} : th' = [th EXCEPT ![g] = At(phase, l)]
    BY <1>5, <1>g DEF Retry, Wake
  <2>2. UNCHANGED posted /\ th[g].pc \in Forward
    BY <1>5 DEF Retry, Wake, bookVars, Forward
  <2> QED
    BY <1>b, <1>c, <1>e, <2>1, <2>2 DEF Awaits, GoroutinePhase
<1>6. CASE PostLeg2Reversal(g)
  BY <1>6, <1>c, <1>e, <1>g DEF PostLeg2Reversal, Stage, Undo, Forward, GoroutinePhase
<1>7. CASE PostLeg1Reversal(g)
  BY <1>7, <1>e, <1>g DEF PostLeg1Reversal, Forward, GoroutinePhase
<1>8. CASE ReversalFails(g)
  <2>1. UNCHANGED posted
    BY <1>8 DEF ReversalFails, Base, SagaTypeOK
  <2>2. PICK phase \in {"halt", "undo1Sleep", "undo2Sleep"} : th' = [th EXCEPT ![g] = At(phase, l)]
    BY <1>8, <1>g DEF ReversalFails
  <2>3. th[g].pc \in {"undo1", "undo2"}
    BY <1>8 DEF ReversalFails
  <2> QED
    BY <1>c, <1>e, <2>1, <2>2, <2>3 DEF Awaits, Stage, Forward, GoroutinePhase
<1>9. CASE WakeReversal(g)
  <2>1. PICK phase \in {"undo1", "undo2"} :
          /\ th' = [th EXCEPT ![g] = At(phase, l)]
          /\ phase = "undo1" => th[g].pc = "undo1Sleep"
    BY <1>9, <1>g DEF WakeReversal
  <2>2. UNCHANGED posted
    BY <1>9 DEF WakeReversal, bookVars
  <2> QED
    BY <1>c, <1>e, <2>1, <2>2 DEF Awaits, Forward, GoroutinePhase
<1>10. CASE RecordReversal(g) \/ StatementLost(g)
  <2>1. Return(g, FALSE)
    BY <1>10, <1>a, ChainFields DEF RecordReversal, StatementLost
  <2> QED
    BY <1>f, <1>g, <2>1
<1> QED
  BY <1>1, <1>2, <1>3, <1>4, <1>5, <1>6, <1>7, <1>8, <1>9, <1>10, <1>a DEF Run

\* Which steps post, when the caller of each hears of it.
LEMMA HeardPostings ==
  ASSUME Base, UNCHANGED unheard, [Next]_vars, NEW key \in posted' \ posted
  PROVE  \/ key = "leg1"
         \/ \E g \in Goroutine : \/ PostLeg(g) /\ key = Leg(th[g].leg)
                                 \/ PostLeg2Reversal(g) /\ key = Undo(2)
                                 \/ PostLeg1Reversal(g) /\ key = Undo(1)
<1>a. unheard # unheard + 1
  BY DEF Base, SagaTypeOK
<1>1. CASE \E g \in Goroutine : Run(g) \/ Tick(g) \/ StatementLost(g)
  <2>1. PICK g \in Goroutine : Run(g) \/ Tick(g) \/ StatementLost(g)
    BY <1>1
  <2>2. CASE PostLeg(g) \/ PostLeg2Reversal(g) \/ PostLeg1Reversal(g)
    BY <2>2 DEF PostLeg, PostLeg2Reversal, PostLeg1Reversal
  <2>3. CASE PostLegFails(g) \/ ReversalFails(g)
    BY <1>a, <2>3 DEF PostLegFails, ReversalFails
  <2> QED
    BY <2>1, <2>2, <2>3
       DEF Run, Tick, StatementLost, Claim, RecordLegSuccess, Retry, Wake, WakeReversal,
           RecordReversal, Inspect, Derive, bookVars
<1>2. CASE \E c \in Caller : Send(c) \/ SendStep(c) \/ SendFails(c)
  BY <1>2 DEF Send, SendStep, SendFails, Existing, Prepare, PostLeg1, CreateTransferState,
       TriggerForwardLegs, bookVars
<1> QED
  BY <1>1, <1>2 DEF Next, TimePasses, Crash, Revoke, OpenWallet, vars, bookVars

\* A commit that is heard of is not given up on.
LEMMA HeardJudgesRight ==
  ASSUME Ticker = "never", Base, Alone, Heard, UNCHANGED unheard, [Next]_vars
  PROVE  ~CompensatesPosted /\ ~AbandonsRefund
<1>a. th \in [Goroutine -> Thread] /\ Free.pc = "free"
  BY DEF Base, SagaTypeOK, Thread, Free
<1>b. \A h \in Goroutine :
        PostLeg(h) \/ PostLeg1Reversal(h) \/ PostLeg2Reversal(h) =>
          th'[h].pc \in {"record", "reversed", "undo1"} /\ th[h] # Free
              /\ (th'[h].pc = "undo1" => PostLeg2Reversal(h))
  <2> SUFFICES ASSUME NEW h \in Goroutine, PostLeg(h) \/ PostLeg1Reversal(h) \/ PostLeg2Reversal(h)
               PROVE  /\ th'[h].pc \in {"record", "reversed", "undo1"} /\ th[h] # Free
                      /\ th'[h].pc = "undo1" => PostLeg2Reversal(h)
    OBVIOUS
  <2>1. th[h] # Free
    BY <1>a DEF PostLeg, PostLeg1Reversal, PostLeg2Reversal
  <2>2. /\ PostLeg(h) => th'[h].pc = "record"
        /\ PostLeg1Reversal(h) => th'[h].pc = "reversed"
        /\ PostLeg2Reversal(h) => th'[h].pc = "undo1"
    BY <1>a DEF PostLeg, PostLeg1Reversal, PostLeg2Reversal, Goto, Thread
  <2> QED
    BY <2>1, <2>2
<1>1. ASSUME NEW g \in Goroutine, th[g].pc = "post", th'[g].pc \in {"undo1", "undo2"},
             Leg(th[g].leg) \in posted'
      PROVE  FALSE
  <2>1. Leg(th[g].leg) \in posted' \ posted /\ Leg(th[g].leg) \in {"leg2", "leg3"}
    BY <1>1 DEF Heard, Awaits, Forward, Leg
  <2>2. PICK h \in Goroutine : PostLeg(h)
    BY <2>1, HeardPostings DEF Undo
  <2>3. h = g
    BY <1>a, <1>b, <1>1, <2>2 DEF Alone
  <2> QED
    BY <1>1, <1>b, <2>2, <2>3 DEF PostLeg2Reversal
<1>2. ASSUME NEW g \in Goroutine, th[g].pc = "undo1", th'[g].pc = "halt", Undo(1) \in posted'
      PROVE  FALSE
  <2>1. Undo(1) \in posted' \ posted
    BY <1>2 DEF Heard, Awaits
  <2>2. PICK h \in Goroutine : PostLeg1Reversal(h)
    BY <2>1, HeardPostings DEF Undo, Leg
  <2>3. h = g
    BY <1>a, <1>b, <1>2, <2>2 DEF Alone
  <2> QED
    BY <1>2, <1>b, <2>2, <2>3
<1> QED
  BY <1>1, <1>2 DEF CompensatesPosted, AbandonsRefund

(* Whoever is not a goroutine posts leg 1 at most, and begins the chain where
   nothing else has posted. *)
LEMMA RestHeard ==
  ASSUME Base, Alone, ChainOK, Heard,
         \/ \E c \in Caller : Send(c) \/ SendStep(c) \/ SendFails(c)
         \/ TimePasses \/ Crash \/ Revoke \/ OpenWallet \/ UNCHANGED vars
  PROVE  Heard'
<1> USE DEF Heard, Awaits, Forward, Leg, Undo, bookVars
<1>1. CASE \E c \in Caller : Send(c) \/ SendStep(c) \/ SendFails(c)
  <2>1. PICK c \in Caller : Send(c) \/ SendStep(c) \/ SendFails(c)
    BY <1>1
  <2>2. CASE TriggerForwardLegs(c)
    <3>1. PICK g \in Goroutine : th' = [th EXCEPT ![g] = [pc |-> "claim", leg |-> 2, mode |-> "inline"]]
      BY <2>2 DEF TriggerForwardLegs
    <3>2. posted' = {"leg1"} /\ th \in [Goroutine -> Thread]
      BY <2>2 DEF TriggerForwardLegs, ChainOK, Base, SagaTypeOK, Thread
    <3>3. \A h \in Goroutine : th'[h] = IF h = g THEN [pc |-> "claim", leg |-> 2, mode |-> "inline"] ELSE th[h]
      BY <3>1, <3>2
    <3> HIDE DEF Heard
    <3>4. ASSUME NEW h \in Goroutine
          PROVE  /\ th'[h].pc \in Forward => Leg(th'[h].leg) \notin posted'
                 /\ th'[h].pc \in {"undo1", "undo1Sleep", "halt"} => Undo(1) \notin posted'
      BY <3>2, <3>3 DEF Heard
    <3> QED
      BY <3>4 DEF Heard
  <2>3. CASE ~TriggerForwardLegs(c)
    <3>1. UNCHANGED th /\ posted' \subseteq posted \cup {"leg1"}
      BY <2>1, <2>3 DEF Send, SendStep, SendFails, Existing, Prepare, PostLeg1, CreateTransferState
    <3> QED
      BY <3>1
  <2> QED
    BY <2>2, <2>3
<1>2. CASE Crash
  BY <1>2 DEF Crash, Free
<1>3. CASE TimePasses \/ Revoke \/ OpenWallet \/ UNCHANGED vars
  BY <1>3 DEF TimePasses, Revoke, OpenWallet, vars
<1> QED
  BY <1>1, <1>2, <1>3

\* The inductive invariant of the coordinator as it is wired.
IInv == Base /\ Alone /\ (unheard = 0 => ChainOK /\ Heard)

(* The start satisfies the invariant. *)
LEMMA InitIInv == Init => IInv
BY InitChainInv DEF Init, IInv, ChainInv, Heard, Awaits, Free, Forward

(* The step of the induction for the coordinator as it is wired. *)
LEMMA IInvStep == Ticker = "never" /\ IInv /\ [Next]_vars => IInv'
<1> SUFFICES ASSUME Ticker = "never", IInv, [Next]_vars PROVE IInv'
  OBVIOUS
<1>1. Base' /\ Alone'
  BY BaseStep, AloneStep DEF IInv
<1>2. ASSUME unheard' = 0 PROVE ChainOK' /\ Heard'
  <2>1. unheard = 0 /\ UNCHANGED unheard /\ ChainInv /\ Heard
    BY <1>2, UnheardGrows DEF IInv, ChainInv
  <2>2. ChainInv'
    BY <2>1, HeardJudgesRight, ChainInvStep DEF ChainInv
  <2>3. Heard'
    BY <2>1, WorkHeard, RestHeard DEF ChainInv, Next
  <2> QED
    BY <2>2, <2>3 DEF ChainInv
<1> QED
  BY <1>1, <1>2 DEF IInv

\* The invariant of the wired coordinator holds in every state it reaches.
THEOREM Inductive == ASSUME Ticker = "never" PROVE Spec => []IInv
BY InitIInv, IInvStep, PTL DEF Spec

\* A commit that is heard of is never misjudged: in a run in which all are, the
\* conditions of RightUnlessMisjudged and PromiseKeptUnlessMisjudged hold.
THEOREM HeardIsNeverMisjudged ==
  ASSUME Ticker = "never"
  PROVE  Spec /\ [](unheard = 0) => [][~CompensatesPosted /\ ~AbandonsRefund]_vars
<1>1. IInv /\ unheard = 0 /\ (unheard = 0)' /\ [Next]_vars => ~CompensatesPosted /\ ~AbandonsRefund
  BY HeardJudgesRight DEF IInv
<1> QED
  BY <1>1, Inductive, PTL DEF Spec

\* As long as no commit has gone unheard of, legs post and are undone in order
\* (transfer_coordinator.go:655-656, 1053-1055), whatever fails, crashes or is
\* lost, and for every retry budget.
THEOREM LegsPostInOrder == ASSUME Ticker = "never" PROVE Spec => [](unheard = 0 => LegsInOrder)
<1>1. IInv => (unheard = 0 => LegsInOrder)
  BY DEF IInv, ChainOK, Truth
<1> QED
  BY <1>1, Inductive, PTL

\* And the money is never with the receiver and back with the sender as well.
THEOREM OneSideIsPaid == ASSUME Ticker = "never" PROVE Spec => [](unheard = 0 => PaidOrRefunded)
<1>1. IInv => (unheard = 0 => PaidOrRefunded)
  BY DEF IInv, ChainOK, Truth
<1> QED
  BY <1>1, Inductive, PTL

\* And GET /transfers/{id} reports what the books hold.
THEOREM StatusIsTrue == ASSUME Ticker = "never" PROVE Spec => [](unheard = 0 => StatusTruthful)
<1>1. IInv => (unheard = 0 => StatusTruthful)
  BY DEF IInv, ChainOK, Truth
<1> QED
  BY <1>1, Inductive, PTL

-----------------------------------------------------------------------------
(* The refinement.                                                         *)

PromiseStep == [Promise!Next]_(Promise!vars)

\* A reversal that has given up has not made its refund.
Refunds == \A g \in Goroutine : th[g].pc = "halt" => Undo(1) \notin posted

PromiseInv == ChainInv /\ Refunds

(* Only handleReversalFailure halts a goroutine, and only where leg 1's
   reversal has not posted. *)
LEMMA RefundsStep ==
  ASSUME Ticker = "never", ChainInv, Refunds, ~AbandonsRefund, [Next]_vars
  PROVE  Refunds'
<1>a. th \in [Goroutine -> Thread] /\ Base /\ Alone /\ Free.pc = "free"
  BY DEF ChainInv, Base, SagaTypeOK, Thread, Free
<1>1. CASE \E g \in Goroutine : Run(g) \/ Tick(g) \/ StatementLost(g)
  <2>1. PICK g \in Goroutine : Run(g) \/ Tick(g) \/ StatementLost(g)
    BY <1>1
  <2>2. PICK t \in Chain \cup {Free} : th' = [th EXCEPT ![g] = t]
    BY <1>a, <2>1, InlineStep
  <2>3. th[g] \in Chain /\ ~Tick(g) /\ ~Inspect(g) /\ ~Derive(g)
    BY <1>a, <2>1, InlineActive
  <2>4. \A h \in Goroutine : th'[h].pc = "halt" => h = g
    BY <1>a, <2>2, <2>3, ChainFields DEF Alone
  <2>5. ASSUME th'[g].pc = "halt" PROVE ReversalFails(g)
    <3>1. /\ \A phase : Goto(g, phase) => th'[g].pc = phase
          /\ Return(g, TRUE) \/ Return(g, FALSE) => th'[g].pc # "halt"
          /\ \A h \in Goroutine : \A phase : Reschedule(g, h, phase) => th'[g].pc = phase
      <4>1. /\ \A phase : Goto(g, phase) => th' = [th EXCEPT ![g] = At(phase, th[g].leg)]
            /\ Return(g, TRUE) => th' = [th EXCEPT ![g] = IF th[g].leg = 2 THEN At("claim", 3) ELSE Free]
            /\ Return(g, FALSE) => th' = [th EXCEPT ![g] = Free]
            /\ \A h \in Goroutine : \A phase :
                 Reschedule(g, h, phase) => th' = [th EXCEPT ![g] = At(phase, th[g].leg)]
        BY <1>a, <2>3, InlineControl
      <4>2. \A t2 : th' = [th EXCEPT ![g] = t2] => th'[g] = t2
        BY <1>a
      <4>3. (\A phase, l : At(phase, l).pc = phase) /\ Free.pc # "halt"
        BY DEF At, Free
      <4>4. (IF th[g].leg = 2 THEN At("claim", 3) ELSE Free).pc # "halt"
        BY <4>3
      <4> HIDE DEF At
      <4>5. ASSUME NEW phase, Goto(g, phase) PROVE th'[g].pc = phase
        BY <4>1, <4>2, <4>3, <4>5
      <4>6. Return(g, TRUE) \/ Return(g, FALSE) => th'[g].pc # "halt"
        BY <4>1, <4>2, <4>3, <4>4, Zenon
      <4>7. ASSUME NEW h \in Goroutine, NEW phase, Reschedule(g, h, phase) PROVE th'[g].pc = phase
        BY <4>1, <4>2, <4>3, <4>7
      <4> QED
        BY <4>5, <4>6, <4>7
    <3> QED
      BY <2>1, <2>3, <2>5, <3>1, ChainFields
         DEF Run, StatementLost, Claim, PostLeg, PostLegFails, RecordLegSuccess, Retry, Wake,
             PostLeg2Reversal, PostLeg1Reversal, WakeReversal, RecordReversal
  <2>6. ASSUME th'[g].pc = "halt" PROVE Undo(1) \notin posted'
    <3>1. PICK n \in {1, 2} : ReversalFails(g)!(n)
      BY <2>5, <2>6 DEF ReversalFails
    <3>2. CASE n = 1
      BY <2>6, <3>1, <3>2 DEF AbandonsRefund
    <3>3. CASE n = 2
      <4>1. th[g].pc = "undo2" /\ posted' \subseteq posted \cup {Undo(2)}
        BY <3>1, <3>3
      <4>2. Stage(g, th[g])
        BY <2>3, ChainFields DEF ChainInv, ChainOK
      <4> QED
        BY <4>1, <4>2 DEF Stage, Undo
    <3> QED
      BY <3>2, <3>3
  <2> QED
    BY <2>4, <2>6 DEF Refunds
<1>2. CASE \E c \in Caller : Send(c) \/ SendStep(c) \/ SendFails(c)
  <2>1. posted' \subseteq posted \cup {"leg1"}
    BY <1>2 DEF Send, SendStep, SendFails, Existing, Prepare, PostLeg1, CreateTransferState,
         TriggerForwardLegs, bookVars
  <2>2. \A h \in Goroutine : th'[h].pc = "halt" => th[h].pc = "halt"
    BY <1>a, <1>2 DEF Send, SendStep, SendFails, Existing, Prepare, PostLeg1, CreateTransferState,
         TriggerForwardLegs
  <2> QED
    BY <2>1, <2>2 DEF Refunds, Undo
<1>3. CASE TimePasses \/ Crash \/ Revoke \/ OpenWallet \/ UNCHANGED vars
  BY <1>3 DEF TimePasses, Crash, Free, Revoke, OpenWallet, vars, bookVars, Refunds
<1> QED
  BY <1>1, <1>2, <1>3 DEF Next

\* A step of the chain is a step of the promise, or none: the money moves when
\* leg 3 or leg 1's reversal posts, the report when the row is written.
LEMMA WorkKeepsPromise ==
  ASSUME Ticker = "never", Base, Alone, ChainOK, Refunds,
         NEW g \in Goroutine, Run(g) \/ Tick(g) \/ StatementLost(g)
  PROVE  PromiseStep
<1>a. /\ th[g] \in Chain /\ ~Tick(g) /\ ~Inspect(g) /\ ~Derive(g)
  BY InlineActive
<1>b. /\ th[g].leg \in {2, 3} /\ th[g] # Free
      /\ th[g].pc \notin {"free", "inspect", "derive"}
  BY <1>a, ChainFields
<1>c. Stage(g, th[g]) /\ "leg1" \in posted
  BY <1>b DEF ChainOK, Base, RowOK
<1>d. th[g].pc = "halt" => Undo(1) \notin posted
  BY DEF Refunds
<1> USE DEF PromiseStep, Promise!Next, Promise!vars, Money, bookVars, rowVars
<1>1. CASE Claim(g) \/ Wake(g) \/ WakeReversal(g)
  BY <1>1 DEF Claim, Wake, WakeReversal
<1>2. CASE PostLegFails(g) \/ ReversalFails(g)
  <2>1. /\ UNCHANGED status
        /\ \/ posted' = posted
           \/ th[g].pc = "post" /\ posted' = posted \cup {Leg(th[g].leg)}
           \/ th[g].pc = "undo1" /\ posted' = posted \cup {Undo(1)}
           \/ th[g].pc = "undo2" /\ posted' = posted \cup {Undo(2)}
    BY <1>2 DEF PostLegFails, ReversalFails
  <2> QED
    BY <1>b, <1>c, <2>1
       DEF Stage, Forward, Compensating, Leg, Undo, Due, Promise!Pay, Promise!Return, Promise!Open
<1>3. CASE PostLeg(g)
  BY <1>3, <1>b, <1>c DEF PostLeg, Stage, Forward, Compensating, Leg, Undo, Promise!Pay, Promise!Open, Due
<1>4. CASE PostLeg2Reversal(g)
  BY <1>4 DEF PostLeg2Reversal, Undo
<1>5. CASE PostLeg1Reversal(g)
  BY <1>5, <1>c DEF PostLeg1Reversal, Stage, Forward, Compensating, Undo, Promise!Return, Promise!Open, Due
<1>6. CASE RecordLegSuccess(g)
  BY <1>6, <1>c
     DEF RecordLegSuccess, Advance, Stage, Forward, Compensating, Undo, Due, Promise!Open, Promise!Wait, Promise!Settle
<1>7. CASE Retry(g)
  BY <1>7, <1>c DEF Retry, Advance, Stage, Forward, Compensating, Due, Promise!Open, Promise!Wait
<1>8. CASE RecordReversal(g)
  BY <1>8, <1>c, <1>d
     DEF RecordReversal, Advance, Stage, Forward, Compensating, Undo, Due, Promise!Open, Promise!Reverse, Promise!GiveUp
<1>9. CASE StatementLost(g)
  <2>1. UNCHANGED posted
    BY <1>9 DEF StatementLost
  <2>2. \/ UNCHANGED status
        \/ th[g].pc = "record" /\ status' = IF th[g].leg = 3 THEN "settled" ELSE "pending"
        \/ th[g].pc = "retry" /\ status' = "retrying"
        \/ th[g].pc = "reversed" /\ status' = "reversed"
        \/ th[g].pc = "halt" /\ status' = "reversal_failed"
    BY <1>9 DEF StatementLost, Advance
  <2> QED
    BY <1>c, <1>d, <2>1, <2>2
       DEF Stage, Forward, Compensating, Undo, Due, Promise!Open, Promise!Wait, Promise!Settle,
         Promise!Reverse, Promise!GiveUp
<1> QED
  BY <1>1, <1>2, <1>3, <1>4, <1>5, <1>6, <1>7, <1>8, <1>9, <1>a DEF Run

\* So is every other step: leg 1 takes the money, the row accepts the transfer.
LEMMA StepKeepsPromise ==
  ASSUME Ticker = "never", PromiseInv, [Next]_vars
  PROVE  PromiseStep
<1>a. Base /\ Alone /\ ChainOK /\ Refunds
  BY DEF PromiseInv, ChainInv
<1> USE DEF PromiseStep, Promise!Next, Promise!vars, Money, bookVars, rowVars
<1>1. CASE \E g \in Goroutine : Run(g) \/ Tick(g) \/ StatementLost(g)
  BY <1>1, <1>a, WorkKeepsPromise
<1>2. CASE \E c \in Caller : Send(c) \/ SendStep(c) \/ SendFails(c)
  <2>1. PICK c \in Caller : Send(c) \/ SendStep(c) \/ SendFails(c)
    BY <1>2
  <2>2. CASE PostLeg1(c)
    BY <1>a, <2>2 DEF PostLeg1, Base, RowOK, Undo, Promise!Take
  <2>3. CASE CreateTransferState(c)
    BY <1>a, <2>3 DEF CreateTransferState, Base, RowOK, Undo, Promise!Accept
  <2>4. CASE Send(c) \/ Existing(c) \/ Prepare(c) \/ TriggerForwardLegs(c) \/ SendFails(c)
    BY <2>4 DEF Send, Existing, Prepare, TriggerForwardLegs, SendFails
  <2> QED
    BY <2>1, <2>2, <2>3, <2>4 DEF SendStep
<1>3. CASE TimePasses \/ Crash \/ Revoke \/ OpenWallet \/ UNCHANGED vars
  BY <1>3 DEF TimePasses, Crash, Revoke, OpenWallet, vars
<1> QED
  BY <1>1, <1>2, <1>3 DEF Next

\* The wired coordinator implements the promise of CrossTenantTransfer, although
\* commits go unheard of, unless it gives up on a posting that has been made:
\* the money moves once and to one side, and the first terminal status written,
\* which is true, is the last (transfer_coordinator.go:878-879).
THEOREM PromiseKeptUnlessMisjudged ==
  ASSUME Ticker = "never"
  PROVE  Spec /\ [][~CompensatesPosted /\ ~AbandonsRefund]_vars => KeepsPromise
<1>1. Init => PromiseInv /\ Promise!Init
  BY InitChainInv DEF Init, PromiseInv, Refunds, Free, Promise!Init, Money, Undo
<1>2. PromiseInv /\ [Next]_vars /\ [~CompensatesPosted /\ ~AbandonsRefund]_vars => PromiseInv'
  BY ChainInvStep, RefundsStep, StutterJudgesNothing DEF PromiseInv
<1>3. PromiseInv /\ [Next]_vars => [Promise!Next]_(Promise!vars)
  BY StepKeepsPromise DEF PromiseStep
<1> QED
  BY <1>1, <1>2, <1>3, PTL DEF Spec, KeepsPromise, Promise!Spec

\* So it does, with no condition on its decisions, in every behaviour in which
\* each commit is heard of.
THEOREM SagaKeepsPromise ==
  ASSUME Ticker = "never" PROVE Spec /\ [](unheard = 0) => KeepsPromise
BY HeardIsNeverMisjudged, PromiseKeptUnlessMisjudged, PTL
=============================================================================
