----------------------------- MODULE ViewProofs -----------------------------
(***************************************************************************)
(* Proofs about TransferView, on top of those about the transfer it reads: *)
(* for every number of callers and goroutines, every retry budget, and any *)
(* reader at any moment.                                                   *)
(***************************************************************************)
EXTENDS TransferView, SagaProofs

ViewPhase == {"idle", "unidentified_caller", "party", "transfer_not_found", "error",
              "row", "leg1", "leg2", "leg2Posted", "leg3", "shown"}

ViewType == [pc : ViewPhase, who : Reader, status : Status,
             leg1 : LegStatus, leg2 : LegStatus, leg3 : LegStatus]

\* What a call of the reader is, and what the last shown view was.
ReaderOK ==
  /\ view \in ViewType /\ seen \in ViewType

\* What has been read so far is still so, where the view depends on it, and
\* what was read fits together.
ReadOK ==
  /\ view.pc \in {"leg1", "leg2", "leg2Posted", "leg3", "shown"} /\ view.status \in Terminal
       => status = view.status
  /\ view.pc \in {"leg2", "leg2Posted", "leg3", "shown"} =>
       /\ view.leg1 = "reversed" => Undo(1) \in posted
       /\ view.status = "settled" => view.leg1 = "posted"
       /\ view.status = "reversed" => view.leg1 = "reversed"
  /\ view.pc \in {"party", "row", "leg1", "leg2"} => view.leg2 = "unread"
  /\ view.pc \in {"leg2Posted", "leg3", "shown"} /\ view.leg2 = "reversed" => Undo(2) \in posted
  /\ view.pc = "leg2Posted" /\ view.leg1 = "reversed" /\ view.leg2 # "reversed" => "leg2" \notin posted
  /\ view.pc \in {"leg3", "shown"} =>
       /\ view.status = "settled" => view.leg2 = "posted"
       /\ view.leg1 = "reversed" => view.leg2 # "posted"
  /\ ViewConsistent

\* What v says of an end or of a posting is so now.
StillSo(v) ==
  /\ v.status \in Terminal => status = v.status
  /\ v.leg1 = "reversed" => Undo(1) \in posted
  /\ v.leg2 = "posted" => Leg(2) \in posted
  /\ v.leg2 = "reversed" => Undo(2) \in posted
  /\ v.leg3 = "posted" => Leg(3) \in posted

\* Part by part, what has been read follows on what was told before.
SeenOK ==
  /\ StillSo(view) /\ StillSo(seen)
  /\ view.leg3 # "reversed" /\ seen.leg3 # "reversed"
  /\ view.pc \in {"party", "row", "leg1", "leg2"} => view.leg2 = "unread"
  /\ view.pc \in {"leg1", "leg2", "leg2Posted", "leg3", "shown"} /\ seen.status \in Terminal
       => view.status = seen.status
  /\ view.pc \in {"leg2", "leg2Posted", "leg3", "shown"} =>
       /\ view.leg1 \in {"posted", "reversed"}
       /\ seen.leg1 = "reversed" => view.leg1 = "reversed"
  /\ view.pc \in {"leg2Posted", "leg3", "shown"} /\ seen.leg2 = "reversed" => view.leg2 = "reversed"
  /\ view.pc \in {"leg3", "shown"} /\ seen.leg2 = "posted" => view.leg2 \in {"posted", "reversed"}
  /\ view.pc = "shown" /\ seen.leg3 = "posted" => view.leg3 = "posted"

-----------------------------------------------------------------------------
(* The call of the reader.                                                 *)

\* The statements of GetTransfer, one after the other.
LEMMA ReadSequence ==
  /\ Reading = {"row", "leg1", "leg2", "leg2Posted", "leg3"}
  /\ ReadOrder[1] = "row"
  /\ view.pc = "row" => AfterRead = "leg1"
  /\ view.pc = "leg1" => AfterRead = "leg2"
  /\ view.pc = "leg2" => AfterRead = "leg2Posted"
  /\ view.pc = "leg2Posted" => AfterRead = "leg3"
  /\ view.pc = "leg3" => AfterRead = "shown"
<1>1. /\ DOMAIN ReadOrder = 1 .. 5 /\ Len(ReadOrder) = 5
      /\ ReadOrder[1] = "row" /\ ReadOrder[2] = "leg1" /\ ReadOrder[3] = "leg2"
      /\ ReadOrder[4] = "leg2Posted" /\ ReadOrder[5] = "leg3"
  BY DEF ReadOrder
<1>2. \A i \in 1 .. 5 : i = 1 \/ i = 2 \/ i = 3 \/ i = 4 \/ i = 5
  OBVIOUS
<1> HIDE DEF ReadOrder
<1>3. Reading = {"row", "leg1", "leg2", "leg2Posted", "leg3"}
  BY <1>1, <1>2 DEF Reading
<1>4. ASSUME NEW i \in 1 .. 5, view.pc = ReadOrder[i]
      PROVE  ReadIndex = i
  BY <1>1, <1>2, <1>4 DEF ReadIndex
<1> QED
  BY <1>1, <1>3, <1>4 DEF AfterRead

\* A step of the reader leaves the transfer alone; one of the transfer leaves
\* the view alone or, in a restart, takes it away.
LEMMA ReaderStep ==
  ASSUME Base, ReaderOK, [ViewNext]_viewVars
  PROVE  ReaderOK'
<1>a. status \in Status /\ NoView \in ViewType
  BY DEF Base, SagaTypeOK, NoView, ViewType, ViewPhase, Reader, Status, LegStatus
<1>b. \A v \in ViewType : [v EXCEPT !.who = "nobody"] \in ViewType
  BY DEF ViewType, Reader
<1>c. Remember => seen' \in ViewType
  BY <1>b DEF Remember, ReaderOK
<1> USE ReadSequence DEF ReaderOK
<1>1. CASE Write \/ UNCHANGED viewVars
  BY <1>a, <1>c, <1>1 DEF Write, viewVars
<1>2. CASE View
  <2>1. ASSUME NEW who \in Reader, Ask(who) PROVE ReaderOK'
    <3>1. PICK answer \in Identified(who) : view' = [NoView EXCEPT !.who = who, !.pc = answer]
      BY <2>1 DEF Ask
    <3>2. answer \in ViewPhase
      BY DEF Identified, ViewPhase
    <3>3. view' \in ViewType
      BY <1>a, <3>1, <3>2 DEF ViewType
    <3> QED
      BY <1>c, <2>1, <3>3 DEF Ask
  <2>2. ASSUME ~(\E who \in Reader : Ask(who)) PROVE ReaderOK'
    <3>1. UNCHANGED seen
      BY <1>2, <2>2 DEF View, RequireTransferParty, ReadRow, ReadLeg1, ReadLeg2, ReadLeg3, ReadFails
    <3>2. \A answer \in ViewPhase : Refuse(answer) => view' \in ViewType
      BY <1>a DEF Refuse, ViewType
    <3>3. CASE RequireTransferParty \/ ReadFails
      BY <3>1, <3>2, <3>3 DEF RequireTransferParty, ReadFails, ViewType, ViewPhase
    <3>4. CASE ReadRow
      BY <1>a, <3>1, <3>4 DEF ReadRow, Saw, ViewType, ViewPhase
    <3>5. CASE ReadLeg1
      BY <3>1, <3>5 DEF ReadLeg1, Saw, ViewType, ViewPhase, LegStatus
    <3>6. CASE ReadLeg2
      <4>1. \E l \in LegStatus : view' = [[view EXCEPT !.leg2 = l] EXCEPT !.pc = AfterRead] \/ Saw(view)
        BY <3>6 DEF ReadLeg2, Saw, LegStatus
      <4>2. AfterRead \in ViewPhase
        BY <3>6 DEF ReadLeg2, ViewPhase
      <4> QED
        BY <3>1, <4>1, <4>2 DEF Saw, ViewType
    <3>7. CASE ReadLeg3
      BY <3>1, <3>7 DEF ReadLeg3, Saw, ViewType, ViewPhase, LegStatus
    <3> QED
      BY <1>2, <2>2, <3>3, <3>4, <3>5, <3>6, <3>7 DEF View
  <2> QED
    BY <2>1, <2>2
<1> QED
  BY <1>1, <1>2 DEF ViewNext

(* To the transfer a read is a step that changes nothing. *)
LEMMA ViewIsNext == [ViewNext]_viewVars => [Next]_vars
BY DEF ViewNext, View, Write, viewVars, Ask, RequireTransferParty, ReadRow, ReadLeg1, ReadLeg2,
     ReadLeg3, ReadFails

-----------------------------------------------------------------------------
(* What is read.                                                           *)

(* A transfer somebody works on, or is about to, is still open.             *)
Working ==
  /\ \A g \in Goroutine : th[g] # Free => status \in Due
  /\ \A c \in Caller : sender[c] = "respond" => status \in Due

\* A step of the chain that ends the transfer ends the chain.
LEMMA ChainEnds ==
  ASSUME Ticker = "never", Base, Alone, Working,
         NEW g \in Goroutine, Run(g) \/ Tick(g) \/ StatementLost(g)
  PROVE  status' \in Due \/ th' = [th EXCEPT ![g] = Free]
<1>1. th \in [Goroutine -> Thread] /\ th[g] \in Chain /\ ~Tick(g) /\ ~Inspect(g) /\ ~Derive(g)
  BY InlineActive
<1>2. status \in Due /\ th[g].leg \in {2, 3} /\ th[g].pc \notin {"inspect", "derive"}
  BY <1>1, ChainFields DEF Working
<1>3. /\ Return(g, TRUE) /\ th[g].leg = 3 => th' = [th EXCEPT ![g] = Free]
      /\ Return(g, FALSE) => th' = [th EXCEPT ![g] = Free]
  <2>1. Return(g, TRUE) => th' = [th EXCEPT ![g] = IF th[g].leg = 2 THEN At("claim", 3) ELSE Free]
    BY <1>1, InlineControl
  <2>2. Return(g, FALSE) => th' = [th EXCEPT ![g] = Free]
    BY <1>1, InlineControl
  <2>3. th[g].leg = 3 => (IF th[g].leg = 2 THEN At("claim", 3) ELSE Free) = Free
    OBVIOUS
  <2> QED
    BY <2>1, <2>2, <2>3, Zenon
<1>4. CASE RecordLegSuccess(g)
  BY <1>2, <1>3, <1>4 DEF RecordLegSuccess, Advance, Due
<1>5. CASE RecordReversal(g)
  BY <1>3, <1>5 DEF RecordReversal
<1>6. CASE StatementLost(g)
  BY <1>2, <1>3, <1>6 DEF StatementLost
<1>7. CASE Retry(g)
  BY <1>7 DEF Retry, Advance, Due
<1>8. CASE \/ Claim(g) \/ PostLeg(g) \/ PostLegFails(g) \/ Wake(g) \/ PostLeg2Reversal(g)
           \/ PostLeg1Reversal(g) \/ ReversalFails(g) \/ WakeReversal(g)
  BY <1>2, <1>8 DEF Claim, PostLeg, PostLegFails, Wake, PostLeg2Reversal, PostLeg1Reversal,
       ReversalFails, WakeReversal, rowVars
<1> QED
  BY <1>1, <1>4, <1>5, <1>6, <1>7, <1>8 DEF Run

(* Whatever goes unheard of, the books only grow and an end is final.       *)
LEMMA EndsAreFinal ==
  ASSUME Ticker = "never", Base, Alone, Working, [Next]_vars
  PROVE  /\ Working'
         /\ posted \subseteq posted'
         /\ status \in Terminal => status' = status
<1>a. /\ status \in Status /\ sender \in [Caller -> SenderPhase] /\ th \in [Goroutine -> Thread]
      /\ status = "absent" => \A g \in Goroutine : th[g] = Free
      /\ Due \cap Terminal = {}
  BY DEF Base, SagaTypeOK, RowOK, Thread, Due, Terminal
<1>1. CASE \E g \in Goroutine : Run(g) \/ Tick(g) \/ StatementLost(g)
  <2>1. PICK g \in Goroutine : Run(g) \/ Tick(g) \/ StatementLost(g)
    BY <1>1
  <2>2. th[g] # Free /\ status \in Due /\ \A c \in Caller : sender[c] # "respond"
    BY <2>1, InlineActive, ChainFields DEF Working, Alone
  <2>3. posted \subseteq posted' /\ UNCHANGED sender
    BY <2>1 DEF bookVars, Run, Tick, StatementLost, Claim, PostLeg, PostLegFails, RecordLegSuccess,
         Retry, Wake, PostLeg2Reversal, PostLeg1Reversal, ReversalFails, WakeReversal,
         RecordReversal, Inspect, Derive
  <2>4. \A h \in Goroutine : h # g => th[h] = Free
    BY <2>2 DEF Alone
  <2>5. status' \in Due \/ th' = [th EXCEPT ![g] = Free]
    BY <2>1, ChainEnds
  <2> QED
    BY <1>a, <2>2, <2>3, <2>4, <2>5 DEF Working
<1>2. CASE \E c \in Caller : Send(c) \/ SendStep(c) \/ SendFails(c)
  <2>1. PICK c \in Caller : Send(c) \/ SendStep(c) \/ SendFails(c)
    BY <1>2
  <2>2. CASE TriggerForwardLegs(c)
    BY <1>a, <2>2 DEF TriggerForwardLegs, GotoSend, Working, rowVars, bookVars
  <2>3. CASE CreateTransferState(c)
    BY <1>a, <2>3 DEF CreateTransferState, GotoSend, Working, rowVars, bookVars, Due, Terminal
  <2>4. CASE Send(c) \/ Existing(c) \/ Prepare(c) \/ PostLeg1(c) \/ SendFails(c)
    <3>1. PICK phase : phase # "respond" /\ sender' = [sender EXCEPT ![c] = phase]
      BY <2>4 DEF Send, Existing, Prepare, PostLeg1, SendFails, GotoSend
    <3>2. UNCHANGED <<th, status>> /\ posted \subseteq posted'
      BY <2>4 DEF Send, Existing, Prepare, PostLeg1, SendFails, rowVars, bookVars
    <3> QED
      BY <1>a, <3>1, <3>2 DEF Working
  <2> QED
    BY <2>1, <2>2, <2>3, <2>4 DEF SendStep
<1>3. CASE Crash
  BY <1>a, <1>3 DEF Crash, Working, Answered, bookVars
<1>4. CASE TimePasses \/ Revoke \/ OpenWallet \/ UNCHANGED vars
  BY <1>4 DEF TimePasses, Revoke, OpenWallet, vars, rowVars, bookVars, Working
<1> QED
  BY <1>1, <1>2, <1>3, <1>4 DEF Next

\* What the reads may rely on: postings stay, a terminal status stays, and
\* once leg 1 is undone nothing posts any more.
LEMMA BooksOnlyGrow ==
  ASSUME Ticker = "never", ChainInv, [Next]_vars
  PROVE  /\ posted \subseteq posted'
         /\ status \in Terminal => status' = status
         /\ Undo(1) \in posted => posted' = posted
<1>a. Base /\ Alone /\ ChainOK
  BY DEF ChainInv
<1> USE DEF bookVars, rowVars
<1>1. CASE \E g \in Goroutine : Run(g) \/ Tick(g) \/ StatementLost(g)
  <2>1. PICK g \in Goroutine : Run(g) \/ Tick(g) \/ StatementLost(g)
    BY <1>1
  <2>2. th[g] \in Chain /\ ~Tick(g) /\ ~Inspect(g) /\ ~Derive(g)
    BY <1>a, <2>1, InlineActive
  <2>3. Stage(g, th[g])
    BY <1>a, <2>2, ChainFields DEF ChainOK
  <2>4. status \notin Terminal
    BY <2>3 DEF Stage, Due, Terminal
  <2>5. posted \subseteq posted'
    BY <2>1 DEF Run, Tick, StatementLost, Claim, PostLeg, PostLegFails, RecordLegSuccess, Retry,
         Wake, PostLeg2Reversal, PostLeg1Reversal, ReversalFails, WakeReversal, RecordReversal,
         Inspect, Derive
  <2>6. th[g].pc \in {"undo1", "undo1Sleep", "reversed", "halt"} => posted' \subseteq posted \cup {Undo(1)}
    BY <2>1, <2>2 DEF Run, StatementLost, Claim, PostLeg, PostLegFails, RecordLegSuccess, Retry,
         Wake, PostLeg2Reversal, PostLeg1Reversal, ReversalFails, WakeReversal, RecordReversal
  <2>7. Undo(1) \in posted => th[g].pc \in {"undo1", "undo1Sleep", "reversed", "halt"}
    BY <2>3 DEF Stage
  <2> QED
    BY <2>4, <2>5, <2>6, <2>7
<1>2. CASE \E c \in Caller : Send(c) \/ SendStep(c) \/ SendFails(c)
  <2>1. PICK c \in Caller : Send(c) \/ SendStep(c) \/ SendFails(c)
    BY <1>2
  <2>2. CASE PostLeg1(c)
    BY <1>a, <2>2 DEF PostLeg1, ChainOK, Truth, LegsInOrder
  <2>3. CASE ~PostLeg1(c)
    BY <2>1, <2>3 DEF Send, SendStep, SendFails, Existing, Prepare, CreateTransferState,
         TriggerForwardLegs, Terminal
  <2> QED
    BY <2>2, <2>3
<1>3. CASE TimePasses \/ Crash \/ Revoke \/ OpenWallet \/ UNCHANGED vars
  BY <1>3 DEF TimePasses, Crash, Revoke, OpenWallet, vars
<1> QED
  BY <1>1, <1>2, <1>3 DEF Next

\* Whatever the transfer does between two reads, the reads stay right.
LEMMA ReadStable ==
  ASSUME ReadOK, posted \subseteq posted', status \in Terminal => status' = status,
         Undo(1) \in posted => posted' = posted, UNCHANGED view
  PROVE  ReadOK'
BY DEF ReadOK, ViewConsistent, Undo

\* And every read is right when it is made.
LEMMA ReadRight ==
  ASSUME Truth, ReaderOK, ReadOK, View
  PROVE  ReadOK'
<1>a. UNCHANGED <<status, posted>>
  BY DEF View, vars, Ask, RequireTransferParty, ReadRow, ReadLeg1, ReadLeg2, ReadLeg3, ReadFails
<1>b. view \in [pc : ViewPhase, who : Reader, status : Status,
                leg1 : LegStatus, leg2 : LegStatus, leg3 : LegStatus]
  BY DEF ReaderOK, ViewType
<1> USE ReadSequence DEF ReadOK, ViewConsistent
<1>1. CASE \E who \in Reader : Ask(who)
  BY <1>1 DEF Ask, Identified, NoView
<1>2. CASE RequireTransferParty
  BY <1>b, <1>2 DEF RequireTransferParty, Refuse, NoView
<1>3. CASE ReadRow
  BY <1>a, <1>b, <1>3 DEF ReadRow, Saw
<1>4. CASE ReadLeg1
  BY <1>a, <1>b, <1>4 DEF ReadLeg1, Saw, Truth, StatusTruthful, Terminal, Undo
<1>5. CASE ReadLeg2
  <2>1. CASE view.leg2 = "reversed"
    BY <1>a, <1>b, <1>5, <2>1 DEF ReadLeg2, Saw, Truth, StatusTruthful, Terminal
  <2>2. CASE view.leg2 # "reversed" /\ view.pc = "leg2"
    <3>1. /\ view'.pc = "leg2Posted" /\ view'.status = view.status /\ view'.leg1 = view.leg1
          /\ view'.leg2 = IF "leg2:reverse" \in posted THEN "reversed" ELSE "pending"
      <4> HIDE DEF ReadOK, ViewConsistent
      <4> DEFINE v == [view EXCEPT !.leg2 = IF ~(Undo(2) \in posted) THEN "pending" ELSE "reversed"]
      <4>1. view' = [v EXCEPT !.pc = AfterRead] /\ AfterRead = "leg2Posted"
        BY <1>5, <2>2 DEF ReadLeg2, Saw
      <4> QED
        BY <1>b, <4>1 DEF Undo
    <3> QED
      BY <1>a, <1>b, <2>2, <3>1 DEF Truth, LegsInOrder, Undo, Terminal
  <2>3. CASE view.leg2 # "reversed" /\ view.pc = "leg2Posted"
    <3>1. /\ view'.pc = "leg3" /\ view'.status = view.status /\ view'.leg1 = view.leg1
          /\ view'.leg2 = IF "leg2" \in posted THEN "posted" ELSE "pending"
      BY <1>b, <1>5, <2>3 DEF ReadLeg2, Saw, Leg
    <3> QED
      BY <1>a, <1>b, <2>3, <3>1 DEF Truth, StatusTruthful, Undo, Terminal
  <2> QED
    BY <1>5, <2>1, <2>2, <2>3 DEF ReadLeg2
<1>6. CASE ReadLeg3
  BY <1>a, <1>b, <1>6 DEF ReadLeg3, Saw, Truth, PaidOrRefunded, StatusTruthful, Undo, Leg, Terminal
<1>7. CASE ReadFails
  BY <1>b, <1>7 DEF ReadFails, Refuse, NoView
<1> QED
  BY <1>1, <1>2, <1>3, <1>4, <1>5, <1>6, <1>7 DEF View

\* What views have told stays so, as the books only grow and ends are final.
LEMMA SeenStable ==
  ASSUME SeenOK, posted \subseteq posted', status \in Terminal => status' = status,
         UNCHANGED <<view, seen>>
  PROVE  SeenOK'
BY DEF SeenOK, StillSo

\* A view that is forgotten for a new call, or with the process, is remembered
\* for what it told.
LEMMA SeenRemembered ==
  ASSUME SeenOK, ReaderOK, posted \subseteq posted', status \in Terminal => status' = status,
         Remember, view'.pc \in {"idle", "party", "unidentified_caller"}, view'.status = "absent",
         view'.leg1 = "unread", view'.leg2 = "unread", view'.leg3 = "unread"
  PROVE  SeenOK'
<1>1. StillSo(view)' /\ view'.leg3 # "reversed"
  BY DEF StillSo, Terminal
<1>2. \/ UNCHANGED seen
      \/ /\ seen'.status = view.status /\ seen'.leg1 = view.leg1
         /\ seen'.leg2 = view.leg2 /\ seen'.leg3 = view.leg3
  BY DEF Remember, ReaderOK, ViewType
<1>3. StillSo(seen)' /\ seen'.leg3 # "reversed"
  BY <1>2 DEF SeenOK, StillSo
<1> QED
  BY <1>1, <1>3 DEF SeenOK

\* And every read follows on what was told before.
LEMMA SeenFollows ==
  ASSUME Base, ReaderOK, SeenOK, View
  PROVE  SeenOK'
<1>a. UNCHANGED <<status, posted>>
  BY DEF View, vars, Ask, RequireTransferParty, ReadRow, ReadLeg1, ReadLeg2, ReadLeg3, ReadFails
<1>b. view \in [pc : ViewPhase, who : Reader, status : Status,
                leg1 : LegStatus, leg2 : LegStatus, leg3 : LegStatus]
  BY DEF ReaderOK, ViewType
<1>1. CASE \E who \in Reader : Ask(who)
  <2>1. PICK who \in Reader, pc \in {"party", "unidentified_caller"} :
          view' = [NoView EXCEPT !.who = who, !.pc = pc]
    BY <1>1 DEF Ask, Identified
  <2>2. /\ view'.pc = pc /\ view'.status = "absent"
        /\ view'.leg1 = "unread" /\ view'.leg2 = "unread" /\ view'.leg3 = "unread"
    BY <2>1 DEF NoView
  <2>3. Remember
    BY <1>1 DEF Ask
  <2> QED
    BY <1>a, <2>2, <2>3, SeenRemembered
<1> USE ReadSequence DEF SeenOK, StillSo
<1>2. CASE RequireTransferParty
  <2>1. CASE view' = [view EXCEPT !.pc = ReadOrder[1]]
    BY <1>a, <1>b, <1>2, <2>1 DEF RequireTransferParty
  <2>2. CASE Refuse("transfer_not_found")
    BY <1>a, <1>b, <1>2, <2>2 DEF RequireTransferParty, Refuse, NoView, Terminal
  <2> QED
    BY <1>2, <2>1, <2>2 DEF RequireTransferParty
<1>3. CASE ReadRow
  BY <1>a, <1>b, <1>3 DEF ReadRow, Saw
<1>4. CASE ReadLeg1
  BY <1>a, <1>b, <1>4 DEF ReadLeg1, Saw
<1>5. CASE ReadLeg2
  <2>1. CASE view.leg2 = "reversed"
    BY <1>a, <1>b, <1>5, <2>1 DEF ReadLeg2, Saw
  <2>2. CASE view.leg2 # "reversed" /\ view.pc = "leg2"
    <3>1. /\ view'.pc = "leg2Posted" /\ view'.status = view.status /\ view'.leg1 = view.leg1
          /\ view'.leg3 = view.leg3
          /\ view'.leg2 = IF Undo(2) \in posted THEN "reversed" ELSE "pending"
      <4> HIDE DEF SeenOK
      <4> DEFINE v == [view EXCEPT !.leg2 = IF ~(Undo(2) \in posted) THEN "pending" ELSE "reversed"]
      <4>1. view' = [v EXCEPT !.pc = AfterRead] /\ AfterRead = "leg2Posted"
        BY <1>5, <2>2 DEF ReadLeg2, Saw
      <4> QED
        BY <1>b, <4>1
    <3>2. UNCHANGED seen
      BY <1>5 DEF ReadLeg2
    <3> QED
      BY <1>a, <1>b, <2>2, <3>1, <3>2
  <2>3. CASE view.leg2 # "reversed" /\ view.pc = "leg2Posted"
    <3>1. /\ view'.pc = "leg3" /\ view'.status = view.status /\ view'.leg1 = view.leg1
          /\ view'.leg3 = view.leg3
          /\ view'.leg2 = IF Leg(2) \in posted THEN "posted" ELSE "pending"
      BY <1>b, <1>5, <2>3 DEF ReadLeg2, Saw
    <3>2. UNCHANGED seen
      BY <1>5 DEF ReadLeg2
    <3> QED
      BY <1>a, <1>b, <2>3, <3>1, <3>2
  <2> QED
    BY <1>5, <2>1, <2>2, <2>3 DEF ReadLeg2
<1>6. CASE ReadLeg3
  BY <1>a, <1>b, <1>6 DEF ReadLeg3, Saw
<1>7. CASE ReadFails
  BY <1>a, <1>b, <1>7 DEF ReadFails, Refuse, NoView, Terminal
<1> QED
  BY <1>1, <1>2, <1>3, <1>4, <1>5, <1>6, <1>7 DEF View

\* What has been read, and told, of a transfer whose legs are not misjudged.
ReadInv == ChainInv /\ ReaderOK /\ ReadOK

(* Steps of the coordinator and reads of GetTransfer keep what the view has
   seen in order. *)
LEMMA ReadInvStep ==
  ASSUME Ticker = "never", ReadInv, ~CompensatesPosted, [ViewNext]_viewVars
  PROVE  ReadInv'
<1>1. [Next]_vars
  BY ViewIsNext
<1>2. ChainInv' /\ ReaderOK'
  BY <1>1, ChainInvStep, ReaderStep DEF ReadInv, ChainInv
<1>3. ReadOK /\ ReaderOK /\ Base /\ Truth
  BY DEF ReadInv, ChainInv, ChainOK
<1>4. /\ posted \subseteq posted'
      /\ status \in Terminal => status' = status
      /\ Undo(1) \in posted => posted' = posted
  BY <1>1, BooksOnlyGrow DEF ReadInv
<1>5. CASE View
  BY <1>2, <1>3, <1>5, ReadRight DEF ReadInv
<1>6. CASE UNCHANGED <<view, seen>>
  BY <1>2, <1>3, <1>4, <1>6, ReadStable DEF ReadInv
<1>7. CASE view' = NoView /\ Remember
  <2>1. ReadOK'
    BY <1>7 DEF ReadOK, ViewConsistent, NoView
  <2> QED
    BY <1>2, <2>1 DEF ReadInv
<1> QED
  BY <1>5, <1>6, <1>7 DEF ViewNext, Write, viewVars

(* Before the first read nothing has been seen. *)
LEMMA InitReadInv == ViewInit => ReadInv
BY InitChainInv, ReadSequence
   DEF ViewInit, ReadInv, ReaderOK, ReadOK, SeenOK, StillSo, ViewConsistent, NoView, ViewType, ViewPhase,
       Reader, Status, LegStatus, Terminal

(* A view whose parts follow on the last one takes nothing of it back. *)
LEMMA FollowingStands == ReaderOK /\ SeenOK => ViewsNeverTurnBack
BY DEF ReaderOK, ViewType, LegStatus, SeenOK, ViewsNeverTurnBack, NotBefore

\* A view that names the end of a transfer agrees with the legs it lists, and no
\* view shows the money on both sides, although its parts are read at five
\* moments (transfer_coordinator.go:1246-1289) while the transfer goes on and
\* its commits go unheard of: unless the coordinator compensates for a leg that
\* has posted.
THEOREM ViewsRightUnlessMisjudged ==
  ASSUME Ticker = "never"
  PROVE  ViewSpec /\ [][~CompensatesPosted]_vars => []ViewConsistent
<1>1. ReadInv /\ [ViewNext]_viewVars /\ [~CompensatesPosted]_vars => ReadInv'
  BY ReadInvStep, StutterJudgesNothing
<1>2. ReadInv => ViewConsistent
  BY DEF ReadInv, ReadOK
<1> QED
  BY InitReadInv, <1>1, <1>2, PTL DEF ViewSpec

\* What has been read, for as long as every commit has been heard of.
VInv == IInv /\ ReaderOK /\ (unheard = 0 => ReadOK)

(* As long as every commit has been heard of, none is compensated for. *)
LEMMA VInvStep ==
  ASSUME Ticker = "never", VInv, [ViewNext]_viewVars
  PROVE  VInv'
<1>1. [Next]_vars
  BY ViewIsNext
<1>2. IInv' /\ ReaderOK'
  BY <1>1, IInvStep, ReaderStep DEF VInv, IInv
<1>3. ASSUME unheard' = 0 PROVE ReadOK'
  <2>1. unheard = 0
    BY <1>1, <1>3, UnheardGrows DEF VInv, IInv
  <2>2. ReadInv /\ Heard
    BY <2>1 DEF VInv, IInv, ReadInv, ChainInv
  <2>3. ~CompensatesPosted
    BY <1>1, <1>3, <2>1, <2>2, HeardJudgesRight DEF ReadInv, ChainInv
  <2> QED
    BY <2>2, <2>3, ReadInvStep DEF ReadInv
<1> QED
  BY <1>2, <1>3 DEF VInv

\* So the views are right, with no condition on the coordinator's decisions, as
\* long as every commit has been heard of.
THEOREM ViewsAreConsistent ==
  ASSUME Ticker = "never" PROVE ViewSpec => [](unheard = 0 => ViewConsistent)
<1>1. ViewInit => VInv
  BY InitIInv, InitReadInv DEF ViewInit, VInv, ReadInv
<1>2. VInv /\ [ViewNext]_viewVars => VInv'
  BY VInvStep
<1>3. VInv => (unheard = 0 => ViewConsistent)
  BY DEF VInv, ReadOK
<1> QED
  BY <1>1, <1>2, <1>3, PTL DEF ViewSpec

-----------------------------------------------------------------------------
(* One view after the other.                                               *)

\* What was told still stands of a transfer that only one chain works on.
SeenInv == Base /\ Alone /\ Working /\ ReaderOK /\ SeenOK

(* Steps of the coordinator leave standing what was told, reads follow it. *)
LEMMA SeenInvStep ==
  ASSUME Ticker = "never", SeenInv, [ViewNext]_viewVars
  PROVE  SeenInv'
<1>1. [Next]_vars
  BY ViewIsNext
<1>2. Base' /\ Alone' /\ ReaderOK'
  BY <1>1, BaseStep, AloneStep, ReaderStep DEF SeenInv
<1>3. Working' /\ posted \subseteq posted' /\ (status \in Terminal => status' = status)
  BY <1>1, EndsAreFinal DEF SeenInv
<1>4. Base /\ ReaderOK /\ SeenOK
  BY DEF SeenInv
<1>5. CASE View
  BY <1>2, <1>3, <1>4, <1>5, SeenFollows DEF SeenInv
<1>6. CASE UNCHANGED <<view, seen>>
  BY <1>2, <1>3, <1>4, <1>6, SeenStable DEF SeenInv
<1>7. CASE view' = NoView /\ Remember
  <2>1. SeenOK'
    BY <1>3, <1>4, <1>7, SeenRemembered DEF NoView
  <2> QED
    BY <1>2, <1>3, <2>1 DEF SeenInv
<1> QED
  BY <1>5, <1>6, <1>7 DEF ViewNext, Write, viewVars

(* At the start nothing has been told. *)
LEMMA InitSeenInv == ViewInit => SeenInv
<1> SUFFICES ASSUME ViewInit PROVE SeenInv
  OBVIOUS
<1>1. Init /\ view = NoView /\ seen = NoView
  BY DEF ViewInit
<1>2. Base /\ Alone /\ Working
  BY <1>1, InitBase, InitAlone DEF Init, Working
<1>3. ReaderOK /\ SeenOK
  BY <1>1 DEF ReaderOK, SeenOK, StillSo, NoView, ViewType, ViewPhase, Reader, Status, LegStatus, Terminal
<1> QED
  BY <1>2, <1>3 DEF SeenInv

\* What one view has told of an end or of a leg, no later one takes back, for
\* whichever party it is (transfer_coordinator.go:1246-1289), through sends,
\* retries, restarts, compensations and any number of unheard commits.
THEOREM ViewsStand ==
  ASSUME Ticker = "never" PROVE ViewSpec => []ViewsNeverTurnBack
<1>1. ViewInit => SeenInv
  BY InitSeenInv
<1>2. SeenInv /\ [ViewNext]_viewVars => SeenInv'
  BY SeenInvStep
<1>3. SeenInv => ViewsNeverTurnBack
  BY FollowingStands DEF SeenInv
<1> QED
  BY <1>1, <1>2, <1>3, PTL DEF ViewSpec
=============================================================================
