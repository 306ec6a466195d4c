---------------------------- MODULE TransferSaga ----------------------------
(***************************************************************************)
(* One cross-tenant transfer: TransferCoordinator                          *)
(* (src/internal/app/transfer_coordinator.go) over its transfer_state row  *)
(* (src/internal/adapters/postgres/transfer_state.go).                     *)
(*                                                                         *)
(* Leg 1 moves the sender's money to its settlement account inside the     *)
(* HTTP call; legs 2 (platform mirrors) and 3 (receiver) are posted by     *)
(* goroutines that outlive it, retried, and compensated once their budget  *)
(* is spent.  Callers may send the same transfer again, retry goroutines   *)
(* and ticker dispatches run side by side, the process may die anywhere,   *)
(* and a posting may take effect although its caller is told it failed.    *)
(*                                                                         *)
(* A posting is one step here: module Ledger shows that PostTransfer is    *)
(* atomic and happens once per idempotency key.  The movement of a leg is  *)
(* fixed by the row, so the books are the set of keys that have posted.    *)
(* Those keys are taken to be used by this transfer alone, although they   *)
(* share one namespace with the keys clients choose.                       *)
(***************************************************************************)
EXTENDS Integers, FiniteSets

CONSTANTS
  Caller,         \* SendTransfer calls, all with the same tenant and key
  Goroutine,      \* slots for the goroutines and dispatches of the process
  Wallet,         \* wallet ids the sender may open, in their string order
  InitWallets,    \* the ones open at the start
  RetryBudget,    \* attempts per leg: 5 in the code
  Ticker,         \* when processDueTransfers is called: see Tick
  MaxCrashes,     \* bound: crashes of the process
  MaxUnheard,     \* bound: commits whose caller is told they failed
  MaxLost,        \* bound: failed statements of the coordinator itself
  NoWallet

ASSUME SagaAssumption ==
  /\ Wallet \subseteq Int
  /\ \A W \in SUBSET Wallet : W # {} => \E n \in W : \A m \in W : n <= m
  /\ InitWallets \subseteq Wallet
  /\ NoWallet \notin Wallet
  /\ RetryBudget \in Nat \ {0}
  /\ Ticker \in {"never", "alone", "any"}
  /\ MaxCrashes \in Nat /\ MaxUnheard \in Nat /\ MaxLost \in Nat

VARIABLES
  sender,    \* where each SendTransfer call stands, and its answer
  link,      \* whether the tenant link behind the alias is active
  wallets,   \* the sender's open wallets
  posted,    \* the idempotency keys of this transfer that have posted
  debited,   \* the wallet leg 1 took the money from
  refunded,  \* the wallet leg 1's reversal gave it to
  status,    \* transfer_state.status, "absent" before the row exists
  nextAt,    \* transfer_state.next_attempt_at, relative to the clock
  th,        \* the goroutines of the coordinator
  fails,     \* retryAttemptTracker.counts, in memory only
  crashes, unheard, lost   \* failures so far

rowVars == <<status, nextAt>>
bookVars == <<posted, debited, refunded>>
faultVars == <<crashes, unheard, lost>>
vars == <<sender, link, wallets, posted, debited, refunded, status, nextAt,
          th, fails, crashes, unheard, lost>>

\* The key of a leg, and of its reversal (legMovement, legReverseKey).
Leg(n) == IF n = 2 THEN "leg2" ELSE "leg3"
Undo(n) == IF n = 1 THEN "leg1:reverse" ELSE "leg2:reverse"
LegKey == {"leg1", "leg2", "leg3", "leg1:reverse", "leg2:reverse"}
Counter == LegKey \ {"leg1"}

Terminal == {"settled", "reversed", "reversal_failed"}
Due == {"pending", "retrying"}
Status == {"absent"} \cup Due \cup Terminal

SenderPhase == {"idle", "existing", "prepare", "leg1", "record", "respond",
                "accepted", "replayed", "refused", "error"}
Answered == {"accepted", "replayed", "refused", "error"}

\* Who runs attemptLeg: the inline path and its retries, the first or the
\* second attempt of a dispatch of the ticker, or its resumeLeg1Reversal.
Mode == {"inline", "first", "second", "resume"}
GoroutinePhase == {"free", "inspect", "derive", "claim", "post", "record", "retry",
                   "sleep", "undo2", "undo2Sleep", "undo1", "undo1Sleep",
                   "reversed", "halt"}
Free == [pc |-> "free", leg |-> 0, mode |-> "inline"]
\* attemptLeg's posting and record run under its own ten-second context, and the
\* record of a failure is taken to fit into the five-second margin of the lease.
TimedPhase == {"post", "record", "retry"}

\* walletAccountID: the first wallet in id order.
FirstWallet == CHOOSE n \in wallets : \A m \in wallets : n <= m

\* backoffForAttempt has no delay left after this failure.
Exhausts(key) == fails[key] + 1 >= RetryBudget

-----------------------------------------------------------------------------
Init ==
  /\ sender = [c \in Caller |-> "idle"]
  /\ link = TRUE
  /\ wallets = InitWallets
  /\ posted = {}
  /\ debited = NoWallet
  /\ refunded = NoWallet
  /\ status = "absent"
  /\ nextAt = "now"
  /\ th = [g \in Goroutine |-> Free]
  /\ fails = [key \in Counter |-> 0]
  /\ crashes = 0 /\ unheard = 0 /\ lost = 0

(* SendTransfer and its handler                                            *)

GotoSend(c, phase) == sender' = [sender EXCEPT ![c] = phase]

Send(c) ==
  /\ sender[c] = "idle"
  /\ GotoSend(c, "existing")
  /\ UNCHANGED <<link, wallets, bookVars, rowVars, th, fails, faultVars>>

\* Mutant: the handler does not look at "created".
ExistingRetriggers(c) ==
  /\ sender[c] = "existing"
  /\ GotoSend(c, IF status = "absent" THEN "prepare" ELSE "respond")
  /\ UNCHANGED <<link, wallets, bookVars, rowVars, th, fails, faultVars>>

\* existingTransfer: a row under the same key is answered as it stands.
Existing(c) ==
  /\ sender[c] = "existing"
  /\ GotoSend(c, IF status = "absent" THEN "prepare" ELSE "replayed")
  /\ UNCHANGED <<link, wallets, bookVars, rowVars, th, fails, faultVars>>

\* prepareTransfer: resolve the alias over an active link, open the system
\* accounts of the legs.
Prepare(c) ==
  /\ sender[c] = "prepare"
  /\ GotoSend(c, IF link THEN "leg1" ELSE "refused")
  /\ UNCHANGED <<link, wallets, bookVars, rowVars, th, fails, faultVars>>

\* walletAccountID and leg 1's PostTransfer.  Its fingerprint names no
\* account, so a repeat replays whichever wallet comes first by now.
PostLeg1(c) ==
  /\ sender[c] = "leg1"
  /\ \/ /\ wallets = {}
        /\ GotoSend(c, "refused")
        /\ UNCHANGED <<bookVars, unheard>>
     \/ /\ wallets # {} /\ "leg1" \in posted
        /\ GotoSend(c, "record")
        /\ UNCHANGED <<bookVars, unheard>>
     \/ /\ wallets # {} /\ "leg1" \notin posted
        /\ posted' = posted \cup {"leg1"}
        /\ debited' = FirstWallet
        /\ UNCHANGED refunded
        /\ \/ GotoSend(c, "record") /\ UNCHANGED unheard
           \/ GotoSend(c, "error") /\ unheard < MaxUnheard /\ unheard' = unheard + 1
     \/ /\ wallets # {} /\ "leg1" \notin posted
        /\ GotoSend(c, "refused")          \* insufficient_funds
        /\ UNCHANGED <<bookVars, unheard>>
  /\ UNCHANGED <<link, wallets, rowVars, th, fails, crashes, lost>>

\* Mutant: an upsert.
UpsertTransferState(c) ==
  /\ sender[c] = "record"
  /\ status' = "pending"
  /\ nextAt' = "now"
  /\ GotoSend(c, "respond")
  /\ UNCHANGED <<link, wallets, bookVars, th, fails, faultVars>>

\* createTransferState: UNIQUE(tenant_id, idempotency_key) refuses a second row.
CreateTransferState(c) ==
  /\ sender[c] = "record"
  /\ \/ /\ status # "absent"
        /\ GotoSend(c, "error")
        /\ UNCHANGED <<rowVars, unheard>>
     \/ /\ status = "absent"
        /\ status' = "pending"
        /\ nextAt' = "now"
        /\ \/ GotoSend(c, "respond") /\ UNCHANGED unheard
           \/ GotoSend(c, "error") /\ unheard < MaxUnheard /\ unheard' = unheard + 1
  /\ UNCHANGED <<link, wallets, bookVars, th, fails, crashes, lost>>

\* The handler writes 202 and then calls TriggerForwardLegs, because the row
\* is new.
TriggerForwardLegs(c) ==
  /\ sender[c] = "respond"
  /\ \E g \in Goroutine :
       /\ th[g] = Free
       /\ th' = [th EXCEPT ![g] = [pc |-> "claim", leg |-> 2, mode |-> "inline"]]
  /\ GotoSend(c, "accepted")
  /\ UNCHANGED <<link, wallets, bookVars, rowVars, fails, faultVars>>

\* Mutant: the handler answers 202 although the row was not written.
SendFailsSilently(c) ==
  /\ sender[c] \in {"existing", "prepare", "leg1", "record"}
  /\ GotoSend(c, IF sender[c] = "record" THEN "accepted" ELSE "error")
  /\ UNCHANGED <<link, wallets, bookVars, rowVars, th, fails, faultVars>>

\* A statement of SendTransfer fails, or the caller goes away and its context
\* is cancelled.
SendFails(c) ==
  /\ sender[c] \in {"existing", "prepare", "leg1", "record"}
  /\ GotoSend(c, "error")
  /\ UNCHANGED <<link, wallets, bookVars, rowVars, th, fails, faultVars>>

-----------------------------------------------------------------------------
(* attemptLeg                                                              *)

\* Mutant: leg 3 follows leg 2 whatever attemptLeg returned.
AfterIgnoresError(t, ok) ==
  IF t.mode = "inline" /\ t.leg = 2 THEN [pc |-> "claim", leg |-> 3, mode |-> "inline"]
  ELSE IF t.mode = "first" THEN [t EXCEPT !.pc = "derive"]
  ELSE Free

\* What goroutine t does when its attemptLeg returns; ok is a nil error.
After(t, ok) ==
  IF t.mode = "inline" /\ t.leg = 2 /\ ok THEN [pc |-> "claim", leg |-> 3, mode |-> "inline"]
  ELSE IF t.mode = "first" THEN [t EXCEPT !.pc = "derive"]
  ELSE Free

Return(g, ok) == th' = [th EXCEPT ![g] = After(@, ok)]
Goto(g, phase) == th' = [th EXCEPT ![g].pc = phase]

\* scheduleRetry, scheduleReversalRetry: a goroutine on the inline path sleeps
\* in h, and the attempt that failed returns its error.
Reschedule(g, h, phase) ==
  /\ IF th[g].mode = "inline" THEN h = g ELSE th[h] = Free
  /\ th' = [th EXCEPT ![g] = After(@, FALSE),
                      ![h] = [pc |-> phase, leg |-> th[g].leg, mode |-> "inline"]]

\* Mutant: the two columns of the UPDATE swapped.
AdvanceSwapped(s, at) == status' = at /\ nextAt' = s

\* AdvanceAfterLegOutcome writes the row whatever it holds by now.
Advance(s, at) == status' = s /\ nextAt' = at

\* recordFailedAttempt, recordFailedReversalAttempt; equal from the budget on.
CountFailure(key) ==
  fails' = [fails EXCEPT ![key] = IF @ < RetryBudget THEN @ + 1 ELSE @]

\* Mutant: a row that waits for its retry is not found.
OnlyPending == status = "pending" /\ nextAt = "now"
\* Mutant: a row that has never failed is not found.
OnlyRetrying == status = "retrying" /\ nextAt = "now"

\* transferStateIsDue.
IsDue == status \in Due /\ nextAt = "now"

\* claimTransfer: ClaimOne takes a due row and leases it.  A claim that is
\* lost to another or not yet due returns nil, like a success.
Claim(g) ==
  /\ th[g].pc = "claim"
  /\ \/ /\ IsDue
        /\ nextAt' = "lease"
        /\ Goto(g, IF th[g].mode = "resume" THEN "undo1" ELSE "post")
     \/ /\ ~IsDue
        /\ Return(g, TRUE)
        /\ UNCHANGED nextAt
  /\ UNCHANGED <<sender, link, wallets, bookVars, status, fails, faultVars>>

\* PostTransfer of leg 2 or 3 answers success: posted now, or a replay.
PostLeg(g) ==
  /\ th[g].pc = "post"
  /\ posted' = posted \cup {Leg(th[g].leg)}
  /\ Goto(g, "record")
  /\ UNCHANGED <<sender, link, wallets, debited, refunded, rowVars, fails, faultVars>>

\* Mutant: leg 1 alone is reversed, whichever leg ran out of attempts.
PostLegFailsForgetsLeg2(g) ==
  /\ th[g].pc = "post"
  /\ LET key == Leg(th[g].leg)
     IN  /\ CountFailure(key)
         /\ Goto(g, IF ~Exhausts(key) THEN "retry" ELSE "undo1")
  /\ UNCHANGED <<sender, link, wallets, bookVars, rowVars, faultVars>>

\* It answers an error; a commit that was not heard of has posted all the same.
PostLegFails(g) ==
  /\ th[g].pc = "post"
  /\ \/ UNCHANGED <<posted, unheard>>
     \/ /\ unheard < MaxUnheard
        /\ unheard' = unheard + 1
        /\ posted' = posted \cup {Leg(th[g].leg)}
  /\ LET key == Leg(th[g].leg)
     IN  /\ CountFailure(key)
         /\ Goto(g, IF ~Exhausts(key) THEN "retry"
                    ELSE IF th[g].leg = 2 THEN "undo1" ELSE "undo2")
  /\ UNCHANGED <<sender, link, wallets, debited, refunded, rowVars, crashes, lost>>

RecordLegSuccess(g) ==
  /\ th[g].pc = "record"
  /\ Advance(IF th[g].leg = 3 THEN "settled" ELSE "pending", "now")
  /\ Return(g, TRUE)
  /\ UNCHANGED <<sender, link, wallets, bookVars, fails, faultVars>>

\* handleLegFailure within the budget: "retrying", due after the backoff that
\* goroutine h sleeps for.
Retry(g) ==
  /\ th[g].pc = "retry"
  /\ \E h \in Goroutine : /\ Reschedule(g, h, "sleep")
                          /\ Advance("retrying", h)
  /\ UNCHANGED <<sender, link, wallets, bookVars, fails, faultVars>>

\* The sleep began after the row's own next_attempt_at was set: it does not
\* end while the row still waits for that same backoff.
Wake(g) ==
  /\ th[g].pc = "sleep"
  /\ nextAt # g
  /\ Goto(g, "claim")
  /\ UNCHANGED <<sender, link, wallets, bookVars, rowVars, fails, faultVars>>

-----------------------------------------------------------------------------
(* Compensation                                                            *)

\* reverseLeg2ThenLeg1: leg 2's reversal answers success.
PostLeg2Reversal(g) ==
  /\ th[g].pc = "undo2"
  /\ posted' = posted \cup {Undo(2)}
  /\ Goto(g, "undo1")
  /\ UNCHANGED <<sender, link, wallets, debited, refunded, rowVars, fails, faultVars>>

\* postLeg1Reversal answers success; its fingerprint names the wallet, which
\* is looked up again each time.
PostLeg1Reversal(g) ==
  /\ th[g].pc = "undo1"
  /\ refunded \in {NoWallet, FirstWallet}
  /\ posted' = posted \cup {Undo(1)}
  /\ refunded' = FirstWallet
  /\ Goto(g, "reversed")
  /\ UNCHANGED <<sender, link, wallets, debited, rowVars, fails, faultVars>>

\* handleReversalFailure: retry after a sleep that leaves the row alone, or
\* give up.
ReversalFails(g) ==
  \E n \in {1, 2} :
    /\ th[g].pc = (IF n = 1 THEN "undo1" ELSE "undo2")
    /\ \/ UNCHANGED <<posted, refunded, unheard>>
       \/ /\ unheard < MaxUnheard /\ Undo(n) \notin posted
          /\ unheard' = unheard + 1
          /\ posted' = posted \cup {Undo(n)}
          /\ refunded' = IF n = 1 THEN FirstWallet ELSE refunded
    /\ CountFailure(Undo(n))
    /\ IF Exhausts(Undo(n))
       THEN Goto(g, "halt")
       ELSE \E h \in Goroutine :
              Reschedule(g, h, IF n = 1 THEN "undo1Sleep" ELSE "undo2Sleep")
    /\ UNCHANGED <<sender, link, wallets, debited, rowVars, crashes, lost>>

WakeReversal(g) ==
  /\ th[g].pc \in {"undo1Sleep", "undo2Sleep"}
  /\ Goto(g, IF th[g].pc = "undo1Sleep" THEN "undo1" ELSE "undo2")
  /\ UNCHANGED <<sender, link, wallets, bookVars, rowVars, fails, faultVars>>

\* Mutant: a reversal that gave up is recorded like one that worked.
RecordReversalAlways(g) ==
  /\ th[g].pc \in {"reversed", "halt"}
  /\ Advance("reversed", "now")
  /\ Return(g, FALSE)
  /\ UNCHANGED <<sender, link, wallets, bookVars, fails, faultVars>>

\* The last writes of a reversal: "reversed", or markReversalFailed.
RecordReversal(g) ==
  /\ th[g].pc \in {"reversed", "halt"}
  /\ Advance(IF th[g].pc = "reversed" THEN "reversed" ELSE "reversal_failed", "now")
  /\ Return(g, FALSE)
  /\ UNCHANGED <<sender, link, wallets, bookVars, fails, faultVars>>

-----------------------------------------------------------------------------
(* The ticker: processDueTransfers and attemptDueLegs                      *)

\* ClaimDue finds the row.  "never" is the program as cmd/api wires it; "any" is
\* the documented one-second ticker, which overlaps the other goroutines;
\* "alone" are the ticks that find a transfer nobody else is working on.  Slots
\* are kept for what a dispatch may spawn.
Tick(g) ==
  /\ IsDue
  /\ th[g] = Free
  /\ Ticker # "never"
  /\ Ticker = "any" => Cardinality({h \in Goroutine : th[h] = Free}) >= 3
  /\ Ticker = "alone" => /\ \A h \in Goroutine : th[h] = Free
                         /\ \A c \in Caller : sender[c] # "respond"
  /\ th' = [th EXCEPT ![g] = [pc |-> "inspect", leg |-> 0, mode |-> "first"]]
  /\ UNCHANGED <<sender, link, wallets, bookVars, rowVars, fails, faultVars>>

\* reversalPending.
Inspect(g) ==
  /\ th[g].pc = "inspect"
  /\ th' = [th EXCEPT ![g] =
              IF status = "retrying" /\ Undo(2) \in posted
              THEN [@ EXCEPT !.pc = "claim", !.mode = "resume"]
              ELSE [@ EXCEPT !.pc = "derive"]]
  /\ UNCHANGED <<sender, link, wallets, bookVars, rowVars, fails, faultVars>>

\* nextLegFor, before the first attempt and again after it; the status of the
\* row plays no part.
NextLeg == IF "leg2" \notin posted THEN 2 ELSE IF "leg3" \notin posted THEN 3 ELSE 0

Derive(g) ==
  /\ th[g].pc = "derive"
  /\ th' = [th EXCEPT ![g] =
              IF NextLeg \in {0, @.leg} THEN Free
              ELSE [pc |-> "claim", leg |-> NextLeg,
                    mode |-> IF @.leg = 0 THEN "first" ELSE "second"]]
  /\ UNCHANGED <<sender, link, wallets, bookVars, rowVars, fails, faultVars>>

-----------------------------------------------------------------------------
(* Failures, time, and the rest of the system                              *)

\* A statement of the coordinator fails and attemptLeg returns its error: no
\* retry is scheduled.  The write may have taken effect.  A failed read of
\* reversalPending counts as "not pending".
StatementLost(g) ==
  /\ lost < MaxLost
  /\ lost' = lost + 1
  /\ LET t == th[g]
     IN  \/ /\ t.pc = "claim"
            /\ IF IsDue THEN nextAt' \in {nextAt, "lease"} ELSE UNCHANGED nextAt
            /\ Return(g, FALSE)
            /\ UNCHANGED status
         \/ /\ t.pc \in {"record", "retry", "reversed", "halt"}
            /\ \/ UNCHANGED rowVars
               \/ Advance(CASE t.pc = "record" -> IF t.leg = 3 THEN "settled" ELSE "pending"
                            [] t.pc = "retry" -> "retrying"
                            [] t.pc = "reversed" -> "reversed"
                            [] t.pc = "halt" -> "reversal_failed",
                          IF t.pc = "retry" THEN "lease" ELSE "now")
            /\ Return(g, FALSE)
         \/ /\ t.pc = "inspect"
            /\ Goto(g, "derive")
            /\ UNCHANGED rowVars
         \/ /\ t.pc = "derive"
            /\ th' = [th EXCEPT ![g] = Free]
            /\ UNCHANGED rowVars
  /\ UNCHANGED <<sender, link, wallets, bookVars, fails, crashes, unheard>>

\* next_attempt_at passes.  A lease of fifteen seconds outlasts an attempt and
\* the record of its outcome; a reversal has ten seconds per posting and sleeps
\* of its own, and may outlast the lease.
TimePasses ==
  /\ nextAt # "now"
  /\ nextAt = "lease" => \A g \in Goroutine : th[g].pc \notin TimedPhase
  /\ nextAt' = "now"
  /\ UNCHANGED <<sender, link, wallets, bookVars, status, th, fails, faultVars>>

\* The process dies and is started again: only the database is left.
Crash ==
  /\ crashes < MaxCrashes
  /\ crashes' = crashes + 1
  /\ sender' = [c \in Caller |-> IF sender[c] \in Answered \cup {"idle"}
                                 THEN sender[c] ELSE "error"]
  /\ th' = [g \in Goroutine |-> Free]
  /\ fails' = [key \in Counter |-> 0]
  /\ nextAt' = IF nextAt \in Goroutine THEN "lease" ELSE nextAt
  /\ UNCHANGED <<link, wallets, bookVars, status, unheard, lost>>

\* RevokeTenantLink.
Revoke ==
  /\ link
  /\ link' = FALSE
  /\ UNCHANGED <<sender, wallets, bookVars, rowVars, th, fails, faultVars>>

\* CreateAccount of another wallet of the sender.
OpenWallet ==
  /\ \E n \in Wallet \ wallets : wallets' = wallets \cup {n}
  /\ UNCHANGED <<sender, link, bookVars, rowVars, th, fails, faultVars>>

SendStep(c) ==
  \/ Existing(c) \/ Prepare(c) \/ PostLeg1(c) \/ CreateTransferState(c)
  \/ TriggerForwardLegs(c)

Run(g) ==
  \/ Claim(g) \/ PostLeg(g) \/ PostLegFails(g) \/ RecordLegSuccess(g)
  \/ Retry(g) \/ Wake(g)
  \/ PostLeg2Reversal(g) \/ PostLeg1Reversal(g) \/ ReversalFails(g)
  \/ WakeReversal(g) \/ RecordReversal(g)
  \/ Inspect(g) \/ Derive(g)

\* Nothing is left to do: every call answered, every goroutine gone.
Quiet ==
  /\ \A c \in Caller : sender[c] \in Answered
  /\ \A g \in Goroutine : th[g] = Free

Next ==
  \/ \E c \in Caller : Send(c) \/ SendStep(c) \/ SendFails(c)
  \/ \E g \in Goroutine : Run(g) \/ Tick(g) \/ StatementLost(g)
  \/ TimePasses \/ Crash \/ Revoke \/ OpenWallet
  \/ Quiet /\ UNCHANGED vars

Spec == Init /\ [][Next]_vars

\* Goroutines and handlers are scheduled, clocks advance, and a ticker that
\* runs keeps running.  Failures, crashes and operators are not fair.
FairSpec ==
  /\ Spec
  /\ \A c \in Caller : WF_vars(SendStep(c))
  /\ \A g \in Goroutine : WF_vars(Run(g))
  /\ WF_vars(TimePasses)
  /\ WF_vars(\E g \in Goroutine : Tick(g))

-----------------------------------------------------------------------------
\* Types; the row holds one of the statuses the coordinator writes.
SagaTypeOK ==
  /\ sender \in [Caller -> SenderPhase]
  /\ link \in BOOLEAN
  /\ wallets \subseteq Wallet
  /\ posted \subseteq LegKey
  /\ debited \in Wallet \cup {NoWallet}
  /\ refunded \in Wallet \cup {NoWallet}
  /\ status \in Status
  /\ nextAt \in {"now", "lease"} \cup Goroutine
  /\ th \in [Goroutine -> [pc : GoroutinePhase, leg : {0, 2, 3}, mode : Mode]]
  /\ fails \in [Counter -> 0 .. RetryBudget]
  /\ crashes \in 0 .. MaxCrashes
  /\ unheard \in 0 .. MaxUnheard
  /\ lost \in 0 .. MaxLost

\* A leg posts only after the one before it, and a compensation only undoes
\* what has posted: "Leg 3 must never be attempted before Leg 2 has actually
\* posted" (transfer_coordinator.go:655-656), compensations "in
\* reverse-of-posting order" (:1053-1055).
LegsInOrder ==
  /\ posted # {} => "leg1" \in posted
  /\ "leg3" \in posted => "leg2" \in posted
  /\ "leg2:reverse" \in posted => "leg2" \in posted
  /\ {"leg2", "leg1:reverse"} \subseteq posted => "leg2:reverse" \in posted

\* The money of one transfer ends in one place: never with the receiver and
\* back with the sender as well.
PaidOrRefunded == ~({"leg3", "leg1:reverse"} \subseteq posted)

\* What GET /transfers/{id} reports is what the books hold.
StatusTruthful ==
  /\ status # "absent" => "leg1" \in posted
  /\ status = "settled" =>
       {"leg2", "leg3"} \subseteq posted /\ {Undo(1), Undo(2)} \cap posted = {}
  /\ status = "reversed" =>
       /\ "leg1:reverse" \in posted
       /\ "leg2" \in posted => "leg2:reverse" \in posted
       /\ "leg3" \notin posted

\* Where the money of the transfer is, by the keys that have posted.
Money ==
  IF Undo(1) \in posted THEN "returned"
  ELSE IF "leg3" \in posted THEN "receiver"
  ELSE IF "leg1" \in posted THEN "held" ELSE "sender"

Promise == INSTANCE CrossTenantTransfer WITH money <- Money, report <- status

\* The saga implements the promise (CrossTenantTransfer): step by step the money
\* moves to one side only, only while the transfer is open, and a terminal
\* status, written once and "never attempting anything further"
\* (transfer_coordinator.go:878-879), reports what has happened to the money.
KeepsPromise == Promise!Spec

\* Money that has left the sender without a row to find it by
\* (transfer_coordinator.go:425) is never silent: a call is about to write the
\* row, or the caller of one was told an error and knows to send it again.
HeldIsReported ==
  "leg1" \in posted /\ status = "absent" => \E c \in Caller : sender[c] \in {"record", "error"}

\* "The caller must never trigger a second forward-leg attempt chain for a
\* transfer that already has one" (transfer_coordinator.go:375-377), however
\* often the transfer is sent again.
OneChain == Cardinality({g \in Goroutine : th[g] # Free}) <= 1

\* A reversal moves "the SAME two accounts leg 1's original Post moved between"
\* (transfer_coordinator.go:831-832): the money goes back where it came from.
RefundReachesPayer == refunded # NoWallet => refunded = debited

\* With a ticker, whatever dies or is lost, a transfer does not stay half-way:
\* it comes to a terminal status, or its receiver is paid.
TransferResolves == status # "absent" ~> (status \in Terminal \/ "leg3" \in posted)

\* As long as the process lives and its own statements succeed, every transfer
\* whose row exists comes to a terminal status, however often its legs and
\* their reversals fail (transfer_coordinator.go:783-826).
UndisturbedEnds ==
  status # "absent" ~> (status \in Terminal \/ crashes > 0 \/ lost > 0)

\* Every transfer whose row exists comes to a terminal status: persisted state
\* "is what makes a crashed process's in-flight, non-terminal transfers
\* resumable on the next process's startup" (ADR-015).
EveryTransferEnds == status # "absent" ~> status \in Terminal
=============================================================================
