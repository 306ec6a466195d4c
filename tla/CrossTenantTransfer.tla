------------------------- MODULE CrossTenantTransfer -------------------------
(***************************************************************************)
(* What a cross-tenant transfer promises its two tenants, whatever legs,   *)
(* retries, compensations and restarts it takes: the money is in one       *)
(* place, and the status reports where it ended.                           *)
(*                                                                         *)
(* TransferSaga implements this with postings under five idempotency keys  *)
(* and one row (src/internal/app/transfer_coordinator.go); ADR-015 is the  *)
(* promise.                                                                *)
(***************************************************************************)
VARIABLES
  money,   \* "sender", "held" on the way, "receiver", or "returned"
  report   \* what GET /transfers/{id} says, "absent" before it is known

vars == <<money, report>>

Open == {"pending", "retrying"}

Init == money = "sender" /\ report = "absent"

\* The sender is debited once, before the transfer is known by an id.
Take == money = "sender" /\ money' = "held" /\ UNCHANGED report

Accept == money = "held" /\ report = "absent" /\ report' = "pending" /\ UNCHANGED money

\* Held money leaves on one side only, and only for a transfer that is open.
Pay == money = "held" /\ report \in Open /\ money' = "receiver" /\ UNCHANGED report
Return == money = "held" /\ report \in Open /\ money' = "returned" /\ UNCHANGED report

\* Until it ends a transfer may be reported as waiting for its next attempt.
Wait == report \in Open /\ report' \in Open /\ UNCHANGED money

\* The three ends, each reported of what has happened.
Settle == money = "receiver" /\ report \in Open /\ report' = "settled" /\ UNCHANGED money
Reverse == money = "returned" /\ report \in Open /\ report' = "reversed" /\ UNCHANGED money
GiveUp == money = "held" /\ report \in Open /\ report' = "reversal_failed" /\ UNCHANGED money

Next == Take \/ Accept \/ Pay \/ Return \/ Wait \/ Settle \/ Reverse \/ GiveUp

Spec == Init /\ [][Next]_vars
=============================================================================
