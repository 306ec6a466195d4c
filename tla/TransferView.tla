---------------------------- MODULE TransferView ----------------------------
(***************************************************************************)
(* GET /transfers/{id} beside a running transfer: requireTransferParty     *)
(* (src/internal/adapters/http/router.go) and                              *)
(* TransferCoordinator.GetTransfer (src/internal/app/                      *)
(* transfer_coordinator.go).                                               *)
(*                                                                         *)
(* The view is put together from one row and up to four keys, each read by *)
(* a statement of its own at READ COMMITTED, while the legs, their         *)
(* reversals and the row itself move on between the reads.  What a view    *)
(* may be trusted for rests on the order of those reads.                   *)
(***************************************************************************)
EXTENDS TransferSaga, Sequences

Reader == {"operator", "sender", "receiver", "stranger", "nobody"}
Party == {"operator", "sender", "receiver"}

VARIABLES
  view,  \* the call of the reader, and what it has put together so far
  seen   \* history: the last view any reader was shown

viewVars == <<vars, view, seen>>

NoView == [pc |-> "idle", who |-> "nobody", status |-> "absent",
           leg1 |-> "unread", leg2 |-> "unread", leg3 |-> "unread"]

LegStatus == {"unread", "pending", "posted", "reversed"}

\* Mutant: the keys first, and the row they belong to last.
ReadOrderRowLast == <<"leg1", "leg2", "leg2Posted", "leg3", "row">>

\* The statements of GetTransfer, leg1DisplayStatus and leg2DisplayStatus.
ReadOrder == <<"row", "leg1", "leg2", "leg2Posted", "leg3">>

ReadIndex == CHOOSE i \in DOMAIN ReadOrder : ReadOrder[i] = view.pc
AfterRead == IF ReadIndex = Len(ReadOrder) THEN "shown" ELSE ReadOrder[ReadIndex + 1]
Reading == {ReadOrder[i] : i \in DOMAIN ReadOrder}

Saw(v) == view' = [v EXCEPT !.pc = AfterRead]
Refuse(answer) == view' = [NoView EXCEPT !.pc = answer, !.who = view.who]

-----------------------------------------------------------------------------
\* What a shown view has told, whoever asked for it.
Remember == seen' = IF view.pc = "shown" THEN [view EXCEPT !.who = "nobody"] ELSE seen

\* What the key of a call is answered.  A tenant's is looked up, and a lookup
\* that fails counts as a key nobody has; the operator's is compared only.
Identified(who) ==
  (IF who = "nobody" THEN {} ELSE {"party"})
    \cup (IF who = "operator" THEN {} ELSE {"unidentified_caller"})

\* A call; one that carries no key the platform knows is refused at once.
Ask(who) ==
  /\ view.pc \notin Reading \cup {"party"}
  /\ \E answer \in Identified(who) : view' = [NoView EXCEPT !.who = who, !.pc = answer]
  /\ Remember
  /\ UNCHANGED vars

Admits(who) == who \in Party

\* requireTransferParty reads the row in a unit of work of its own.  No row and
\* somebody else's row are the same answer.
RequireTransferParty ==
  /\ view.pc = "party"
  /\ \/ status # "absent" /\ Admits(view.who) /\ view' = [view EXCEPT !.pc = ReadOrder[1]]
     \/ ~(status # "absent" /\ Admits(view.who)) /\ Refuse("transfer_not_found")
  /\ UNCHANGED <<vars, seen>>

ReadRow ==
  /\ view.pc = "row"
  /\ Saw([view EXCEPT !.status = status])
  /\ UNCHANGED <<vars, seen>>

\* leg1DisplayStatus: posted, since there is a row, unless its reversal is.
ReadLeg1 ==
  /\ view.pc = "leg1"
  /\ Saw([view EXCEPT !.leg1 = IF Undo(1) \in posted THEN "reversed" ELSE "posted"])
  /\ UNCHANGED <<vars, seen>>

\* leg2DisplayStatus: the reversal's key takes precedence over the leg's own,
\* which is looked up only when there is none.
ReadLeg2 ==
  /\ view.pc \in {"leg2", "leg2Posted"}
  /\ IF view.leg2 = "reversed" THEN Saw(view)
     ELSE LET found == (IF view.pc = "leg2" THEN Undo(2) ELSE Leg(2)) \in posted
          IN  Saw([view EXCEPT !.leg2 = IF ~found THEN "pending"
                                        ELSE IF view.pc = "leg2" THEN "reversed" ELSE "posted"])
  /\ UNCHANGED <<vars, seen>>

ReadLeg3 ==
  /\ view.pc = "leg3"
  /\ Saw([view EXCEPT !.leg3 = IF Leg(3) \in posted THEN "posted" ELSE "pending"])
  /\ UNCHANGED <<vars, seen>>

\* A statement fails: the reader is told an error and nothing else.
ReadFails ==
  /\ view.pc \in Reading \cup {"party"}
  /\ Refuse("error")
  /\ UNCHANGED <<vars, seen>>

View ==
  \/ \E who \in Reader : Ask(who)
  \/ RequireTransferParty \/ ReadRow \/ ReadLeg1 \/ ReadLeg2 \/ ReadLeg3 \/ ReadFails

\* A restart of the process takes the reader's call with it.
Write ==
  /\ Next
  /\ IF crashes' = crashes THEN UNCHANGED <<view, seen>> ELSE view' = NoView /\ Remember

ViewInit == Init /\ view = NoView /\ seen = NoView

ViewNext == Write \/ View

ViewSpec == ViewInit /\ [][ViewNext]_viewVars

-----------------------------------------------------------------------------
\* A view that says how the transfer ended agrees with the legs it lists, and
\* no view shows the money on both sides, although every part is read at a
\* moment of its own (transfer_coordinator.go:1246-1289): the row before the
\* keys, leg 1's reversal before leg 2's, and leg 3 last.
ViewConsistent ==
  view.pc = "shown" =>
    /\ view.status = "settled" => view.leg1 = "posted" /\ view.leg2 = "posted" /\ view.leg3 = "posted"
    /\ view.status = "reversed" => view.leg1 = "reversed"
    /\ view.leg1 = "reversed" => view.leg2 # "posted" /\ view.leg3 = "pending"
    /\ view.leg2 = "reversed" => view.leg3 = "pending"

\* What one view says of the status of a leg, and what a later one may.
NotBefore(early, late) ==
  \/ early = late
  \/ early \in {"unread", "pending"}
  \/ early = "posted" /\ late = "reversed"

\* No view takes back what an earlier one has told, to the same party or to the
\* other: a client that polls until the transfer has ended
\* (transfer_coordinator.go:1246-1289) may act on what it was told, though every
\* view is put together out of moments of its own, and sends, retries, restarts
\* and compensations write the row and the books in between.
ViewsNeverTurnBack ==
  view.pc = "shown" =>
    /\ seen.status \in Terminal => view.status = seen.status
    /\ \A leg \in {"leg1", "leg2", "leg3"} : NotBefore(seen[leg], view[leg])
=============================================================================
