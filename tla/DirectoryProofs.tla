-------------------------- MODULE DirectoryProofs ---------------------------
(***************************************************************************)
(* Proofs about TenantDirectory, for every number of concurrent calls,     *)
(* tenants, names, links and aliases, and every set of commands.           *)
(***************************************************************************)
EXTENDS TenantDirectory, TLAPS

OpPhase(op) ==
  CASE op = "provision" -> {"provision", "createTenant"}
    [] op = "authorize" -> {"authorize", "readPair", "createLink"}
    [] op = "revoke" -> {"revoke", "updateLink"}
    [] op = "register" -> {"register", "createAlias"}
    [] op = "resolve" -> {"resolve", "readLink", "getAccount", "createAccount"}
    [] OTHER -> {"idle"}

NoCommand == [op |-> "none"]

\* The types of what DirectoryTypeOK leaves out.
LocalOK ==
  /\ cmd \in [Call -> Command \cup {NoCommand}]
  /\ used \in [Call -> (LinkId \cup TenantId \cup {None}) \X (TenantId \cup {None})]
  /\ before \in [Call -> SUBSET LinkId]

\* Where a call may stand, for what it asks, and for whom it then acts.
PhaseOK ==
  \A r \in Call :
    /\ pc[r] \in OpPhase(cmd[r].op) \cup {"commit", "done"}
    /\ IF pc[r] = "idle" THEN acts[r] = None /\ cmd[r] = NoCommand ELSE cmd[r] \in Command
    /\ cmd[r].op \in {"register", "resolve"} /\ pc[r] # "done" => acts[r] \in TenantId
    /\ pc[r] \notin {"commit", "done"} => step[r] \in 0 .. 3
    /\ answer[r] # "none" => pc[r] = "done"

\* What the row u, read by the call r, must be worth once r stands at phase.
Relies(r, phase, u) ==
  /\ cmd[r].op = "authorize" /\ phase \in {"readPair", "createLink", "commit"} =>
       u \in TenantId \X TenantId /\ u[1] <= u[2]
  /\ cmd[r].op = "revoke" /\ phase \in {"updateLink", "commit"} => links[cmd[r].link] # NoLink
  /\ cmd[r].op = "register" /\ phase \in {"createAlias", "commit"} =>
       u \in LinkId \X TenantId /\ Joins(u[1], Pair(acts[r], u[2]))
  /\ cmd[r].op = "resolve" /\ phase \in {"readLink", "getAccount", "createAccount"} =>
       u \in LinkId \X TenantId
  /\ cmd[r].op = "resolve" /\ phase \in {"getAccount", "createAccount", "commit"} =>
       u[1] \notin before[r]

\* What a call has read and still relies on.
UsedOK ==
  \A r \in Call :
    /\ Relies(r, pc[r], used[r])
    /\ before[r] \subseteq {l \in LinkId : links[l].status = "revoked"}

\* A row a call makes is there once the call is done, and its tenants in order.
RowsOK ==
  /\ \A r \in Call : (nameOf[r] # None \/ links[r] # NoLink) => pc[r] = "done"
  /\ \A l \in LinkId : links[l] # NoLink => links[l].a <= links[l].b
  /\ nameOf[LegacyTenant] # None

\* What r is about to write, having read u, is free, and nobody else writes it.
Free(r, u) ==
  /\ cmd[r].op = "provision" =>
       /\ IdsNamed(cmd[r].name) = {}
       /\ \A q \in Call \ {r} : Writing(q, "provision") => cmd[q].name # cmd[r].name
  /\ cmd[r].op = "authorize" =>
       /\ \A l \in LinkId : Active(l) => ~Joins(l, u)
       /\ \A q \in Call \ {r} : Writing(q, "authorize") => used[q] # u
  /\ cmd[r].op = "register" =>
       /\ ~Taken(SlotOf(r))
       /\ \A q \in Call \ {r} : Writing(q, "register") => SlotOf(q) # SlotOf(r)

WritersOK == \A r \in Call : pc[r] = "commit" => Free(r, used[r])

IInv == /\ DirectoryTypeOK /\ LocalOK /\ PhaseOK /\ UsedOK /\ RowsOK /\ WritersOK
        /\ NameBoundOnce /\ OneActiveLink /\ AliasBehindLink /\ RevocationHolds /\ KeysNameTenants

-----------------------------------------------------------------------------
(* The operators of the model.                                             *)

\* What each command carries.
LEMMA CommandFields ==
  ASSUME NEW c \in Command
  PROVE  /\ c.op \in {"provision", "authorize", "revoke", "register", "resolve"}
         /\ c.key \in Key
         /\ c.op = "provision" => c.name \in Name
         /\ c.op = "revoke" => c.link \in LinkId
         /\ c.op \in {"register", "resolve"} => c.alias \in Alias
         /\ c.op = "register" => c.target \in TenantId
BY DirectoryAssumption
   DEF ProvisionCommand, AuthorizeCommand, RevokeCommand, RegisterCommand, ResolveCommand

\* An unordered pair has one order, and canonicalizePair finds it.
LEMMA OneOrder ==
  ASSUME NEW a \in Int, NEW b \in Int, NEW c \in Int, NEW d \in Int, a <= b, c <= d, {a, b} = {c, d}
  PROVE  a = c /\ b = d
OBVIOUS

(* The same for a pair that lists the two tenants in order, as a link row does. *)
LEMMA PairFindsOrder ==
  ASSUME NEW a \in Int, NEW b \in Int, NEW c \in Int, NEW d \in Int, c <= d, {a, b} = {c, d}
  PROVE  Pair(a, b) = <<c, d>>
<1>1. (a = c /\ b = d) \/ (a = d /\ b = c)
  OBVIOUS
<1> QED
  BY <1>1 DEF Pair

\* canonicalizePair orders its two tenants, whichever way round they come.
LEMMA PairInOrder ==
  ASSUME NEW s \in TenantId, NEW t \in TenantId
  PROVE  /\ Pair(s, t) \in TenantId \X TenantId
         /\ Pair(s, t)[1] <= Pair(s, t)[2]
         /\ Pair(s, t) = Pair(t, s)
         /\ s <= t => Pair(s, t) = <<s, t>>
         /\ {Pair(s, t)[1], Pair(s, t)[2]} = {s, t}
BY DirectoryAssumption DEF Pair

\* A committed row is told from the absence of one.
LEMMA RowsPresent ==
  ASSUME DirectoryTypeOK
  PROVE  /\ \A l \in LinkId : links[l] # NoLink <=>
              links[l] \in [a : TenantId, b : TenantId, status : {"active", "revoked"}]
         /\ \A l \in LinkId : Active(l) \/ links[l].status = "revoked" => links[l] # NoLink
         /\ \A slot \in Slot : Taken(slot) <=> aliases[slot] \in [link : LinkId, target : TenantId]
<1>1. None \notin TenantId
  BY DirectoryAssumption
<1> QED
  BY <1>1 DEF DirectoryTypeOK, NoLink, NoAlias, Taken, Active

(* The tables a run starts from satisfy the invariant. *)
LEMMA InitIInv == Init => IInv
<1> SUFFICES ASSUME Init PROVE IInv
  OBVIOUS
<1>a. \A l \in InitLink : /\ InitPair[l][1] \in TenantId /\ InitPair[l][2] \in TenantId
                          /\ InitPair[l] = <<InitPair[l][1], InitPair[l][2]>>
                          /\ InitPair[l][1] <= InitPair[l][2]
                          /\ l \in LinkId /\ InitPair[l][1] \in Int /\ InitPair[l][2] \in Int
  <2> SUFFICES ASSUME NEW l \in InitLink
               PROVE  /\ InitPair[l][1] \in TenantId /\ InitPair[l][2] \in TenantId
                      /\ InitPair[l] = <<InitPair[l][1], InitPair[l][2]>>
                      /\ InitPair[l][1] <= InitPair[l][2]
                      /\ l \in LinkId /\ InitPair[l][1] \in Int /\ InitPair[l][2] \in Int
    OBVIOUS
  <2>1. InitPair[l] \in InitTenant \X InitTenant /\ InitPair[l][1] <= InitPair[l][2]
    BY DirectoryAssumption
  <2>2. InitTenant \subseteq TenantId /\ TenantId \subseteq Int /\ l \in LinkId
    BY DirectoryAssumption DEF TenantId, LinkId
  <2>3. \A p \in InitTenant \X InitTenant : p = <<p[1], p[2]>> /\ p[1] \in InitTenant /\ p[2] \in InitTenant
    OBVIOUS
  <2>4. /\ InitPair[l] = <<InitPair[l][1], InitPair[l][2]>>
        /\ InitPair[l][1] \in InitTenant /\ InitPair[l][2] \in InitTenant
    BY <2>1, <2>3, Zenon
  <2> QED
    BY <2>1, <2>2, <2>4, Zenon
<1>b. \A slot \in DOMAIN InitAlias :
        /\ slot \in Slot /\ InitAlias[slot] \in [link : LinkId, target : TenantId]
        /\ slot[1] \in TenantId /\ InitAlias[slot].target \in TenantId /\ InitAlias[slot].link \in InitLink
        /\ {slot[1], InitAlias[slot].target}
             = {InitPair[InitAlias[slot].link][1], InitPair[InitAlias[slot].link][2]}
  BY DirectoryAssumption DEF TenantId, LinkId, Slot
<1>1. DirectoryTypeOK
  <2>1. nameOf \in [TenantId -> Name \cup {None}]
    BY DirectoryAssumption DEF TenantId, Init
  <2>2. links \in [LinkId -> [a : TenantId, b : TenantId, status : {"active", "revoked"}] \cup {NoLink}]
    BY <1>a DEF Init
  <2>3. aliases \in [Slot -> [link : LinkId, target : TenantId] \cup {NoAlias}]
    BY <1>b DEF Init
  <2> QED
    BY <2>1, <2>2, <2>3 DEF Init, DirectoryTypeOK, Phase, Outcome
<1>2. LocalOK /\ PhaseOK
  BY DEF Init, LocalOK, PhaseOK, NoCommand, OpPhase
<1>3. UsedOK /\ WritersOK /\ RevocationHolds
  BY DEF Init, UsedOK, Relies, WritersOK, RevocationHolds, Writing
<1>4. RowsOK
  BY DirectoryAssumption DEF Init, RowsOK, TenantId, LinkId
<1>5. NameBoundOnce
  BY DirectoryAssumption DEF Init, NameBoundOnce
<1>6. OneActiveLink
  <2> SUFFICES ASSUME NEW l \in LinkId, NEW m \in LinkId, Active(l), Active(m),
                      {links[l].a, links[l].b} = {links[m].a, links[m].b}
               PROVE  l = m
    BY DEF OneActiveLink
  <2>1. l \in InitLink /\ m \in InitLink
    BY DEF Init, Active, NoLink
  <2>2. {InitPair[l][1], InitPair[l][2]} = {InitPair[m][1], InitPair[m][2]}
    BY <1>a, <2>1 DEF Init
  <2>3. InitPair[l][1] = InitPair[m][1] /\ InitPair[l][2] = InitPair[m][2]
    <3> DEFINE a == InitPair[l][1]
               b == InitPair[l][2]
               c == InitPair[m][1]
               d == InitPair[m][2]
    <3>1. a \in Int /\ b \in Int /\ c \in Int /\ d \in Int /\ a <= b /\ c <= d /\ {a, b} = {c, d}
      BY <1>a, <2>1, <2>2
    <3> HIDE DEF a, b, c, d
    <3>2. a = c /\ b = d
      BY <3>1, OneOrder
    <3> QED
      BY <3>2 DEF a, b, c, d
  <2>4. InitPair[l] = InitPair[m]
    BY <1>a, <2>1, <2>3
  <2> QED
    BY <2>1, <2>4, DirectoryAssumption
<1>7. AliasBehindLink
  <2> SUFFICES ASSUME NEW slot \in Slot, Taken(slot)
               PROVE  Joins(aliases[slot].link, Pair(slot[1], aliases[slot].target))
    BY DEF AliasBehindLink
  <2>1. slot \in DOMAIN InitAlias /\ aliases[slot] = InitAlias[slot]
    BY DEF Init, Taken
  <2> DEFINE l == InitAlias[slot].link
  <2>2. links[l].a = InitPair[l][1] /\ links[l].b = InitPair[l][2]
    BY <1>a, <1>b, <2>1 DEF Init
  <2>3. Pair(slot[1], InitAlias[slot].target) = <<InitPair[l][1], InitPair[l][2]>>
    <3> DEFINE a == slot[1]
               b == InitAlias[slot].target
               c == InitPair[l][1]
               d == InitPair[l][2]
    <3>1. a \in Int /\ b \in Int
      BY <1>b, <2>1, DirectoryAssumption
    <3>2. c \in Int /\ d \in Int /\ c <= d /\ {a, b} = {c, d}
      BY <1>a, <1>b, <2>1
    <3> HIDE DEF a, b, c, d, l
    <3>3. Pair(a, b) = <<c, d>>
      BY <3>1, <3>2, PairFindsOrder
    <3> QED
      BY <3>3 DEF a, b, c, d, l
  <2> QED
    BY <2>1, <2>2, <2>3 DEF Joins
<1>8. KeysNameTenants
  BY DirectoryAssumption DEF Init, KeysNameTenants
<1> QED
  BY <1>1, <1>2, <1>3, <1>4, <1>5, <1>6, <1>7, <1>8 DEF IInv

-----------------------------------------------------------------------------
(* What a step leaves as it was.                                           *)

\* r is the only call to move; what it asks, for whom and since when stays.
Alone(r) ==
  /\ \A q \in Call \ {r} : /\ pc'[q] = pc[q] /\ step'[q] = step[q] /\ used'[q] = used[q]
                           /\ mine'[q] = mine[q] /\ answer'[q] = answer[q]
  /\ UNCHANGED <<cmd, acts, before>>

(* Answering a call changes that call's own program state and no other's. *)
LEMMA FinishAlone ==
  ASSUME DirectoryTypeOK, LocalOK, NEW r \in Call, NEW o \in Outcome, Finish(r, o)
  PROVE  /\ Alone(r) /\ pc'[r] = "done" /\ used'[r] = used[r] /\ answer'[r] = o
         /\ pc' \in [Call -> Phase] /\ step' \in [Call -> 0 .. 4] /\ mine' \in [Call -> SUBSET Account]
         /\ answer' \in [Call -> Outcome] /\ LocalOK'
<1>1. pc' = [pc EXCEPT ![r] = "done"] /\ answer' = [answer EXCEPT ![r] = o]
      /\ mine' = [mine EXCEPT ![r] = {}] /\ UNCHANGED <<cmd, acts, step, used, before>>
  BY DEF Finish, Goto
<1>2. "done" \in Phase /\ {} \in SUBSET Account
  BY DEF Phase
<1>3. Alone(r) /\ pc'[r] = "done" /\ used'[r] = used[r] /\ answer'[r] = o
  BY <1>1 DEF Alone, DirectoryTypeOK
<1>4. pc' \in [Call -> Phase] /\ step' \in [Call -> 0 .. 4] /\ answer' \in [Call -> Outcome]
  BY <1>1, <1>2 DEF DirectoryTypeOK
<1>5. mine' \in [Call -> SUBSET Account]
  BY <1>1, <1>2 DEF DirectoryTypeOK
<1>6. LocalOK'
  BY <1>1 DEF LocalOK
<1> QED
  BY <1>3, <1>4, <1>5, <1>6

\* A call that returns an error, wherever it stands.
LEMMA RefusalKeepsInv ==
  ASSUME IInv, NEW r \in Call, NEW o \in Refusal \cup {"constraint", "failed"},
         pc[r] \notin {"idle", "done"}, Finish(r, o), UNCHANGED <<nameOf, links, aliases, opened>>
  PROVE  IInv'
<1>0. DirectoryTypeOK /\ LocalOK /\ PhaseOK /\ UsedOK /\ RowsOK /\ WritersOK
  BY DEF IInv
<1>1. o \in Outcome /\ o # "none" /\ o # "ok"
  BY DEF Outcome, Refusal
<1>2. /\ Alone(r) /\ pc'[r] = "done" /\ used'[r] = used[r] /\ answer'[r] = o
      /\ pc' \in [Call -> Phase] /\ step' \in [Call -> 0 .. 4] /\ mine' \in [Call -> SUBSET Account]
      /\ answer' \in [Call -> Outcome] /\ LocalOK'
  BY <1>0, <1>1, FinishAlone
<1>3. DirectoryTypeOK'
  BY <1>0, <1>2 DEF DirectoryTypeOK, Alone
<1>4. PhaseOK'
  BY <1>0, <1>1, <1>2 DEF PhaseOK, Alone
<1>5. UsedOK'
  BY <1>0, <1>2 DEF UsedOK, Relies, Alone, Joins
<1>6. RowsOK'
  BY <1>0, <1>2 DEF RowsOK, Alone
<1>7. WritersOK'
  BY <1>0, <1>2 DEF WritersOK, Free, Writing, SlotOf, Taken, Active, Joins, IdsNamed, Alone
<1>8. NameBoundOnce' /\ OneActiveLink' /\ AliasBehindLink'
  BY DEF IInv, NameBoundOnce, OneActiveLink, AliasBehindLink, Active, Joins, Taken
<1>9. RevocationHolds'
  BY <1>1, <1>2 DEF IInv, RevocationHolds, Alone
<1>10. KeysNameTenants'
  BY <1>1, <1>2 DEF IInv, KeysNameTenants, Alone, TenantOfKey, WithCredential
<1> QED
  BY <1>2, <1>3, <1>4, <1>5, <1>6, <1>7, <1>8, <1>9, <1>10 DEF IInv

\* A call that goes on, with a row worth what its next statement relies on and,
\* before its commit, nobody in its way.
LEMMA ProgressKeepsInv ==
  ASSUME IInv, NEW r \in Call, NEW phase \in Phase \ {"idle", "done"},
         NEW u \in (LinkId \cup TenantId \cup {None}) \X (TenantId \cup {None}),
         pc[r] \notin {"idle", "done", "commit"}, phase \in OpPhase(cmd[r].op) \cup {"commit"},
         Relies(r, phase, u), phase = "commit" => Free(r, u),
         Alone(r), pc'[r] = phase, used'[r] = u, answer'[r] = answer[r],
         step'[r] \in 0 .. 4, phase # "commit" => step'[r] \in 0 .. 3, mine'[r] \in SUBSET Account,
         pc' \in [Call -> Phase], step' \in [Call -> 0 .. 4], mine' \in [Call -> SUBSET Account],
         answer' = answer, LocalOK', UNCHANGED <<nameOf, links, aliases, opened>>
  PROVE  IInv'
<1>0. DirectoryTypeOK /\ LocalOK /\ PhaseOK /\ UsedOK /\ RowsOK /\ WritersOK
  BY DEF IInv
<1>3. DirectoryTypeOK'
  BY <1>0 DEF DirectoryTypeOK, Alone
<1>4. PhaseOK'
  BY <1>0 DEF PhaseOK, Alone
<1>5. UsedOK'
  BY <1>0 DEF UsedOK, Relies, Alone, Joins
<1>6. RowsOK'
  BY <1>0 DEF RowsOK, Alone
<1>7. WritersOK'
  <2>1. ASSUME NEW q \in Call, q # r, pc[q] = "commit"
        PROVE  Free(q, used[q])'
    <3>1. Free(q, used[q]) /\ used'[q] = used[q] /\ cmd' = cmd /\ acts' = acts
      BY <1>0, <2>1 DEF WritersOK, Alone
    <3>2. ASSUME NEW p \in Call \ {q}, NEW op, Writing(p, op)'
          PROVE  IF p = r THEN phase = "commit" ELSE Writing(p, op) /\ used'[p] = used[p]
      BY <3>1, <3>2 DEF Writing, Alone
    <3>3. /\ \A p : SlotOf(p)' = SlotOf(p)
          /\ IdsNamed(cmd[q].name)' = IdsNamed(cmd[q].name) /\ Taken(SlotOf(q))' = Taken(SlotOf(q))
          /\ \A l \in LinkId : Active(l)' = Active(l) /\ Joins(l, used[q])' = Joins(l, used[q])
      BY <2>1, <3>1 DEF SlotOf, IdsNamed, Taken, Active, Joins, Alone
    <3>4. CASE cmd[q].op = "provision"
      BY <2>1, <3>1, <3>2, <3>3, <3>4 DEF Free, Writing
    <3>5. CASE cmd[q].op = "authorize"
      BY <2>1, <3>1, <3>2, <3>3, <3>5 DEF Free, Writing
    <3>6. CASE cmd[q].op = "register"
      BY <2>1, <3>1, <3>2, <3>3, <3>6 DEF Free, Writing
    <3> QED
      BY <3>1, <3>4, <3>5, <3>6 DEF Free
  <2>2. ASSUME phase = "commit"
        PROVE  Free(r, used[r])'
    BY <1>0, <2>2 DEF WritersOK, Free, Writing, SlotOf, Taken, Active, Joins, IdsNamed, Alone
  <2> QED
    BY <2>1, <2>2 DEF WritersOK, Alone
<1>8. NameBoundOnce' /\ OneActiveLink' /\ AliasBehindLink'
  BY DEF IInv, NameBoundOnce, OneActiveLink, AliasBehindLink, Active, Joins, Taken
<1>9. RevocationHolds'
  BY <1>0 DEF IInv, RevocationHolds, PhaseOK, Alone
<1>10. KeysNameTenants'
  BY DEF IInv, KeysNameTenants, Alone, TenantOfKey, WithCredential
<1> QED
  BY <1>3, <1>4, <1>5, <1>6, <1>7, <1>8, <1>9, <1>10 DEF IInv

(* A step that reads and goes on keeps the invariant if what the call takes
   along holds of the committed tables now (Relies, and Free before a write). *)
LEMMA ContinueKeepsInv ==
  ASSUME IInv, NEW r \in Call, NEW phase \in Phase \ {"idle", "done"},
         NEW u \in (LinkId \cup TenantId \cup {None}) \X (TenantId \cup {None}),
         pc[r] \notin {"idle", "done", "commit"}, phase \in OpPhase(cmd[r].op) \cup {"commit"},
         Relies(r, phase, u), phase = "commit" => Free(r, u),
         Continue(r, phase, u), UNCHANGED <<nameOf, links, aliases, opened>>
  PROVE  IInv'
<1>0. DirectoryTypeOK /\ LocalOK /\ PhaseOK
  BY DEF IInv
<1>1. pc' = [pc EXCEPT ![r] = phase] /\ used' = [used EXCEPT ![r] = u]
      /\ UNCHANGED <<cmd, acts, step, mine, answer, before>>
  BY DEF Continue, Goto
<1>2. Alone(r) /\ pc'[r] = phase /\ used'[r] = u /\ answer'[r] = answer[r] /\ answer' = answer
  BY <1>0, <1>1 DEF Alone, DirectoryTypeOK, LocalOK
<1>3. pc' \in [Call -> Phase] /\ step' \in [Call -> 0 .. 4] /\ mine' \in [Call -> SUBSET Account]
  BY <1>0, <1>1 DEF DirectoryTypeOK
<1>4. LocalOK'
  BY <1>0, <1>1 DEF LocalOK
<1>5. step'[r] \in 0 .. 4 /\ step'[r] \in 0 .. 3 /\ mine'[r] \in SUBSET Account
  BY <1>0, <1>1, <1>3 DEF PhaseOK
<1> HIDE DEF Relies, Free
<1> QED
  BY <1>2, <1>3, <1>4, <1>5, ProgressKeepsInv

\* One account more: the call goes for the next, or commits after the fourth.
LEMMA AdvanceKeepsInv ==
  ASSUME IInv, NEW r \in Call, pc[r] \in {"getAccount", "createAccount"},
         NEW accounts \in SUBSET Account,
         Advance(r, accounts), UNCHANGED <<nameOf, links, aliases, opened>>
  PROVE  IInv'
<1>0. DirectoryTypeOK /\ LocalOK /\ PhaseOK /\ UsedOK
  BY DEF IInv
<1> DEFINE phase == IF step[r] = 3 THEN "commit" ELSE "getAccount"
<1>1. pc' = [pc EXCEPT ![r] = phase] /\ step' = [step EXCEPT ![r] = @ + 1]
      /\ mine' = [mine EXCEPT ![r] = @ \cup accounts]
      /\ UNCHANGED <<cmd, acts, used, answer, before>>
  BY DEF Advance, Goto
<1>2. step[r] \in 0 .. 3 /\ cmd[r].op = "resolve"
  <2>1. step[r] \in 0 .. 3 /\ cmd[r] \in Command /\ pc[r] \in OpPhase(cmd[r].op)
    BY <1>0 DEF PhaseOK
  <2> QED
    BY <2>1, CommandFields DEF OpPhase
<1>3. Alone(r) /\ pc'[r] = phase /\ used'[r] = used[r] /\ answer'[r] = answer[r] /\ answer' = answer
  BY <1>0, <1>1 DEF Alone, DirectoryTypeOK, LocalOK
<1>4. phase \in Phase \ {"idle", "done"} /\ phase \in {"getAccount", "commit"}
  BY DEF Phase
<1>5. pc' \in [Call -> Phase] /\ step' \in [Call -> 0 .. 4] /\ step'[r] \in 0 .. 4
  BY <1>0, <1>1, <1>2, <1>4 DEF DirectoryTypeOK
<1>6. mine' \in [Call -> SUBSET Account] /\ mine'[r] \in SUBSET Account
  BY <1>0, <1>1 DEF DirectoryTypeOK
<1>7. LocalOK'
  BY <1>0, <1>1 DEF LocalOK
<1>8. phase # "commit" => step'[r] \in 0 .. 3
  BY <1>0, <1>1, <1>2 DEF DirectoryTypeOK
<1>9. used[r] \in (LinkId \cup TenantId \cup {None}) \X (TenantId \cup {None})
  BY <1>0 DEF LocalOK
<1>10. Relies(r, pc[r], used[r])
  BY <1>0 DEF UsedOK
<1>11. Relies(r, phase, used[r]) /\ Free(r, used[r])
  BY <1>2, <1>4, <1>10 DEF Relies, Free
<1>12. phase \in OpPhase(cmd[r].op) \cup {"commit"}
  BY <1>2, <1>4 DEF OpPhase
<1> HIDE DEF phase, Relies, Free
<1> QED
  BY <1>3, <1>4, <1>5, <1>6, <1>7, <1>8, <1>9, <1>11, <1>12, ProgressKeepsInv

\* Whoever is identified holds the operator's key, or a key of the tenant.
LEMMA IdentifiedHoldsKey ==
  ASSUME DirectoryTypeOK, RowsOK, NEW c \in Command, NEW who \in Identified(c)
  PROVE  /\ who \in TenantId \cup {OperatorKey}
         /\ c.op \in {"register", "resolve"} => who \in TenantId
         /\ who \in TenantId => /\ nameOf[who] # None
                                /\ c.key = who \/ (c.key = DemoKey /\ who = LegacyTenant)
<1>1. c.op \in {"provision", "authorize", "revoke", "register", "resolve"}
  BY CommandFields
<1>2. LegacyTenant \in TenantId /\ nameOf[LegacyTenant] # None /\ OperatorKey \notin TenantId
  BY DirectoryAssumption DEF TenantId, RowsOK
<1>3. CASE c.op \in OperatorRoute
  BY <1>1, <1>2, <1>3 DEF Identified, OperatorRoute
<1>4. CASE c.op \notin OperatorRoute
  BY <1>1, <1>2, <1>4 DEF Identified, OperatorRoute, TenantOfKey, WithCredential
<1> QED
  BY <1>3, <1>4

\* How a request is let in or turned away.
Admitted(r, c) ==
  /\ acts' \in [Call -> TenantId \cup {OperatorKey, None}] /\ pc' \in [Call -> Phase]
  /\ answer' \in [Call -> Outcome]
  /\ \A q \in Call \ {r} : acts'[q] = acts[q] /\ pc'[q] = pc[q] /\ answer'[q] = answer[q]
  /\ pc'[r] \in {c.op, "done"} /\ answer'[r] # "ok" /\ (answer'[r] # "none" => pc'[r] = "done")
  /\ c.op \in {"register", "resolve"} /\ pc'[r] # "done" => acts'[r] \in TenantId
  /\ acts'[r] \in TenantId =>
        /\ nameOf[acts'[r]] # None
        /\ c.key = acts'[r] \/ (c.key = DemoKey /\ acts'[r] = LegacyTenant)

(* A call that arrives with a key notes what is revoked or taken already. *)
LEMMA SubmitKeepsInv ==
  ASSUME IInv, NEW r \in Call, NEW c \in Command, Submit(r, c)
  PROVE  IInv'
<1>0. DirectoryTypeOK /\ LocalOK /\ PhaseOK /\ UsedOK /\ RowsOK /\ WritersOK
  BY DEF IInv
<1>1. pc[r] = "idle" /\ answer[r] = "none" /\ acts[r] = None /\ None \notin TenantId
  BY <1>0, DirectoryAssumption DEF Submit, PhaseOK
<1>2. /\ cmd' = [cmd EXCEPT ![r] = c] /\ before' = [before EXCEPT ![r] = {l \in LinkId : links[l].status = "revoked"}]
      /\ UNCHANGED <<nameOf, links, aliases, opened, step, used, mine>>
  BY DEF Submit, tables
<1>3. /\ LocalOK' /\ cmd'[r] = c /\ before'[r] = {l \in LinkId : links[l].status = "revoked"}
      /\ \A q \in Call \ {r} : cmd'[q] = cmd[q] /\ before'[q] = before[q]
  BY <1>0, <1>2 DEF LocalOK
<1>4. c.op \in {"provision", "authorize", "revoke", "register", "resolve"}
  BY CommandFields
<1>5. Admitted(r, c)
  <2>1. ASSUME NEW who \in Identified(c), acts' = [acts EXCEPT ![r] = who], Goto(r, c.op), UNCHANGED answer
        PROVE  Admitted(r, c)
    <3>1. /\ who \in TenantId \cup {OperatorKey}
          /\ c.op \in {"register", "resolve"} => who \in TenantId
          /\ who \in TenantId => /\ nameOf[who] # None
                                 /\ c.key = who \/ (c.key = DemoKey /\ who = LegacyTenant)
      BY <1>0, IdentifiedHoldsKey
    <3>2. c.op \in Phase
      BY <1>4 DEF Phase
    <3> QED
      BY <1>0, <1>1, <2>1, <3>1, <3>2 DEF Admitted, Goto, DirectoryTypeOK
  <2>2. ASSUME Goto(r, "done"), answer' = [answer EXCEPT ![r] = "unidentified_caller"], UNCHANGED acts
        PROVE  Admitted(r, c)
    BY <1>0, <1>1, <2>2 DEF Admitted, Goto, DirectoryTypeOK, Phase, Outcome, Refusal
  <2>3. \/ \E who \in Identified(c) : acts' = [acts EXCEPT ![r] = who] /\ Goto(r, c.op) /\ UNCHANGED answer
        \/ Goto(r, "done") /\ answer' = [answer EXCEPT ![r] = "unidentified_caller"] /\ UNCHANGED acts
    BY DEF Submit
  <2> QED
    BY <2>1, <2>2, <2>3
<1>6. DirectoryTypeOK'
  BY <1>0, <1>2, <1>5 DEF Admitted, DirectoryTypeOK
<1>7. PhaseOK'
  <2>1. PhaseOK!(r)'
    <3>1. c.op \in OpPhase(c.op)
      BY <1>4 DEF OpPhase
    <3>2. step'[r] \in 0 .. 3
      BY <1>0, <1>1, <1>2 DEF PhaseOK
    <3>3. pc'[r] # "idle"
      BY <1>4, <1>5 DEF Admitted
    <3> QED
      BY <1>3, <1>5, <3>1, <3>2, <3>3 DEF Admitted
  <2>2. ASSUME NEW q \in Call, q # r PROVE PhaseOK!(q)'
    BY <1>0, <1>2, <1>3, <1>5, <2>2 DEF Admitted, PhaseOK
  <2> QED
    BY <2>1, <2>2 DEF PhaseOK
<1>8. UsedOK'
  <2>1. Relies(r, pc[r], used[r])'
    BY <1>3, <1>4, <1>5 DEF Admitted, Relies
  <2> QED
    BY <1>0, <1>2, <1>3, <1>5, <2>1 DEF Admitted, UsedOK, Relies, Joins
<1>9. RowsOK'
  BY <1>0, <1>1, <1>2, <1>5 DEF Admitted, RowsOK
<1>10. WritersOK'
  <2>1. pc'[r] # "commit"
    BY <1>4, <1>5 DEF Admitted
  <2>2. ASSUME NEW q \in Call, pc'[q] = "commit"
        PROVE  q # r /\ pc[q] = "commit" /\ cmd'[q] = cmd[q] /\ acts'[q] = acts[q]
    BY <1>3, <1>5, <2>1, <2>2 DEF Admitted
  <2>3. ASSUME NEW q \in Call, pc'[q] = "commit" PROVE Free(q, used[q])'
    <3>1. Free(q, used[q]) /\ used' = used /\ cmd'[q] = cmd[q] /\ SlotOf(q)' = SlotOf(q)
      BY <1>0, <1>2, <2>2, <2>3 DEF WritersOK, SlotOf
    <3>2. ASSUME NEW p \in Call, NEW op, Writing(p, op)'
          PROVE  Writing(p, op) /\ cmd'[p] = cmd[p] /\ SlotOf(p)' = SlotOf(p)
      BY <2>2, <3>2 DEF Writing, SlotOf
    <3>3. /\ IdsNamed(cmd[q].name)' = IdsNamed(cmd[q].name) /\ Taken(SlotOf(q))' = Taken(SlotOf(q))
          /\ \A l \in LinkId : Active(l)' = Active(l) /\ Joins(l, used[q])' = Joins(l, used[q])
      BY <1>2, <3>1 DEF IdsNamed, Taken, Active, Joins
    <3> QED
      BY <3>1, <3>2, <3>3 DEF Free
  <2> QED
    BY <2>3 DEF WritersOK
<1>11. NameBoundOnce' /\ OneActiveLink' /\ AliasBehindLink'
  BY <1>2 DEF IInv, NameBoundOnce, OneActiveLink, AliasBehindLink, Active, Joins, Taken
<1>12. RevocationHolds'
  BY <1>2, <1>3, <1>5 DEF Admitted, IInv, RevocationHolds
<1>13. KeysNameTenants'
  BY <1>1, <1>2, <1>3, <1>5 DEF Admitted, IInv, KeysNameTenants, TenantOfKey, WithCredential
<1> QED
  BY <1>3, <1>6, <1>7, <1>8, <1>9, <1>10, <1>11, <1>12, <1>13 DEF IInv

\* A call that is under way asks for what its phase belongs to.
LEMMA PhaseTellsOp ==
  ASSUME IInv, NEW r \in Call
  PROVE  /\ pc[r] # "idle" => cmd[r] \in Command
         /\ pc[r] \in {"provision", "createTenant"} => cmd[r].op = "provision"
         /\ pc[r] \in {"authorize", "readPair", "createLink"} => cmd[r].op = "authorize"
         /\ pc[r] \in {"revoke", "updateLink"} => cmd[r].op = "revoke"
         /\ pc[r] \in {"register", "createAlias"} => cmd[r].op = "register"
         /\ pc[r] \in {"resolve", "readLink", "getAccount", "createAccount"} => cmd[r].op = "resolve"
<1>1. pc[r] \in OpPhase(cmd[r].op) \cup {"commit", "done"} /\ (pc[r] # "idle" => cmd[r] \in Command)
  BY DEF IInv, PhaseOK
<1>2. pc[r] # "idle" => cmd[r].op \in {"provision", "authorize", "revoke", "register", "resolve"}
  BY <1>1, CommandFields
<1>3. CASE cmd[r].op = "provision"
  BY <1>1, <1>3 DEF OpPhase
<1>4. CASE cmd[r].op = "authorize"
  BY <1>1, <1>4 DEF OpPhase
<1>5. CASE cmd[r].op = "revoke"
  BY <1>1, <1>5 DEF OpPhase
<1>6. CASE cmd[r].op = "register"
  BY <1>1, <1>6 DEF OpPhase
<1>7. CASE cmd[r].op = "resolve"
  BY <1>1, <1>7 DEF OpPhase
<1> QED
  BY <1>1, <1>2, <1>3, <1>4, <1>5, <1>6, <1>7

\* The phases, per operation, a call may go on to.
LEMMA NextPhases ==
  ASSUME NEW r
  PROVE  /\ cmd[r].op = "provision" => "createTenant" \in OpPhase(cmd[r].op)
         /\ cmd[r].op = "authorize" => {"readPair", "createLink"} \subseteq OpPhase(cmd[r].op)
         /\ cmd[r].op = "revoke" => "updateLink" \in OpPhase(cmd[r].op)
         /\ cmd[r].op = "register" => "createAlias" \in OpPhase(cmd[r].op)
         /\ cmd[r].op = "resolve" => {"readLink", "getAccount", "createAccount"} \subseteq OpPhase(cmd[r].op)
         /\ {"createTenant", "readPair", "createLink", "updateLink", "createAlias", "readLink",
             "getAccount", "createAccount", "commit"} \subseteq Phase \ {"idle", "done"}
<1>1. CASE cmd[r].op = "provision"
  BY <1>1 DEF OpPhase, Phase
<1>2. CASE cmd[r].op = "authorize"
  BY <1>2 DEF OpPhase, Phase
<1>3. CASE cmd[r].op = "revoke"
  BY <1>3 DEF OpPhase, Phase
<1>4. CASE cmd[r].op = "register"
  BY <1>4 DEF OpPhase, Phase
<1>5. CASE cmd[r].op = "resolve"
  BY <1>5 DEF OpPhase, Phase
<1> QED
  BY <1>1, <1>2, <1>3, <1>4, <1>5 DEF Phase

(* ProvisionTenant decides on a name and an id that are free when it reads them. *)
LEMMA ProvisionKeepsInv ==
  ASSUME IInv, NEW r \in Call, Provision(r) \/ CreateTenant(r)
  PROVE  IInv'
<1>1. pc[r] \in {"provision", "createTenant"} /\ cmd[r].op = "provision"
      /\ UNCHANGED <<nameOf, links, aliases, opened>>
  BY PhaseTellsOp DEF Provision, CreateTenant, tables
<1>2. ASSUME NEW o \in {"tenant_already_exists", "constraint"}, Finish(r, o) PROVE IInv'
  BY <1>1, <1>2, RefusalKeepsInv DEF Refusal
<1>3. <<None, None>> \in (LinkId \cup TenantId \cup {None}) \X (TenantId \cup {None})
  OBVIOUS
<1>4. \A phase : Relies(r, phase, <<None, None>>)
  BY <1>1 DEF Relies
<1>5. CASE Continue(r, "createTenant", <<None, None>>)
  BY <1>1, <1>3, <1>4, <1>5, NextPhases, ContinueKeepsInv
<1>6. ASSUME CreateTenant(r), IdsNamed(cmd[r].name) = {}, Continue(r, "commit", <<None, None>>) PROVE IInv'
  <2>1. Free(r, <<None, None>>)
    BY <1>1, <1>6 DEF Free, CreateTenant
  <2> QED
    BY <1>1, <1>3, <1>4, <1>6, <2>1, NextPhases, ContinueKeepsInv
<1> QED
  BY <1>2, <1>5, <1>6 DEF Provision, CreateTenant

(* AuthorizeLink reads the tenants, then the pair, then inserts. *)
LEMMA AuthorizeKeepsInv ==
  ASSUME IInv, NEW r \in Call, Authorize(r) \/ ReadPair(r) \/ CreateLink(r)
  PROVE  IInv'
<1>1. pc[r] \in {"authorize", "readPair", "createLink"} /\ cmd[r].op = "authorize"
      /\ UNCHANGED <<nameOf, links, aliases, opened>>
  BY PhaseTellsOp DEF Authorize, ReadPair, CreateLink, tables
<1>2. ASSUME NEW o \in {"tenant_not_found", "tenant_link_already_exists", "constraint"}, Finish(r, o)
      PROVE  IInv'
  BY <1>1, <1>2, RefusalKeepsInv DEF Refusal
<1>3. ASSUME NEW u, u \in TenantId \X TenantId, u[1] <= u[2]
      PROVE  /\ u \in (LinkId \cup TenantId \cup {None}) \X (TenantId \cup {None})
             /\ \A phase : Relies(r, phase, u)
  BY <1>1, <1>3 DEF Relies
<1>4. CASE Authorize(r)
  <2>1. ASSUME NEW s \in TenantId, NEW t \in TenantId, Continue(r, "readPair", Pair(s, t)) PROVE IInv'
    <3> DEFINE u == Pair(s, t)
    <3>1. u \in TenantId \X TenantId /\ u[1] <= u[2]
      BY PairInOrder
    <3> HIDE DEF u
    <3>2. Continue(r, "readPair", u)
      BY <2>1 DEF u
    <3> QED
      BY <1>1, <1>3, <3>1, <3>2, NextPhases, ContinueKeepsInv
  <2> QED
    BY <1>2, <1>4, <2>1 DEF Authorize, IdsNamed
<1>5. CASE ReadPair(r) \/ CreateLink(r)
  <2>1. used[r] \in TenantId \X TenantId /\ used[r][1] <= used[r][2]
    <3>1. Relies(r, pc[r], used[r]) /\ pc[r] \in {"readPair", "createLink"}
      BY <1>5 DEF IInv, UsedOK, ReadPair, CreateLink
    <3> QED
      BY <1>1, <3>1 DEF Relies
  <2>2. CASE Continue(r, "createLink", used[r])
    BY <1>1, <1>3, <2>1, <2>2, NextPhases, ContinueKeepsInv
  <2>3. ASSUME CreateLink(r), ActiveByPair(used[r][1], used[r][2]) = {}, Continue(r, "commit", used[r])
        PROVE  IInv'
    <3>1. Pair(used[r][1], used[r][2]) = used[r]
      <4>1. used[r] = <<used[r][1], used[r][2]>> /\ used[r][1] \in TenantId /\ used[r][2] \in TenantId
        BY <2>1
      <4> QED
        BY <2>1, <4>1, PairInOrder
    <3>2. Free(r, used[r])
      BY <1>1, <2>3, <3>1 DEF Free, CreateLink, ActiveByPair
    <3> QED
      BY <1>1, <1>3, <2>1, <2>3, <3>2, NextPhases, ContinueKeepsInv
  <2> QED
    BY <1>2, <1>5, <2>2, <2>3 DEF ReadPair, CreateLink
<1> QED
  BY <1>4, <1>5

(* RevokeLink reads the link it then ends. *)
LEMMA RevokeKeepsInv ==
  ASSUME IInv, NEW r \in Call, Revoke(r) \/ UpdateLink(r)
  PROVE  IInv'
<1>1. pc[r] \in {"revoke", "updateLink"} /\ cmd[r].op = "revoke"
      /\ UNCHANGED <<nameOf, links, aliases, opened>>
  BY PhaseTellsOp DEF Revoke, UpdateLink, tables
<1>2. CASE Finish(r, "tenant_link_not_found")
  BY <1>1, <1>2, RefusalKeepsInv DEF Refusal
<1>3. ASSUME links[cmd[r].link] # NoLink, NEW phase \in {"updateLink", "commit"},
             Continue(r, phase, <<None, None>>)
      PROVE  IInv'
  <2>1. Relies(r, phase, <<None, None>>) /\ Free(r, <<None, None>>)
    BY <1>1, <1>3 DEF Relies, Free
  <2>2. <<None, None>> \in (LinkId \cup TenantId \cup {None}) \X (TenantId \cup {None})
    OBVIOUS
  <2> QED
    BY <1>1, <1>3, <2>1, <2>2, NextPhases, ContinueKeepsInv
<1>4. pc[r] = "updateLink" => links[cmd[r].link] # NoLink
  BY <1>1 DEF IInv, UsedOK, Relies
<1> QED
  BY <1>2, <1>3, <1>4 DEF Revoke, UpdateLink

(* RegisterAlias reads the link its caller is a party of. *)
LEMMA RegisterKeepsInv ==
  ASSUME IInv, NEW r \in Call, Register(r) \/ CreateAlias(r)
  PROVE  IInv'
<1>1. /\ pc[r] \in {"register", "createAlias"} /\ cmd[r].op = "register" /\ cmd[r] \in Command
      /\ UNCHANGED <<nameOf, links, aliases, opened>>
  BY PhaseTellsOp DEF Register, CreateAlias, tables
<1>2. acts[r] \in TenantId /\ cmd[r].target \in TenantId
  BY <1>1, CommandFields DEF IInv, PhaseOK
<1>3. ASSUME NEW o \in {"tenant_link_not_found", "constraint"}, Finish(r, o) PROVE IInv'
  BY <1>1, <1>3, RefusalKeepsInv DEF Refusal
<1>4. ASSUME NEW u, u \in LinkId \X TenantId, Joins(u[1], Pair(acts[r], u[2])),
             NEW phase \in {"createAlias", "commit"}, phase = "commit" => Free(r, u), Continue(r, phase, u)
      PROVE  IInv'
  <2>1. Relies(r, phase, u) /\ u \in (LinkId \cup TenantId \cup {None}) \X (TenantId \cup {None})
    BY <1>1, <1>4 DEF Relies
  <2> QED
    BY <1>1, <1>4, <2>1, NextPhases, ContinueKeepsInv
<1>5. CASE Register(r)
  <2>1. ASSUME NEW l \in ActiveByPair(acts[r], cmd[r].target), Continue(r, "createAlias", <<l, cmd[r].target>>)
        PROVE  IInv'
    <3> DEFINE u == <<l, cmd[r].target>>
    <3>1. u \in LinkId \X TenantId /\ Joins(u[1], Pair(acts[r], u[2]))
      BY <1>2 DEF ActiveByPair
    <3>2. Continue(r, "createAlias", u)
      BY <2>1
    <3> HIDE DEF u
    <3> QED
      BY <1>4, <3>1, <3>2
  <2> QED
    BY <1>3, <1>5, <2>1 DEF Register
<1>6. CASE CreateAlias(r)
  <2>1. used[r] \in LinkId \X TenantId /\ Joins(used[r][1], Pair(acts[r], used[r][2]))
    BY <1>1, <1>6 DEF IInv, UsedOK, Relies, CreateAlias
  <2>2. ASSUME ~Taken(SlotOf(r)), Continue(r, "commit", used[r]) PROVE IInv'
    <3>1. Free(r, used[r])
      BY <1>1, <1>6, <2>2 DEF Free, CreateAlias
    <3> QED
      BY <1>4, <2>1, <2>2, <3>1
  <2> QED
    BY <1>3, <1>6, <2>2 DEF CreateAlias
<1> QED
  BY <1>5, <1>6

(* prepareTransfer reads the alias, its link and the four system accounts. *)
LEMMA ResolveKeepsInv ==
  ASSUME IInv, NEW r \in Call, Resolve(r) \/ ReadLink(r) \/ GetAccount(r) \/ CreateAccount(r)
  PROVE  IInv'
<1>1. /\ pc[r] \in {"resolve", "readLink", "getAccount", "createAccount"} /\ cmd[r].op = "resolve"
      /\ cmd[r] \in Command /\ UNCHANGED <<nameOf, links, aliases, opened>>
  BY PhaseTellsOp DEF Resolve, ReadLink, GetAccount, CreateAccount, tables
<1>2. acts[r] \in TenantId /\ cmd[r].alias \in Alias /\ SlotOf(r) \in Slot
  <2>1. acts[r] \in TenantId /\ cmd[r].alias \in Alias
    BY <1>1, CommandFields DEF IInv, PhaseOK
  <2> QED
    BY <2>1 DEF SlotOf, Slot
<1>3. ASSUME NEW o \in {"counterparty_not_found", "constraint"}, Finish(r, o) PROVE IInv'
  BY <1>1, <1>3, RefusalKeepsInv DEF Refusal
<1>4. ASSUME NEW u, u \in LinkId \X TenantId, NEW phase \in {"readLink", "getAccount", "createAccount"},
             phase # "readLink" => u[1] \notin before[r], Continue(r, phase, u)
      PROVE  IInv'
  <2>1. Relies(r, phase, u) /\ u \in (LinkId \cup TenantId \cup {None}) \X (TenantId \cup {None})
    BY <1>1, <1>4 DEF Relies
  <2> QED
    BY <1>1, <1>4, <2>1, NextPhases, ContinueKeepsInv
<1>5. CASE Resolve(r)
  <2>1. ASSUME Taken(SlotOf(r)) PROVE <<aliases[SlotOf(r)].link, aliases[SlotOf(r)].target>> \in LinkId \X TenantId
    BY <1>2, <2>1, RowsPresent DEF IInv
  <2> QED
    BY <1>3, <1>4, <1>5, <2>1 DEF Resolve
<1>6. pc[r] # "resolve" => used[r] \in LinkId \X TenantId
  BY <1>1 DEF IInv, UsedOK, Relies
<1>7. CASE ReadLink(r)
  <2>1. Active(used[r][1]) => used[r][1] \notin before[r]
    BY <1>6, <1>7 DEF IInv, UsedOK, Active
  <2> QED
    BY <1>3, <1>4, <1>6, <1>7, <2>1 DEF ReadLink
<1>8. CASE GetAccount(r) \/ CreateAccount(r)
  <2>1. pc[r] \in {"getAccount", "createAccount"}
    BY <1>8 DEF GetAccount, CreateAccount
  <2>2. used[r] \in LinkId \X TenantId /\ used[r][1] \notin before[r]
    BY <1>1, <2>1 DEF IInv, UsedOK, Relies
  <2>3. NextAccount(r) \in Account
    <3>1. step[r] \in 0 .. 3
      BY <2>1 DEF IInv, PhaseOK
    <3>2. step[r] = 0 \/ step[r] = 1 \/ step[r] = 2 \/ step[r] = 3
      BY <3>1
    <3>3. used[r][2] \in TenantId
      BY <2>2
    <3> QED
      BY <1>2, <3>2, <3>3 DEF NextAccount, Needed, Account
  <2>4. ASSUME NEW accounts \in {{}, {NextAccount(r)}}, Advance(r, accounts) PROVE IInv'
    BY <1>1, <2>1, <2>3, <2>4, AdvanceKeepsInv
  <2> QED
    BY <1>3, <1>4, <1>8, <2>2, <2>4 DEF GetAccount, CreateAccount
<1> QED
  BY <1>5, <1>7, <1>8

-----------------------------------------------------------------------------
(* A commit.                                                               *)

Write(r) == pc[r] = "commit" /\ MakeDurable(r) /\ \E o \in {"ok", "failed"} : Finish(r, o)

\* What is committed stays: a tenant its name, a link its pair and its
\* revocation, an alias its meaning.
TablesGrow ==
  /\ \A t \in TenantId : nameOf[t] # None => nameOf'[t] = nameOf[t]
  /\ \A l \in LinkId : /\ links[l] # NoLink => links'[l].a = links[l].a /\ links'[l].b = links[l].b
                       /\ links[l] # NoLink => links'[l] # NoLink
                       /\ links[l].status = "revoked" => links'[l] = links[l]
  /\ \A slot \in Slot : Taken(slot) => aliases'[slot] = aliases[slot]

\* The five commits: each writes one row at most.
NamesTenant(r) ==
  /\ cmd[r].op = "provision" /\ cmd[r].name \in Name /\ nameOf[r] = None
  /\ nameOf' = [nameOf EXCEPT ![r] = cmd[r].name] /\ UNCHANGED <<links, aliases>>
JoinsPair(r) ==
  /\ cmd[r].op = "authorize" /\ links[r] = NoLink
  /\ used[r] \in TenantId \X TenantId /\ used[r][1] <= used[r][2]
  /\ links' = [links EXCEPT ![r] = [a |-> used[r][1], b |-> used[r][2], status |-> "active"]]
  /\ UNCHANGED <<nameOf, aliases>>
EndsLink(r) ==
  /\ cmd[r].op = "revoke" /\ cmd[r].link \in LinkId /\ links[cmd[r].link] # NoLink
  /\ links' = [links EXCEPT ![cmd[r].link].status = "revoked"] /\ UNCHANGED <<nameOf, aliases>>
BindsAlias(r) ==
  /\ cmd[r].op = "register" /\ SlotOf(r) \in Slot /\ ~Taken(SlotOf(r))
  /\ acts[r] \in TenantId /\ used[r] \in LinkId \X TenantId
  /\ Joins(used[r][1], Pair(acts[r], used[r][2]))
  /\ aliases' = [aliases EXCEPT ![SlotOf(r)] = [link |-> used[r][1], target |-> used[r][2]]]
  /\ UNCHANGED <<nameOf, links>>
OpensAccounts(r) ==
  cmd[r].op = "resolve" /\ used[r][1] \notin before[r] /\ UNCHANGED <<nameOf, links, aliases>>

(* What a committed write does to the tables, by the kind of the call. *)
LEMMA WriteByOp ==
  ASSUME IInv, NEW r \in Call, Write(r)
  PROVE  NamesTenant(r) \/ JoinsPair(r) \/ EndsLink(r) \/ BindsAlias(r) \/ OpensAccounts(r)
<1>1. pc[r] = "commit" /\ cmd[r] \in Command /\ Relies(r, "commit", used[r]) /\ Free(r, used[r])
  <2>1. pc[r] = "commit" /\ Relies(r, pc[r], used[r])
    BY DEF IInv, UsedOK, Write
  <2> QED
    BY <2>1, PhaseTellsOp DEF IInv, WritersOK
<1>2. nameOf[r] = None /\ links[r] = NoLink
  BY <1>1 DEF IInv, RowsOK
<1>3. CASE cmd[r].op = "provision"
  BY <1>1, <1>2, <1>3, CommandFields DEF Write, MakeDurable, NamesTenant
<1>4. CASE cmd[r].op = "authorize"
  BY <1>1, <1>2, <1>4 DEF Write, MakeDurable, Relies, JoinsPair
<1>5. CASE cmd[r].op = "revoke"
  BY <1>1, <1>5, CommandFields DEF Write, MakeDurable, Relies, EndsLink
<1>6. CASE cmd[r].op = "register"
  <2>1. acts[r] \in TenantId /\ cmd[r].alias \in Alias
    BY <1>1, <1>6, CommandFields DEF IInv, PhaseOK
  <2>2. SlotOf(r) \in Slot
    BY <2>1 DEF SlotOf, Slot
  <2> QED
    BY <1>1, <1>6, <2>1, <2>2 DEF Write, MakeDurable, Relies, Free, BindsAlias
<1>7. CASE cmd[r].op = "resolve"
  BY <1>1, <1>7 DEF Write, MakeDurable, Relies, OpensAccounts
<1> QED
  BY <1>1, <1>3, <1>4, <1>5, <1>6, <1>7, CommandFields

\* A revocation changes the status of one link and nothing else.
LEMMA RevokeLink ==
  ASSUME DirectoryTypeOK, NEW k \in LinkId, links[k] # NoLink, links' = [links EXCEPT ![k].status = "revoked"]
  PROVE  /\ links'[k] \in [a : TenantId, b : TenantId, status : {"active", "revoked"}]
         /\ links'[k].a = links[k].a /\ links'[k].b = links[k].b /\ links'[k].status = "revoked"
         /\ \A l \in LinkId \ {k} : links'[l] = links[l]
         /\ links[k].status = "revoked" => links'[k] = links[k]
         /\ DOMAIN links' = LinkId
<1>1. links[k] \in [a : TenantId, b : TenantId, status : {"active", "revoked"}]
  BY RowsPresent
<1>2. links'[k] = [links[k] EXCEPT !.status = "revoked"]
  BY DEF DirectoryTypeOK
<1> QED
  BY <1>1, <1>2 DEF DirectoryTypeOK

(* No commit takes a name, a revocation or an alias away. *)
LEMMA CommitGrows ==
  ASSUME IInv, NEW r \in Call, Write(r)
  PROVE  TablesGrow
<1>0. DirectoryTypeOK /\ r \in TenantId /\ r \in LinkId /\ None \notin TenantId
  BY DirectoryAssumption DEF IInv, TenantId, LinkId
<1>1. CASE NamesTenant(r)
  BY <1>0, <1>1 DEF TablesGrow, DirectoryTypeOK, NamesTenant
<1>2. CASE JoinsPair(r)
  <2>1. \A l \in LinkId : l # r => links'[l] = links[l]
    BY <1>0, <1>2 DEF DirectoryTypeOK, JoinsPair
  <2> QED
    BY <1>2, <2>1 DEF TablesGrow, NoLink, JoinsPair
<1>3. CASE EndsLink(r)
  <2> DEFINE k == cmd[r].link
  <2>1. /\ links'[k].a = links[k].a /\ links'[k].b = links[k].b /\ links'[k].status = "revoked"
        /\ \A l \in LinkId \ {k} : links'[l] = links[l]
        /\ links[k].status = "revoked" => links'[k] = links[k]
    BY <1>0, <1>3, RevokeLink DEF EndsLink
  <2> QED
    BY <1>3, <2>1 DEF TablesGrow, NoLink, EndsLink
<1>4. CASE BindsAlias(r)
  <2>1. \A slot \in Slot : slot # SlotOf(r) => aliases'[slot] = aliases[slot]
    BY <1>0, <1>4 DEF DirectoryTypeOK, BindsAlias
  <2> QED
    BY <1>4, <2>1 DEF TablesGrow, BindsAlias
<1>5. CASE OpensAccounts(r)
  BY <1>5 DEF TablesGrow, OpensAccounts
<1> QED
  BY <1>1, <1>2, <1>3, <1>4, <1>5, WriteByOp

(* The tables keep their types. *)
LEMMA CommitTypes ==
  ASSUME IInv, NEW r \in Call, Write(r)
  PROVE  /\ nameOf' \in [TenantId -> Name \cup {None}]
         /\ links' \in [LinkId -> [a : TenantId, b : TenantId, status : {"active", "revoked"}] \cup {NoLink}]
         /\ aliases' \in [Slot -> [link : LinkId, target : TenantId] \cup {NoAlias}]
         /\ opened' \subseteq Account
<1>0. DirectoryTypeOK /\ r \in TenantId /\ r \in LinkId
  BY DEF IInv, TenantId, LinkId
<1>1. opened' \subseteq Account
  BY <1>0 DEF Write, MakeDurable, DirectoryTypeOK
<1>2. CASE NamesTenant(r)
  BY <1>0, <1>1, <1>2 DEF DirectoryTypeOK, NamesTenant
<1>3. CASE JoinsPair(r)
  <2>1. [a |-> used[r][1], b |-> used[r][2], status |-> "active"]
          \in [a : TenantId, b : TenantId, status : {"active", "revoked"}]
    BY <1>3 DEF JoinsPair
  <2> QED
    BY <1>0, <1>1, <1>3, <2>1 DEF DirectoryTypeOK, JoinsPair
<1>4. CASE EndsLink(r)
  <2> DEFINE k == cmd[r].link
  <2>1. [links[k] EXCEPT !.status = "revoked"] \in [a : TenantId, b : TenantId, status : {"active", "revoked"}]
    <3>1. links[k] \in [a : TenantId, b : TenantId, status : {"active", "revoked"}]
      BY <1>0, <1>4, RowsPresent DEF EndsLink
    <3> QED
      BY <3>1
  <2> QED
    BY <1>0, <1>1, <1>4, <2>1 DEF DirectoryTypeOK, EndsLink
<1>5. CASE BindsAlias(r)
  <2>1. [link |-> used[r][1], target |-> used[r][2]] \in [link : LinkId, target : TenantId]
    BY <1>5 DEF BindsAlias
  <2> QED
    BY <1>0, <1>1, <1>5, <2>1 DEF DirectoryTypeOK, BindsAlias
<1>6. CASE OpensAccounts(r)
  BY <1>0, <1>1, <1>6 DEF DirectoryTypeOK, OpensAccounts
<1> QED
  BY <1>2, <1>3, <1>4, <1>5, <1>6, WriteByOp

\* The other writers still have what they are about to write to themselves.
LEMMA CommitKeepsWriters ==
  ASSUME IInv, NEW r \in Call, Write(r), Alone(r), pc'[r] = "done"
  PROVE  WritersOK'
<1>0. DirectoryTypeOK /\ r \in TenantId /\ r \in LinkId /\ WritersOK /\ Free(r, used[r]) /\ pc[r] = "commit"
  BY DEF IInv, TenantId, LinkId, WritersOK, Write
<1> SUFFICES ASSUME NEW q \in Call, pc'[q] = "commit" PROVE Free(q, used[q])'
  BY DEF WritersOK
<1>1. q # r /\ pc[q] = "commit" /\ Free(q, used[q]) /\ used'[q] = used[q]
  BY <1>0 DEF Alone, WritersOK
<1>2. ASSUME NEW op
      PROVE  \A p \in Call : Writing(p, op)' => Writing(p, op) /\ p # r /\ used'[p] = used[p]
  BY DEF Writing, Alone
<1>3. \A p \in Call : SlotOf(p)' = SlotOf(p) /\ cmd'[p] = cmd[p]
  BY DEF SlotOf, Alone
<1>4. ASSUME cmd[q].op = "provision"
      PROVE  IdsNamed(cmd[q].name)' = {}
  <2>1. ASSUME NEW t \in TenantId PROVE nameOf'[t] # cmd[q].name
    <3>1. nameOf[t] # cmd[q].name
      BY <1>1, <1>4 DEF Free, IdsNamed
    <3>2. CASE NamesTenant(r)
      <4>1. cmd[r].name # cmd[q].name
        BY <1>0, <1>1, <1>4, <3>2 DEF Free, Writing, NamesTenant
      <4> QED
        BY <1>0, <3>1, <3>2, <4>1 DEF NamesTenant, DirectoryTypeOK
    <3> QED
      BY <3>1, <3>2, WriteByOp DEF JoinsPair, EndsLink, BindsAlias, OpensAccounts
  <2> QED
    BY <1>3, <2>1 DEF IdsNamed
<1>5. ASSUME cmd[q].op = "authorize", NEW l \in LinkId, Active(l)'
      PROVE  ~Joins(l, used[q])'
  <2>1. Active(l) => ~Joins(l, used[q])
    BY <1>1, <1>5 DEF Free
  <2>2. CASE JoinsPair(r)
    <3>1. used[r] # used[q]
      BY <1>0, <1>1, <1>5, <2>2 DEF Free, Writing, JoinsPair
    <3>2. used[r] = <<used[r][1], used[r][2]>>
      BY <2>2 DEF JoinsPair
    <3>3. CASE l = r
      <4>1. links'[l] = [a |-> used[r][1], b |-> used[r][2], status |-> "active"]
        BY <1>0, <2>2, <3>3 DEF JoinsPair, DirectoryTypeOK
      <4> QED
        BY <1>1, <3>1, <3>2, <4>1 DEF Joins
    <3>4. CASE l # r
      BY <1>0, <1>1, <1>5, <2>1, <2>2, <3>4 DEF JoinsPair, DirectoryTypeOK, Active, Joins
    <3> QED
      BY <3>3, <3>4
  <2>3. CASE EndsLink(r)
    <3>1. l # cmd[r].link /\ links'[l] = links[l]
      BY <1>0, <1>5, <2>3, RevokeLink DEF EndsLink, Active
    <3> QED
      BY <1>1, <1>5, <2>1, <3>1 DEF Active, Joins
  <2> QED
    BY <1>1, <1>5, <2>1, <2>2, <2>3, WriteByOp DEF NamesTenant, BindsAlias, OpensAccounts, Active, Joins
<1>6. ASSUME cmd[q].op = "register"
      PROVE  ~Taken(SlotOf(q))'
  <2>1. ~Taken(SlotOf(q))
    BY <1>1, <1>6 DEF Free
  <2>2. CASE BindsAlias(r)
    <3>1. SlotOf(q) # SlotOf(r)
      BY <1>0, <1>1, <1>6, <2>2 DEF Free, Writing, BindsAlias
    <3>2. SlotOf(q) \in Slot
      <4>1. cmd[q] \in Command /\ acts[q] \in TenantId
        BY <1>1, <1>6 DEF IInv, PhaseOK
      <4> QED
        BY <1>6, <4>1, CommandFields DEF SlotOf, Slot
    <3> QED
      BY <1>0, <1>3, <2>1, <2>2, <3>1, <3>2 DEF BindsAlias, DirectoryTypeOK, Taken
  <2> QED
    BY <1>3, <2>1, <2>2, WriteByOp DEF NamesTenant, JoinsPair, EndsLink, OpensAccounts, Taken
<1>7. /\ cmd[q].op = "provision" => \A p \in Call \ {q} : Writing(p, "provision")' => cmd'[p].name # cmd'[q].name
      /\ cmd[q].op = "authorize" => \A p \in Call \ {q} : Writing(p, "authorize")' => used'[p] # used'[q]
      /\ cmd[q].op = "register" => \A p \in Call \ {q} : Writing(p, "register")' => SlotOf(p)' # SlotOf(q)'
  BY <1>1, <1>2, <1>3 DEF Free
<1> QED
  BY <1>3, <1>4, <1>5, <1>6, <1>7 DEF Free

\* A link that joins a pair of tenants is there.
LEMMA JoinedIsThere ==
  ASSUME DirectoryTypeOK, NEW l \in LinkId, NEW s \in TenantId, NEW t \in TenantId, Joins(l, Pair(s, t))
  PROVE  links[l] # NoLink
<1>1. Pair(s, t)[1] \in TenantId
  BY PairInOrder
<1>2. links[l].a \in TenantId
  BY <1>1 DEF Joins
<1> QED
  BY <1>2, DirectoryAssumption DEF NoLink

(* What finished calls have used stays true of the tables that only grow. *)
LEMMA CommitKeepsUsed ==
  ASSUME IInv, NEW r \in Call, Write(r), Alone(r), pc'[r] = "done"
  PROVE  UsedOK'
<1>0. DirectoryTypeOK /\ UsedOK /\ TablesGrow
  BY CommitGrows DEF IInv
<1> SUFFICES ASSUME NEW q \in Call
             PROVE  /\ Relies(q, pc[q], used[q])'
                    /\ (before[q] \subseteq {l \in LinkId : links[l].status = "revoked"})'
  BY DEF UsedOK
<1>1. (before[q] \subseteq {l \in LinkId : links[l].status = "revoked"})'
  BY <1>0 DEF UsedOK, TablesGrow, Alone
<1>2. CASE q = r
  BY <1>1, <1>2 DEF Relies
<1>3. CASE q # r
  <2>1. Relies(q, pc[q], used[q]) /\ pc'[q] = pc[q] /\ used'[q] = used[q]
    BY <1>0, <1>3 DEF UsedOK, Alone
  <2>2. ASSUME cmd[q].op = "revoke", links[cmd[q].link] # NoLink, pc[q] # "idle"
        PROVE  (links[cmd[q].link] # NoLink)'
    <3>1. cmd[q].link \in LinkId
      BY <2>2, PhaseTellsOp, CommandFields
    <3> QED
      BY <1>0, <2>2, <3>1 DEF TablesGrow, Alone
  <2>3. ASSUME cmd[q].op = "register", pc[q] \in {"createAlias", "commit"}, used[q] \in LinkId \X TenantId,
               Joins(used[q][1], Pair(acts[q], used[q][2]))
        PROVE  Joins(used[q][1], Pair(acts[q], used[q][2]))'
    <3>1. acts[q] \in TenantId
      BY <2>3 DEF IInv, PhaseOK
    <3>2. links[used[q][1]] # NoLink
      BY <1>0, <2>3, <3>1, JoinedIsThere
    <3> QED
      BY <1>0, <2>1, <2>3, <3>2 DEF TablesGrow, Alone, Joins, Pair
  <2> QED
    BY <1>1, <2>1, <2>2, <2>3 DEF Relies, Alone
<1> QED
  BY <1>2, <1>3

(* Rows keep naming tenants that exist, and no name is bound twice: the
   unique index on tenants.name decides. *)
LEMMA CommitKeepsRows ==
  ASSUME IInv, NEW r \in Call, Write(r), Alone(r), pc'[r] = "done"
  PROVE  RowsOK' /\ NameBoundOnce'
<1>0. DirectoryTypeOK /\ RowsOK /\ NameBoundOnce /\ TablesGrow /\ r \in TenantId /\ r \in LinkId /\ LegacyTenant \in TenantId
  BY CommitGrows, DirectoryAssumption DEF IInv, TenantId, LinkId
<1>1. nameOf'[LegacyTenant] # None
  BY <1>0 DEF RowsOK, TablesGrow
<1>2. CASE NamesTenant(r)
  <2>1. IdsNamed(cmd[r].name) = {} /\ nameOf'[r] = cmd[r].name /\ \A t \in TenantId \ {r} : nameOf'[t] = nameOf[t]
    BY <1>0, <1>2 DEF IInv, WritersOK, Free, Write, NamesTenant, DirectoryTypeOK
  <2>2. RowsOK'
    BY <1>0, <1>1, <1>2, <2>1 DEF RowsOK, NamesTenant, Alone, TenantId
  <2>3. NameBoundOnce'
    BY <1>0, <2>1 DEF NameBoundOnce, IdsNamed
  <2> QED
    BY <2>2, <2>3
<1>3. CASE JoinsPair(r)
  <2>1. links'[r].a <= links'[r].b /\ \A l \in LinkId \ {r} : links'[l] = links[l]
    BY <1>0, <1>3 DEF JoinsPair, DirectoryTypeOK
  <2> QED
    BY <1>0, <1>1, <1>3, <2>1 DEF RowsOK, JoinsPair, Alone, LinkId, NameBoundOnce
<1>4. CASE EndsLink(r)
  <2>1. \A l \in LinkId : links'[l].a = links[l].a /\ links'[l].b = links[l].b
                          /\ (links'[l] # NoLink <=> links[l] # NoLink)
    BY <1>0, <1>4, RevokeLink DEF EndsLink, NoLink
  <2> QED
    BY <1>0, <1>1, <1>4, <2>1 DEF RowsOK, EndsLink, Alone, LinkId, NameBoundOnce
<1>5. CASE BindsAlias(r) \/ OpensAccounts(r)
  BY <1>0, <1>1, <1>5 DEF RowsOK, BindsAlias, OpensAccounts, Alone, NameBoundOnce
<1> QED
  BY <1>2, <1>3, <1>4, <1>5, WriteByOp

(* The partial unique index on active pairs keeps one link per pair. *)
LEMMA CommitKeepsOneLink ==
  ASSUME IInv, NEW r \in Call, Write(r)
  PROVE  OneActiveLink'
<1>0. DirectoryTypeOK /\ RowsOK /\ OneActiveLink /\ r \in LinkId
  BY DEF IInv, LinkId
<1>1. CASE JoinsPair(r)
  <2>1. /\ links'[r] = [a |-> used[r][1], b |-> used[r][2], status |-> "active"]
        /\ \A l \in LinkId \ {r} : links'[l] = links[l]
        /\ used[r] = <<used[r][1], used[r][2]>>
        /\ used[r][1] \in TenantId /\ used[r][2] \in TenantId /\ used[r][1] <= used[r][2]
    BY <1>0, <1>1 DEF JoinsPair, DirectoryTypeOK
  <2>2. \A l \in LinkId : Active(l) => ~Joins(l, used[r])
    BY <1>1 DEF IInv, WritersOK, Free, Write, JoinsPair
  <2>3. ASSUME NEW l \in LinkId, l # r, Active(l) PROVE {links[l].a, links[l].b} # {used[r][1], used[r][2]}
    <3> DEFINE a == links[l].a
               b == links[l].b
               c == used[r][1]
               d == used[r][2]
    <3>1. a \in TenantId /\ b \in TenantId /\ a <= b
      BY <1>0, <2>3, RowsPresent DEF RowsOK
    <3>2. a \in Int /\ b \in Int /\ c \in Int /\ d \in Int /\ c <= d
      BY <2>1, <3>1, DirectoryAssumption
    <3>3. ~(a = c /\ b = d)
      BY <2>1, <2>2, <2>3 DEF Joins
    <3> HIDE DEF a, b, c, d
    <3>4. {a, b} # {c, d}
      BY <3>1, <3>2, <3>3, OneOrder
    <3> QED
      BY <3>4 DEF a, b, c, d
  <2> SUFFICES ASSUME NEW l \in LinkId, NEW m \in LinkId, Active(l)', Active(m)',
                      {links'[l].a, links'[l].b} = {links'[m].a, links'[m].b}
               PROVE  l = m
    BY DEF OneActiveLink
  <2>4. CASE l # r /\ m # r
    BY <1>0, <2>1, <2>4 DEF OneActiveLink, Active
  <2>5. ASSUME l # r, m = r PROVE FALSE
    <3>1. links'[l] = links[l] /\ links'[m].a = used[r][1] /\ links'[m].b = used[r][2]
      BY <2>1, <2>5
    <3> QED
      BY <2>3, <2>5, <3>1 DEF Active
  <2>6. ASSUME l = r, m # r PROVE FALSE
    <3>1. links'[m] = links[m] /\ links'[l].a = used[r][1] /\ links'[l].b = used[r][2]
      BY <2>1, <2>6
    <3> QED
      BY <2>3, <2>6, <3>1 DEF Active
  <2> QED
    BY <2>4, <2>5, <2>6
<1>2. CASE EndsLink(r)
  <2>1. \A l \in LinkId : Active(l)' => links'[l] = links[l]
    BY <1>0, <1>2, RevokeLink DEF EndsLink, Active
  <2> QED
    BY <1>0, <2>1 DEF OneActiveLink, Active
<1>3. CASE UNCHANGED links
  BY <1>0, <1>3 DEF OneActiveLink, Active
<1> QED
  BY <1>1, <1>2, <1>3, WriteByOp DEF NamesTenant, BindsAlias, OpensAccounts

(* Every alias stays behind a link of its tenant and its target. *)
LEMMA CommitKeepsAliases ==
  ASSUME IInv, NEW r \in Call, Write(r)
  PROVE  AliasBehindLink'
<1>0. DirectoryTypeOK /\ AliasBehindLink /\ TablesGrow
  BY CommitGrows DEF IInv
<1> SUFFICES ASSUME NEW slot \in Slot, Taken(slot)'
             PROVE  Joins(aliases[slot].link, Pair(slot[1], aliases[slot].target))'
  BY DEF AliasBehindLink
<1>1. slot[1] \in TenantId
  BY DEF Slot
<1>2. CASE Taken(slot)
  <2>1. aliases'[slot] = aliases[slot] /\ Joins(aliases[slot].link, Pair(slot[1], aliases[slot].target))
    BY <1>0, <1>2 DEF TablesGrow, AliasBehindLink
  <2>2. aliases[slot].link \in LinkId /\ aliases[slot].target \in TenantId
    BY <1>0, <1>2, RowsPresent
  <2>3. links[aliases[slot].link] # NoLink
    BY <1>0, <1>1, <2>1, <2>2, JoinedIsThere
  <2> QED
    BY <1>0, <2>1, <2>2, <2>3 DEF TablesGrow, Joins, Pair
<1>3. CASE ~Taken(slot)
  <2>1. BindsAlias(r)
    BY <1>3, WriteByOp DEF NamesTenant, JoinsPair, EndsLink, OpensAccounts, Taken
  <2>2. slot = SlotOf(r) /\ aliases'[slot] = [link |-> used[r][1], target |-> used[r][2]]
    BY <1>0, <1>3, <2>1 DEF BindsAlias, DirectoryTypeOK, Taken
  <2>3. slot[1] = acts[r] /\ aliases'[slot].link = used[r][1] /\ aliases'[slot].target = used[r][2]
    BY <2>2 DEF SlotOf
  <2> QED
    BY <2>1, <2>3 DEF BindsAlias, Joins, Pair
<1> QED
  BY <1>2, <1>3

(* A committed write keeps the invariant. *)
LEMMA WriteKeepsInv ==
  ASSUME IInv, NEW r \in Call, Write(r)
  PROVE  IInv'
<1>0. DirectoryTypeOK /\ LocalOK /\ PhaseOK /\ TablesGrow /\ pc[r] = "commit"
  BY CommitGrows DEF IInv, Write
<1> PICK o \in {"ok", "failed"} : Finish(r, o)
  BY DEF Write
<1>1. o \in Outcome
  BY DEF Outcome
<1>2. /\ Alone(r) /\ pc'[r] = "done" /\ used'[r] = used[r] /\ answer'[r] = o
      /\ pc' \in [Call -> Phase] /\ step' \in [Call -> 0 .. 4] /\ mine' \in [Call -> SUBSET Account]
      /\ answer' \in [Call -> Outcome] /\ LocalOK'
  BY <1>0, <1>1, FinishAlone
<1>3. DirectoryTypeOK'
  BY <1>0, <1>2, CommitTypes DEF DirectoryTypeOK, Alone
<1>4. PhaseOK'
  BY <1>0, <1>2 DEF PhaseOK, Alone
<1>5. UsedOK' /\ WritersOK' /\ RowsOK' /\ NameBoundOnce' /\ OneActiveLink' /\ AliasBehindLink'
  BY <1>2, CommitKeepsUsed, CommitKeepsWriters, CommitKeepsRows, CommitKeepsOneLink, CommitKeepsAliases
<1>6. RevocationHolds'
  <2>1. cmd[r].op = "resolve" => used[r][1] \notin before[r]
    BY WriteByOp DEF NamesTenant, JoinsPair, EndsLink, BindsAlias, OpensAccounts
  <2> QED
    BY <1>2, <2>1 DEF IInv, RevocationHolds, Alone
<1>7. KeysNameTenants'
  <2> SUFFICES ASSUME NEW q \in Call
               PROVE  /\ cmd[q].op = "provision" /\ answer'[q] = "ok" => TenantOfKey(q)' = {q}
                      /\ acts[q] \in TenantId =>
                           /\ nameOf'[acts[q]] # None
                           /\ cmd[q].key = acts[q] \/ (cmd[q].key = DemoKey /\ acts[q] = LegacyTenant)
    BY <1>2 DEF KeysNameTenants, Alone
  <2>1. q \in TenantId /\ q # DemoKey
    BY DirectoryAssumption DEF TenantId
  <2>2. ASSUME nameOf'[q] # None PROVE TenantOfKey(q)' = {q}
    BY <2>1, <2>2 DEF TenantOfKey, WithCredential
  <2>3. ASSUME cmd[q].op = "provision", answer'[q] = "ok" PROVE nameOf'[q] # None
    <3>1. CASE q = r
      <4>1. NamesTenant(r)
        BY <2>3, <3>1, WriteByOp DEF JoinsPair, EndsLink, BindsAlias, OpensAccounts
      <4> QED
        BY <1>0, <2>1, <3>1, <4>1, DirectoryAssumption DEF NamesTenant, DirectoryTypeOK
    <3>2. CASE q # r
      <4>1. TenantOfKey(q) = {q}
        BY <1>2, <2>3, <3>2 DEF IInv, KeysNameTenants, Alone
      <4>2. nameOf[q] # None
        BY <2>1, <4>1 DEF TenantOfKey, WithCredential
      <4> QED
        BY <1>0, <2>1, <4>2 DEF TablesGrow
    <3> QED
      BY <3>1, <3>2
  <2>4. ASSUME acts[q] \in TenantId
        PROVE  /\ nameOf'[acts[q]] # None
               /\ cmd[q].key = acts[q] \/ (cmd[q].key = DemoKey /\ acts[q] = LegacyTenant)
    BY <1>0, <2>4 DEF IInv, KeysNameTenants, TablesGrow
  <2> QED
    BY <2>2, <2>3, <2>4
<1> QED
  BY <1>2, <1>3, <1>4, <1>5, <1>6, <1>7 DEF IInv

-----------------------------------------------------------------------------
(* The theorems.                                                           *)

(* The step of the induction, one case per statement. *)
LEMMA NextKeepsInv == IInv /\ [Next]_vars => IInv'
<1> SUFFICES ASSUME IInv, [Next]_vars PROVE IInv'
  OBVIOUS
<1>1. CASE UNCHANGED vars
  <2>1. DirectoryTypeOK' /\ LocalOK' /\ PhaseOK'
    BY <1>1 DEF vars, IInv, DirectoryTypeOK, LocalOK, PhaseOK
  <2>2. UsedOK' /\ RowsOK'
    BY <1>1 DEF vars, IInv, UsedOK, Relies, RowsOK, Joins
  <2>3. WritersOK'
    BY <1>1 DEF vars, IInv, WritersOK, Free, Writing, SlotOf, Taken, Active, Joins, IdsNamed
  <2>4. NameBoundOnce' /\ OneActiveLink' /\ AliasBehindLink' /\ RevocationHolds'
    BY <1>1 DEF vars, IInv, NameBoundOnce, OneActiveLink, AliasBehindLink, RevocationHolds, Taken, Active, Joins
  <2>5. KeysNameTenants'
    BY <1>1 DEF vars, IInv, KeysNameTenants, TenantOfKey, WithCredential
  <2> QED
    BY <2>1, <2>2, <2>3, <2>4, <2>5 DEF IInv
<1>2. ASSUME NEW r \in Call, (\E c \in Command : Submit(r, c)) \/ Step(r) \/ CommitUnheard(r) \/ Abort(r)
      PROVE  IInv'
  <2>1. CASE Commit(r) \/ CommitUnheard(r)
    BY <2>1, WriteKeepsInv DEF Commit, CommitUnheard, Write
  <2>2. CASE Abort(r)
    BY <2>2, RefusalKeepsInv DEF Abort, tables
  <2> QED
    BY <1>2, <2>1, <2>2, SubmitKeepsInv, ProvisionKeepsInv, AuthorizeKeepsInv, RevokeKeepsInv,
       RegisterKeepsInv, ResolveKeepsInv DEF Step
<1> QED
  BY <1>1, <1>2 DEF Next

\* The inductive invariant holds of every behaviour.
THEOREM Inductive == Spec => []IInv
BY InitIInv, NextKeepsInv, PTL DEF Spec

\* Types, of every behaviour; a link row has both of its tenants, an alias row
\* its link and its target.
THEOREM TypeCorrect == Spec => []DirectoryTypeOK
<1>1. IInv => DirectoryTypeOK
  BY DEF IInv
<1> QED
  BY <1>1, Inductive, PTL

\* I10: UNIQUE(name) binds a name to one tenant, for any number of calls that
\* all read that it was free.
THEOREM NamesAreUnique == Spec => []NameBoundOnce
<1>1. IInv => NameBoundOnce
  BY DEF IInv
<1> QED
  BY <1>1, Inductive, PTL

\* I11: the partial unique index over ordered pairs leaves an unordered pair one
\* active link, however many authorizations and revocations of it race.
THEOREM PairsAreLinkedOnce == Spec => []OneActiveLink
<1>1. IInv => OneActiveLink
  BY DEF IInv
<1> QED
  BY <1>1, Inductive, PTL

\* I11: the link that a registered alias names joins its owner to its target.
THEOREM AliasesFollowLinks == Spec => []AliasBehindLink
<1>1. IInv => AliasBehindLink
  BY DEF IInv
<1> QED
  BY <1>1, Inductive, PTL

\* prepareTransfer lets nothing through a link whose revocation was committed
\* before the transfer was sent.
THEOREM RevocationIsRespected == Spec => []RevocationHolds
<1>1. IInv => RevocationHolds
  BY DEF IInv
<1> QED
  BY <1>1, Inductive, PTL

\* requireTenantKey and requireOperatorKey let a caller act for a tenant only
\* with that tenant's key, and a provisioned tenant's key works at once.
THEOREM KeysIdentify == Spec => []KeysNameTenants
<1>1. IInv => KeysNameTenants
  BY DEF IInv
<1> QED
  BY <1>1, Inductive, PTL

\* Every step lets the tables grow.
LEMMA StepGrows ==
  ASSUME IInv, [Next]_vars
  PROVE  TablesGrow
<1>1. CASE UNCHANGED <<nameOf, links, aliases>>
  BY <1>1 DEF TablesGrow
<1>2. ASSUME NEW r \in Call, Commit(r) \/ CommitUnheard(r) PROVE TablesGrow
  BY <1>2, CommitGrows DEF Commit, CommitUnheard, Write
<1>3. ASSUME NEW r \in Call, (\E c \in Command : Submit(r, c)) \/ Step(r) \/ Abort(r), ~Commit(r)
      PROVE  UNCHANGED <<nameOf, links, aliases>>
  BY <1>3 DEF Step, Submit, Provision, CreateTenant, Authorize, ReadPair, CreateLink, Revoke, UpdateLink,
       Register, CreateAlias, Resolve, ReadLink, GetAccount, CreateAccount, Abort, tables
<1> QED
  BY <1>1, <1>2, <1>3 DEF Next, vars

\* No step re-activates a revoked link or gives it another pair.
THEOREM RevokedLinksStay == Spec => RevokedIsFinal
<1>1. IInv /\ [Next]_vars => [\A l \in LinkId : links[l].status = "revoked" => links'[l] = links[l]]_vars
  BY StepGrows DEF TablesGrow
<1> QED
  BY <1>1, Inductive, PTL DEF Spec, RevokedIsFinal

\* No step gives a taken alias another target or another link.
THEOREM AliasesKeepTheirMeaning == Spec => AliasKeepsMeaning
<1>1. IInv /\ [Next]_vars => [\A slot \in Slot : Taken(slot) => aliases'[slot] = aliases[slot]]_vars
  BY StepGrows DEF TablesGrow
<1> QED
  BY <1>1, Inductive, PTL DEF Spec, AliasKeepsMeaning
=============================================================================
