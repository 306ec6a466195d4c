-------------------------- MODULE TenantDirectory ---------------------------
(***************************************************************************)
(* Tenants, the standing authorizations between them, the names they give  *)
(* their counterparties, and the resolution of such a name that opens      *)
(* every cross-tenant transfer: ProvisionTenant, AuthorizeTenantPair,      *)
(* RevokeTenantLink and RegisterCounterpartyAlias                          *)
(* (src/internal/app/usecases.go) and prepareTransfer                      *)
(* (src/internal/app/transfer_coordinator.go), each behind the middleware  *)
(* that tells who is calling (src/internal/adapters/http/router.go).       *)
(*                                                                         *)
(* Each of them reads, lets a pure function decide, and writes, in one     *)
(* READ COMMITTED transaction that locks nothing while it reads: a decision*)
(* may be stale when it is written, and only the unique constraints of the *)
(* tables stand behind it.  A step is one statement.                       *)
(*                                                                         *)
(* nextID mints for a call what no other call gets: here, the call itself, *)
(* and the tenant it provisions has the call for its key as well.  Hashes  *)
(* of different keys differ.                                               *)
(***************************************************************************)
EXTENDS Integers, FiniteSets

CONSTANTS
  Call,        \* concurrent calls, as integers in the string order of their ids
  Name,        \* display names of tenants
  Alias,       \* counterparty aliases
  Command,     \* the calls that may be made
  InitTenant,  \* tenants provisioned before, as integers like the calls
  InitName,    \* and their names
  InitLink,    \* links authorized before, as integers like the calls
  InitPair,    \* and the pairs they join
  InitAlias,   \* aliases registered before: link and target by owner and alias
  OperatorKey, \* LEDGEROPS_OPERATOR_KEY
  DemoKey,     \* LEDGEROPS_DEMO_TENANT_KEY
  LegacyTenant,\* the tenant migration 0003 seeds, which the demo key stands for
  None

TenantId == Call \cup InitTenant
LinkId == Call \cup InitLink
Key == TenantId \cup {OperatorKey, DemoKey}

\* The route groups of NewRouter.
OperatorRoute == {"provision", "authorize", "revoke"}

ProvisionCommand == [op : {"provision"}, key : Key, name : Name]
AuthorizeCommand == [op : {"authorize"}, key : Key, a : Name, b : Name]
RevokeCommand == [op : {"revoke"}, key : Key, link : LinkId]
RegisterCommand == [op : {"register"}, key : Key, alias : Alias, target : TenantId]
ResolveCommand == [op : {"resolve"}, key : Key, alias : Alias]

ASSUME DirectoryAssumption ==
  /\ TenantId \subseteq Int
  /\ Call \cap InitTenant = {}
  /\ InitName \in [InitTenant -> Name]
  /\ \A s, t \in InitTenant : InitName[s] = InitName[t] => s = t
  /\ InitLink \subseteq Int /\ Call \cap InitLink = {}
  /\ \A l \in InitLink : InitPair[l] \in InitTenant \X InitTenant /\ InitPair[l][1] <= InitPair[l][2]
  /\ \A l, m \in InitLink : InitPair[l] = InitPair[m] => l = m
  /\ \A slot \in DOMAIN InitAlias :
       /\ slot \in InitTenant \X Alias
       /\ InitAlias[slot] \in [link : InitLink, target : InitTenant]
       /\ {slot[1], InitAlias[slot].target}
            = {InitPair[InitAlias[slot].link][1], InitPair[InitAlias[slot].link][2]}
  /\ None \notin Name \cup TenantId
  /\ OperatorKey \notin TenantId \cup {DemoKey} /\ DemoKey \notin TenantId
  /\ LegacyTenant \in InitTenant
  /\ Command \subseteq ProvisionCommand \cup AuthorizeCommand \cup RevokeCommand
                       \cup RegisterCommand \cup ResolveCommand

VARIABLES
  nameOf,   \* tenants: the name of every committed row
  links,    \* tenant_links: pair and status of every committed row
  aliases,  \* counterparty_aliases: link and target of every committed row
  opened,   \* the system accounts cross-tenant transfers have opened
  cmd,      \* what each call asks for
  acts,     \* whom it acts for: the scope in its context
  pc,       \* where it stands
  step,     \* the accounts prepareTransfer has been through, 0 .. 4
  used,     \* the pair, link or alias row the call has read
  mine,     \* the accounts the call has inserted and not yet committed
  answer,   \* what its caller is told
  before    \* history: the links revoked when it began

tables == <<nameOf, links, aliases, opened>>
vars == <<nameOf, links, aliases, opened, cmd, acts, pc, step, used, mine, answer, before>>

Account == {"settlement", "platform"} \X TenantId
Slot == TenantId \X Alias
NoLink == [a |-> None, b |-> None, status |-> "absent"]
NoAlias == [link |-> None, target |-> None]
Refusal == {"tenant_already_exists", "tenant_not_found", "tenant_link_already_exists",
            "tenant_link_not_found", "counterparty_not_found", "unidentified_caller"}
\* "constraint" and "failed" are one and the same 500 on the wire: the first is
\* a unique constraint the courtesy read missed, the second a failure.
Outcome == Refusal \cup {"none", "ok", "constraint", "failed"}

\* canonicalizePair.
Pair(s, t) == IF s > t THEN <<t, s>> ELSE <<s, t>>

Joins(l, pair) == <<links[l].a, links[l].b>> = pair
Active(l) == links[l].status = "active"

\* Mutant: an active link of the first tenant, whoever it is with.
AnyActive(s, t) == {l \in LinkId : Active(l) /\ s \in {links[l].a, links[l].b}}

\* TenantLinkRepository.ActiveByPair.
ActiveByPair(s, t) == {l \in LinkId : Active(l) /\ Joins(l, Pair(s, t))}

Taken(slot) == aliases[slot] # NoAlias
IdsNamed(name) == {t \in TenantId : nameOf[t] = name}

\* What prepareTransfer makes sure of, in its order, for owner and counterparty.
Needed(owner, target) ==
  <<<<"settlement", owner>>, <<"platform", owner>>,
    <<"settlement", target>>, <<"platform", target>>>>

-----------------------------------------------------------------------------
Init ==
  /\ nameOf = [t \in TenantId |-> IF t \in InitTenant THEN InitName[t] ELSE None]
  /\ links = [l \in LinkId |->
                IF l \in InitLink
                THEN [a |-> InitPair[l][1], b |-> InitPair[l][2], status |-> "active"]
                ELSE NoLink]
  /\ aliases = [slot \in Slot |-> IF slot \in DOMAIN InitAlias THEN InitAlias[slot] ELSE NoAlias]
  /\ opened = {}
  /\ cmd = [r \in Call |-> [op |-> "none"]]
  /\ acts = [r \in Call |-> None]
  /\ pc = [r \in Call |-> "idle"]
  /\ step = [r \in Call |-> 0]
  /\ used = [r \in Call |-> <<None, None>>]
  /\ mine = [r \in Call |-> {}]
  /\ answer = [r \in Call |-> "none"]
  /\ before = [r \in Call |-> {}]

Goto(r, phase) == pc' = [pc EXCEPT ![r] = phase]

\* The call returns and its transaction is over.
Finish(r, outcome) ==
  /\ Goto(r, "done")
  /\ answer' = [answer EXCEPT ![r] = outcome]
  /\ mine' = [mine EXCEPT ![r] = {}]
  /\ UNCHANGED <<cmd, acts, step, used, before>>

\* The call goes on, having read the row u.
Continue(r, phase, u) ==
  /\ Goto(r, phase)
  /\ used' = [used EXCEPT ![r] = u]
  /\ UNCHANGED <<cmd, acts, step, mine, answer, before>>

\* NewTenantKeyResolver: the tenant whose committed row has the key's hash.
WithCredential(key) == {t \in TenantId : t = key /\ nameOf[t] # None}

\* Mutant: a key no row has is taken for the demo key.
LegacyOfAnyKey(key) == IF WithCredential(key) # {} THEN WithCredential(key) ELSE {LegacyTenant}

\* demoTenantResolver, in front of NewTenantKeyResolver.
TenantOfKey(key) == IF key = DemoKey THEN {LegacyTenant} ELSE WithCredential(key)

\* requireOperatorKey and requireTenantKey; the latter knows no operator.
Identified(c) ==
  IF c.op \in OperatorRoute THEN {c.key} \cap {OperatorKey} ELSE TenantOfKey(c.key)

\* A request comes in, is identified, and is handled or refused; a resolver that
\* fails refuses as well.  A new tenant's key is known once it was answered.
Submit(r, c) ==
  /\ pc[r] = "idle"
  /\ c.key \in Call => answer[c.key] = "ok"
  /\ cmd' = [cmd EXCEPT ![r] = c]
  /\ before' = [before EXCEPT ![r] = {l \in LinkId : links[l].status = "revoked"}]
  /\ \/ \E who \in Identified(c) :
          /\ acts' = [acts EXCEPT ![r] = who]
          /\ Goto(r, c.op)
          /\ UNCHANGED answer
     \/ /\ c.op \notin OperatorRoute \/ Identified(c) = {}
        /\ Goto(r, "done")
        /\ answer' = [answer EXCEPT ![r] = "unidentified_caller"]
        /\ UNCHANGED acts
  /\ UNCHANGED <<tables, step, used, mine>>

\* The calls that have written and not yet committed.
Writing(q, op) == pc[q] = "commit" /\ cmd[q].op = op

-----------------------------------------------------------------------------
(* ProvisionTenant                                                         *)

\* tenantNameAlreadyTaken and domain.ProvisionTenant.
Provision(r) ==
  /\ pc[r] = "provision"
  /\ IF IdsNamed(cmd[r].name) # {}
     THEN Finish(r, "tenant_already_exists")
     ELSE Continue(r, "createTenant", <<None, None>>)
  /\ UNCHANGED tables

\* Mutant: no UNIQUE on tenants.name.
CreateTenantUnchecked(r) ==
  /\ pc[r] = "createTenant"
  /\ Continue(r, "commit", <<None, None>>)
  /\ UNCHANGED tables

\* TenantRepository.Create: UNIQUE(name) waits for an insert in flight and
\* fails on a committed one.
CreateTenant(r) ==
  /\ pc[r] = "createTenant"
  /\ \A q \in Call : Writing(q, "provision") => cmd[q].name # cmd[r].name
  /\ IF IdsNamed(cmd[r].name) # {}
     THEN Finish(r, "constraint")
     ELSE Continue(r, "commit", <<None, None>>)
  /\ UNCHANGED tables

-----------------------------------------------------------------------------
(* AuthorizeTenantPair                                                     *)

\* resolveProvisionedTenantID, twice: tenants are never removed, so the two
\* reads and the use case's own existence check answer as one.
Authorize(r) ==
  /\ pc[r] = "authorize"
  /\ \/ /\ IdsNamed(cmd[r].a) = {} \/ IdsNamed(cmd[r].b) = {}
        /\ Finish(r, "tenant_not_found")
     \/ \E s \in IdsNamed(cmd[r].a), t \in IdsNamed(cmd[r].b) :
          Continue(r, "readPair", Pair(s, t))
  /\ UNCHANGED tables

\* activeLinkSnapshot and domain.AuthorizeTenantPair.
ReadPair(r) ==
  /\ pc[r] = "readPair"
  /\ IF ActiveByPair(used[r][1], used[r][2]) # {}
     THEN Finish(r, "tenant_link_already_exists")
     ELSE Continue(r, "createLink", used[r])
  /\ UNCHANGED tables

\* Mutant: no partial unique index.
CreateLinkUnchecked(r) ==
  /\ pc[r] = "createLink"
  /\ Continue(r, "commit", used[r])
  /\ UNCHANGED tables

\* TenantLinkRepository.Create: the partial unique index over active pairs
\* waits for whoever is inserting the pair or revoking its active link.
CreateLink(r) ==
  /\ pc[r] = "createLink"
  /\ \A q \in Call :
       /\ Writing(q, "authorize") => used[q] # used[r]
       /\ Writing(q, "revoke") => ~(Active(cmd[q].link) /\ Joins(cmd[q].link, used[r]))
  /\ IF ActiveByPair(used[r][1], used[r][2]) # {}
     THEN Finish(r, "constraint")
     ELSE Continue(r, "commit", used[r])
  /\ UNCHANGED tables

-----------------------------------------------------------------------------
(* RevokeTenantLink                                                        *)

\* Mutant: the link's absence goes unnoticed and its row is upserted.
RevokeUnchecked(r) ==
  /\ pc[r] = "revoke"
  /\ Continue(r, "updateLink", <<None, None>>)
  /\ UNCHANGED tables

\* tenantLinkSnapshot and domain.RevokeTenantLink, which does not look at the
\* status.
Revoke(r) ==
  /\ pc[r] = "revoke"
  /\ IF links[cmd[r].link] = NoLink
     THEN Finish(r, "tenant_link_not_found")
     ELSE Continue(r, "updateLink", <<None, None>>)
  /\ UNCHANGED tables

\* TenantLinkRepository.Revoke: the UPDATE waits for another one of the row.
UpdateLink(r) ==
  /\ pc[r] = "updateLink"
  /\ \A q \in Call : Writing(q, "revoke") => cmd[q].link # cmd[r].link
  /\ Continue(r, "commit", <<None, None>>)
  /\ UNCHANGED tables

-----------------------------------------------------------------------------
(* RegisterCounterpartyAlias                                               *)

\* ActiveByPair and domain.RegisterCounterpartyAlias.
Register(r) ==
  /\ pc[r] = "register"
  /\ LET found == ActiveByPair(acts[r], cmd[r].target)
     IN  \/ /\ found = {}
            /\ Finish(r, "tenant_link_not_found")
         \/ \E l \in found : Continue(r, "createAlias", <<l, cmd[r].target>>)
  /\ UNCHANGED tables

SlotOf(r) == <<acts[r], cmd[r].alias>>

\* Mutant: ON CONFLICT DO UPDATE.
CreateAliasUpsert(r) ==
  /\ pc[r] = "createAlias"
  /\ \A q \in Call : Writing(q, "register") => SlotOf(q) # SlotOf(r)
  /\ Continue(r, "commit", used[r])
  /\ UNCHANGED tables

\* CounterpartyAliasRepository.Create: PRIMARY KEY (tenant_id, alias).  A target
\* account that does not exist fails the insert like any other error: Abort.
CreateAlias(r) ==
  /\ pc[r] = "createAlias"
  /\ \A q \in Call : Writing(q, "register") => SlotOf(q) # SlotOf(r)
  /\ IF Taken(SlotOf(r)) THEN Finish(r, "constraint") ELSE Continue(r, "commit", used[r])
  /\ UNCHANGED tables

-----------------------------------------------------------------------------
(* prepareTransfer                                                         *)

\* ByTenantAndAlias.
Resolve(r) ==
  /\ pc[r] = "resolve"
  /\ IF ~Taken(SlotOf(r))
     THEN Finish(r, "counterparty_not_found")
     ELSE Continue(r, "readLink", <<aliases[SlotOf(r)].link, aliases[SlotOf(r)].target>>)
  /\ UNCHANGED tables

\* Mutant: the active placeholder ByTenantAndAlias builds the row with is taken
\* for the link.
TrustAlias(r) ==
  /\ pc[r] = "readLink"
  /\ Continue(r, "getAccount", used[r])
  /\ UNCHANGED tables

\* linkSnapshotFor and domain.ResolveCounterparty.
ReadLink(r) ==
  /\ pc[r] = "readLink"
  /\ IF Active(used[r][1])
     THEN Continue(r, "getAccount", used[r])
     ELSE Finish(r, "counterparty_not_found")
  /\ UNCHANGED tables

NextAccount(r) == Needed(acts[r], used[r][2])[step[r] + 1]

\* The account is there, or just inserted: on to the next one.
Advance(r, accounts) ==
  /\ step' = [step EXCEPT ![r] = @ + 1]
  /\ mine' = [mine EXCEPT ![r] = @ \cup accounts]
  /\ Goto(r, IF step[r] = 3 THEN "commit" ELSE "getAccount")
  /\ UNCHANGED <<cmd, acts, used, answer, before>>

\* ensureAccount's Get sees what is committed and what the call itself inserted.
GetAccount(r) ==
  /\ pc[r] = "getAccount"
  /\ IF NextAccount(r) \in opened \cup mine[r]
     THEN Advance(r, {})
     ELSE Continue(r, "createAccount", used[r])
  /\ UNCHANGED tables

\* And its Create, under the accounts' primary key.
CreateAccount(r) ==
  /\ pc[r] = "createAccount"
  /\ \A q \in Call : NextAccount(r) \notin mine[q]
  /\ IF NextAccount(r) \in opened
     THEN Finish(r, "constraint")
     ELSE Advance(r, {NextAccount(r)})
  /\ UNCHANGED tables

-----------------------------------------------------------------------------
\* Mutant: a pair that was linked before gets its old link back.
Reactivate(r) ==
  LET c == cmd[r]
      old == {l \in LinkId : links[l] # NoLink /\ Joins(l, used[r])}
      l == IF old = {} THEN r ELSE CHOOSE x \in old : TRUE
  IN  /\ nameOf' = IF c.op = "provision" THEN [nameOf EXCEPT ![r] = c.name] ELSE nameOf
      /\ links' = CASE c.op = "authorize" ->
                         [links EXCEPT ![l] = [a |-> used[r][1], b |-> used[r][2],
                                               status |-> "active"]]
                    [] c.op = "revoke" -> [links EXCEPT ![c.link].status = "revoked"]
                    [] OTHER -> links
      /\ aliases' = IF c.op = "register"
                    THEN [aliases EXCEPT ![SlotOf(r)] = [link |-> used[r][1], target |-> used[r][2]]]
                    ELSE aliases
      /\ opened' = opened \cup mine[r]

\* What the transaction of r has written becomes visible.
MakeDurable(r) ==
  LET c == cmd[r]
  IN  /\ nameOf' = IF c.op = "provision" THEN [nameOf EXCEPT ![r] = c.name] ELSE nameOf
      /\ links' = CASE c.op = "authorize" ->
                         [links EXCEPT ![r] = [a |-> used[r][1], b |-> used[r][2],
                                               status |-> "active"]]
                    [] c.op = "revoke" -> [links EXCEPT ![c.link].status = "revoked"]
                    [] OTHER -> links
      /\ aliases' = IF c.op = "register"
                    THEN [aliases EXCEPT ![SlotOf(r)] = [link |-> used[r][1], target |-> used[r][2]]]
                    ELSE aliases
      /\ opened' = opened \cup mine[r]

Commit(r) ==
  /\ pc[r] = "commit"
  /\ MakeDurable(r)
  /\ Finish(r, "ok")

\* The commit took effect and its caller is told that it failed.
CommitUnheard(r) ==
  /\ pc[r] = "commit"
  /\ MakeDurable(r)
  /\ Finish(r, "failed")

\* A statement fails, the process ends, or PostgreSQL picks the call as the
\* victim of a deadlock.
Abort(r) ==
  /\ pc[r] \notin {"idle", "done"}
  /\ Finish(r, "failed")
  /\ UNCHANGED tables

Step(r) ==
  \/ Provision(r) \/ CreateTenant(r)
  \/ Authorize(r) \/ ReadPair(r) \/ CreateLink(r)
  \/ Revoke(r) \/ UpdateLink(r)
  \/ Register(r) \/ CreateAlias(r)
  \/ Resolve(r) \/ ReadLink(r) \/ GetAccount(r) \/ CreateAccount(r)
  \/ Commit(r)

AllAnswered == \A r \in Call : pc[r] = "done"

Next ==
  \/ \E r \in Call : (\E c \in Command : Submit(r, c)) \/ Step(r) \/ CommitUnheard(r) \/ Abort(r)
  \/ AllAnswered /\ UNCHANGED vars

Spec == Init /\ [][Next]_vars

-----------------------------------------------------------------------------
Phase == {"idle", "provision", "createTenant", "authorize", "readPair", "createLink",
          "revoke", "updateLink", "register", "createAlias", "resolve", "readLink",
          "getAccount", "createAccount", "commit", "done"}

\* Types; a link row has both of its tenants, an alias row its link.
DirectoryTypeOK ==
  /\ nameOf \in [TenantId -> Name \cup {None}]
  /\ links \in [LinkId -> [a : TenantId, b : TenantId, status : {"active", "revoked"}]
                          \cup {NoLink}]
  /\ aliases \in [Slot -> [link : LinkId, target : TenantId] \cup {NoAlias}]
  /\ opened \subseteq Account
  /\ acts \in [Call -> TenantId \cup {OperatorKey, None}]
  /\ pc \in [Call -> Phase]
  /\ step \in [Call -> 0 .. 4]
  /\ mine \in [Call -> SUBSET Account]
  /\ answer \in [Call -> Outcome]

\* I10: a name is bound to one tenant, although two calls may both have read
\* that it is free (usecases.go:280).
NameBoundOnce ==
  \A s, t \in TenantId : nameOf[s] = nameOf[t] /\ nameOf[s] # None => s = t

\* I11, first half: at most one active link per unordered pair, whichever way
\* round it is asked for and however authorizations and revocations of the pair
\* race (tenant_link.go:83).
OneActiveLink ==
  \A l, m \in LinkId :
    Active(l) /\ Active(m) /\ {links[l].a, links[l].b} = {links[m].a, links[m].b} => l = m

\* A revoked link stays revoked, and a link never comes to join another pair:
\* "Terminal: nothing re-activates a revoked link" (tenant_link.go:6-7).
RevokedIsFinal ==
  [][\A l \in LinkId : links[l].status = "revoked" => links'[l] = links[l]]_vars

\* I11, second half: an alias leads to the tenant its owner was linked with,
\* by the very link it names.
AliasBehindLink ==
  \A slot \in Slot :
    Taken(slot) => Joins(aliases[slot].link, Pair(slot[1], aliases[slot].target))

\* A link whose revocation was committed before a transfer was sent carries
\* none: the alias "simply fails to resolve the next time it is used"
\* (brief.md:942-943), re-registered, re-authorized or not.
RevocationHolds ==
  \A r \in Call :
    cmd[r].op = "resolve" /\ answer[r] = "ok" => used[r][1] \notin before[r]

\* A name that one tenant has for another never comes to mean a third, nor the
\* same one over another link: of two registrations that both found a link the
\* later is answered an error (usecases.go:430), and a transfer sent by the name
\* goes where it went before.
AliasKeepsMeaning == [][\A slot \in Slot : Taken(slot) => aliases'[slot] = aliases[slot]]_vars

\* A key works from the moment its tenant's provisioning was answered, for that
\* tenant alone, and nobody acts for a tenant without a key of it (DDD-22): not
\* the operator, and not the holder of a key that no committed row has.
KeysNameTenants ==
  \A r \in Call :
    /\ cmd[r].op = "provision" /\ answer[r] = "ok" => TenantOfKey(r) = {r}
    /\ acts[r] \in TenantId =>
         /\ nameOf[acts[r]] # None
         /\ cmd[r].key = acts[r] \/ (cmd[r].key = DemoKey /\ acts[r] = LegacyTenant)

\* "this bootstrap is internal and deliberately idempotent, so 'already exists'
\* is the expected, successful case" (brief.md:2710-2712): no transfer fails
\* because its accounts exist.
BootstrapIdempotent ==
  \A r \in Call : cmd[r].op = "resolve" => answer[r] # "constraint"
=============================================================================
