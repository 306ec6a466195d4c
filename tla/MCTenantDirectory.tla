------------------------- MODULE MCTenantDirectory --------------------------
(***************************************************************************)
(* Instances of TenantDirectory for TLC.  Two tenants are provisioned and  *)
(* linked, a third name may be provisioned.  Calls are integers between    *)
(* the two tenants' ids, so a minted id may come first or last in a pair.  *)
(***************************************************************************)
EXTENDS TenantDirectory

CONSTANTS n1, n2, n3, x

MCInitTenant == {0, 9}
MCInitName == [t \in InitTenant |-> IF t = 0 THEN n1 ELSE n2]
MCInitLink == {0}
MCInitPair == [l \in InitLink |-> <<0, 9>>]

ProvisionAs(k) == [op |-> "provision", key |-> k, name |-> n3]
AuthorizePair(a, b) == [op |-> "authorize", key |-> OperatorKey, a |-> a, b |-> b]
RevokeLink(l) == [op |-> "revoke", key |-> OperatorKey, link |-> l]
RegisterAlias(k, t) == [op |-> "register", key |-> k, alias |-> x, target |-> t]
ResolveAlias(k) == [op |-> "resolve", key |-> k, alias |-> x]

\* The second tenant has a name for the first from before.
MCInitAlias == [slot \in {<<9, x>>} |-> [link |-> 0, target |-> 0]]

\* Provisioning and authorizing race; a pair is named either way round,
\* revoked, and linked again.  The first tenant names the second, or a tenant
\* it has no link with; both send while the link below them goes and comes, the
\* second by its own key or the demo key, and names the first again over a new
\* link.  A new tenant names the first, and
\* two keys are presented on the wrong route.
DirectoryCommands ==
  {ProvisionAs(OperatorKey), AuthorizePair(n1, n2), AuthorizePair(n2, n1),
   AuthorizePair(n3, n1), RevokeLink(0), RevokeLink(1), RegisterAlias(0, 9),
   RegisterAlias(0, 0), ResolveAlias(0), ResolveAlias(9), ResolveAlias(DemoKey),
   RegisterAlias(1, 0), RegisterAlias(DemoKey, 0), ProvisionAs(0), ResolveAlias(OperatorKey)}
=============================================================================
