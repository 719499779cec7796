---------------------------- MODULE MCImageProxy ----------------------------
(***************************************************************************)
(* An instance of ImageProxy for TLC: two repositories of one registry.    *)
(***************************************************************************)
EXTENDS ImageProxy, TLC

CONSTANTS os, debug,   \* two repositories
          registry

OneRegistry == [k \in Keys |-> registry]

P(auth, realm, blobs) == [auth |-> auth, realm |-> realm, blobs |-> blobs]

\* What the registry may change to from each policy.
anonymous == P("none", None, "direct")
old == P("bearer", "old", "sameHost")
new == P("bearer", "new", "otherHost")
downgrade == P("bearer", "old", "downgrade")
noRealm == P("bearer", None, "direct")
other == P("other", None, "direct")

MCPolicies == {anonymous, old, new, downgrade, noRealm, other}
Successors ==
  (anonymous :> {old}) @@ (old :> {new, downgrade, noRealm}) @@ (other :> {anonymous})

MCInit == Init /\ policy[registry] \in DOMAIN Successors

\* A change or a fault: a call that fails leaves nothing behind.
MCNext ==
  /\ Next
  /\ version'[registry] + faults' <= 1
  /\ policy' # policy => policy'[registry] \in Successors[policy[registry]]

MCSpec == MCInit /\ [][MCNext]_vars /\ Fairness
=============================================================================
