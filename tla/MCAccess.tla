------------------------------ MODULE MCAccess -------------------------------
(* A small instance of the parts around the service for TLC. *)
EXTENDS Access, TLC

CONSTANTS
    a1, a2, i1, i2, k1, k2, h1, h2,
    x1, x2,    \* the two actors of a workload: callers, operators, readers, requests
    y1, y2     \* its two caches or backup directories

\* Issuers: i1 is registered for a1; i2's metadata of the first kind names
\* another issuer, and documents lack S256 or have a private endpoint.
Doc(i, keys) == [issuer |-> i, s256 |-> TRUE, safe |-> TRUE, private |-> FALSE, keys |-> keys]
Documents ==
    {Doc(i1, {k1}), Doc(i1, {k2}), Doc(i2, {k2}),
     [Doc(i2, {k1}) EXCEPT !.s256 = FALSE], [Doc(i2, {k1}) EXCEPT !.private = TRUE]}
FirstRegistry == (a1 :> [issuer |-> i1, revision |-> 1]) @@ (a2 :> NoRow)
FirstDocuments ==
    (i1 :> [kind \in Kinds |-> Doc(i1, {k1})])
    @@ (i2 :> [kind \in Kinds |-> IF kind = "oauth" THEN Doc(i1, {k1}) ELSE Doc(i2, {k2})])
Tokens ==
    {[issuer |-> i1, key |-> k1, app |-> a1], [issuer |-> i1, key |-> k1, app |-> a2]}

\* Operations of two Spaces and two classes; the lease cannot be replayed.
Demands ==
    {[space |-> "s1", permission |-> "read", class |-> "content", replay |-> TRUE],
     [space |-> "s2", permission |-> "lease", class |-> "content", replay |-> FALSE],
     [space |-> "s1", permission |-> "usage", class |-> "management", replay |-> TRUE]}

\* Two cached nodes, of which one fills the cache.
Sizes == [n \in Item |-> IF n = "a" THEN 1 ELSE 2]

\* The bytes of h2 name h1.
Tree == (h1 :> {}) @@ (h2 :> {h1})

AllWorkloads ==
    {"registry", "verifier", "client", "cache", "cli", "rootListings", "listings", "upload", "reset"}

Symmetry == Permutations({x1, x2}) \cup Permutations({y1, y2})

=============================================================================
