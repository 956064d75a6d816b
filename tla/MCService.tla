------------------------------ MODULE MCService ------------------------------
(* A small instance of the service's background work for TLC. *)
EXTENDS Service

\* One Space with one node and one with two, of which one row is older than
\* the summaries.
Nodes == {<<1, 1>>, <<2, 1>>, <<2, 2>>}
LegacyNodes == {<<2, 1>>}

Paths == {"root", "health", "stacks", "space", "appAdmin", "console", "mcp", "metadata",
          "oauthBrowser", "oauthToken", "oauthOther", "wellKnown", "other"}

\* A plain request for every path on its origin, and the variations that
\* handleFetch tells apart: elsewhere, not a GET, from another page's origin,
\* with the retired lease headers.
Plain(path) == [path |-> path, get |-> TRUE, own |-> TRUE, page |-> "own", legacy |-> FALSE]
Visits ==
    {Plain(p) : p \in Paths}
    \cup {[Plain(p) EXCEPT !.own = FALSE] : p \in {"health", "console", "mcp", "other"}}
    \cup {[Plain(p) EXCEPT !.get = FALSE] : p \in {"root", "health"}}
    \cup {[Plain("mcp") EXCEPT !.page = "foreign"], [Plain("space") EXCEPT !.legacy = TRUE]}

AllWorkloads == {"usage", "cutover", "entry"}

=============================================================================
