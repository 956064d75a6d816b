------------------------------ MODULE MCLogins ------------------------------
(* TLC instances of McpOAuth, which extends AdminSessions and Accounts. *)
EXTENDS McpOAuth, TLC

ByName == [g1 |-> "google", h1 |-> "github", h2 |-> "github"]
LinkedAtStart ==
  [i1 |-> [account |-> "a1", login |-> "g1", linked |-> TRUE],
   i2 |-> [account |-> "a1", login |-> "h1", linked |-> TRUE]]
SomeEvidence == (Login \ {"g1"}) \X Invitation

ReadOrAll == {{"control:read"}, {"control:read", "control:write", "control:security"}}

(* The operations that are explored together. *)
SomeWorkloads ==
  {[ops |-> {"login", "call", "access", "logout", "crash"}, rows |-> 3, open |-> {}, until |-> 2],
   [ops |-> {"unlink"}, rows |-> 5, open |-> {"g1", "h1"}, until |-> 1],
   [ops |-> {"link", "unlink"}, rows |-> 4, open |-> {"g1"}, until |-> 1],
   [ops |-> {"link", "crash"}, rows |-> 4, open |-> {"g1"}, until |-> 3],
   [ops |-> {"cli", "call"}, rows |-> 3, open |-> {}, until |-> 2],
   [ops |-> {"invite", "accept", "call"}, rows |-> 3, open |-> {}, until |-> 1],
   [ops |-> {"platformInvite", "accept"}, rows |-> 3, open |-> {}, until |-> 2],
   [ops |-> {"call", "profile", "unlink"}, rows |-> 3, open |-> {"g1", "h1"}, until |-> 1],
   [ops |-> {"mcp", "crash"}, rows |-> 2, open |-> {}, until |-> 2]}

Symmetry == Permutations(Request)
=============================================================================
