-------------------------- MODULE MCControlAccess --------------------------
(* TLC instances of ControlAccess. *)
EXTENDS ControlAccess, TLC

OneOf(S) == {CHOOSE x \in S : TRUE}

(* The operations that are explored together, and with how many ids. *)
SomeWorkloads ==
  {[ops |-> {"createApp", "patch", "remove", "block", "invite", "accept"}, keys |-> {None},
    apps |-> OneOf(App), invitations |-> OneOf(Invitation)],
   [ops |-> {"createApp", "invite", "accept", "remove", "transition"}, keys |-> Key,
    apps |-> OneOf(App), invitations |-> Invitation],
   [ops |-> {"createApp", "invite", "accept", "remove", "list"}, keys |-> {None},
    apps |-> OneOf(App), invitations |-> OneOf(Invitation)],
   [ops |-> {"createApp", "authority", "block"}, keys |-> Key, apps |-> App,
    invitations |-> {}],
   [ops |-> {"platformInvite", "platformAccept", "platformRevoke", "authority"},
    keys |-> Key, apps |-> {}, invitations |-> OneOf(Invitation)]}

(* Request slots are interchangeable. *)
Symmetry == Permutations(Request)
=============================================================================
