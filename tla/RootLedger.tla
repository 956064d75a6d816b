----------------------------- MODULE RootLedger -----------------------------
(***************************************************************************)
(* What the Root Ref protocol of an App promises: one audit log of updates *)
(* for all its Spaces, to which an update is appended atomically and at    *)
(* most once, and balances that are never negative.                        *)
(***************************************************************************)
EXTENDS Integers, Sequences

CONSTANTS
    Space, Hash,
    RequestId,   \* idempotency identities, scoped to a Space
    Payloads,    \* change sets: Hash -> signed delta
    MaxCount     \* largest balance (the safe-integer bound of the code)

Update == [space: Space, id: RequestId, changes: Payloads]

VARIABLES
    log,         \* the updates applied so far, oldest first
    balance      \* root references per Space and hash

SameRequest(r, q) == r.space = q.space /\ r.id = q.id

Applied(r) == \E i \in DOMAIN log : SameRequest(log[i], r)

Init ==
    /\ log = <<>>
    /\ balance = [s \in Space |-> [h \in Hash |-> 0]]

Apply(r) ==
    /\ ~Applied(r)
    /\ \A h \in Hash : balance[r.space][h] + r.changes[h] \in 0..MaxCount
    /\ log' = Append(log, r)
    /\ balance' = [balance EXCEPT ![r.space] =
                      [h \in Hash |-> balance[r.space][h] + r.changes[h]]]

Next == \E r \in Update : Apply(r)

Spec == Init /\ [][Next]_<<log, balance>>

=============================================================================
