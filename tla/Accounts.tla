------------------------------ MODULE Accounts ------------------------------
(***************************************************************************)
(* Accounts of the control plane and the external identities (logins at a  *)
(* provider) that are linked to them.                                      *)
(*                                                                         *)
(* An account has a credential version that grows with every link and      *)
(* unlink; sessions carry the version they were made under.  Each batch of *)
(* the repository is one action on the three tables below.                 *)
(***************************************************************************)
EXTENDS Integers, FiniteSets

CONSTANTS
  Account,      \* account ids that can be generated
  Login,        \* (issuer, subject) pairs at the providers
  Identity,     \* external identity ids that can be generated
  None,         \* absent
  MaxVersion    \* bound: credential version of an account

VARIABLES
  accounts,     \* cas_accounts; admitted: holds an authority or is a member of an App
  identities,   \* cas_external_identities
  profiles      \* where name and avatar of cas_account_profiles come from

accountVars == <<accounts, identities, profiles>>

(* joined is history: the account was admitted at some time. *)
NoAccount == [version |-> 0, blocked |-> FALSE, admitted |-> FALSE, joined |-> FALSE]
NoIdentity == [account |-> None, login |-> None, linked |-> FALSE]
User == "user"
Source == Identity \cup {None, User}

Exists(a) == accounts[a].version > 0
Usable(a) == Exists(a) /\ ~accounts[a].blocked

LinkedTo(a) == {i \in Identity : identities[i].linked /\ identities[i].account = a}

(* getActiveIdentity: the rows that are linked for a login. *)
ActiveIdentities(l) == {i \in Identity : identities[i].linked /\ identities[i].login = l}

(* The partial unique index over (issuer, subject). *)
Unlinked(l) == ActiveIdentities(l) = {}

FreshIdentity(i) == identities[i] = NoIdentity

(* authorizeCredential *)
Credential(a, i, v) ==
  /\ Usable(a) /\ accounts[a].version = v
  /\ i \in LinkedTo(a)

(* Nobody's name and avatar: what a new login brings fills the gaps. *)
FillProfile(p, i) ==
  [name |-> IF p.name = None THEN i ELSE p.name, avatar |-> IF p.avatar = None THEN i ELSE p.avatar]

ClearSource(p, i) ==
  [name |-> IF p.name = i THEN None ELSE p.name, avatar |-> IF p.avatar = i THEN None ELSE p.avatar]

(* createAccountWithIdentity: the batch fails when the login is linked already. *)
CreateAccount(a, i, l) ==
  /\ ~Exists(a) /\ FreshIdentity(i) /\ Unlinked(l)
  /\ accounts' = [accounts EXCEPT ![a] = [NoAccount EXCEPT !.version = 1]]
  /\ identities' = [identities EXCEPT ![i] = [account |-> a, login |-> l, linked |-> TRUE]]
  /\ profiles' = [profiles EXCEPT ![a] = [name |-> i, avatar |-> i]]

(* requireAccount of both batches, with the fence of the increment. *)
VersionCurrent(a, v) == Usable(a) /\ accounts[a].version = v

NextVersion(a) == [accounts EXCEPT ![a].version = @ + 1]

CommitLinkIdentity(a, v, i, l) ==
  /\ VersionCurrent(a, v) /\ v < MaxVersion
  /\ FreshIdentity(i) /\ Unlinked(l)
  /\ identities' = [identities EXCEPT ![i] = [account |-> a, login |-> l, linked |-> TRUE]]
  /\ profiles' = [profiles EXCEPT ![a] = FillProfile(@, i)]
  /\ accounts' = NextVersion(a)

(* Mutant: the batch does not look at the identity that is to remain. *)
RemainingLinkedUnchecked(a, target, remaining) == target \in LinkedTo(a)

(* requireRemaining *)
RemainingLinked(a, target, remaining) ==
  /\ target # remaining
  /\ {target, remaining} \subseteq LinkedTo(a)
  /\ Cardinality(LinkedTo(a)) >= 2

CommitUnlinkIdentity(a, v, target, remaining) ==
  /\ VersionCurrent(a, v) /\ v < MaxVersion
  /\ RemainingLinked(a, target, remaining)
  /\ identities' = [identities EXCEPT ![target].linked = FALSE]
  /\ profiles' = [profiles EXCEPT ![a] = ClearSource(@, target)]
  /\ accounts' = NextVersion(a)

(* updateProfile: the batch asks for nothing; the identity was looked at before. *)
WriteProfile(a, p) ==
  /\ profiles' = [profiles EXCEPT ![a] = p]
  /\ UNCHANGED <<accounts, identities>>

(* Blocks, memberships and authorities change by the operations of ControlAccess; a block also
   ends the credential version. *)
SetAccess(a, blocked, admitted) == LET ends == blocked /\ ~accounts[a].blocked IN
  /\ Exists(a) /\ (ends => accounts[a].version < MaxVersion)
  /\ accounts' = [accounts EXCEPT ![a].blocked = blocked, ![a].admitted = admitted,
                                  ![a].joined = @ \/ admitted,
                                  ![a].version = IF ends THEN @ + 1 ELSE @]
  /\ accounts' # accounts
  /\ UNCHANGED <<identities, profiles>>

AccountRecord == [version : Nat, blocked : BOOLEAN, admitted : BOOLEAN, joined : BOOLEAN]
IdentityRecord ==
  [account : Account \cup {None}, login : Login \cup {None}, linked : BOOLEAN]

AccountTypeOK ==
  /\ accounts \in [Account -> AccountRecord]
  /\ identities \in [Identity -> IdentityRecord]
  /\ profiles \in [Account -> [name : Source, avatar : Source]]

(* However logins, links and unlinks of several requests interleave, an account that exists
   can be logged in to, and a login leads to one account only. *)
AccountKeepsLogin ==
  /\ \A a \in Account : Exists(a) => LinkedTo(a) # {}
  /\ \A l \in Login : Cardinality(ActiveIdentities(l)) <= 1
=============================================================================
