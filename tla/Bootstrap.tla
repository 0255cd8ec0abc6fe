------------------------------ MODULE Bootstrap ------------------------------
(***************************************************************************)
(* How a user of the Telegram bot gets an account: AuthService.            *)
(* bootstrap_telegram_identity, app/services/auth_service.py, over         *)
(* AuthRepository, app/repositories/auth.py, on PostgreSQL.                *)
(*                                                                         *)
(* An organization, a user, the membership and the identity are committed  *)
(* one after the other; what an earlier request left behind is found by    *)
(* its slug or email.  Before an insert the sequence of the table is set   *)
(* to the largest committed id, so that two requests may be given the same *)
(* id: the second waits for the first and is refused.                      *)
(***************************************************************************)
EXTENDS Integers, FiniteSets

CONSTANTS
  Users,        \* the users of the bot
  SignIns, NoUser,
  MaxDeaths     \* bound: requests that end early

Tables == {"organizations", "users"}
MaxId == 1 + (Cardinality(Users) + 1) * Cardinality(SignIns)

VARIABLES
  sequence,   \* of each table
  row,        \* the committed row of a user in each table: its id, 0: none
  member,     \* table organization_memberships: users
  identity,   \* table telegram_identities: users
  boot,       \* the requests
  deaths

bootVars == <<sequence, row, member, identity, boot, deaths>>

NoSignIn == [at |-> "idle", user |-> NoUser, table |-> "organizations", id |-> 0]

BootTypeOK ==
  /\ sequence \in [Tables -> 0 .. MaxId] /\ row \in [Tables -> [Users -> 0 .. MaxId]]
  /\ member \in SUBSET Users /\ identity \in SUBSET Users /\ deaths \in 0 .. MaxDeaths
  /\ boot \in [SignIns ->
       [at : {"idle", "look", "sync", "allocate", "insert", "commit", "member", "join", "identity"},
        user : Users \union {NoUser}, table : Tables, id : 0 .. MaxId]]

BootInit ==
  /\ sequence = [t \in Tables |-> 0] /\ row = [t \in Tables |-> [u \in Users |-> 0]]
  /\ member = {} /\ identity = {} /\ deaths = 0
  /\ boot = [p \in SignIns |-> NoSignIn]

SignInGoes(p, at, table, id) ==
  boot' = [boot EXCEPT ![p] = [at |-> at, user |-> boot[p].user, table |-> table, id |-> id]]
SignInAt(p, at) == boot' = [boot EXCEPT ![p].at = at]
SignInEnds(p) == boot' = [boot EXCEPT ![p] = NoSignIn]
MyRow(p) == row[boot[p].table][boot[p].user]

\* The bot asks for a user who has no identity yet.  (With one, names and the role
\* are refreshed.)
BeginSignIn(p, u) ==
  /\ boot[p] = NoSignIn /\ u \notin identity
  /\ boot' = [boot EXCEPT ![p] =
               [at |-> "look", user |-> u, table |-> "organizations", id |-> 0]]
  /\ UNCHANGED <<sequence, row, member, identity, deaths>>

\* Faulty: the identity is committed before the membership.
IdentityFirst(t) == [at |-> IF t = "organizations" THEN "look" ELSE "identity", table |-> "users"]

\* What follows once the row of the table is there.
NextTable(t) == [at |-> IF t = "organizations" THEN "look" ELSE "member", table |-> "users"]

Onward(p) == SignInGoes(p, NextTable(boot[p].table).at, NextTable(boot[p].table).table, 0)

\* Faulty: what an earlier request left behind is not looked for.
AlwaysNew(p) == FALSE

\* get_organization_by_telegram_user_id (the slug), get_user_by_email.
Found(p) == MyRow(p) # 0

Look(p) ==
  /\ boot[p].at = "look"
  /\ IF Found(p) THEN Onward(p) ELSE SignInAt(p, "sync")
  /\ UNCHANGED <<sequence, row, member, identity, deaths>>

\* _sync_postgres_sequence: setval is not part of the transaction.
Sync(p) ==
  LET t == boot[p].table
      ids == {1} \union {row[t][u] : u \in Users}
  IN  /\ boot[p].at = "sync" /\ SignInAt(p, "allocate")
      /\ \E largest \in ids :
           /\ \A i \in ids : i <= largest
           /\ sequence' = [sequence EXCEPT ![t] = largest]
      /\ UNCHANGED <<row, member, identity, deaths>>

Allocate(p) ==
  LET t == boot[p].table
  IN  /\ boot[p].at = "allocate"
      /\ sequence' = [sequence EXCEPT ![t] = @ + 1]
      /\ SignInGoes(p, "insert", t, sequence[t] + 1)
      /\ UNCHANGED <<row, member, identity, deaths>>

\* Another transaction has inserted a row with this id, slug or email.
Held(p) ==
  \E q \in SignIns \ {p} :
    /\ boot[q].at = "commit" /\ boot[q].table = boot[p].table
    /\ boot[q].id = boot[p].id \/ boot[q].user = boot[p].user

Taken(p) ==
  \E u \in Users : row[boot[p].table][u] = boot[p].id \/ (u = boot[p].user /\ MyRow(p) # 0)

\* IntegrityError ends the request.
InsertRow(p) ==
  /\ boot[p].at = "insert" /\ ~Held(p)
  /\ IF Taken(p) THEN SignInEnds(p) ELSE SignInAt(p, "commit")
  /\ UNCHANGED <<sequence, row, member, identity, deaths>>

CommitRow(p) ==
  /\ boot[p].at = "commit"
  /\ row' = [row EXCEPT ![boot[p].table][boot[p].user] = boot[p].id]
  /\ Onward(p)
  /\ UNCHANGED <<sequence, member, identity, deaths>>

\* get_membership, add_membership: one of a user and an organization.
LookMember(p) ==
  /\ boot[p].at = "member"
  /\ SignInAt(p, IF boot[p].user \in member THEN "identity" ELSE "join")
  /\ UNCHANGED <<sequence, row, member, identity, deaths>>

Join(p) ==
  /\ boot[p].at = "join"
  /\ member' = member \union {boot[p].user}
  /\ IF boot[p].user \in member THEN SignInEnds(p) ELSE SignInAt(p, "identity")
  /\ UNCHANGED <<sequence, row, identity, deaths>>

\* create_telegram_identity and its commit; a second one is refused.
Identify(p) ==
  /\ boot[p].at = "identity"
  /\ identity' = identity \union {boot[p].user}
  /\ SignInEnds(p)
  /\ UNCHANGED <<sequence, row, member, deaths>>

SignInDies(p) ==
  /\ boot[p] # NoSignIn /\ deaths < MaxDeaths /\ deaths' = deaths + 1
  /\ SignInEnds(p)
  /\ UNCHANGED <<sequence, row, member, identity>>

SignInStep(p) ==
  \/ Look(p) \/ Sync(p) \/ Allocate(p) \/ InsertRow(p) \/ CommitRow(p) \/ LookMember(p)
  \/ Join(p) \/ Identify(p)

BootNext ==
  \E p \in SignIns : SignInStep(p) \/ SignInDies(p) \/ \E u \in Users : BeginSignIn(p, u)

BootSpec == BootInit /\ [][BootNext]_bootVars

\* The server goes on with every request; a user who cannot enter asks again, and is
\* not always kept waiting by the others.
BootFairness ==
  /\ \A p \in SignIns : WF_bootVars(SignInStep(p))
  /\ \A u \in Users : SF_bootVars(\E p \in SignIns : BeginSignIn(p, u))

BootFairSpec == BootSpec /\ BootFairness

-----------------------------------------------------------------------------
(* Properties.                                                               *)

\* An identity has its user, its organization and its membership, whatever requests
\* died on the way: no account is ever refused as inconsistent.
Consistent ==
  \A u \in identity : u \in member /\ \A t \in Tables : row[t][u] # 0

\* A user who goes on asking gets an account, although requests die half-way and
\* take each other's ids.
Admitted(u) == <>(u \in identity)
=============================================================================
