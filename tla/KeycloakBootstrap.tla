------------------------- MODULE KeycloakBootstrap -------------------------
(***************************************************************************)
(* Runs of scripts/keycloak-bootstrap.ts against one Keycloak.  A run goes *)
(* through a list of things that must exist - the realm, the client, each  *)
(* role, the test user -, looks whether the next one is there and creates  *)
(* it if not.  Then it assigns the roles to the user.  Runs may overlap,   *)
(* any request may fail, before or after Keycloak acted on it, and a run   *)
(* that did not exit with 0 is started again.                              *)
(*                                                                         *)
(* Keycloak is external: it keeps what it created, refuses to create a     *)
(* thing twice (409), and may answer a creation with or without a body.    *)
(* The script parses the body of every answer but a 204, so a creation     *)
(* that is answered without one ends the run.                              *)
(***************************************************************************)
EXTENDS Integers

CONSTANTS
  Runs,         \* places the script is run from, again and again
  NumRoles,     \* the number of roles; 5 in the script
  MaxFaults     \* bound on the requests that fail and the runs that are killed

ASSUME ConstantsAssumption == NumRoles \in Nat /\ MaxFaults \in Nat

VARIABLES
  made,         \* Keycloak: the things that exist
  granted,      \* Keycloak: the roles of the test user
  faults,       \* the faults so far
  place,        \* run -> where it is
  thing,        \* run -> the thing it looks for or creates
  found,        \* run -> rolesToAssign
  excused       \* run -> whether, since it began, it met a fault or anything was
                \* created (history)

keycloak == <<made, granted>>
vars == <<keycloak, faults, place, thing, found, excused>>

\* The realm is 1, the client 2, the roles follow in their order, the user is last.
Realm == 1
Client == 2
Roles == 3 .. NumRoles + 2
User == NumRoles + 3
Things == Realm .. User

\* The exit codes: "zero", and "one" for a run that threw or was killed.
Places == {"idle", "token", "check", "create", "look", "list", "assign", "zero", "one"}

Running == Places \ {"idle", "zero", "one"}

\* Keycloak has only what the script creates, and every run is at some thing.
TypeOK ==
  /\ made \in SUBSET Things
  /\ granted \in SUBSET Roles
  /\ faults \in 0 .. MaxFaults
  /\ place \in [Runs -> Places]
  /\ thing \in [Runs -> Things]
  /\ found \in [Runs -> SUBSET Roles]
  /\ excused \in [Runs -> BOOLEAN]

Init ==
  /\ made = {}
  /\ granted = {}
  /\ faults = 0
  /\ place = [r \in Runs |-> "idle"]
  /\ thing = [r \in Runs |-> Realm]
  /\ found = [r \in Runs |-> {}]
  /\ excused = [r \in Runs |-> FALSE]

Goto(r, where) == place' = [place EXCEPT ![r] = where]

\* The script starts.
Start(r) ==
  /\ Goto(r, "token")
  /\ thing' = [thing EXCEPT ![r] = Realm]
  /\ found' = [found EXCEPT ![r] = {}]
  /\ excused' = [excused EXCEPT ![r] = FALSE]
  /\ UNCHANGED <<keycloak, faults>>

\* It is run until it exits with 0, and may be run again after that.
Begin(r) == place[r] \in {"idle", "one"} /\ Start(r)

BeginAgain(r) == place[r] = "zero" /\ Start(r)

\* The admin token arrives.
Token(r) ==
  /\ place[r] = "token"
  /\ Goto(r, "check")
  /\ UNCHANGED <<keycloak, faults, thing, found, excused>>

\* Mutant: the user is left out.
AdvanceToUser(r) ==
  IF thing[r] + 1 < User
  THEN Goto(r, "check") /\ thing' = [thing EXCEPT ![r] = @ + 1]
  ELSE Goto(r, "list") /\ UNCHANGED thing

\* Mutant: one thing too many.
AdvancePastUser(r) ==
  IF thing[r] <= User
  THEN Goto(r, "check") /\ thing' = [thing EXCEPT ![r] = @ + 1]
  ELSE Goto(r, "list") /\ UNCHANGED thing

\* On to the next thing; after the user, to the list of roles.
Advance(r) ==
  IF thing[r] < User
  THEN Goto(r, "check") /\ thing' = [thing EXCEPT ![r] = @ + 1]
  ELSE Goto(r, "list") /\ UNCHANGED thing

\* Mutant: a thing is created without looking for it.
CheckNothing(r) ==
  /\ place[r] = "check"
  /\ Goto(r, "create")
  /\ UNCHANGED <<keycloak, faults, thing, found, excused>>

\* A thing that is there is left alone.
Check(r) ==
  /\ place[r] = "check"
  /\ IF thing[r] \in made THEN Advance(r) ELSE Goto(r, "create") /\ UNCHANGED thing
  /\ UNCHANGED <<keycloak, faults, found, excused>>

\* The client and the user are looked for again, for their identifiers.
AfterCreation(r) == IF thing[r] \in {Client, User} THEN Goto(r, "look") /\ UNCHANGED thing ELSE Advance(r)

\* Keycloak creates the thing of run r: what every run under way saw is out of date.
Made(r) ==
  /\ thing[r] \notin made
  /\ made' = made \cup {thing[r]}
  /\ excused' = [q \in Runs |-> excused[q] \/ place[q] \in Running]
  /\ UNCHANGED granted

\* The thing is created and the answer has a body.
Create(r) ==
  /\ place[r] = "create"
  /\ Made(r)
  /\ AfterCreation(r)
  /\ UNCHANGED <<faults, found>>

\* The thing is created and the answer has none: res.json() throws.
CreateUnread(r) ==
  /\ place[r] = "create"
  /\ Made(r)
  /\ Goto(r, "one")
  /\ UNCHANGED <<faults, thing, found>>

\* Another run has created it since: 409.
Conflict(r) ==
  /\ place[r] = "create"
  /\ thing[r] \in made
  /\ Goto(r, "one")
  /\ UNCHANGED <<keycloak, faults, thing, found, excused>>

\* The client or the user is looked for again.
Look(r) ==
  /\ place[r] = "look"
  /\ IF thing[r] \in made THEN Advance(r) ELSE Goto(r, "one") /\ UNCHANGED thing
  /\ UNCHANGED <<keycloak, faults, found, excused>>

\* Mutant: roles that exist already in Keycloak are not listed for the user.
ListMissing(r) ==
  /\ place[r] = "list"
  /\ found' = [found EXCEPT ![r] = Roles \ made]
  /\ Goto(r, IF found'[r] = {} THEN "zero" ELSE "assign")
  /\ UNCHANGED <<keycloak, faults, thing, excused>>

\* The roles of the realm that are in the script's list.
List(r) ==
  /\ place[r] = "list"
  /\ found' = [found EXCEPT ![r] = Roles \cap made]
  /\ Goto(r, IF found'[r] = {} THEN "zero" ELSE "assign")
  /\ UNCHANGED <<keycloak, faults, thing, excused>>

\* The roles are assigned: 204, which has no body to parse.
Assign(r) ==
  /\ place[r] = "assign"
  /\ granted' = granted \cup found[r]
  /\ Goto(r, "zero")
  /\ UNCHANGED <<made, faults, thing, found, excused>>

\* A request fails or the run is killed: the request that was under way may have been
\* carried out.
Fault(r) ==
  /\ place[r] \in Running
  /\ faults < MaxFaults
  /\ faults' = faults + 1
  /\ Goto(r, "one")
  /\ \/ excused' = [excused EXCEPT ![r] = TRUE] /\ UNCHANGED keycloak
     \/ place[r] = "create" /\ Made(r)
     \/ /\ place[r] = "assign"
        /\ granted' = granted \cup found[r]
        /\ excused' = [excused EXCEPT ![r] = TRUE]
        /\ UNCHANGED made
  /\ UNCHANGED <<thing, found>>

\* A request is answered.
Answered(r) ==
  \/ Token(r)
  \/ Check(r)
  \/ Create(r)
  \/ CreateUnread(r)
  \/ Conflict(r)
  \/ Look(r)
  \/ List(r)
  \/ Assign(r)

Next == \E r \in Runs : Begin(r) \/ BeginAgain(r) \/ Answered(r) \/ Fault(r)

Spec == Init /\ [][Next]_vars

\* Keycloak answers, and a run that failed is started again.
FairSpec == Spec /\ \A r \in Runs : WF_vars(Begin(r)) /\ WF_vars(Answered(r))

-----------------------------------------------------------------------------
(* Properties *)

Complete == made = Things /\ granted = Roles

\* Exit code 0 can be trusted: the realm, the client, every role and the user exist and
\* the user has every role, whatever earlier and overlapping runs left half done.
CompleteOnSuccess == \A r \in Runs : place[r] = "zero" => Complete

\* The script is idempotent: a run fails only if it met a fault or something was created
\* since it began, by itself or by another run.  So a run that begins when all is there
\* succeeds, and without faults the runs that fail are at most the things to create,
\* for each run under way at the same time.
FailsForAReason == \A r \in Runs : place[r] = "one" => excused[r]

\* A run that is started again until it succeeds does succeed, also with a Keycloak that
\* answers every creation without a body.
Converges == \A r \in Runs : place[r] \in Running ~> place[r] = "zero"
=============================================================================
