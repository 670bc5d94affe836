---------------------- MODULE KeycloakBootstrap_proofs ----------------------
(***************************************************************************)
(* What KeycloakBootstrap promises, for any number of runs, roles and      *)
(* faults.                                                                 *)
(***************************************************************************)
EXTENDS KeycloakBootstrap, TLAPS

\* What run r has passed is there; a run that would meet a conflict is excused.
Fine(r) ==
  /\ place[r] = "token" => thing[r] = Realm
  /\ place[r] \in {"check", "create", "look"} => \A t \in Things : t < thing[r] => t \in made
  /\ place[r] = "create" /\ thing[r] \in made => excused[r]
  /\ place[r] = "look" => thing[r] \in made
  /\ place[r] \in {"list", "assign"} => made = Things
  /\ place[r] = "assign" => found[r] = Roles
  /\ place[r] = "zero" => Complete
  /\ place[r] = "one" => excused[r]

IInv == TypeOK /\ \A r \in Runs : Fine(r)

LEMMA ThingsKnown ==
  /\ Things \subseteq Int
  /\ Roles \subseteq Things
  /\ Realm \in Things /\ Client \in Things /\ User \in Things
  /\ \A t \in Things : t < User => t + 1 \in Things
  /\ \A t \in Things : t <= User /\ Realm <= t
BY ConstantsAssumption DEF Things, Roles, Realm, Client, User

LEMMA InitFine == Init => IInv
BY ThingsKnown, ConstantsAssumption DEF Init, IInv, TypeOK, Fine, Places

\* The step to the next thing leaves run r typed and, if its thing is there, fine.
LEMMA AdvanceFine ==
  ASSUME TypeOK, NEW r \in Runs, Advance(r), thing[r] \in made',
         \A t \in Things : t < thing[r] => t \in made,
         TypeOK', made \subseteq made'
  PROVE  Fine(r)'
<1> USE DEF TypeOK, Goto
<1>1. CASE thing[r] < User
  <2>1. place'[r] = "check" /\ thing'[r] = thing[r] + 1
    BY <1>1, ThingsKnown DEF Advance
  <2>2. \A t \in Things : t < thing[r] + 1 => t \in made'
    <3>1. thing[r] \in Int /\ \A t \in Things : t \in Int
      BY ThingsKnown
    <3>2. \A t \in Things : t < thing[r] + 1 => t < thing[r] \/ t = thing[r]
      BY <3>1
    <3> QED
      BY <3>2
  <2> QED
    BY <2>1, <2>2 DEF Fine
<1>2. CASE ~(thing[r] < User)
  <2>1. place'[r] = "list"
    BY <1>2 DEF Advance
  <2>2. made' = Things
    <3>1. thing[r] = User
      <4>1. thing[r] \in Int /\ User \in Int /\ thing[r] <= User
        BY ThingsKnown
      <4> QED
        BY <4>1, <1>2
    <3>2. \A t \in Things : t < User \/ t = User
      <4>1. User \in Int /\ \A t \in Things : t \in Int /\ t <= User
        BY ThingsKnown
      <4> QED
        BY <4>1
    <3> QED
      BY <3>1, <3>2
  <2> QED
    BY <2>1, <2>2 DEF Fine
<1> QED
  BY <1>1, <1>2

LEMMA TypedStep == TypeOK /\ [Next]_vars => TypeOK'
<1> SUFFICES ASSUME TypeOK, [Next]_vars PROVE TypeOK'
  OBVIOUS
<1> USE DEF TypeOK, Goto, keycloak
<1>a. /\ \A p \in {"token", "check", "create", "look", "list", "assign", "zero", "one"} : p \in Places
      /\ MaxFaults \in Nat
  BY ConstantsAssumption DEF Places
<1>1. ASSUME NEW r \in Runs, Advance(r)
      PROVE  place' \in [Runs -> Places] /\ thing' \in [Runs -> Things]
  BY <1>1, <1>a, ThingsKnown DEF Advance
<1>2. ASSUME NEW r \in Runs, Made(r)
      PROVE  made' \in SUBSET Things /\ excused' \in [Runs -> BOOLEAN]
  BY <1>2 DEF Made
<1>3. ASSUME NEW r \in Runs, Begin(r) \/ BeginAgain(r) PROVE TypeOK'
  BY <1>3, <1>a, ThingsKnown DEF Begin, BeginAgain, Start
<1>4. ASSUME NEW r \in Runs, Answered(r) PROVE TypeOK'
  <2>1. CASE Token(r) \/ Conflict(r)
    BY <2>1, <1>a DEF Token, Conflict
  <2>2. CASE Check(r) \/ Look(r)
    BY <2>2, <1>a, <1>1 DEF Check, Look
  <2>3. CASE Create(r)
    <3>1. place' \in [Runs -> Places] /\ thing' \in [Runs -> Things]
      BY <2>3, <1>1, <1>a DEF Create, AfterCreation
    <3>2. granted' = granted /\ faults' = faults /\ found' = found
      BY <2>3 DEF Create, Made
    <3> QED
      BY <2>3, <1>2, <3>1, <3>2 DEF Create
  <2>4. CASE CreateUnread(r)
    <3>1. granted' = granted /\ faults' = faults /\ found' = found /\ thing' = thing
      BY <2>4 DEF CreateUnread, Made
    <3>2. place' \in [Runs -> Places]
      BY <2>4, <1>a DEF CreateUnread
    <3> QED
      BY <2>4, <1>2, <3>1, <3>2 DEF CreateUnread
  <2>5. CASE List(r)
    BY <2>5, <1>a DEF List
  <2>6. CASE Assign(r)
    BY <2>6, <1>a DEF Assign
  <2> QED
    BY <1>4, <2>1, <2>2, <2>3, <2>4, <2>5, <2>6 DEF Answered
<1>5. ASSUME NEW r \in Runs, Fault(r) PROVE TypeOK'
  <2>1. faults' \in 0 .. MaxFaults /\ place' \in [Runs -> Places] /\ UNCHANGED <<thing, found>>
    BY <1>5, <1>a DEF Fault
  <2>2. made' \in SUBSET Things /\ excused' \in [Runs -> BOOLEAN] /\ granted' \in SUBSET Roles
    <3>1. CASE Made(r)
      BY <3>1, <1>2 DEF Made
    <3>2. CASE ~Made(r)
      BY <3>2, <1>5 DEF Fault
    <3> QED
      BY <3>1, <3>2
  <2> QED
    BY <2>1, <2>2
<1>6. CASE UNCHANGED vars
  BY <1>6 DEF vars
<1> QED
  BY <1>3, <1>4, <1>5, <1>6 DEF Next

\* What a step of run r leaves of the others: they stay where they are, nothing is
\* lost, and whoever might meet a conflict is excused.
LEMMA Others ==
  ASSUME TypeOK, NEW r \in Runs, Begin(r) \/ BeginAgain(r) \/ Answered(r) \/ Fault(r)
  PROVE  /\ made \subseteq made' /\ granted \subseteq granted'
         /\ \A q \in Runs \ {r} :
              /\ place'[q] = place[q] /\ thing'[q] = thing[q] /\ found'[q] = found[q]
              /\ excused[q] => excused'[q]
              /\ made' # made /\ place[q] \in Running => excused'[q]
<1> USE DEF TypeOK, Goto, keycloak
<1>1. CASE Begin(r) \/ BeginAgain(r)
  BY <1>1 DEF Begin, BeginAgain, Start
<1>2. CASE Token(r) \/ Conflict(r) \/ List(r) \/ Assign(r)
  BY <1>2 DEF Token, Conflict, List, Assign
<1>3. CASE Check(r) \/ Look(r)
  BY <1>3 DEF Check, Look, Advance
<1>4. CASE Create(r)
  BY <1>4 DEF Create, AfterCreation, Advance, Made
<1>5. CASE CreateUnread(r)
  BY <1>5 DEF CreateUnread, Made
<1>6. CASE Fault(r)
  BY <1>6 DEF Fault, Made
<1> QED
  BY <1>1, <1>2, <1>3, <1>4, <1>5, <1>6 DEF Answered

LEMMA OthersFine ==
  ASSUME IInv, TypeOK', NEW r \in Runs, NEW q \in Runs \ {r},
         Begin(r) \/ BeginAgain(r) \/ Answered(r) \/ Fault(r)
  PROVE  Fine(q)'
<1> TypeOK /\ Fine(q)
  BY DEF IInv
<1>1. /\ made \subseteq made' /\ granted \subseteq granted'
      /\ place'[q] = place[q] /\ thing'[q] = thing[q] /\ found'[q] = found[q]
      /\ excused[q] => excused'[q]
      /\ made' # made /\ place[q] \in Running => excused'[q]
  BY Others
<1>2. made' \subseteq Things /\ granted' \subseteq Roles
  BY DEF TypeOK
<1>3. place[q] = "create" => place[q] \in Running
  BY DEF Running, Places
<1> QED
  BY <1>1, <1>2, <1>3 DEF Fine, Complete

LEMMA OwnFine ==
  ASSUME IInv, TypeOK', NEW r \in Runs, Begin(r) \/ BeginAgain(r) \/ Answered(r) \/ Fault(r)
  PROVE  Fine(r)'
<1> TypeOK /\ Fine(r)
  BY DEF IInv
<1> USE DEF TypeOK, Goto, keycloak
<1>1. CASE Begin(r) \/ BeginAgain(r)
  BY <1>1 DEF Begin, BeginAgain, Start, Fine
<1>2. CASE Token(r)
  <2>1. place'[r] = "check" /\ thing'[r] = Realm
    BY <1>2 DEF Token, Fine
  <2>2. \A t \in Things : ~(t < Realm)
    BY DEF Things, Realm
  <2> QED
    BY <2>1, <2>2 DEF Fine
<1>3. CASE Check(r)
  <2>1. CASE thing[r] \in made
    BY <1>3, <2>1, AdvanceFine DEF Check, Fine
  <2>2. CASE thing[r] \notin made
    BY <1>3, <2>2 DEF Check, Fine
  <2> QED
    BY <2>1, <2>2
<1>4. CASE Create(r)
  <2>1. made' = made \cup {thing[r]} /\ place[r] = "create"
    BY <1>4 DEF Create, Made
  <2>2. CASE thing[r] \in {Client, User}
    BY <1>4, <2>1, <2>2 DEF Create, AfterCreation, Fine
  <2>3. CASE thing[r] \notin {Client, User}
    <3>1. Advance(r)
      BY <1>4, <2>3 DEF Create, AfterCreation
    <3>2. \A t \in Things : t < thing[r] => t \in made
      BY <2>1 DEF Fine
    <3> QED
      BY <3>1, <3>2, <2>1, AdvanceFine
  <2> QED
    BY <2>2, <2>3
<1>5. CASE CreateUnread(r)
  <2>1. place'[r] = "one" /\ excused'[r]
    BY <1>5 DEF CreateUnread, Made, Running, Places
  <2> QED
    BY <2>1 DEF Fine
<1>6. CASE Conflict(r)
  BY <1>6 DEF Conflict, Fine
<1>7. CASE Look(r)
  <2>1. place[r] = "look" /\ made' = made
    BY <1>7 DEF Look
  <2>2. thing[r] \in made
    BY <2>1 DEF Fine
  <2>3. Advance(r)
    BY <1>7, <2>2 DEF Look
  <2> QED
    BY <2>1, <2>2, <2>3, AdvanceFine DEF Fine
<1>8. CASE List(r)
  <2>1. made' = Things /\ made = Things
    BY <1>8 DEF List, Fine
  <2>2. found'[r] = Roles
    BY <1>8, <2>1, ThingsKnown DEF List
  <2>3. place'[r] = IF Roles = {} THEN "zero" ELSE "assign"
    BY <1>8, <2>2 DEF List
  <2>4. granted' \subseteq Roles
    OBVIOUS
  <2> QED
    BY <2>1, <2>2, <2>3, <2>4 DEF Fine, Complete
<1>9. CASE Assign(r)
  <2>1. made' = Things /\ found[r] = Roles
    BY <1>9 DEF Assign, Fine
  <2>2. granted' = Roles /\ place'[r] = "zero"
    BY <1>9, <2>1 DEF Assign
  <2> QED
    BY <2>1, <2>2 DEF Fine, Complete
<1>10. CASE Fault(r)
  <2>1. place'[r] = "one" /\ excused'[r]
    BY <1>10 DEF Fault, Made
  <2> QED
    BY <2>1 DEF Fine
<1> QED
  BY <1>1, <1>2, <1>3, <1>4, <1>5, <1>6, <1>7, <1>8, <1>9, <1>10 DEF Answered

\* Exit code 0 and exit code 1 mean what they should, whatever the other runs do.
THEOREM Invariant == Spec => []IInv
<1>1. Init => IInv
  BY InitFine
<1>2. IInv /\ [Next]_vars => IInv'
  <2> SUFFICES ASSUME IInv, [Next]_vars PROVE IInv'
    OBVIOUS
  <2>1. TypeOK'
    BY TypedStep DEF IInv
  <2>2. ASSUME NEW r \in Runs, Begin(r) \/ BeginAgain(r) \/ Answered(r) \/ Fault(r)
        PROVE  \A q \in Runs : Fine(q)'
    BY <2>1, <2>2, OthersFine, OwnFine
  <2>3. ASSUME UNCHANGED vars, NEW q \in Runs PROVE Fine(q)'
    <3>1. Fine(q)
      BY DEF IInv
    <3> QED
      BY <2>3, <3>1 DEF vars, keycloak, Fine, Complete
  <2> QED
    BY <2>1, <2>2, <2>3 DEF Next, IInv
<1> QED
  BY <1>1, <1>2, PTL DEF Spec

\* Every run is somewhere on its way and Keycloak has only what the script creates.
THEOREM TypeCorrect == Spec => []TypeOK
<1>1. IInv => TypeOK
  BY DEF IInv
<1> QED
  BY <1>1, Invariant, PTL

\* A run that exits with 0 leaves everything in place.
THEOREM CompleteOnSuccessAlways == Spec => []CompleteOnSuccess
<1>1. IInv => CompleteOnSuccess
  BY DEF IInv, Fine, CompleteOnSuccess
<1> QED
  BY <1>1, Invariant, PTL

\* A run fails only because of a fault or of a creation since it began.
THEOREM FailsForAReasonAlways == Spec => []FailsForAReason
<1>1. IInv => FailsForAReason
  BY DEF IInv, Fine, FailsForAReason
<1> QED
  BY <1>1, Invariant, PTL
=============================================================================
