----------------------- MODULE InMemoryRegistry_proofs -----------------------
(***************************************************************************)
(* The in-memory adapter implements the registry port, for any agents,     *)
(* expiries and bounds.                                                    *)
(***************************************************************************)
EXTENDS InMemoryRegistry, TLAPS

\* Storing the refreshed heartbeat keeps an entry whole.
LEMMA TouchedEntry ==
  ASSUME NEW entry \in Entry, NEW now \in Nat
  PROVE  [entry EXCEPT !.lastHeartbeat = now] \in Entry
BY DEF Entry

LEMMA TypedStep == TypeOK /\ [Next]_vars => TypeOK'
<1> SUFFICES ASSUME TypeOK, [Next]_vars PROVE TypeOK'
  OBVIOUS
<1> USE BoundsAssumption
<1>0. clock \in Nat
  BY DEF TypeOK
<1>1. CASE Tick
  BY <1>1 DEF Tick, TypeOK
<1>2. CASE Return
  BY <1>2 DEF Return, TypeOK
<1>3. ASSUME NEW a \in Agents, NEW expiresAt \in Expiries, Register(a, expiresAt) PROVE TypeOK'
  <2> DEFINE entry == [endpoint |-> registrations + 1, expiresAt |-> expiresAt, lastHeartbeat |-> clock,
                       registeredAt |-> IF registry[a] = None THEN clock ELSE registry[a].registeredAt]
  <2>1. entry \in Entry
    <3>1. registrations + 1 \in Endpoints
      BY <1>3 DEF Register, TypeOK, Endpoints
    <3>2. registry[a] # None => registry[a].registeredAt \in Nat
      BY DEF TypeOK, Entry
    <3> QED
      BY <1>0, <3>1, <3>2 DEF Entry
  <2>2. registry' = [registry EXCEPT ![a] = entry]
    BY <1>3 DEF Register
  <2> HIDE DEF entry
  <2> QED
    BY <1>3, <2>1, <2>2 DEF Register, TypeOK
<1>4. ASSUME NEW a \in Agents, ResolveAbsent(a) PROVE TypeOK'
  BY <1>4 DEF ResolveAbsent, TypeOK
<1>5. ASSUME NEW a \in Agents, ResolvePresent(a) PROVE TypeOK'
  <2> DEFINE entry == [registry[a] EXCEPT !.lastHeartbeat = clock]
  <2>1. entry \in Entry
    BY <1>0, <1>5, TouchedEntry DEF ResolvePresent, TypeOK
  <2>2. registry' = [registry EXCEPT ![a] = entry]
    BY <1>5 DEF ResolvePresent
  <2>3. answer' = <<registry'[a]>> /\ UNCHANGED <<clock, registrations>>
    BY <1>5 DEF ResolvePresent
  <2> HIDE DEF entry
  <2> QED
    BY <2>1, <2>2, <2>3 DEF TypeOK
<1>6. ASSUME NEW a \in Agents, Deregister(a) PROVE TypeOK'
  BY <1>6 DEF Deregister, TypeOK
<1>7. CASE UNCHANGED vars
  BY <1>7 DEF vars, TypeOK
<1> QED
  BY <1>1, <1>2, <1>3, <1>4, <1>5, <1>6, <1>7 DEF Next

\* Entries are whole and the bounds are kept.
THEOREM TypeCorrect == Spec => []TypeOK
<1>1. Init => TypeOK
  BY BoundsAssumption DEF Init, TypeOK
<1> QED
  BY <1>1, TypedStep, PTL DEF Spec

\* Every step of the adapter is one of the port: an entry may outlive its card, a
\* duplicate keeps registeredAt, and a lookup answers with the heartbeat it stored.
LEMMA StepOfPort == ASSUME TypeOK, [Next]_vars PROVE [Port!Next]_Port!vars
<1> USE DEF Port!vars, Port!Next
<1>1. CASE Tick
  <2>1. registry' = [a \in Agents |-> IF a \in {} THEN None ELSE registry[a]]
    BY <1>1 DEF Tick, TypeOK
  <2>2. {} \in SUBSET Port!Lapsable
    OBVIOUS
  <2>3. Port!Tick
    BY <1>1, <2>1, <2>2 DEF Tick, Port!Tick
  <2> QED
    BY <2>3
<1>2. CASE Return
  BY <1>2 DEF Return, Port!Return
<1>3. ASSUME NEW a \in Agents, NEW expiresAt \in Expiries, Register(a, expiresAt) PROVE Port!Register(a)
  <2>1. registrations + 1 \in Endpoints /\ clock \in 0 .. clock
    BY <1>3, BoundsAssumption DEF Register, TypeOK, Endpoints
  <2>2. registry' = [registry EXCEPT ![a] = Port!Registered(a, registrations + 1, expiresAt, clock)]
    BY <1>3 DEF Register, Port!Registered
  <2> QED
    BY <1>3, <2>1, <2>2 DEF Register, Port!Register
<1>4. ASSUME NEW a \in Agents, ResolveAbsent(a) PROVE Port!Resolve(a)
  BY <1>4 DEF ResolveAbsent, Port!Resolve
<1>5. ASSUME NEW a \in Agents, ResolvePresent(a) PROVE Port!Resolve(a)
  BY <1>5 DEF ResolvePresent, Port!Resolve, Port!Touched
<1>6. ASSUME NEW a \in Agents, Deregister(a) PROVE Port!Deregister(a)
  BY <1>6 DEF Deregister, Port!Deregister
<1>7. CASE UNCHANGED vars
  BY <1>7 DEF vars
<1> QED
  BY <1>1, <1>2, <1>3, <1>4, <1>5, <1>6, <1>7 DEF Next

\* The in-memory adapter implements the registry port: register, resolve and
\* deregister take effect at one instant each.
THEOREM InMemoryImplementsPort == Spec => ImplementsPort
<1>1. Init => Port!Init
  BY DEF Init, Port!Init
<1>2. TypeOK /\ [Next]_vars => [Port!Next]_Port!vars
  BY StepOfPort
<1> QED
  BY <1>1, <1>2, TypeCorrect, PTL DEF Spec, ImplementsPort, Port!Spec
=============================================================================
