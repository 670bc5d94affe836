-------------------------- MODULE InMemoryRegistry --------------------------
(***************************************************************************)
(* InMemoryRegistryAdapter: the registry of a gateway that has no Redis.   *)
(* No method awaits anything, so each runs to its end in one turn of the   *)
(* event loop and is one action here.                                      *)
(***************************************************************************)
EXTENDS Integers

CONSTANTS
  Agents,        \* agent ids (card issuers)
  Expiries,      \* the expiresAt instants of the cards that are presented
  MaxRegistrations, \* bound on the registrations accepted in a run
  MaxTime,       \* bound on the clock
  None           \* Map.get of an absent key

ASSUME BoundsAssumption ==
  /\ MaxRegistrations \in Nat /\ MaxTime \in Nat /\ Expiries \subseteq Nat

VARIABLES
  clock,         \* Date.now()
  registry,      \* the adapter's Map
  registrations, \* registrations accepted so far: the next one's endpoint is new
  answer         \* <<entry or None>> while a resolve returns to its caller

vars == <<clock, registry, registrations, answer>>

Endpoints == 1 .. MaxRegistrations

Entry == [endpoint : Endpoints, expiresAt : Nat, registeredAt : Nat, lastHeartbeat : Nat]

\* Entries are whole and the bounds are kept.
TypeOK ==
  /\ clock \in 0 .. MaxTime
  /\ registrations \in 0 .. MaxRegistrations
  /\ registry \in [Agents -> Entry \cup {None}]
  /\ answer = <<>> \/ (DOMAIN answer = {1} /\ answer[1] \in Entry \cup {None})

Init ==
  /\ clock = 0
  /\ registry = [a \in Agents |-> None]
  /\ registrations = 0
  /\ answer = <<>>

\* Mutant: registeredAt is taken from the existing entry, null or not.
RegisterUnguarded(a, expiresAt) ==
  /\ registrations < MaxRegistrations
  /\ expiresAt > clock
  /\ registrations' = registrations + 1
  /\ registry' = [registry EXCEPT ![a] =
       [endpoint |-> registrations + 1, expiresAt |-> expiresAt, lastHeartbeat |-> clock,
        registeredAt |-> IF registry[a] = None THEN None ELSE registry[a].registeredAt]]
  /\ UNCHANGED <<clock, answer>>

\* register(): an expired card is rejected and nothing changes.
Register(a, expiresAt) ==
  /\ registrations < MaxRegistrations
  /\ expiresAt > clock
  /\ registrations' = registrations + 1
  /\ registry' = [registry EXCEPT ![a] =
       [endpoint |-> registrations + 1, expiresAt |-> expiresAt, lastHeartbeat |-> clock,
        registeredAt |-> IF registry[a] = None THEN clock ELSE registry[a].registeredAt]]
  /\ UNCHANGED <<clock, answer>>

ResolveAbsent(a) ==
  /\ answer = <<>>
  /\ registry[a] = None
  /\ answer' = <<None>>
  /\ UNCHANGED <<clock, registry, registrations>>

\* Mutant: the answer is the entry as it was, although the refreshed one is stored.
ResolvePresentStale(a) ==
  /\ answer = <<>>
  /\ registry[a] # None
  /\ registry' = [registry EXCEPT ![a] = [@ EXCEPT !.lastHeartbeat = clock]]
  /\ answer' = <<registry[a]>>
  /\ UNCHANGED <<clock, registrations>>

\* A resolve that finds the agent also stores the refreshed heartbeat.
ResolvePresent(a) ==
  /\ answer = <<>>
  /\ registry[a] # None
  /\ registry' = [registry EXCEPT ![a] = [@ EXCEPT !.lastHeartbeat = clock]]
  /\ answer' = <<registry'[a]>>
  /\ UNCHANGED <<clock, registrations>>

\* The awaiting caller takes the answer before another request is served.
Return ==
  /\ answer # <<>>
  /\ answer' = <<>>
  /\ UNCHANGED <<clock, registry, registrations>>

Deregister(a) ==
  /\ registry' = [registry EXCEPT ![a] = None]
  /\ UNCHANGED <<clock, registrations, answer>>

Tick ==
  /\ clock < MaxTime
  /\ clock' = clock + 1
  /\ UNCHANGED <<registry, registrations, answer>>

Next ==
  \/ Tick
  \/ Return
  \/ \E a \in Agents :
       \/ \E expiresAt \in Expiries : Register(a, expiresAt)
       \/ ResolveAbsent(a)
       \/ ResolvePresent(a)
       \/ Deregister(a)

Spec == Init /\ [][Next]_vars

-----------------------------------------------------------------------------
Port == INSTANCE RegistryPort WITH Slack <- 0, Loss <- 0, Period <- 1

\* The in-memory adapter (in-memory-registry-adapter.ts) implements the
\* registry port: duplicates keep registeredAt, resolve returns what was last
\* registered and not deregistered, refreshed to the clock.
ImplementsPort == Port!Spec
=============================================================================
