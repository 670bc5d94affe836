---------------------------- MODULE RegistryPort ----------------------------
(***************************************************************************)
(* What the gateway's use cases may assume of an IRegistryPort: a map from *)
(* agent ids to entries on which register, resolve and deregister take     *)
(* effect at one instant each.  InMemoryRegistry implements it outright;   *)
(* RedisRegistry implements it as long as one instance makes one call at a *)
(* time and Redis answers.                                                 *)
(*                                                                         *)
(* A registration is named by a number of its own: it stands for the       *)
(* endpoint and the card that the agent announced with it.                 *)
(***************************************************************************)
EXTENDS Integers

CONSTANTS
  Agents,       \* agent ids (card issuers)
  Endpoints,    \* what tells one registration from another
  Expiries,     \* the expiresAt instants of the cards
  Slack,        \* how long before its card's expiry an entry may lapse
  Loss, Period, \* and how much longer for every Period its heartbeats span
  MaxTime,      \* bound on the clock
  None          \* no entry

VARIABLES
  clock,        \* Date.now()
  registry,     \* agent id -> entry or None
  answer        \* what a resolve is handing to its caller, <<>> if none

vars == <<clock, registry, answer>>

\* The entry a registration accepted at instant `now` leaves: a duplicate
\* keeps the registeredAt of the entry it replaces.
Registered(a, endpoint, expiresAt, now) ==
  [endpoint |-> endpoint, expiresAt |-> expiresAt, lastHeartbeat |-> now,
   registeredAt |-> IF registry[a] = None THEN now ELSE registry[a].registeredAt]

\* The entry with its heartbeat brought up to the clock.
Touched(a) == [registry[a] EXCEPT !.lastHeartbeat = clock]

Init ==
  /\ clock = 0
  /\ registry = [a \in Agents |-> None]
  /\ answer = <<>>

\* The card was alive when the registration was accepted.
Register(a) ==
  /\ \E endpoint \in Endpoints, expiresAt \in Expiries, now \in 0 .. clock :
       /\ expiresAt > now
       /\ registry' = [registry EXCEPT ![a] = Registered(a, endpoint, expiresAt, now)]
  /\ UNCHANGED <<clock, answer>>

\* A lookup is a heartbeat, though not every lookup is recorded as one.
Heartbeat(a) ==
  /\ registry[a] # None
  /\ registry' = [registry EXCEPT ![a] = Touched(a)]
  /\ UNCHANGED <<clock, answer>>

Resolve(a) ==
  /\ answer = <<>>
  /\ registry' \in {registry} \cup
       (IF registry[a] = None THEN {} ELSE {[registry EXCEPT ![a] = Touched(a)]})
  /\ answer' = <<registry'[a]>>
  /\ UNCHANGED clock

Return ==
  /\ answer # <<>>
  /\ answer' = <<>>
  /\ UNCHANGED <<clock, registry>>

Deregister(a) ==
  /\ registry' = [registry EXCEPT ![a] = None]
  /\ UNCHANGED <<clock, answer>>

\* How many heartbeats, a Period or more apart, an entry can have had.
Beats(entry) == (entry.lastHeartbeat - entry.registeredAt) \div Period

\* An entry that is gone after instant `end` has not lapsed too early.
MayEnd(entry, end) == end >= entry.expiresAt - Slack - Loss * Beats(entry)

\* Entries whose card has expired, or is about to, may lapse as time passes.
Lapsable == {a \in Agents : registry[a] # None /\ MayEnd(registry[a], clock)}

Tick ==
  /\ clock < MaxTime
  /\ clock' = clock + 1
  /\ \E lapsed \in SUBSET Lapsable :
       registry' = [a \in Agents |-> IF a \in lapsed THEN None ELSE registry[a]]
  /\ UNCHANGED answer

Next ==
  \/ Tick
  \/ Return
  \/ \E a \in Agents : Register(a) \/ Heartbeat(a) \/ Resolve(a) \/ Deregister(a)

Spec == Init /\ [][Next]_vars
=============================================================================
