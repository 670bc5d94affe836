--------------------------- MODULE RedisRegistry ---------------------------
(***************************************************************************)
(* RedisRegistryAdapter: the registry several gateway instances share.     *)
(* Each instance keeps a TtlCache in front of Redis.  A method runs from   *)
(* one await to the next in one turn of its event loop; every await is a   *)
(* Redis command, and calls of the same and of other instances interleave  *)
(* there.  A step that ends at an await whose reply only its own call uses *)
(* covers the command and the reply; SET and DEL are followed by a step of *)
(* their own, because the cache changes when their reply arrives.  The     *)
(* adapter has one connection, on which replies keep the order of the      *)
(* commands: an instance's next command waits for such a reply.            *)
(*                                                                         *)
(* An instant counts ticks, Second of them to a second.  The endpoint of a *)
(* registration is a number no other registration has: it stands for all   *)
(* the data an agent announces, and shows which registration an entry is   *)
(* from.  `past` in a call, and the last two variables, are history:     *)
(* the properties read them, the adapter does not have them.               *)
(***************************************************************************)
EXTENDS Integers

CONSTANTS
  Instances,     \* gateway processes
  Agents,        \* agent ids (card issuers)
  Calls,         \* adapter calls that can be in flight at once
  Expiries,      \* the expiresAt instants of the cards that are presented
  Second,        \* ticks in a second
  CacheTtl,      \* ticks an entry stays in a TtlCache
  MayFail,       \* whether commands can fail and instances can crash
  MaxRegistrations, \* bound on the registrations accepted in a run
  MaxTime,       \* bound on the clock
  None           \* null: no entry, no key

ASSUME ConstantsAssumption ==
  /\ Instances # {} /\ Agents # {}
  /\ Second \in Nat \ {0}
  /\ CacheTtl \in Nat
  /\ MaxTime \in Nat
  /\ MaxRegistrations \in Nat
  /\ Expiries \subseteq Nat
  /\ MayFail \in BOOLEAN

VARIABLES
  clock,         \* Date.now(), the same for every instance and for Redis
  store,         \* Redis: agent id -> None or the key's value and expiry
  cache,         \* instance -> agent id -> None or a cached entry and its expiry
  call,          \* the calls in flight
  registrations, \* registrations accepted so far: the next one's endpoint is new
  written,       \* agent id -> endpoints a register has set in Redis
  dropped        \* agent id -> endpoints written before the start of a deregister
                 \* that has returned

vars == <<clock, store, cache, call, registrations, written, dropped>>

Endpoints == 1 .. MaxRegistrations

Entry == [endpoint : Endpoints, expiresAt : Nat, registeredAt : Nat, lastHeartbeat : Nat]

\* A key of Redis with its time to live, or an entry of a cache with its own.
Timed == [entry : Entry, expiresAt : Int]

ASSUME NoneAssumption == None \notin Entry /\ None \notin Timed

\* A registration under way: the locals of register().
Registration == [endpoint : Endpoints, expiresAt : Nat, now : Nat, ttl : Int]

\* Where a call waits: for the reply of resolve's GET, TTL or SET, of register's
\* SET, of deregister's DEL; "return" is the hand-over of resolve's answer.
Places == {"idle", "get", "ttl", "set", "setReply", "return",
           "register", "registerReply", "del", "delReply"}

Call == [pc : Places, op : {"register", "resolve", "deregister"},
         instance : Instances, agent : Agents,
         reg : Registration \cup {None},  \* register only
         entry : Entry \cup {None},       \* the entry resolve found, or register sets
         ttl : Int,                       \* seconds, as resolve's TTL reported them
         past : SUBSET Endpoints]

\* Every entry, key, cached copy and call in flight is whole.
TypeOK ==
  /\ clock \in Nat
  /\ store \in [Agents -> Timed \cup {None}]
  /\ cache \in [Instances -> [Agents -> Timed \cup {None}]]
  /\ call \in [Calls -> Call]
  /\ registrations \in 0 .. MaxRegistrations
  /\ written \in [Agents -> SUBSET Endpoints]
  /\ dropped \in [Agents -> SUBSET Endpoints]

IdleCall == [pc |-> "idle", op |-> "resolve",
             instance |-> CHOOSE i \in Instances : TRUE, agent |-> CHOOSE a \in Agents : TRUE,
             reg |-> None, entry |-> None, ttl |-> 0, past |-> {}]

Init ==
  /\ clock = 0
  /\ store = [a \in Agents |-> None]
  /\ cache = [i \in Instances |-> [a \in Agents |-> None]]
  /\ call = [c \in Calls |-> IdleCall]
  /\ registrations = 0
  /\ written = [a \in Agents |-> {}]
  /\ dropped = [a \in Agents |-> {}]

-----------------------------------------------------------------------------
(* The pieces of the methods *)

\* What TtlCache.set and SET ... EX leave: the value and when it ends.
Until(entry, expiresAt) == [entry |-> entry, expiresAt |-> expiresAt]

\* TtlCache.get answers up to and including expiresAt.  An entry past it is
\* never seen again, so it leaves the model's cache as the clock passes it.
Expired(timed, now) == timed # None /\ now > timed.expiresAt

\* TTL in whole seconds, rounded to the nearest; -2 for an absent key.
KeyTtl(a) ==
  IF store[a] = None THEN -2 ELSE (store[a].expiresAt - clock + (Second \div 2)) \div Second

\* SET registry:<a> <entry> EX <ttl>.
SetKey(a, entry, ttl) == store' = [store EXCEPT ![a] = Until(entry, clock + ttl * Second)]

CacheEntry(i, a, entry) == cache' = [cache EXCEPT ![i][a] = Until(entry, clock + CacheTtl)]

Uncache(i, a) == cache' = [cache EXCEPT ![i][a] = None]

\* Mutant: registeredAt is taken from the existing entry, null or not.
NewEntryUnguarded(reg, existing) ==
  [endpoint |-> reg.endpoint, expiresAt |-> reg.expiresAt, lastHeartbeat |-> reg.now,
   registeredAt |-> IF existing = None THEN None ELSE existing.registeredAt]

\* The entry a register sets: a duplicate keeps the registeredAt of the entry
\* its own resolve found.
NewEntry(reg, existing) ==
  [endpoint |-> reg.endpoint, expiresAt |-> reg.expiresAt, lastHeartbeat |-> reg.now,
   registeredAt |-> IF existing = None THEN reg.now ELSE existing.registeredAt]

\* resolve's copy of the entry it read, with the heartbeat refreshed.
Touched(entry) == [endpoint |-> entry.endpoint, expiresAt |-> entry.expiresAt,
                   registeredAt |-> entry.registeredAt, lastHeartbeat |-> clock]

\* Call r gone on to another place, with that entry and time to live in hand.
Moved(r, place, entry, ttl) ==
  [pc |-> place, op |-> r.op, instance |-> r.instance, agent |-> r.agent,
   reg |-> r.reg, entry |-> entry, ttl |-> ttl, past |-> r.past]

\* What follows the resolve of call r with the entry it found, if any: the
\* answer to the caller, or the rest of register up to its SET.
Resolved(r, found) ==
  IF r.op = "register"
  THEN Moved(r, "register", NewEntry(r.reg, found), 0)
  ELSE Moved(r, "return", found, 0)

\* Mutant: a hit renews the cached copy.
BeginResolveSliding(r) ==
  IF cache[r.instance][r.agent] # None
  THEN Moved(r, "setReply", cache[r.instance][r.agent].entry, 0)
  ELSE r

\* A call of resolve or register: a cached entry is what resolve finds,
\* otherwise it sends GET.
BeginResolve(r) ==
  IF cache[r.instance][r.agent] # None
  THEN Resolved(r, cache[r.instance][r.agent].entry)
  ELSE r

Begin(place, op, i, a, reg, past) ==
  [pc |-> place, op |-> op, instance |-> i, agent |-> a,
   reg |-> reg, entry |-> None, ttl |-> 0, past |-> past]

At(c, place) == call[c].pc = place

\* Call c waits to send the command of `place`, and no reply to a SET or DEL of
\* its instance is on its way.
Sends(c, place) ==
  /\ call[c].pc = place
  /\ \A d \in Calls : call[d].pc \in {"setReply", "registerReply", "delReply"}
                        => call[d].instance # call[c].instance

Move(c, place, entry, ttl) == call' = [call EXCEPT ![c] = Moved(call[c], place, entry, ttl)]

Goto(c, place) == Move(c, place, call[c].entry, call[c].ttl)

End(c) == call' = [call EXCEPT ![c] = IdleCall]

-----------------------------------------------------------------------------
(* The calls *)

\* A card that has expired, or has less than a second to live, is rejected and
\* nothing changes.  The time to live is fixed here, before any command is sent.
StartRegister(c, i, a, expiresAt) ==
  LET ttl == (expiresAt - clock) \div Second
      reg == [endpoint |-> registrations + 1, expiresAt |-> expiresAt,
              now |-> clock, ttl |-> ttl]
  IN /\ At(c, "idle")
     /\ registrations < MaxRegistrations
     /\ expiresAt > clock
     /\ ttl > 0
     /\ registrations' = registrations + 1
     /\ call' = [call EXCEPT ![c] = BeginResolve(Begin("get", "register", i, a, reg, {}))]
     /\ UNCHANGED <<clock, store, cache, written, dropped>>

StartResolve(c, i, a) ==
  /\ At(c, "idle")
  /\ call' = [call EXCEPT ![c] = BeginResolve(Begin("get", "resolve", i, a, None, dropped[a]))]
  /\ UNCHANGED <<clock, store, cache, registrations, written, dropped>>

StartDeregister(c, i, a) ==
  /\ At(c, "idle")
  /\ call' = [call EXCEPT ![c] = Begin("del", "deregister", i, a, None, written[a])]
  /\ UNCHANGED <<clock, store, cache, registrations, written, dropped>>

\* GET finds no key: resolve returns null.
GetAbsent(c) ==
  /\ Sends(c, "get")
  /\ store[call[c].agent] = None
  /\ call' = [call EXCEPT ![c] = Resolved(call[c], None)]
  /\ UNCHANGED <<clock, store, cache, registrations, written, dropped>>

\* GET finds the entry; resolve refreshes its heartbeat in a copy.
GetPresent(c) ==
  /\ Sends(c, "get")
  /\ store[call[c].agent] # None
  /\ Move(c, "ttl", Touched(store[call[c].agent].entry), 0)
  /\ UNCHANGED <<clock, store, cache, registrations, written, dropped>>

\* A key with time left is written back; the copy is cached in either case.
Ttl(c) ==
  LET ttl == KeyTtl(call[c].agent)
  IN /\ Sends(c, "ttl")
     /\ Move(c, IF ttl > 0 THEN "set" ELSE "setReply", call[c].entry, ttl)
     /\ UNCHANGED <<clock, store, cache, registrations, written, dropped>>

Refresh(c) ==
  /\ Sends(c, "set")
  /\ SetKey(call[c].agent, call[c].entry, call[c].ttl)
  /\ Goto(c, "setReply")
  /\ UNCHANGED <<clock, cache, registrations, written, dropped>>

RefreshReply(c) ==
  /\ At(c, "setReply")
  /\ CacheEntry(call[c].instance, call[c].agent, call[c].entry)
  /\ call' = [call EXCEPT ![c] = Resolved(call[c], call[c].entry)]
  /\ UNCHANGED <<clock, store, registrations, written, dropped>>

ReturnAnswer(c) ==
  /\ At(c, "return")
  /\ End(c)
  /\ UNCHANGED <<clock, store, cache, registrations, written, dropped>>

SetRegistration(c) ==
  LET r == call[c]
  IN /\ Sends(c, "register")
     /\ SetKey(r.agent, r.entry, r.reg.ttl)
     /\ written' = [written EXCEPT ![r.agent] = @ \cup {r.entry.endpoint}]
     /\ Goto(c, "registerReply")
     /\ UNCHANGED <<clock, cache, registrations, dropped>>

RegisterReply(c) ==
  LET r == call[c]
  IN /\ At(c, "registerReply")
     /\ CacheEntry(r.instance, r.agent, r.entry)
     /\ End(c)
     /\ UNCHANGED <<clock, store, registrations, written, dropped>>

DeleteKey(c) ==
  /\ Sends(c, "del")
  /\ store' = [store EXCEPT ![call[c].agent] = None]
  /\ Goto(c, "delReply")
  /\ UNCHANGED <<clock, cache, registrations, written, dropped>>

\* Mutant: the cached copy is forgotten.
DeleteReplyCached(c) ==
  /\ At(c, "delReply")
  /\ dropped' = [dropped EXCEPT ![call[c].agent] = @ \cup call[c].past]
  /\ End(c)
  /\ UNCHANGED <<clock, store, cache, registrations, written>>

DeleteReply(c) ==
  LET r == call[c]
  IN /\ At(c, "delReply")
     /\ Uncache(r.instance, r.agent)
     /\ dropped' = [dropped EXCEPT ![r.agent] = @ \cup r.past]
     /\ End(c)
     /\ UNCHANGED <<clock, store, registrations, written>>

\* Mutant: the cache is filled in a finally block.
RedisErrorCaching(c) ==
  /\ MayFail
  /\ call[c].pc \notin {"idle", "return"}
  /\ IF call[c].pc = "register"
     THEN CacheEntry(call[c].instance, call[c].agent, call[c].entry)
     ELSE UNCHANGED cache
  /\ End(c)
  /\ UNCHANGED <<clock, store, registrations, written, dropped>>

\* A command is refused, or its reply is lost after Redis carried it out: the
\* call throws UapRegistryError and leaves the cache as it was.
RedisError(c) ==
  /\ MayFail
  /\ call[c].pc \notin {"idle", "return"}
  /\ End(c)
  /\ UNCHANGED <<clock, store, cache, registrations, written, dropped>>

\* The gateway process dies and starts again: its cache and its calls are gone.
Crash(i) ==
  /\ MayFail
  /\ cache' = [cache EXCEPT ![i] = [a \in Agents |-> None]]
  /\ call' = [c \in Calls |-> IF call[c].instance = i THEN IdleCall ELSE call[c]]
  /\ UNCHANGED <<clock, store, registrations, written, dropped>>

\* A tick: keys and cached entries whose time has passed are gone.
Tick ==
  /\ clock < MaxTime
  /\ clock' = clock + 1
  /\ store' = [a \in Agents |-> IF Expired(store[a], clock + 1) THEN None ELSE store[a]]
  /\ cache' = [i \in Instances |-> [a \in Agents |->
                 IF Expired(cache[i][a], clock + 1) THEN None ELSE cache[i][a]]]
  /\ UNCHANGED <<call, registrations, written, dropped>>

Start(c) ==
  \E i \in Instances, a \in Agents :
    \/ \E expiresAt \in Expiries : StartRegister(c, i, a, expiresAt)
    \/ StartResolve(c, i, a)
    \/ StartDeregister(c, i, a)

Continue(c) ==
  \/ GetAbsent(c) \/ GetPresent(c) \/ Ttl(c) \/ Refresh(c) \/ RefreshReply(c)
  \/ ReturnAnswer(c)
  \/ SetRegistration(c) \/ RegisterReply(c)
  \/ DeleteKey(c) \/ DeleteReply(c)
  \/ RedisError(c)

Next ==
  \/ Tick
  \/ \E c \in Calls : Start(c) \/ Continue(c)
  \/ \E i \in Instances : Crash(i)

Spec == Init /\ [][Next]_vars

-----------------------------------------------------------------------------
(* Properties *)

\* The endpoint of an entry, key or cached copy; 0 for none.
Of(x) == IF x = None THEN 0 ELSE x.entry.endpoint

\* No phantom registration: whatever Redis holds, an instance has cached, or a
\* resolve hands to its caller was set in Redis by a register of that agent,
\* although commands fail, replies are lost and instances restart.
OnlyWritten ==
  \A a \in Agents :
    /\ store[a] # None => store[a].entry.endpoint \in written[a]
    /\ \A i \in Instances :
         cache[i][a] # None => cache[i][a].entry.endpoint \in written[a]
    /\ \A c \in Calls :
         /\ call[c].agent = a
         /\ call[c].pc \in {"ttl", "set", "setReply", "return", "registerReply"}
         /\ call[c].entry # None
         => call[c].entry.endpoint \in written[a]

\* A call whose next commands or replies put registration e of agent a in Redis
\* or in a cache.
Carries(c, a, e) ==
  /\ call[c].agent = a
  /\ call[c].pc \in {"ttl", "set", "setReply", "register", "registerReply"}
  /\ call[c].entry.endpoint = e

\* Registration e of agent a is over: not in Redis, and no call carries it.
Over(a, e) == Of(store[a]) # e /\ \A c \in Calls : ~ Carries(c, a, e)

\* Registrations that are over stay over, and cached copies of them stay as
\* they are or go.
StaysOver ==
  \A a \in Agents : \A e \in written[a] :
    Over(a, e) => /\ Over(a, e)'
                  /\ \A i \in Instances : Of(cache'[i][a]) = e => cache'[i][a] = cache[i][a]

\* A registration that has been replaced, deregistered or has expired, and that
\* no call still carries, stays over: the copies that instances still cache are
\* never written back to Redis, never copied to another cache and never renewed,
\* so they are gone CacheTtl later.
NeverRevived == [][StaysOver]_vars

\* redis-idempotency.test.ts, "Duplicate registration preserves original
\* registeredAt", and the comment of register that says the same: a registration
\* that replaces a live one keeps its registeredAt.  Not so when two registers of
\* the agent overlap: both find no entry.
RegisteredAtKept ==
  [][\A a \in Agents :
       store[a] # None /\ store[a]' # None
       => store[a]'.entry.registeredAt = store[a].entry.registeredAt]_vars

\* registry.test.ts, "deregister makes resolve return null": an agent whose
\* deregister has returned is not found by a resolve that starts afterwards,
\* unless it has registered again.  Not so when a resolve is in flight during
\* the deregister: it caches what it read, and may also write it back to Redis.
NotFoundOnceDropped ==
  \A c \in Calls : At(c, "return") /\ call[c].entry # None
                   => call[c].entry.endpoint \notin call[c].past
=============================================================================
