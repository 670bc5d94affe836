------------------------- MODULE RedisRegistryPort -------------------------
(***************************************************************************)
(* RedisRegistryAdapter as an implementation of RegistryPort, for one      *)
(* instance that makes one call at a time.  A resolve that misses the      *)
(* cache, at most one in CacheTtl + 1 ticks, writes the key back with a    *)
(* rounded time to live, so a looked-up entry can lapse earlier and        *)
(* earlier: the port's Loss.                                               *)
(***************************************************************************)
EXTENDS RedisRegistry

\* The one call and the one instance.
Only == CHOOSE c \in Calls : TRUE
Here == CHOOSE i \in Instances : TRUE

\* The adapter is used sequentially, and Redis answers.
Sequential == Calls = {Only} /\ Instances = {Here} /\ ~ MayFail

\* The most that TTL takes off the time a key has left when it rounds it.
Rounding == Second - 1 - (Second \div 2)

\* A key that is not written back, because TTL rounded the time it has left to
\* nothing, does not outlive the copy that its resolve caches (5 s in the code).
ASSUME CacheOutlastsRounding == CacheTtl >= Rounding

\* The call has the entry of agent a in hand.
Held(a) ==
  /\ call[Only].agent = a
  /\ call[Only].pc \in {"ttl", "set", "setReply", "register", "registerReply"}

\* The call has deleted the key of agent a, but not yet the cached copy.
Gone(a) == call[Only].agent = a /\ At(Only, "delReply")

\* What a resolve would find: the cached copy, otherwise the key.
Found(a) ==
  IF cache[Here][a] # None THEN cache[Here][a].entry
  ELSE IF store[a] # None THEN store[a].entry ELSE None

\* What the adapter takes for the entry of agent a.
View(a) == IF Held(a) THEN call[Only].entry ELSE IF Gone(a) THEN None ELSE Found(a)

\* The registry as one map, and the answer a resolve is handing over.
Registry == [a \in Agents |-> View(a)]
Answer == IF At(Only, "return") THEN <<call[Only].entry>> ELSE <<>>

Port == INSTANCE RegistryPort WITH
  registry <- Registry,
  answer <- Answer,
  Slack <- Second - 1,
  Loss <- Rounding,
  Period <- CacheTtl + 1

\* redis-registry-adapter.ts, used sequentially, is a registry port: cache, key
\* and time to live together behave as one map in which duplicates keep
\* registeredAt, a resolve returns what the last register or deregister left,
\* and an entry lapses less than a second before its card expires, and less than
\* half a second more for each time it has been written back since.
ImplementsPort == Port!Spec
=============================================================================
