---------------------- MODULE RedisRegistryPort_proofs ----------------------
(***************************************************************************)
(* RedisRegistryAdapter, used sequentially, implements RegistryPort: for   *)
(* any agents, cards, bounds, length of a second and of a cached copy's    *)
(* life.                                                                   *)
(***************************************************************************)
EXTENDS RedisRegistryPort, RedisRegistry_proofs

\* The instants of an entry are in order.
Aged(e) == e.registeredAt <= e.lastHeartbeat /\ e.lastHeartbeat <= clock

\* What is true of the key and the cached copy of agent a at any time.
Sound(a) ==
  /\ store[a] # None => Aged(store[a].entry)
  /\ cache[Here][a] # None =>
       /\ Aged(cache[Here][a].entry)
       /\ cache[Here][a].expiresAt >= cache[Here][a].entry.lastHeartbeat + CacheTtl

\* Once entry e is seen to lapse it may: it lapses with the key, or the key has lapsed.
\* The key is e's own, or gone when a copy that is kept until `end` is.
Backed(key, now, e, end) ==
  IF key = None
  THEN Port!MayEnd(e, now)
  ELSE /\ Port!MayEnd(e, key.expiresAt)
       /\ key.entry = e \/ key.expiresAt <= end

\* What no call has in hand: a cached copy is backed by the key, and a key that is not
\* cached has not been looked up for a Period.
Kept(a) ==
  /\ cache[Here][a] # None =>
       Backed(store[a], clock, cache[Here][a].entry, cache[Here][a].expiresAt)
  /\ cache[Here][a] = None /\ store[a] # None =>
       /\ Port!MayEnd(store[a].entry, store[a].expiresAt)
       /\ clock > store[a].entry.lastHeartbeat + CacheTtl

\* What is true of the entry in the call's hand at each place, and of the key that it
\* was read from or is written to.
Handled(r) ==
  LET a == r.agent
  IN /\ r.pc \in {"ttl", "set", "setReply", "register", "registerReply"} => Aged(r.entry)
     /\ r.pc = "get" => cache[Here][a] = None
     /\ r.pc = "ttl" =>
          Port!MayEnd(r.entry, IF store[a] = None THEN clock ELSE store[a].expiresAt - Rounding)
     /\ r.pc = "set" => Port!MayEnd(r.entry, clock + r.ttl * Second)
     /\ r.pc = "register" => Port!MayEnd(r.entry, clock + r.reg.ttl * Second)
     /\ r.pc \in {"setReply", "registerReply"} =>
          Backed(store[a], clock, r.entry, clock + CacheTtl)
     /\ r.pc = "delReply" => store[a] = None

\* A register's card is alive, for its time to live at least, and the entry that its
\* resolve has found or may find is older than the register.
Registers(r) ==
  r.op = "register" /\ r.pc \in {"get", "ttl", "set", "setReply", "register"} =>
    /\ r.reg.expiresAt \in Expiries
    /\ r.reg.now <= clock /\ r.reg.now < r.reg.expiresAt
    /\ r.reg.now + r.reg.ttl * Second >= r.reg.expiresAt - (Second - 1)
    /\ r.pc = "get" /\ store[r.agent] # None => store[r.agent].entry.registeredAt <= r.reg.now
    /\ r.pc \in {"ttl", "set", "setReply"} => r.entry.registeredAt <= r.reg.now

\* The call's entry, the cached copies and the keys agree so far that View is one map.
OneMap ==
  /\ \A a \in Agents : Sound(a)
  /\ \A a \in Agents : ~ Held(a) /\ ~ Gone(a) => Kept(a)
  /\ Handled(call[Only])
  /\ Registers(call[Only])

-----------------------------------------------------------------------------
(* Rounding, heartbeats and ends *)

LEMMA RoundingIsNat == Rounding \in Nat /\ CacheTtl + 1 \in Nat \ {0} /\ Second \in Nat \ {0}
BY ConstantsAssumption DEF Rounding

LEMMA DivBounds ==
  ASSUME NEW x \in Int, NEW d \in Nat \ {0}
  PROVE  x \div d \in Int /\ d * (x \div d) <= x /\ x < d * (x \div d) + d
OBVIOUS

LEMMA Monotone ==
  ASSUME NEW x \in Int, NEW y \in Int, NEW d \in Nat, x <= y
  PROVE  d * x \in Int /\ d * y \in Int /\ d * x <= d * y
OBVIOUS

\* A multiple of d that is less than d above another is not above it.
LEMMA DivAtLeast ==
  ASSUME NEW x \in Int, NEW q \in Int, NEW d \in Nat \ {0}, d * q <= x
  PROVE  q <= x \div d
<1> DEFINE p == x \div d
<1>1. p \in Int /\ x < d * p + d
  BY DivBounds
<1> HIDE DEF p
<1> SUFFICES ASSUME q >= p + 1 PROVE FALSE
  BY <1>1 DEF p
<1>2. d * (p + 1) <= d * q
  BY <1>1, Monotone
<1>3. d * (p + 1) = d * p + d
  BY <1>1
<1>4. d * p \in Int /\ d * q \in Int
  BY <1>1
<1> QED
  BY <1>1, <1>2, <1>3, <1>4

\* TTL loses at most Rounding.
LEMMA TtlLoses ==
  ASSUME NEW x \in Int
  PROVE  LET ttl == (x + (Second \div 2)) \div Second
         IN /\ ttl \in Int /\ ttl * Second \in Int
            /\ ttl * Second >= x - Rounding
            /\ ttl <= 0 => x <= Rounding
<1> DEFINE h == Second \div 2
           ttl == (x + h) \div Second
<1>1. h \in Int /\ Second \in Nat \ {0}
  BY RoundingIsNat
<1> HIDE DEF h
<1>2. ttl \in Int /\ x + h < Second * ttl + Second
  BY <1>1, DivBounds
<1> HIDE DEF ttl
<1>3. Rounding = Second - 1 - h
  BY DEF Rounding, h
<1>4. Second * ttl \in Int /\ Second * ttl = ttl * Second
  BY <1>1, <1>2
<1>5. ttl <= 0 => Second * ttl <= 0
  <2>1. ttl <= 0 => Second * ttl <= Second * 0
    BY <1>1, <1>2, Monotone
  <2> QED
    BY <1>1, <2>1
<1>6. ttl \in Int /\ ttl * Second \in Int /\ ttl * Second >= x - Rounding /\ (ttl <= 0 => x <= Rounding)
  BY <1>1, <1>2, <1>3, <1>4, <1>5
<1> QED
  BY <1>6 DEF ttl, h

\* The first instant after which an entry may lapse.
Latest(e) == e.expiresAt - (Second - 1) - Rounding * Port!Beats(e)

LEMMA LatestIsInt ==
  ASSUME NEW e \in Entry
  PROVE  /\ Port!Beats(e) \in Int /\ Latest(e) \in Int
         /\ \A end : Port!MayEnd(e, end) <=> end >= Latest(e)
<1>1. e.expiresAt \in Int /\ e.lastHeartbeat - e.registeredAt \in Int
  BY DEF Entry
<1>2. Port!Beats(e) \in Int
  BY <1>1, RoundingIsNat, DivBounds DEF Port!Beats
<1>3. Rounding * Port!Beats(e) \in Int
  BY <1>2, RoundingIsNat
<1> QED
  BY <1>1, <1>2, <1>3, RoundingIsNat DEF Latest, Port!MayEnd

LEMMA MayEndLater ==
  ASSUME NEW e \in Entry, NEW x \in Int, NEW y \in Int, x <= y, Port!MayEnd(e, x)
  PROVE  Port!MayEnd(e, y)
BY LatestIsInt

\* An entry may end less than a second before its card.
LEMMA MayEndFirst ==
  ASSUME NEW e \in Entry, NEW end \in Int, e.registeredAt <= e.lastHeartbeat,
         end >= e.expiresAt - (Second - 1)
  PROVE  Port!MayEnd(e, end)
<1>1. e.expiresAt \in Int /\ e.lastHeartbeat - e.registeredAt \in Nat
  BY DEF Entry
<1>2. 0 <= Port!Beats(e)
  <2>1. (CacheTtl + 1) * 0 <= e.lastHeartbeat - e.registeredAt
    BY <1>1, RoundingIsNat
  <2> QED
    BY <1>1, <2>1, RoundingIsNat, DivAtLeast DEF Port!Beats
<1>3. Rounding * 0 <= Rounding * Port!Beats(e) /\ Rounding * Port!Beats(e) \in Int
  BY <1>2, RoundingIsNat, LatestIsInt, Monotone
<1>4. Rounding * 0 = 0
  BY RoundingIsNat
<1>5. Latest(e) <= e.expiresAt - (Second - 1)
  BY <1>1, <1>3, <1>4, RoundingIsNat DEF Latest
<1> QED
  BY <1>1, <1>5, LatestIsInt, RoundingIsNat

\* A heartbeat a Period later lets an entry end earlier by what TTL may lose.
LEMMA MayEndEarlier ==
  ASSUME NEW e \in Entry, NEW f \in Entry, NEW end \in Int,
         f.expiresAt = e.expiresAt, f.registeredAt = e.registeredAt,
         f.lastHeartbeat > e.lastHeartbeat + CacheTtl, Port!MayEnd(e, end)
  PROVE  Port!MayEnd(f, end - Rounding)
<1> DEFINE d == CacheTtl + 1
           x == e.lastHeartbeat - e.registeredAt
           y == f.lastHeartbeat - f.registeredAt
           p == Port!Beats(e)
           q == Port!Beats(f)
<1>1. x \in Int /\ y \in Int /\ y >= x + d /\ d \in Nat \ {0} /\ e.expiresAt \in Int
  BY RoundingIsNat, ConstantsAssumption DEF Entry
<1>2. p = x \div d /\ q = y \div d /\ p \in Int /\ q \in Int
  BY LatestIsInt DEF Port!Beats
<1> HIDE DEF d, x, y, p, q
<1>3. p + 1 <= q
  <2>1. d * p <= x
    BY <1>1, <1>2, DivBounds
  <2>2. d * (p + 1) = d * p + d /\ d * p \in Int
    BY <1>1, <1>2
  <2>3. d * (p + 1) <= y
    BY <1>1, <2>1, <2>2
  <2> QED
    BY <1>1, <1>2, <2>3, DivAtLeast
<1>4. Rounding * (p + 1) <= Rounding * q /\ Rounding * q \in Int
  BY <1>2, <1>3, RoundingIsNat, Monotone
<1>5. Rounding * (p + 1) = Rounding * p + Rounding /\ Rounding * p \in Int
  BY <1>2, RoundingIsNat
<1>6. Latest(f) <= Latest(e) - Rounding
  BY <1>1, <1>4, <1>5, RoundingIsNat DEF Latest, p, q
<1> QED
  BY <1>6, LatestIsInt, RoundingIsNat

-----------------------------------------------------------------------------
(* A step of the call *)

\* What the one call and its agent have.
LEMMA Typed ==
  ASSUME Sequential, Whole
  PROVE  /\ Only \in Calls /\ Here \in Instances /\ clock \in Nat
         /\ call[Only] \in Call /\ InHand(call[Only])
         /\ call[Only].agent \in Agents /\ call[Only].instance = Here
         /\ \A a \in Agents :
              /\ store[a] # None => store[a].entry \in Entry /\ store[a].expiresAt \in Int
              /\ cache[Here][a] # None =>
                   cache[Here][a].entry \in Entry /\ cache[Here][a].expiresAt \in Int
<1>1. Only \in Calls /\ Here \in Instances
  BY DEF Sequential
<1>2. call[Only] \in Call /\ InHand(call[Only])
  BY <1>1 DEF Whole, TypeOK
<1> QED
  BY <1>1, <1>2 DEF Sequential, Whole, TypeOK, Call, Timed

\* A step of the call for agent a, or its start or end, at one instant.
Focus(a) ==
  /\ clock' = clock
  /\ call[Only].agent = a \/ call[Only].pc = "idle"
  /\ call'[Only].agent = a \/ call'[Only].pc = "idle"
  /\ \A b \in Agents \ {a} : store'[b] = store[b] /\ cache'[Here][b] = cache[Here][b]

\* Such a step changes the map for agent a at most.
LEMMA FocusedView ==
  ASSUME NEW a \in Agents, Focus(a)
  PROVE  Registry' = [Registry EXCEPT ![a] = View(a)']
<1>1. \A b \in Agents \ {a} : View(b)' = View(b)
  BY DEF Focus, View, Held, Gone, Found, At
<1> QED
  BY <1>1 DEF Registry

LEMMA FocusedMap ==
  ASSUME OneMap, NEW a \in Agents, Focus(a),
         Sound(a)', (~ Held(a) /\ ~ Gone(a) => Kept(a))',
         Handled(call[Only])', Registers(call[Only])'
  PROVE  OneMap'
<1>1. \A b \in Agents \ {a} : Sound(b)'
  BY DEF OneMap, Focus, Sound, Aged
<1>2. \A b \in Agents \ {a} : Kept(b)'
  BY DEF OneMap, Focus, Kept, Held, Gone, At
<1> QED
  BY <1>1, <1>2 DEF OneMap

\* A step that only its call notices.
LEMMA Unnoticed ==
  ASSUME NEW a \in Agents, Focus(a), View(a)' = View(a), Answer' = Answer
  PROVE  UNCHANGED Port!vars
<1>1. Registry' = Registry
  BY FocusedView DEF Registry
<1> QED
  BY <1>1 DEF Focus, Port!vars

-----------------------------------------------------------------------------
(* Time *)

\* What is backed at an instant is backed at the next, with less of the key's time left.
LEMMA BackedNext ==
  ASSUME NEW key, key # None => key.expiresAt \in Int, NEW now \in Int, NEW e \in Entry,
         NEW end \in Int, NEW later \in Int, end <= later, Backed(key, now, e, end)
  PROVE  Backed(IF Expired(key, now + 1) THEN None ELSE key, now + 1, e, later)
<1>1. CASE key = None
  BY <1>1, MayEndLater DEF Backed, Expired
<1>2. CASE key # None /\ Expired(key, now + 1)
  BY <1>2, MayEndLater DEF Backed, Expired
<1>3. CASE key # None /\ ~ Expired(key, now + 1)
  BY <1>3 DEF Backed
<1> QED
  BY <1>1, <1>2, <1>3

\* A tick takes away keys and copies whose time has passed.
LEMMA Ticked ==
  ASSUME Sequential, Whole, Tick, NEW a \in Agents
  PROVE  /\ clock' = clock + 1 /\ call' = call
         /\ store'[a] = IF Expired(store[a], clock + 1) THEN None ELSE store[a]
         /\ cache'[Here][a] = IF Expired(cache[Here][a], clock + 1) THEN None ELSE cache[Here][a]
         /\ (Held(a)' <=> Held(a)) /\ (Gone(a)' <=> Gone(a))
BY Typed DEF Tick, Held, Gone, At

LEMMA TickSound ==
  ASSUME Sequential, Whole, Tick, NEW a \in Agents, Sound(a)
  PROVE  Sound(a)'
<1>1. \A e \in Entry : Aged(e) => e.registeredAt <= e.lastHeartbeat /\ e.lastHeartbeat <= clock + 1
  BY Typed DEF Aged, Entry
<1> QED
  BY <1>1, Typed, Ticked DEF Sound, Aged

\* What is kept goes on being found, or lapses when it may.
LEMMA TickKept ==
  ASSUME Sequential, Whole, Tick, NEW a \in Agents, Sound(a), Kept(a)
  PROVE  /\ Kept(a)'
         /\ \/ Found(a)' = Found(a)
            \/ Found(a)' = None /\ Found(a) # None /\ Port!MayEnd(Found(a), clock)
<1> DEFINE key == store[a]
           copy == cache[Here][a]
           key2 == store'[a]
           copy2 == cache'[Here][a]
<1>0. /\ clock \in Int /\ CacheTtl \in Int /\ None \notin Entry
      /\ key # None => key.entry \in Entry /\ key.entry.lastHeartbeat \in Int /\ key.expiresAt \in Int
      /\ copy # None => copy.entry \in Entry /\ copy.entry.lastHeartbeat \in Int /\ copy.expiresAt \in Int
  BY Typed, ConstantsAssumption, NoneAssumption DEF Entry
<1>1. /\ clock' = clock + 1
      /\ key2 = IF Expired(key, clock + 1) THEN None ELSE key
      /\ copy2 = IF Expired(copy, clock + 1) THEN None ELSE copy
  BY Ticked
<1>2. /\ copy # None => Backed(key, clock, copy.entry, copy.expiresAt)
      /\ copy = None /\ key # None =>
           Port!MayEnd(key.entry, key.expiresAt) /\ clock > key.entry.lastHeartbeat + CacheTtl
      /\ copy # None => copy.expiresAt >= copy.entry.lastHeartbeat + CacheTtl
  BY DEF Kept, Sound
<1>3. Kept(a)' <=>
        /\ copy2 # None => Backed(key2, clock + 1, copy2.entry, copy2.expiresAt)
        /\ copy2 = None /\ key2 # None =>
             Port!MayEnd(key2.entry, key2.expiresAt) /\ clock + 1 > key2.entry.lastHeartbeat + CacheTtl
  BY <1>1 DEF Kept
<1>4. /\ Found(a) = IF copy # None THEN copy.entry ELSE IF key # None THEN key.entry ELSE None
      /\ Found(a)' = IF copy2 # None THEN copy2.entry ELSE IF key2 # None THEN key2.entry ELSE None
  BY DEF Found
<1> HIDE DEF key, copy, key2, copy2
<1>5. CASE copy # None /\ copy2 # None
  <2>1. copy2 = copy
    BY <1>1, <1>5
  <2>2. Backed(key2, clock + 1, copy.entry, copy.expiresAt)
    BY <1>0, <1>1, <1>2, <1>5, BackedNext
  <2> QED
    BY <1>3, <1>4, <1>5, <2>1, <2>2
<1>6. CASE copy # None /\ copy2 = None /\ key2 # None
  <2>1. key2 = key /\ key # None /\ key.expiresAt >= clock + 1 /\ copy.expiresAt < clock + 1
    BY <1>0, <1>1, <1>6 DEF Expired
  <2>2. key.entry = copy.entry /\ Port!MayEnd(key.entry, key.expiresAt)
    BY <1>0, <1>2, <1>6, <2>1 DEF Backed
  <2> QED
    BY <1>0, <1>2, <1>3, <1>4, <1>6, <2>1, <2>2
<1>7. CASE copy # None /\ copy2 = None /\ key2 = None
  <2>1. key # None => key.expiresAt < clock + 1
    BY <1>0, <1>1, <1>7 DEF Expired
  <2>2. Port!MayEnd(copy.entry, clock)
    BY <1>0, <1>2, <1>7, <2>1, MayEndLater DEF Backed
  <2> QED
    BY <1>0, <1>3, <1>4, <1>7, <2>2
<1>8. CASE copy = None
  <2>1. copy2 = None
    BY <1>1, <1>8
  <2>2. key # None /\ key2 = None => Port!MayEnd(key.entry, clock)
    BY <1>0, <1>1, <1>2, <1>8, MayEndLater DEF Expired
  <2>3. key2 # None => key2 = key
    BY <1>1
  <2> QED
    BY <1>0, <1>1, <1>2, <1>3, <1>4, <1>8, <2>1, <2>2, <2>3
<1> QED
  BY <1>5, <1>6, <1>7, <1>8

LEMMA TickHandled ==
  ASSUME Sequential, Whole, Tick, Handled(call[Only]), Registers(call[Only])
  PROVE  Handled(call[Only])' /\ Registers(call[Only])'
<1> DEFINE r == call[Only]
           key == store[r.agent]
           key2 == store'[r.agent]
<1>0. /\ clock \in Int /\ clock + 1 \in Int /\ CacheTtl \in Int /\ Rounding \in Nat /\ Second \in Int
      /\ key # None => key.expiresAt \in Int
      /\ r.ttl \in Int /\ r.ttl * Second \in Int
      /\ r.pc \in {"ttl", "set", "setReply", "register", "registerReply"} => r.entry \in Entry
      /\ r.pc = "register" => r.reg.ttl * Second \in Int
  <2>1. r.pc = "register" => r.reg.ttl \in Int
    BY Typed DEF InHand, Registration
  <2>2. r.ttl \in Int /\ (r.pc \in {"ttl", "set", "setReply", "register", "registerReply"} => r.entry \in Entry)
    BY Typed DEF InHand, Call
  <2> QED
    BY <2>1, <2>2, Typed, RoundingIsNat, ConstantsAssumption
<1>1. /\ clock' = clock + 1 /\ call' = call
      /\ key2 = IF Expired(key, clock + 1) THEN None ELSE key
      /\ cache[Here][r.agent] = None => cache'[Here][r.agent] = None
  BY Typed, Ticked DEF Expired
<1> HIDE DEF key2
<1>2. r.pc \in {"ttl", "set", "setReply", "register", "registerReply"} => Aged(r.entry)'
  BY <1>0, <1>1 DEF Handled, Aged, Entry
<1>3. r.pc = "get" => cache'[Here][r.agent] = None
  BY <1>1 DEF Handled
<1>4. r.pc = "ttl" =>
        Port!MayEnd(r.entry, IF key2 = None THEN clock + 1 ELSE key2.expiresAt - Rounding)
  <2>1. SUFFICES ASSUME r.pc = "ttl"
                 PROVE  Port!MayEnd(r.entry, IF key2 = None THEN clock + 1 ELSE key2.expiresAt - Rounding)
    OBVIOUS
  <2>2. r.entry \in Entry
    BY <1>0, <2>1
  <2>3. Port!MayEnd(r.entry, IF key = None THEN clock ELSE key.expiresAt - Rounding)
    BY <2>1 DEF Handled
  <2> HIDE DEF key, r
  <2>4. CASE key = None
    BY <1>0, <1>1, <2>2, <2>3, <2>4, MayEndLater
  <2>5. CASE key # None /\ Expired(key, clock + 1)
    <3>1. key2 = None /\ key.expiresAt - Rounding <= clock + 1 /\ key.expiresAt - Rounding \in Int
      BY <1>0, <1>1, <2>5 DEF Expired
    <3> QED
      BY <1>0, <2>2, <2>3, <2>5, <3>1, MayEndLater
  <2>6. CASE key # None /\ ~ Expired(key, clock + 1)
    BY <1>1, <2>3, <2>6
  <2> QED
    BY <2>4, <2>5, <2>6
<1>5. r.pc = "set" => Port!MayEnd(r.entry, clock + 1 + r.ttl * Second)
  BY <1>0, MayEndLater DEF Handled
<1>6. r.pc = "register" => Port!MayEnd(r.entry, clock + 1 + r.reg.ttl * Second)
  BY <1>0, MayEndLater DEF Handled
<1>7. r.pc \in {"setReply", "registerReply"} =>
        Backed(key2, clock + 1, r.entry, clock + 1 + CacheTtl)
  <2> SUFFICES ASSUME r.pc \in {"setReply", "registerReply"}
               PROVE  Backed(key2, clock + 1, r.entry, clock + 1 + CacheTtl)
    OBVIOUS
  <2>1. r.entry \in Entry /\ Backed(key, clock, r.entry, clock + CacheTtl)
    BY <1>0 DEF Handled
  <2>2. clock + CacheTtl \in Int /\ clock + 1 + CacheTtl \in Int /\ clock + CacheTtl <= clock + 1 + CacheTtl
    BY <1>0
  <2> HIDE DEF key, r
  <2> QED
    BY <1>0, <1>1, <2>1, <2>2, BackedNext
<1>8. r.pc = "delReply" => key2 = None
  BY <1>1 DEF Handled
<1>9. Handled(call[Only])'
  BY <1>1, <1>2, <1>3, <1>4, <1>5, <1>6, <1>7, <1>8 DEF Handled, key2
<1>10. Registers(call[Only])'
  <2>1. r.op = "register" /\ r.pc \in {"get", "ttl", "set", "setReply", "register"} => r.reg.now \in Int
    BY Typed DEF InHand, Registration
  <2> QED
    BY <1>0, <1>1, <2>1 DEF Registers, key2
<1> QED
  BY <1>9, <1>10

\* A tick is a tick of the port.
LEMMA TickStep ==
  ASSUME Sequential, Whole, OneMap, Tick
  PROVE  OneMap' /\ Port!Tick
<1>1. \A a \in Agents : Sound(a)'
  BY TickSound DEF OneMap
<1>2. ASSUME NEW a \in Agents
      PROVE  /\ (~ Held(a) /\ ~ Gone(a) => Kept(a))'
             /\ \/ View(a)' = View(a)
                \/ View(a)' = None /\ View(a) # None /\ Port!MayEnd(View(a), clock)
  <2>1. CASE Held(a)
    BY <2>1, Ticked DEF View
  <2>2. CASE Gone(a)
    BY <2>2, Ticked DEF View
  <2>3. CASE ~ Held(a) /\ ~ Gone(a)
    <3>1. Sound(a) /\ Kept(a)
      BY <2>3 DEF OneMap
    <3>2. View(a) = Found(a) /\ View(a)' = Found(a)'
      BY <2>3, Ticked DEF View
    <3> QED
      BY <3>1, <3>2, TickKept
  <2> QED
    BY <2>1, <2>2, <2>3
<1>3. OneMap'
  BY <1>1, <1>2, TickHandled DEF OneMap
<1>4. Port!Tick
  <2> DEFINE lapsed == {a \in Agents : View(a)' # View(a)}
  <2>1. lapsed \in SUBSET Port!Lapsable
    BY <1>2 DEF Port!Lapsable, Registry
  <2>2. Registry' = [a \in Agents |-> IF a \in lapsed THEN None ELSE Registry[a]]
    BY <1>2 DEF Registry
  <2>3. Answer' = Answer
    BY DEF Answer, At, Tick
  <2> HIDE DEF lapsed
  <2> QED
    BY <2>1, <2>2, <2>3 DEF Tick, Port!Tick
<1> QED
  BY <1>3, <1>4

-----------------------------------------------------------------------------
(* The end of a resolve *)

\* The entry that a register is about to set.
LEMMA NewEntryReady ==
  ASSUME NEW reg \in Registration, NEW existing \in Entry \cup {None}, NEW now \in Int,
         existing # None => existing.registeredAt <= reg.now, reg.now <= now,
         reg.now + reg.ttl * Second >= reg.expiresAt - (Second - 1)
  PROVE  LET e == NewEntry(reg, existing)
         IN /\ e \in Entry /\ e.registeredAt <= e.lastHeartbeat /\ e.lastHeartbeat <= now
            /\ Port!MayEnd(e, now + reg.ttl * Second)
<1> DEFINE e == NewEntry(reg, existing)
<1>1. e \in Entry
  BY NewEntryIsEntry
<1>2. e.expiresAt = reg.expiresAt /\ e.registeredAt <= e.lastHeartbeat /\ e.lastHeartbeat <= now
  BY DEF NewEntry, Registration, Entry
<1>3. reg.ttl * Second \in Int /\ reg.now \in Int /\ reg.expiresAt \in Int
  BY RoundingIsNat DEF Registration
<1> HIDE DEF e
<1>4. now + reg.ttl * Second \in Int /\ now + reg.ttl * Second >= e.expiresAt - (Second - 1)
  BY <1>2, <1>3, RoundingIsNat
<1>5. Port!MayEnd(e, now + reg.ttl * Second)
  BY <1>1, <1>2, <1>4, MayEndFirst
<1> QED
  BY <1>1, <1>2, <1>5 DEF e

\* A register takes effect when its resolve ends.
LEMMA Registering ==
  ASSUME Sequential, Whole, NEW a \in Agents, Focus(a), NEW reg \in Registration,
         reg.expiresAt \in Expiries, reg.now <= clock, reg.now < reg.expiresAt,
         View(a)' = NewEntry(reg, View(a)), Answer' = Answer
  PROVE  Port!Register(a)
<1>1. NewEntry(reg, View(a)) = Port!Registered(a, reg.endpoint, reg.expiresAt, reg.now)
  BY DEF NewEntry, Port!Registered, Registry
<1>2. reg.endpoint \in Endpoints /\ reg.now \in 0 .. clock
  BY Typed DEF Registration
<1>3. Registry' = [Registry EXCEPT ![a] = Port!Registered(a, reg.endpoint, reg.expiresAt, reg.now)]
  BY <1>1, FocusedView
<1> QED
  BY <1>2, <1>3 DEF Port!Register, Focus

\* A step that ends the resolve of call r with what agent a has: the answer to a caller,
\* or the registration of a.
LEMMA Resolving ==
  ASSUME Sequential, Whole, OneMap, NEW a \in Agents, Focus(a),
         NEW r, NEW found \in Entry \cup {None}, r.agent = a,
         call'[Only] = Resolved(r, found), Answer = <<>>, View(a) = found, Found(a)' = found,
         Sound(a)', Kept(a)',
         r.op = "register" =>
           /\ r.reg \in Registration /\ r.reg.expiresAt \in Expiries
           /\ r.reg.now <= clock /\ r.reg.now < r.reg.expiresAt
           /\ r.reg.now + r.reg.ttl * Second >= r.reg.expiresAt - (Second - 1)
           /\ found # None => found.registeredAt <= r.reg.now
  PROVE  OneMap' /\ Port!Next
<1> DEFINE s == call'[Only]
           e == NewEntry(r.reg, found)
<1>0. clock' = clock /\ clock \in Int
  BY Typed DEF Focus
<1>1. CASE r.op = "register"
  <2>1. s.pc = "register" /\ s.op = "register" /\ s.agent = a /\ s.reg = r.reg /\ s.entry = e
    BY <1>1 DEF Resolved, Moved
  <2>2. e.registeredAt <= e.lastHeartbeat /\ e.lastHeartbeat <= clock
        /\ Port!MayEnd(e, clock + r.reg.ttl * Second)
    BY <1>0, <1>1, NewEntryReady
  <2> HIDE DEF e
  <2>3. Held(a)' /\ View(a)' = e
    BY <2>1 DEF Held, View
  <2>4. Handled(call[Only])'
    BY <1>0, <2>1, <2>2 DEF Handled, Aged
  <2>5. Registers(call[Only])'
    BY <1>0, <1>1, <2>1 DEF Registers
  <2>6. Answer' = Answer
    BY <2>1 DEF Answer, At
  <2>7. Port!Register(a)
    BY <1>1, <2>3, <2>6, Registering DEF e
  <2> QED
    BY <2>3, <2>4, <2>5, <2>7, FocusedMap DEF Port!Next
<1>2. CASE r.op # "register"
  <2>1. s.pc = "return" /\ s.agent = a /\ s.entry = found
    BY <1>2 DEF Resolved, Moved
  <2>2. ~ Held(a)' /\ ~ Gone(a)' /\ View(a)' = found
    BY <2>1 DEF Held, Gone, At, View
  <2>3. Handled(call[Only])' /\ Registers(call[Only])'
    BY <2>1 DEF Handled, Registers
  <2>4. Answer' = <<found>>
    BY <2>1 DEF Answer, At
  <2>5. Registry' = Registry /\ Registry[a] = found
    BY <2>2, FocusedView DEF Registry
  <2>6. Port!Resolve(a)
    BY <1>0, <2>4, <2>5 DEF Port!Resolve
  <2> QED
    BY <2>2, <2>3, <2>6, FocusedMap DEF Port!Next
<1> QED
  BY <1>1, <1>2

-----------------------------------------------------------------------------
(* The steps of the call *)

\* No call is under way: every agent's entry is the one that is kept.
LEMMA Idle ==
  ASSUME Sequential, Whole, OneMap, NEW a \in Agents,
         call[Only].pc \notin {"ttl", "set", "setReply", "register", "registerReply", "delReply"}
  PROVE  /\ ~ Held(a) /\ ~ Gone(a) /\ Sound(a) /\ Kept(a) /\ View(a) = Found(a)
         /\ Found(a) \in Entry \cup {None}
BY Typed DEF OneMap, Held, Gone, At, View, Found

\* A step to place s of the call that leaves Redis and the cache alone.
LEMMA Aside ==
  ASSUME Sequential, Whole, NEW s, NEW a \in Agents, call' = [call EXCEPT ![Only] = s],
         s.agent = a \/ s.pc = "idle", call[Only].agent = a \/ call[Only].pc = "idle",
         UNCHANGED <<clock, store, cache>>
  PROVE  call'[Only] = s /\ Focus(a) /\ Found(a)' = Found(a)
<1>1. call'[Only] = s
  BY Typed DEF Whole, TypeOK
<1> QED
  BY <1>1 DEF Focus, Found

LEMMA StartRegisterStep ==
  ASSUME Sequential, Whole, OneMap, NEW a \in Agents, NEW expiresAt \in Expiries,
         StartRegister(Only, Here, a, expiresAt)
  PROVE  OneMap' /\ [Port!Next]_(Port!vars)
<1> DEFINE ttl == (expiresAt - clock) \div Second
           reg == [endpoint |-> registrations + 1, expiresAt |-> expiresAt, now |-> clock, ttl |-> ttl]
           r == Begin("get", "register", Here, a, reg, {})
           s == BeginResolve(r)
           copy == cache[Here][a]
<1>1. /\ call[Only].pc = "idle" /\ expiresAt > clock /\ registrations < MaxRegistrations
      /\ call' = [call EXCEPT ![Only] = s]
      /\ UNCHANGED <<clock, store, cache>>
  BY DEF StartRegister, At
<1>2. /\ clock \in Nat /\ expiresAt \in Nat /\ registrations \in Nat /\ registrations + 1 \in Endpoints
  BY <1>1, Typed, ConstantsAssumption DEF Whole, TypeOK, Endpoints
<1>3. ttl \in Int /\ clock + ttl * Second >= expiresAt - (Second - 1)
  <2>1. expiresAt - clock < Second * ttl + Second /\ ttl \in Int
    BY <1>2, RoundingIsNat, DivBounds
  <2> HIDE DEF ttl
  <2>2. Second * ttl = ttl * Second /\ Second * ttl \in Int
    BY <2>1, RoundingIsNat
  <2> QED
    BY <1>2, <2>1, <2>2, RoundingIsNat
<1> HIDE DEF ttl
<1>4. /\ reg \in Registration /\ reg.now = clock /\ reg.expiresAt = expiresAt /\ reg.ttl = ttl
  BY <1>2, <1>3 DEF Registration
<1> HIDE DEF reg
<1>5. r.pc = "get" /\ r.op = "register" /\ r.agent = a /\ r.instance = Here /\ r.reg = reg
  BY DEF Begin
<1> HIDE DEF r
<1>6. /\ copy # None => s = Resolved(r, copy.entry)
      /\ copy = None => s = r
      /\ s.agent = a
  BY <1>5 DEF BeginResolve, Resolved, Moved
<1> HIDE DEF s
<1>7. call'[Only] = s /\ Focus(a) /\ Found(a)' = Found(a)
  BY <1>1, <1>6, Aside
<1>8. Sound(a) /\ Kept(a) /\ View(a) = Found(a) /\ Answer = <<>>
  BY <1>1, Idle DEF Answer, At
<1>9. Sound(a)' /\ Kept(a)'
  BY <1>1, <1>8 DEF Sound, Kept, Aged
<1>10. CASE copy # None
  <2>1. copy.entry \in Entry /\ Found(a) = copy.entry
    BY <1>10, Typed DEF Found
  <2>2. copy.entry.registeredAt <= clock
    <3>1. Aged(copy.entry)
      BY <1>8, <1>10 DEF Sound
    <3> QED
      BY <1>2, <2>1, <3>1 DEF Aged, Entry
  <2> HIDE DEF copy
  <2> QED
    BY <1>1, <1>2, <1>3, <1>4, <1>5, <1>6, <1>7, <1>8, <1>9, <1>10, <2>1, <2>2, Resolving
<1>11. CASE copy = None
  <2>1. s = r
    BY <1>6, <1>11
  <2>2. View(a)' = View(a) /\ Answer' = Answer
    BY <1>5, <1>7, <1>8, <2>1 DEF View, Held, Gone, At, Answer
  <2>3. Handled(call[Only])'
    BY <1>1, <1>5, <1>7, <1>11, <2>1 DEF Handled
  <2>4. store[a] # None => store[a].entry.registeredAt <= clock
    <3>1. store[a] # None => store[a].entry \in Entry /\ Aged(store[a].entry)
      BY <1>8, Typed DEF Sound
    <3> QED
      BY <1>2, <3>1 DEF Aged, Entry
  <2>5. Registers(call[Only])'
    BY <1>1, <1>2, <1>3, <1>4, <1>5, <1>7, <2>1, <2>4 DEF Registers
  <2> QED
    BY <1>7, <1>9, <2>2, <2>3, <2>5, FocusedMap, Unnoticed
<1> QED
  BY <1>10, <1>11

LEMMA StartResolveStep ==
  ASSUME Sequential, Whole, OneMap, NEW a \in Agents, StartResolve(Only, Here, a)
  PROVE  OneMap' /\ [Port!Next]_(Port!vars)
<1> DEFINE r == Begin("get", "resolve", Here, a, None, dropped[a])
           s == BeginResolve(r)
           copy == cache[Here][a]
<1>1. /\ call[Only].pc = "idle" /\ call' = [call EXCEPT ![Only] = s]
      /\ UNCHANGED <<clock, store, cache>>
  BY DEF StartResolve, At
<1>2. r.pc = "get" /\ r.op = "resolve" /\ r.agent = a /\ r.instance = Here
  BY DEF Begin
<1> HIDE DEF r
<1>3. /\ copy # None => s = Resolved(r, copy.entry)
      /\ copy = None => s = r
      /\ s.agent = a
  BY <1>2 DEF BeginResolve, Resolved, Moved
<1> HIDE DEF s
<1>4. call'[Only] = s /\ Focus(a) /\ Found(a)' = Found(a)
  BY <1>1, <1>3, Aside
<1>5. Sound(a) /\ Kept(a) /\ View(a) = Found(a) /\ Answer = <<>>
  BY <1>1, Idle DEF Answer, At
<1>6. Sound(a)' /\ Kept(a)'
  BY <1>1, <1>5 DEF Sound, Kept, Aged
<1>7. CASE copy # None
  <2>1. copy.entry \in Entry /\ Found(a) = copy.entry
    BY <1>7, Typed DEF Found
  <2> HIDE DEF copy
  <2> QED
    BY <1>2, <1>3, <1>4, <1>5, <1>6, <1>7, <2>1, Resolving
<1>8. CASE copy = None
  <2>1. s = r
    BY <1>3, <1>8
  <2>2. View(a)' = View(a) /\ Answer' = Answer
    BY <1>2, <1>4, <1>5, <2>1 DEF View, Held, Gone, At, Answer
  <2>3. Handled(call[Only])' /\ Registers(call[Only])'
    BY <1>1, <1>2, <1>4, <1>8, <2>1 DEF Handled, Registers
  <2> QED
    BY <1>4, <1>6, <2>2, <2>3, FocusedMap, Unnoticed
<1> QED
  BY <1>7, <1>8

LEMMA StartDeregisterStep ==
  ASSUME Sequential, Whole, OneMap, NEW a \in Agents, StartDeregister(Only, Here, a)
  PROVE  OneMap' /\ [Port!Next]_(Port!vars)
<1> DEFINE s == Begin("del", "deregister", Here, a, None, written[a])
<1>1. /\ call[Only].pc = "idle" /\ call' = [call EXCEPT ![Only] = s]
      /\ UNCHANGED <<clock, store, cache>>
  BY DEF StartDeregister, At
<1>2. s.pc = "del" /\ s.op = "deregister" /\ s.agent = a
  BY DEF Begin
<1> HIDE DEF s
<1>3. call'[Only] = s /\ Focus(a) /\ Found(a)' = Found(a)
  BY <1>1, <1>2, Aside
<1>4. Sound(a) /\ Kept(a) /\ View(a) = Found(a) /\ Answer = <<>>
  BY <1>1, Idle DEF Answer, At
<1>5. Sound(a)' /\ Kept(a)'
  BY <1>1, <1>4 DEF Sound, Kept, Aged
<1>6. View(a)' = View(a) /\ Answer' = Answer
  BY <1>2, <1>3, <1>4 DEF View, Held, Gone, At, Answer
<1>7. Handled(call[Only])' /\ Registers(call[Only])'
  BY <1>2, <1>3 DEF Handled, Registers
<1> QED
  BY <1>3, <1>5, <1>6, <1>7, FocusedMap, Unnoticed

LEMMA GetAbsentStep ==
  ASSUME Sequential, Whole, OneMap, GetAbsent(Only)
  PROVE  OneMap' /\ [Port!Next]_(Port!vars)
<1> PICK a \in Agents : a = call[Only].agent
  BY Typed
<1> DEFINE r == call[Only]
<1>1. /\ r.pc = "get" /\ store[a] = None /\ a \in Agents
      /\ call' = [call EXCEPT ![Only] = Resolved(r, None)]
      /\ UNCHANGED <<clock, store, cache>>
  BY Typed DEF GetAbsent, Sends
<1>2. Sound(a) /\ Kept(a) /\ View(a) = Found(a) /\ Answer = <<>>
  BY <1>1, Idle DEF Answer, At
<1>3. Resolved(r, None).agent = a
  BY DEF Resolved, Moved
<1>4. call'[Only] = Resolved(r, None) /\ Focus(a) /\ Found(a)' = Found(a)
  BY <1>1, <1>3, Aside
<1>5. Sound(a)' /\ Kept(a)'
  BY <1>1, <1>2 DEF Sound, Kept, Aged
<1>6. Found(a) = None
  BY <1>1 DEF OneMap, Handled, Found
<1>7. r.op = "register" =>
        /\ r.reg \in Registration /\ r.reg.expiresAt \in Expiries
        /\ r.reg.now <= clock /\ r.reg.now < r.reg.expiresAt
        /\ r.reg.now + r.reg.ttl * Second >= r.reg.expiresAt - (Second - 1)
  BY <1>1, Typed DEF OneMap, Registers, InHand
<1>8. r.agent = a
  OBVIOUS
<1> HIDE DEF r
<1> QED
  BY <1>1, <1>2, <1>4, <1>5, <1>6, <1>7, <1>8, Resolving

LEMMA GetPresentStep ==
  ASSUME Sequential, Whole, OneMap, GetPresent(Only)
  PROVE  OneMap' /\ [Port!Next]_(Port!vars)
<1> PICK a \in Agents : a = call[Only].agent
  BY Typed
<1> DEFINE r == call[Only]
           old == store[a].entry
           e == Touched(old)
           s == Moved(r, "ttl", e, 0)
<1>1. /\ r.pc = "get" /\ store[a] # None /\ a \in Agents
      /\ call' = [call EXCEPT ![Only] = s]
      /\ UNCHANGED <<clock, store, cache>>
  BY Typed DEF GetPresent, Sends, Move
<1>2. s.pc = "ttl" /\ s.op = r.op /\ s.agent = a /\ s.reg = r.reg /\ s.entry = e
  BY DEF Moved
<1> HIDE DEF s
<1>3. call'[Only] = s /\ Focus(a) /\ Found(a)' = Found(a)
  BY <1>1, <1>2, Aside
<1>4. Sound(a) /\ Kept(a) /\ View(a) = Found(a) /\ Answer = <<>>
  BY <1>1, Idle DEF Answer, At
<1>5. cache[Here][a] = None /\ Found(a) = old
  BY <1>1 DEF OneMap, Handled, Found
<1>6. /\ old \in Entry /\ e \in Entry /\ old # None
      /\ e.expiresAt = old.expiresAt /\ e.registeredAt = old.registeredAt /\ e.lastHeartbeat = clock
      /\ store[a].expiresAt \in Int /\ clock \in Nat
  BY <1>1, Typed, TouchedIsEntry, NoneAssumption DEF Touched, Whole
<1>7. Aged(e)
  BY <1>1, <1>4, <1>6 DEF Sound, Aged, Entry
<1>8. Port!MayEnd(e, store[a].expiresAt - Rounding)
  <2>1. Port!MayEnd(old, store[a].expiresAt) /\ clock > old.lastHeartbeat + CacheTtl
    BY <1>1, <1>4, <1>5 DEF Kept
  <2> QED
    BY <1>6, <2>1, MayEndEarlier
<1>9. Port!Touched(a) = e
  BY <1>4, <1>5, <1>6 DEF Port!Touched, Registry, Touched, Entry
<1> HIDE DEF e
<1>10. Held(a)' /\ View(a)' = e /\ Answer' = Answer
  BY <1>1, <1>2, <1>3, <1>4 DEF Held, View, Answer, At
<1>11. Handled(call[Only])'
  BY <1>1, <1>2, <1>3, <1>7, <1>8 DEF Handled, Aged
<1>12. Registers(call[Only])'
  BY <1>1, <1>2, <1>3, <1>6 DEF OneMap, Registers
<1>13. Sound(a)'
  BY <1>1, <1>4 DEF Sound, Aged
<1>14. Port!Heartbeat(a)
  <2>1. Registry' = [Registry EXCEPT ![a] = Port!Touched(a)]
    BY <1>1, <1>3, <1>9, <1>10, FocusedView
  <2>2. Registry[a] # None
    BY <1>1, <1>4, <1>5, <1>6 DEF Registry
  <2> QED
    BY <1>3, <1>10, <2>1, <2>2 DEF Port!Heartbeat, Focus
<1> QED
  BY <1>1, <1>3, <1>10, <1>11, <1>12, <1>13, <1>14, FocusedMap DEF Port!Next

\* A step at which the call keeps the entry in hand, in Redis too or not.
LEMMA InHandStep ==
  ASSUME Sequential, Whole, OneMap, NEW a \in Agents, a = call[Only].agent,
         NEW s, call'[Only] = s, s.agent = a, Focus(a), UNCHANGED cache, s.entry = call[Only].entry,
         call[Only].pc \in {"ttl", "set", "register"}, s.pc \in {"set", "setReply", "registerReply"},
         Sound(a)', Handled(call[Only])', Registers(call[Only])'
  PROVE  OneMap' /\ UNCHANGED Port!vars
<1>1. Held(a)' /\ View(a)' = View(a) /\ Answer' = Answer
  BY DEF Held, View, Answer, At
<1> QED
  BY <1>1, FocusedMap, Unnoticed

LEMMA TtlStep ==
  ASSUME Sequential, Whole, OneMap, Ttl(Only)
  PROVE  OneMap' /\ [Port!Next]_(Port!vars)
<1> PICK a \in Agents : a = call[Only].agent
  BY Typed
<1> DEFINE r == call[Only]
           e == r.entry
           key == store[a]
           ttl == KeyTtl(a)
           s == Moved(r, IF ttl > 0 THEN "set" ELSE "setReply", e, ttl)
<1>1. /\ r.pc = "ttl" /\ a \in Agents /\ e \in Entry
      /\ call' = [call EXCEPT ![Only] = s]
      /\ UNCHANGED <<clock, store, cache>>
  BY Typed DEF Ttl, Sends, Move, InHand
<1>2. /\ s.pc = IF ttl > 0 THEN "set" ELSE "setReply"
      /\ s.op = r.op /\ s.agent = a /\ s.reg = r.reg /\ s.entry = e /\ s.ttl = ttl
  BY DEF Moved
<1> HIDE DEF s
<1>3. call'[Only] = s /\ Focus(a)
  BY <1>1, <1>2, Aside
<1>4. Sound(a)'
  BY <1>1 DEF OneMap, Sound, Aged
<1>5. /\ clock \in Int /\ CacheTtl \in Int /\ Rounding \in Nat /\ Rounding <= CacheTtl
      /\ key # None => key.expiresAt \in Int
  BY <1>1, Typed, RoundingIsNat, ConstantsAssumption, CacheOutlastsRounding
<1>6. Aged(e) /\ Port!MayEnd(e, IF key = None THEN clock ELSE key.expiresAt - Rounding)
  BY <1>1 DEF OneMap, Handled
<1>7. key # None => /\ ttl \in Int /\ ttl * Second \in Int
                    /\ clock + ttl * Second >= key.expiresAt - Rounding
                    /\ ttl <= 0 => key.expiresAt <= clock + Rounding
  <2>1. SUFFICES ASSUME key # None
                 PROVE  /\ ttl \in Int /\ ttl * Second \in Int
                        /\ clock + ttl * Second >= key.expiresAt - Rounding
                        /\ ttl <= 0 => key.expiresAt <= clock + Rounding
    OBVIOUS
  <2>2. key.expiresAt - clock \in Int
    BY <1>5, <2>1
  <2>3. ttl = (key.expiresAt - clock + (Second \div 2)) \div Second
    BY <2>1 DEF KeyTtl
  <2>4. /\ ttl \in Int /\ ttl * Second \in Int /\ ttl * Second >= key.expiresAt - clock - Rounding
        /\ ttl <= 0 => key.expiresAt - clock <= Rounding
    BY <2>2, <2>3, TtlLoses
  <2> HIDE DEF ttl, key
  <2> QED
    BY <1>5, <2>1, <2>4
<1>8. key = None => ~ ttl > 0
  BY DEF KeyTtl
<1> HIDE DEF ttl
<1>9. ttl > 0 => Port!MayEnd(e, clock + ttl * Second)
  BY <1>1, <1>5, <1>6, <1>7, <1>8, MayEndLater
<1>10. ~ ttl > 0 => Backed(key, clock, e, clock + CacheTtl)
  <2>1. CASE key = None
    BY <1>6, <2>1 DEF Backed
  <2>2. CASE key # None
    <3>1. Port!MayEnd(e, key.expiresAt)
      <4>1. /\ key.expiresAt - Rounding \in Int /\ key.expiresAt \in Int
            /\ key.expiresAt - Rounding <= key.expiresAt
        BY <1>5, <2>2
      <4>2. e \in Entry /\ Port!MayEnd(e, key.expiresAt - Rounding)
        BY <1>1, <1>6, <2>2
      <4> HIDE DEF e, key
      <4> QED
        BY <4>1, <4>2, MayEndLater
    <3>2. ~ ttl > 0 => key.expiresAt <= clock + CacheTtl
      BY <1>5, <1>7, <2>2
    <3> QED
      BY <2>2, <3>1, <3>2 DEF Backed
  <2> QED
    BY <2>1, <2>2
<1>11. Handled(call[Only])'
  BY <1>1, <1>2, <1>3, <1>6, <1>9, <1>10 DEF Handled, Aged
<1>12. Registers(call[Only])'
  BY <1>1, <1>2, <1>3 DEF OneMap, Registers
<1> QED
  BY <1>1, <1>2, <1>3, <1>4, <1>11, <1>12, InHandStep

\* A SET of the entry in hand, with the time to live that it may end after.
LEMMA SetStep ==
  ASSUME Sequential, Whole, OneMap, NEW ttl \in Int, NEW place \in {"setReply", "registerReply"},
         call[Only].pc \in {"set", "register"}, call[Only].pc = "register" => place = "registerReply",
         Port!MayEnd(call[Only].entry, clock + ttl * Second),
         SetKey(call[Only].agent, call[Only].entry, ttl), Goto(Only, place), UNCHANGED <<clock, cache>>
  PROVE  OneMap' /\ [Port!Next]_(Port!vars)
<1> PICK a \in Agents : a = call[Only].agent
  BY Typed
<1> DEFINE r == call[Only]
           e == r.entry
           s == Moved(r, place, e, r.ttl)
           key2 == Until(e, clock + ttl * Second)
<1>1. /\ a \in Agents /\ e \in Entry /\ clock \in Nat /\ Only \in Calls
  BY Typed DEF InHand
<1>2. /\ call' = [call EXCEPT ![Only] = s] /\ store' = [store EXCEPT ![a] = key2]
  BY DEF Goto, Move, SetKey
<1>3. /\ call'[Only] = s /\ store'[a] = key2 /\ \A b \in Agents \ {a} : store'[b] = store[b]
  BY <1>1, <1>2 DEF Whole, TypeOK
<1>4. s.pc = place /\ s.op = r.op /\ s.agent = a /\ s.reg = r.reg /\ s.entry = e
  BY DEF Moved
<1>5. key2.entry = e /\ key2.expiresAt = clock + ttl * Second /\ key2 # None
  <2>1. key2 \in Timed
    BY <1>1, RoundingIsNat DEF Until, Timed
  <2> QED
    BY <2>1, NoneAssumption DEF Until
<1> HIDE DEF s, key2
<1>6. Focus(a)
  BY <1>3, <1>4 DEF Focus
<1>7. Aged(e)
  BY DEF OneMap, Handled
<1>8. Sound(a)'
  BY <1>1, <1>3, <1>5, <1>7 DEF OneMap, Sound, Aged
<1>9. Backed(key2, clock, e, clock + CacheTtl)
  BY <1>5 DEF Backed
<1>10. Handled(call[Only])'
  BY <1>3, <1>4, <1>7, <1>9 DEF Handled, Aged
<1>11. Registers(call[Only])'
  BY <1>3, <1>4 DEF OneMap, Registers
<1> QED
  BY <1>3, <1>4, <1>6, <1>8, <1>10, <1>11, InHandStep

LEMMA RefreshStep ==
  ASSUME Sequential, Whole, OneMap, Refresh(Only)
  PROVE  OneMap' /\ [Port!Next]_(Port!vars)
<1>1. /\ call[Only].pc = "set" /\ call[Only].ttl \in Int
      /\ SetKey(call[Only].agent, call[Only].entry, call[Only].ttl) /\ Goto(Only, "setReply")
      /\ UNCHANGED <<clock, cache>>
  BY Typed DEF Refresh, Sends, Call
<1>2. Port!MayEnd(call[Only].entry, clock + call[Only].ttl * Second)
  BY <1>1 DEF OneMap, Handled
<1> QED
  BY <1>1, <1>2, SetStep

LEMMA SetRegistrationStep ==
  ASSUME Sequential, Whole, OneMap, SetRegistration(Only)
  PROVE  OneMap' /\ [Port!Next]_(Port!vars)
<1>1. /\ call[Only].pc = "register" /\ call[Only].reg.ttl \in Int
      /\ SetKey(call[Only].agent, call[Only].entry, call[Only].reg.ttl)
      /\ Goto(Only, "registerReply") /\ UNCHANGED <<clock, cache>>
  BY Typed DEF SetRegistration, Sends, InHand, Registration
<1>2. Port!MayEnd(call[Only].entry, clock + call[Only].reg.ttl * Second)
  BY <1>1 DEF OneMap, Handled
<1> QED
  BY <1>1, <1>2, SetStep

LEMMA RefreshReplyStep ==
  ASSUME Sequential, Whole, OneMap, RefreshReply(Only)
  PROVE  OneMap' /\ [Port!Next]_(Port!vars)
<1> PICK a \in Agents : a = call[Only].agent
  BY Typed
<1> DEFINE r == call[Only]
           e == r.entry
           copy2 == Until(e, clock + CacheTtl)
           s == Resolved(r, e)
<1>1. /\ r.pc = "setReply" /\ e \in Entry /\ r.instance = Here
      /\ call' = [call EXCEPT ![Only] = s]
      /\ cache' = [cache EXCEPT ![Here][a] = copy2]
      /\ UNCHANGED <<clock, store>>
  BY Typed DEF RefreshReply, At, CacheEntry, InHand
<1>2. /\ clock \in Nat /\ CacheTtl \in Nat
      /\ copy2.entry = e /\ copy2.expiresAt = clock + CacheTtl /\ copy2 # None
  <2>1. copy2 \in Timed
    BY <1>1, Typed, ConstantsAssumption DEF Until, Timed
  <2> QED
    BY <2>1, Typed, ConstantsAssumption, NoneAssumption DEF Until
<1>3. s.agent = a
  BY DEF Resolved, Moved
<1> HIDE DEF s, copy2
<1>4. /\ call'[Only] = s /\ cache'[Here][a] = copy2
      /\ \A b \in Agents \ {a} : cache'[Here][b] = cache[Here][b]
  BY <1>1, Typed DEF Whole, TypeOK
<1>5. Focus(a)
  BY <1>1, <1>3, <1>4 DEF Focus
<1>6. Held(a) /\ View(a) = e /\ Answer = <<>> /\ Found(a)' = e
  BY <1>1, <1>2, <1>4 DEF Held, View, Answer, At, Found
<1>7. Aged(e) /\ Backed(store[a], clock, e, clock + CacheTtl) /\ Sound(a)
  BY <1>1 DEF OneMap, Handled
<1>8. Sound(a)'
  <2>1. copy2.expiresAt >= e.lastHeartbeat + CacheTtl
    BY <1>1, <1>2, <1>7 DEF Aged, Entry
  <2> QED
    BY <1>1, <1>2, <1>4, <1>7, <2>1 DEF Sound, Aged
<1>9. Kept(a)'
  BY <1>1, <1>2, <1>4, <1>7 DEF Kept
<1>10. r.op = "register" =>
         /\ r.reg \in Registration /\ r.reg.expiresAt \in Expiries
         /\ r.reg.now <= clock /\ r.reg.now < r.reg.expiresAt
         /\ r.reg.now + r.reg.ttl * Second >= r.reg.expiresAt - (Second - 1)
         /\ e.registeredAt <= r.reg.now
  BY <1>1, Typed DEF OneMap, Registers, InHand
<1>11. r.agent = a /\ call'[Only] = Resolved(r, e)
  BY <1>4 DEF s
<1> HIDE DEF r, e
<1> QED
  BY <1>1, <1>5, <1>6, <1>8, <1>9, <1>10, <1>11, Resolving

\* The end of the call: no entry is in hand any more.
LEMMA EndStep ==
  ASSUME Sequential, Whole, OneMap, End(Only), NEW a \in Agents, a = call[Only].agent,
         Focus(a), Sound(a)', Kept(a)'
  PROVE  OneMap' /\ View(a)' = Found(a)' /\ Answer' = <<>>
<1>1. call'[Only] = IdleCall
  BY Typed DEF End, Whole, TypeOK
<1>2. Handled(call[Only])' /\ Registers(call[Only])'
  BY <1>1 DEF Handled, Registers, IdleCall
<1>3. View(a)' = Found(a)' /\ Answer' = <<>>
  BY <1>1 DEF View, Held, Gone, At, Answer, IdleCall
<1> QED
  BY <1>2, <1>3, FocusedMap

LEMMA EndFocus ==
  ASSUME Sequential, Whole, End(Only), NEW a \in Agents, a = call[Only].agent, UNCHANGED clock,
         \A b \in Agents \ {a} : store'[b] = store[b] /\ cache'[Here][b] = cache[Here][b]
  PROVE  Focus(a)
<1>1. call'[Only] = IdleCall
  BY Typed DEF End, Whole, TypeOK
<1> QED
  BY <1>1 DEF Focus, IdleCall

LEMMA ReturnAnswerStep ==
  ASSUME Sequential, Whole, OneMap, ReturnAnswer(Only)
  PROVE  OneMap' /\ [Port!Next]_(Port!vars)
<1> PICK a \in Agents : a = call[Only].agent
  BY Typed
<1>1. call[Only].pc = "return" /\ End(Only) /\ UNCHANGED <<clock, store, cache>>
  BY DEF ReturnAnswer, At
<1>2. Sound(a) /\ Kept(a) /\ View(a) = Found(a)
  BY <1>1, Idle
<1>3. Focus(a) /\ Sound(a)' /\ Kept(a)' /\ Found(a)' = Found(a)
  BY <1>1, <1>2, EndFocus DEF Sound, Kept, Aged, Found
<1>4. OneMap' /\ View(a)' = View(a) /\ Answer' = <<>>
  BY <1>1, <1>2, <1>3, EndStep
<1>5. Answer # <<>>
  BY <1>1 DEF Answer, At
<1>6. Registry' = Registry
  BY <1>3, <1>4, FocusedView DEF Registry
<1>7. Port!Return
  BY <1>1, <1>4, <1>5, <1>6 DEF Port!Return
<1> QED
  BY <1>4, <1>7 DEF Port!Next

LEMMA RegisterReplyStep ==
  ASSUME Sequential, Whole, OneMap, RegisterReply(Only)
  PROVE  OneMap' /\ [Port!Next]_(Port!vars)
<1> PICK a \in Agents : a = call[Only].agent
  BY Typed
<1> DEFINE e == call[Only].entry
           copy2 == Until(e, clock + CacheTtl)
<1>1. /\ call[Only].pc = "registerReply" /\ e \in Entry /\ End(Only)
      /\ cache' = [cache EXCEPT ![Here][a] = copy2]
      /\ UNCHANGED <<clock, store>>
  BY Typed DEF RegisterReply, At, CacheEntry, InHand
<1>2. /\ clock \in Nat /\ CacheTtl \in Nat
      /\ copy2.entry = e /\ copy2.expiresAt = clock + CacheTtl /\ copy2 # None
  <2>1. copy2 \in Timed
    BY <1>1, Typed, ConstantsAssumption DEF Until, Timed
  <2> QED
    BY <2>1, Typed, ConstantsAssumption, NoneAssumption DEF Until
<1> HIDE DEF copy2
<1>3. /\ cache'[Here][a] = copy2
      /\ \A b \in Agents \ {a} : cache'[Here][b] = cache[Here][b]
  BY <1>1, Typed DEF Whole, TypeOK
<1>4. Focus(a)
  BY <1>1, <1>3, EndFocus
<1>5. View(a) = e /\ Answer = <<>> /\ Found(a)' = e
  BY <1>1, <1>2, <1>3 DEF Held, View, Answer, At, Found
<1>6. Aged(e) /\ Backed(store[a], clock, e, clock + CacheTtl) /\ Sound(a)
  BY <1>1 DEF OneMap, Handled
<1>7. Sound(a)'
  <2>1. copy2.expiresAt >= e.lastHeartbeat + CacheTtl
    BY <1>1, <1>2, <1>6 DEF Aged, Entry
  <2> QED
    BY <1>1, <1>2, <1>3, <1>6, <2>1 DEF Sound, Aged
<1>8. Kept(a)'
  BY <1>1, <1>2, <1>3, <1>6 DEF Kept
<1>9. OneMap' /\ View(a)' = View(a) /\ Answer' = Answer
  BY <1>1, <1>4, <1>5, <1>7, <1>8, EndStep
<1> QED
  BY <1>4, <1>9, Unnoticed

LEMMA DeleteKeyStep ==
  ASSUME Sequential, Whole, OneMap, DeleteKey(Only)
  PROVE  OneMap' /\ [Port!Next]_(Port!vars)
<1> PICK a \in Agents : a = call[Only].agent
  BY Typed
<1> DEFINE r == call[Only]
           s == Moved(r, "delReply", r.entry, r.ttl)
<1>1. /\ r.pc = "del" /\ call' = [call EXCEPT ![Only] = s]
      /\ store' = [store EXCEPT ![a] = None] /\ UNCHANGED <<clock, cache>>
  BY DEF DeleteKey, Sends, Goto, Move
<1>2. s.pc = "delReply" /\ s.agent = a
  BY DEF Moved
<1> HIDE DEF s
<1>3. /\ call'[Only] = s /\ store'[a] = None
      /\ \A b \in Agents \ {a} : store'[b] = store[b]
  BY <1>1, Typed DEF Whole, TypeOK
<1>4. Focus(a)
  BY <1>1, <1>2, <1>3 DEF Focus
<1>5. Gone(a)' /\ View(a)' = None /\ Answer = <<>> /\ Answer' = <<>>
  BY <1>1, <1>2, <1>3 DEF Gone, Held, View, Answer, At
<1>6. Sound(a)'
  BY <1>1, <1>3 DEF OneMap, Sound, Aged
<1>7. Handled(call[Only])' /\ Registers(call[Only])'
  BY <1>2, <1>3 DEF Handled, Registers
<1>8. Port!Deregister(a)
  BY <1>1, <1>4, <1>5, FocusedView DEF Port!Deregister
<1> QED
  BY <1>4, <1>5, <1>6, <1>7, <1>8, FocusedMap DEF Port!Next

LEMMA DeleteReplyStep ==
  ASSUME Sequential, Whole, OneMap, DeleteReply(Only)
  PROVE  OneMap' /\ [Port!Next]_(Port!vars)
<1> PICK a \in Agents : a = call[Only].agent
  BY Typed
<1>1. /\ call[Only].pc = "delReply" /\ End(Only)
      /\ cache' = [cache EXCEPT ![Here][a] = None] /\ UNCHANGED <<clock, store>>
  BY Typed DEF DeleteReply, At, Uncache
<1>2. /\ cache'[Here][a] = None
      /\ \A b \in Agents \ {a} : cache'[Here][b] = cache[Here][b]
  BY <1>1, Typed DEF Whole, TypeOK
<1>3. Focus(a)
  BY <1>1, <1>2, EndFocus
<1>4. View(a) = None /\ Answer = <<>> /\ store[a] = None
  BY <1>1 DEF Held, Gone, View, Answer, At, OneMap, Handled
<1>5. Sound(a)' /\ Kept(a)' /\ Found(a)' = None
  BY <1>1, <1>2, <1>4 DEF Sound, Kept, Found
<1>6. OneMap' /\ View(a)' = View(a) /\ Answer' = Answer
  BY <1>1, <1>3, <1>4, <1>5, EndStep
<1> QED
  BY <1>3, <1>6, Unnoticed

-----------------------------------------------------------------------------
(* The refinement *)

\* Every step is one of the port, or none.
LEMMA StepOfPort ==
  ASSUME Sequential, Whole, OneMap, [Next]_vars
  PROVE  OneMap' /\ [Port!Next]_(Port!vars)
<1>1. CASE Tick
  BY <1>1, TickStep DEF Port!Next
<1>2. ASSUME NEW c \in Calls, Start(c)
      PROVE  OneMap' /\ [Port!Next]_(Port!vars)
  <2>1. PICK i \in Instances, a \in Agents :
          \/ \E expiresAt \in Expiries : StartRegister(c, i, a, expiresAt)
          \/ StartResolve(c, i, a)
          \/ StartDeregister(c, i, a)
    BY <1>2 DEF Start
  <2>2. c = Only /\ i = Here
    BY DEF Sequential
  <2> QED
    BY <2>1, <2>2, StartRegisterStep, StartResolveStep, StartDeregisterStep
<1>3. ASSUME NEW c \in Calls, Continue(c)
      PROVE  OneMap' /\ [Port!Next]_(Port!vars)
  <2>1. c = Only /\ ~ RedisError(c)
    BY DEF Sequential, RedisError
  <2> QED
    BY <1>3, <2>1, GetAbsentStep, GetPresentStep, TtlStep, RefreshStep, RefreshReplyStep,
       ReturnAnswerStep, SetRegistrationStep, RegisterReplyStep, DeleteKeyStep, DeleteReplyStep
    DEF Continue
<1>4. ASSUME NEW i \in Instances, Crash(i)
      PROVE  FALSE
  BY <1>4 DEF Sequential, Crash
<1>5. CASE UNCHANGED vars
  <2>1. OneMap'
    BY <1>5 DEF vars, OneMap, Sound, Aged, Held, Gone, At, Kept, Handled, Registers
  <2>2. UNCHANGED Port!vars
    BY <1>5 DEF vars, Port!vars, Registry, Answer, View, Held, Gone, Found, At
  <2> QED
    BY <2>1, <2>2
<1> QED
  BY <1>1, <1>2, <1>3, <1>4, <1>5 DEF Next

LEMMA StartOfPort ==
  ASSUME Sequential, Init
  PROVE  OneMap /\ Port!Init
<1>1. Only \in Calls /\ Here \in Instances
  BY DEF Sequential
<1>2. call[Only] = IdleCall /\ \A a \in Agents : store[a] = None /\ cache[Here][a] = None
  BY <1>1 DEF Init
<1>3. \A a \in Agents : ~ Held(a) /\ ~ Gone(a) /\ Found(a) = None /\ Sound(a) /\ Kept(a)
  BY <1>2 DEF Held, Gone, At, Found, Sound, Kept, IdleCall
<1>4. Handled(call[Only]) /\ Registers(call[Only])
  BY <1>2 DEF Handled, Registers, IdleCall
<1>5. Registry = [a \in Agents |-> None] /\ Answer = <<>>
  BY <1>2, <1>3 DEF Registry, View, Answer, At, IdleCall
<1> QED
  BY <1>3, <1>4, <1>5 DEF OneMap, Port!Init, Init

\* Used sequentially, the Redis adapter implements the registry port: register, resolve
\* and deregister take effect at one instant each, and an entry lapses early by less than
\* a second and what the rounding of TTL takes off at each write-back.
THEOREM RedisImplementsPort == Sequential /\ Spec => ImplementsPort
<1> SUFFICES ASSUME Sequential PROVE Spec => ImplementsPort
  OBVIOUS
<1>1. Init => Whole /\ OneMap /\ Port!Init
  BY WholeInit, StartOfPort
<1>2. Whole /\ OneMap /\ [Next]_vars => (Whole /\ OneMap)' /\ [Port!Next]_(Port!vars)
  BY WholeStep, StepOfPort
<1> QED
  BY <1>1, <1>2, PTL DEF Spec, ImplementsPort, Port!Spec
=============================================================================
