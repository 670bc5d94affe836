------------------------ MODULE RedisRegistry_proofs ------------------------
(***************************************************************************)
(* Proofs about RedisRegistry, for any number of instances, agents, calls, *)
(* registrations and instants.                                             *)
(***************************************************************************)
EXTENDS RedisRegistry, TLAPS

\* What a call has in hand at each place: an entry from GET to the end of the
\* resolve, a registration throughout a register.
InHand(r) ==
  /\ r.pc \in {"ttl", "set", "setReply", "register", "registerReply"} => r.entry \in Entry
  /\ r.pc \in {"register", "registerReply"} => r.op = "register"
  /\ r.pc # "return" /\ r.op = "register" => r.reg \in Registration

Whole == TypeOK /\ \A c \in Calls : InHand(call[c])

LEMMA IdleIsCall == IdleCall \in Call /\ InHand(IdleCall)
<1>1. (CHOOSE i \in Instances : TRUE) \in Instances /\ (CHOOSE a \in Agents : TRUE) \in Agents
  BY ConstantsAssumption
<1> QED
  BY <1>1 DEF IdleCall, Call, Places, InHand

LEMMA NewEntryIsEntry ==
  ASSUME NEW reg \in Registration, NEW existing \in Entry \cup {None}
  PROVE  NewEntry(reg, existing) \in Entry /\ NewEntry(reg, existing).endpoint = reg.endpoint
BY DEF NewEntry, Registration, Entry

LEMMA TouchedIsEntry ==
  ASSUME TypeOK, NEW entry \in Entry
  PROVE  Touched(entry) \in Entry /\ Touched(entry).endpoint = entry.endpoint
BY DEF Touched, Entry, TypeOK

LEMMA MovedIsCall ==
  ASSUME NEW r \in Call, NEW place \in Places, NEW entry \in Entry \cup {None}, NEW ttl \in Int,
         /\ place \in {"ttl", "set", "setReply", "register", "registerReply"} => entry \in Entry
         /\ place \in {"register", "registerReply"} => r.op = "register"
         /\ r.op = "register" => r.reg \in Registration
  PROVE  Moved(r, place, entry, ttl) \in Call /\ InHand(Moved(r, place, entry, ttl))
BY DEF Moved, Call, InHand

LEMMA ResolvedIsCall ==
  ASSUME NEW r \in Call, r.op = "register" => r.reg \in Registration,
         NEW found \in Entry \cup {None}
  PROVE  Resolved(r, found) \in Call /\ InHand(Resolved(r, found))
<1>1. CASE r.op = "register"
  BY <1>1, NewEntryIsEntry, MovedIsCall DEF Resolved, Places
<1>2. CASE r.op # "register"
  BY <1>2, MovedIsCall DEF Resolved, Places
<1> QED
  BY <1>1, <1>2

LEMMA BeginResolveIsCall ==
  ASSUME TypeOK, NEW r \in Call, InHand(r), r.op = "register" => r.reg \in Registration
  PROVE  BeginResolve(r) \in Call /\ InHand(BeginResolve(r))
<1>1. CASE cache[r.instance][r.agent] # None
  <2>1. cache[r.instance][r.agent].entry \in Entry
    <3>1. r.instance \in Instances /\ r.agent \in Agents
      BY DEF Call
    <3> QED
      BY <1>1, <3>1 DEF TypeOK, Timed
  <2>2. BeginResolve(r) = Resolved(r, cache[r.instance][r.agent].entry)
    BY <1>1 DEF BeginResolve
  <2> QED
    BY <2>1, <2>2, ResolvedIsCall
<1>2. CASE cache[r.instance][r.agent] = None
  BY <1>2 DEF BeginResolve
<1> QED
  BY <1>1, <1>2

LEMMA BeginIsCall ==
  ASSUME NEW op \in {"register", "resolve", "deregister"}, NEW place \in {"get", "del"},
         NEW i \in Instances, NEW a \in Agents, NEW past \in SUBSET Endpoints,
         NEW reg \in Registration \cup {None}, op = "register" => reg \in Registration
  PROVE  /\ Begin(place, op, i, a, reg, past) \in Call
         /\ InHand(Begin(place, op, i, a, reg, past))
         /\ Begin(place, op, i, a, reg, past).op = op
         /\ Begin(place, op, i, a, reg, past).reg = reg
BY DEF Begin, Call, Places, InHand

\* What SET ... EX, TtlCache.set and the TTL command compute are instants.
LEMMA TimesAreIntegers ==
  ASSUME TypeOK
  PROVE  /\ \A a \in Agents : KeyTtl(a) \in Int
         /\ \A ttl \in Int : clock + ttl * Second \in Int
         /\ \A expiresAt \in Int : (expiresAt - clock) \div Second \in Int
         /\ clock + CacheTtl \in Int
<1>1. \A a \in Agents : KeyTtl(a) \in Int
  BY ConstantsAssumption DEF KeyTtl, TypeOK, Timed
<1>2. \A ttl \in Int : clock + ttl * Second \in Int
  BY ConstantsAssumption DEF TypeOK
<1>3. \A expiresAt \in Int : (expiresAt - clock) \div Second \in Int
  BY ConstantsAssumption DEF TypeOK
<1>4. clock + CacheTtl \in Int
  BY ConstantsAssumption DEF TypeOK
<1> QED
  BY <1>1, <1>2, <1>3, <1>4

LEMMA UntilIsTimed ==
  ASSUME NEW entry \in Entry, NEW expiresAt \in Int
  PROVE  Until(entry, expiresAt) \in Timed
BY DEF Until, Timed

\* A step leaves every entry, key, cached copy and call whole.
LEMMA WholeStep ==
  ASSUME Whole, [Next]_vars
  PROVE  Whole'
<1>0. /\ TypeOK /\ \A c \in Calls : call[c] \in Call /\ InHand(call[c])
      /\ \A c \in Calls : call[c].agent \in Agents /\ call[c].instance \in Instances
  BY DEF Whole, TypeOK, Call
<1> DEFINE Same == UNCHANGED <<clock, store, cache, registrations, written, dropped>>
\* Calls change one at a time.
<1>1. ASSUME NEW c \in Calls, NEW r \in Call, InHand(r), call' = [call EXCEPT ![c] = r]
      PROVE  call' \in [Calls -> Call] /\ \A d \in Calls : InHand(call'[d])
  BY <1>0, <1>1 DEF TypeOK
<1>2. ASSUME NEW c \in Calls, NEW r \in Call, InHand(r), call' = [call EXCEPT ![c] = r], Same
      PROVE  Whole'
  BY <1>0, <1>1, <1>2 DEF Whole, TypeOK
<1>3. ASSUME NEW c \in Calls, End(c)
      PROVE  call' \in [Calls -> Call] /\ \A d \in Calls : InHand(call'[d])
  BY <1>1, <1>3, IdleIsCall DEF End
<1>4. ASSUME NEW c \in Calls, NEW place \in Places, NEW entry \in Entry \cup {None},
             NEW ttl \in Int, Move(c, place, entry, ttl),
             call[c].pc # "return",
             /\ place \in {"ttl", "set", "setReply", "register", "registerReply"} => entry \in Entry
             /\ place \in {"register", "registerReply"} => call[c].op = "register"
      PROVE  call' \in [Calls -> Call] /\ \A d \in Calls : InHand(call'[d])
  <2>1. call[c].op = "register" => call[c].reg \in Registration
    BY <1>0, <1>4 DEF InHand
  <2>2. /\ Moved(call[c], place, entry, ttl) \in Call
        /\ InHand(Moved(call[c], place, entry, ttl))
    BY <1>0, <1>4, <2>1, MovedIsCall
  <2> QED
    BY <1>1, <1>4, <2>2 DEF Move
<1>5. ASSUME NEW c \in Calls, NEW i \in Instances, NEW a \in Agents, NEW expiresAt \in Expiries,
             StartRegister(c, i, a, expiresAt)
      PROVE  Whole'
  <2> DEFINE reg == [endpoint |-> registrations + 1, expiresAt |-> expiresAt, now |-> clock,
                     ttl |-> (expiresAt - clock) \div Second]
             r == Begin("get", "register", i, a, reg, {})
  <2>1. /\ registrations + 1 \in Endpoints /\ expiresAt \in Nat /\ clock \in Nat
        /\ (expiresAt - clock) \div Second \in Int
    BY <1>0, <1>5, TimesAreIntegers, ConstantsAssumption DEF StartRegister, TypeOK, Endpoints
  <2>2. reg \in Registration
    BY <2>1 DEF Registration
  <2>3. r \in Call /\ InHand(r) /\ r.op = "register" /\ r.reg = reg
    BY <2>2, BeginIsCall
  <2>4. BeginResolve(r) \in Call /\ InHand(BeginResolve(r))
    BY <1>0, <2>2, <2>3, BeginResolveIsCall
  <2>5. /\ call' = [call EXCEPT ![c] = BeginResolve(r)]
        /\ registrations' = registrations + 1
        /\ UNCHANGED <<clock, store, cache, written, dropped>>
    BY <1>5 DEF StartRegister
  <2> HIDE DEF r, reg
  <2>6. registrations' \in 0 .. MaxRegistrations
    BY <1>0, <1>5, <2>5, ConstantsAssumption DEF StartRegister, TypeOK
  <2> QED
    BY <1>0, <1>1, <2>4, <2>5, <2>6 DEF Whole, TypeOK
<1>6. ASSUME NEW c \in Calls, NEW i \in Instances, NEW a \in Agents, StartResolve(c, i, a)
      PROVE  Whole'
  <2> DEFINE r == Begin("get", "resolve", i, a, None, dropped[a])
  <2>1. r \in Call /\ InHand(r) /\ r.op = "resolve"
    BY <1>0, BeginIsCall DEF TypeOK
  <2>2. BeginResolve(r) \in Call /\ InHand(BeginResolve(r))
    BY <1>0, <2>1, BeginResolveIsCall
  <2>3. call' = [call EXCEPT ![c] = BeginResolve(r)] /\ Same
    BY <1>6 DEF StartResolve
  <2> HIDE DEF r
  <2> QED
    BY <1>2, <2>2, <2>3
<1>7. ASSUME NEW c \in Calls, NEW i \in Instances, NEW a \in Agents, StartDeregister(c, i, a)
      PROVE  Whole'
  <2> DEFINE r == Begin("del", "deregister", i, a, None, written[a])
  <2>1. r \in Call /\ InHand(r)
    BY <1>0, BeginIsCall DEF TypeOK
  <2>2. call' = [call EXCEPT ![c] = r] /\ Same
    BY <1>7 DEF StartDeregister
  <2> HIDE DEF r
  <2> QED
    BY <1>2, <2>1, <2>2
<1>8. ASSUME NEW c \in Calls, NEW found \in Entry \cup {None}, call[c].pc # "return",
             call' = [call EXCEPT ![c] = Resolved(call[c], found)]
      PROVE  call' \in [Calls -> Call] /\ \A d \in Calls : InHand(call'[d])
  <2>1. call[c].op = "register" => call[c].reg \in Registration
    BY <1>0, <1>8 DEF InHand
  <2>2. Resolved(call[c], found) \in Call /\ InHand(Resolved(call[c], found))
    BY <1>0, <2>1, ResolvedIsCall
  <2> QED
    BY <1>1, <1>8, <2>2
<1>9. ASSUME NEW c \in Calls, GetAbsent(c) PROVE Whole'
  BY <1>0, <1>8, <1>9 DEF GetAbsent, Sends, Whole, TypeOK
<1>10. ASSUME NEW c \in Calls, GetPresent(c) PROVE Whole'
  <2>1. store[call[c].agent].entry \in Entry
    BY <1>0, <1>10 DEF GetPresent, TypeOK, Timed
  <2>2. Touched(store[call[c].agent].entry) \in Entry
    BY <1>0, <2>1, TouchedIsEntry
  <2>3. /\ Move(c, "ttl", Touched(store[call[c].agent].entry), 0) /\ Same
        /\ call[c].pc = "get"
    BY <1>10 DEF GetPresent, Sends
  <2> QED
    BY <1>0, <1>4, <2>2, <2>3 DEF Whole, TypeOK, Places
<1>11. ASSUME NEW c \in Calls, Ttl(c) PROVE Whole'
  <2>1. call[c].pc = "ttl" /\ call[c].entry \in Entry /\ KeyTtl(call[c].agent) \in Int
    BY <1>0, <1>11, TimesAreIntegers DEF Ttl, Sends, InHand
  <2>2. /\ \/ Move(c, "set", call[c].entry, KeyTtl(call[c].agent))
           \/ Move(c, "setReply", call[c].entry, KeyTtl(call[c].agent))
        /\ Same
    BY <1>11 DEF Ttl
  <2> QED
    BY <1>0, <1>4, <2>1, <2>2 DEF Whole, TypeOK, Places
<1>12. ASSUME NEW c \in Calls, NEW place \in {"setReply", "registerReply"}, Goto(c, place),
              call[c].pc \in {"set", "register"},
              place = "registerReply" => call[c].op = "register"
       PROVE  call' \in [Calls -> Call] /\ \A d \in Calls : InHand(call'[d])
  <2>1. call[c].entry \in Entry /\ call[c].ttl \in Int
    BY <1>0, <1>12 DEF InHand, Call
  <2> QED
    BY <1>4, <1>12, <2>1 DEF Goto, Places
<1>13. ASSUME NEW a \in Agents, NEW entry \in Entry, NEW ttl \in Int, SetKey(a, entry, ttl)
       PROVE  store' \in [Agents -> Timed \cup {None}]
  <2>1. Until(entry, clock + ttl * Second) \in Timed
    BY <1>0, TimesAreIntegers, UntilIsTimed
  <2> QED
    BY <1>0, <1>13, <2>1 DEF SetKey, TypeOK
<1>14. ASSUME NEW i \in Instances, NEW a \in Agents, NEW entry \in Entry, CacheEntry(i, a, entry)
       PROVE  cache' \in [Instances -> [Agents -> Timed \cup {None}]]
  <2>1. Until(entry, clock + CacheTtl) \in Timed
    BY <1>0, TimesAreIntegers, UntilIsTimed
  <2> QED
    BY <1>0, <1>14, <2>1 DEF CacheEntry, TypeOK
<1>15. ASSUME NEW c \in Calls, Refresh(c) PROVE Whole'
  <2>1. call[c].pc = "set" /\ call[c].entry \in Entry /\ call[c].ttl \in Int
    BY <1>0, <1>15 DEF Refresh, Sends, InHand, Call
  <2>2. store' \in [Agents -> Timed \cup {None}]
    BY <1>0, <1>13, <1>15, <2>1 DEF Refresh
  <2>3. call' \in [Calls -> Call] /\ \A d \in Calls : InHand(call'[d])
    BY <1>12, <1>15, <2>1 DEF Refresh
  <2> QED
    BY <1>0, <1>15, <2>2, <2>3 DEF Refresh, Whole, TypeOK
<1>16. ASSUME NEW c \in Calls, RefreshReply(c) PROVE Whole'
  <2>1. call[c].pc = "setReply" /\ call[c].entry \in Entry
    BY <1>0, <1>16 DEF RefreshReply, At, InHand
  <2>2. cache' \in [Instances -> [Agents -> Timed \cup {None}]]
    BY <1>0, <1>14, <1>16, <2>1 DEF RefreshReply
  <2>3. call' \in [Calls -> Call] /\ \A d \in Calls : InHand(call'[d])
    BY <1>8, <1>16, <2>1 DEF RefreshReply
  <2> QED
    BY <1>0, <1>16, <2>2, <2>3 DEF RefreshReply, Whole, TypeOK
<1>17. ASSUME NEW c \in Calls, SetRegistration(c) PROVE Whole'
  <2>1. /\ call[c].pc = "register" /\ call[c].entry \in Entry /\ call[c].op = "register"
        /\ call[c].reg \in Registration
    BY <1>0, <1>17 DEF SetRegistration, Sends, InHand
  <2>2. call[c].reg.ttl \in Int /\ call[c].entry.endpoint \in Endpoints
    BY <2>1 DEF Registration, Entry
  <2>3. store' \in [Agents -> Timed \cup {None}]
    BY <1>0, <1>13, <1>17, <2>1, <2>2 DEF SetRegistration
  <2>4. call' \in [Calls -> Call] /\ \A d \in Calls : InHand(call'[d])
    BY <1>12, <1>17, <2>1 DEF SetRegistration
  <2> QED
    BY <1>0, <1>17, <2>2, <2>3, <2>4 DEF SetRegistration, Whole, TypeOK
<1>18. ASSUME NEW c \in Calls, RegisterReply(c) PROVE Whole'
  <2>1. call[c].entry \in Entry
    BY <1>0, <1>18 DEF RegisterReply, At, InHand
  <2>2. cache' \in [Instances -> [Agents -> Timed \cup {None}]]
    BY <1>0, <1>14, <1>18, <2>1 DEF RegisterReply
  <2> QED
    BY <1>0, <1>3, <1>18, <2>2 DEF RegisterReply, Whole, TypeOK
<1>19. ASSUME NEW c \in Calls, DeleteKey(c) PROVE Whole'
  <2>1. /\ call[c].pc = "del" /\ call[c].entry \in Entry \cup {None} /\ call[c].ttl \in Int
        /\ Move(c, "delReply", call[c].entry, call[c].ttl)
    BY <1>0, <1>19 DEF DeleteKey, Sends, Goto, Call
  <2>2. call' \in [Calls -> Call] /\ \A d \in Calls : InHand(call'[d])
    BY <1>4, <2>1 DEF Places
  <2> QED
    BY <1>0, <1>19, <2>2 DEF DeleteKey, Whole, TypeOK
<1>20. ASSUME NEW c \in Calls, DeleteReply(c) PROVE Whole'
  <2>1. call[c].past \in SUBSET Endpoints
    BY <1>0 DEF Call
  <2> QED
    BY <1>0, <1>3, <1>20, <2>1 DEF DeleteReply, Uncache, Whole, TypeOK
<1>21. ASSUME NEW c \in Calls, ReturnAnswer(c) \/ RedisError(c) PROVE Whole'
  BY <1>0, <1>3, <1>21 DEF ReturnAnswer, RedisError, Whole, TypeOK
<1>22. ASSUME NEW i \in Instances, Crash(i) PROVE Whole'
  BY <1>0, <1>22, IdleIsCall DEF Crash, Whole, TypeOK
<1>23. CASE Tick
  BY <1>0, <1>23, ConstantsAssumption DEF Tick, Whole, TypeOK
<1>24. CASE UNCHANGED vars
  BY <1>0, <1>24 DEF vars, Whole, TypeOK
<1> QED
  BY <1>5, <1>6, <1>7, <1>9, <1>10, <1>11, <1>15, <1>16, <1>17, <1>18, <1>19, <1>20,
     <1>21, <1>22, <1>23, <1>24
  DEF Next, Start, Continue

LEMMA WholeInit == Init => Whole
BY IdleIsCall, ConstantsAssumption DEF Init, Whole, TypeOK

\* Every entry, key, cached copy and call in flight is whole.
THEOREM TypeCorrect == Spec => []TypeOK
<1>1. Whole => TypeOK
  BY DEF Whole
<1>2. Whole /\ [Next]_vars => Whole'
  BY WholeStep
<1> QED
  BY <1>1, <1>2, WholeInit, PTL DEF Spec

-----------------------------------------------------------------------------
\* The entry of call r, once it was read from Redis or set in it.
Sourced(r, w) ==
  r.pc \in {"ttl", "set", "setReply", "return", "registerReply"} /\ r.entry # None
  => r.entry.endpoint \in w[r.agent]

LEMMA OnlyWrittenParts ==
  OnlyWritten <=> /\ \A a \in Agents : store[a] # None => store[a].entry.endpoint \in written[a]
                  /\ \A i \in Instances, a \in Agents :
                       cache[i][a] # None => cache[i][a].entry.endpoint \in written[a]
                  /\ \A c \in Calls : call[c].agent \in Agents => Sourced(call[c], written)
BY DEF OnlyWritten, Sourced

LEMMA OnlyWrittenPartsNext ==
  OnlyWritten' <=> /\ \A a \in Agents : store'[a] # None => store'[a].entry.endpoint \in written'[a]
                   /\ \A i \in Instances, a \in Agents :
                        cache'[i][a] # None => cache'[i][a].entry.endpoint \in written'[a]
                   /\ \A c \in Calls : call'[c].agent \in Agents => Sourced(call'[c], written')
BY DEF OnlyWritten, Sourced

\* A step sets keys, caches entries and answers calls from what was written.
LEMMA OnlyWrittenStep ==
  ASSUME Whole, OnlyWritten, [Next]_vars
  PROVE  OnlyWritten'
<1>0. /\ TypeOK
      /\ \A c \in Calls : /\ call[c] \in Call /\ InHand(call[c]) /\ Sourced(call[c], written)
                          /\ call[c].agent \in Agents /\ call[c].instance \in Instances
      /\ \A a \in Agents : store[a] # None => store[a].entry.endpoint \in written[a]
      /\ \A i \in Instances, a \in Agents :
           cache[i][a] # None => cache[i][a].entry.endpoint \in written[a]
  BY OnlyWrittenParts DEF Whole, TypeOK, Call
<1> DEFINE Same == UNCHANGED <<clock, store, cache, registrations, written, dropped>>
<1>1. ASSUME NEW c \in Calls, NEW r, Sourced(r, written), call' = [call EXCEPT ![c] = r]
      PROVE  \A d \in Calls : call'[d].agent \in Agents => Sourced(call'[d], written)
  BY <1>0, <1>1 DEF TypeOK
<1>2. ASSUME NEW c \in Calls, NEW r, Sourced(r, written), call' = [call EXCEPT ![c] = r], Same
      PROVE  OnlyWritten'
  BY <1>0, <1>1, <1>2, OnlyWrittenPartsNext
<1>3. Sourced(IdleCall, written)
  BY DEF Sourced, IdleCall
<1>4. ASSUME NEW r, NEW found, found # None => found.endpoint \in written[r.agent]
      PROVE  Sourced(Resolved(r, found), written)
  BY <1>4 DEF Sourced, Resolved, Moved
<1>5. ASSUME NEW c \in Calls, NEW place, NEW entry, NEW ttl, Move(c, place, entry, ttl),
             entry # None /\ place \in {"ttl", "set", "setReply", "return", "registerReply"}
             => entry.endpoint \in written[call[c].agent]
      PROVE  \A d \in Calls : call'[d].agent \in Agents => Sourced(call'[d], written)
  <2>1. Sourced(Moved(call[c], place, entry, ttl), written)
    BY <1>5 DEF Sourced, Moved
  <2> QED
    BY <1>1, <1>5, <2>1 DEF Move
<1>6. ASSUME NEW r, r.pc = "get", r.instance \in Instances, r.agent \in Agents
      PROVE  Sourced(BeginResolve(r), written)
  BY <1>0, <1>4, <1>6 DEF BeginResolve, Sourced
<1>7. ASSUME NEW c \in Calls, NEW i \in Instances, NEW a \in Agents, NEW expiresAt \in Expiries,
             StartRegister(c, i, a, expiresAt)
      PROVE  OnlyWritten'
  <2> DEFINE reg == [endpoint |-> registrations + 1, expiresAt |-> expiresAt, now |-> clock,
                     ttl |-> (expiresAt - clock) \div Second]
             r == Begin("get", "register", i, a, reg, {})
  <2>1. r.pc = "get" /\ r.instance = i /\ r.agent = a
    BY DEF Begin
  <2>2. /\ call' = [call EXCEPT ![c] = BeginResolve(r)]
        /\ UNCHANGED <<clock, store, cache, written, dropped>>
    BY <1>7 DEF StartRegister
  <2> HIDE DEF r
  <2>3. Sourced(BeginResolve(r), written)
    BY <1>6, <2>1
  <2> QED
    BY <1>0, <1>1, <2>2, <2>3, OnlyWrittenPartsNext
<1>8. ASSUME NEW c \in Calls, NEW i \in Instances, NEW a \in Agents, StartResolve(c, i, a)
      PROVE  OnlyWritten'
  <2> DEFINE r == Begin("get", "resolve", i, a, None, dropped[a])
  <2>1. r.pc = "get" /\ r.instance = i /\ r.agent = a
    BY DEF Begin
  <2>2. call' = [call EXCEPT ![c] = BeginResolve(r)] /\ Same
    BY <1>8 DEF StartResolve
  <2> HIDE DEF r
  <2>3. Sourced(BeginResolve(r), written)
    BY <1>6, <2>1
  <2> QED
    BY <1>2, <2>2, <2>3
<1>9. ASSUME NEW c \in Calls, NEW i \in Instances, NEW a \in Agents, StartDeregister(c, i, a)
      PROVE  OnlyWritten'
  <2>1. Sourced(Begin("del", "deregister", i, a, None, written[a]), written)
    BY DEF Begin, Sourced
  <2> QED
    BY <1>2, <1>9, <2>1 DEF StartDeregister
<1>10. ASSUME NEW c \in Calls, GetAbsent(c) PROVE OnlyWritten'
  <2>1. Sourced(Resolved(call[c], None), written)
    BY <1>4
  <2> QED
    BY <1>2, <1>10, <2>1 DEF GetAbsent
<1>11. ASSUME NEW c \in Calls, GetPresent(c) PROVE OnlyWritten'
  <2>1. /\ Touched(store[call[c].agent].entry).endpoint \in written[call[c].agent]
        /\ Move(c, "ttl", Touched(store[call[c].agent].entry), 0) /\ Same
    BY <1>0, <1>11 DEF GetPresent, Touched
  <2> QED
    BY <1>0, <1>5, <2>1, OnlyWrittenPartsNext
<1>12. ASSUME NEW c \in Calls, Ttl(c) PROVE OnlyWritten'
  <2>1. call[c].entry # None => call[c].entry.endpoint \in written[call[c].agent]
    BY <1>0, <1>12 DEF Ttl, Sends, Sourced
  <2>2. /\ \/ Move(c, "set", call[c].entry, KeyTtl(call[c].agent))
           \/ Move(c, "setReply", call[c].entry, KeyTtl(call[c].agent))
        /\ Same
    BY <1>12 DEF Ttl
  <2> QED
    BY <1>0, <1>5, <2>1, <2>2, OnlyWrittenPartsNext
<1>13. ASSUME NEW c \in Calls, Refresh(c) PROVE OnlyWritten'
  <2>1. call[c].entry # None => call[c].entry.endpoint \in written[call[c].agent]
    BY <1>0, <1>13 DEF Refresh, Sends, Sourced
  <2>2. call[c].entry # None
    BY <1>0, <1>13, NoneAssumption DEF Refresh, Sends, InHand
  <2>3. /\ store' = [store EXCEPT ![call[c].agent] =
                       Until(call[c].entry, clock + call[c].ttl * Second)]
        /\ Move(c, "setReply", call[c].entry, call[c].ttl)
        /\ UNCHANGED <<clock, cache, registrations, written, dropped>>
    BY <1>13 DEF Refresh, SetKey, Goto
  <2>4. \A a \in Agents : store'[a] # None => store'[a].entry.endpoint \in written[a]
    BY <1>0, <2>1, <2>2, <2>3 DEF Until, TypeOK
  <2> QED
    BY <1>0, <1>5, <2>1, <2>3, <2>4, OnlyWrittenPartsNext
<1>14. ASSUME NEW c \in Calls, NEW w \in written[call[c].agent],
              CacheEntry(call[c].instance, call[c].agent, call[c].entry),
              call[c].entry.endpoint = w
       PROVE  \A i \in Instances, a \in Agents :
                cache'[i][a] # None => cache'[i][a].entry.endpoint \in written[a]
  BY <1>0, <1>14 DEF CacheEntry, Until, TypeOK
<1>15. ASSUME NEW c \in Calls, RefreshReply(c) PROVE OnlyWritten'
  <2>1. call[c].entry.endpoint \in written[call[c].agent]
    BY <1>0, <1>15, NoneAssumption DEF RefreshReply, At, Sourced, InHand
  <2>2. \A i \in Instances, a \in Agents :
          cache'[i][a] # None => cache'[i][a].entry.endpoint \in written[a]
    BY <1>14, <1>15, <2>1 DEF RefreshReply
  <2>3. Sourced(Resolved(call[c], call[c].entry), written)
    BY <1>4, <2>1
  <2>4. /\ call' = [call EXCEPT ![c] = Resolved(call[c], call[c].entry)]
        /\ UNCHANGED <<clock, store, registrations, written, dropped>>
    BY <1>15 DEF RefreshReply
  <2> QED
    BY <1>0, <1>1, <2>2, <2>3, <2>4, OnlyWrittenPartsNext
<1>16. ASSUME NEW c \in Calls, SetRegistration(c) PROVE OnlyWritten'
  <2>1. /\ written' = [written EXCEPT ![call[c].agent] = @ \cup {call[c].entry.endpoint}]
        /\ store' = [store EXCEPT ![call[c].agent] =
                       Until(call[c].entry, clock + call[c].reg.ttl * Second)]
        /\ call' = [call EXCEPT ![c] = Moved(call[c], "registerReply", call[c].entry, call[c].ttl)]
        /\ UNCHANGED <<clock, cache, registrations, dropped>>
    BY <1>16 DEF SetRegistration, SetKey, Goto, Move
  <2>2. \A a \in Agents : written[a] \subseteq written'[a]
    BY <1>0, <2>1 DEF TypeOK
  <2>3. call[c].entry.endpoint \in written'[call[c].agent]
    BY <1>0, <2>1 DEF TypeOK
  <2>4. \A a \in Agents : store'[a] # None => store'[a].entry.endpoint \in written'[a]
    BY <1>0, <2>1, <2>2, <2>3 DEF Until, TypeOK
  <2>5. Sourced(Moved(call[c], "registerReply", call[c].entry, call[c].ttl), written')
    BY <2>3 DEF Sourced, Moved
  <2>6. \A d \in Calls : call'[d].agent \in Agents => Sourced(call'[d], written')
    BY <1>0, <2>1, <2>2, <2>5 DEF Sourced, TypeOK
  <2> QED
    BY <1>0, <2>1, <2>2, <2>4, <2>6, OnlyWrittenPartsNext
<1>17. ASSUME NEW c \in Calls, RegisterReply(c) PROVE OnlyWritten'
  <2>1. call[c].entry.endpoint \in written[call[c].agent]
    BY <1>0, <1>17, NoneAssumption DEF RegisterReply, At, Sourced, InHand
  <2>2. \A i \in Instances, a \in Agents :
          cache'[i][a] # None => cache'[i][a].entry.endpoint \in written[a]
    BY <1>14, <1>17, <2>1 DEF RegisterReply
  <2>3. /\ call' = [call EXCEPT ![c] = IdleCall]
        /\ UNCHANGED <<clock, store, registrations, written, dropped>>
    BY <1>17 DEF RegisterReply, End
  <2> QED
    BY <1>0, <1>1, <1>3, <2>2, <2>3, OnlyWrittenPartsNext
<1>18. ASSUME NEW c \in Calls, DeleteKey(c) PROVE OnlyWritten'
  <2>1. /\ store' = [store EXCEPT ![call[c].agent] = None]
        /\ Move(c, "delReply", call[c].entry, call[c].ttl)
        /\ UNCHANGED <<clock, cache, registrations, written, dropped>>
    BY <1>18 DEF DeleteKey, Goto
  <2>2. \A a \in Agents : store'[a] # None => store'[a].entry.endpoint \in written[a]
    BY <1>0, <2>1 DEF TypeOK
  <2> QED
    BY <1>0, <1>5, <2>1, <2>2, OnlyWrittenPartsNext
<1>19. ASSUME NEW c \in Calls, DeleteReply(c) PROVE OnlyWritten'
  <2>1. /\ cache' = [cache EXCEPT ![call[c].instance][call[c].agent] = None]
        /\ call' = [call EXCEPT ![c] = IdleCall]
        /\ UNCHANGED <<clock, store, registrations, written>>
    BY <1>19 DEF DeleteReply, Uncache, End
  <2>2. \A i \in Instances, a \in Agents :
          cache'[i][a] # None => cache'[i][a].entry.endpoint \in written[a]
    BY <1>0, <2>1 DEF TypeOK
  <2> QED
    BY <1>0, <1>1, <1>3, <2>1, <2>2, OnlyWrittenPartsNext
<1>20. ASSUME NEW c \in Calls, ReturnAnswer(c) \/ RedisError(c) PROVE OnlyWritten'
  BY <1>2, <1>3, <1>20 DEF ReturnAnswer, RedisError, End
<1>21. ASSUME NEW i \in Instances, Crash(i) PROVE OnlyWritten'
  BY <1>0, <1>3, <1>21, OnlyWrittenPartsNext DEF Crash, TypeOK
<1>22. CASE Tick
  BY <1>0, <1>22, OnlyWrittenPartsNext DEF Tick
<1>23. CASE UNCHANGED vars
  BY <1>0, <1>23, OnlyWrittenPartsNext DEF vars
<1> QED
  BY <1>7, <1>8, <1>9, <1>10, <1>11, <1>12, <1>13, <1>15, <1>16, <1>17, <1>18, <1>19,
     <1>20, <1>21, <1>22, <1>23
  DEF Next, Start, Continue

\* No instance ever stores, caches or hands out an entry that no register of the
\* agent has set in Redis.
THEOREM OnlyWrittenAlways == Spec => []OnlyWritten
<1>1. Init => Whole /\ OnlyWritten
  <2>1. Sourced(IdleCall, written)
    BY DEF Sourced, IdleCall
  <2>2. Init => OnlyWritten
    BY <2>1, OnlyWrittenParts DEF Init
  <2> QED
    BY <2>2, WholeInit
<1>2. Whole /\ OnlyWritten /\ [Next]_vars => (Whole /\ OnlyWritten)'
  BY WholeStep, OnlyWrittenStep
<1> QED
  BY <1>1, <1>2, PTL DEF Spec

-----------------------------------------------------------------------------
(* Registrations that are over *)

\* A register that has not sent its SET yet.
Pending(r) == r.op = "register" /\ r.pc \in {"get", "ttl", "set", "setReply", "register"}

\* What a pending register is going to set is not set yet.
Unsent(r) ==
  Pending(r) =>
    /\ r.reg.endpoint <= registrations
    /\ \A a \in Agents : r.reg.endpoint \notin written[a]
    /\ r.pc = "register" => r.entry.endpoint = r.reg.endpoint

\* Endpoints are given out in order, and no two pending registers have the same.
Numbered ==
  /\ \A a \in Agents : \A e \in written[a] : e <= registrations
  /\ \A c \in Calls : Unsent(call[c])
  /\ \A c, d \in Calls :
       Pending(call[c]) /\ Pending(call[d]) /\ c # d => call[c].reg.endpoint # call[d].reg.endpoint

\* Call r goes on as s: still the same register, if it is pending at all.
Follows(r, s) ==
  Pending(s) =>
    /\ Pending(r) /\ s.reg = r.reg
    /\ s.pc = "register" => s.entry.endpoint = s.reg.endpoint

\* How call c goes on after a step that gives out no endpoint and sets none.
Onward(c) ==
  /\ call' = [call EXCEPT ![c] = call'[c]]
  /\ Follows(call[c], call'[c])
  /\ UNCHANGED <<registrations, written>>

LEMMA NumberedOnward ==
  ASSUME Whole, Numbered, NEW c \in Calls, Onward(c)
  PROVE  Numbered'
<1>1. \A d \in Calls : d # c => call'[d] = call[d]
  BY DEF Onward, Whole, TypeOK
<1>2. \A d \in Calls : Follows(call[d], call'[d])
  <2>1. \A d \in Calls : d # c => Follows(call[d], call'[d])
    BY <1>1 DEF Follows, Numbered, Unsent
  <2> QED
    BY <2>1 DEF Onward
<1>3. registrations' = registrations /\ written' = written
  BY DEF Onward
<1>4. \A d \in Calls : Unsent(call[d])'
  BY <1>2, <1>3 DEF Numbered, Unsent, Follows
<1> QED
  BY <1>2, <1>3, <1>4 DEF Numbered, Follows

LEMMA IdleFollows == ASSUME NEW r PROVE Follows(r, IdleCall)
BY DEF Follows, Pending, IdleCall

LEMMA MovedFollows ==
  ASSUME NEW r, r.pc \in {"get", "ttl", "set", "setReply", "register"} \/ r.op # "register",
         NEW place \in Places \ {"register"}, NEW entry, NEW ttl
  PROVE  Follows(r, Moved(r, place, entry, ttl))
BY DEF Follows, Pending, Moved

LEMMA ResolvedFollows ==
  ASSUME NEW r, r.pc \in {"get", "setReply"}, NEW found
  PROVE  /\ Follows(r, Resolved(r, found))
         /\ Resolved(r, found).pc \in {"register", "return"}
         /\ Resolved(r, found).agent = r.agent
         /\ Resolved(r, found).pc = "register" =>
              r.op = "register" /\ Resolved(r, found).entry.endpoint = r.reg.endpoint
BY DEF Follows, Pending, Resolved, Moved, NewEntry

\* What a call may hold after its step for a registration that is over to stay so.
Harmless(s) ==
  \A a \in Agents : \A e \in written[a] :
    Over(a, e) => ~ (/\ s.agent = a
                     /\ s.pc \in {"ttl", "set", "setReply", "register", "registerReply"}
                     /\ s.entry.endpoint = e)

\* A step in which call c goes on as s, and Redis and the caches change at most to an
\* entry that s carries.
LEMMA StaysOverWhen ==
  ASSUME Whole, NEW c \in Calls, NEW s, call' = [call EXCEPT ![c] = s], Harmless(s),
         \A a \in Agents : \A e \in written[a] : Over(a, e) =>
           /\ Of(store'[a]) # e
           /\ \A i \in Instances : Of(cache'[i][a]) = e => cache'[i][a] = cache[i][a]
  PROVE  StaysOver
<1>1. \A d \in Calls : call'[d] = IF d = c THEN s ELSE call[d]
  BY DEF Whole, TypeOK
<1> SUFFICES ASSUME NEW a \in Agents, NEW e \in written[a], Over(a, e)
             PROVE  \A d \in Calls : ~ Carries(d, a, e)'
  BY DEF StaysOver, Over
<1> QED
  BY <1>1 DEF Over, Carries, Harmless

\* Of a registration that is over, neither Redis nor a call on its way has the entry.
LEMMA OverParts ==
  ASSUME Whole, Numbered, NEW c \in Calls
  PROVE  /\ call[c].pc \in {"ttl", "set", "setReply", "register", "registerReply"} =>
              \A e \in written[call[c].agent] :
                Over(call[c].agent, e) => call[c].entry.endpoint # e
         /\ call[c].pc \in {"get", "setReply"} /\ call[c].op = "register" =>
              call[c].reg.endpoint \notin written[call[c].agent]
<1>1. call[c].agent \in Agents
  BY DEF Whole, TypeOK, Call
<1> QED
  BY <1>1 DEF Over, Carries, Numbered, Unsent, Pending

LEMMA EndpointsPositive ==
  ASSUME Whole, NEW a \in Agents, NEW e \in written[a]
  PROVE  Of(None) # e
BY DEF Whole, TypeOK, Endpoints, Of

LEMMA OverStep ==
  ASSUME Whole, Numbered, [Next]_vars
  PROVE  Numbered' /\ StaysOver
<1>0. /\ TypeOK /\ \A c \in Calls : call[c] \in Call /\ InHand(call[c])
      /\ \A c \in Calls : call[c].agent \in Agents /\ call[c].instance \in Instances
  BY DEF Whole, TypeOK, Call
<1> DEFINE Same == UNCHANGED <<clock, store, cache, registrations, written, dropped>>
<1>1. ASSUME UNCHANGED <<store, cache>>
      PROVE  \A a \in Agents : \A e \in written[a] : Over(a, e) =>
               /\ Of(store'[a]) # e
               /\ \A i \in Instances : Of(cache'[i][a]) = e => cache'[i][a] = cache[i][a]
  BY <1>1 DEF Over
<1>2. ASSUME NEW c \in Calls, NEW s, call' = [call EXCEPT ![c] = s], Follows(call[c], s),
             UNCHANGED <<registrations, written>>
      PROVE  Numbered'
  <2>1. Onward(c)
    BY <1>0, <1>2 DEF Onward, TypeOK
  <2> QED
    BY <2>1, NumberedOnward
<1>3. Harmless(IdleCall)
  BY DEF Harmless, IdleCall
<1>4. ASSUME NEW c \in Calls, NEW s, call' = [call EXCEPT ![c] = s], Follows(call[c], s), Harmless(s), Same
      PROVE  Numbered' /\ StaysOver
  BY <1>1, <1>2, <1>4, StaysOverWhen
<1>5. ASSUME NEW c \in Calls, NEW found, call[c].pc \in {"get", "setReply"}
      PROVE  Follows(call[c], Resolved(call[c], found)) /\ Harmless(Resolved(call[c], found))
  <2>1. Resolved(call[c], found).pc = "register" =>
          Resolved(call[c], found).entry.endpoint \notin written[call[c].agent]
    BY <1>5, ResolvedFollows, OverParts
  <2> QED
    BY <1>5, <2>1, ResolvedFollows DEF Harmless
<1>6. ASSUME NEW c \in Calls, NEW place \in Places \ {"register"}, NEW ttl,
             call[c].pc \in {"ttl", "set", "setReply"}
      PROVE  LET s == Moved(call[c], place, call[c].entry, ttl) IN Follows(call[c], s) /\ Harmless(s)
  <2> DEFINE s == Moved(call[c], place, call[c].entry, ttl)
  <2>1. s.agent = call[c].agent /\ s.entry = call[c].entry
    BY DEF Moved
  <2>2. Follows(call[c], s)
    BY <1>6, MovedFollows
  <2> HIDE DEF s
  <2>3. Harmless(s)
    BY <1>6, <2>1, OverParts DEF Harmless
  <2> QED
    BY <2>2, <2>3 DEF s
<1>7. ASSUME NEW c \in Calls, NEW i \in Instances, NEW a \in Agents, NEW expiresAt \in Expiries,
             StartRegister(c, i, a, expiresAt)
      PROVE  Numbered' /\ StaysOver
  <2> DEFINE reg == [endpoint |-> registrations + 1, expiresAt |-> expiresAt, now |-> clock,
                     ttl |-> (expiresAt - clock) \div Second]
             r == Begin("get", "register", i, a, reg, {})
             s == BeginResolve(r)
  <2>1. r.pc = "get" /\ r.op = "register" /\ r.agent = a /\ r.reg.endpoint = registrations + 1
    BY DEF Begin
  <2>2. /\ call' = [call EXCEPT ![c] = s] /\ registrations' = registrations + 1
        /\ UNCHANGED <<clock, store, cache, written, dropped>>
        /\ registrations \in Nat
    BY <1>0, <1>7 DEF StartRegister, TypeOK
  <2>3. /\ s.op = "register" /\ s.reg = r.reg /\ s.agent = a
        /\ s.pc = "get" \/ (s.pc = "register" /\ s.entry.endpoint = r.reg.endpoint)
    <3> HIDE DEF r
    <3> QED
      BY <2>1 DEF BeginResolve, Resolved, Moved, NewEntry
  <2> HIDE DEF r, s, reg
  <2>4. \A b \in Agents : \A e \in written[b] : e <= registrations /\ e \in Nat
    BY <1>0 DEF Numbered, TypeOK, Endpoints
  <2>5. \A d \in Calls : Pending(call[d]) =>
          call[d].reg.endpoint <= registrations /\ call[d].reg.endpoint \in Nat
    <3> SUFFICES ASSUME NEW d \in Calls, Pending(call[d])
                 PROVE  call[d].reg.endpoint <= registrations /\ call[d].reg.endpoint \in Nat
      OBVIOUS
    <3>1. call[d].reg \in Registration
      BY <1>0 DEF Pending, InHand
    <3> QED
      BY <3>1 DEF Numbered, Unsent, Registration, Endpoints
  <2>6. \A d \in Calls : call'[d] = IF d = c THEN s ELSE call[d]
    BY <1>0, <2>2 DEF TypeOK
  <2>7. Numbered'
    <3>1. \A b \in Agents : \A e \in written'[b] : e <= registrations'
      BY <2>2, <2>4
    <3>2. \A b \in Agents : r.reg.endpoint \notin written[b]
      BY <2>1, <2>2, <2>4
    <3>3. \A d \in Calls : d # c => Unsent(call[d])'
      BY <2>2, <2>5, <2>6 DEF Numbered, Unsent
    <3>4. Unsent(call[c])'
      BY <2>1, <2>2, <2>3, <2>6, <3>2 DEF Unsent
    <3>5. \A d \in Calls : d # c /\ Pending(call[d]) => call[d].reg.endpoint # s.reg.endpoint
      BY <2>1, <2>2, <2>3, <2>5
    <3>6. \A b, d \in Calls : Pending(call'[b]) /\ Pending(call'[d]) /\ b # d
                              => call'[b].reg.endpoint # call'[d].reg.endpoint
      BY <2>6, <3>5 DEF Numbered
    <3> QED
      BY <3>1, <3>3, <3>4, <3>6 DEF Numbered, Pending
  <2>8. Harmless(s)
    BY <2>1, <2>2, <2>3, <2>4 DEF Harmless
  <2> QED
    BY <1>1, <2>2, <2>7, <2>8, StaysOverWhen
<1>8. ASSUME NEW c \in Calls, NEW i \in Instances, NEW a \in Agents, StartResolve(c, i, a)
      PROVE  Numbered' /\ StaysOver
  <2> DEFINE r == Begin("get", "resolve", i, a, None, dropped[a])
  <2>1. r.pc = "get" /\ r.op = "resolve"
    BY DEF Begin
  <2>2. call' = [call EXCEPT ![c] = BeginResolve(r)] /\ Same
    BY <1>8 DEF StartResolve
  <2> HIDE DEF r
  <2>3. BeginResolve(r).op = "resolve" /\ BeginResolve(r).pc \in {"get", "return"}
    BY <2>1 DEF BeginResolve, Resolved, Moved
  <2>4. Follows(call[c], BeginResolve(r)) /\ Harmless(BeginResolve(r))
    BY <2>3 DEF Follows, Pending, Harmless
  <2> QED
    BY <1>4, <2>2, <2>4
<1>9. ASSUME NEW c \in Calls, NEW i \in Instances, NEW a \in Agents, StartDeregister(c, i, a)
      PROVE  Numbered' /\ StaysOver
  <2> DEFINE r == Begin("del", "deregister", i, a, None, written[a])
  <2>1. Follows(call[c], r) /\ Harmless(r)
    BY DEF Begin, Follows, Pending, Harmless
  <2>2. call' = [call EXCEPT ![c] = r] /\ Same
    BY <1>9 DEF StartDeregister
  <2> QED
    BY <1>4, <2>1, <2>2
<1>10. ASSUME NEW c \in Calls, GetAbsent(c) PROVE Numbered' /\ StaysOver
  <2>1. call[c].pc = "get" /\ call' = [call EXCEPT ![c] = Resolved(call[c], None)] /\ Same
    BY <1>10 DEF GetAbsent, Sends
  <2>2. Follows(call[c], Resolved(call[c], None)) /\ Harmless(Resolved(call[c], None))
    BY <1>5, <2>1
  <2> QED
    BY <1>4, <2>1, <2>2
<1>11. ASSUME NEW c \in Calls, GetPresent(c) PROVE Numbered' /\ StaysOver
  <2> DEFINE s == Moved(call[c], "ttl", Touched(store[call[c].agent].entry), 0)
  <2>1. call[c].pc = "get" /\ store[call[c].agent] # None /\ call' = [call EXCEPT ![c] = s] /\ Same
    BY <1>11 DEF GetPresent, Sends, Move
  <2>2. s.agent = call[c].agent /\ s.entry.endpoint = Of(store[call[c].agent])
    BY <2>1 DEF Moved, Touched, Of
  <2>3. Follows(call[c], s)
    BY <2>1, MovedFollows DEF Places
  <2> HIDE DEF s
  <2>4. Harmless(s)
    BY <2>2 DEF Harmless, Over
  <2> QED
    BY <1>4, <2>1, <2>3, <2>4
<1>12. ASSUME NEW c \in Calls, Ttl(c) PROVE Numbered' /\ StaysOver
  <2>1. /\ call[c].pc = "ttl" /\ Same
        /\ \/ call' = [call EXCEPT ![c] = Moved(call[c], "set", call[c].entry, KeyTtl(call[c].agent))]
           \/ call' = [call EXCEPT ![c] = Moved(call[c], "setReply", call[c].entry, KeyTtl(call[c].agent))]
    BY <1>12 DEF Ttl, Sends, Move
  <2> QED
    BY <1>4, <1>6, <2>1 DEF Places
<1>13. ASSUME NEW c \in Calls, Refresh(c) PROVE Numbered' /\ StaysOver
  <2> DEFINE s == Moved(call[c], "setReply", call[c].entry, call[c].ttl)
  <2>1. /\ call[c].pc = "set" /\ call' = [call EXCEPT ![c] = s]
        /\ store' = [store EXCEPT ![call[c].agent] = Until(call[c].entry, clock + call[c].ttl * Second)]
        /\ UNCHANGED <<clock, cache, registrations, written, dropped>>
    BY <1>13 DEF Refresh, Sends, SetKey, Goto, Move
  <2>2. Follows(call[c], s) /\ Harmless(s)
    BY <1>6, <2>1 DEF Places
  <2> HIDE DEF s
  <2>3. call[c].entry # None
    BY <1>0, <2>1, NoneAssumption DEF InHand
  <2>4. \A a \in Agents : \A e \in written[a] : Over(a, e) => Of(store'[a]) # e
    <3> SUFFICES ASSUME NEW a \in Agents, NEW e \in written[a], Over(a, e) PROVE Of(store'[a]) # e
      OBVIOUS
    <3>1. CASE a # call[c].agent
      BY <1>0, <2>1, <3>1 DEF Over, TypeOK
    <3>2. CASE a = call[c].agent
      <4>1. call[c].entry.endpoint # e
        BY <2>1, <3>2, OverParts
      <4>2. store'[a] = Until(call[c].entry, clock + call[c].ttl * Second)
        BY <1>0, <2>1, <3>2 DEF TypeOK
      <4>3. Of(store'[a]) \in {call[c].entry.endpoint, Of(None)}
        BY <4>2 DEF Of, Until
      <4> QED
        BY <4>1, <4>3, EndpointsPositive
    <3> QED
      BY <3>1, <3>2
  <2> QED
    BY <1>2, <2>1, <2>2, <2>4, StaysOverWhen
  \* A reply that lets the entry of a call into its instance's cache.
<1>14. ASSUME NEW c \in Calls, call[c].pc \in {"setReply", "registerReply"},
              CacheEntry(call[c].instance, call[c].agent, call[c].entry), store' = store
       PROVE  \A a \in Agents : \A e \in written[a] : Over(a, e) =>
                /\ Of(store'[a]) # e
                /\ \A i \in Instances : Of(cache'[i][a]) = e => cache'[i][a] = cache[i][a]
  <2> SUFFICES ASSUME NEW a \in Agents, NEW e \in written[a], Over(a, e), NEW i \in Instances,
                      cache'[i][a] # cache[i][a]
               PROVE  Of(cache'[i][a]) # e
    BY <1>14 DEF Over
  <2>1. i = call[c].instance /\ a = call[c].agent
    BY <1>0, <1>14 DEF CacheEntry, TypeOK
  <2>2. cache'[i][a] = Until(call[c].entry, clock + CacheTtl)
    BY <1>0, <1>14, <2>1 DEF CacheEntry, TypeOK
  <2>3. call[c].entry.endpoint # e
    BY <1>14, <2>1, OverParts
  <2>4. Of(cache'[i][a]) \in {call[c].entry.endpoint, Of(None)}
    BY <2>2 DEF Of, Until
  <2> QED
    BY <2>3, <2>4, EndpointsPositive
<1>15. ASSUME NEW c \in Calls, RefreshReply(c) PROVE Numbered' /\ StaysOver
  <2> DEFINE s == Resolved(call[c], call[c].entry)
  <2>1. /\ call[c].pc = "setReply" /\ call' = [call EXCEPT ![c] = s]
        /\ CacheEntry(call[c].instance, call[c].agent, call[c].entry)
        /\ UNCHANGED <<clock, store, registrations, written, dropped>>
    BY <1>15 DEF RefreshReply, At
  <2>2. Follows(call[c], s) /\ Harmless(s)
    BY <1>5, <2>1
  <2> HIDE DEF s
  <2> QED
    BY <1>2, <1>14, <2>1, <2>2, StaysOverWhen
<1>16. ASSUME NEW c \in Calls, SetRegistration(c) PROVE Numbered' /\ StaysOver
  <2> DEFINE s == Moved(call[c], "registerReply", call[c].entry, call[c].ttl)
             a == call[c].agent
  <2>1. /\ call[c].pc = "register" /\ call' = [call EXCEPT ![c] = s]
        /\ written' = [written EXCEPT ![a] = @ \cup {call[c].entry.endpoint}]
        /\ store' = [store EXCEPT ![a] = Until(call[c].entry, clock + call[c].reg.ttl * Second)]
        /\ UNCHANGED <<clock, cache, registrations, dropped>>
    BY <1>16 DEF SetRegistration, Sends, SetKey, Goto, Move
  <2>2. Pending(call[c]) /\ call[c].entry.endpoint = call[c].reg.endpoint
    <3>1. call[c].op = "register"
      BY <1>0, <2>1 DEF InHand
    <3> QED
      BY <2>1, <3>1 DEF Pending, Numbered, Unsent
  <2>3. s.agent = a /\ s.entry = call[c].entry /\ ~ Pending(s)
    BY DEF Moved, Pending
  <2> HIDE DEF s
  <2>4. \A d \in Calls : call'[d] = IF d = c THEN s ELSE call[d]
    BY <1>0, <2>1 DEF TypeOK
  <2>5. \A b \in Agents : written'[b] \subseteq written[b] \cup {call[c].reg.endpoint}
    BY <1>0, <2>1, <2>2 DEF TypeOK
  <2>6. Numbered'
    <3>1. \A b \in Agents : \A e \in written'[b] : e <= registrations'
      BY <2>1, <2>2, <2>5 DEF Numbered, Unsent
    <3>2. \A d \in Calls : Unsent(call[d])'
      BY <2>1, <2>2, <2>3, <2>4, <2>5 DEF Numbered, Unsent
    <3>3. \A b, d \in Calls : Pending(call'[b]) /\ Pending(call'[d]) /\ b # d
                              => call'[b].reg.endpoint # call'[d].reg.endpoint
      BY <2>3, <2>4 DEF Numbered
    <3> QED
      BY <3>1, <3>2, <3>3 DEF Numbered, Pending
  <2>7. Harmless(s)
    BY <2>1, <2>3, OverParts DEF Harmless
  <2>8. \A b \in Agents : \A e \in written[b] : Over(b, e) => Of(store'[b]) # e
    <3> SUFFICES ASSUME NEW b \in Agents, NEW e \in written[b], Over(b, e) PROVE Of(store'[b]) # e
      OBVIOUS
    <3>1. CASE b # a
      BY <1>0, <2>1, <3>1 DEF Over, TypeOK
    <3>2. CASE b = a
      <4>1. call[c].entry.endpoint # e
        BY <2>1, <3>2, OverParts
      <4>2. store'[b] = Until(call[c].entry, clock + call[c].reg.ttl * Second)
        BY <1>0, <2>1, <3>2 DEF TypeOK
      <4>3. Of(store'[b]) \in {call[c].entry.endpoint, Of(None)}
        BY <4>2 DEF Of, Until
      <4> QED
        BY <4>1, <4>3, EndpointsPositive
    <3> QED
      BY <3>1, <3>2
  <2> QED
    BY <2>1, <2>6, <2>7, <2>8, StaysOverWhen
<1>17. ASSUME NEW c \in Calls, RegisterReply(c) PROVE Numbered' /\ StaysOver
  <2>1. /\ call[c].pc = "registerReply" /\ call' = [call EXCEPT ![c] = IdleCall]
        /\ CacheEntry(call[c].instance, call[c].agent, call[c].entry)
        /\ UNCHANGED <<clock, store, registrations, written, dropped>>
    BY <1>17 DEF RegisterReply, At, End
  <2> QED
    BY <1>2, <1>3, <1>14, <2>1, IdleFollows, StaysOverWhen
<1>18. ASSUME NEW c \in Calls, DeleteKey(c) PROVE Numbered' /\ StaysOver
  <2> DEFINE s == Moved(call[c], "delReply", call[c].entry, call[c].ttl)
  <2>1. /\ call' = [call EXCEPT ![c] = s]
        /\ store' = [store EXCEPT ![call[c].agent] = None]
        /\ UNCHANGED <<clock, cache, registrations, written, dropped>>
    BY <1>18 DEF DeleteKey, Goto, Move
  <2>2. Follows(call[c], s) /\ Harmless(s)
    BY DEF Moved, Follows, Pending, Harmless
  <2> HIDE DEF s
  <2>3. \A a \in Agents : \A e \in written[a] : Over(a, e) => Of(store'[a]) # e
    BY <1>0, <2>1, EndpointsPositive DEF Over, TypeOK
  <2> QED
    BY <1>2, <2>1, <2>2, <2>3, StaysOverWhen
<1>19. ASSUME NEW c \in Calls, DeleteReply(c) PROVE Numbered' /\ StaysOver
  <2>1. /\ call' = [call EXCEPT ![c] = IdleCall]
        /\ cache' = [cache EXCEPT ![call[c].instance][call[c].agent] = None]
        /\ UNCHANGED <<clock, store, registrations, written>>
    BY <1>19 DEF DeleteReply, Uncache, End
  <2>2. \A a \in Agents : \A e \in written[a] : Over(a, e) =>
          /\ Of(store'[a]) # e
          /\ \A i \in Instances : Of(cache'[i][a]) = e => cache'[i][a] = cache[i][a]
    BY <1>0, <2>1, EndpointsPositive DEF Over, TypeOK
  <2> QED
    BY <1>2, <1>3, <2>1, <2>2, IdleFollows, StaysOverWhen
<1>20. ASSUME NEW c \in Calls, ReturnAnswer(c) \/ RedisError(c) PROVE Numbered' /\ StaysOver
  BY <1>3, <1>4, <1>20, IdleFollows DEF ReturnAnswer, RedisError, End
<1>21. ASSUME NEW i \in Instances, Crash(i) PROVE Numbered' /\ StaysOver
  <2>1. /\ \A d \in Calls : call'[d] \in {call[d], IdleCall}
        /\ \A j \in Instances, a \in Agents : cache'[j][a] \in {cache[j][a], None}
        /\ UNCHANGED <<clock, store, registrations, written, dropped>>
    BY <1>0, <1>21 DEF Crash, TypeOK
  <2>2. ~ Pending(IdleCall) /\ IdleCall.pc = "idle"
    BY DEF Pending, IdleCall
  <2>3. Numbered'
    BY <2>1, <2>2 DEF Numbered, Unsent, Pending
  <2>4. StaysOver
    BY <2>1, <2>2, EndpointsPositive DEF StaysOver, Over, Carries
  <2> QED
    BY <2>3, <2>4
<1>22. CASE Tick
  <2>1. /\ \A a \in Agents : store'[a] \in {store[a], None}
        /\ \A i \in Instances, a \in Agents : cache'[i][a] \in {cache[i][a], None}
        /\ UNCHANGED <<call, registrations, written>>
    BY <1>0, <1>22 DEF Tick
  <2>2. Numbered'
    BY <2>1 DEF Numbered, Unsent, Pending
  <2>3. StaysOver
    BY <2>1, EndpointsPositive DEF StaysOver, Over, Carries
  <2> QED
    BY <2>2, <2>3
<1>23. CASE UNCHANGED vars
  BY <1>23 DEF vars, Numbered, Unsent, Pending, StaysOver, Over, Carries
<1> QED
  BY <1>7, <1>8, <1>9, <1>10, <1>11, <1>12, <1>13, <1>15, <1>16, <1>17, <1>18, <1>19,
     <1>20, <1>21, <1>22, <1>23
  DEF Next, Start, Continue

\* A registration that is over stays over: for any number of instances and calls, no
\* cached copy finds its way back to Redis, into another cache or into a call.
THEOREM NeverRevivedHolds == Spec => NeverRevived
<1>1. Init => Whole /\ Numbered
  <2>1. ~ Pending(IdleCall)
    BY DEF Pending, IdleCall
  <2>2. Init => Numbered
    BY <2>1 DEF Init, Numbered, Unsent
  <2> QED
    BY <2>2, WholeInit
<1>2. Whole /\ Numbered /\ [Next]_vars => (Whole /\ Numbered)'
  BY WholeStep, OverStep
<1>3. Whole /\ Numbered /\ [Next]_vars => [StaysOver]_vars
  BY OverStep
<1> QED
  BY <1>1, <1>2, <1>3, PTL DEF Spec, NeverRevived
-----------------------------------------------------------------------------
(* How long a stale copy is served *)

\* Cached copies are alive, and have at most their full life before them.
Timely ==
  \A i \in Instances, a \in Agents :
    cache[i][a] # None => clock <= cache[i][a].expiresAt /\ cache[i][a].expiresAt <= clock + CacheTtl

LEMMA TimelyStep ==
  ASSUME TypeOK, Timely, [Next]_vars
  PROVE  Timely'
<1>0. CacheTtl \in Nat /\ clock \in Nat
  BY ConstantsAssumption DEF TypeOK
<1>1. ASSUME UNCHANGED clock,
             \A i \in Instances, a \in Agents : cache'[i][a] \in {cache[i][a], None}
      PROVE  Timely'
  BY <1>1 DEF Timely
<1>2. ASSUME NEW c \in Calls, RefreshReply(c) \/ RegisterReply(c) PROVE Timely'
  <2>1. /\ UNCHANGED clock
        /\ CacheEntry(call[c].instance, call[c].agent, call[c].entry)
        /\ call[c] \in Call
    BY <1>2 DEF RefreshReply, RegisterReply, TypeOK
  <2>2. ASSUME NEW i \in Instances, NEW a \in Agents
        PROVE  cache'[i][a] \in {cache[i][a], Until(call[c].entry, clock + CacheTtl)}
    BY <2>1 DEF CacheEntry, TypeOK, Call
  <2> QED
    BY <1>0, <2>1, <2>2 DEF Timely, Until
<1>3. ASSUME NEW c \in Calls, DeleteReply(c) PROVE Timely'
  <2>1. /\ UNCHANGED clock
        /\ Uncache(call[c].instance, call[c].agent)
        /\ call[c] \in Call
    BY <1>3 DEF DeleteReply, TypeOK
  <2> QED
    BY <1>1, <2>1 DEF Uncache, TypeOK, Call
<1>4. ASSUME NEW i \in Instances, Crash(i) PROVE Timely'
  BY <1>1, <1>4 DEF Crash, TypeOK
<1>5. CASE Tick
  <2>1. ASSUME NEW i \in Instances, NEW a \in Agents, cache'[i][a] # None
        PROVE  cache'[i][a] = cache[i][a] /\ cache[i][a] # None /\ ~ (clock + 1 > cache[i][a].expiresAt)
    BY <1>5, <2>1 DEF Tick, Expired
  <2>2. \A i \in Instances, a \in Agents : cache[i][a] # None => cache[i][a].expiresAt \in Int
    BY DEF TypeOK, Timed
  <2> QED
    BY <1>0, <1>5, <2>1, <2>2 DEF Tick, Timely
<1>6. ASSUME UNCHANGED <<clock, cache>> PROVE Timely'
  BY <1>6 DEF Timely
<1> QED
  BY <1>2, <1>3, <1>4, <1>5, <1>6
  DEF Next, Start, Continue, vars, StartRegister, StartResolve, StartDeregister, GetAbsent,
      GetPresent, Ttl, Refresh, ReturnAnswer, SetRegistration, DeleteKey, RedisError

\* redis-registry-adapter.ts, the 5 second TtlCache: if registration e is over at instant
\* T (replaced, deregistered or expired, and carried by no call), every instance serves its
\* cached copy for at most CacheTtl longer, however often it is looked up, and never after.
THEOREM StaleBriefly ==
  ASSUME NEW a \in Agents, NEW i \in Instances, NEW e, NEW T \in Nat
  PROVE  Spec => [](/\ Over(a, e) /\ e \in written[a] /\ clock = T
                    => [](Of(cache[i][a]) = e => clock <= T + CacheTtl))
<1> DEFINE OverAt == Over(a, e) /\ e \in written[a] /\ clock = T
           Bound == Of(cache[i][a]) = e => clock <= T + CacheTtl
           Ebbing == /\ Over(a, e) /\ e \in written[a]
                     /\ Of(cache[i][a]) = e => cache[i][a].expiresAt <= T + CacheTtl
           Inv == Whole /\ Numbered /\ Timely
<1>1. Init => Inv
  <2>1. ~ Pending(IdleCall)
    BY DEF Pending, IdleCall
  <2>2. Init => Numbered
    BY <2>1 DEF Init, Numbered, Unsent
  <2>3. Init => Timely
    BY DEF Init, Timely
  <2> QED
    BY <2>2, <2>3, WholeInit
<1>2. Inv /\ [Next]_vars => Inv'
  BY WholeStep, OverStep, TimelyStep DEF Whole
<1>3. ASSUME Inv, e \in written[a], Of(cache[i][a]) = e
      PROVE  cache[i][a] # None /\ cache[i][a].expiresAt \in Int /\ CacheTtl \in Nat /\ clock \in Nat
  <2>1. e # 0
    BY <1>3 DEF Whole, TypeOK, Endpoints
  <2> QED
    BY <1>3, <2>1, ConstantsAssumption DEF Of, Whole, TypeOK, Timed
<1>4. Inv /\ OverAt => Ebbing
  BY <1>3 DEF Timely
<1>5. Inv /\ Ebbing => Bound
  BY <1>3 DEF Timely
<1>6. Inv /\ Ebbing /\ [Next]_vars => Ebbing'
  <2> SUFFICES ASSUME Inv, Ebbing, [Next]_vars PROVE Ebbing'
    OBVIOUS
  <2>1. StaysOver
    BY OverStep
  <2>2. e \in written'[a]
    <3>1. written[a] \subseteq written'[a]
      BY DEF Next, vars, Start, Continue, StartRegister, StartResolve, StartDeregister,
         GetAbsent, GetPresent, Ttl, Refresh, RefreshReply, ReturnAnswer, SetRegistration,
         RegisterReply, DeleteKey, DeleteReply, RedisError, Crash, Tick, Whole, TypeOK
    <3> QED
      BY <3>1
  <2> QED
    BY <2>1, <2>2 DEF StaysOver
<1> HIDE DEF OverAt, Bound, Ebbing, Inv
<1>7. Spec => [](OverAt => []Bound)
  BY <1>1, <1>2, <1>4, <1>5, <1>6, PTL DEF Spec
<1> QED
  BY <1>7, PTL DEF OverAt, Bound
-----------------------------------------------------------------------------
(* What overlapping calls break, and nothing else does *)

\* There is one gateway process.
OneInstance == \A i, j \in Instances : i = j

\* Calls that overlap are about different agents.
Apart ==
  \A c, d \in Calls :
    c # d /\ call[c].pc # "idle" /\ call[d].pc # "idle" => call[c].agent # call[d].agent

InHandPlaces == {"ttl", "set", "setReply", "register", "registerReply"}

\* A key or cached copy x has the registeredAt of entry e, if it is there.
SameAge(x, e) == x # None => x.entry.registeredAt = e.registeredAt

\* Key and cached copies of agent a agree on registeredAt, and hold nothing that has been
\* deregistered.
Agreed(a) ==
  /\ dropped[a] \subseteq written[a]
  /\ Of(store[a]) \notin dropped[a]
  /\ \A i \in Instances :
       /\ Of(cache[i][a]) \notin dropped[a]
       /\ cache[i][a] # None => SameAge(store[a], cache[i][a].entry)

\* Call r agrees with them, and knows what was deregistered before it began.
Fits(r) ==
  LET a == r.agent  i == r.instance
  IN /\ r.pc = "get" => cache[i][a] = None
     /\ r.pc \in InHandPlaces => SameAge(store[a], r.entry) /\ SameAge(cache[i][a], r.entry)
     /\ r.pc \in {"ttl", "set", "setReply", "registerReply"} => r.entry.endpoint \notin dropped[a]
     /\ r.pc = "return" /\ r.entry # None => r.entry.endpoint \notin dropped[a]
     /\ r.pc = "delReply" => store[a] = None
     /\ r.pc \in {"del", "delReply"} => r.past \subseteq written[a]
     /\ r.pc \notin {"del", "delReply"} => r.past \subseteq dropped[a]

AllAgree ==
  /\ \A a \in Agents : Agreed(a)
  /\ \A c \in Calls : Fits(call[c])
LEMMA IdleFits == IdleCall.pc = "idle" /\ IdleCall.past = {}
BY DEF IdleCall

\* A step of a call on its way, which leaves other agents' keys and copies as they are.
LEMMA AgreeWhen ==
  ASSUME Whole, AllAgree, Apart, NEW c \in Calls, call[c].pc # "idle",
         NEW a \in Agents, a = call[c].agent,
         call' = [call EXCEPT ![c] = call'[c]],
         \A b \in Agents : b # a =>
           /\ store'[b] = store[b] /\ written'[b] = written[b] /\ dropped'[b] = dropped[b]
           /\ \A i \in Instances : cache'[i][b] = cache[i][b],
         written[a] \subseteq written'[a], dropped[a] \subseteq dropped'[a],
         Agreed(a)', Fits(call[c])'
  PROVE  AllAgree'
<1>1. ASSUME NEW b \in Agents, b # a PROVE Agreed(b)'
  BY <1>1 DEF AllAgree, Agreed, SameAge, Of
<1>2. ASSUME NEW d \in Calls, d # c PROVE Fits(call[d])'
  <2>1. call'[d] = call[d] /\ call[d].agent \in Agents /\ call[d].instance \in Instances
    BY <1>2 DEF Whole, TypeOK, Call
  <2>2. Fits(call[d])
    BY DEF AllAgree
  <2>3. CASE call[d].pc = "idle"
    <3>1. call[d].past \subseteq dropped'[call[d].agent]
      BY <2>1, <2>2, <2>3 DEF Fits
    <3> QED
      BY <2>1, <2>3, <3>1 DEF Fits, InHandPlaces
  <2>4. CASE call[d].pc # "idle"
    <3>1. call[d].agent # a
      BY <1>2, <2>4 DEF Apart
    <3> QED
      BY <2>1, <2>2, <3>1 DEF Fits, SameAge
  <2> QED
    BY <2>3, <2>4
<1> QED
  BY <1>1, <1>2 DEF AllAgree

\* Keys that stay keep their registeredAt.
AgeKept ==
  \A a \in Agents :
    store[a] # None /\ store[a]' # None
    => store[a]'.entry.registeredAt = store[a].entry.registeredAt

LEMMA AgreeStep ==
  ASSUME Whole, Numbered, AllAgree, OneInstance, Apart, [Next]_vars
  PROVE  AllAgree' /\ AgeKept
<1>0. /\ TypeOK /\ Whole'
      /\ \A c \in Calls : call[c] \in Call /\ InHand(call[c]) /\ Fits(call[c])
      /\ \A c \in Calls : call[c].agent \in Agents /\ call[c].instance \in Instances
      /\ \A a \in Agents : Agreed(a)
  BY WholeStep DEF Whole, TypeOK, Call, AllAgree
<1>1. \A a \in Agents : Of(None) \notin dropped[a] /\ Of(None) \notin dropped'[a]
  BY <1>0 DEF Whole, TypeOK, Endpoints, Of
<1> DEFINE Same == UNCHANGED <<store, cache, written, dropped>>
\* Steps that change nothing but one call.
<1>2. ASSUME Same, NEW c \in Calls, call' = [call EXCEPT ![c] = call'[c]], Fits(call[c])'
      PROVE  AllAgree' /\ AgeKept
  <2>1. \A d \in Calls : d # c => call'[d] = call[d]
    BY <1>2 DEF Whole, TypeOK
  <2>2. \A d \in Calls : Fits(call[d])'
    BY <1>0, <1>2, <2>1 DEF Fits, SameAge
  <2>3. \A a \in Agents : Agreed(a)'
    BY <1>0, <1>2 DEF Agreed, SameAge, Of
  <2> QED
    BY <1>2, <2>2, <2>3 DEF AllAgree, AgeKept
<1>3. ASSUME NEW c \in Calls, End(c)
      PROVE  /\ call' = [call EXCEPT ![c] = call'[c]] /\ Fits(call[c])'
             /\ call'[c] = IdleCall
  <2>1. call'[c] = IdleCall /\ call' = [call EXCEPT ![c] = call'[c]]
    BY <1>0, <1>3 DEF End, TypeOK
  <2> QED
    BY <2>1, IdleFits DEF Fits, InHandPlaces
<1>4. ASSUME NEW c \in Calls, NEW i \in Instances, NEW a \in Agents, NEW expiresAt \in Expiries,
             StartRegister(c, i, a, expiresAt)
      PROVE  AllAgree' /\ AgeKept
  <2> DEFINE reg == [endpoint |-> registrations + 1, expiresAt |-> expiresAt,
                     now |-> clock, ttl |-> (expiresAt - clock) \div Second]
             r == Begin("get", "register", i, a, reg, {})
  <2>1. Same /\ call' = [call EXCEPT ![c] = BeginResolve(r)] /\ call'[c] = BeginResolve(r)
    BY <1>0, <1>4 DEF StartRegister, TypeOK
  <2>2. /\ r.pc = "get" /\ r.op = "register" /\ r.instance = i /\ r.agent = a /\ r.past = {}
        /\ r.reg = reg
    BY DEF Begin
  <2> HIDE DEF r, reg
  <2>3. CASE cache[i][a] = None
    <3>1. BeginResolve(r) = r
      BY <2>2, <2>3 DEF BeginResolve
    <3>2. Fits(call[c])'
      BY <2>1, <2>2, <2>3, <3>1 DEF Fits, InHandPlaces
    <3> QED
      BY <1>2, <2>1, <3>2
  <2>4. CASE cache[i][a] # None
    <3> DEFINE e == cache[i][a].entry
    <3>1. call'[c] = Moved(r, "register", NewEntry(reg, e), 0)
      BY <2>1, <2>2, <2>4 DEF BeginResolve, Resolved
    <3>2. e # None
      BY <1>0, <2>4, NoneAssumption DEF TypeOK, Timed
    <3>3. NewEntry(reg, e).registeredAt = e.registeredAt
      BY <3>2 DEF NewEntry
    <3>4. /\ call'[c].pc = "register" /\ call'[c].agent = a /\ call'[c].instance = i
          /\ call'[c].past = {} /\ call'[c].entry.registeredAt = e.registeredAt
      BY <2>2, <3>1, <3>3 DEF Moved
    <3>5. SameAge(store[a], e)
      BY <1>0, <2>4 DEF Agreed
    <3>6. Fits(call[c])'
      BY <2>1, <3>4, <3>5 DEF Fits, SameAge
    <3> QED
      BY <1>2, <2>1, <3>6
  <2> QED
    BY <2>3, <2>4
<1>5. ASSUME NEW c \in Calls, NEW i \in Instances, NEW a \in Agents, StartResolve(c, i, a)
      PROVE  AllAgree' /\ AgeKept
  <2> DEFINE r == Begin("get", "resolve", i, a, None, dropped[a])
  <2>1. Same /\ call' = [call EXCEPT ![c] = BeginResolve(r)] /\ call'[c] = BeginResolve(r)
    BY <1>0, <1>5 DEF StartResolve, TypeOK
  <2>2. /\ r.pc = "get" /\ r.op = "resolve" /\ r.instance = i /\ r.agent = a
        /\ r.past = dropped[a]
    BY DEF Begin
  <2> HIDE DEF r
  <2>3. CASE cache[i][a] = None
    <3>1. BeginResolve(r) = r
      BY <2>2, <2>3 DEF BeginResolve
    <3>2. Fits(call[c])'
      BY <2>1, <2>2, <2>3, <3>1 DEF Fits, InHandPlaces
    <3> QED
      BY <1>2, <2>1, <3>2
  <2>4. CASE cache[i][a] # None
    <3>1. call'[c] = Moved(r, "return", cache[i][a].entry, 0)
      BY <2>1, <2>2, <2>4 DEF BeginResolve, Resolved
    <3>2. cache[i][a].entry.endpoint \notin dropped[a]
      BY <1>0, <2>4 DEF Agreed, Of
    <3>3. Fits(call[c])'
      BY <2>1, <2>2, <3>1, <3>2 DEF Fits, InHandPlaces, Moved
    <3> QED
      BY <1>2, <2>1, <3>3
  <2> QED
    BY <2>3, <2>4
<1>6. ASSUME NEW c \in Calls, NEW i \in Instances, NEW a \in Agents, StartDeregister(c, i, a)
      PROVE  AllAgree' /\ AgeKept
  <2>1. Same /\ call' = [call EXCEPT ![c] = call'[c]]
        /\ call'[c] = Begin("del", "deregister", i, a, None, written[a])
    BY <1>0, <1>6 DEF StartDeregister, TypeOK
  <2>2. Fits(call[c])'
    BY <2>1 DEF Fits, InHandPlaces, Begin
  <2> QED
    BY <1>2, <2>1, <2>2
<1>7. ASSUME NEW c \in Calls, GetAbsent(c) PROVE AllAgree' /\ AgeKept
  <2> DEFINE r == call[c]
  <2>1. /\ Same /\ call'[c] = Resolved(r, None) /\ call' = [call EXCEPT ![c] = call'[c]]
        /\ r.pc = "get" /\ store[r.agent] = None
    BY <1>0, <1>7 DEF GetAbsent, Sends, TypeOK
  <2>2. cache[r.instance][r.agent] = None /\ r.past \subseteq dropped[r.agent]
    BY <1>0, <2>1 DEF Fits
  <2>3. Fits(call[c])'
    BY <2>1, <2>2 DEF Fits, InHandPlaces, Resolved, Moved, SameAge
  <2> QED
    BY <1>2, <2>1, <2>3
<1>8. ASSUME NEW c \in Calls, GetPresent(c) PROVE AllAgree' /\ AgeKept
  <2> DEFINE r == call[c]
             e == store[r.agent].entry
  <2>1. /\ Same /\ call'[c] = Moved(r, "ttl", Touched(e), 0)
        /\ call' = [call EXCEPT ![c] = call'[c]]
        /\ r.pc = "get" /\ store[r.agent] # None
    BY <1>0, <1>8 DEF GetPresent, Move, Sends, TypeOK
  <2>2. cache[r.instance][r.agent] = None /\ r.past \subseteq dropped[r.agent]
    BY <1>0, <2>1 DEF Fits
  <2>3. e.endpoint \notin dropped[r.agent]
    BY <1>0, <2>1 DEF Agreed, Of
  <2>4. Touched(e).endpoint = e.endpoint /\ Touched(e).registeredAt = e.registeredAt
    BY DEF Touched
  <2>5. Fits(call[c])'
    BY <2>1, <2>2, <2>3, <2>4 DEF Fits, InHandPlaces, Moved, SameAge
  <2> QED
    BY <1>2, <2>1, <2>5
<1>9. ASSUME NEW c \in Calls, Ttl(c) PROVE AllAgree' /\ AgeKept
  <2>1. /\ Same /\ call' = [call EXCEPT ![c] = call'[c]] /\ call[c].pc = "ttl"
        /\ call'[c].pc \in {"set", "setReply"}
        /\ call'[c].agent = call[c].agent /\ call'[c].instance = call[c].instance
        /\ call'[c].entry = call[c].entry /\ call'[c].past = call[c].past
    BY <1>0, <1>9 DEF Ttl, Move, Moved, Sends, TypeOK
  <2>2. Fits(call[c])'
    BY <1>0, <2>1 DEF Fits, InHandPlaces, SameAge
  <2> QED
    BY <1>2, <2>1, <2>2
<1>10. ASSUME NEW c \in Calls, Refresh(c) PROVE AllAgree' /\ AgeKept
  <2> PICK a \in Agents, i \in Instances : a = call[c].agent /\ i = call[c].instance
    BY <1>0
  <2> DEFINE e == call[c].entry
  <2>1. /\ UNCHANGED <<cache, written, dropped>> /\ call[c].pc = "set"
        /\ call'[c] = Moved(call[c], "setReply", e, call[c].ttl)
        /\ call' = [call EXCEPT ![c] = call'[c]]
        /\ store' = [store EXCEPT ![a] = Until(e, clock + call[c].ttl * Second)]
    BY <1>0, <1>10 DEF Refresh, SetKey, Goto, Move, Sends, TypeOK
  <2>2. /\ SameAge(store[a], e) /\ SameAge(cache[i][a], e)
        /\ e.endpoint \notin dropped[a] /\ call[c].past \subseteq dropped[a]
    BY <1>0, <2>1 DEF Fits, InHandPlaces
  <2>3. store'[a].entry = e /\ \A b \in Agents : b # a => store'[b] = store[b]
    BY <1>0, <2>1 DEF Until, TypeOK
  <2>4. Agreed(a)'
    <3>1. dropped[a] \subseteq written[a] /\ Of(store'[a]) \notin dropped[a]
      BY <1>0, <1>1, <2>2, <2>3 DEF Agreed, Of
    <3>2. \A j \in Instances : Of(cache[j][a]) \notin dropped[a] /\ SameAge(cache[j][a], e)
      BY <1>0, <2>2 DEF Agreed, OneInstance
    <3> QED
      BY <2>1, <2>3, <3>1, <3>2 DEF Agreed, SameAge
  <2>5. Fits(call[c])'
    BY <2>1, <2>2, <2>3 DEF Fits, InHandPlaces, Moved, SameAge
  <2>6. AllAgree'
    BY <2>1, <2>3, <2>4, <2>5, AgreeWhen
  <2>7. AgeKept
    BY <2>2, <2>3 DEF AgeKept, SameAge
  <2> QED
    BY <2>6, <2>7
<1>11. ASSUME NEW c \in Calls, RefreshReply(c) PROVE AllAgree' /\ AgeKept
  <2> PICK a \in Agents, i \in Instances : a = call[c].agent /\ i = call[c].instance
    BY <1>0
  <2> DEFINE e == call[c].entry
  <2>1. /\ UNCHANGED <<store, written, dropped>> /\ call[c].pc = "setReply"
        /\ call'[c] = Resolved(call[c], e)
        /\ call' = [call EXCEPT ![c] = call'[c]]
        /\ cache' = [cache EXCEPT ![i][a] = Until(e, clock + CacheTtl)]
    BY <1>0, <1>11 DEF RefreshReply, CacheEntry, At, TypeOK
  <2>2. /\ SameAge(store[a], e) /\ e \in Entry
        /\ e.endpoint \notin dropped[a] /\ call[c].past \subseteq dropped[a]
    BY <1>0, <2>1 DEF Fits, InHandPlaces, InHand
  <2>3. /\ cache'[i][a].entry = e
        /\ \A j \in Instances : cache'[j][a] = cache'[i][a]
        /\ \A b \in Agents : b # a => \A j \in Instances : cache'[j][b] = cache[j][b]
    BY <1>0, <2>1 DEF Until, TypeOK, OneInstance
  <2>4. Agreed(a)'
    <3>1. dropped[a] \subseteq written[a] /\ Of(store[a]) \notin dropped[a]
      BY <1>0 DEF Agreed
    <3>2. Of(cache'[i][a]) \notin dropped[a]
      BY <1>1, <2>2, <2>3 DEF Of
    <3> QED
      BY <2>1, <2>2, <2>3, <3>1, <3>2 DEF Agreed
  <2>5. Fits(call[c])'
    <3>1. e # None /\ NewEntry(call[c].reg, e).registeredAt = e.registeredAt
      BY <2>2, NoneAssumption DEF NewEntry
    <3> QED
      BY <2>1, <2>2, <2>3, <3>1 DEF Fits, InHandPlaces, Resolved, Moved, SameAge
  <2>6. AllAgree'
    BY <2>1, <2>3, <2>4, <2>5, AgreeWhen
  <2>7. AgeKept
    BY <2>1 DEF AgeKept
  <2> QED
    BY <2>6, <2>7
<1>12. ASSUME NEW c \in Calls, SetRegistration(c) PROVE AllAgree' /\ AgeKept
  <2> PICK a \in Agents, i \in Instances : a = call[c].agent /\ i = call[c].instance
    BY <1>0
  <2> DEFINE e == call[c].entry
  <2>1. /\ UNCHANGED <<cache, dropped>> /\ call[c].pc = "register"
        /\ call'[c] = Moved(call[c], "registerReply", e, call[c].ttl)
        /\ call' = [call EXCEPT ![c] = call'[c]]
        /\ store' = [store EXCEPT ![a] = Until(e, clock + call[c].reg.ttl * Second)]
        /\ written' = [written EXCEPT ![a] = @ \cup {e.endpoint}]
    BY <1>0, <1>12 DEF SetRegistration, SetKey, Goto, Move, Sends, TypeOK
  <2>2. e.endpoint \notin written[a]
    BY <1>0, <2>1 DEF Numbered, Unsent, Pending, InHand
  <2>3. /\ SameAge(store[a], e) /\ SameAge(cache[i][a], e)
        /\ dropped[a] \subseteq written[a] /\ call[c].past \subseteq dropped[a]
    BY <1>0, <2>1 DEF Fits, InHandPlaces, Agreed
  <2>4. /\ store'[a].entry = e /\ written[a] \subseteq written'[a]
        /\ \A b \in Agents : b # a => store'[b] = store[b] /\ written'[b] = written[b]
    BY <1>0, <2>1 DEF Until, TypeOK
  <2>5. Agreed(a)'
    <3>1. Of(store'[a]) \notin dropped[a]
      BY <1>1, <2>2, <2>3, <2>4 DEF Of
    <3>2. \A j \in Instances : Of(cache[j][a]) \notin dropped[a] /\ SameAge(cache[j][a], e)
      BY <1>0, <2>3 DEF Agreed, OneInstance
    <3> QED
      BY <2>1, <2>3, <2>4, <3>1, <3>2 DEF Agreed, SameAge
  <2>6. Fits(call[c])'
    BY <2>1, <2>2, <2>3, <2>4 DEF Fits, InHandPlaces, Moved, SameAge
  <2>7. AllAgree'
    BY <2>1, <2>4, <2>5, <2>6, AgreeWhen
  <2>8. AgeKept
    BY <2>3, <2>4 DEF AgeKept, SameAge
  <2> QED
    BY <2>7, <2>8
<1>13. ASSUME NEW c \in Calls, RegisterReply(c) PROVE AllAgree' /\ AgeKept
  <2> PICK a \in Agents, i \in Instances : a = call[c].agent /\ i = call[c].instance
    BY <1>0
  <2> DEFINE e == call[c].entry
  <2>1. /\ UNCHANGED <<store, written, dropped>> /\ call[c].pc = "registerReply"
        /\ End(c)
        /\ cache' = [cache EXCEPT ![i][a] = Until(e, clock + CacheTtl)]
    BY <1>0, <1>13 DEF RegisterReply, CacheEntry, At
  <2>2. SameAge(store[a], e) /\ e.endpoint \notin dropped[a]
    BY <1>0, <2>1 DEF Fits, InHandPlaces
  <2>3. /\ cache'[i][a].entry = e
        /\ \A j \in Instances : cache'[j][a] = cache'[i][a]
        /\ \A b \in Agents : b # a => \A j \in Instances : cache'[j][b] = cache[j][b]
    BY <1>0, <2>1 DEF Until, TypeOK, OneInstance
  <2>4. Agreed(a)'
    <3>1. dropped[a] \subseteq written[a] /\ Of(store[a]) \notin dropped[a]
      BY <1>0 DEF Agreed
    <3>2. Of(cache'[i][a]) \notin dropped[a]
      BY <1>1, <2>2, <2>3 DEF Of
    <3> QED
      BY <2>1, <2>2, <2>3, <3>1, <3>2 DEF Agreed
  <2>5. AllAgree'
    BY <1>3, <2>1, <2>3, <2>4, AgreeWhen
  <2>6. AgeKept
    BY <2>1 DEF AgeKept
  <2> QED
    BY <2>5, <2>6
<1>14. ASSUME NEW c \in Calls, DeleteKey(c) PROVE AllAgree' /\ AgeKept
  <2> PICK a \in Agents, i \in Instances : a = call[c].agent /\ i = call[c].instance
    BY <1>0
  <2>1. /\ UNCHANGED <<cache, written, dropped>> /\ call[c].pc = "del"
        /\ call'[c] = Moved(call[c], "delReply", call[c].entry, call[c].ttl)
        /\ call' = [call EXCEPT ![c] = call'[c]]
        /\ store' = [store EXCEPT ![a] = None]
    BY <1>0, <1>14 DEF DeleteKey, Goto, Move, Sends, TypeOK
  <2>2. store'[a] = None /\ \A b \in Agents : b # a => store'[b] = store[b]
    BY <1>0, <2>1 DEF TypeOK
  <2>3. Agreed(a)'
    BY <1>0, <1>1, <2>1, <2>2 DEF Agreed, SameAge
  <2>4. Fits(call[c])'
    BY <1>0, <2>1, <2>2 DEF Fits, InHandPlaces, Moved
  <2>5. AllAgree'
    BY <2>1, <2>2, <2>3, <2>4, AgreeWhen
  <2>6. AgeKept
    BY <2>2 DEF AgeKept
  <2> QED
    BY <2>5, <2>6
<1>15. ASSUME NEW c \in Calls, DeleteReply(c) PROVE AllAgree' /\ AgeKept
  <2> PICK a \in Agents, i \in Instances : a = call[c].agent /\ i = call[c].instance
    BY <1>0
  <2>1. /\ UNCHANGED <<store, written>> /\ call[c].pc = "delReply" /\ End(c)
        /\ cache' = [cache EXCEPT ![i][a] = None]
        /\ dropped' = [dropped EXCEPT ![a] = @ \cup call[c].past]
    BY <1>0, <1>15 DEF DeleteReply, Uncache, At
  <2>2. store[a] = None /\ call[c].past \subseteq written[a] /\ dropped[a] \subseteq written[a]
    BY <1>0, <2>1 DEF Fits, Agreed
  <2>3. /\ \A j \in Instances : cache'[j][a] = None
        /\ dropped'[a] = dropped[a] \cup call[c].past
        /\ \A b \in Agents : b # a => /\ dropped'[b] = dropped[b]
                                      /\ \A j \in Instances : cache'[j][b] = cache[j][b]
    BY <1>0, <2>1 DEF TypeOK, OneInstance
  <2>4. Agreed(a)'
    BY <1>1, <2>1, <2>2, <2>3 DEF Agreed
  <2>5. AllAgree'
    BY <1>3, <2>1, <2>3, <2>4, AgreeWhen
  <2>6. AgeKept
    BY <2>1 DEF AgeKept
  <2> QED
    BY <2>5, <2>6
<1>16. ASSUME NEW c \in Calls, ReturnAnswer(c) \/ RedisError(c) PROVE AllAgree' /\ AgeKept
  BY <1>2, <1>3, <1>16 DEF ReturnAnswer, RedisError
\* Steps that only take away.
<1>17. ASSUME \A d \in Calls : call'[d] \in {call[d], IdleCall},
              \A a \in Agents : store'[a] \in {store[a], None},
              \A j \in Instances, a \in Agents : cache'[j][a] \in {cache[j][a], None},
              UNCHANGED <<written, dropped>>
       PROVE  AllAgree' /\ AgeKept
  <2>1. \A a \in Agents : Agreed(a)'
    BY <1>0, <1>1, <1>17 DEF Agreed, SameAge, Of
  <2>2. ASSUME NEW d \in Calls PROVE Fits(call[d])'
    <3>1. CASE call'[d] = IdleCall
      BY <1>17, <3>1, IdleFits DEF Fits, InHandPlaces
    <3>2. CASE call'[d] = call[d]
      BY <1>0, <1>17, <3>2 DEF Fits, SameAge
    <3> QED
      BY <1>17, <3>1, <3>2
  <2>3. AgeKept
    BY <1>17 DEF AgeKept
  <2> QED
    BY <2>1, <2>2, <2>3 DEF AllAgree
<1>18. ASSUME NEW i \in Instances, Crash(i) PROVE AllAgree' /\ AgeKept
  BY <1>0, <1>17, <1>18 DEF Crash, TypeOK
<1>19. CASE Tick
  BY <1>0, <1>17, <1>19 DEF Tick, TypeOK
<1>20. CASE UNCHANGED vars
  BY <1>0, <1>17, <1>20 DEF vars
<1> QED
  BY <1>4, <1>5, <1>6, <1>7, <1>8, <1>9, <1>10, <1>11, <1>12, <1>13, <1>14, <1>15, <1>16,
     <1>18, <1>19, <1>20
  DEF Next, Start, Continue

LEMMA AgreeInit == Init => Whole /\ Numbered /\ AllAgree
<1>1. ~ Pending(IdleCall) /\ IdleCall.pc = "idle" /\ IdleCall.past = {}
  BY DEF Pending, IdleCall
<1>2. Init => Numbered
  BY <1>1 DEF Init, Numbered, Unsent
<1>3. Init => AllAgree
  <2> SUFFICES ASSUME Init PROVE AllAgree
    OBVIOUS
  <2>1. \A a \in Agents : Agreed(a)
    BY DEF Init, Agreed, SameAge
  <2>2. \A c \in Calls : Fits(call[c])
    BY <1>1 DEF Init, Fits, InHandPlaces
  <2> QED
    BY <2>1, <2>2 DEF AllAgree
<1> QED
  BY <1>2, <1>3, WholeInit

\* redis-idempotency.test.ts, "Duplicate registration preserves original registeredAt":
\* true of one gateway, whatever fails or crashes, as long as calls about the same agent do
\* not overlap.
THEOREM RegisteredAtKeptApart == OneInstance /\ Spec /\ []Apart => RegisteredAtKept
<1> DEFINE Inv == Whole /\ Numbered /\ AllAgree
<1>1. Inv /\ OneInstance /\ Apart /\ [Next]_vars => Inv'
  BY WholeStep, OverStep, AgreeStep
<1>2. Inv /\ OneInstance /\ Apart /\ [Next]_vars
      => [\A a \in Agents :
            store[a] # None /\ store[a]' # None
            => store[a]'.entry.registeredAt = store[a].entry.registeredAt]_vars
  BY AgreeStep DEF AgeKept
<1>3. Init => Inv
  BY AgreeInit
<1>4. OneInstance => []OneInstance
  <2>1. OneInstance => OneInstance'
    BY DEF OneInstance
  <2> QED
    BY <2>1, PTL
<1> HIDE DEF Inv
<1> QED
  BY <1>1, <1>2, <1>3, <1>4, PTL DEF Spec, RegisteredAtKept

\* registry.test.ts, "deregister makes resolve return null": likewise.
THEOREM NotFoundOnceDroppedApart == OneInstance /\ Spec /\ []Apart => []NotFoundOnceDropped
<1> DEFINE Inv == Whole /\ Numbered /\ AllAgree
<1>1. Inv /\ OneInstance /\ Apart /\ [Next]_vars => Inv'
  BY WholeStep, OverStep, AgreeStep
<1>2. Inv => NotFoundOnceDropped
  <2> SUFFICES ASSUME Inv, NEW c \in Calls, At(c, "return"), call[c].entry # None
               PROVE  call[c].entry.endpoint \notin call[c].past
    BY DEF NotFoundOnceDropped
  <2>1. Fits(call[c]) /\ call[c].pc = "return"
    BY DEF AllAgree, At
  <2> QED
    BY <2>1 DEF Fits
<1>3. Init => Inv
  BY AgreeInit
<1>4. OneInstance => []OneInstance
  <2>1. OneInstance => OneInstance'
    BY DEF OneInstance
  <2> QED
    BY <2>1, PTL
<1> HIDE DEF Inv
<1> QED
  BY <1>1, <1>2, <1>3, <1>4, PTL DEF Spec
=============================================================================
