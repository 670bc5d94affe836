--------------------------- MODULE Gateway_proofs ---------------------------
(***************************************************************************)
(* Proofs about Gateway, for any number of requests and agents.            *)
(***************************************************************************)
EXTENDS Gateway, TLAPS

LEMMA InitTyped == Init => TypeOK
<1>1. (CHOOSE a \in Agents : TRUE) \in Agents
  BY ConstantsAssumption
<1>2. NoInput \in Input
  BY <1>1 DEF NoInput, Headers, Input, Routes, Tokens
<1> QED
  BY <1>2 DEF Init, TypeOK, Places, Codes

\* The pieces of the actions keep their variables in place.
LEMMA GotoTyped ==
  ASSUME TypeOK, NEW r \in Requests, NEW place \in Places, Goto(r, place)
  PROVE  pc' \in [Requests -> Places]
BY DEF TypeOK, Goto

LEMMA ReplyTyped ==
  ASSUME TypeOK, NEW r \in Requests, NEW code \in Codes, Reply(r, code)
  PROVE  pc' \in [Requests -> Places] /\ status' \in [Requests -> Codes]
<1>1. pc' \in [Requests -> Places]
  BY GotoTyped DEF Reply, Places
<1>2. status' \in [Requests -> Codes]
  BY DEF TypeOK, Reply
<1> QED
  BY <1>1, <1>2

LEMMA PublishTyped ==
  ASSUME TypeOK, NEW r \in Requests, NEW kind \in Kinds, Publish(r, kind)
  PROVE  audit' \in [Requests -> Seq(Kinds)]
<1>1. audit \in [Requests -> Seq(Kinds)]
  BY DEF TypeOK
<1>2. Append(audit[r], kind) \in Seq(Kinds)
  BY <1>1
<1> HIDE DEF Kinds
<1> QED
  BY <1>1, <1>2 DEF Publish

LEMMA EffectTyped ==
  ASSUME TypeOK, NEW r \in Requests, TakesEffect(r) \/ UNCHANGED effect
  PROVE  effect' \in [Requests -> BOOLEAN]
BY DEF TypeOK, TakesEffect

LEMMA InputTyped ==
  ASSUME TypeOK, NEW r \in Requests
  PROVE  input[r] \in Input /\ input[r].agent \in Agents /\ input[r].card \in Cards \cup {None}
BY DEF TypeOK, Input

LEMMA RegistryTyped ==
  ASSUME TypeOK, NEW r \in Requests, PutCard(r) \/ RemoveCard(r)
  PROVE  registry' \in [Agents -> Cards \cup {None}]
<1>1. input[r].card \in Cards \cup {None}
  BY InputTyped
<1> QED
  BY <1>1 DEF TypeOK, PutCard, RemoveCard

LEMMA TypedStep == TypeOK /\ [Next]_vars => TypeOK'
<1> SUFFICES ASSUME TypeOK, [Next]_vars PROVE TypeOK'
  OBVIOUS
<1>1. ASSUME NEW r \in Requests, BodyUnreadable(r) PROVE TypeOK'
  BY <1>1, ReplyTyped, PublishTyped
  DEF BodyUnreadable, Codes, Kinds, ErrorHandler, Unchanged, TypeOK
<1>2. ASSUME NEW r \in Requests, TokenAccepted(r) PROVE TypeOK'
  BY <1>2, GotoTyped
  DEF TokenAccepted, TypeOK, Places
<1>3. ASSUME NEW r \in Requests, TokenRefused(r) PROVE TypeOK'
  BY <1>3, ReplyTyped
  DEF TokenRefused, Codes, Unchanged, TypeOK
<1>4. ASSUME NEW r \in Requests, TokenTooNarrow(r) PROVE TypeOK'
  BY <1>4, ReplyTyped
  DEF TokenTooNarrow, Codes, Unchanged, TypeOK
<1>5. ASSUME NEW r \in Requests, EnvelopeRejected(r) PROVE TypeOK'
  BY <1>5, ReplyTyped
  DEF EnvelopeRejected, Codes, Unchanged, TypeOK
<1>6. ASSUME NEW r \in Requests, StartTool(r) PROVE TypeOK'
  BY <1>6, GotoTyped
  DEF StartTool, Unchanged, TypeOK, Places
<1>7. ASSUME NEW r \in Requests, StartDelegation(r) PROVE TypeOK'
  BY <1>7, GotoTyped
  DEF StartDelegation, Unchanged, TypeOK, Places
<1>8. ASSUME NEW r \in Requests, AgentFound(r) PROVE TypeOK'
  BY <1>8, GotoTyped
  DEF AgentFound, Unchanged, TypeOK, Places
<1>9. ASSUME NEW r \in Requests, AgentAbsent(r) PROVE TypeOK'
  BY <1>9, ReplyTyped, PublishTyped
  DEF AgentAbsent, Codes, Kinds, Unchanged, TypeOK
<1>10. ASSUME NEW r \in Requests, ResolveFails(r) PROVE TypeOK'
  BY <1>10, ReplyTyped, PublishTyped
  DEF ResolveFails, Codes, Kinds, Unchanged, TypeOK
<1>11. ASSUME NEW r \in Requests, AgentAnswers(r) PROVE TypeOK'
  BY <1>11, ReplyTyped, PublishTyped, EffectTyped
  DEF AgentAnswers, Codes, Kinds, Unchanged, TypeOK
<1>12. ASSUME NEW r \in Requests, AgentFails(r) PROVE TypeOK'
  BY <1>12, ReplyTyped, PublishTyped, EffectTyped
  DEF AgentFails, Codes, Kinds, MayHaveEffect, Unchanged, TypeOK
<1>13. ASSUME NEW r \in Requests, StartRegistration(r) PROVE TypeOK'
  BY <1>13, GotoTyped
  DEF StartRegistration, Unchanged, TypeOK, Places
<1>14. ASSUME NEW r \in Requests, LibraryLoaded(r) PROVE TypeOK'
  BY <1>14, GotoTyped, ReplyTyped, PublishTyped
  DEF LibraryLoaded, Codes, Kinds, ErrorHandler, TypeOK, Places
<1>15. ASSUME NEW r \in Requests, CardAccepted(r) PROVE TypeOK'
  BY <1>15, GotoTyped
  DEF CardAccepted, Unchanged, TypeOK, Places
<1>16. ASSUME NEW r \in Requests, CardTampered(r) PROVE TypeOK'
  BY <1>16, ReplyTyped
  DEF CardTampered, Codes, Unchanged, TypeOK
<1>17. ASSUME NEW r \in Requests, Store(r) PROVE TypeOK'
  BY <1>17, ReplyTyped, PublishTyped, EffectTyped, RegistryTyped
  DEF Store, Codes, Kinds, ErrorHandler, TypeOK
<1>18. ASSUME NEW r \in Requests, StoreFails(r) PROVE TypeOK'
  <2>1. /\ Reply(r, 422) \/ Reply(r, 503)
        /\ TakesEffect(r) \/ UNCHANGED effect
        /\ PutCard(r) \/ UNCHANGED registry
        /\ UNCHANGED <<keyGood, signer, input, claims, audit>>
    BY <1>18 DEF StoreFails
  <2>2. pc' \in [Requests -> Places] /\ status' \in [Requests -> Codes]
    BY <2>1, ReplyTyped DEF Codes
  <2>3. registry' \in [Agents -> Cards \cup {None}]
    BY <2>1, RegistryTyped DEF TypeOK
  <2> QED
    BY <2>1, <2>2, <2>3, EffectTyped DEF TypeOK
<1>19. ASSUME NEW r \in Requests, StartDeregistration(r) PROVE TypeOK'
  BY <1>19, GotoTyped
  DEF StartDeregistration, Unchanged, TypeOK, Places
<1>20. ASSUME NEW r \in Requests, Drop(r) PROVE TypeOK'
  BY <1>20, ReplyTyped, PublishTyped, EffectTyped, RegistryTyped
  DEF Drop, Codes, Kinds, TypeOK
<1>21. ASSUME NEW r \in Requests, DropFails(r) PROVE TypeOK'
  <2>1. /\ Reply(r, 422) \/ Reply(r, 503)
        /\ TakesEffect(r) \/ UNCHANGED effect
        /\ RemoveCard(r) \/ UNCHANGED registry
        /\ UNCHANGED <<keyGood, signer, input, claims, audit>>
    BY <1>21 DEF DropFails
  <2>2. pc' \in [Requests -> Places] /\ status' \in [Requests -> Codes]
    BY <2>1, ReplyTyped DEF Codes
  <2>3. registry' \in [Agents -> Cards \cup {None}]
    BY <2>1, RegistryTyped DEF TypeOK
  <2> QED
    BY <2>1, <2>2, <2>3, EffectTyped DEF TypeOK
<1>22. ASSUME NEW r \in Requests, ToolSucceeds(r) PROVE TypeOK'
  BY <1>22, ReplyTyped, PublishTyped, EffectTyped
  DEF ToolSucceeds, Codes, Kinds, Unchanged, TypeOK
<1>23. ASSUME NEW r \in Requests, ToolFails(r) PROVE TypeOK'
  BY <1>23, ReplyTyped, PublishTyped, EffectTyped
  DEF ToolFails, Codes, Kinds, MayHaveEffect, Unchanged, TypeOK
<1>24. ASSUME NEW r \in Requests, Close(r) PROVE TypeOK'
  <2>1. (CHOOSE a \in Agents : TRUE) \in Agents
    BY ConstantsAssumption
  <2>2. NoInput \in Input
    BY <2>1 DEF NoInput, Headers, Input, Routes, Tokens
  <2>3. audit' \in [Requests -> Seq(Kinds)]
    BY <1>24 DEF Close, TypeOK
  <2> QED
    BY <1>24, <2>2, <2>3, GotoTyped DEF Close, TypeOK, Places, Codes
<1>25. ASSUME NEW r \in Requests, NEW route \in Routes, NEW token \in Tokens, NEW agent \in Agents,
           Receive(r, route, token, agent)
      PROVE  TypeOK'
  <2>1. Headers(route, token, agent) \in Input
    BY DEF Headers, Input
  <2> QED
    BY <1>25, <2>1, GotoTyped, ReplyTyped DEF Receive, TypeOK, Places, Codes
<1>26. ASSUME NEW r \in Requests, NEW body \in Bodies \cup {None}, NEW card \in Cards \cup {None},
           BodyRead(r, body, card)
      PROVE  TypeOK'
  <2>1. WithBody(input[r], body, card) \in Input
    BY InputTyped DEF WithBody, Input
  <2> QED
    BY <1>26, <2>1, GotoTyped, ReplyTyped, PublishTyped
    DEF BodyRead, ErrorHandler, TypeOK, Places, Codes, Kinds
<1>27. ASSUME NEW a \in Agents, Elsewhere(a) PROVE TypeOK'
  BY <1>27 DEF Elsewhere, TypeOK, Cards
<1>30. ASSUME NEW happened \in SUBSET Requests, Restart(happened) PROVE TypeOK'
  <2>1. NoInput \in Input
    BY ConstantsAssumption DEF NoInput, Headers, Input, Routes, Tokens
  <2>2. registry' \in [Agents -> Cards \cup {None}]
    BY <1>30 DEF Restart
  <2>3. pc' \in [Requests -> Places]
    BY <1>30 DEF Restart, TypeOK, Places
  <2>4. input' \in [Requests -> Input]
    BY <1>30, <2>1 DEF Restart, TypeOK
  <2>5. claims' \in [Requests -> BOOLEAN] /\ effect' \in [Requests -> BOOLEAN]
    BY <1>30 DEF Restart, TypeOK
  <2> QED
    BY <1>30, <2>2, <2>3, <2>4, <2>5 DEF Restart, TypeOK
<1>29. ASSUME NEW r \in Requests, CardUnsigned(r) PROVE TypeOK'
  BY <1>29, ReplyTyped, PublishTyped
  DEF CardUnsigned, Codes, Kinds, ErrorHandler, Unchanged, TypeOK
<1>28. CASE UNCHANGED vars
  BY <1>28 DEF vars, TypeOK
<1> QED
  BY <1>1, <1>2, <1>3, <1>4, <1>5, <1>6, <1>7, <1>8, <1>9, <1>10, <1>11, <1>12, <1>13, <1>14, <1>15, <1>16, <1>17, <1>18, <1>19, <1>20, <1>21, <1>22, <1>23, <1>24, <1>25, <1>26, <1>27, <1>28,
     <1>29, <1>30 DEF Next, Arrive, Step, EndsWait

-----------------------------------------------------------------------------
(* The way of a request *)

Handling == {"handle", "tool", "resolve", "agent", "import", "check", "store", "drop"}

\* What is known of a request by the place it has come to.
Way(r) ==
  /\ pc[r] \in {"idle", "parse", "verify"} => ~ claims[r]
  /\ pc[r] \in Handling => claims[r] /\ input[r].token = "good"
  /\ pc[r] \in Handling \ {"handle"} => input[r].body # "invalid"
  /\ pc[r] \in {"tool", "resolve", "agent", "drop"} => input[r].route # "register"
  /\ input[r].card # None => input[r].route = "register"
  /\ pc[r] = "check" => signer # "new"
  /\ pc[r] = "store" => signer = "ready" /\ input[r].card # "forged"
  /\ pc[r] \notin {"done", "cut"} => ~ effect[r]
  /\ pc[r] # "done" => status[r] = 0

Sound ==
  /\ signer = "ready" => keyGood
  /\ signer = "halfway" => ~ keyGood
  /\ \A r \in Requests : Way(r)

IInv == TypeOK /\ Sound /\ AuthorizedEffects /\ CardVerdicts

LEMMA InitSound == Init => IInv
BY InitTyped, ConstantsAssumption
DEF Init, IInv, Sound, Way, Handling, AuthorizedEffects, CardVerdicts, NoInput, Headers

\* What the invariant says of request r alone.
Fine(r) ==
  /\ Way(r)
  /\ effect[r] => claims[r] /\ input[r].token = "good" /\ input[r].body # "invalid"
                  /\ input[r].card # "forged"
  /\ status[r] = 409 /\ input[r].card \in {"genuine", "toolless"} => ~ keyGood

\* A step of request r that leaves the signer and the registry alone.
LEMMA Alone ==
  ASSUME IInv, NEW r \in Requests, Fine(r)', UNCHANGED <<keyGood, signer, registry>>,
         \A q \in Requests \ {r} :
           /\ pc'[q] = pc[q] /\ input'[q] = input[q] /\ claims'[q] = claims[q]
           /\ effect'[q] = effect[q] /\ status'[q] = status[q]
  PROVE  Sound' /\ AuthorizedEffects' /\ CardVerdicts'
BY DEF IInv, Sound, Fine, Way, AuthorizedEffects, CardVerdicts

LEMMA FineStep == IInv /\ [Next]_vars => Sound' /\ AuthorizedEffects' /\ CardVerdicts'
<1> SUFFICES ASSUME IInv, [Next]_vars PROVE Sound' /\ AuthorizedEffects' /\ CardVerdicts'
  OBVIOUS
<1> DEFINE Kept(r) == \A q \in Requests \ {r} :
             /\ pc'[q] = pc[q] /\ input'[q] = input[q] /\ claims'[q] = claims[q]
             /\ effect'[q] = effect[q] /\ status'[q] = status[q]
<1>0. /\ TypeOK
      /\ \A r \in Requests : Fine(r)
  BY DEF IInv, Sound, Fine, AuthorizedEffects, CardVerdicts
<1>1. ASSUME NEW r \in Requests, BodyUnreadable(r) PROVE Sound' /\ AuthorizedEffects' /\ CardVerdicts'
  <2>1. UNCHANGED <<keyGood, signer, registry>> /\ Kept(r)
    BY <1>0, <1>1 DEF TypeOK, BodyUnreadable, ErrorHandler, Unchanged, Reply, Goto
  <2>2. Fine(r)'
    BY <1>0, <1>1, ConstantsAssumption DEF Fine, Way, Handling, TypeOK, BodyUnreadable, ErrorHandler, Unchanged, Reply, Goto
  <2> QED
    BY <2>1, <2>2, Alone
<1>2. ASSUME NEW r \in Requests, TokenAccepted(r) PROVE Sound' /\ AuthorizedEffects' /\ CardVerdicts'
  <2>1. UNCHANGED <<keyGood, signer, registry>> /\ Kept(r)
    BY <1>0, <1>2 DEF TypeOK, TokenAccepted, Goto
  <2>2. Fine(r)'
    BY <1>0, <1>2, ConstantsAssumption DEF Fine, Way, Handling, TypeOK, TokenAccepted, Goto
  <2> QED
    BY <2>1, <2>2, Alone
<1>3. ASSUME NEW r \in Requests, TokenRefused(r) PROVE Sound' /\ AuthorizedEffects' /\ CardVerdicts'
  <2>1. UNCHANGED <<keyGood, signer, registry>> /\ Kept(r)
    BY <1>0, <1>3 DEF TypeOK, TokenRefused, Unchanged, Reply, Goto
  <2>2. Fine(r)'
    BY <1>0, <1>3, ConstantsAssumption DEF Fine, Way, Handling, TypeOK, TokenRefused, Unchanged, Reply, Goto
  <2> QED
    BY <2>1, <2>2, Alone
<1>4. ASSUME NEW r \in Requests, TokenTooNarrow(r) PROVE Sound' /\ AuthorizedEffects' /\ CardVerdicts'
  <2>1. UNCHANGED <<keyGood, signer, registry>> /\ Kept(r)
    BY <1>0, <1>4 DEF TypeOK, TokenTooNarrow, Unchanged, Reply, Goto
  <2>2. Fine(r)'
    BY <1>0, <1>4, ConstantsAssumption DEF Fine, Way, Handling, TypeOK, TokenTooNarrow, Unchanged, Reply, Goto
  <2> QED
    BY <2>1, <2>2, Alone
<1>5. ASSUME NEW r \in Requests, EnvelopeRejected(r) PROVE Sound' /\ AuthorizedEffects' /\ CardVerdicts'
  <2>1. UNCHANGED <<keyGood, signer, registry>> /\ Kept(r)
    BY <1>0, <1>5 DEF TypeOK, EnvelopeRejected, Unchanged, Reply, Goto
  <2>2. Fine(r)'
    BY <1>0, <1>5, ConstantsAssumption DEF Fine, Way, Handling, TypeOK, EnvelopeRejected, Unchanged, Reply, Goto
  <2> QED
    BY <2>1, <2>2, Alone
<1>6. ASSUME NEW r \in Requests, StartTool(r) PROVE Sound' /\ AuthorizedEffects' /\ CardVerdicts'
  <2>1. UNCHANGED <<keyGood, signer, registry>> /\ Kept(r)
    BY <1>0, <1>6 DEF TypeOK, StartTool, Handles, Unchanged, Goto
  <2>2. Fine(r)'
    BY <1>0, <1>6, ConstantsAssumption DEF Fine, Way, Handling, TypeOK, StartTool, Handles, Unchanged, Goto
  <2> QED
    BY <2>1, <2>2, Alone
<1>7. ASSUME NEW r \in Requests, StartDelegation(r) PROVE Sound' /\ AuthorizedEffects' /\ CardVerdicts'
  <2>1. UNCHANGED <<keyGood, signer, registry>> /\ Kept(r)
    BY <1>0, <1>7 DEF TypeOK, StartDelegation, Handles, Unchanged, Goto
  <2>2. Fine(r)'
    BY <1>0, <1>7, ConstantsAssumption DEF Fine, Way, Handling, TypeOK, StartDelegation, Handles, Unchanged, Goto
  <2> QED
    BY <2>1, <2>2, Alone
<1>8. ASSUME NEW r \in Requests, AgentFound(r) PROVE Sound' /\ AuthorizedEffects' /\ CardVerdicts'
  <2>1. UNCHANGED <<keyGood, signer, registry>> /\ Kept(r)
    BY <1>0, <1>8 DEF TypeOK, AgentFound, Unchanged, Goto
  <2>2. Fine(r)'
    BY <1>0, <1>8, ConstantsAssumption DEF Fine, Way, Handling, TypeOK, AgentFound, Unchanged, Goto
  <2> QED
    BY <2>1, <2>2, Alone
<1>9. ASSUME NEW r \in Requests, AgentAbsent(r) PROVE Sound' /\ AuthorizedEffects' /\ CardVerdicts'
  <2>1. UNCHANGED <<keyGood, signer, registry>> /\ Kept(r)
    BY <1>0, <1>9 DEF TypeOK, AgentAbsent, Unchanged, Reply, Goto
  <2>2. Fine(r)'
    BY <1>0, <1>9, ConstantsAssumption DEF Fine, Way, Handling, TypeOK, AgentAbsent, Unchanged, Reply, Goto
  <2> QED
    BY <2>1, <2>2, Alone
<1>10. ASSUME NEW r \in Requests, ResolveFails(r) PROVE Sound' /\ AuthorizedEffects' /\ CardVerdicts'
  <2>1. UNCHANGED <<keyGood, signer, registry>> /\ Kept(r)
    BY <1>0, <1>10 DEF TypeOK, ResolveFails, Unchanged, Reply, Goto
  <2>2. Fine(r)'
    BY <1>0, <1>10, ConstantsAssumption DEF Fine, Way, Handling, TypeOK, ResolveFails, Unchanged, Reply, Goto
  <2> QED
    BY <2>1, <2>2, Alone
<1>11. ASSUME NEW r \in Requests, AgentAnswers(r) PROVE Sound' /\ AuthorizedEffects' /\ CardVerdicts'
  <2>1. UNCHANGED <<keyGood, signer, registry>> /\ Kept(r)
    BY <1>0, <1>11 DEF TypeOK, AgentAnswers, TakesEffect, Unchanged, Reply, Goto
  <2>2. Fine(r)'
    BY <1>0, <1>11, ConstantsAssumption DEF Fine, Way, Handling, TypeOK, AgentAnswers, TakesEffect, Unchanged, Reply, Goto
  <2> QED
    BY <2>1, <2>2, Alone
<1>12. ASSUME NEW r \in Requests, AgentFails(r) PROVE Sound' /\ AuthorizedEffects' /\ CardVerdicts'
  <2>1. UNCHANGED <<keyGood, signer, registry>> /\ Kept(r)
    BY <1>0, <1>12 DEF TypeOK, AgentFails, MayHaveEffect, Unchanged, Reply, TakesEffect, Goto
  <2>2. Fine(r)'
    BY <1>0, <1>12, ConstantsAssumption DEF Fine, Way, Handling, TypeOK, AgentFails, MayHaveEffect, Unchanged, Reply, TakesEffect, Goto
  <2> QED
    BY <2>1, <2>2, Alone
<1>13. ASSUME NEW r \in Requests, StartRegistration(r) PROVE Sound' /\ AuthorizedEffects' /\ CardVerdicts'
  <2>1. UNCHANGED <<keyGood, signer, registry>> /\ Kept(r)
    BY <1>0, <1>13 DEF TypeOK, StartRegistration, Handles, Unchanged, Goto
  <2>2. Fine(r)'
    BY <1>0, <1>13, ConstantsAssumption DEF Fine, Way, Handling, TypeOK, StartRegistration, Handles, Unchanged, Goto
  <2> QED
    BY <2>1, <2>2, Alone
<1>14. ASSUME NEW r \in Requests, CardAccepted(r) PROVE Sound' /\ AuthorizedEffects' /\ CardVerdicts'
  <2>1. UNCHANGED <<keyGood, signer, registry>> /\ Kept(r)
    BY <1>0, <1>14 DEF TypeOK, CardAccepted, Verifies, Unchanged, Goto
  <2>2. Fine(r)'
    BY <1>0, <1>14, ConstantsAssumption DEF Fine, Way, Handling, TypeOK, CardAccepted, Verifies, Unchanged, Goto
  <2> QED
    BY <2>1, <2>2, Alone
<1>15. ASSUME NEW r \in Requests, CardTampered(r) PROVE Sound' /\ AuthorizedEffects' /\ CardVerdicts'
  <2>1. UNCHANGED <<keyGood, signer, registry>> /\ Kept(r)
    BY <1>0, <1>15 DEF TypeOK, CardTampered, Verifies, Unchanged, Reply, Goto
  <2>2. input[r].card = "forged" \/ ~ keyGood
    BY <1>0, <1>15 DEF TypeOK, IInv, Sound, Way, CardTampered, Verifies
  <2>3. Fine(r)'
    BY <1>0, <1>15, <2>2, ConstantsAssumption DEF Fine, Way, Handling, TypeOK, CardTampered, Unchanged, Reply, Goto
  <2> QED
    BY <2>1, <2>3, Alone
<1>16. ASSUME NEW r \in Requests, StartDeregistration(r) PROVE Sound' /\ AuthorizedEffects' /\ CardVerdicts'
  <2>1. UNCHANGED <<keyGood, signer, registry>> /\ Kept(r)
    BY <1>0, <1>16 DEF TypeOK, StartDeregistration, Handles, Unchanged, Goto
  <2>2. Fine(r)'
    BY <1>0, <1>16, ConstantsAssumption DEF Fine, Way, Handling, TypeOK, StartDeregistration, Handles, Unchanged, Goto
  <2> QED
    BY <2>1, <2>2, Alone
<1>17. ASSUME NEW r \in Requests, ToolSucceeds(r) PROVE Sound' /\ AuthorizedEffects' /\ CardVerdicts'
  <2>1. UNCHANGED <<keyGood, signer, registry>> /\ Kept(r)
    BY <1>0, <1>17 DEF TypeOK, ToolSucceeds, TakesEffect, Unchanged, Reply, Goto
  <2>2. Fine(r)'
    BY <1>0, <1>17, ConstantsAssumption DEF Fine, Way, Handling, TypeOK, ToolSucceeds, TakesEffect, Unchanged, Reply, Goto
  <2> QED
    BY <2>1, <2>2, Alone
<1>18. ASSUME NEW r \in Requests, ToolFails(r) PROVE Sound' /\ AuthorizedEffects' /\ CardVerdicts'
  <2>1. UNCHANGED <<keyGood, signer, registry>> /\ Kept(r)
    BY <1>0, <1>18 DEF TypeOK, ToolFails, MayHaveEffect, Unchanged, Reply, TakesEffect, Goto
  <2>2. Fine(r)'
    BY <1>0, <1>18, ConstantsAssumption DEF Fine, Way, Handling, TypeOK, ToolFails, MayHaveEffect, Unchanged, Reply, TakesEffect, Goto
  <2> QED
    BY <2>1, <2>2, Alone
<1>19. ASSUME NEW r \in Requests, Close(r) PROVE Sound' /\ AuthorizedEffects' /\ CardVerdicts'
  <2>1. UNCHANGED <<keyGood, signer, registry>> /\ Kept(r)
    BY <1>0, <1>19 DEF TypeOK, Close, NoInput, Goto, Headers
  <2>2. Fine(r)'
    BY <1>0, <1>19, ConstantsAssumption DEF Fine, Way, Handling, TypeOK, Close, NoInput, Goto, Headers
  <2> QED
    BY <2>1, <2>2, Alone
<1>20. ASSUME NEW r \in Requests, NEW route \in Routes, NEW token \in Tokens, NEW agent \in Agents,
           Receive(r, route, token, agent)
      PROVE  Sound' /\ AuthorizedEffects' /\ CardVerdicts'
  <2>1. UNCHANGED <<keyGood, signer, registry>> /\ Kept(r)
    BY <1>0, <1>20 DEF TypeOK, Receive, Reply, Goto
  <2>2. Fine(r)'
    BY <1>0, <1>20, ConstantsAssumption
    DEF Fine, Way, Handling, TypeOK, Receive, Headers, Reply, Goto
  <2> QED
    BY <2>1, <2>2, Alone
<1>21. ASSUME NEW r \in Requests, NEW body \in Bodies \cup {None}, NEW card \in Cards \cup {None},
           BodyRead(r, body, card)
      PROVE  Sound' /\ AuthorizedEffects' /\ CardVerdicts'
  <2>1. UNCHANGED <<keyGood, signer, registry>> /\ Kept(r)
    BY <1>0, <1>21 DEF TypeOK, BodyRead, ErrorHandler, Reply, Goto
  <2>2. CardPasses(r, input[r].route, body)
    BY <1>0, <1>21 DEF Fine, Way, CardPasses, BodyRead
  <2>3. Fine(r)'
    BY <1>0, <1>21, <2>2, ConstantsAssumption
    DEF Fine, Way, Handling, TypeOK, BodyRead, WithBody, Reply, Goto
  <2> QED
    BY <2>1, <2>3, Alone
<1>22. ASSUME NEW r \in Requests, LibraryLoaded(r) PROVE Sound' /\ AuthorizedEffects' /\ CardVerdicts'
  <2>1. UNCHANGED <<keyGood, registry>> /\ Kept(r)
    BY <1>0, <1>22 DEF TypeOK, LibraryLoaded, ErrorHandler, Reply, Goto
  <2>2. /\ signer' = "ready" => keyGood
        /\ signer' = "halfway" => ~ keyGood
        /\ signer' # "new"
        /\ signer = "ready" => signer' = "ready"
    BY <1>22 DEF LibraryLoaded, IInv, Sound
  <2>3. Fine(r)'
    BY <1>0, <1>22, <2>2
    DEF Fine, Way, Handling, TypeOK, LibraryLoaded, ErrorHandler, Reply, Goto
  <2> QED
    BY <1>0, <2>1, <2>2, <2>3 DEF IInv, Sound, Fine, Way, AuthorizedEffects, CardVerdicts
<1>23. ASSUME NEW r \in Requests, Store(r) PROVE Sound' /\ AuthorizedEffects' /\ CardVerdicts'
  <2>1. UNCHANGED <<keyGood, signer>> /\ Kept(r)
    BY <1>0, <1>23 DEF TypeOK, Store, ErrorHandler, TakesEffect, Reply, Goto
  <2>2. Fine(r)'
    BY <1>0, <1>23, ConstantsAssumption
    DEF Fine, Way, Handling, TypeOK, Store, ErrorHandler, TakesEffect, Reply, Goto
  <2>3. \A a \in Agents : registry'[a] # None => keyGood /\ registry'[a] # "forged"
    BY <1>0, <1>23 DEF Store, PutCard, Fine, Way, TypeOK, IInv, Sound, CardVerdicts
  <2> QED
    BY <1>0, <2>1, <2>2, <2>3 DEF IInv, Sound, Fine, Way, AuthorizedEffects, CardVerdicts
<1>24. ASSUME NEW r \in Requests, StoreFails(r) PROVE Sound' /\ AuthorizedEffects' /\ CardVerdicts'
  <2>1. UNCHANGED <<keyGood, signer>> /\ Kept(r)
    BY <1>0, <1>24 DEF TypeOK, StoreFails, TakesEffect, Reply, Goto
  <2>2. Fine(r)'
    BY <1>0, <1>24, ConstantsAssumption
    DEF Fine, Way, Handling, TypeOK, StoreFails, TakesEffect, Reply, Goto
  <2>3. \A a \in Agents : registry'[a] # None => keyGood /\ registry'[a] # "forged"
    BY <1>0, <1>24 DEF StoreFails, PutCard, Fine, Way, TypeOK, IInv, Sound, CardVerdicts
  <2> QED
    BY <1>0, <2>1, <2>2, <2>3 DEF IInv, Sound, Fine, Way, AuthorizedEffects, CardVerdicts
<1>25. ASSUME NEW r \in Requests, Drop(r) PROVE Sound' /\ AuthorizedEffects' /\ CardVerdicts'
  <2>1. UNCHANGED <<keyGood, signer>> /\ Kept(r)
    BY <1>0, <1>25 DEF TypeOK, Drop, TakesEffect, Reply, Goto
  <2>2. Fine(r)'
    BY <1>0, <1>25, ConstantsAssumption
    DEF Fine, Way, Handling, TypeOK, Drop, TakesEffect, Reply, Goto
  <2>3. \A a \in Agents : registry'[a] # None => keyGood /\ registry'[a] # "forged"
    BY <1>0, <1>25 DEF Drop, RemoveCard, Fine, Way, TypeOK, IInv, Sound, CardVerdicts
  <2> QED
    BY <1>0, <2>1, <2>2, <2>3 DEF IInv, Sound, Fine, Way, AuthorizedEffects, CardVerdicts
<1>26. ASSUME NEW r \in Requests, DropFails(r) PROVE Sound' /\ AuthorizedEffects' /\ CardVerdicts'
  <2>1. UNCHANGED <<keyGood, signer>> /\ Kept(r)
    BY <1>0, <1>26 DEF TypeOK, DropFails, TakesEffect, Reply, Goto
  <2>2. Fine(r)'
    BY <1>0, <1>26, ConstantsAssumption
    DEF Fine, Way, Handling, TypeOK, DropFails, TakesEffect, Reply, Goto
  <2>3. \A a \in Agents : registry'[a] # None => keyGood /\ registry'[a] # "forged"
    BY <1>0, <1>26 DEF DropFails, RemoveCard, Fine, Way, TypeOK, IInv, Sound, CardVerdicts
  <2> QED
    BY <1>0, <2>1, <2>2, <2>3 DEF IInv, Sound, Fine, Way, AuthorizedEffects, CardVerdicts
<1>27. ASSUME NEW a \in Agents, Elsewhere(a) PROVE Sound' /\ AuthorizedEffects' /\ CardVerdicts'
  <2>1. \A b \in Agents : registry'[b] # None => keyGood /\ registry'[b] # "forged"
    BY <1>0, <1>27 DEF Elsewhere, TypeOK, IInv, CardVerdicts
  <2> QED
    BY <1>0, <1>27, <2>1 DEF Elsewhere, IInv, Sound, Way, AuthorizedEffects, CardVerdicts
<1>30. ASSUME NEW happened \in SUBSET Requests, Restart(happened)
       PROVE  Sound' /\ AuthorizedEffects' /\ CardVerdicts'
  <2>1. \A r \in Requests : Fine(r)'
    BY <1>0, <1>30, ConstantsAssumption
    DEF Restart, Outside, TypeOK, Fine, Way, Handling, NoInput, Headers
  <2>2. \A r \in happened : pc[r] = "store" => keyGood /\ input[r].card # "forged"
    BY <1>0, <1>30 DEF IInv, Sound, Way
  <2>3. \A a \in Agents : \A card \in Possible(a, happened) :
          card # None => keyGood /\ card # "forged"
    BY <2>2 DEF Possible, IInv, CardVerdicts
  <2>4. \A a \in Agents : registry'[a] = None \/ registry'[a] \in Possible(a, happened)
    BY <1>30 DEF Restart
  <2> QED
    BY <1>30, <2>1, <2>3, <2>4 DEF Restart, Sound, Fine, AuthorizedEffects, CardVerdicts
<1>29. ASSUME NEW r \in Requests, CardUnsigned(r) PROVE Sound' /\ AuthorizedEffects' /\ CardVerdicts'
  <2>1. UNCHANGED <<keyGood, signer, registry>> /\ Kept(r)
    BY <1>0, <1>29 DEF TypeOK, CardUnsigned, Handles, ErrorHandler, Unchanged, Reply, Goto
  <2>2. Fine(r)'
    BY <1>0, <1>29, ConstantsAssumption
    DEF Fine, Way, Handling, TypeOK, CardUnsigned, Handles, ErrorHandler, Unchanged, Reply, Goto
  <2> QED
    BY <2>1, <2>2, Alone
<1>28. CASE UNCHANGED vars
  BY <1>28 DEF vars, IInv, Sound, Way, AuthorizedEffects, CardVerdicts
<1> QED
  BY <1>1, <1>2, <1>3, <1>4, <1>5, <1>6, <1>7, <1>8, <1>9, <1>10, <1>11, <1>12, <1>13, <1>14, <1>15, <1>16, <1>17, <1>18, <1>19, <1>20, <1>21, <1>22, <1>23, <1>24, <1>25, <1>26, <1>27, <1>28, <1>29, <1>30
  DEF Next, Arrive, Step, EndsWait

-----------------------------------------------------------------------------
(* Replies and events *)

\* What has been told of request r: nothing before its reply, then one verdict.
Told(r) ==
  /\ pc[r] # "done" => status[r] = 0 /\ audit[r] = <<>>
  /\ pc[r] = "done" => status[r] # 0
  /\ pc[r] \notin {"done", "cut"} => ~ effect[r]
  /\ pc[r] = "tool" => input[r].route = "invoke"
  /\ pc[r] \in {"resolve", "agent"} => input[r].route = "delegate"
  /\ pc[r] \in {"import", "check", "store"} => input[r].route = "register"
  /\ pc[r] = "drop" => input[r].route = "deregister"
  /\ pc[r] = "done" /\ status[r] < 300 =>
       effect[r] /\ audit[r] = <<Success(input[r].route)>>
  /\ pc[r] = "done" /\ status[r] >= 300 => audit[r] \in {<<>>, <<"TOOL_FAILED">>, <<"TASK_FAILED">>}
  /\ pc[r] = "done" /\ effect[r] /\ audit[r] = <<>> => status[r] = 503
  /\ pc[r] = "done" /\ status[r] \in 300 .. 499 => ~ effect[r]
  /\ status[r] = 401 => audit[r] = <<>>

LEMMA AppendToEmpty == ASSUME NEW S, NEW e \in S PROVE Append(<<>>, e) = <<e>>
<1>1. <<>> \in Seq(S)
  OBVIOUS
<1> QED
  BY <1>1

\* The first event of a request.
LEMMA PublishFirst ==
  ASSUME TypeOK, NEW r \in Requests, NEW kind \in Kinds, audit[r] = <<>>, Publish(r, kind)
  PROVE  audit'[r] = <<kind>> /\ \A q \in Requests \ {r} : audit'[q] = audit[q]
<1>1. Append(audit[r], kind) = <<kind>>
  BY AppendToEmpty
<1>2. DOMAIN audit = Requests
  BY DEF TypeOK
<1> QED
  BY <1>1, <1>2 DEF Publish

Errors == {400, 401, 403, 404, 409, 413, 415, 422, 500, 503}

\* A request answered with an error, and an event of the failure.
LEMMA ToldFailure ==
  ASSUME NEW r \in Requests, pc'[r] = "done", status'[r] \in Errors, status'[r] # 401,
         audit'[r] = <<"TOOL_FAILED">> \/ audit'[r] = <<"TASK_FAILED">>,
         ~ effect'[r] \/ status'[r] \in {500, 503}
  PROVE  Told(r)'
<1>1. audit'[r] # <<>>
  <2>1. <<"TOOL_FAILED">> # <<>> /\ <<"TASK_FAILED">> # <<>>
    OBVIOUS
  <2> QED
    BY <2>1
<1>2. status'[r] >= 300 /\ ~ (status'[r] < 300) /\ status'[r] # 0
  BY DEF Errors
<1>3. effect'[r] => status'[r] \notin 300 .. 499
  OBVIOUS
<1> HIDE DEF Success
<1> QED
  BY <1>1, <1>2, <1>3 DEF Told

\* A request answered with an error, and no event.
LEMMA ToldQuiet ==
  ASSUME NEW r \in Requests, pc'[r] = "done", status'[r] \in Errors,
         audit'[r] = <<>>, ~ effect'[r] \/ status'[r] = 503
  PROVE  Told(r)'
<1>1. status'[r] >= 300 /\ ~ (status'[r] < 300) /\ status'[r] # 0
  BY DEF Errors
<1>2. effect'[r] => status'[r] \notin 300 .. 499
  <2>1. 503 \notin 300 .. 499
    OBVIOUS
  <2> QED
    BY <2>1
<1> HIDE DEF Success
<1> QED
  BY <1>1, <1>2 DEF Told

\* A request answered with success.
LEMMA ToldSuccess ==
  ASSUME NEW r \in Requests, pc'[r] = "done", status'[r] \in {200, 201, 204},
         audit'[r] = <<Success(input'[r].route)>>, effect'[r]
  PROVE  Told(r)'
<1>1. audit'[r] # <<>>
  OBVIOUS
<1> QED
  BY <1>1 DEF Told

\* A request that goes on to another await.
LEMMA ToldOnward ==
  ASSUME NEW r \in Requests, Told(r), pc[r] \notin {"done", "cut"}, pc'[r] # "done",
         status'[r] = status[r], audit'[r] = audit[r], effect'[r] = effect[r],
         pc'[r] = "tool" => input'[r].route = "invoke",
         pc'[r] \in {"resolve", "agent"} => input'[r].route = "delegate",
         pc'[r] \in {"import", "check", "store"} => input'[r].route = "register",
         pc'[r] = "drop" => input'[r].route = "deregister"
  PROVE  Told(r)'
BY DEF Told

\* A step of request r leaves the others alone.
LEMMA ToldAlone ==
  ASSUME NEW r \in Requests, \A q \in Requests : Told(q), Told(r)',
         \A q \in Requests \ {r} :
           /\ pc'[q] = pc[q] /\ input'[q] = input[q] /\ audit'[q] = audit[q]
           /\ effect'[q] = effect[q] /\ status'[q] = status[q]
  PROVE  \A q \in Requests : Told(q)'
<1> SUFFICES ASSUME NEW q \in Requests, q # r PROVE Told(q)'
  OBVIOUS
<1>1. Told(q)
  OBVIOUS
<1>2. /\ pc'[q] = pc[q] /\ input'[q] = input[q] /\ audit'[q] = audit[q]
      /\ effect'[q] = effect[q] /\ status'[q] = status[q]
  OBVIOUS
<1> HIDE DEF Success
<1> QED
  BY <1>1, <1>2 DEF Told

LEMMA ToldStep ==
  ASSUME TypeOK, \A q \in Requests : Told(q), [Next]_vars
  PROVE  \A q \in Requests : Told(q)'
<1> DEFINE Rest(r) == \A q \in Requests \ {r} :
             /\ pc'[q] = pc[q] /\ input'[q] = input[q] /\ audit'[q] = audit[q]
             /\ effect'[q] = effect[q] /\ status'[q] = status[q]
<1>1. ASSUME NEW r \in Requests, TokenAccepted(r) PROVE \A q \in Requests : Told(q)'
  <2>1. Rest(r)
    BY <1>1 DEF TypeOK, TokenAccepted, Goto
  <2>2. Told(r)'
    BY <1>1, ToldOnward DEF Told, TypeOK, TokenAccepted, Goto
  <2> QED
    BY <2>1, <2>2, ToldAlone
<1>2. ASSUME NEW r \in Requests, StartTool(r) PROVE \A q \in Requests : Told(q)'
  <2>1. Rest(r)
    BY <1>2 DEF TypeOK, StartTool, Goto, Handles, Unchanged
  <2>2. Told(r)'
    BY <1>2, ToldOnward DEF Told, TypeOK, StartTool, Goto, Handles, Unchanged
  <2> QED
    BY <2>1, <2>2, ToldAlone
<1>3. ASSUME NEW r \in Requests, StartDelegation(r) PROVE \A q \in Requests : Told(q)'
  <2>1. Rest(r)
    BY <1>3 DEF TypeOK, StartDelegation, Goto, Handles, Unchanged
  <2>2. Told(r)'
    BY <1>3, ToldOnward DEF Told, TypeOK, StartDelegation, Goto, Handles, Unchanged
  <2> QED
    BY <2>1, <2>2, ToldAlone
<1>4. ASSUME NEW r \in Requests, AgentFound(r) PROVE \A q \in Requests : Told(q)'
  <2>1. Rest(r)
    BY <1>4 DEF TypeOK, AgentFound, Goto, Unchanged
  <2>2. Told(r)'
    BY <1>4, ToldOnward DEF Told, TypeOK, AgentFound, Goto, Unchanged
  <2> QED
    BY <2>1, <2>2, ToldAlone
<1>5. ASSUME NEW r \in Requests, StartRegistration(r) PROVE \A q \in Requests : Told(q)'
  <2>1. Rest(r)
    BY <1>5 DEF TypeOK, StartRegistration, Goto, Handles, Unchanged
  <2>2. Told(r)'
    BY <1>5, ToldOnward DEF Told, TypeOK, StartRegistration, Goto, Handles, Unchanged
  <2> QED
    BY <2>1, <2>2, ToldAlone
<1>6. ASSUME NEW r \in Requests, CardAccepted(r) PROVE \A q \in Requests : Told(q)'
  <2>1. Rest(r)
    BY <1>6 DEF TypeOK, CardAccepted, Goto, Unchanged
  <2>2. Told(r)'
    BY <1>6, ToldOnward DEF Told, TypeOK, CardAccepted, Goto, Unchanged
  <2> QED
    BY <2>1, <2>2, ToldAlone
<1>7. ASSUME NEW r \in Requests, StartDeregistration(r) PROVE \A q \in Requests : Told(q)'
  <2>1. Rest(r)
    BY <1>7 DEF TypeOK, StartDeregistration, Goto, Handles, Unchanged
  <2>2. Told(r)'
    BY <1>7, ToldOnward DEF Told, TypeOK, StartDeregistration, Goto, Handles, Unchanged
  <2> QED
    BY <2>1, <2>2, ToldAlone
<1>8. ASSUME NEW r \in Requests, BodyUnreadable(r) PROVE \A q \in Requests : Told(q)'
  <2>1. Rest(r)
    BY <1>8 DEF TypeOK, BodyUnreadable, ErrorHandler, Goto, Publish, Reply, Unchanged
  <2>2. pc[r] \notin {"done", "cut"} /\ audit[r] = <<>> /\ ~ effect[r]
    BY <1>8 DEF Told, BodyUnreadable
  <2>3. pc'[r] = "done" /\ status'[r] \in Errors
    BY <1>8 DEF TypeOK, Errors, BodyUnreadable, ErrorHandler, Goto, Reply
  <2>4. audit'[r] = <<"TOOL_FAILED">>
    BY <1>8, <2>2, PublishFirst DEF Kinds, BodyUnreadable, ErrorHandler
  <2>5. ~ effect'[r]
    BY <1>8, <2>2 DEF BodyUnreadable
  <2>6. status'[r] # 401
    BY <1>8 DEF TypeOK, BodyUnreadable, ErrorHandler, Goto, Reply
  <2>7. Told(r)'
    BY <2>3, <2>4, <2>5, <2>6, ToldFailure
  <2> QED
    BY <2>1, <2>7, ToldAlone
<1>9. ASSUME NEW r \in Requests, TokenRefused(r) PROVE \A q \in Requests : Told(q)'
  <2>1. Rest(r)
    BY <1>9 DEF TypeOK, TokenRefused, Goto, Reply, Unchanged
  <2>2. pc[r] \notin {"done", "cut"} /\ audit[r] = <<>> /\ ~ effect[r]
    BY <1>9 DEF Told, TokenRefused
  <2>3. pc'[r] = "done" /\ status'[r] \in Errors
    BY <1>9 DEF TypeOK, Errors, TokenRefused, Goto, Reply
  <2>4. audit'[r] = <<>>
    BY <1>9, <2>2 DEF TokenRefused, Unchanged
  <2>5. ~ effect'[r]
    BY <1>9, <2>2 DEF TokenRefused
  <2>7. Told(r)'
    BY <2>3, <2>4, <2>5, ToldQuiet
  <2> QED
    BY <2>1, <2>7, ToldAlone
<1>10. ASSUME NEW r \in Requests, TokenTooNarrow(r) PROVE \A q \in Requests : Told(q)'
  <2>1. Rest(r)
    BY <1>10 DEF TypeOK, TokenTooNarrow, Goto, Reply, Unchanged
  <2>2. pc[r] \notin {"done", "cut"} /\ audit[r] = <<>> /\ ~ effect[r]
    BY <1>10 DEF Told, TokenTooNarrow
  <2>3. pc'[r] = "done" /\ status'[r] \in Errors
    BY <1>10 DEF TypeOK, Errors, TokenTooNarrow, Goto, Reply
  <2>4. audit'[r] = <<>>
    BY <1>10, <2>2 DEF TokenTooNarrow, Unchanged
  <2>5. ~ effect'[r]
    BY <1>10, <2>2 DEF TokenTooNarrow
  <2>7. Told(r)'
    BY <2>3, <2>4, <2>5, ToldQuiet
  <2> QED
    BY <2>1, <2>7, ToldAlone
<1>11. ASSUME NEW r \in Requests, EnvelopeRejected(r) PROVE \A q \in Requests : Told(q)'
  <2>1. Rest(r)
    BY <1>11 DEF TypeOK, EnvelopeRejected, Goto, Reply, Unchanged
  <2>2. pc[r] \notin {"done", "cut"} /\ audit[r] = <<>> /\ ~ effect[r]
    BY <1>11 DEF Told, EnvelopeRejected
  <2>3. pc'[r] = "done" /\ status'[r] \in Errors
    BY <1>11 DEF TypeOK, Errors, EnvelopeRejected, Goto, Reply
  <2>4. audit'[r] = <<>>
    BY <1>11, <2>2 DEF EnvelopeRejected, Unchanged
  <2>5. ~ effect'[r]
    BY <1>11, <2>2 DEF EnvelopeRejected
  <2>7. Told(r)'
    BY <2>3, <2>4, <2>5, ToldQuiet
  <2> QED
    BY <2>1, <2>7, ToldAlone
<1>12. ASSUME NEW r \in Requests, ToolFails(r) PROVE \A q \in Requests : Told(q)'
  <2>1. Rest(r)
    BY <1>12 DEF TypeOK, ToolFails, Goto, MayHaveEffect, Publish, Reply, TakesEffect, Unchanged
  <2>2. pc[r] \notin {"done", "cut"} /\ audit[r] = <<>> /\ ~ effect[r]
    BY <1>12 DEF Told, ToolFails
  <2>3. pc'[r] = "done" /\ status'[r] \in Errors
    BY <1>12 DEF TypeOK, Errors, ToolFails, Goto, Reply
  <2>4. audit'[r] = <<"TOOL_FAILED">>
    BY <1>12, <2>2, PublishFirst DEF Kinds, ToolFails
  <2>5. ~ effect'[r] \/ status'[r] \in {500, 503}
    BY <1>12, <2>2 DEF TypeOK, ToolFails, Reply
  <2>6. status'[r] # 401
    BY <1>12 DEF TypeOK, ToolFails, Goto, Reply
  <2>7. Told(r)'
    BY <2>3, <2>4, <2>5, <2>6, ToldFailure
  <2> QED
    BY <2>1, <2>7, ToldAlone
<1>13. ASSUME NEW r \in Requests, AgentAbsent(r) PROVE \A q \in Requests : Told(q)'
  <2>1. Rest(r)
    BY <1>13 DEF TypeOK, AgentAbsent, Goto, Publish, Reply, Unchanged
  <2>2. pc[r] \notin {"done", "cut"} /\ audit[r] = <<>> /\ ~ effect[r]
    BY <1>13 DEF Told, AgentAbsent
  <2>3. pc'[r] = "done" /\ status'[r] \in Errors
    BY <1>13 DEF TypeOK, Errors, AgentAbsent, Goto, Reply
  <2>4. audit'[r] = <<"TASK_FAILED">>
    BY <1>13, <2>2, PublishFirst DEF Kinds, AgentAbsent
  <2>5. ~ effect'[r]
    BY <1>13, <2>2 DEF AgentAbsent
  <2>6. status'[r] # 401
    BY <1>13 DEF TypeOK, AgentAbsent, Goto, Reply
  <2>7. Told(r)'
    BY <2>3, <2>4, <2>5, <2>6, ToldFailure
  <2> QED
    BY <2>1, <2>7, ToldAlone
<1>14. ASSUME NEW r \in Requests, ResolveFails(r) PROVE \A q \in Requests : Told(q)'
  <2>1. Rest(r)
    BY <1>14 DEF TypeOK, ResolveFails, Goto, Publish, Reply, Unchanged
  <2>2. pc[r] \notin {"done", "cut"} /\ audit[r] = <<>> /\ ~ effect[r]
    BY <1>14 DEF Told, ResolveFails
  <2>3. pc'[r] = "done" /\ status'[r] \in Errors
    BY <1>14 DEF TypeOK, Errors, ResolveFails, Goto, Reply
  <2>4. audit'[r] = <<"TASK_FAILED">>
    BY <1>14, <2>2, PublishFirst DEF Kinds, ResolveFails
  <2>5. ~ effect'[r]
    BY <1>14, <2>2 DEF ResolveFails
  <2>6. status'[r] # 401
    BY <1>14 DEF TypeOK, ResolveFails, Goto, Reply
  <2>7. Told(r)'
    BY <2>3, <2>4, <2>5, <2>6, ToldFailure
  <2> QED
    BY <2>1, <2>7, ToldAlone
<1>15. ASSUME NEW r \in Requests, AgentFails(r) PROVE \A q \in Requests : Told(q)'
  <2>1. Rest(r)
    BY <1>15 DEF TypeOK, AgentFails, Goto, MayHaveEffect, Publish, Reply, TakesEffect, Unchanged
  <2>2. pc[r] \notin {"done", "cut"} /\ audit[r] = <<>> /\ ~ effect[r]
    BY <1>15 DEF Told, AgentFails
  <2>3. pc'[r] = "done" /\ status'[r] \in Errors
    BY <1>15 DEF TypeOK, Errors, AgentFails, Goto, Reply
  <2>4. audit'[r] = <<"TASK_FAILED">>
    BY <1>15, <2>2, PublishFirst DEF Kinds, AgentFails
  <2>5. ~ effect'[r] \/ status'[r] \in {500, 503}
    BY <1>15, <2>2 DEF TypeOK, AgentFails, Reply
  <2>6. status'[r] # 401
    BY <1>15 DEF TypeOK, AgentFails, Goto, Reply
  <2>7. Told(r)'
    BY <2>3, <2>4, <2>5, <2>6, ToldFailure
  <2> QED
    BY <2>1, <2>7, ToldAlone
<1>16. ASSUME NEW r \in Requests, CardUnsigned(r) PROVE \A q \in Requests : Told(q)'
  <2>1. Rest(r)
    BY <1>16 DEF TypeOK, CardUnsigned, ErrorHandler, Goto, Handles, Publish, Reply, Unchanged
  <2>2. pc[r] \notin {"done", "cut"} /\ audit[r] = <<>> /\ ~ effect[r]
    BY <1>16 DEF Told, CardUnsigned, Handles
  <2>3. pc'[r] = "done" /\ status'[r] \in Errors
    BY <1>16 DEF TypeOK, Errors, CardUnsigned, ErrorHandler, Goto, Reply
  <2>4. audit'[r] = <<>> \/ audit'[r] = <<"TOOL_FAILED">>
    BY <1>16, <2>2, PublishFirst DEF Kinds, CardUnsigned, ErrorHandler
  <2>5. ~ effect'[r]
    BY <1>16, <2>2 DEF CardUnsigned
  <2>6. status'[r] # 401
    BY <1>16 DEF TypeOK, CardUnsigned, ErrorHandler, Goto, Reply
  <2>7. Told(r)'
    BY <2>3, <2>4, <2>5, <2>6, ToldFailure, ToldQuiet
  <2> QED
    BY <2>1, <2>7, ToldAlone
<1>17. ASSUME NEW r \in Requests, CardTampered(r) PROVE \A q \in Requests : Told(q)'
  <2>1. Rest(r)
    BY <1>17 DEF TypeOK, CardTampered, Goto, Reply, Unchanged
  <2>2. pc[r] \notin {"done", "cut"} /\ audit[r] = <<>> /\ ~ effect[r]
    BY <1>17 DEF Told, CardTampered
  <2>3. pc'[r] = "done" /\ status'[r] \in Errors
    BY <1>17 DEF TypeOK, Errors, CardTampered, Goto, Reply
  <2>4. audit'[r] = <<>>
    BY <1>17, <2>2 DEF CardTampered, Unchanged
  <2>5. ~ effect'[r]
    BY <1>17, <2>2 DEF CardTampered
  <2>7. Told(r)'
    BY <2>3, <2>4, <2>5, ToldQuiet
  <2> QED
    BY <2>1, <2>7, ToldAlone
<1>18. ASSUME NEW r \in Requests, StoreFails(r) PROVE \A q \in Requests : Told(q)'
  <2>1. Rest(r)
    BY <1>18 DEF TypeOK, StoreFails, Goto, Reply, TakesEffect
  <2>2. pc[r] \notin {"done", "cut"} /\ audit[r] = <<>> /\ ~ effect[r]
    BY <1>18 DEF Told, StoreFails
  <2>3. pc'[r] = "done" /\ status'[r] \in Errors
    BY <1>18 DEF TypeOK, Errors, StoreFails, Goto, Reply
  <2>4. audit'[r] = <<>>
    BY <1>18, <2>2 DEF StoreFails
  <2>5. ~ effect'[r] \/ status'[r] = 503
    BY <1>18, <2>2 DEF TypeOK, StoreFails, Reply
  <2>7. Told(r)'
    BY <2>3, <2>4, <2>5, ToldQuiet
  <2> QED
    BY <2>1, <2>7, ToldAlone
<1>19. ASSUME NEW r \in Requests, DropFails(r) PROVE \A q \in Requests : Told(q)'
  <2>1. Rest(r)
    BY <1>19 DEF TypeOK, DropFails, Goto, Reply, TakesEffect
  <2>2. pc[r] \notin {"done", "cut"} /\ audit[r] = <<>> /\ ~ effect[r]
    BY <1>19 DEF Told, DropFails
  <2>3. pc'[r] = "done" /\ status'[r] \in Errors
    BY <1>19 DEF TypeOK, Errors, DropFails, Goto, Reply
  <2>4. audit'[r] = <<>>
    BY <1>19, <2>2 DEF DropFails
  <2>5. ~ effect'[r] \/ status'[r] = 503
    BY <1>19, <2>2 DEF TypeOK, DropFails, Reply
  <2>7. Told(r)'
    BY <2>3, <2>4, <2>5, ToldQuiet
  <2> QED
    BY <2>1, <2>7, ToldAlone
<1>20. ASSUME NEW r \in Requests, ToolSucceeds(r) PROVE \A q \in Requests : Told(q)'
  <2>1. Rest(r)
    BY <1>20 DEF TypeOK, ToolSucceeds, Goto, Publish, Reply, TakesEffect, Unchanged
  <2>2. audit[r] = <<>> /\ Success(input'[r].route) = "TOOL_INVOKED"
    BY <1>20 DEF Told, Success, Unchanged, ToolSucceeds
  <2>3. pc'[r] = "done" /\ status'[r] \in {200, 201, 204} /\ effect'[r]
    BY <1>20 DEF TypeOK, TakesEffect, ToolSucceeds, Goto, Reply
  <2>4. audit'[r] = <<"TOOL_INVOKED">>
    BY <1>20, <2>2, PublishFirst DEF Kinds, ToolSucceeds
  <2>5. Told(r)'
    BY <2>2, <2>3, <2>4, ToldSuccess
  <2> QED
    BY <2>1, <2>5, ToldAlone
<1>21. ASSUME NEW r \in Requests, AgentAnswers(r) PROVE \A q \in Requests : Told(q)'
  <2>1. Rest(r)
    BY <1>21 DEF TypeOK, AgentAnswers, Goto, Publish, Reply, TakesEffect, Unchanged
  <2>2. audit[r] = <<>> /\ Success(input'[r].route) = "TASK_DELEGATED"
    BY <1>21 DEF Told, Success, Unchanged, AgentAnswers
  <2>3. pc'[r] = "done" /\ status'[r] \in {200, 201, 204} /\ effect'[r]
    BY <1>21 DEF TypeOK, TakesEffect, AgentAnswers, Goto, Reply
  <2>4. audit'[r] = <<"TASK_DELEGATED">>
    BY <1>21, <2>2, PublishFirst DEF Kinds, AgentAnswers
  <2>5. Told(r)'
    BY <2>2, <2>3, <2>4, ToldSuccess
  <2> QED
    BY <2>1, <2>5, ToldAlone
<1>22. ASSUME NEW r \in Requests, Drop(r) PROVE \A q \in Requests : Told(q)'
  <2>1. Rest(r)
    BY <1>22 DEF TypeOK, Drop, Goto, Publish, Reply, TakesEffect
  <2>2. audit[r] = <<>> /\ Success(input'[r].route) = "AGENT_DEREGISTERED"
    BY <1>22 DEF Told, Success, Drop
  <2>3. pc'[r] = "done" /\ status'[r] \in {200, 201, 204} /\ effect'[r]
    BY <1>22 DEF TypeOK, TakesEffect, Drop, Goto, Reply
  <2>4. audit'[r] = <<"AGENT_DEREGISTERED">>
    BY <1>22, <2>2, PublishFirst DEF Kinds, Drop
  <2>5. Told(r)'
    BY <2>2, <2>3, <2>4, ToldSuccess
  <2> QED
    BY <2>1, <2>5, ToldAlone
<1>23. ASSUME NEW r \in Requests, LibraryLoaded(r) PROVE \A q \in Requests : Told(q)'
  <2>1. Rest(r)
    BY <1>23 DEF TypeOK, LibraryLoaded, ErrorHandler, Goto, Publish, Reply
  <2>2. pc[r] = "import" /\ audit[r] = <<>> /\ ~ effect[r] /\ input[r].route = "register"
    BY <1>23 DEF Told, LibraryLoaded
  <2>3. ASSUME keyGood PROVE Told(r)'
    BY <1>23, <2>2, <2>3, ToldOnward DEF TypeOK, LibraryLoaded, Goto
  <2>4. ASSUME ~ keyGood PROVE Told(r)'
    <3>1. pc'[r] = "done" /\ status'[r] = 500 /\ ~ effect'[r]
      BY <1>23, <2>2, <2>4 DEF TypeOK, LibraryLoaded, ErrorHandler, Reply, Goto
    <3>2. audit'[r] = <<"TOOL_FAILED">>
      BY <1>23, <2>2, <2>4, PublishFirst DEF Kinds, LibraryLoaded, ErrorHandler
    <3> QED
      BY <3>1, <3>2, ToldFailure DEF Errors
  <2> QED
    BY <2>1, <2>3, <2>4, ToldAlone
<1>24. ASSUME NEW r \in Requests, Store(r) PROVE \A q \in Requests : Told(q)'
  <2>1. Rest(r)
    BY <1>24 DEF TypeOK, Store, ErrorHandler, Goto, Publish, Reply, TakesEffect
  <2>2. audit[r] = <<>> /\ Success(input'[r].route) = "AGENT_REGISTERED"
    BY <1>24 DEF Told, Success, Store
  <2>3. pc'[r] = "done" /\ effect'[r]
    BY <1>24 DEF TypeOK, Store, ErrorHandler, TakesEffect, Reply, Goto
  <2>4. ASSUME input[r].card = "toolless" PROVE Told(r)'
    <3>1. status'[r] = 500
      BY <1>24, <2>4 DEF TypeOK, Store, ErrorHandler, Reply
    <3>2. audit'[r] = <<"TOOL_FAILED">>
      BY <1>24, <2>2, <2>4, PublishFirst DEF Kinds, Store, ErrorHandler
    <3> QED
      BY <2>3, <3>1, <3>2, ToldFailure DEF Errors
  <2>5. ASSUME input[r].card # "toolless" PROVE Told(r)'
    <3>1. status'[r] = 201
      BY <1>24, <2>5 DEF TypeOK, Store, Reply
    <3>2. audit'[r] = <<"AGENT_REGISTERED">>
      BY <1>24, <2>2, <2>5, PublishFirst DEF Kinds, Store
    <3> QED
      BY <2>2, <2>3, <3>1, <3>2, ToldSuccess
  <2> QED
    BY <2>1, <2>4, <2>5, ToldAlone
<1>25. ASSUME NEW r \in Requests, Close(r) PROVE \A q \in Requests : Told(q)'
  <2>1. Rest(r)
    BY <1>25 DEF TypeOK, Close, Goto
  <2>2. Told(r)'
    BY <1>25 DEF Told, TypeOK, Close, Goto
  <2> QED
    BY <2>1, <2>2, ToldAlone
<1>26. ASSUME NEW r \in Requests, NEW route \in Routes, NEW token \in Tokens, NEW agent \in Agents,
           Receive(r, route, token, agent)
      PROVE  \A q \in Requests : Told(q)'
  <2>1. Rest(r)
    BY <1>26 DEF TypeOK, Receive, Reply, Goto
  <2>2. audit'[r] = <<>> /\ ~ effect'[r]
    BY <1>26 DEF Told, Receive
  <2>3. ASSUME token = "unreadable" PROVE Told(r)'
    <3>1. pc'[r] = "done" /\ status'[r] = 401
      BY <1>26, <2>3 DEF TypeOK, Receive, Reply, Goto
    <3> QED
      BY <2>2, <3>1, ToldQuiet DEF Errors
  <2>4. ASSUME token # "unreadable" PROVE Told(r)'
    BY <1>26, <2>4, ToldOnward DEF TypeOK, Receive, Goto
  <2> QED
    BY <2>1, <2>3, <2>4, ToldAlone
<1>27. ASSUME NEW r \in Requests, NEW body \in Bodies \cup {None}, NEW card \in Cards \cup {None},
           BodyRead(r, body, card)
      PROVE  \A q \in Requests : Told(q)'
  <2>1. Rest(r)
    BY <1>27 DEF TypeOK, BodyRead, ErrorHandler, Publish, Reply, Goto
  <2>2. audit[r] = <<>> /\ ~ effect[r] /\ ~ effect'[r]
    BY <1>27 DEF Told, BodyRead
  <2>3. ASSUME ~ CardPasses(r, input[r].route, body) PROVE Told(r)'
    <3>1. pc'[r] = "done" /\ status'[r] = 409
      BY <1>27, <2>3 DEF TypeOK, BodyRead, ErrorHandler, Reply, Goto
    <3>2. audit'[r] = <<"TOOL_FAILED">>
      BY <1>27, <2>2, <2>3, PublishFirst DEF Kinds, BodyRead, ErrorHandler
    <3> QED
      BY <2>2, <3>1, <3>2, ToldFailure DEF Errors
  <2>4. ASSUME CardPasses(r, input[r].route, body) /\ input[r].token = "none" PROVE Told(r)'
    <3>1. pc'[r] = "done" /\ status'[r] = 401 /\ audit'[r] = <<>>
      BY <1>27, <2>2, <2>4 DEF TypeOK, BodyRead, Reply, Goto
    <3> QED
      BY <2>2, <3>1, ToldQuiet DEF Errors
  <2>5. ASSUME CardPasses(r, input[r].route, body) /\ input[r].token # "none" PROVE Told(r)'
    BY <1>27, <2>5, ToldOnward DEF TypeOK, BodyRead, Goto
  <2> QED
    BY <2>1, <2>3, <2>4, <2>5, ToldAlone
<1>28. ASSUME NEW a \in Agents, Elsewhere(a) PROVE \A q \in Requests : Told(q)'
  BY <1>28 DEF Elsewhere, Told
<1>29. ASSUME NEW happened \in SUBSET Requests, Restart(happened) PROVE \A q \in Requests : Told(q)'
  <2> SUFFICES ASSUME NEW q \in Requests PROVE Told(q)'
    OBVIOUS
  <2>1. Told(q)
    OBVIOUS
  <2>2. audit'[q] = audit[q] /\ status'[q] = status[q]
    BY <1>29 DEF Restart
  <2>3. CASE pc[q] = "done"
    <3>1. pc'[q] = "done" /\ effect'[q] = effect[q] /\ input'[q] = input[q]
      BY <1>29, <2>3 DEF Restart, TypeOK, Outside
    <3> HIDE DEF Success
    <3> QED
      BY <2>1, <2>2, <2>3, <3>1 DEF Told
  <2>4. CASE pc[q] = "idle"
    <3>1. pc'[q] = "idle" /\ effect'[q] = effect[q]
      BY <1>29, <2>4 DEF Restart, TypeOK, Outside
    <3> QED
      BY <2>1, <2>2, <2>4, <3>1 DEF Told
  <2>5. CASE pc[q] \notin {"idle", "done"}
    <3>1. pc'[q] = "cut"
      BY <1>29, <2>5 DEF Restart
    <3> QED
      BY <2>1, <2>2, <2>5, <3>1 DEF Told
  <2> QED
    BY <2>3, <2>4, <2>5
<1>30. CASE UNCHANGED vars
  BY <1>30 DEF vars, Told
<1> QED
  BY <1>1, <1>2, <1>3, <1>4, <1>5, <1>6, <1>7, <1>8, <1>9, <1>10, <1>11, <1>12, <1>13, <1>14, <1>15, <1>16, <1>17, <1>18, <1>19, <1>20, <1>21, <1>22, <1>23, <1>24, <1>25, <1>26, <1>27, <1>28, <1>29, <1>30
  DEF Next, Arrive, Step, EndsWait

-----------------------------------------------------------------------------
THEOREM Invariant == Spec => []IInv
<1>1. IInv /\ [Next]_vars => IInv'
  BY TypedStep, FineStep DEF IInv
<1> QED
  BY <1>1, InitSound, PTL DEF Spec

\* Every request is somewhere on its way, with one of the gateway's replies.
THEOREM TypeCorrect == Spec => []TypeOK
<1>1. IInv => TypeOK
  BY DEF IInv
<1> QED
  BY <1>1, Invariant, PTL

\* Nothing runs, is sent or changes the registry for a request that was not
\* authorised, or whose envelope or card was rejected.
THEOREM AuthorizedAlways == Spec => []AuthorizedEffects
<1>1. IInv => AuthorizedEffects
  BY DEF IInv
<1> QED
  BY <1>1, Invariant, PTL

\* Only cards signed with the gateway's key are registered, and only a gateway
\* without a usable key calls such a card tampered with.
THEOREM CardVerdictsAlways == Spec => []CardVerdicts
<1>1. IInv => CardVerdicts
  BY DEF IInv
<1> QED
  BY <1>1, Invariant, PTL

LEMMA InitTold == Init => \A q \in Requests : Told(q)
BY DEF Init, Told

THEOREM ToldInvariant == Spec => [](\A q \in Requests : Told(q))
<1>1. TypeOK /\ (\A q \in Requests : Told(q)) /\ [Next]_vars => (\A q \in Requests : Told(q))'
  BY ToldStep
<1> QED
  BY <1>1, InitTold, TypeCorrect, PTL DEF Spec

\* The audit log and the reply tell the same story.
THEOREM OneVerdictAlways == Spec => []OneVerdict
<1>1. TypeOK /\ (\A q \in Requests : Told(q)) => OneVerdict
  <2> SUFFICES ASSUME TypeOK, NEW r \in Requests, Told(r), pc[r] = "done"
               PROVE  IF status[r] < 300
                      THEN effect[r] /\ audit[r] = <<Success(input[r].route)>>
                      ELSE audit[r] \in {<<>>, <<"TOOL_FAILED">>, <<"TASK_FAILED">>}
    BY DEF OneVerdict
  <2>1. status[r] \in Codes
    BY DEF TypeOK
  <2>2. status[r] < 300 \/ status[r] >= 300
    BY <2>1 DEF Codes
  <2> HIDE DEF Success
  <2> QED
    BY <2>2 DEF Told
<1> QED
  BY <1>1, TypeCorrect, ToldInvariant, PTL

\* What an answered request brought about is in the audit log, but for a registry
\* change whose answer Redis lost.
THEOREM EffectsRecordedAlways == Spec => []EffectsRecorded
<1>1. (\A q \in Requests : Told(q)) => EffectsRecorded
  BY DEF EffectsRecorded, Told
<1> QED
  BY <1>1, ToldInvariant, PTL

\* A request refused with 401 can be sent again.
THEOREM RefusalsRepeatableAlways == Spec => []RefusalsRepeatable
<1>1. (\A q \in Requests : Told(q)) => RefusalsRepeatable
  <2> SUFFICES ASSUME NEW r \in Requests, Told(r), status[r] = 401
               PROVE  ~ effect[r] /\ audit[r] = <<>>
    BY DEF RefusalsRepeatable
  <2>1. pc[r] = "done"
    BY DEF Told
  <2>2. 401 \in 300 .. 499
    OBVIOUS
  <2> QED
    BY <2>1, <2>2 DEF Told
<1> QED
  BY <1>1, ToldInvariant, PTL

-----------------------------------------------------------------------------
(* The gateway implements the port *)

Open == Places \ {"idle", "done", "cut"}

\* A step of request r, as the port sees it.
Moves(r) ==
  /\ pc[r] \in Open
  /\ pc'[r] \in Open \cup {"done"}
  /\ pc' = [pc EXCEPT ![r] = pc'[r]]
  /\ effect' = [effect EXCEPT ![r] = effect'[r]]
  /\ status' = [status EXCEPT ![r] = status'[r]]

LEMMA PhaseOf ==
  ASSUME NEW r \in Requests
  PROVE  /\ pc[r] = "idle" => Phase[r] = "idle"
         /\ pc[r] = "done" => Phase[r] = "answered"
         /\ pc[r] = "cut" => Phase[r] = "cut"
         /\ pc[r] \in Open => Phase[r] = "open"
BY DEF Phase, Open

\* Only the phase of r can change when only r moves.
LEMMA PhaseMoves ==
  ASSUME TypeOK, NEW r \in Requests, pc' = [pc EXCEPT ![r] = pc'[r]]
  PROVE  Phase' = [Phase EXCEPT ![r] = Phase'[r]]
<1>1. \A q \in Requests \ {r} : pc'[q] = pc[q]
  BY DEF TypeOK
<1>2. \A q \in Requests \ {r} : Phase'[q] = Phase[q]
  BY <1>1 DEF Phase
<1>3. /\ Phase = [q \in Requests |-> Phase[q]]
      /\ Phase' = [q \in Requests |-> Phase'[q]]
  BY DEF Phase
<1> QED
  BY <1>2, <1>3

\* What a move is to the port: nothing, or a truthful answer.
LEMMA MoveImplements ==
  ASSUME TypeOK, TypeOK', NEW r \in Requests, Told(r), Told(r)', Moves(r)
  PROVE  [Port!Next]_(Port!vars)
<1>1. Phase[r] = "open" /\ Phase' = [Phase EXCEPT ![r] = Phase'[r]]
  BY PhaseOf, PhaseMoves DEF Moves
<1>2. ASSUME pc'[r] \in Open PROVE UNCHANGED Port!vars
  <2>1. Phase'[r] = "open"
    BY <1>2 DEF Phase, Open
  <2>2. status'[r] = status[r] /\ ~ effect'[r] /\ ~ effect[r]
    BY <1>2 DEF Told, Moves, Open
  <2>3. effect'[r] = effect[r]
    BY <2>2 DEF TypeOK
  <2>4. Phase' = Phase
    BY <1>1, <2>1 DEF Phase
  <2> QED
    BY <2>2, <2>3, <2>4 DEF Moves, TypeOK, Port!vars
<1>3. ASSUME pc'[r] = "done" PROVE Port!Answer(r, Codes)
  <2>1. Phase' = [Phase EXCEPT ![r] = "answered"]
    BY <1>1, <1>3 DEF Phase
  <2>2. status'[r] \in Codes \ {0}
    <3>1. status'[r] \in Codes
      BY DEF TypeOK
    <3>2. status'[r] # 0
      BY <1>3 DEF Told
    <3> QED
      BY <3>1, <3>2
  <2>3. effect'[r] \in BOOLEAN
    BY DEF TypeOK
  <2>4. Port!Truthful(status'[r], effect'[r])
    BY <1>3 DEF Told, Port!Truthful
  <2> QED
    BY <1>1, <2>1, <2>2, <2>3, <2>4 DEF Moves, Port!Answer, Port!Replies
<1> QED
  BY <1>2, <1>3 DEF Moves, Port!Next

LEMMA StepMoves ==
  ASSUME TypeOK, NEW r \in Requests, Step(r) \/ EndsWait(r)
  PROVE  Moves(r)
<1>1. CASE BodyUnreadable(r)
  BY <1>1 DEF TypeOK, Moves, Open, Places, BodyUnreadable, ErrorHandler, Reply, Goto
<1>2. CASE TokenAccepted(r)
  BY <1>2 DEF TypeOK, Moves, Open, Places, TokenAccepted, Goto
<1>3. CASE TokenRefused(r)
  BY <1>3 DEF TypeOK, Moves, Open, Places, TokenRefused, Reply, Goto
<1>4. CASE TokenTooNarrow(r)
  BY <1>4 DEF TypeOK, Moves, Open, Places, TokenTooNarrow, Reply, Goto
<1>5. CASE EnvelopeRejected(r)
  BY <1>5 DEF TypeOK, Moves, Open, Places, EnvelopeRejected, Reply, Goto
<1>6. CASE StartTool(r)
  BY <1>6 DEF TypeOK, Moves, Open, Places, StartTool, Handles, Goto
<1>7. CASE StartDelegation(r)
  BY <1>7 DEF TypeOK, Moves, Open, Places, StartDelegation, Handles, Goto
<1>8. CASE AgentFound(r)
  BY <1>8 DEF TypeOK, Moves, Open, Places, AgentFound, Goto
<1>9. CASE AgentAbsent(r)
  BY <1>9 DEF TypeOK, Moves, Open, Places, AgentAbsent, Reply, Goto
<1>10. CASE ResolveFails(r)
  BY <1>10 DEF TypeOK, Moves, Open, Places, ResolveFails, Reply, Goto
<1>11. CASE AgentAnswers(r)
  BY <1>11 DEF TypeOK, Moves, Open, Places, AgentAnswers, TakesEffect, Reply, Goto
<1>12. CASE AgentFails(r)
  BY <1>12 DEF TypeOK, Moves, Open, Places, AgentFails, MayHaveEffect, TakesEffect, Reply, Goto
<1>13. CASE CardUnsigned(r)
  BY <1>13 DEF TypeOK, Moves, Open, Places, CardUnsigned, Handles, ErrorHandler, Reply, Goto
<1>14. CASE StartRegistration(r)
  BY <1>14 DEF TypeOK, Moves, Open, Places, StartRegistration, Handles, Goto
<1>15. CASE LibraryLoaded(r)
  BY <1>15 DEF TypeOK, Moves, Open, Places, LibraryLoaded, ErrorHandler, Reply, Goto
<1>16. CASE CardAccepted(r)
  BY <1>16 DEF TypeOK, Moves, Open, Places, CardAccepted, Goto
<1>17. CASE CardTampered(r)
  BY <1>17 DEF TypeOK, Moves, Open, Places, CardTampered, Reply, Goto
<1>18. CASE Store(r)
  BY <1>18 DEF TypeOK, Moves, Open, Places, Store, TakesEffect, ErrorHandler, Reply, Goto
<1>19. CASE StoreFails(r)
  BY <1>19 DEF TypeOK, Moves, Open, Places, StoreFails, TakesEffect, Reply, Goto
<1>20. CASE StartDeregistration(r)
  BY <1>20 DEF TypeOK, Moves, Open, Places, StartDeregistration, Handles, Goto
<1>21. CASE Drop(r)
  BY <1>21 DEF TypeOK, Moves, Open, Places, Drop, TakesEffect, Reply, Goto
<1>22. CASE DropFails(r)
  BY <1>22 DEF TypeOK, Moves, Open, Places, DropFails, TakesEffect, Reply, Goto
<1>23. CASE ToolSucceeds(r)
  BY <1>23 DEF TypeOK, Moves, Open, Places, ToolSucceeds, TakesEffect, Reply, Goto
<1>24. CASE ToolFails(r)
  BY <1>24 DEF TypeOK, Moves, Open, Places, ToolFails, MayHaveEffect, TakesEffect, Reply, Goto
<1>25. ASSUME NEW body \in Bodies \cup {None}, NEW card \in Cards \cup {None}, BodyRead(r, body, card)
      PROVE  Moves(r)
  BY <1>25 DEF TypeOK, Moves, Open, Places, BodyRead, ErrorHandler, Reply, Goto
<1> QED
  BY <1>1, <1>2, <1>3, <1>4, <1>5, <1>6, <1>7, <1>8, <1>9, <1>10, <1>11, <1>12, <1>13, <1>14, <1>15, <1>16, <1>17, <1>18, <1>19, <1>20, <1>21, <1>22, <1>23, <1>24, <1>25 DEF Step, EndsWait

LEMMA ReceiveImplements ==
  ASSUME TypeOK, NEW r \in Requests, Told(r), Arrive(r)
  PROVE  Port!Next
<1> PICK route \in Routes, token \in Tokens, agent \in Agents : Receive(r, route, token, agent)
  BY DEF Arrive
<1>1. Phase[r] = "idle" /\ effect' = effect
  BY PhaseOf DEF Receive
<1>2. pc' = [pc EXCEPT ![r] = pc'[r]]
  BY DEF Receive, Reply, Goto, TypeOK
<1>3. Phase' = [Phase EXCEPT ![r] = Phase'[r]]
  BY <1>2, PhaseMoves
<1>4. ASSUME token = "unreadable" PROVE Port!TurnDown(r)
  <2>1. pc'[r] = "done" /\ status' = [status EXCEPT ![r] = 401]
    BY <1>4 DEF Receive, Reply, Goto, TypeOK
  <2>2. Phase' = [Phase EXCEPT ![r] = "answered"]
    BY <1>3, <2>1 DEF Phase
  <2>3. effect' = [effect EXCEPT ![r] = FALSE]
    <3>1. ~ effect[r]
      BY DEF Told, Receive
    <3> QED
      BY <1>1, <3>1 DEF TypeOK
  <2>4. Port!Truthful(401, FALSE)
    BY DEF Port!Truthful
  <2>5. \E code \in {401} \ {0}, happened \in BOOLEAN :
          /\ Port!Truthful(code, happened)
          /\ status' = [status EXCEPT ![r] = code]
          /\ effect' = [effect EXCEPT ![r] = happened]
    <3>1. 401 \in {401} \ {0} /\ FALSE \in BOOLEAN
      OBVIOUS
    <3> QED
      BY <3>1, <2>1, <2>3, <2>4, Zenon
  <2> QED
    BY <1>1, <2>2, <2>5, Zenon DEF Port!TurnDown, Port!Replies
<1>5. ASSUME token # "unreadable" PROVE Port!Open(r)
  <2>1. pc'[r] = "parse" /\ status' = status
    BY <1>5 DEF Receive, Goto, TypeOK
  <2>2. Phase'[r] = "open"
    BY <2>1 DEF Phase
  <2> QED
    BY <1>1, <1>3, <2>1, <2>2 DEF Port!Open
<1> QED
  BY <1>4, <1>5 DEF Port!Next

LEMMA CloseImplements ==
  ASSUME TypeOK, NEW r \in Requests, Close(r)
  PROVE  Port!Next
<1>1. Phase[r] \in {"answered", "cut"}
  BY PhaseOf DEF Close
<1>2. pc'[r] = "idle" /\ pc' = [pc EXCEPT ![r] = pc'[r]]
  BY DEF Close, Goto, TypeOK
<1>3. Phase' = [Phase EXCEPT ![r] = Phase'[r]]
  BY <1>2, PhaseMoves
<1>4. Phase'[r] = "idle"
  BY <1>2 DEF Phase
<1>5. Port!Close(r)
  BY <1>1, <1>3, <1>4 DEF Close, Port!Close
<1> QED
  BY <1>5 DEF Port!Next

LEMMA RestartImplements ==
  ASSUME TypeOK, NEW happened \in SUBSET Requests, Restart(happened)
  PROVE  Port!Next
<1> DEFINE dropped == {r \in Requests : Phase[r] = "open"}
<1>1. \A r \in Requests : pc[r] \in Open <=> Phase[r] = "open"
  BY DEF Phase, Open, TypeOK
<1>2. happened \in SUBSET (dropped \cap dropped)
  BY <1>1 DEF Restart, Outside, Open, Places
<1>3. Phase' = [r \in Requests |-> IF r \in dropped THEN "cut" ELSE Phase[r]]
  <2>1. ASSUME NEW r \in Requests PROVE Phase'[r] = IF r \in dropped THEN "cut" ELSE Phase[r]
    BY <1>1 DEF Restart, Phase, Open, TypeOK
  <2>2. Phase' = [r \in Requests |-> Phase'[r]]
    BY DEF Phase
  <2> QED
    BY <2>1, <2>2
<1>4. effect' = [r \in Requests |-> effect[r] \/ r \in happened] /\ UNCHANGED status
  BY DEF Restart
<1>5. Port!Cut(dropped, dropped)
  BY <1>2, <1>3, <1>4 DEF Port!Cut
<1> QED
  BY <1>5 DEF Port!Next

\* The gateway keeps the promise that the SDKs build on, for any number of requests
\* and agents.
THEOREM GatewayImplementsPort == Spec => ImplementsPort
<1>1. Init => Port!Init
  BY DEF Init, Port!Init, Phase
<1>2. ASSUME TypeOK, TypeOK', \A q \in Requests : Told(q), (\A q \in Requests : Told(q))', [Next]_vars
      PROVE  [Port!Next]_(Port!vars)
  <2>1. ASSUME NEW r \in Requests, Step(r) \/ EndsWait(r) PROVE [Port!Next]_(Port!vars)
    BY <1>2, <2>1, StepMoves, MoveImplements
  <2>2. ASSUME NEW r \in Requests, Arrive(r) PROVE [Port!Next]_(Port!vars)
    BY <1>2, <2>2, ReceiveImplements
  <2>3. ASSUME NEW r \in Requests, Close(r) PROVE [Port!Next]_(Port!vars)
    BY <1>2, <2>3, CloseImplements
  <2>4. ASSUME NEW a \in Agents, Elsewhere(a) PROVE UNCHANGED Port!vars
    BY <2>4 DEF Elsewhere, Port!vars, Phase
  <2>5. ASSUME NEW happened \in SUBSET Requests, Restart(happened) PROVE Port!Next
    BY <1>2, <2>5, RestartImplements
  <2>6. CASE UNCHANGED vars
    BY <2>6 DEF vars, Port!vars, Phase
  <2> QED
    BY <1>2, <2>1, <2>2, <2>3, <2>4, <2>5, <2>6 DEF Next
<1> QED
  BY <1>1, <1>2, TypeCorrect, ToldInvariant, PTL DEF Spec, Port!Spec, ImplementsPort
=============================================================================
