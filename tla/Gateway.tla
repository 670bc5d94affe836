------------------------------ MODULE Gateway ------------------------------
(***************************************************************************)
(* One gateway process serving requests that overlap: Fastify's hooks (the *)
(* bearer token, the card check, the scope check), the handlers of         *)
(* /tools/invoke, /agents/delegate and the registry routes, their use      *)
(* cases, the lazily initialised card signer and the audit events.         *)
(* Requests interleave where the code awaits; the process may end and be    *)
(* started again in between.                                               *)
(*                                                                         *)
(* The sandbox, the agents and the registry answer or fail; SandboxPool,   *)
(* InMemoryRegistry and RedisRegistry model them.  Fastify and jose are    *)
(* external.                                                               *)
(***************************************************************************)
EXTENDS Integers, Sequences

CONSTANTS
  Requests,      \* requests that can be in flight at once
  Agents,        \* agent ids (card issuers)
  None           \* null, undefined: nothing there

ASSUME ConstantsAssumption == Agents # {} /\ None \notin {"genuine", "toolless", "forged"}

VARIABLES
  keyGood,       \* whether UAP_SIGNING_KEY_PATH held a usable key at start
  signer,        \* Ed25519SignerAdapter: "new", "ready", or "halfway": the
                 \* library is loaded but there is no public key
  registry,      \* agent -> the card registered, or None
  pc,            \* request -> where it is
  input,         \* request -> what the client sent
  claims,        \* request -> whether request.uapClaims is set
  effect,        \* request -> whether it ran a tool, reached an agent or
                 \* changed the registry
  audit,         \* request -> the kinds of the audit events published for it
  status         \* request -> the reply's status code, 0 before it

vars == <<keyGood, signer, registry, pc, input, claims, effect, audit, status>>

Routes == {"invoke", "delegate", "register", "deregister"}

\* No bearer token; one that does not decode or has expired; one that only
\* verification refuses; one without the scope of the route; one with it.
Tokens == {"none", "unreadable", "refused", "narrow", "good"}

\* An envelope that a schema rejects; one that is fine; one that is fine but
\* whose card_sig is not that of the caller's registered card.
Bodies == {"invalid", "good", "otherSig"}

\* Signed with the gateway's key; the same, but without a list of tools; not.
Cards == {"genuine", "toolless", "forged"}

Places == {"idle", "parse", "verify", "handle", "tool", "resolve", "agent",
           "import", "check", "store", "drop", "done", "cut"}

\* Where something outside the gateway is at work for a request.
Outside == {"tool", "agent", "store", "drop"}

Kinds == {"TOOL_INVOKED", "TOOL_FAILED", "TASK_DELEGATED", "TASK_FAILED",
          "AGENT_REGISTERED", "AGENT_DEREGISTERED"}

Codes == {0, 200, 201, 204, 400, 401, 403, 404, 409, 413, 415, 422, 500, 503}

Input == [route : Routes, token : Tokens, body : Bodies \cup {None},
          agent : Agents, card : Cards \cup {None}]

\* Every request is somewhere on its way, with one of the gateway's replies.
TypeOK ==
  /\ keyGood \in BOOLEAN
  /\ signer \in {"new", "ready", "halfway"}
  /\ registry \in [Agents -> Cards \cup {None}]
  /\ pc \in [Requests -> Places]
  /\ input \in [Requests -> Input]
  /\ claims \in [Requests -> BOOLEAN]
  /\ effect \in [Requests -> BOOLEAN]
  /\ audit \in [Requests -> Seq(Kinds)]
  /\ status \in [Requests -> Codes]

\* What is known of a request before its body is read, and after.
Headers(route, token, agent) ==
  [route |-> route, token |-> token, body |-> None, agent |-> agent, card |-> None]

WithBody(known, body, card) ==
  [route |-> known.route, token |-> known.token, body |-> body,
   agent |-> known.agent, card |-> card]

NoInput == Headers("invoke", "none", CHOOSE a \in Agents : TRUE)

Init ==
  /\ keyGood \in BOOLEAN
  /\ signer = "new"
  /\ registry = [a \in Agents |-> None]
  /\ pc = [r \in Requests |-> "idle"]
  /\ input = [r \in Requests |-> NoInput]
  /\ claims = [r \in Requests |-> FALSE]
  /\ effect = [r \in Requests |-> FALSE]
  /\ audit = [r \in Requests |-> <<>>]
  /\ status = [r \in Requests |-> 0]

-----------------------------------------------------------------------------
Goto(r, place) == pc' = [pc EXCEPT ![r] = place]

Reply(r, code) == Goto(r, "done") /\ status' = [status EXCEPT ![r] = code]

\* AuditEventBus.publish: both handlers take the event in the same turn.
Publish(r, kind) == audit' = [audit EXCEPT ![r] = Append(@, kind)]

TakesEffect(r) == effect' = [effect EXCEPT ![r] = TRUE]

\* A request that failed part-way has taken effect or not.
MayHaveEffect(r) == TakesEffect(r) \/ UNCHANGED effect

\* The handler of whatever a hook or a route lets through.
ErrorHandler(r, code) == Publish(r, "TOOL_FAILED") /\ Reply(r, code)

Unchanged == UNCHANGED <<keyGood, signer, registry, input, claims>>

-----------------------------------------------------------------------------
(* The hooks *)

\* Mutant: the reply of a turned-down token goes out with no status code.
ReceiveUnset(r, route, token, agent) ==
  /\ pc[r] = "idle"
  /\ input' = [input EXCEPT ![r] = Headers(route, token, agent)]
  /\ IF token = "unreadable" THEN Reply(r, None) ELSE Goto(r, "parse") /\ UNCHANGED status
  /\ UNCHANGED <<keyGood, signer, registry, claims, effect, audit>>

\* onRequest: a token that cannot be read or has expired is turned down here, no
\* token at all is left to the scope check.
Receive(r, route, token, agent) ==
  /\ pc[r] = "idle"
  /\ input' = [input EXCEPT ![r] = Headers(route, token, agent)]
  /\ IF token = "unreadable" THEN Reply(r, 401) ELSE Goto(r, "parse") /\ UNCHANGED status
  /\ UNCHANGED <<keyGood, signer, registry, claims, effect, audit>>

\* Fastify cannot parse the body, finds it too large, or of a type it does not know.
BodyUnreadable(r) ==
  /\ pc[r] = "parse"
  /\ \E code \in {400, 413, 415} : ErrorHandler(r, code)
  /\ Unchanged /\ UNCHANGED effect

\* What uap-card checks of a request with claims: the caller's card is
\* registered, verifies, has the envelope's signature and the token's scopes.
\* A request without claims, or whose envelope is invalid, passes.
CardPasses(r, route, body) ==
  ~ claims[r] \/ route = "register" \/ body # "otherSig"

\* preHandler: the hook of uap-card, then requireScope up to its await.
BodyRead(r, body, card) ==
  /\ pc[r] = "parse"
  /\ body = None <=> input[r].route = "deregister"
  /\ card # None <=> input[r].route = "register" /\ body # "invalid"
  /\ input' = [input EXCEPT ![r] = WithBody(input[r], body, card)]
  /\ IF ~ CardPasses(r, input[r].route, body)
     THEN ErrorHandler(r, 409)
     ELSE IF input[r].token = "none"
     THEN Reply(r, 401) /\ UNCHANGED audit
     ELSE Goto(r, "verify") /\ UNCHANGED <<status, audit>>
  /\ UNCHANGED <<keyGood, signer, registry, claims, effect>>

TokenAccepted(r) ==
  /\ pc[r] = "verify"
  /\ input[r].token = "good"
  /\ claims' = [claims EXCEPT ![r] = TRUE]
  /\ Goto(r, "handle")
  /\ UNCHANGED <<keyGood, signer, registry, input, effect, audit, status>>

\* Any token may be refused: it expired since, or Keycloak has not answered.
TokenRefused(r) ==
  /\ pc[r] = "verify"
  /\ Reply(r, 401)
  /\ Unchanged /\ UNCHANGED <<effect, audit>>

\* Mutant: requireScope sends its 403 but lets the request through.
TokenTooNarrowSent(r) ==
  /\ pc[r] = "verify"
  /\ input[r].token = "narrow"
  /\ Goto(r, "handle")
  /\ Unchanged /\ UNCHANGED <<effect, audit, status>>

TokenTooNarrow(r) ==
  /\ pc[r] = "verify"
  /\ input[r].token = "narrow"
  /\ Reply(r, 403)
  /\ Unchanged /\ UNCHANGED <<effect, audit>>

\* validateEnvelope, or the schema that the envelope names, finds a fault, or
\* there is no tool id.
EnvelopeRejected(r) ==
  /\ pc[r] = "handle"
  /\ input[r].body = "invalid"
  /\ \E code \in {400, 422} : Reply(r, code)
  /\ Unchanged /\ UNCHANGED <<effect, audit>>

Handles(r, route) == pc[r] = "handle" /\ input[r].route = route /\ input[r].body # "invalid"

-----------------------------------------------------------------------------
(* /tools/invoke *)

StartTool(r) ==
  /\ Handles(r, "invoke")
  /\ Goto(r, "tool")
  /\ Unchanged /\ UNCHANGED <<effect, audit, status>>

\* Mutant: a finally block publishes TOOL_FAILED as well.
ToolSucceedsFinally(r) ==
  /\ pc[r] = "tool"
  /\ TakesEffect(r)
  /\ audit' = [audit EXCEPT ![r] = @ \o <<"TOOL_INVOKED", "TOOL_FAILED">>]
  /\ Reply(r, 200)
  /\ Unchanged

ToolSucceeds(r) ==
  /\ pc[r] = "tool"
  /\ TakesEffect(r)
  /\ Publish(r, "TOOL_INVOKED")
  /\ Reply(r, 200)
  /\ Unchanged

\* Mutant: a tool that ends with an error is reported as the caller's error.
ToolFailsBlaming(r) ==
  /\ pc[r] = "tool"
  /\ Publish(r, "TOOL_FAILED")
  /\ Reply(r, 422)
  /\ MayHaveEffect(r)
  /\ Unchanged

\* The tool id is rejected, the tool fails, or its output is lost.
ToolFails(r) ==
  /\ pc[r] = "tool"
  /\ Publish(r, "TOOL_FAILED")
  /\ \/ Reply(r, 422) /\ UNCHANGED effect
     \/ Reply(r, 500) /\ MayHaveEffect(r)
  /\ Unchanged

-----------------------------------------------------------------------------
(* /agents/delegate *)

StartDelegation(r) ==
  /\ Handles(r, "delegate")
  /\ Goto(r, "resolve")
  /\ Unchanged /\ UNCHANGED <<effect, audit, status>>

AgentFound(r) ==
  /\ pc[r] = "resolve"
  /\ registry[input[r].agent] # None
  /\ Goto(r, "agent")
  /\ Unchanged /\ UNCHANGED <<effect, audit, status>>

AgentAbsent(r) ==
  /\ pc[r] = "resolve"
  /\ registry[input[r].agent] = None
  /\ Publish(r, "TASK_FAILED")
  /\ Reply(r, 404)
  /\ Unchanged /\ UNCHANGED effect

ResolveFails(r) ==
  /\ pc[r] = "resolve"
  /\ Publish(r, "TASK_FAILED")
  /\ Reply(r, 503)
  /\ Unchanged /\ UNCHANGED effect

AgentAnswers(r) ==
  /\ pc[r] = "agent"
  /\ TakesEffect(r)
  /\ Publish(r, "TASK_DELEGATED")
  /\ Reply(r, 200)
  /\ Unchanged

\* Mutant: the agent's status code is the reply's.
AgentFailsThrough(r) ==
  /\ pc[r] = "agent"
  /\ MayHaveEffect(r)
  /\ Publish(r, "TASK_FAILED")
  /\ \E code \in {401, 500} : Reply(r, code)
  /\ Unchanged

\* The agent answers with an error (401 included), with something that is not
\* JSON, or not within 30 seconds; or it cannot be reached.
AgentFails(r) ==
  /\ pc[r] = "agent"
  /\ MayHaveEffect(r)
  /\ Publish(r, "TASK_FAILED")
  /\ Reply(r, 500)
  /\ Unchanged

-----------------------------------------------------------------------------
(* /agents/registry *)

\* signer.verify: a card whose signature has not even the right form is turned
\* down at once; reading it throws when there is no card, or it is no string.
CardUnsigned(r) ==
  /\ Handles(r, "register")
  /\ input[r].card = "forged"
  /\ \/ Reply(r, 409) /\ UNCHANGED audit
     \/ ErrorHandler(r, 500)
  /\ Unchanged /\ UNCHANGED effect

\* Mutant: a request that finds the library being loaded does not wait for it.
StartRegistrationEarly(r) ==
  /\ Handles(r, "register")
  /\ Goto(r, IF signer = "new" /\ \A q \in Requests : pc[q] # "import" THEN "import" ELSE "check")
  /\ Unchanged /\ UNCHANGED <<effect, audit, status>>

\* signer.verify then: the first requests load the library, all that find it missing.
StartRegistration(r) ==
  /\ Handles(r, "register")
  /\ Goto(r, IF signer = "new" THEN "import" ELSE "check")
  /\ Unchanged /\ UNCHANGED <<effect, audit, status>>

\* Mutant: a load that fails leaves those who wait for it waiting.
LibraryLoadedSilently(r) ==
  /\ pc[r] = "import"
  /\ keyGood
  /\ signer' = "ready"
  /\ Goto(r, "check")
  /\ UNCHANGED <<keyGood, registry, input, claims, effect, audit, status>>

\* The library is remembered before the public key is derived, which throws
\* when the key is no good.
LibraryLoaded(r) ==
  /\ pc[r] = "import"
  /\ IF keyGood
     THEN signer' = "ready" /\ Goto(r, "check") /\ UNCHANGED <<audit, status>>
     ELSE signer' = "halfway" /\ ErrorHandler(r, 500)
  /\ UNCHANGED <<keyGood, registry, input, claims, effect>>

\* verify() returns false for a bad signature and whenever the library throws.
Verifies(r) == signer = "ready" /\ input[r].card # "forged"

CardAccepted(r) ==
  /\ pc[r] = "check"
  /\ Verifies(r)
  /\ Goto(r, "store")
  /\ Unchanged /\ UNCHANGED <<effect, audit, status>>

CardTampered(r) ==
  /\ pc[r] = "check"
  /\ ~ Verifies(r)
  /\ Reply(r, 409)
  /\ Unchanged /\ UNCHANGED <<effect, audit>>

PutCard(r) == registry' = [registry EXCEPT ![input[r].agent] = input[r].card]

\* Mutant: a failure to make the event is swallowed.
StoreSwallowing(r) ==
  /\ pc[r] = "store"
  /\ PutCard(r)
  /\ TakesEffect(r)
  /\ IF input[r].card = "toolless"
     THEN Reply(r, 500) /\ UNCHANGED audit
     ELSE Publish(r, "AGENT_REGISTERED") /\ Reply(r, 201)
  /\ UNCHANGED <<keyGood, signer, input, claims>>

\* The agent is registered before the event, which lists the card's tools, is made.
Store(r) ==
  /\ pc[r] = "store"
  /\ PutCard(r)
  /\ TakesEffect(r)
  /\ IF input[r].card = "toolless"
     THEN ErrorHandler(r, 500)
     ELSE Publish(r, "AGENT_REGISTERED") /\ Reply(r, 201)
  /\ UNCHANGED <<keyGood, signer, input, claims>>

\* The card has expired; or Redis fails, or its answer is lost.
StoreFails(r) ==
  /\ pc[r] = "store"
  /\ \/ Reply(r, 422) /\ UNCHANGED <<registry, effect>>
     \/ Reply(r, 503) /\ UNCHANGED <<registry, effect>>
     \/ Reply(r, 503) /\ PutCard(r) /\ TakesEffect(r)
  /\ UNCHANGED <<keyGood, signer, input, claims, audit>>

StartDeregistration(r) ==
  /\ Handles(r, "deregister")
  /\ Goto(r, "drop")
  /\ Unchanged /\ UNCHANGED <<effect, audit, status>>

RemoveCard(r) == registry' = [registry EXCEPT ![input[r].agent] = None]

Drop(r) ==
  /\ pc[r] = "drop"
  /\ RemoveCard(r)
  /\ TakesEffect(r)
  /\ Publish(r, "AGENT_DEREGISTERED")
  /\ Reply(r, 204)
  /\ UNCHANGED <<keyGood, signer, input, claims>>

DropFails(r) ==
  /\ pc[r] = "drop"
  /\ Reply(r, 503)
  /\ \/ UNCHANGED <<registry, effect>>
     \/ RemoveCard(r) /\ TakesEffect(r)
  /\ UNCHANGED <<keyGood, signer, input, claims, audit>>

-----------------------------------------------------------------------------
\* The connection is closed; another request can come in its place.
Close(r) ==
  /\ pc[r] \in {"done", "cut"}
  /\ Goto(r, "idle")
  /\ input' = [input EXCEPT ![r] = NoInput]
  /\ claims' = [claims EXCEPT ![r] = FALSE]
  /\ effect' = [effect EXCEPT ![r] = FALSE]
  /\ audit' = [audit EXCEPT ![r] = <<>>]
  /\ status' = [status EXCEPT ![r] = 0]
  /\ UNCHANGED <<keyGood, signer, registry>>

\* In Redis, an entry expires, or other gateways register and deregister the agent;
\* they verify cards with the same key.
Elsewhere(a) ==
  /\ \E card \in IF keyGood THEN {"genuine", None} ELSE {None} :
       registry' = [registry EXCEPT ![a] = card]
  /\ UNCHANGED <<keyGood, signer, pc, input, claims, effect, audit, status>>

\* Entries of agent a that may be in Redis once the requests of `happened` are through.
Possible(a, happened) ==
  {registry[a]}
  \cup {input[r].card : r \in {q \in happened : pc[q] = "store" /\ input[q].agent = a}}
  \cup (IF \E r \in happened : pc[r] = "drop" /\ input[r].agent = a THEN {None} ELSE {})

\* The process ends (an unhandled rejection, for one) and another is started: open
\* requests are cut off and forgotten, but for those of `happened`, of which what
\* they had begun is done or goes on.  The signer starts afresh.  If Redis answers
\* in time the registry is what Redis holds, else it is empty, in memory.
Restart(happened) ==
  LET forgotten == {r \in Requests : pc[r] \notin {"idle", "done", "cut"}} \ happened IN
  /\ \A r \in happened : pc[r] \in Outside
  /\ pc' = [r \in Requests |-> IF pc[r] \in {"idle", "done"} THEN pc[r] ELSE "cut"]
  /\ input' = [r \in Requests |-> IF r \in forgotten THEN NoInput ELSE input[r]]
  /\ claims' = [r \in Requests |-> claims[r] /\ r \notin forgotten]
  /\ effect' = [r \in Requests |-> effect[r] \/ r \in happened]
  /\ signer' = "new"
  /\ \/ registry' = [a \in Agents |-> None]
     \/ registry' \in {f \in [Agents -> Cards \cup {None}] : \A a \in Agents : f[a] \in Possible(a, happened)}
  /\ UNCHANGED <<keyGood, audit, status>>

Arrive(r) ==
  \E route \in Routes, token \in Tokens, agent \in Agents : Receive(r, route, token, agent)

\* Where the code sets no limit to the time that a request waits: for the rest of its
\* body, for a tool, for Redis.
Unlimited == {"parse", "tool", "resolve", "store", "drop"}

\* What ends such a wait, if something does.
EndsWait(r) ==
  \/ BodyUnreadable(r)
  \/ \E body \in Bodies \cup {None}, card \in Cards \cup {None} : BodyRead(r, body, card)
  \/ ToolSucceeds(r) \/ ToolFails(r)
  \/ AgentFound(r) \/ AgentAbsent(r) \/ ResolveFails(r)
  \/ Store(r) \/ StoreFails(r) \/ Drop(r) \/ DropFails(r)

\* The other steps of a request.
Step(r) ==
  \/ TokenAccepted(r) \/ TokenRefused(r) \/ TokenTooNarrow(r) \/ EnvelopeRejected(r)
  \/ StartTool(r)
  \/ StartDelegation(r) \/ AgentAnswers(r) \/ AgentFails(r)
  \/ CardUnsigned(r) \/ StartRegistration(r) \/ LibraryLoaded(r) \/ CardAccepted(r) \/ CardTampered(r)
  \/ StartDeregistration(r)

Next ==
  \/ \E r \in Requests : Arrive(r) \/ Step(r) \/ EndsWait(r) \/ Close(r)
  \/ \E a \in Agents : Elsewhere(a)
  \/ \E happened \in SUBSET Requests : Restart(happened)

Spec == Init /\ [][Next]_vars

\* Keycloak is given 5 seconds and an agent 30, the library comes from the disk, and
\* the event loop runs what is ready.  Nothing is assumed of the unlimited waits: a
\* client may never send the body it announced, a tool may run for ever, and a Redis
\* that stays connected may never answer, for its client has no commandTimeout.
FairSpec == Spec /\ \A r \in Requests : WF_vars(Step(r))

-----------------------------------------------------------------------------
(* Properties *)

Success(route) ==
  CASE route = "invoke" -> "TOOL_INVOKED"
    [] route = "delegate" -> "TASK_DELEGATED"
    [] route = "register" -> "AGENT_REGISTERED"
    [] route = "deregister" -> "AGENT_DEREGISTERED"

\* The audit log and the reply tell the same story: a request that is answered
\* with success did what it asked for and left one event that says so, a request
\* that is answered with an error left at most one event, of a failure.
OneVerdict ==
  \A r \in Requests : pc[r] = "done" =>
    IF status[r] < 300
    THEN effect[r] /\ audit[r] = <<Success(input[r].route)>>
    ELSE audit[r] \in {<<>>, <<"TOOL_FAILED">>, <<"TASK_FAILED">>}

\* Whatever a request brought about left an event, although an agent may be
\* registered for a card whose event cannot be made; of the requests that are
\* answered, only a registry change whose answer Redis lost goes unrecorded.
EffectsRecorded ==
  \A r \in Requests : pc[r] = "done" /\ effect[r] /\ audit[r] = <<>> => status[r] = 503

\* Nothing runs, is sent or changes the registry for a request whose token was
\* not verified to have the scope of its route, or whose envelope or card was
\* rejected, however its steps and those of the others fall.
AuthorizedEffects ==
  \A r \in Requests : effect[r] =>
    claims[r] /\ input[r].token = "good" /\ input[r].body # "invalid" /\ input[r].card # "forged"

\* A request answered with 401 brought about nothing and recorded nothing: the
\* SDKs send such a request again with another token.
RefusalsRepeatable ==
  \A r \in Requests : status[r] = 401 => ~ effect[r] /\ audit[r] = <<>>

\* The signer is initialised by requests that overlap, and may stop half-way:
\* what it is asked meanwhile, it answers right.  Only cards signed with the
\* gateway's key are registered, and such a card is called tampered with only by
\* a gateway that has no usable key.
CardVerdicts ==
  /\ \A a \in Agents : registry[a] # None => keyGood /\ registry[a] # "forged"
  /\ \A r \in Requests :
       status[r] = 409 /\ input[r].card \in {"genuine", "toolless"} => ~ keyGood

\* Whatever the others do, a request is answered or cut off, unless it waits for ever
\* for something to which the code sets no time limit.
Answered ==
  \A r \in Requests : pc[r] # "idle" ~> (pc[r] \in {"done", "cut"} \/ [](pc[r] \in Unlimited))

\* How far a request has come, as its client sees it.
Phase ==
  [r \in Requests |-> CASE pc[r] = "idle" -> "idle"
                        [] pc[r] = "done" -> "answered"
                        [] pc[r] = "cut" -> "cut"
                        [] OTHER -> "open"]

Port == INSTANCE GatewayPort WITH phase <- Phase

\* The gateway, its hooks, handlers and error paths taken together, keeps the
\* promise that the SDKs build on: one reply, whose code tells whether the request
\* took effect, and nothing brought about before or after it.
ImplementsPort == Port!Spec

\* docs/README.md, "The gateway verifies both before the request reaches any
\* application code": a tool is run and a task delegated only under an envelope
\* that refers to the caller's registered card.  Not so: uap-card's hook comes
\* before the one that sets the claims it wants.
CardChecked ==
  \A r \in Requests : effect[r] => input[r].body # "otherSig"
=============================================================================
