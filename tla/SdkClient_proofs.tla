-------------------------- MODULE SdkClient_proofs --------------------------
(***************************************************************************)
(* What SdkClient promises, for any number of calls, any timeouts and any  *)
(* lifetimes of tokens that ConstantsAssumption admits.                    *)
(***************************************************************************)
EXTENDS SdkClient, TLAPS

-----------------------------------------------------------------------------
(* The invariant *)

\* What is known of request r at the gateway.
Told(r) ==
  /\ phase[r] \in {"idle", "open"} => ~ effect[r]
  /\ phase[r] # "answered" => status[r] = 0
  /\ phase[r] = "answered" => status[r] # 0
  /\ phase[r] = "answered" /\ status[r] < 300 => effect[r]
  /\ phase[r] = "answered" /\ status[r] \in 300 .. 499 => ~ effect[r]

\* The second request follows a refusal of the first.
Sequence(c) ==
  /\ attempt[c] = 1 => carried[<<c, 2>>] = None /\ phase[<<c, 2>>] = "idle"
  /\ attempt[c] = 2 =>
       carried[<<c, 1>>] # None /\ phase[<<c, 1>>] = "answered" /\ status[<<c, 1>>] = 401
  /\ pc[c] = "idle" => attempt[c] = 1
  /\ pc[c] \in {"idle", "fetch", "issued"} =>
       carried[Current(c)] = None /\ phase[Current(c)] = "idle"
  /\ pc[c] = "sent" => carried[Current(c)] # None

\* How a call may have ended.
Reported(c) ==
  /\ result[c] # "none" => pc[c] = "ended"
  /\ result[c] = "noToken" => carried[Current(c)] = None /\ phase[Current(c)] = "idle"
  /\ result[c] = "data" => phase[Current(c)] = "answered" /\ status[Current(c)] < 300
  /\ result[c] = "error" => phase[Current(c)] = "answered"

\* The tokens of call c: where they come from, and that they outlive the wait.
Tokened(c) ==
  /\ carried[<<c, 1>>] # None => carried[<<c, 1>>].serial <= issued
  /\ carried[<<c, 2>>] # None =>
       carried[<<c, 2>>].serial > carried[<<c, 1>>].serial /\ carried[<<c, 2>>].scope = scope[c]
  /\ pc[c] \in {"fetch", "issued"} => since[c] <= now /\ now <= since[c] + TokenTimeout
  /\ pc[c] = "issued" =>
       /\ token[c] # None
       /\ token[c].serial <= issued
       /\ token[c].scope = scope[c]
       /\ attempt[c] = 2 => token[c].serial > carried[<<c, 1>>].serial
       /\ token[c].expires > since[c] + TokenTimeout + RequestTimeout
  /\ pc[c] = "sent" =>
       /\ since[c] <= now /\ now <= since[c] + RequestTimeout
       /\ carried[Current(c)].expires > since[c] + RequestTimeout

\* The expiry is that of the cached token, or lets nobody use it.
Cached == cachedToken # None => cachedToken.serial <= issued /\ expiry \in {cachedToken.expires, 0}

Good(c) == Sequence(c) /\ Reported(c) /\ Tokened(c)

IInv ==
  /\ TypeOK /\ Cached
  /\ \A c \in Calls : Good(c)
  /\ \A r \in Requests : Told(r)

-----------------------------------------------------------------------------
(* Types *)

LEMMA InitTyped == Init => TypeOK
BY ConstantsAssumption DEF Init, TypeOK, Places, Results, Codes, Tokens, Gateway!Init

LEMMA TypedStep ==
  ASSUME IInv, [Next]_vars
  PROVE  TypeOK'
<1> TypeOK
  BY DEF IInv
<1> USE DEF TypeOK, Places, Results, provider, call, gateway, Environment
<1>1. ASSUME NEW c \in Calls, Start(c) PROVE TypeOK'
  BY <1>1 DEF Start, Send, Wait, Current, Requests
<1>2. ASSUME NEW c \in Calls, IssueToken(c) PROVE TypeOK'
  <2>1. PICK life \in Lifetimes :
          token' = [token EXCEPT ![c] = [serial |-> issued + 1, scope |-> scope[c], expires |-> now + life]]
    BY <1>2 DEF IssueToken
  <2>2. [serial |-> issued + 1, scope |-> scope[c], expires |-> now + life] \in Tokens
    BY ConstantsAssumption DEF Tokens
  <2> QED
    BY <1>2, <2>1, <2>2 DEF IssueToken
<1>3. ASSUME NEW c \in Calls, KeycloakRefuses(c) PROVE TypeOK'
  <2>1. UNCHANGED <<now, issued, scope, attempt, carried, phase, effect, status>>
    BY <1>3 DEF KeycloakRefuses
  <2>2. ASSUME End(c, "noToken"), UNCHANGED <<cachedToken, expiry>> PROVE TypeOK'
    BY <2>1, <2>2, ConstantsAssumption DEF End
  <2>3. ASSUME ClearCache, retrying' = [retrying EXCEPT ![c] = TRUE], Wait(c, "fetch"),
               UNCHANGED <<token, result>>
        PROVE  TypeOK'
    BY <2>1, <2>3 DEF ClearCache, Wait
  <2> QED
    BY <1>3, <2>2, <2>3 DEF KeycloakRefuses
<1>4. ASSUME NEW c \in Calls, KeycloakFails(c) PROVE TypeOK'
  BY <1>4, ConstantsAssumption DEF KeycloakFails, End
<1>5. ASSUME NEW c \in Calls, TokenArrives(c) PROVE TypeOK'
  <2>1. token[c] \in Tokens /\ token[c].expires \in Nat
    BY <1>5 DEF TokenArrives, IInv, Good, Tokened, Tokens
  <2> QED
    BY <1>5, <2>1 DEF TokenArrives, Send, Wait, Current, Requests
<1>6. ASSUME NEW c \in Calls, TokenTimesOut(c) PROVE TypeOK'
  BY <1>6, ConstantsAssumption DEF TokenTimesOut, End
<1>7. ASSUME NEW c \in Calls, Retry(c) PROVE TypeOK'
  BY <1>7 DEF Retry, ClearCache, Wait
<1>8. ASSUME NEW c \in Calls, ReadReply(c) PROVE TypeOK'
  <2>1. ASSUME NEW how \in {"data", "error"}, End(c, how),
               UNCHANGED <<cachedToken, expiry, scope, attempt, carried, Environment>>
        PROVE  TypeOK'
    BY <2>1, ConstantsAssumption DEF End, Environment, gateway
  <2> QED
    BY <1>8, <2>1 DEF ReadReply
<1>9. ASSUME NEW c \in Calls, ReplyLost(c) PROVE TypeOK'
  BY <1>9, ConstantsAssumption DEF ReplyLost, End
<1>10. ASSUME NEW c \in Calls, RequestTimesOut(c) PROVE TypeOK'
  BY <1>10, ConstantsAssumption DEF RequestTimesOut, End
<1>11. ASSUME NEW r \in Requests, Arrives(r) PROVE TypeOK'
  BY <1>11 DEF Arrives, AtGateway, Codes, Gateway!TurnDown, Gateway!Open, Gateway!Replies
<1>12. ASSUME NEW r \in Requests, Answers(r) PROVE TypeOK'
  BY <1>12 DEF Answers, AtGateway, Codes, Gateway!Answer, Gateway!Replies
<1>13. CASE GatewayRestarts
  BY <1>13 DEF GatewayRestarts, AtGateway, Gateway!Cut
<1>14. CASE Tick
  BY <1>14, ConstantsAssumption DEF Tick
<1>15. CASE UNCHANGED vars
  BY <1>15 DEF vars
<1> QED
  BY <1>1, <1>2, <1>3, <1>4, <1>5, <1>6, <1>7, <1>8, <1>9, <1>10, <1>11, <1>12, <1>13, <1>14, <1>15 DEF Next

-----------------------------------------------------------------------------
(* The gateway's side *)

\* A step of the client leaves what the gateway told.
LEMMA ToldStep ==
  ASSUME IInv, [Next]_vars
  PROVE  \A r \in Requests : Told(r)'
<1> TypeOK /\ \A r \in Requests : Told(r)
  BY DEF IInv
<1> USE DEF gateway, Environment
<1>1. ASSUME NEW r \in Requests, Arrives(r) PROVE \A q \in Requests : Told(q)'
  <2>1. CASE Gateway!TurnDown(r)
    BY <2>1 DEF Told, TypeOK, Gateway!TurnDown, Gateway!Replies, Gateway!Truthful
  <2>2. CASE Gateway!Open(r)
    BY <2>2 DEF Told, TypeOK, Gateway!Open
  <2> QED
    BY <1>1, <2>1, <2>2 DEF Arrives
<1>2. ASSUME NEW r \in Requests, Answers(r) PROVE \A q \in Requests : Told(q)'
  BY <1>2 DEF Told, TypeOK, Answers, Gateway!Answer, Gateway!Replies, Gateway!Truthful
<1>3. CASE GatewayRestarts
  BY <1>3 DEF Told, TypeOK, GatewayRestarts, Gateway!Cut
<1>4. CASE UNCHANGED gateway
  BY <1>4 DEF Told
<1>5. ASSUME NEW c \in Calls,
             Start(c) \/ IssueToken(c) \/ KeycloakRefuses(c) \/ KeycloakFails(c)
             \/ TokenArrives(c) \/ TokenTimesOut(c)
             \/ Retry(c) \/ ReadReply(c) \/ ReplyLost(c) \/ RequestTimesOut(c)
      PROVE  UNCHANGED gateway
  BY <1>5 DEF Start, IssueToken, KeycloakRefuses, KeycloakFails, TokenArrives, TokenTimesOut, Retry,
     ReadReply, ReplyLost, RequestTimesOut
<1> QED
  BY <1>1, <1>2, <1>3, <1>4, <1>5 DEF Next, Tick, vars

-----------------------------------------------------------------------------
(* The client's side *)

LEMMA CachedStep ==
  ASSUME IInv, [Next]_vars
  PROVE  Cached'
<1> TypeOK /\ Cached
  BY DEF IInv
<1> USE DEF provider, Environment
<1>1. ASSUME NEW c \in Calls, TokenArrives(c) PROVE Cached'
  BY <1>1 DEF TokenArrives, Cached, IInv, Good, Tokened
<1>2. ASSUME NEW c \in Calls, IssueToken(c) PROVE Cached'
  BY <1>2 DEF IssueToken, Cached, TypeOK, Tokens
<1>3. ASSUME NEW c \in Calls, Retry(c) \/ KeycloakRefuses(c) PROVE Cached'
  BY <1>3 DEF Retry, KeycloakRefuses, ClearCache, Cached
<1>4. CASE UNCHANGED <<cachedToken, expiry, issued>>
  BY <1>4 DEF Cached
<1> QED
  BY <1>1, <1>2, <1>3, <1>4
  DEF Next, vars, Start, KeycloakFails, TokenTimesOut, ReadReply, ReplyLost, RequestTimesOut,
      Arrives, Answers, GatewayRestarts, AtGateway, Tick

\* A step of call c leaves the others good.
Apart(c) ==
  /\ now' = now /\ issued' >= issued /\ UNCHANGED <<scope, gateway>>
  /\ \A d \in Calls \ {c} :
       /\ pc'[d] = pc[d] /\ attempt'[d] = attempt[d] /\ token'[d] = token[d]
       /\ since'[d] = since[d] /\ result'[d] = result[d]
       /\ carried'[<<d, 1>>] = carried[<<d, 1>>] /\ carried'[<<d, 2>>] = carried[<<d, 2>>]

LEMMA GoodApart ==
  ASSUME IInv, TypeOK', NEW c \in Calls, Apart(c), Good(c)'
  PROVE  \A d \in Calls : Good(d)'
<1> SUFFICES ASSUME NEW d \in Calls, d # c PROVE Good(d)'
  OBVIOUS
<1> TypeOK /\ Good(d)
  BY DEF IInv
<1>0. attempt[d] \in {1, 2} /\ attempt'[d] = attempt[d]
  BY DEF TypeOK, Apart
<1>1. Sequence(d)'
  BY <1>0 DEF Good, Sequence, Current, Apart, gateway
<1>2. Reported(d)'
  <2>1. Current(d)' = Current(d) /\ carried'[Current(d)] = carried[Current(d)]
    BY <1>0 DEF Current, Apart
  <2> QED
    BY <2>1 DEF Good, Reported, Apart, gateway
<1>3. Tokened(d)'
  <2>1. issued \in Nat /\ issued' \in Nat /\ issued' >= issued
    BY DEF TypeOK, Apart
  <2>2. /\ carried[<<d, 1>>] # None => carried[<<d, 1>>].serial \in Nat
        /\ token[d] # None => token[d].serial \in Nat
    BY DEF TypeOK, Tokens, Requests
  <2> QED
    BY <1>0, <2>1, <2>2 DEF Good, Tokened, Current, Apart
<1> QED
  BY <1>1, <1>2, <1>3 DEF Good

LEMMA GoodEnd ==
  ASSUME IInv, NEW c \in Calls, NEW how \in {"broken", "timeout", "noToken", "data", "error"},
         pc[c] \in {"fetch", "issued", "sent"}, End(c, how),
         UNCHANGED <<now, issued, scope, attempt, carried, gateway>>,
         how = "noToken" => pc[c] # "sent",
         how = "data" => phase[Current(c)] = "answered" /\ status[Current(c)] < 300,
         how = "error" => phase[Current(c)] = "answered"
  PROVE  Apart(c) /\ Good(c)'
<1> TypeOK /\ Good(c)
  BY DEF IInv
<1>1. Apart(c)
  BY DEF Apart, End, TypeOK
<1>2. pc'[c] = "ended" /\ result'[c] = how
  BY DEF End, TypeOK
<1>3. Sequence(c)'
  BY <1>2 DEF Good, Sequence, gateway
<1>4. Reported(c)'
  BY <1>2 DEF Good, Reported, Sequence, Current, gateway
<1>5. Tokened(c)'
  BY <1>2 DEF Good, Tokened
<1> QED
  BY <1>1, <1>3, <1>4, <1>5 DEF Good

\* A call sends its request with token t.
LEMMA GoodSend ==
  ASSUME IInv, NEW c \in Calls, NEW t \in Tokens, pc[c] \in {"idle", "issued"}, Send(c, t),
         UNCHANGED <<now, issued, scope, attempt, result, gateway>>,
         t.serial <= issued, t.expires > now + RequestTimeout,
         attempt[c] = 2 => t.serial > carried[<<c, 1>>].serial /\ t.scope = scope[c]
  PROVE  Apart(c) /\ Good(c)'
<1> TypeOK /\ Good(c)
  BY DEF IInv
<1> t # None /\ Current(c) \in Requests
  BY ConstantsAssumption DEF Current, Requests, TypeOK, Tokens
<1>1. Apart(c)
  BY DEF Apart, Send, Wait, Current, Requests, TypeOK
<1>2. pc'[c] = "sent" /\ since'[c] = now /\ carried'[Current(c)] = t /\ attempt'[c] = attempt[c]
  BY DEF Send, Wait, TypeOK
<1>3. \A r \in Requests \ {Current(c)} : carried'[r] = carried[r]
  BY DEF Send, TypeOK
<1>4. CASE attempt[c] = 1
  <2>1. Current(c) = <<c, 1>> /\ Current(c)' = <<c, 1>> /\ carried'[<<c, 2>>] = None
    BY <1>2, <1>3, <1>4 DEF Current, Good, Sequence, Requests
  <2>2. Sequence(c)'
    BY <1>2, <1>4, <2>1 DEF Good, Sequence, gateway
  <2>3. Reported(c)'
    BY <1>2 DEF Good, Reported
  <2>4. Tokened(c)'
    BY <1>2, <1>4, <2>1, ConstantsAssumption DEF Good, Tokened, TypeOK
  <2> QED
    BY <1>1, <2>2, <2>3, <2>4 DEF Good
<1>5. CASE attempt[c] = 2
  <2>1. Current(c) = <<c, 2>> /\ Current(c)' = <<c, 2>> /\ carried'[<<c, 1>>] = carried[<<c, 1>>]
    BY <1>2, <1>3, <1>5 DEF Current, Good, Sequence, Requests
  <2>2. Sequence(c)'
    BY <1>2, <1>5, <2>1 DEF Good, Sequence, gateway
  <2>3. Reported(c)'
    BY <1>2 DEF Good, Reported
  <2>4. Tokened(c)'
    BY <1>2, <1>5, <2>1, ConstantsAssumption DEF Good, Tokened, TypeOK
  <2> QED
    BY <1>1, <2>2, <2>3, <2>4 DEF Good
<1> QED
  BY <1>4, <1>5 DEF TypeOK

\* A call begins, or begins again, to wait for Keycloak, with nothing sent since.
LEMMA GoodFetch ==
  ASSUME IInv, NEW c \in Calls, Wait(c, "fetch"),
         pc[c] \in {"idle", "fetch"}, UNCHANGED <<now, issued, scope, attempt, token, carried, result, gateway>>
  PROVE  Apart(c) /\ Good(c)'
<1> TypeOK /\ Good(c)
  BY DEF IInv
<1>1. Apart(c)
  BY DEF Apart, Wait, TypeOK
<1>2. pc'[c] = "fetch" /\ since'[c] = now
  BY DEF Wait, TypeOK
<1>3. Sequence(c)'
  BY <1>2 DEF Good, Sequence, Current, gateway
<1>4. Reported(c)'
  BY <1>2 DEF Good, Reported
<1>5. Tokened(c)'
  BY <1>2, ConstantsAssumption DEF Good, Tokened, TypeOK
<1> QED
  BY <1>1, <1>3, <1>4, <1>5 DEF Good

LEMMA CallStep ==
  ASSUME IInv, NEW c \in Calls,
         Start(c) \/ IssueToken(c) \/ KeycloakRefuses(c) \/ KeycloakFails(c)
         \/ TokenArrives(c) \/ TokenTimesOut(c)
         \/ Retry(c) \/ ReadReply(c) \/ ReplyLost(c) \/ RequestTimesOut(c)
  PROVE  Apart(c) /\ Good(c)'
<1> TypeOK /\ Good(c) /\ Cached
  BY DEF IInv
<1> USE DEF Environment
<1>1. CASE Start(c)
  <2>1. CASE Usable
    <3>1. cachedToken \in Tokens /\ cachedToken.serial <= issued
      BY <2>1 DEF Usable, Cached, TypeOK
    <3>2. cachedToken.expires > now + RequestTimeout
      BY <2>1, <3>1, ConstantsAssumption DEF Usable, Cached, TypeOK, Tokens
    <3>3. pc[c] = "idle" /\ attempt[c] # 2
      BY <1>1 DEF Start, Good, Sequence
    <3>4. Send(c, cachedToken) /\ UNCHANGED <<now, issued, scope, attempt, result, gateway>>
      BY <1>1, <2>1 DEF Start
    <3> QED
      BY <3>1, <3>2, <3>3, <3>4, GoodSend
  <2>2. CASE ~ Usable
    BY <1>1, <2>2, GoodFetch DEF Start
  <2> QED
    BY <2>1, <2>2
<1>2. CASE IssueToken(c)
  <2>1. PICK life \in Lifetimes :
          token' = [token EXCEPT ![c] = [serial |-> issued + 1, scope |-> scope[c], expires |-> now + life]]
    BY <1>2 DEF IssueToken
  <2>2. pc'[c] = "issued" /\ token'[c] = [serial |-> issued + 1, scope |-> scope[c], expires |-> now + life]
    BY <1>2, <2>1 DEF IssueToken, TypeOK
  <2>3. token'[c] # None
    BY <2>2, ConstantsAssumption DEF TypeOK
  <2>4. Apart(c)
    BY <1>2, <2>1 DEF Apart, IssueToken, TypeOK
  <2>5. Sequence(c)'
    BY <1>2, <2>2 DEF IssueToken, Good, Sequence, Current, gateway
  <2>6. Reported(c)'
    BY <1>2, <2>2 DEF IssueToken, Good, Reported
  <2>7. Tokened(c)'
    <3>1. now >= since[c] /\ now <= since[c] + TokenTimeout
      BY <1>2 DEF IssueToken, Good, Tokened
    <3>2. token'[c].expires > since[c] + TokenTimeout + RequestTimeout
      BY <2>2, <3>1, ConstantsAssumption DEF TypeOK
    <3>3. carried[<<c, 1>>] # None => carried[<<c, 1>>].serial \in Nat /\ carried[<<c, 1>>].serial < issued + 1
      BY DEF Good, Tokened, TypeOK, Tokens, Requests
    <3>4. attempt[c] = 2 => carried[<<c, 1>>] # None /\ carried[<<c, 2>>] = None
      BY <1>2 DEF IssueToken, Good, Sequence, Current
    <3>5. /\ now' = now /\ since' = since /\ scope' = scope /\ attempt' = attempt /\ carried' = carried
          /\ issued' = issued + 1
      BY <1>2 DEF IssueToken
    <3> QED
      BY <2>2, <2>3, <3>1, <3>2, <3>3, <3>4, <3>5 DEF Good, Tokened, TypeOK
  <2> QED
    BY <2>4, <2>5, <2>6, <2>7 DEF Good
<1>3. CASE KeycloakRefuses(c)
  BY <1>3, GoodFetch, GoodEnd DEF KeycloakRefuses
<1>4. CASE KeycloakFails(c)
  BY <1>4, GoodEnd DEF KeycloakFails
<1>5. CASE TokenArrives(c)
  <2>1. token[c] \in Tokens /\ token[c].serial <= issued
    BY <1>5 DEF TokenArrives, Good, Tokened, TypeOK
  <2>2. token[c].expires > now + RequestTimeout
    BY <1>5, <2>1, ConstantsAssumption DEF TokenArrives, Good, Tokened, TypeOK, Tokens
  <2>3. attempt[c] = 2 => token[c].serial > carried[<<c, 1>>].serial /\ token[c].scope = scope[c]
    BY <1>5 DEF TokenArrives, Good, Tokened
  <2> QED
    BY <1>5, <2>1, <2>2, <2>3, GoodSend DEF TokenArrives
<1>6. CASE TokenTimesOut(c)
  BY <1>6, GoodEnd DEF TokenTimesOut, Due
<1>7. CASE Retry(c)
  <2>1. Apart(c)
    BY <1>7 DEF Apart, Retry, Wait, TypeOK
  <2>2. /\ pc'[c] = "fetch" /\ since'[c] = now /\ attempt[c] = 1 /\ attempt'[c] = 2
        /\ Current(c) = <<c, 1>> /\ Current(c)' = <<c, 2>>
    BY <1>7 DEF Retry, Wait, TypeOK, Current
  <2>3. phase[<<c, 1>>] = "answered" /\ status[<<c, 1>>] = 401
    BY <1>7, <2>2 DEF Retry, IInv, Told, Requests
  <2>4. Sequence(c)'
    BY <1>7, <2>2, <2>3 DEF Retry, Good, Sequence, gateway
  <2>5. Reported(c)'
    BY <1>7, <2>2 DEF Retry, Good, Reported
  <2>6. Tokened(c)'
    BY <1>7, <2>2, ConstantsAssumption DEF Retry, Good, Tokened, Sequence, TypeOK
  <2> QED
    BY <2>1, <2>4, <2>5, <2>6 DEF Good
<1>8. CASE ReadReply(c)
  BY <1>8, GoodEnd DEF ReadReply
<1>9. CASE ReplyLost(c)
  BY <1>9, GoodEnd DEF ReplyLost
<1>10. CASE RequestTimesOut(c)
  BY <1>10, GoodEnd DEF RequestTimesOut, Due
<1> QED
  BY <1>1, <1>2, <1>3, <1>4, <1>5, <1>6, <1>7, <1>8, <1>9, <1>10

\* What becomes of a call when requests move on at the gateway.
LEMMA GoodAtGateway ==
  ASSUME IInv, AtGateway, NEW c \in Calls,
         \A r \in Requests : phase[r] = "answered" => phase'[r] = "answered" /\ status'[r] = status[r],
         \A r \in Requests : phase[r] = "idle" /\ carried[r] = None => phase'[r] = "idle"
  PROVE  Good(c)'
<1> TypeOK /\ Good(c)
  BY DEF IInv
<1>1. Current(c) \in Requests /\ <<c, 1>> \in Requests /\ <<c, 2>> \in Requests
  BY DEF Current, Requests, TypeOK
<1>2. UNCHANGED <<now, issued, pc, scope, attempt, token, since, result, carried>> /\ Current(c)' = Current(c)
  BY DEF AtGateway, provider, call, Current
<1>3. Sequence(c)'
  BY <1>1, <1>2 DEF Good, Sequence
<1>4. Reported(c)'
  BY <1>1, <1>2 DEF Good, Reported, Sequence
<1>5. Tokened(c)'
  BY <1>2 DEF Good, Tokened
<1> QED
  BY <1>3, <1>4, <1>5 DEF Good

LEMMA GoodStep ==
  ASSUME IInv, TypeOK', [Next]_vars
  PROVE  \A c \in Calls : Good(c)'
<1> TypeOK /\ \A c \in Calls : Good(c)
  BY DEF IInv
<1>1. ASSUME NEW c \in Calls,
             Start(c) \/ IssueToken(c) \/ KeycloakRefuses(c) \/ KeycloakFails(c)
             \/ TokenArrives(c) \/ TokenTimesOut(c)
             \/ Retry(c) \/ ReadReply(c) \/ ReplyLost(c) \/ RequestTimesOut(c)
      PROVE  \A d \in Calls : Good(d)'
  BY <1>1, CallStep, GoodApart
<1>2. ASSUME NEW r \in Requests, Arrives(r) PROVE \A d \in Calls : Good(d)'
  <2>1. carried[r] # None /\ phase[r] = "idle"
    BY <1>2 DEF Arrives, Gateway!TurnDown, Gateway!Open
  <2>2. \A q \in Requests \ {r} : phase'[q] = phase[q] /\ status'[q] = status[q]
    BY <1>2 DEF Arrives, TypeOK, Gateway!TurnDown, Gateway!Open, Gateway!Replies
  <2> QED
    BY <1>2, <2>1, <2>2, GoodAtGateway DEF Arrives
<1>3. ASSUME NEW r \in Requests, Answers(r) PROVE \A d \in Calls : Good(d)'
  <2>1. \A q \in Requests \ {r} : phase'[q] = phase[q] /\ status'[q] = status[q]
    BY <1>3 DEF Answers, TypeOK, Gateway!Answer, Gateway!Replies
  <2>2. phase[r] = "open" /\ AtGateway
    BY <1>3 DEF Answers, Gateway!Answer
  <2> QED
    BY <2>1, <2>2, GoodAtGateway
<1>4. CASE GatewayRestarts
  BY <1>4, GoodAtGateway DEF GatewayRestarts, Gateway!Cut
<1>5. CASE Tick
  <2> SUFFICES ASSUME NEW c \in Calls PROVE Good(c)'
    OBVIOUS
  <2>1. /\ UNCHANGED <<pc, scope, attempt, token, since, result, carried, issued, gateway>>
        /\ Current(c)' = Current(c) /\ now' = now + 1
    BY <1>5 DEF Tick, provider, call, gateway, Current
  <2>2. Sequence(c)' /\ Reported(c)'
    BY <2>1 DEF Good, Sequence, Reported, gateway
  <2>3. /\ pc[c] \in {"fetch", "issued"} => now < since[c] + TokenTimeout
        /\ pc[c] = "sent" => now < since[c] + RequestTimeout
    BY <1>5, ConstantsAssumption DEF Tick, Due, TypeOK
  <2>4. Tokened(c)'
    BY <2>1, <2>3, ConstantsAssumption DEF Good, Tokened, TypeOK
  <2> QED
    BY <2>2, <2>4 DEF Good
<1>6. CASE UNCHANGED vars
  <2> SUFFICES ASSUME NEW c \in Calls PROVE Good(c)'
    OBVIOUS
  <2>1. /\ UNCHANGED <<pc, scope, attempt, token, since, result, carried, issued, now>>
        /\ UNCHANGED <<phase, status>> /\ Current(c)' = Current(c)
    BY <1>6 DEF vars, provider, call, gateway, Current
  <2>2. Sequence(c)' /\ Reported(c)'
    BY <2>1 DEF Good, Sequence, Reported
  <2>3. Tokened(c)'
    BY <2>1 DEF Good, Tokened
  <2> QED
    BY <2>2, <2>3 DEF Good
<1> QED
  BY <1>1, <1>2, <1>3, <1>4, <1>5, <1>6 DEF Next

LEMMA InitGood == Init => IInv
BY InitTyped, ConstantsAssumption
DEF Init, IInv, Good, Sequence, Reported, Tokened, Cached, Told, Current, Requests, Gateway!Init

-----------------------------------------------------------------------------
(* The theorems *)

THEOREM Invariant == Spec => []IInv
<1>1. IInv /\ [Next]_vars => IInv'
  <2> SUFFICES ASSUME IInv, [Next]_vars PROVE IInv'
    OBVIOUS
  <2> QED
    BY TypedStep, CachedStep, GoodStep, ToldStep DEF IInv
<1> QED
  BY <1>1, InitGood, PTL DEF Spec

\* Every call is somewhere on its way.
THEOREM TypeCorrect == Spec => []TypeOK
<1>1. IInv => TypeOK
  BY DEF IInv
<1> QED
  BY <1>1, Invariant, PTL

\* A call reaches a tool at most once, whatever is lost, restarted or sent again.
THEOREM AtMostOnceAlways == Spec => []AtMostOnce
<1>1. IInv => AtMostOnce
  <2> SUFFICES ASSUME IInv, NEW c \in Calls PROVE ~ (effect[<<c, 1>>] /\ effect[<<c, 2>>])
    BY DEF AtMostOnce
  <2>1. Sequence(c) /\ Told(<<c, 1>>) /\ Told(<<c, 2>>) /\ attempt[c] \in {1, 2}
    BY DEF IInv, Good, TypeOK, Requests
  <2> QED
    BY <2>1 DEF Sequence, Told
<1> QED
  BY <1>1, Invariant, PTL

\* What a call reports to have happened, or not, has happened, or never will; a reply that
\* cannot be parsed included.
THEOREM TruthfulAlways == Spec => []Truthful
<1>1. IInv => Truthful
  <2> SUFFICES ASSUME IInv, NEW c \in Calls
      PROVE  /\ result[c] = "data" \/ (result[c] = "error" /\ status[Current(c)] < 300) => effect[Current(c)]
             /\ result[c] = "noToken" \/ (result[c] = "error" /\ status[Current(c)] \in 400 .. 499) =>
                  ~ effect[<<c, 1>>] /\ ~ effect[<<c, 2>>]
    BY DEF Truthful
  <2>1. /\ Sequence(c) /\ Reported(c) /\ Told(<<c, 1>>) /\ Told(<<c, 2>>)
        /\ attempt[c] \in {1, 2} /\ status[Current(c)] \in Codes
    BY DEF IInv, Good, TypeOK, Requests, Current
  <2>2. status[Current(c)] \in 400 .. 499 => status[Current(c)] \in 300 .. 499
    BY <2>1 DEF Codes
  <2> QED
    BY <2>1, <2>2 DEF Sequence, Reported, Told, Current
<1> QED
  BY <1>1, Invariant, PTL

\* The second request of a call carries a token that is newer than the one refused.
THEOREM FreshRetryAlways == Spec => []FreshRetry
<1>1. IInv => FreshRetry
  BY DEF IInv, Good, Tokened, FreshRetry
<1> QED
  BY <1>1, Invariant, PTL

\* No call waits for an answer to a request whose token has expired.
THEOREM NeverExpiredAlways == Spec => []NeverExpired
<1>1. IInv => NeverExpired
  <2> SUFFICES ASSUME IInv, NEW c \in Calls, pc[c] = "sent" PROVE now < carried[Current(c)].expires
    BY DEF NeverExpired
  <2>1. /\ now <= since[c] + RequestTimeout
        /\ carried[Current(c)].expires > since[c] + RequestTimeout
    BY DEF IInv, Good, Tokened
  <2>2. now \in Nat /\ since[c] \in Nat /\ Current(c) \in Requests
    BY DEF IInv, TypeOK, Requests, Current
  <2>3. carried[Current(c)] # None
    BY DEF IInv, Good, Sequence
  <2>4. carried[Current(c)].expires \in Nat
    BY <2>2, <2>3 DEF IInv, TypeOK, Tokens
  <2> QED
    BY <2>1, <2>2, <2>4, ConstantsAssumption
<1> QED
  BY <1>1, Invariant, PTL
-----------------------------------------------------------------------------
(* How long a call takes *)

Waiting == {"fetch", "issued", "sent"}

\* The most that may follow the wait which call c is in: a token asked for once more, a
\* request, and the same again after a 401.
After(c) ==
  (IF attempt[c] = 1 THEN 2 * TokenTimeout + RequestTimeout ELSE 0)
  + (IF pc[c] \in {"fetch", "issued"} THEN RequestTimeout ELSE 0)
  + (IF pc[c] = "fetch" /\ ~ retrying[c] THEN TokenTimeout ELSE 0)

\* The timer of the wait that call c is in.
Timeout(c) == IF pc[c] = "sent" THEN RequestTimeout ELSE TokenTimeout

\* The latest end of call c.
Deadline(c) == since[c] + Timeout(c) + After(c)

\* The deadline of a call that waits is ahead, and not too far.
LEMMA DeadlineAhead ==
  ASSUME IInv, NEW c \in Calls, pc[c] \in Waiting
  PROVE  /\ Deadline(c) \in Nat /\ now <= Deadline(c)
         /\ Deadline(c) <= now + 4 * TokenTimeout + 2 * RequestTimeout
<1>1. /\ now \in Nat /\ since[c] \in Nat /\ TokenTimeout \in Nat /\ RequestTimeout \in Nat
  BY ConstantsAssumption DEF IInv, TypeOK
<1>2. since[c] <= now /\ now <= since[c] + Timeout(c)
  BY DEF IInv, Good, Tokened, Timeout, Waiting
<1> QED
  BY <1>1, <1>2 DEF Deadline, After, Timeout
\* A step of another call, of the gateway or of the clock leaves it as it is.
LEMMA DeadlineSame ==
  ASSUME NEW c \in Calls,
         pc'[c] = pc[c] /\ since'[c] = since[c] /\ attempt'[c] = attempt[c] /\ retrying'[c] = retrying[c]
  PROVE  Deadline(c)' = Deadline(c)
BY DEF Deadline, After, Timeout

\* No step puts it off.
LEMMA DeadlineStep ==
  ASSUME IInv, IInv', [Next]_vars, NEW c \in Calls, pc[c] \in Waiting
  PROVE  pc'[c] = "ended" \/ (pc'[c] \in Waiting /\ Deadline(c)' <= Deadline(c))
<1>0. /\ TypeOK /\ TokenTimeout \in Nat /\ RequestTimeout \in Nat
      /\ now \in Nat /\ since[c] \in Nat /\ attempt[c] \in {1, 2}
      /\ since[c] <= now /\ now <= since[c] + Timeout(c)
  <2>1. /\ TypeOK /\ TokenTimeout \in Nat /\ RequestTimeout \in Nat
        /\ now \in Nat /\ since[c] \in Nat /\ attempt[c] \in {1, 2}
    BY ConstantsAssumption DEF IInv, TypeOK
  <2>2. since[c] <= now /\ now <= since[c] + Timeout(c)
    BY DEF IInv, Good, Tokened, Timeout, Waiting
  <2> QED
    BY <2>1, <2>2
<1>1. Deadline(c) \in Nat
  BY DeadlineAhead
<1>2. ASSUME pc'[c] = pc[c], since'[c] = since[c], attempt'[c] = attempt[c], retrying'[c] = retrying[c]
      PROVE  pc'[c] \in Waiting /\ Deadline(c)' <= Deadline(c)
  BY <1>1, <1>2, DeadlineSame
<1>3. ASSUME NEW d \in Calls, NEW how, End(d, how), UNCHANGED attempt
      PROVE  pc'[c] = "ended" \/ (pc'[c] \in Waiting /\ Deadline(c)' <= Deadline(c))
  <2>1. CASE d = c
    BY <1>0, <1>3, <2>1 DEF End, TypeOK
  <2>2. CASE d # c
    BY <1>0, <1>2, <1>3, <2>2 DEF End, TypeOK
  <2> QED
    BY <2>1, <2>2
<1>4. ASSUME NEW d \in Calls, Start(d)
      PROVE  pc'[c] \in Waiting /\ Deadline(c)' <= Deadline(c)
  <2>1. d # c
    BY <1>4 DEF Start, Waiting
  <2> QED
    BY <1>0, <1>2, <1>4, <2>1 DEF Start, Send, Wait, TypeOK
<1>5. ASSUME NEW d \in Calls, IssueToken(d)
      PROVE  pc'[c] \in Waiting /\ Deadline(c)' <= Deadline(c)
  <2>1. CASE d = c
    <3>1. /\ pc[c] = "fetch" /\ pc'[c] = "issued"
          /\ since'[c] = since[c] /\ attempt'[c] = attempt[c]
      BY <1>0, <1>5, <2>1 DEF IssueToken, TypeOK
    <3> QED
      BY <1>0, <3>1 DEF Deadline, After, Timeout, Waiting
  <2>2. CASE d # c
    BY <1>0, <1>2, <1>5, <2>2 DEF IssueToken, TypeOK
  <2> QED
    BY <2>1, <2>2
<1>6. ASSUME NEW d \in Calls, KeycloakRefuses(d), ~ retrying[d]
      PROVE  pc'[c] \in Waiting /\ Deadline(c)' <= Deadline(c)
  <2>1. /\ pc[d] = "fetch" /\ Wait(d, "fetch") /\ UNCHANGED attempt
        /\ retrying' = [retrying EXCEPT ![d] = TRUE]
    BY <1>6 DEF KeycloakRefuses
  <2>2. CASE d = c
    <3>1. /\ pc'[c] = "fetch" /\ since'[c] = now /\ retrying'[c]
      BY <1>0, <2>1, <2>2 DEF Wait, TypeOK
    <3> QED
      BY <1>0, <1>6, <2>1, <2>2, <3>1 DEF Deadline, After, Timeout, Waiting
  <2>3. CASE d # c
    BY <1>0, <1>2, <2>1, <2>3 DEF Wait, TypeOK
  <2> QED
    BY <2>2, <2>3
<1>7. ASSUME NEW d \in Calls, TokenArrives(d)
      PROVE  pc'[c] \in Waiting /\ Deadline(c)' <= Deadline(c)
  <2>1. pc[d] = "issued" /\ Wait(d, "sent") /\ UNCHANGED attempt
        /\ retrying' = [retrying EXCEPT ![d] = FALSE]
    BY <1>7 DEF TokenArrives, Send
  <2>2. CASE d = c
    <3>1. pc'[c] = "sent" /\ since'[c] = now
      BY <1>0, <2>1, <2>2 DEF Wait, TypeOK
    <3> QED
      BY <1>0, <2>1, <2>2, <3>1 DEF Deadline, After, Timeout, Waiting
  <2>3. CASE d # c
    BY <1>0, <1>2, <2>1, <2>3 DEF Wait, TypeOK
  <2> QED
    BY <2>2, <2>3
<1>8. ASSUME NEW d \in Calls, Retry(d)
      PROVE  pc'[c] \in Waiting /\ Deadline(c)' <= Deadline(c)
  <2>1. /\ pc[d] = "sent" /\ attempt[d] = 1 /\ Wait(d, "fetch")
        /\ attempt' = [attempt EXCEPT ![d] = 2] /\ UNCHANGED retrying
    BY <1>8 DEF Retry
  <2>2. CASE d = c
    <3>1. pc'[c] = "fetch" /\ since'[c] = now /\ attempt'[c] = 2
      BY <1>0, <2>1, <2>2 DEF Wait, TypeOK
    <3> QED
      BY <1>0, <2>1, <2>2, <3>1 DEF Deadline, After, Timeout, Waiting
  <2>3. CASE d # c
    BY <1>0, <1>2, <2>1, <2>3 DEF Wait, TypeOK
  <2> QED
    BY <2>2, <2>3
<1>9. ASSUME NEW d \in Calls,
             \/ KeycloakRefuses(d) /\ retrying[d]
             \/ KeycloakFails(d) \/ TokenTimesOut(d)
             \/ ReadReply(d) \/ ReplyLost(d) \/ RequestTimesOut(d)
      PROVE  pc'[c] = "ended" \/ (pc'[c] \in Waiting /\ Deadline(c)' <= Deadline(c))
  <2>1. UNCHANGED attempt /\ \E how : End(d, how)
    BY <1>9 DEF KeycloakRefuses, KeycloakFails, TokenTimesOut, ReadReply, ReplyLost, RequestTimesOut
  <2> QED
    BY <1>3, <2>1
<1>10. ASSUME UNCHANGED call PROVE pc'[c] \in Waiting /\ Deadline(c)' <= Deadline(c)
  BY <1>2, <1>10 DEF call
<1> QED
  BY <1>4, <1>5, <1>6, <1>7, <1>8, <1>9, <1>10
  DEF Next, vars, Arrives, Answers, GatewayRestarts, AtGateway, Tick

\* uap-client.ts and i-token-provider.ts: a call that has begun by instant T has ended
\* four token timeouts and two request timeouts later (100 s in the code), whatever the
\* gateway, Keycloak and other calls do.
THEOREM EndsInTime ==
  ASSUME NEW c \in Calls, NEW T \in Nat
  PROVE  Spec => [](/\ pc[c] # "idle" /\ now = T
                    => [](now > T + 4 * TokenTimeout + 2 * RequestTimeout => pc[c] = "ended"))
<1> DEFINE Begun == pc[c] # "idle" /\ now = T
           Over == now > T + 4 * TokenTimeout + 2 * RequestTimeout => pc[c] = "ended"
           Bounded == \/ pc[c] = "ended"
                      \/ /\ pc[c] \in Waiting
                         /\ Deadline(c) <= T + 4 * TokenTimeout + 2 * RequestTimeout
<1>1. IInv /\ Begun => Bounded
  BY DeadlineAhead DEF IInv, TypeOK, Places, Waiting
<1>2. IInv /\ Bounded => Over
  <2>1. IInv => now \in Nat /\ TokenTimeout \in Nat /\ RequestTimeout \in Nat
    BY ConstantsAssumption DEF IInv, TypeOK
  <2> QED
    BY <2>1, DeadlineAhead
<1>3. IInv /\ IInv' /\ Bounded /\ [Next]_vars => Bounded'
  <2> SUFFICES ASSUME IInv, IInv', Bounded, [Next]_vars PROVE Bounded'
    OBVIOUS
  <2>1. CASE pc[c] = "ended"
    <3>1. pc'[c] = "ended"
      BY <2>1 DEF IInv, TypeOK, Next, vars, call, Start, IssueToken, KeycloakRefuses, KeycloakFails,
         TokenArrives, TokenTimesOut, Retry, ReadReply, ReplyLost, RequestTimesOut, Due,
         Send, Wait, End, Arrives, Answers, GatewayRestarts, AtGateway, Tick
    <3> QED
      BY <3>1
  <2>2. CASE pc[c] \in Waiting /\ Deadline(c) <= T + 4 * TokenTimeout + 2 * RequestTimeout
    <3>1. pc'[c] = "ended" \/ (pc'[c] \in Waiting /\ Deadline(c)' <= Deadline(c))
      BY <2>2, DeadlineStep
    <3>2. Deadline(c) \in Nat
      BY <2>2, DeadlineAhead
    <3>3. Deadline(c)' \in Nat
      <4>1. /\ since'[c] \in Nat /\ TokenTimeout \in Nat /\ RequestTimeout \in Nat
        BY ConstantsAssumption DEF IInv, TypeOK
      <4> QED
        BY <4>1 DEF Deadline, After, Timeout
    <3> QED
      BY <2>2, <3>1, <3>2, <3>3, ConstantsAssumption
  <2> QED
    BY <2>1, <2>2
<1> HIDE DEF Begun, Over, Bounded
<1>4. Spec => [](Begun => []Over)
  BY <1>1, <1>2, <1>3, Invariant, PTL DEF Spec
<1> QED
  BY <1>4, PTL DEF Begun, Over
=============================================================================
