----------------------------- MODULE SdkClient -----------------------------
(***************************************************************************)
(* Calls of one UapClient that overlap: the token provider that they share *)
(* with its cache, the request with its timeout, and the one retry after a *)
(* 401.  The gateway is what GatewayPort promises; it may be restarted,    *)
(* and replies may be lost.  Keycloak issues tokens or fails.              *)
(*                                                                         *)
(* Time passes in units of which the timeouts are multiples.  The clocks   *)
(* of the client, of Keycloak and of the gateway agree.                    *)
(***************************************************************************)
EXTENDS Integers

CONSTANTS
  Calls,            \* calls of invokeTool and delegateTask, each made once
  Scopes,           \* the lists of scopes that calls ask for
  None,             \* null: no token
  Lifetimes,        \* how long Keycloak's tokens live
  Margin,           \* a token is not reused so shortly before its expiry: 60 s
  TokenTimeout,     \* of a request to Keycloak: 10 s
  RequestTimeout,   \* of a request to the gateway: 30 s
  MaxTime           \* the time at which a run stops

\* The code's 60, 10 and 30 seconds are such; a realm's access tokens live longer
\* than a fetch and a request take.
ASSUME ConstantsAssumption ==
  /\ Lifetimes \subseteq Nat
  /\ Margin \in Nat /\ TokenTimeout \in Nat /\ RequestTimeout \in Nat /\ MaxTime \in Nat
  /\ RequestTimeout <= Margin
  /\ \A life \in Lifetimes : life > TokenTimeout + RequestTimeout
  /\ None \notin [serial : Nat, scope : Scopes, expires : Nat]

Tokens == [serial : Nat, scope : Scopes, expires : Nat]

\* A call sends a request and, after a 401, another.
Requests == Calls \X {1, 2}

\* 403 stands for every refusal but 401.
Codes == {0, 200, 401, 403, 500}

VARIABLES
  now,              \* the time
  issued,           \* the number of tokens that Keycloak has issued
  cachedToken,      \* ClientCredentialsTokenProvider
  expiry,
  pc,               \* call -> where it is
  scope,            \* call -> the scopes it asks for
  attempt,          \* call -> 1 or, after a 401, 2
  retrying,         \* call -> whether its token is asked for once more
  token,            \* call -> the token that Keycloak issued for it, or None
  since,            \* call -> when it began to wait
  carried,          \* request -> the token it was sent with, or None
  result,           \* call -> how it ended
  phase, effect, status   \* the requests at the gateway

provider == <<issued, cachedToken, expiry>>
call == <<pc, scope, attempt, retrying, token, since, result>>
gateway == <<phase, effect, status>>
vars == <<now, provider, call, carried, gateway>>

Gateway == INSTANCE GatewayPort

Places == {"idle", "fetch", "issued", "sent", "ended"}

\* The reply's data; a UapClientError with the gateway's status, be it a success, or
\* with 408; an error of getToken; an error of fetch or of reading the body.
Results == {"none", "data", "error", "timeout", "noToken", "broken"}

\* Every call is somewhere on its way, and the cache holds a token and an expiry.
TypeOK ==
  /\ now \in 0 .. MaxTime
  /\ issued \in Nat
  /\ cachedToken \in Tokens \cup {None}
  /\ expiry \in Nat
  /\ pc \in [Calls -> Places]
  /\ scope \in [Calls -> Scopes]
  /\ attempt \in [Calls -> {1, 2}]
  /\ retrying \in [Calls -> BOOLEAN]
  /\ token \in [Calls -> Tokens \cup {None}]
  /\ since \in [Calls -> 0 .. MaxTime]
  /\ carried \in [Requests -> Tokens \cup {None}]
  /\ result \in [Calls -> Results]
  /\ phase \in [Requests -> {"idle", "open", "answered", "cut"}]
  /\ effect \in [Requests -> BOOLEAN]
  /\ status \in [Requests -> Codes]

Init ==
  /\ now = 0 /\ issued = 0
  /\ cachedToken = None /\ expiry = 0
  /\ pc = [c \in Calls |-> "idle"]
  /\ scope \in [Calls -> Scopes]
  /\ attempt = [c \in Calls |-> 1]
  /\ retrying = [c \in Calls |-> FALSE]
  /\ token = [c \in Calls |-> None]
  /\ since = [c \in Calls |-> 0]
  /\ carried = [r \in Requests |-> None]
  /\ result = [c \in Calls |-> "none"]
  /\ Gateway!Init

\* The request that call c sends now, or waits for.
Current(c) == <<c, attempt[c]>>

Wait(c, place) == pc' = [pc EXCEPT ![c] = place] /\ since' = [since EXCEPT ![c] = now]

End(c, how) ==
  /\ pc' = [pc EXCEPT ![c] = "ended"]
  /\ since' = [since EXCEPT ![c] = 0]
  /\ retrying' = [retrying EXCEPT ![c] = FALSE]
  /\ token' = [token EXCEPT ![c] = None]
  /\ result' = [result EXCEPT ![c] = how]

ClearCache == cachedToken' = None /\ expiry' = 0

Send(c, t) ==
  /\ Wait(c, "sent")
  /\ retrying' = [retrying EXCEPT ![c] = FALSE]
  /\ token' = [token EXCEPT ![c] = None]
  /\ carried' = [carried EXCEPT ![Current(c)] = t]

Environment == <<now, issued, gateway>>

-----------------------------------------------------------------------------
(* getToken *)

\* Mutant: a token is reused up to its expiry.
UsableToTheEnd == cachedToken # None /\ now < expiry

Usable == cachedToken # None /\ now < expiry - Margin

\* invokeTool or delegateTask: the cached token is used, whatever its scope, or one
\* is asked for.
Start(c) ==
  /\ pc[c] = "idle"
  /\ IF Usable
     THEN Send(c, cachedToken)
     ELSE Wait(c, "fetch") /\ UNCHANGED <<retrying, token, carried>>
  /\ UNCHANGED <<cachedToken, expiry, scope, attempt, result, Environment>>

\* Keycloak issues a token; the answer is on its way.
IssueToken(c) ==
  /\ pc[c] = "fetch"
  /\ issued' = issued + 1
  /\ \E life \in Lifetimes :
       token' = [token EXCEPT ![c] = [serial |-> issued + 1, scope |-> scope[c], expires |-> now + life]]
  /\ pc' = [pc EXCEPT ![c] = "issued"]
  /\ UNCHANGED <<now, cachedToken, expiry, scope, attempt, retrying, since, carried, result, gateway>>

\* A 401 of Keycloak: once, the cache is cleared and the token is asked for again.
KeycloakRefuses(c) ==
  /\ pc[c] = "fetch"
  /\ IF retrying[c]
     THEN End(c, "noToken") /\ UNCHANGED <<cachedToken, expiry>>
     ELSE /\ ClearCache
          /\ retrying' = [retrying EXCEPT ![c] = TRUE]
          /\ Wait(c, "fetch")
          /\ UNCHANGED <<token, result>>
  /\ UNCHANGED <<scope, attempt, carried, Environment>>

\* Another error of Keycloak's, no connection, or an answer that is not JSON.
KeycloakFails(c) ==
  /\ pc[c] \in {"fetch", "issued"}
  /\ End(c, "noToken")
  /\ UNCHANGED <<cachedToken, expiry, scope, attempt, carried, Environment>>

\* The token is cached over whatever is in the cache by now, with an expiry of 0,
\* which lets nobody use it, if its payload has none (undefined); it is not cached if
\* it has no payload.  The request goes out with it.
TokenArrives(c) ==
  /\ pc[c] = "issued"
  /\ \/ cachedToken' = token[c] /\ expiry' \in {token[c].expires, 0}
     \/ UNCHANGED <<cachedToken, expiry>>
  /\ Send(c, token[c])
  /\ UNCHANGED <<scope, attempt, result, Environment>>

\* A timeout of a call that waits in one of `places` is due.
Due(c, places, timeout) ==
  pc[c] \in places /\ (now >= since[c] + timeout \/ now = MaxTime)

\* No answer of Keycloak's within 10 seconds: a UapAuthError.
TokenTimesOut(c) ==
  /\ Due(c, {"fetch", "issued"}, TokenTimeout)
  /\ End(c, "noToken")
  /\ UNCHANGED <<cachedToken, expiry, scope, attempt, carried, Environment>>

-----------------------------------------------------------------------------
(* requestWithRetry *)

\* Mutant: a request is sent again after every 401.
RetryAlways(c) ==
  /\ pc[c] = "sent" /\ status[Current(c)] = 401
  /\ ClearCache
  /\ attempt' = [attempt EXCEPT ![c] = @ + 1]
  /\ Wait(c, "fetch")
  /\ UNCHANGED <<scope, retrying, token, carried, result, Environment>>

\* Mutant: a request that times out is sent again.
RetryAfterTimeout(c) ==
  /\ pc[c] = "sent" /\ attempt[c] = 1
  /\ status[Current(c)] = 401 \/ Due(c, {"sent"}, RequestTimeout)
  /\ ClearCache
  /\ attempt' = [attempt EXCEPT ![c] = 2]
  /\ Wait(c, "fetch")
  /\ UNCHANGED <<scope, retrying, token, carried, result, Environment>>

\* Mutant: the cache is not cleared, and the token of another call may be in it.
RetryFromCache(c) ==
  /\ pc[c] = "sent" /\ attempt[c] = 1 /\ status[Current(c)] = 401
  /\ attempt' = [attempt EXCEPT ![c] = 2]
  /\ IF Usable
     THEN /\ Wait(c, "sent")
          /\ carried' = [carried EXCEPT ![<<c, 2>>] = cachedToken]
     ELSE Wait(c, "fetch") /\ UNCHANGED carried
  /\ UNCHANGED <<cachedToken, expiry, scope, retrying, token, result, Environment>>

\* The reply of the first request is 401: the cache is cleared, and with nothing in
\* it a new token is asked for in the same turn.
Retry(c) ==
  /\ pc[c] = "sent" /\ attempt[c] = 1 /\ status[Current(c)] = 401
  /\ ClearCache
  /\ attempt' = [attempt EXCEPT ![c] = 2]
  /\ Wait(c, "fetch")
  /\ UNCHANGED <<scope, retrying, token, carried, result, Environment>>

\* Mutant: a reply without data is the call's data all the same.
ReadReplyAnyway(c) ==
  /\ pc[c] = "sent" /\ phase[Current(c)] = "answered"
  /\ status[Current(c)] = 401 => attempt[c] = 2
  /\ \/ status[Current(c)] < 500 /\ End(c, "data")
     \/ End(c, "error")
  /\ UNCHANGED <<cachedToken, expiry, scope, attempt, carried, Environment>>

\* Any other reply is the call's: data, or an error with its status.  The reply to a
\* success is an error, too, if its body is not JSON.
ReadReply(c) ==
  /\ pc[c] = "sent" /\ phase[Current(c)] = "answered"
  /\ status[Current(c)] = 401 => attempt[c] = 2
  /\ \/ status[Current(c)] < 300 /\ End(c, "data")
     \/ End(c, "error")
  /\ UNCHANGED <<cachedToken, expiry, scope, attempt, carried, Environment>>

\* The connection breaks before the reply, or amid its body.
ReplyLost(c) ==
  /\ pc[c] = "sent"
  /\ End(c, "broken")
  /\ UNCHANGED <<cachedToken, expiry, scope, attempt, carried, Environment>>

\* No reply within 30 seconds: a UapClientError with 408, and no second request.
RequestTimesOut(c) ==
  /\ Due(c, {"sent"}, RequestTimeout)
  /\ End(c, "timeout")
  /\ UNCHANGED <<cachedToken, expiry, scope, attempt, carried, Environment>>

-----------------------------------------------------------------------------
(* The gateway and the clock *)

AtGateway == UNCHANGED <<now, provider, call, carried>>

\* Request r arrives, be it when its call has given up: its token is turned down if it
\* has expired.  The gateway goes on with it although the call may give up.
Arrives(r) ==
  /\ carried[r] # None
  /\ IF now >= carried[r].expires THEN Gateway!TurnDown(r) ELSE Gateway!Open(r)
  /\ AtGateway

\* The gateway may refuse any token, and one of other scopes may have the route's.
Answers(r) == Gateway!Answer(r, Codes) /\ AtGateway

OpenRequests == {r \in Requests : phase[r] = "open"}

GatewayRestarts ==
  /\ OpenRequests # {}
  /\ Gateway!Cut(OpenRequests, OpenRequests)
  /\ AtGateway

\* Timers fire when they are due.
Tick ==
  /\ now < MaxTime
  /\ \A c \in Calls : ~ Due(c, {"fetch", "issued"}, TokenTimeout) /\ ~ Due(c, {"sent"}, RequestTimeout)
  /\ now' = now + 1
  /\ UNCHANGED <<provider, call, carried, gateway>>

Next ==
  \/ \E c \in Calls :
       \/ Start(c) \/ IssueToken(c) \/ KeycloakRefuses(c) \/ KeycloakFails(c)
       \/ TokenArrives(c) \/ TokenTimesOut(c)
       \/ Retry(c) \/ ReadReply(c) \/ ReplyLost(c) \/ RequestTimesOut(c)
  \/ \E r \in Requests : Arrives(r) \/ Answers(r)
  \/ GatewayRestarts
  \/ Tick

Spec == Init /\ [][Next]_vars

-----------------------------------------------------------------------------
(* Properties *)

\* A call reaches a tool at most once, although its request is sent again after a
\* 401, replies are lost and the gateway may be restarted: the first request, which
\* may still be at the gateway when the call has ended, and the second never both
\* take effect.
AtMostOnce == \A c \in Calls : ~ (effect[<<c, 1>>] /\ effect[<<c, 2>>])

\* What a call reports is true, then and ever after: data, or an error with a status
\* below 300, is the answer of a tool that ran; after an error of Keycloak's, or with a
\* status from 400 to 499 of the gateway's, no tool has run for the call and none will.
\* (A call that ends with 408 or with a broken connection may yet run a tool, one that
\* ends with 500 may have run it.)
Truthful ==
  \A c \in Calls :
    /\ result[c] = "data" \/ (result[c] = "error" /\ status[Current(c)] < 300) => effect[Current(c)]
    /\ result[c] = "noToken" \/ (result[c] = "error" /\ status[Current(c)] \in 400 .. 499) =>
         ~ effect[<<c, 1>>] /\ ~ effect[<<c, 2>>]

\* Whatever other calls put into the cache or clear from it meanwhile, a call whose
\* token was refused sends its second request with one that Keycloak issued later,
\* for its own scopes.
FreshRetry ==
  \A c \in Calls : carried[<<c, 2>>] # None =>
    /\ carried[<<c, 2>>].serial > carried[<<c, 1>>].serial
    /\ carried[<<c, 2>>].scope = scope[c]

\* A request that its call still waits for does not carry an expired token: tokens
\* are not reused within the margin, and the expiry in the cache is that of the token
\* in it although overlapping fetches overwrite each other.
NeverExpired == \A c \in Calls : pc[c] = "sent" => now < carried[Current(c)].expires
=============================================================================
