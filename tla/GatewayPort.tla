---------------------------- MODULE GatewayPort ----------------------------
(***************************************************************************)
(* What a client may assume of the gateway: a request is answered at most  *)
(* once, the status code tells whether it took effect, and the connection  *)
(* may be cut instead, which tells nothing.  Gateway implements this;      *)
(* SdkClient builds on it.                                                 *)
(***************************************************************************)
EXTENDS Integers

CONSTANTS
  Requests,     \* requests that can be in flight at once
  Codes         \* the status codes of replies, and 0

VARIABLES
  phase,        \* request -> "idle", "open", "answered", "cut"
  effect,       \* request -> whether it ran a tool, reached an agent or
                \* changed the registry
  status        \* request -> the reply's status code, 0 before it

vars == <<phase, effect, status>>

Init ==
  /\ phase = [r \in Requests |-> "idle"]
  /\ effect = [r \in Requests |-> FALSE]
  /\ status = [r \in Requests |-> 0]

\* A success did what was asked; a refusal (300 to 499) did nothing; an error of
\* the gateway or of what it calls may have come before or after the effect.
Truthful(code, happened) ==
  /\ code < 300 => happened
  /\ code \in 300 .. 499 => ~ happened

Replies(r, codes) ==
  /\ phase' = [phase EXCEPT ![r] = "answered"]
  /\ \E code \in codes \ {0}, happened \in BOOLEAN :
       /\ Truthful(code, happened)
       /\ status' = [status EXCEPT ![r] = code]
       /\ effect' = [effect EXCEPT ![r] = happened]

Open(r) ==
  /\ phase[r] = "idle"
  /\ phase' = [phase EXCEPT ![r] = "open"]
  /\ UNCHANGED <<effect, status>>

\* The gateway turns a request down by its headers alone.
TurnDown(r) == phase[r] = "idle" /\ Replies(r, {401})

Answer(r, codes) == phase[r] = "open" /\ Replies(r, codes)

\* The gateway's process ends: the open requests of `dropped` get no answer.  Those
\* of `begun` may have taken effect, or will, as what they began goes on.
Cut(dropped, begun) ==
  /\ \A r \in dropped : phase[r] = "open"
  /\ phase' = [r \in Requests |-> IF r \in dropped THEN "cut" ELSE phase[r]]
  /\ \E happened \in SUBSET (dropped \cap begun) :
       effect' = [r \in Requests |-> effect[r] \/ r \in happened]
  /\ UNCHANGED status

\* The connection is closed; another request can come in its place.
Close(r) ==
  /\ phase[r] \in {"answered", "cut"}
  /\ phase' = [phase EXCEPT ![r] = "idle"]
  /\ effect' = [effect EXCEPT ![r] = FALSE]
  /\ status' = [status EXCEPT ![r] = 0]

Next ==
  \/ \E r \in Requests : Open(r) \/ TurnDown(r) \/ Answer(r, Codes) \/ Close(r)
  \/ \E dropped \in SUBSET {r \in Requests : phase[r] = "open"} : Cut(dropped, dropped)

Spec == Init /\ [][Next]_vars
=============================================================================
