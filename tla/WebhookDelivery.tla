--------------------------- MODULE WebhookDelivery ---------------------------
(***************************************************************************)
(* What the dispatcher promises a merchant, without attempts, workers or   *)
(* retries.  A chain is one event for one endpoint.  It is opened once,    *)
(* the endpoint may receive the event any number of times while the chain  *)
(* is open, and the chain is closed once and for ever: as delivered only   *)
(* if the endpoint has received the event.                                 *)
(***************************************************************************)
CONSTANT Chains

VARIABLES
  chain,     \* "none", "open", "delivered", "exhausted" or "abandoned"
  received   \* the chains whose endpoint has received the event

vars == <<chain, received>>

Init == chain = [c \in Chains |-> "none"] /\ received = {}

Open(c) ==
  /\ chain[c] = "none"
  /\ chain' = [chain EXCEPT ![c] = "open"]
  /\ UNCHANGED received

Receive(c) ==
  /\ chain[c] = "open"
  /\ received' = received \cup {c}
  /\ UNCHANGED chain

Deliver(c) ==
  /\ chain[c] = "open"
  /\ c \in received
  /\ chain' = [chain EXCEPT ![c] = "delivered"]
  /\ UNCHANGED received

Exhaust(c) ==
  /\ chain[c] = "open"
  /\ chain' = [chain EXCEPT ![c] = "exhausted"]
  /\ UNCHANGED received

\* An endpoint that is disabled takes several chains with it.
Abandon(C) ==
  /\ \A c \in C : chain[c] = "open"
  /\ chain' = [c \in Chains |-> IF c \in C THEN "abandoned" ELSE chain[c]]
  /\ UNCHANGED received

Next ==
  \/ \E c \in Chains : Open(c) \/ Receive(c) \/ Deliver(c) \/ Exhaust(c)
  \/ \E C \in SUBSET Chains : Abandon(C)

Spec == Init /\ [][Next]_vars
=============================================================================
