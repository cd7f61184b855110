---------------------------- MODULE IdealPayment ----------------------------
(***************************************************************************)
(* What the wallet promises of its intents, whatever its prompts, queues,  *)
(* locks and crashes do: an intent is decided once, under one idempotency  *)
(* scope; only an approved payment is spent; a payment is spent at most    *)
(* once, and so is its scope.  (docs/WDK_WALLET_V0.9_SPEC.md, principles   *)
(* 2 and 6 of section 2, and section 8.3.)                                 *)
(***************************************************************************)
CONSTANTS
    Req,        \* intents
    Payments,   \* the intents that may spend
    Scope,      \* idempotency scopes
    None

VARIABLES
    decision,   \* intent -> "open", "approved" or "refused"
    scope,      \* intent -> the scope it was decided under
    spent       \* intents that reached the chain

vars == <<decision, scope, spent>>

Init ==
    /\ decision = [r \in Req |-> "open"]
    /\ scope = [r \in Req |-> None]
    /\ spent = {}

Decide(r) ==
    /\ decision[r] = "open"
    /\ \E d \in {"approved", "refused"}, s \in Scope :
          /\ decision' = [decision EXCEPT ![r] = d]
          /\ scope' = [scope EXCEPT ![r] = s]
    /\ UNCHANGED spent

Spend(r) ==
    /\ r \in Payments \ spent
    /\ decision[r] = "approved"
    /\ \A q \in spent : scope[q] # scope[r]
    /\ spent' = spent \cup {r}
    /\ UNCHANGED <<decision, scope>>

Next == \E r \in Req : Decide(r) \/ Spend(r)

Spec == Init /\ [][Next]_vars
=============================================================================
