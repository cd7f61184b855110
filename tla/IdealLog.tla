------------------------------ MODULE IdealLog ------------------------------
(***************************************************************************)
(* What the wallet journal promises the wallet service: a history that     *)
(* only grows, and only at its end; reservations that are taken once and   *)
(* never change hands; and an append that resolves only when its entry,    *)
(* and the reservation it asked for, are both there to stay.               *)
(***************************************************************************)
EXTENDS Naturals

CONSTANTS
    Intent,     \* intents the entries are about
    Key,        \* idempotency keys
    KeyOf,      \* the key an intent reserves, or None
    None

VARIABLES
    log,        \* entries that readers can find
    held,       \* key -> the intent that reserved it, or None
    told        \* entries whose append has resolved

vars == <<log, held, told>>

Init ==
    /\ log = {}
    /\ held = [k \in Key |-> None]
    /\ told = {}

Write ==
    /\ \E e \in log' :
          /\ log' = log \cup {e}
          /\ \A old \in log : old.seq < e.seq
    /\ UNCHANGED <<held, told>>

Reserve(i) ==
    /\ KeyOf[i] # None /\ held[KeyOf[i]] = None
    /\ \E e \in log : e.intent = i
    /\ held' = [held EXCEPT ![KeyOf[i]] = i]
    /\ UNCHANGED <<log, told>>

Resolve ==
    /\ \E e \in log :
          /\ KeyOf[e.intent] # None => held[KeyOf[e.intent]] = e.intent
          /\ told' = told \cup {e}
    /\ UNCHANGED <<log, held>>

Next == Write \/ (\E i \in Intent : Reserve(i)) \/ Resolve

Spec == Init /\ [][Next]_vars
=============================================================================
