--------------------------- MODULE WalletConsent ---------------------------
(***************************************************************************)
(* The consent broker composed with the wallet service: the loopback       *)
(* bridge parks each prompt the service opens, the browser chrome answers  *)
(* it, and the broker's timer answers for a user who does not.  Connect    *)
(* prompts are parked before the service has heard of them.                *)
(*                                                                         *)
(* Code: src/backend/wallet/wallet-consent.cjs, the wallet routes of       *)
(* src/backend/http-bridge.js and the chrome commands of                   *)
(* src/backend/index.js.  A broker call and the synchronous part of the    *)
(* service call it makes are one action, as they are in the code.          *)
(***************************************************************************)
EXTENDS WalletService, FiniteSets

CONSTANT MaxAsking   \* a bound on the connect prompts parked at a time

ASSUME ConsentAssumption == MaxAsking \in Nat

VARIABLES
    parked,    \* value prompts waiting for the chrome
    asking,    \* parked connect prompts, as <<tuple, manifest>>
    owed,      \* value prompts whose page call has not been answered
    clicked    \* history: prompts the user approved in time

brokerVars == <<parked, asking, owed, clicked>>
consentVars == <<vars, brokerVars>>

ConsentTypeOK ==
    /\ TypeOK
    /\ parked \in SUBSET Req
    /\ asking \in SUBSET (Tuple \X Manifest)
    /\ owed \in SUBSET Req
    /\ clicked \in SUBSET Req

ConsentInit ==
    /\ Init
    /\ parked = {}
    /\ asking = {}
    /\ owed = {}
    /\ clicked = {}

\* Prompts a step of the service hands to the bridge: the one it opens, and
\* the live one a replaying call found.
Shown ==
    ({pending'} \ {pending, None}) \cup
    {p \in {pending} \ {None} : \E r \in Req :
        /\ pc[r] = "lookup" /\ pc'[r] = "idle"
        /\ Holder(r) = p /\ BodyOf[p] = BodyOf[r]}

\* resolvePrompt() has returned or thrown: the intent is done, and no append
\* of its own is waited for.
Finished ==
    {r \in Req \ parked :
        /\ pc[r] = "done"
        /\ \A i \in DOMAIN jq : jq[i].id = r => jq[i].by \in Req}

\* The bridge parks what the service returned; a prompt already parked is
\* refused with wallet-busy and stays parked once.  The page call of a prompt
\* taken from the broker is answered when the service is finished with it.
Bridged ==
    /\ parked' = parked \cup Shown
    /\ owed' = (owed \cup Shown) \ Finished'
    /\ UNCHANGED <<asking, clicked>>

ServiceStep == InternalStep /\ Bridged

\* POST /connect on an unlocked wallet parks a connect prompt.
AskConnect(t, m) ==
    /\ engine = "ready" /\ Cardinality(asking) < MaxAsking
    /\ asking' = asking \cup {<<t, m>>}
    /\ UNCHANGED <<vars, parked, owed, clicked>>

\* Bug: an error the service throws is not passed on to the page.
KeepsOwing(r) == UNCHANGED owed

\* The promise the page call waits for is settled.
Answers(r) == owed' = owed \ {r}

\* service.resolvePrompt(): throws without effect for a prompt that is not
\* pending, or on a wallet that is not unlocked, and the call is answered.
CallResolve(r, approved) ==
    \/ ResolvePrompt(r, approved) /\ UNCHANGED owed
    \/ /\ ~(engine = "ready" /\ pending = r)
       /\ Answers(r)
       /\ UNCHANGED vars

\* CMD_WALLET_PAYMENT_RESOLVE.  Past the prompt's expiry the call is refused
\* and the service is not told.
BrokerResolve(r, approved) ==
    /\ r \in parked
    /\ parked' = parked \ {r}
    /\ UNCHANGED asking
    /\ \/ /\ slot = r => ~late
          /\ CallResolve(r, approved)
          /\ clicked' = IF approved THEN clicked \cup {r} ELSE clicked
       \/ /\ slot = r => late
          /\ Answers(r)
          /\ UNCHANGED <<vars, clicked>>

\* Bug: the timeout answers for the user with an approval.
TimeoutApproves == TRUE

\* The answer the broker gives for a user who gave none.
TimeoutAnswer == FALSE

\* The broker's timer: the prompt is refused on the user's behalf.
BrokerTimeout(r) ==
    /\ r \in parked
    /\ parked' = parked \ {r}
    /\ CallResolve(r, TimeoutAnswer)
    /\ UNCHANGED <<asking, clicked>>

\* CMD_WALLET_CONNECT_RESOLVE, approved; refused and timed-out connect
\* prompts are only dropped.
ConnectResolve(t, m) ==
    /\ <<t, m>> \in asking
    /\ asking' = asking \ {<<t, m>>}
    /\ \/ Connect(t, m)
       \/ UNCHANGED vars
    /\ UNCHANGED <<parked, owed, clicked>>

\* CMD_WALLET_LOCK and shutdown: every parked prompt is rejected, then the
\* service is locked.
ChromeLock ==
    /\ parked' = {} /\ asking' = {}
    /\ owed' = owed \ parked
    /\ Lock
    /\ UNCHANGED clicked

ConsentCrash ==
    /\ parked' = {} /\ asking' = {} /\ owed' = {}
    /\ Crash
    /\ UNCHANGED clicked

ConsentNext ==
    \/ ServiceStep
    \/ \E t \in Tuple, m \in Manifest : AskConnect(t, m) \/ ConnectResolve(t, m)
    \/ \E r \in Req, approved \in BOOLEAN : BrokerResolve(r, approved)
    \/ \E r \in Req : BrokerTimeout(r)
    \/ ChromeLock
    \/ ConsentCrash

ConsentSpec == ConsentInit /\ [][ConsentNext]_consentVars

\* Queued appends settle, the transport rejects the requests of a worklet that
\* has exited, and the broker's timers run out.  Nothing is assumed of the
\* user, of a worklet's answer or exit, of the network, nor of the idle timer,
\* which activity puts off.
ConsentFairness ==
    /\ WF_consentVars(JournalStep /\ Bridged)
    /\ \A r \in Req :
          /\ WF_consentVars(op[r] = "dead" /\ OpFails(r) /\ Bridged)
          /\ WF_consentVars(BrokerTimeout(r))

FairConsentSpec == ConsentSpec /\ ConsentFairness
-----------------------------------------------------------------------------
\* Only a click spends: no timer, retry, replay, lock or restart ever stands
\* in for the user's approval of that very prompt.
SpendWasClicked == sent \subseteq clicked

\* The one prompt slot of the wallet comes free again and again without the
\* user's help, but for a prompt answered after its expiry: the broker drops it
\* without telling the service, although its timer would release the prompt
\* (wallet-consent.cjs:147-149, 177-181); and for one that a fault of the engine
\* leaves open: resolvePrompt() refuses before it releases, and only lock()
\* drops the prompt.
ConsentFreesSlot ==
    \A r \in Req :
        []<>(slot # r \/ (late /\ r \notin parked) \/ engine = "faulted")

\* The engine request of a call is with a worklet that need not answer it, or
\* was posted to one that had exited: an operation has no timer of its own
\* (wdk-engine.cjs:748-770, wdk-bare-transport.cjs:63-69).
WithWorklet(r) == op[r] \in {"run", "stale", "lost"}

\* A page call that waits for consent or for its settlement is answered again
\* and again, unless it hangs for ever in an engine request nobody answers:
\* no click, timeout, refusal, lock or failing append, in whatever order,
\* leaves the page waiting otherwise.
PageAnswered ==
    \A r \in Req : []<>(r \notin owed) \/ <>[]WithWorklet(r)
=============================================================================
