--------------------------- MODULE WalletService ---------------------------
(***************************************************************************)
(* The wallet service of the browser backend: page requests open a single  *)
(* consent prompt, the browser chrome resolves it, an approved payment is  *)
(* prepared, signed and broadcast by the WDK engine, and every decision is *)
(* written to a serialized append-only journal.  Lock, disconnect,         *)
(* auto-lock and a crash can fall between any two steps.                   *)
(*                                                                         *)
(* Code: src/backend/wallet/wallet-service.cjs with the policy             *)
(* (wallet-policy.cjs) and the connection table (wallet-connections.cjs)   *)
(* it owns.  The journal is its promise-chain queue `jq' (one append at a  *)
(* time; WalletJournal.tla has the puts inside an append) and the engine   *)
(* is its life-cycle state seen from the service, together with the one    *)
(* worklet that serves the open wallet (WdkEngine.tla has the worklets     *)
(* underneath).  The network takes a raw transaction in its own time.      *)
(*                                                                         *)
(* One element of Req is one call of requestPayment or signAppPayload and  *)
(* the intent it may create.  A call refused before it has written         *)
(* anything leaves no trace, so it returns to "idle" and may be made       *)
(* again.  A run of code without an await is one action.                   *)
(***************************************************************************)
EXTENDS Naturals, Sequences

CONSTANTS
    Req,          \* calls of requestPayment / signAppPayload (intent ids)
    Payments,     \* those that are requestPayment calls
    Tuple,        \* connection tuples (session, tab, drive)
    Drive,        \* drive keys
    Manifest,     \* manifest fingerprints
    Key,          \* idempotency keys
    Body,         \* request fingerprints (recipient, amount, ...)
    TupleOf, KeyOf, BodyOf,   \* the arguments of each call
    DriveOf,      \* the drive of a tuple
    PrepareLimit, PaymentLimit,   \* policy limits per drive and window
    None

ASSUME WalletAssumption ==
    /\ Payments \subseteq Req
    /\ None \notin Req \cup Manifest
    /\ {"call", "lock", "none"} \cap Req = {}
    /\ TupleOf \in [Req -> Tuple]
    /\ KeyOf \in [Req -> Key]
    /\ BodyOf \in [Req -> Body]
    /\ DriveOf \in [Tuple -> Drive]
    /\ PrepareLimit \in Nat \ {0}
    /\ PaymentLimit \in Nat \ {0}

VARIABLES
    engine,      \* life-cycle state of the WDK engine; "faulted" also stands
                 \* for a state set back to locked when a restart is required
    worklet,     \* the open wallet's worklet has not exited
    unlocking,   \* unlock() waits for the engine's getAddress
    autolock,    \* the idle timer is armed
    connected,   \* tuple -> manifest of its connection, or None
    slot,        \* WalletPolicy._prompt: holder of the one prompt slot
    late,        \* the clock has passed the slot's expiresAt
    pending,     \* WalletService._pending
    pc,          \* where each call, then its intent, stands
    bound,       \* manifest the call was made under
    op,          \* engine operation in flight for the call
    nonce,       \* account nonce read by prepareTransfer
    sent,        \* intents whose raw transaction the worklet has sent
    onChain,     \* intents whose transaction the chain accepted
    chainNonce,  \* the account's next nonce on chain
    jq,          \* appends queued on the journal's promise chain
    log,         \* durable journal entries of each intent, in seq order
    reserved,    \* durable idempotency reservations
    preps, pays  \* live rate-limit stamps per drive

engineVars == <<engine, unlocking, autolock>>
promptVars == <<slot, late, pending>>
chainVars == <<worklet, op, nonce, sent, onChain, chainNonce>>
journalVars == <<jq, log, reserved>>
rateVars == <<preps, pays>>
vars == <<engineVars, connected, promptVars, pc, bound, chainVars,
          journalVars, rateVars>>

EngineStates == {"locked", "initializing", "ready", "locking", "faulted"}
Phases == {"idle", "lookup", "reading", "closing", "quote", "intent", "prompt",
           "open", "approving", "prepare", "sign", "broadcast",
           "signapp", "attesting", "recording", "reporting", "failing", "done"}
OpPhases == {"prepare", "sign", "broadcast", "signapp"}

\* What has become of the engine operation of a call: its worklet works on it,
\* works on it for an engine that will refuse the answer, has exited and the
\* request is being rejected, or had exited before the request was posted.
OpStates == {"none", "run", "stale", "dead", "lost"}
EntryTypes == {"intent", "prompt", "approval", "rejection", "broadcast",
               "submitted", "failed", "cancelled", "expired", "sign-app"}

\* A queued append; `by' says what runs when it settles: the intent's own
\* call, the lock() that cancelled the prompt, the replaying call that closed
\* the intent, or nothing.
Appends == [id : Req, type : EntryTypes,
            by : {"call", "lock", "none"} \cup Req]
Entry(r, type, by) == [id |-> r, type |-> type, by |-> by]

Slots == Drive \X Manifest \X Key
DriveFor(r) == DriveOf[TupleOf[r]]
ReservationKey(r) == <<DriveFor(r), bound[r], KeyOf[r]>>
Holder(r) == reserved[ReservationKey(r)]

InLog(r, type) == \E i \in DOMAIN log[r] : log[r][i] = type

TypeOK ==
    /\ engine \in EngineStates
    /\ unlocking \in BOOLEAN
    /\ autolock \in BOOLEAN
    /\ connected \in [Tuple -> Manifest \cup {None}]
    /\ slot \in Req \cup {None}
    /\ late \in BOOLEAN
    /\ pending \in Req \cup {None}
    /\ pc \in [Req -> Phases]
    /\ bound \in [Req -> Manifest \cup {None}]
    /\ worklet \in BOOLEAN
    /\ op \in [Req -> OpStates]
    /\ nonce \in [Req -> Nat]
    /\ sent \in SUBSET Req
    /\ onChain \in SUBSET Req
    /\ chainNonce \in Nat
    /\ jq \in Seq(Appends)
    /\ log \in [Req -> Seq(EntryTypes)]
    /\ reserved \in [Slots -> Req \cup {None}]
    /\ preps \in [Drive -> Nat]
    /\ pays \in [Drive -> Nat]

Init ==
    /\ engine = "locked"
    /\ unlocking = FALSE
    /\ autolock = FALSE
    /\ connected = [t \in Tuple |-> None]
    /\ slot = None
    /\ late = FALSE
    /\ pending = None
    /\ pc = [r \in Req |-> "idle"]
    /\ bound = [r \in Req |-> None]
    /\ worklet = FALSE
    /\ op = [r \in Req |-> "none"]
    /\ nonce = [r \in Req |-> 0]
    /\ sent = {}
    /\ onChain = {}
    /\ chainNonce = 0
    /\ jq = <<>>
    /\ log = [r \in Req |-> <<>>]
    /\ reserved = [s \in Slots |-> None]
    /\ preps = [d \in Drive |-> 0]
    /\ pays = [d \in Drive |-> 0]
-----------------------------------------------------------------------------
(* Unlock, lock and the idle timer.                                        *)

\* _unlock() hands the seed to engine.initialize(); unlocks are serialized.
UnlockStart ==
    /\ engine = "locked" /\ ~unlocking
    /\ engine' = "initializing"
    /\ UNCHANGED <<unlocking, autolock, connected, promptVars, pc, bound,
                   chainVars, journalVars, rateVars>>

\* initialize() settles: the engine is ready and unlock() asks for the
\* address, or it failed and the worklet is gone (or could not be ended).
UnlockSettles ==
    /\ engine = "initializing"
    /\ \/ engine' = "ready" /\ unlocking' = TRUE /\ worklet' = TRUE
       \/ engine' \in {"locked", "faulted"} /\ UNCHANGED <<unlocking, worklet>>
    /\ UNCHANGED <<autolock, connected, promptVars, pc, bound, op, nonce, sent,
                   onChain, chainNonce, journalVars, rateVars>>

\* getAddress answers; only then is the idle timer armed.  A failure, and a
\* lock in between, make unlock() throw with the timer untouched.
AddressRead ==
    /\ unlocking
    /\ unlocking' = FALSE
    /\ \/ engine = "ready" /\ autolock' = TRUE
       \/ UNCHANGED autolock
    /\ UNCHANGED <<engine, connected, promptVars, pc, bound, chainVars,
                   journalVars, rateVars>>

\* Bug: a prompt's slot is not given back.
KeepSlot(r) == UNCHANGED <<slot, late>>

\* releasePrompt(): only the holder's release has an effect.
ReleaseSlot(r) ==
    IF slot = r THEN slot' = None /\ late' = FALSE ELSE UNCHANGED <<slot, late>>

\* Bug: the prompt is answered but stays pending.
KeepPending(r) == UNCHANGED promptVars

\* The pending prompt is dropped before anything is decided about it.
Consume(r) == pending' = None /\ ReleaseSlot(r)

\* The operations in flight when the engine leaves "ready".
Outdated == [r \in Req |-> IF op[r] = "run" THEN "stale" ELSE op[r]]

\* connections.revokeAll() and the synchronous part of engine.lock(): the
\* life-cycle epoch moves on, so the answer of an operation in flight will
\* be refused although its worklet still runs.
Seal ==
    /\ connected' = [t \in Tuple |-> None]
    /\ engine' = IF engine \in {"ready", "initializing"} THEN "locking"
                 ELSE engine
    /\ op' = Outdated

\* lock(): a live prompt is dropped and its cancellation journaled before
\* the connections and the engine are sealed.
Lock ==
    /\ autolock' = FALSE
    /\ \/ /\ pending # None
          /\ Consume(pending)
          /\ pc' = [pc EXCEPT ![pending] = "done"]
          /\ jq' = Append(jq, Entry(pending, "cancelled", "lock"))
          /\ UNCHANGED <<engine, connected, op>>
       \/ /\ pending = None
          /\ Seal
          /\ UNCHANGED <<promptVars, pc, jq>>
    /\ UNCHANGED <<unlocking, bound, worklet, nonce, sent, onChain,
                   chainNonce, log, reserved, rateVars>>

AutoLock == autolock /\ Lock

\* Bug: the state is set to locked before the worklet's termination settles.
NotAwaited == TRUE

\* terminate() resolves when the worklet has exited.
Terminated == ~worklet

\* The worklet has been terminated, or its termination timed out and the
\* engine is unusable until the process restarts.
EngineLocked ==
    /\ engine = "locking"
    /\ \/ Terminated /\ engine' = "locked"
       \/ engine' = "faulted"
    /\ UNCHANGED <<unlocking, autolock, connected, promptVars, pc, bound,
                   chainVars, journalVars, rateVars>>

\* A ceremony that failed to begin was forgotten, and the termination of its
\* worklet is not confirmed: the engine is unusable in whatever state it has
\* reached.  Its prompt and an open wallet's worklet are left as they are.
EngineFaults ==
    /\ engine # "faulted"
    /\ engine' = "faulted"
    /\ op' = Outdated
    /\ UNCHANGED <<unlocking, autolock, connected, promptVars, pc, bound,
                   worklet, nonce, sent, onChain, chainNonce, journalVars,
                   rateVars>>

\* The wallet's worklet exits, terminated or not; the requests pending in the
\* transport are rejected.
WorkletExits ==
    /\ worklet
    /\ worklet' = FALSE
    /\ op' = [r \in Req |-> IF op[r] \in {"run", "stale"} THEN "dead"
                             ELSE op[r]]
    /\ unlocking' = FALSE
    /\ UNCHANGED <<engine, autolock, connected, promptVars, pc, bound, nonce,
                   sent, onChain, chainNonce, journalVars, rateVars>>
-----------------------------------------------------------------------------
(* Connections.                                                            *)

\* connect(): idempotent for the same manifest, otherwise the record is
\* replaced; a prompt opened under the old record is left alone.
Connect(t, m) ==
    /\ engine = "ready"
    /\ connected' = [connected EXCEPT ![t] = m]
    /\ autolock' = TRUE
    /\ UNCHANGED <<engine, unlocking, promptVars, pc, bound, chainVars,
                   journalVars, rateVars>>

\* disconnect() by the page and revokeConnection() by the chrome.
Disconnect(t) ==
    /\ connected[t] # None
    /\ connected' = [connected EXCEPT ![t] = None]
    /\ \/ /\ pending # None /\ TupleOf[pending] = t
          /\ Consume(pending)
          /\ pc' = [pc EXCEPT ![pending] = "done"]
          /\ jq' = Append(jq, Entry(pending, "cancelled", "none"))
       \/ /\ ~(pending # None /\ TupleOf[pending] = t)
          /\ UNCHANGED <<promptVars, pc, jq>>
    /\ UNCHANGED <<engineVars, bound, chainVars, log, reserved, rateVars>>
-----------------------------------------------------------------------------
(* A page call up to its open prompt.                                      *)

\* requestPayment() up to the reservation lookup.
RequestPayment(r) ==
    /\ r \in Payments /\ pc[r] = "idle"
    /\ engine = "ready"
    /\ connected[TupleOf[r]] # None
    /\ bound' = [bound EXCEPT ![r] = connected[TupleOf[r]]]
    /\ pc' = [pc EXCEPT ![r] = "lookup"]
    /\ UNCHANGED <<engineVars, connected, promptVars, chainVars, journalVars,
                   rateVars>>

\* _idempotentReplay(): no reservation, a conflicting one, the live prompt,
\* or an intent whose state must be read from the journal.
Lookup(r) ==
    /\ pc[r] = "lookup"
    /\ \/ /\ Holder(r) = None
          /\ pc' = [pc EXCEPT ![r] = "quote"]
          /\ UNCHANGED bound
       \/ /\ Holder(r) # None
          /\ BodyOf[Holder(r)] # BodyOf[r] \/ pending = Holder(r)
          /\ pc' = [pc EXCEPT ![r] = "idle"]
          /\ bound' = [bound EXCEPT ![r] = None]
       \/ /\ Holder(r) # None
          /\ BodyOf[Holder(r)] = BodyOf[r] /\ pending # Holder(r)
          /\ pc' = [pc EXCEPT ![r] = "reading"]
          /\ UNCHANGED bound
    /\ UNCHANGED <<engineVars, connected, promptVars, chainVars, journalVars,
                   rateVars>>

\* What the journal says of an intent: the last entry that carries a verdict.
Verdicts == {"rejection", "broadcast", "submitted", "failed", "cancelled",
             "expired"}
IsVerdict(type) == type \in Verdicts
Reported(r) ==
    LET seen == SelectSeq(log[r], IsVerdict)
    IN  IF seen = <<>> THEN "none" ELSE seen[Len(seen)]

\* _intentCurrentState() of the reserved intent: one with no verdict and no
\* approval is taken for a prompt lost in a restart and closed as expired.
ReadState(r) ==
    /\ pc[r] = "reading"
    /\ IF Reported(Holder(r)) = "none" /\ ~InLog(Holder(r), "approval")
       THEN /\ jq' = Append(jq, Entry(Holder(r), "expired", r))
            /\ pc' = [pc EXCEPT ![r] = "closing"]
            /\ UNCHANGED bound
       ELSE /\ pc' = [pc EXCEPT ![r] = "idle"]
            /\ bound' = [bound EXCEPT ![r] = None]
            /\ UNCHANGED jq
    /\ UNCHANGED <<engineVars, connected, promptVars, chainVars, log,
                   reserved, rateVars>>

\* Bug: the prompt slot is taken without asking whether it is free.
CanOpenIgnoringSlot(r) ==
    /\ connected[TupleOf[r]] # None
    /\ preps[DriveFor(r)] < PrepareLimit

\* assertConnected(), checkPrepare() and acquirePrompt() all pass.
CanOpen(r) ==
    /\ connected[TupleOf[r]] # None
    /\ preps[DriveFor(r)] < PrepareLimit
    /\ slot = None

\* _openPrompt() up to its first await.
OpenPrompt(r) ==
    /\ CanOpen(r)
    /\ slot' = r
    /\ late' = FALSE
    /\ pc' = [pc EXCEPT ![r] = "intent"]
    /\ jq' = Append(jq, Entry(r, "intent", "call"))
    /\ UNCHANGED <<engineVars, connected, pending, chainVars, log, reserved,
                   rateVars>>

\* The best-effort fee quote settles; a fee over the ceiling refuses.
Quote(r) ==
    /\ pc[r] = "quote"
    /\ \/ OpenPrompt(r) /\ UNCHANGED bound
       \/ /\ pc' = [pc EXCEPT ![r] = "idle"]
          /\ bound' = [bound EXCEPT ![r] = None]
          /\ UNCHANGED <<engineVars, connected, promptVars, chainVars,
                         journalVars, rateVars>>

RequestSignature(r) ==
    /\ r \in Req \ Payments /\ pc[r] = "idle"
    /\ engine = "ready"
    /\ bound' = [bound EXCEPT ![r] = connected[TupleOf[r]]]
    /\ OpenPrompt(r)

\* The append at the head of the queue settles: durable (ok) or failed.
Settles(r, type, by, ok) ==
    /\ jq # <<>>
    /\ Head(jq) = Entry(r, type, by)
    /\ log' = IF ok THEN [log EXCEPT ![r] = Append(@, type)] ELSE log

\* The replaying call has closed the intent and returns.
ClosureSettles(r, ok) ==
    /\ pc[r] = "closing"
    /\ Settles(Holder(r), "expired", r, ok)
    /\ jq' = Tail(jq)
    /\ pc' = [pc EXCEPT ![r] = "idle"]
    /\ bound' = [bound EXCEPT ![r] = None]
    /\ UNCHANGED <<engineVars, connected, promptVars, chainVars, reserved,
                   rateVars>>

\* Bug: the reservation is not looked up again inside the append.
KeyNotChecked(r) == FALSE

\* The reservation check inside the serialized append.
KeyTaken(r) == r \in Payments /\ Holder(r) # None

\* The intent append, with the reservation inside it: a key reserved
\* meanwhile fails the append before anything is written.
IntentSettles(r, ok) ==
    /\ pc[r] = "intent"
    /\ Settles(r, "intent", "call", ok /\ ~KeyTaken(r))
    /\ IF ok /\ ~KeyTaken(r)
       THEN /\ pc' = [pc EXCEPT ![r] = "prompt"]
            /\ jq' = Append(Tail(jq), Entry(r, "prompt", "call"))
            /\ reserved' = IF r \in Payments
                           THEN [reserved EXCEPT ![ReservationKey(r)] = r]
                           ELSE reserved
            /\ UNCHANGED <<slot, late, bound>>
       ELSE /\ ReleaseSlot(r)
            /\ pc' = [pc EXCEPT ![r] = IF ok THEN "lookup" ELSE "idle"]
            /\ bound' = IF ok THEN bound ELSE [bound EXCEPT ![r] = None]
            /\ jq' = Tail(jq)
            /\ UNCHANGED reserved
    /\ UNCHANGED <<engineVars, connected, pending, chainVars, rateVars>>

\* Bug: wallet and connection are not looked at again.
NotRechecked(r) == TRUE

\* _requireUnlocked() and assertConnected() after the journal awaits.
StillValid(r) == engine = "ready" /\ connected[TupleOf[r]] # None

\* The prompt append; the wallet and the connection are checked again before
\* the prompt becomes visible, else the intent is cancelled.
PromptSettles(r, ok) ==
    /\ pc[r] = "prompt"
    /\ Settles(r, "prompt", "call", ok)
    /\ IF ok /\ StillValid(r)
       THEN /\ pending' = r
            /\ pc' = [pc EXCEPT ![r] = "open"]
            /\ preps' = [preps EXCEPT ![DriveFor(r)] = @ + 1]
            /\ autolock' = TRUE
            /\ jq' = Tail(jq)
            /\ UNCHANGED <<slot, late>>
       ELSE /\ ReleaseSlot(r)
            /\ pc' = [pc EXCEPT ![r] = "done"]
            /\ jq' = Append(Tail(jq), Entry(r, "cancelled", "none"))
            /\ UNCHANGED <<pending, preps, autolock>>
    /\ UNCHANGED <<engine, unlocking, connected, bound, chainVars, reserved,
                   pays>>
-----------------------------------------------------------------------------
(* The decision and the settlement.                                        *)

\* resolvePrompt(): one shot; the prompt is consumed before anything else.
ResolvePrompt(r, approved) ==
    /\ engine = "ready"
    /\ pending = r
    /\ Consume(r)
    /\ LET refused == \/ late
                      \/ connected[TupleOf[r]] = None
                      \/ ~approved
           why == IF late THEN "expired"
                  ELSE IF connected[TupleOf[r]] = None THEN "cancelled"
                  ELSE "rejection"
       IN  /\ pc' = [pc EXCEPT ![r] = IF refused THEN "done"
                                      ELSE "approving"]
           /\ jq' = Append(jq, IF refused THEN Entry(r, why, "none")
                               ELSE Entry(r, "approval", "call"))
    /\ UNCHANGED <<engineVars, connected, bound, chainVars, log, reserved,
                   rateVars>>

\* Hand the intent's operation to the engine, which refuses when not ready and
\* does not know of a worklet's exit: no exit follows that would reject a
\* request posted to one that is gone.  (queue is the journal queue the step
\* would otherwise leave.)
StartOp(r, phase, queue) ==
    IF engine = "ready"
    THEN /\ pc' = [pc EXCEPT ![r] = phase]
         /\ op' = [op EXCEPT ![r] = IF worklet THEN "run" ELSE "lost"]
         /\ jq' = queue
    ELSE /\ pc' = [pc EXCEPT ![r] = "failing"]
         /\ op' = [op EXCEPT ![r] = "none"]
         /\ jq' = Append(queue, Entry(r, "failed", "call"))

\* Bug: a failed approval append is swallowed like an outcome's.
ProceedsUnrecorded(r, ok) ==
    r \in Payments => pays[DriveFor(r)] < PaymentLimit

\* The settlement goes on after the approval append and checkPayment().
Proceeds(r, ok) ==
    ok /\ (r \in Payments => pays[DriveFor(r)] < PaymentLimit)

\* The approval is durable, or its append failed and resolvePrompt() throws.
\* checkPayment() throws outside the settlement's try block.
ApprovalSettles(r, ok) ==
    /\ pc[r] = "approving"
    /\ Settles(r, "approval", "call", ok)
    /\ IF Proceeds(r, ok)
       THEN StartOp(r, IF r \in Payments THEN "prepare" ELSE "signapp",
                    Tail(jq))
       ELSE /\ pc' = [pc EXCEPT ![r] = "done"]
            /\ jq' = Tail(jq)
            /\ UNCHANGED op
    /\ autolock' = (autolock \/ (ok /\ engine = "ready"))
    /\ UNCHANGED <<engine, unlocking, connected, promptVars, bound, worklet,
                   nonce, sent, onChain, chainNonce, reserved, rateVars>>

\* prepareTransfer: the worklet reads the account's pending nonce.
Prepared(r) ==
    /\ pc[r] = "prepare" /\ op[r] = "run"
    /\ nonce' = [nonce EXCEPT ![r] = chainNonce]
    /\ pc' = [pc EXCEPT ![r] = "sign"]
    /\ UNCHANGED <<engineVars, connected, promptVars, bound, worklet, op, sent,
                   onChain, chainNonce, journalVars, rateVars>>

Signed(r) ==
    /\ pc[r] = "sign" /\ op[r] = "run"
    /\ pc' = [pc EXCEPT ![r] = "broadcast"]
    /\ UNCHANGED <<engineVars, connected, promptVars, bound, chainVars,
                   journalVars, rateVars>>

\* The worklet sends the raw transaction, for an engine locked meanwhile too
\* as long as it has not exited.
Sends(r) ==
    /\ pc[r] = "broadcast" /\ op[r] \in {"run", "stale"}
    /\ r \notin sent
    /\ sent' = sent \cup {r}
    /\ UNCHANGED <<engineVars, connected, promptVars, pc, bound, worklet, op,
                   nonce, onChain, chainNonce, journalVars, rateVars>>

\* The network takes a raw transaction it was sent, whatever has become of the
\* operation, the worklet, the engine or the process since.
Accepted(r) ==
    /\ r \in sent \ onChain
    /\ nonce[r] = chainNonce
    /\ onChain' = onChain \cup {r}
    /\ chainNonce' = chainNonce + 1
    /\ UNCHANGED <<engineVars, connected, promptVars, pc, bound, worklet, op,
                   nonce, sent, journalVars, rateVars>>

\* Bug: the broadcast is taken for done when it is asked for.
AnsweredEarly(r) == r \in sent

\* The worklet has the network's answer to the broadcast.
Answered(r) == r \in onChain

\* broadcastSigned answers under the epoch it was called in.
Broadcast(r) ==
    /\ pc[r] = "broadcast" /\ op[r] = "run"
    /\ Answered(r)
    /\ op' = [op EXCEPT ![r] = "none"]
    /\ pc' = [pc EXCEPT ![r] = "recording"]
    /\ jq' = Append(jq, Entry(r, "broadcast", "call"))
    /\ UNCHANGED <<engineVars, connected, promptVars, bound, worklet, nonce,
                   sent, onChain, chainNonce, log, reserved, rateVars>>

\* Bug: the requests pending in a worklet that exits are not rejected.
MayFailWhileRunning(r) == pc[r] \in OpPhases /\ op[r] = "run"

\* Whatever its worklet does, an operation in flight can fail.
MayFail(r) == pc[r] \in OpPhases

\* An operation fails: the RPC or the policy refuses, the epoch has moved
\* on, or the worklet is gone.  The settlement journals an error outcome.
OpFails(r) ==
    /\ MayFail(r)
    /\ op' = [op EXCEPT ![r] = "none"]
    /\ pc' = [pc EXCEPT ![r] = "failing"]
    /\ jq' = Append(jq, Entry(r, "failed", "call"))
    /\ UNCHANGED <<engineVars, connected, promptVars, bound, worklet, nonce,
                   sent, onChain, chainNonce, log, reserved, rateVars>>

FailureSettles(r, ok) ==
    /\ pc[r] = "failing"
    /\ Settles(r, "failed", "call", ok)
    /\ jq' = Tail(jq)
    /\ pc' = [pc EXCEPT ![r] = "done"]
    /\ UNCHANGED <<engineVars, connected, promptVars, bound, chainVars,
                   reserved, rateVars>>

\* recordPayment() and the timer refresh at the end of a settled payment.
PaymentSettled(r) ==
    /\ pc' = [pc EXCEPT ![r] = "done"]
    /\ pays' = [pays EXCEPT ![DriveFor(r)] = @ + 1]
    /\ autolock' = (autolock \/ engine = "ready")
    /\ jq' = Tail(jq)

BroadcastSettles(r, ok) ==
    /\ pc[r] = "recording"
    /\ Settles(r, "broadcast", "call", ok)
    /\ IF ok
       THEN /\ pc' = [pc EXCEPT ![r] = "reporting"]
            /\ jq' = Append(Tail(jq), Entry(r, "submitted", "call"))
            /\ UNCHANGED <<pays, autolock>>
       ELSE PaymentSettled(r)
    /\ UNCHANGED <<engine, unlocking, connected, promptVars, bound,
                   chainVars, reserved, preps>>

SubmissionSettles(r, ok) ==
    /\ pc[r] = "reporting"
    /\ Settles(r, "submitted", "call", ok)
    /\ PaymentSettled(r)
    /\ UNCHANGED <<engine, unlocking, connected, promptVars, bound,
                   chainVars, reserved, preps>>

\* signAppPayload answers; the signature is journaled before it is returned.
AppSigned(r) ==
    /\ pc[r] = "signapp" /\ op[r] = "run"
    /\ op' = [op EXCEPT ![r] = "none"]
    /\ pc' = [pc EXCEPT ![r] = "attesting"]
    /\ jq' = Append(jq, Entry(r, "sign-app", "call"))
    /\ UNCHANGED <<engineVars, connected, promptVars, bound, worklet, nonce,
                   sent, onChain, chainNonce, log, reserved, rateVars>>

AttestationSettles(r, ok) ==
    /\ pc[r] = "attesting"
    /\ Settles(r, "sign-app", "call", ok)
    /\ IF ok
       THEN /\ pc' = [pc EXCEPT ![r] = "done"]
            /\ jq' = Tail(jq)
            /\ autolock' = (autolock \/ engine = "ready")
       ELSE /\ pc' = [pc EXCEPT ![r] = "failing"]
            /\ jq' = Append(Tail(jq), Entry(r, "failed", "call"))
            /\ UNCHANGED autolock
    /\ UNCHANGED <<engine, unlocking, connected, promptVars, bound,
                   chainVars, reserved, rateVars>>
-----------------------------------------------------------------------------
(* Outcome appends nobody waits for, and the one lock() waits for.         *)

OutcomeSettles(ok) ==
    /\ \E r \in Req, type \in {"rejection", "cancelled", "expired"} :
           Settles(r, type, "none", ok)
    /\ jq' = Tail(jq)
    /\ UNCHANGED <<engineVars, connected, promptVars, pc, bound, chainVars,
                   reserved, rateVars>>

LockSettles(ok) ==
    /\ \E r \in Req : Settles(r, "cancelled", "lock", ok)
    /\ jq' = Tail(jq)
    /\ Seal
    /\ UNCHANGED <<unlocking, autolock, promptVars, pc, bound, worklet, nonce,
                   sent, onChain, chainNonce, reserved, rateVars>>
-----------------------------------------------------------------------------
(* Time and crashes.                                                       *)

\* The clock passes expiresAt of the prompt that holds the slot.
PromptExpires ==
    /\ slot # None /\ ~late
    /\ late' = TRUE
    /\ UNCHANGED <<engineVars, connected, slot, pending, pc, bound,
                   chainVars, journalVars, rateVars>>

HasStamp(stamps, d) == stamps[d] > 0

\* The oldest stamp of a sliding window leaves it (prune).
StampExpires(d) ==
    /\ \/ /\ HasStamp(preps, d)
          /\ preps' = [preps EXCEPT ![d] = @ - 1]
          /\ UNCHANGED pays
       \/ /\ HasStamp(pays, d)
          /\ pays' = [pays EXCEPT ![d] = @ - 1]
          /\ UNCHANGED preps
    /\ UNCHANGED <<engineVars, connected, promptVars, pc, bound, chainVars,
                   journalVars>>

\* The backend process dies: the journal, the chain and what was sent to it
\* survive.  Calls that had journaled nothing can be made again by the page.
Crash ==
    /\ engine' = "locked"
    /\ worklet' = FALSE
    /\ unlocking' = FALSE
    /\ autolock' = FALSE
    /\ connected' = [t \in Tuple |-> None]
    /\ slot' = None
    /\ late' = FALSE
    /\ pending' = None
    /\ pc' = [r \in Req |-> IF log[r] = <<>> THEN "idle" ELSE "done"]
    /\ bound' = [r \in Req |-> IF log[r] = <<>> THEN None ELSE bound[r]]
    /\ op' = [r \in Req |-> "none"]
    /\ jq' = <<>>
    /\ preps' = [d \in Drive |-> 0]
    /\ pays' = [d \in Drive |-> 0]
    /\ UNCHANGED <<nonce, sent, onChain, chainNonce, log, reserved>>
-----------------------------------------------------------------------------
JournalStep ==
    jq # <<>> /\ \E ok \in BOOLEAN :
        \/ OutcomeSettles(ok)
        \/ LockSettles(ok)
        \/ \E r \in Req :
              \/ ClosureSettles(r, ok)
              \/ IntentSettles(r, ok)
              \/ PromptSettles(r, ok)
              \/ ApprovalSettles(r, ok)
              \/ FailureSettles(r, ok)
              \/ BroadcastSettles(r, ok)
              \/ SubmissionSettles(r, ok)
              \/ AttestationSettles(r, ok)

CallStep(r) ==
    \/ RequestPayment(r)
    \/ Lookup(r)
    \/ ReadState(r)
    \/ Quote(r)
    \/ RequestSignature(r)

EngineStep(r) ==
    \/ Prepared(r)
    \/ Signed(r)
    \/ Sends(r)
    \/ Accepted(r)
    \/ Broadcast(r)
    \/ AppSigned(r)
    \/ OpFails(r)

LifecycleStep ==
    \/ UnlockStart
    \/ UnlockSettles
    \/ AddressRead
    \/ AutoLock
    \/ EngineLocked
    \/ EngineFaults
    \/ WorkletExits

\* Everything but the chrome's decisions and commands, which the consent
\* broker issues (WalletConsent.tla).
InternalStep ==
    \/ LifecycleStep
    \/ JournalStep
    \/ \E r \in Req : CallStep(r) \/ EngineStep(r)
    \/ \E t \in Tuple : Disconnect(t)
    \/ PromptExpires
    \/ \E d \in Drive : StampExpires(d)

Next ==
    \/ InternalStep
    \/ \E t \in Tuple, m \in Manifest : Connect(t, m)
    \/ \E r \in Req, approved \in BOOLEAN : ResolvePrompt(r, approved)
    \/ Lock
    \/ Crash

Spec == Init /\ [][Next]_vars

-----------------------------------------------------------------------------
(* Safety.                                                                 *)

\* The policy's slot and the service's prompt agree through every await: the
\* slot is held by exactly the intent being opened or open, and the pending
\* prompt is that intent (_openPrompt, resolvePrompt, lock, _disconnect each
\* update the two in different places).
PromptOwnsSlot ==
    /\ pending # None => slot = pending
    /\ \A r \in Req : pc[r] \in {"intent", "prompt", "open"} <=> slot = r
    /\ \A r \in Req : pc[r] = "open" <=> pending = r

\* A prompt is never open on a wallet that is locked, locking or opening, nor
\* on a revoked connection, although lock() waits for the journal between
\* dropping the prompt and sealing, and _openPrompt() exposes the prompt two
\* awaits after its checks.  (A late ceremony's fault leaves the prompt where
\* it is; resolvePrompt() then refuses.)
NoPromptWhenSealed ==
    \A r \in Req : pending = r =>
        engine \in {"ready", "faulted"} /\ connected[TupleOf[r]] # None

\* Whatever was sent to the network has a durable approval and no durable
\* refusal: the approval append is awaited before the engine is asked to do
\* anything.
SpendIsApproved ==
    \A r \in sent :
        /\ r \in Payments
        /\ InLog(r, "approval")
        /\ ~InLog(r, "rejection") /\ ~InLog(r, "cancelled")

\* An intent whose refusal or cancellation is queued or durable has no
\* settlement under way: the prompt is consumed before either is decided.
RefusedNeverSettles ==
    \A r \in Req :
        \/ InLog(r, "rejection") \/ InLog(r, "cancelled")
        \/ \E i \in DOMAIN jq :
               jq[i].id = r /\ jq[i].type \in {"rejection", "cancelled"}
        => pc[r] = "done" /\ r \notin sent

\* Retries, concurrent calls and restarts spend an idempotency key at most
\* once: two transactions sent were made under different reservations.
OneSpendPerKey ==
    \A r, q \in sent : ReservationKey(r) = ReservationKey(q) => r = q

\* The journal never claims a transaction the chain did not accept.
SubmittedIsOnChain ==
    \A r \in Req :
        InLog(r, "broadcast") \/ InLog(r, "submitted") => r \in onChain

\* checkPrepare() and recordPrepare() are two awaits apart, yet a drive never
\* opens more prompts in a window than its limit: the slot covers the gap.
PrepareLimitKept == \A d \in Drive : preps[d] <= PrepareLimit

\* Nothing is sent for an engine that is locked, or being unlocked again: an
\* operation that was signed before the lock has lost its worklet by then.
\* (The network may still take what was sent before.)
NothingSentWhileLocked ==
    [][sent' # sent => engine \notin {"locked", "initializing"}]_vars

\* A durable approval is followed by the engine work or by nothing; it is
\* never undone by a later refusal, nor granted after one.
Decided(r) ==
    IF InLog(r, "approval") THEN "approved"
    ELSE IF InLog(r, "rejection") \/ InLog(r, "cancelled") THEN "refused"
    ELSE "open"

Ideal == INSTANCE IdealPayment WITH
            Scope <- Slots,
            decision <- [r \in Req |-> Decided(r)],
            scope <- [r \in Req |-> IF Decided(r) = "open" THEN None
                                    ELSE ReservationKey(r)],
            spent <- onChain

\* The service implements the ideal payment: one decision per intent, spends
\* only on approval, one spend per idempotency scope, across crashes.
ImplementsIdeal == Ideal!Spec
-----------------------------------------------------------------------------
(* What the documentation says and the code does not do.                   *)

\* An intent reported failed has not been spent.
FailedIsUnspent ==
    \A r \in Req : Reported(r) = "failed" => r \notin onChain
=============================================================================
