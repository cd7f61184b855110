------------------------ MODULE WalletServiceProofs ------------------------
(***************************************************************************)
(* Proofs about the wallet service (WalletService.tla) and the consent     *)
(* broker over it (WalletConsent.tla), for any number of calls,            *)
(* connections, drives, manifests, keys and any limits.  First the         *)
(* service, then the prompts: when one can be on screen, and that nothing  *)
(* but the user's click on it spends.                                      *)
(***************************************************************************)
EXTENDS Integers, WalletConsent, TLAPS

\* The phases of a call that owns an intent: its intent entry is durable.
Started == {"prompt", "open", "approving", "prepare", "sign", "broadcast",
            "signapp", "attesting", "recording", "reporting", "failing", "done"}

\* A call beyond "idle" knows its manifest; its intent is durable exactly
\* when it is past the intent append; entries nobody's call awaits belong to
\* such intents; so does every reservation, a payment's own one included.
CallShape ==
    /\ \A r \in Req : pc[r] # "idle" => bound[r] \in Manifest
    /\ \A r \in Req : log[r] # <<>> <=> pc[r] \in Started
    /\ \A i \in DOMAIN jq : jq[i].by # "call" => pc[jq[i].id] \in Started
    /\ \A s \in Slots : reserved[s] # None => pc[reserved[s]] \in Started
    /\ \A r \in Req : pc[r] \in {"reading", "closing"} => Holder(r) # None
    /\ \A r \in Payments : pc[r] \in Started => Holder(r) = r
-----------------------------------------------------------------------------
LEMMA QueueAppend ==
    ASSUME NEW S, NEW q \in Seq(S), NEW e \in S
    PROVE  /\ Append(q, e) \in Seq(S)
           /\ Append(q, e) # <<>>
           /\ \A i \in DOMAIN Append(q, e) :
                 \/ i \in DOMAIN q /\ Append(q, e)[i] = q[i]
                 \/ i = Len(q) + 1 /\ Append(q, e)[i] = e
  OBVIOUS

LEMMA QueueTail ==
    ASSUME NEW S, NEW q \in Seq(S), q # <<>>
    PROVE  /\ Tail(q) \in Seq(S)
           /\ Head(q) = q[1] /\ Head(q) \in S /\ 1 \in DOMAIN q
           /\ \A i \in DOMAIN Tail(q) : i + 1 \in DOMAIN q /\ Tail(q)[i] = q[i + 1]
  OBVIOUS

LEMMA QueueElement ==
    ASSUME NEW S, NEW q \in Seq(S), NEW i \in DOMAIN q
    PROVE  q[i] \in S
  OBVIOUS

LEMMA EntryType ==
    ASSUME NEW r \in Req, NEW type \in EntryTypes,
           NEW by \in {"call", "lock", "none"} \cup Req
    PROVE  Entry(r, type, by) \in Appends
  BY DEF Entry, Appends

LEMMA SettlesType ==
    ASSUME TypeOK, NEW r \in Req, NEW type \in EntryTypes,
           NEW by \in {"call", "lock", "none"} \cup Req, NEW ok \in BOOLEAN,
           Settles(r, type, by, ok)
    PROVE  /\ log' \in [Req -> Seq(EntryTypes)]
           /\ jq \in Seq(Appends) /\ jq # <<>> /\ Tail(jq) \in Seq(Appends)
  <1>1. \A s \in Seq(EntryTypes) : Append(s, type) \in Seq(EntryTypes)
    BY QueueAppend
  <1>2. log' \in [Req -> Seq(EntryTypes)]
    BY <1>1 DEF Settles, TypeOK
  <1> QED  BY <1>2, QueueTail DEF Settles, TypeOK

LEMMA Stamped ==
    ASSUME NEW stamps \in [Drive -> Nat], NEW d \in Drive
    PROVE  [stamps EXCEPT ![d] = stamps[d] + 1] \in [Drive -> Nat]
  OBVIOUS

LEMMA DriveType == \A r \in Req : DriveFor(r) \in Drive
  BY WalletAssumption DEF DriveFor

LEMMA TypeNext == TypeOK /\ CallShape /\ [Next]_vars => TypeOK'
  <1> SUFFICES ASSUME TypeOK, CallShape, [Next]_vars PROVE TypeOK'
    OBVIOUS
  <1> USE WalletAssumption
  <1> DEFINE E == Appends
  <1>j. jq \in Seq(E)
    BY DEF TypeOK
  <1>q. \A e \in E : Append(jq, e) \in Seq(E)
    BY QueueAppend DEF TypeOK
  <1>t. ASSUME jq # <<>>, NEW e \in E PROVE Append(Tail(jq), e) \in Seq(E)
    BY <1>t, QueueTail, QueueAppend DEF TypeOK
  <1>1. CASE UNCHANGED vars
    BY <1>1 DEF TypeOK, vars, engineVars, promptVars, chainVars, journalVars,
                rateVars
  <1>2. CASE \/ UnlockStart \/ UnlockSettles \/ AddressRead \/ EngineLocked
             \/ EngineFaults \/ WorkletExits
    <2>1. /\ engine' \in EngineStates /\ unlocking' \in BOOLEAN
          /\ autolock' \in BOOLEAN /\ worklet' \in BOOLEAN
          /\ op' \in [Req -> OpStates]
      <3>1. CASE UnlockStart \/ UnlockSettles \/ AddressRead
        BY <3>1 DEF TypeOK, UnlockStart, UnlockSettles, AddressRead,
                    EngineStates, chainVars
      <3>2. CASE EngineLocked \/ EngineFaults \/ WorkletExits
        BY <3>2 DEF TypeOK, EngineLocked, EngineFaults, WorkletExits, Outdated,
                    EngineStates, OpStates, chainVars, engineVars
      <3> QED  BY <1>2, <3>1, <3>2
    <2>2. UNCHANGED <<connected, promptVars, pc, bound, nonce, sent, onChain,
                      chainNonce, journalVars, rateVars>>
      BY <1>2 DEF UnlockStart, UnlockSettles, AddressRead, EngineLocked,
                  EngineFaults, WorkletExits, chainVars
    <2> QED
      BY <2>1, <2>2 DEF TypeOK, promptVars, journalVars, rateVars
  <1>3. CASE Lock
    <2>1. pending # None => Entry(pending, "cancelled", "lock") \in E
      BY EntryType DEF TypeOK, EntryTypes
    <2>2. jq' \in Seq(E)
      <3>1. \/ jq' = jq
            \/ /\ pending # None
               /\ jq' = Append(jq, Entry(pending, "cancelled", "lock"))
        BY <1>3, Zenon DEF Lock
      <3> QED  BY <1>j, <1>q, <2>1, <3>1, Zenon
    <2>3. /\ pc' \in [Req -> Phases] /\ slot' \in Req \cup {None}
          /\ late' \in BOOLEAN
      <3>1. CASE /\ pending # None /\ Consume(pending)
                 /\ pc' = [pc EXCEPT ![pending] = "done"]
        BY <3>1 DEF TypeOK, Consume, ReleaseSlot, Phases
      <3>2. CASE UNCHANGED <<slot, late, pc>>
        BY <3>2 DEF TypeOK
      <3> QED  BY <1>3, <3>1, <3>2 DEF Lock, promptVars
    <2>4. /\ engine' \in EngineStates
          /\ connected' \in [Tuple -> Manifest \cup {None}]
          /\ op' \in [Req -> OpStates]
          /\ pending' \in Req \cup {None}
      <3>1. CASE pending # None /\ Consume(pending)
                 /\ UNCHANGED <<engine, connected, op>>
        BY <3>1 DEF TypeOK, Consume
      <3>2. CASE Seal /\ UNCHANGED pending
        BY <3>2 DEF TypeOK, Seal, Outdated, EngineStates, OpStates
      <3> QED  BY <1>3, <3>1, <3>2 DEF Lock, promptVars
    <2>5. /\ autolock' \in BOOLEAN
          /\ UNCHANGED <<unlocking, bound, worklet, nonce, sent, onChain,
                         chainNonce, log, reserved, preps, pays>>
      BY <1>3 DEF Lock, rateVars
    <2> QED
      BY <2>2, <2>3, <2>4, <2>5 DEF TypeOK
  <1>4. CASE AutoLock
    BY <1>3, <1>4 DEF AutoLock
  <1>5. ASSUME NEW t \in Tuple, NEW m \in Manifest, Connect(t, m)
        PROVE  TypeOK'
    BY <1>5 DEF TypeOK, Connect, promptVars, chainVars, journalVars, rateVars
  <1>6. ASSUME NEW t \in Tuple, Disconnect(t) PROVE TypeOK'
    <2>1. pending # None => Entry(pending, "cancelled", "none") \in E
      BY EntryType DEF TypeOK, EntryTypes
    <2>2. jq' \in Seq(E)
      <3>1. \/ jq' = jq
            \/ /\ pending # None
               /\ jq' = Append(jq, Entry(pending, "cancelled", "none"))
        BY <1>6, Zenon DEF Disconnect
      <3> QED  BY <1>j, <1>q, <2>1, <3>1, Zenon
    <2>3. /\ pc' \in [Req -> Phases] /\ slot' \in Req \cup {None}
          /\ late' \in BOOLEAN
      <3>1. CASE /\ pending # None /\ Consume(pending)
                 /\ pc' = [pc EXCEPT ![pending] = "done"]
        BY <3>1 DEF TypeOK, Consume, ReleaseSlot, Phases
      <3>2. CASE UNCHANGED <<slot, late, pc>>
        BY <3>2 DEF TypeOK
      <3> QED  BY <1>6, <3>1, <3>2 DEF Disconnect, promptVars
    <2>4. /\ connected' \in [Tuple -> Manifest \cup {None}]
          /\ pending' \in Req \cup {None}
      BY <1>6 DEF TypeOK, Disconnect, Consume, promptVars
    <2>5. UNCHANGED <<engineVars, bound, chainVars, log, reserved, rateVars>>
      BY <1>6 DEF Disconnect
    <2> QED
      BY <2>2, <2>3, <2>4, <2>5 DEF TypeOK, engineVars, chainVars, rateVars
  <1>7. ASSUME NEW r \in Req, CallStep(r) PROVE TypeOK'
    <2>1. ASSUME OpenPrompt(r), bound' \in [Req -> Manifest \cup {None}]
          PROVE  TypeOK'
      <3>1. jq' \in Seq(E)
        BY <2>1, <1>q, EntryType DEF OpenPrompt, EntryTypes
      <3>2. pc' \in [Req -> Phases] /\ slot' \in Req \cup {None}
        BY <2>1 DEF TypeOK, OpenPrompt, Phases
      <3> QED
        BY <2>1, <3>1, <3>2 DEF TypeOK, OpenPrompt, engineVars, chainVars,
              rateVars
    <2>2. CASE RequestPayment(r)
      BY <2>2 DEF TypeOK, RequestPayment, Phases, engineVars, promptVars,
            chainVars, journalVars, rateVars
    <2>3. CASE Lookup(r)
      <3>1. /\ \E p \in {"quote", "idle", "reading"} : pc' = [pc EXCEPT ![r] = p]
            /\ bound' = bound \/ bound' = [bound EXCEPT ![r] = None]
            /\ UNCHANGED <<engineVars, connected, promptVars, chainVars,
                           journalVars, rateVars>>
        BY <2>3, Zenon DEF Lookup
      <3>2. pc' \in [Req -> Phases]
        BY <3>1 DEF TypeOK, Phases
      <3>3. bound' \in [Req -> Manifest \cup {None}]
        BY <3>1 DEF TypeOK
      <3> QED
        BY <3>1, <3>2, <3>3 DEF TypeOK, engineVars, promptVars, chainVars,
              journalVars, rateVars
    <2>4. CASE ReadState(r)
      <3>1. Holder(r) \in Req
        BY <2>4 DEF ReadState, CallShape, TypeOK, Holder, ReservationKey,
              DriveFor, Slots
      <3>2. Append(jq, Entry(Holder(r), "expired", r)) \in Seq(E)
        BY <3>1, <1>q, EntryType DEF EntryTypes
      <3>3. jq' \in Seq(E)
        <4>1. jq' = jq \/ jq' = Append(jq, Entry(Holder(r), "expired", r))
          BY <2>4, Zenon DEF ReadState
        <4> QED  BY <1>j, <3>2, <4>1, Zenon
      <3>4. pc' \in [Req -> Phases]
        <4>1. \E p \in {"closing", "idle"} : pc' = [pc EXCEPT ![r] = p]
          BY <2>4, Zenon DEF ReadState
        <4> QED  BY <4>1 DEF TypeOK, Phases
      <3>5. bound' \in [Req -> Manifest \cup {None}]
        BY <2>4 DEF TypeOK, ReadState
      <3>6. UNCHANGED <<engineVars, connected, promptVars, chainVars, log,
                        reserved, rateVars>>
        BY <2>4 DEF ReadState
      <3> QED
        BY <3>3, <3>4, <3>5, <3>6 DEF TypeOK, engineVars, promptVars,
              chainVars, rateVars
    <2>5. CASE Quote(r)
      <3>1. CASE OpenPrompt(r) /\ UNCHANGED bound
        BY <3>1, <2>1 DEF TypeOK
      <3>2. CASE /\ pc' = [pc EXCEPT ![r] = "idle"]
                 /\ bound' = [bound EXCEPT ![r] = None]
                 /\ UNCHANGED <<engineVars, connected, promptVars, chainVars,
                                journalVars, rateVars>>
        BY <3>2 DEF TypeOK, Phases, engineVars, promptVars, chainVars,
              journalVars, rateVars
      <3> QED  BY <2>5, <3>1, <3>2 DEF Quote
    <2>6. CASE RequestSignature(r)
      BY <2>6, <2>1 DEF TypeOK, RequestSignature
    <2> QED  BY <1>7, <2>2, <2>3, <2>4, <2>5, <2>6 DEF CallStep
  <1>8. ASSUME NEW r \in Req, NEW approved \in BOOLEAN,
               ResolvePrompt(r, approved)
        PROVE  TypeOK'
    <2>1. \A type \in EntryTypes, by \in {"call", "none"} :
             Append(jq, Entry(r, type, by)) \in Seq(E)
      BY <1>q, EntryType
    <2>2. jq' \in Seq(E)
      BY <1>8, <2>1 DEF ResolvePrompt, EntryTypes
    <2>3. pc' \in [Req -> Phases]
      BY <1>8 DEF TypeOK, ResolvePrompt, Phases
    <2>4. /\ slot' \in Req \cup {None} /\ pending' \in Req \cup {None}
          /\ late' \in BOOLEAN
      BY <1>8 DEF TypeOK, ResolvePrompt, Consume, ReleaseSlot
    <2> QED
      BY <1>8, <2>2, <2>3, <2>4 DEF TypeOK, ResolvePrompt, engineVars,
            chainVars, rateVars
  <1>9. ASSUME NEW r \in Req, EngineStep(r) PROVE TypeOK'
    <2>1. \A type \in EntryTypes : Append(jq, Entry(r, type, "call")) \in Seq(E)
      BY <1>q, EntryType
    <2>2. CASE Prepared(r)
      BY <2>2 DEF TypeOK, Prepared, Phases, engineVars, promptVars,
            journalVars, rateVars
    <2>3. CASE Signed(r)
      BY <2>3 DEF TypeOK, Signed, Phases, engineVars, promptVars, chainVars,
            journalVars, rateVars
    <2>4. CASE Sends(r) \/ Accepted(r)
      <3>1. /\ sent' \in SUBSET Req /\ onChain' \in SUBSET Req
            /\ chainNonce' \in Nat
        BY <2>4 DEF TypeOK, Sends, Accepted
      <3>2. UNCHANGED <<engineVars, connected, promptVars, pc, bound, worklet,
                        op, nonce, journalVars, rateVars>>
        BY <2>4 DEF Sends, Accepted
      <3> QED
        BY <3>1, <3>2 DEF TypeOK, engineVars, promptVars, journalVars, rateVars
    <2>5. CASE Broadcast(r) \/ AppSigned(r) \/ OpFails(r)
      <3>1. jq' \in Seq(E)
        BY <2>5, <2>1 DEF Broadcast, AppSigned, OpFails, EntryTypes
      <3>2. PICK p \in {"recording", "attesting", "failing"} :
               pc' = [pc EXCEPT ![r] = p]
        BY <2>5 DEF Broadcast, AppSigned, OpFails
      <3>3. pc' \in [Req -> Phases]
        BY <3>2 DEF TypeOK, Phases
      <3>4. /\ op' = [op EXCEPT ![r] = "none"]
            /\ UNCHANGED <<engineVars, connected, promptVars, bound, worklet,
                           nonce, sent, onChain, chainNonce, log, reserved,
                           rateVars>>
        BY <2>5 DEF Broadcast, AppSigned, OpFails
      <3> QED
        BY <3>1, <3>3, <3>4 DEF TypeOK, OpStates, engineVars, promptVars, rateVars
    <2> QED  BY <1>9, <2>2, <2>3, <2>4, <2>5 DEF EngineStep
  <1>10. ASSUME NEW ok \in BOOLEAN, OutcomeSettles(ok) PROVE TypeOK'
    <2>1. PICK r \in Req, type \in {"rejection", "cancelled", "expired"} :
             Settles(r, type, "none", ok)
      BY <1>10 DEF OutcomeSettles
    <2>2. log' \in [Req -> Seq(EntryTypes)] /\ Tail(jq) \in Seq(E)
      BY <2>1, SettlesType DEF EntryTypes
    <2> QED
      BY <1>10, <2>2 DEF TypeOK, OutcomeSettles, engineVars, promptVars,
            chainVars, rateVars
  <1>11. ASSUME NEW ok \in BOOLEAN, LockSettles(ok) PROVE TypeOK'
    <2>1. PICK r \in Req : Settles(r, "cancelled", "lock", ok)
      BY <1>11 DEF LockSettles
    <2>2. log' \in [Req -> Seq(EntryTypes)] /\ Tail(jq) \in Seq(E)
      BY <2>1, SettlesType DEF EntryTypes
    <2>3. /\ engine' \in EngineStates
          /\ connected' \in [Tuple -> Manifest \cup {None}]
          /\ op' \in [Req -> OpStates]
      BY <1>11 DEF TypeOK, LockSettles, Seal, Outdated, EngineStates, OpStates
    <2> QED
      BY <1>11, <2>2, <2>3 DEF TypeOK, LockSettles, promptVars, rateVars
  <1>12. ASSUME NEW r \in Req, jq # <<>>
         PROVE  /\ Tail(jq) \in Seq(E)
                /\ \A type \in EntryTypes, by \in {"call", "none"} :
                      Append(Tail(jq), Entry(r, type, by)) \in Seq(E)
    BY <1>t, <1>12, EntryType, QueueTail DEF TypeOK
  <1>13. ASSUME NEW r \in Req, NEW ok \in BOOLEAN,
                \/ ClosureSettles(r, ok)
                \/ IntentSettles(r, ok)
                \/ PromptSettles(r, ok)
                \/ ApprovalSettles(r, ok)
                \/ FailureSettles(r, ok)
                \/ BroadcastSettles(r, ok)
                \/ SubmissionSettles(r, ok)
                \/ AttestationSettles(r, ok)
         PROVE  TypeOK'
    <2>2. CASE ClosureSettles(r, ok)
      <3>1. Holder(r) \in Req
        BY <2>2 DEF ClosureSettles, CallShape, TypeOK, Holder, ReservationKey,
              DriveFor, Slots
      <3>2. /\ Settles(Holder(r), "expired", r, ok)
            /\ jq' = Tail(jq)
            /\ pc' = [pc EXCEPT ![r] = "idle"]
            /\ bound' = [bound EXCEPT ![r] = None]
            /\ UNCHANGED <<engineVars, connected, promptVars, chainVars,
                           reserved, rateVars>>
        BY <2>2 DEF ClosureSettles
      <3>3. log' \in [Req -> Seq(EntryTypes)] /\ jq' \in Seq(E)
        <4>1. "expired" \in EntryTypes
          BY DEF EntryTypes
        <4>2. r \in {"call", "lock", "none"} \cup Req
          OBVIOUS
        <4>3. Settles(Holder(r), "expired", r, ok)
          BY <3>2
        <4>4. log' \in [Req -> Seq(EntryTypes)] /\ Tail(jq) \in Seq(E)
          <5> DEFINE h == Holder(r)
          <5>1. h \in Req /\ Settles(h, "expired", r, ok)
            BY <3>1, <4>3
          <5> HIDE DEF h
          <5> QED  BY <4>1, <4>2, <5>1, SettlesType
        <4> QED  BY <3>2, <4>4
      <3> QED
        BY <3>2, <3>3 DEF TypeOK, Phases, engineVars, promptVars, chainVars,
              rateVars
    <2>3. CASE IntentSettles(r, ok)
      <3>1. Settles(r, "intent", "call", ok /\ ~KeyTaken(r))
        BY <2>3 DEF IntentSettles
      <3>2. log' \in [Req -> Seq(EntryTypes)]
        BY <3>1, SettlesType DEF EntryTypes
      <3>3. jq # <<>>
        BY <3>1 DEF Settles
      <3>4. jq' \in Seq(E)
        BY <1>12, <2>3, <3>3, Zenon DEF IntentSettles, EntryTypes
      <3>5. \E p \in {"prompt", "lookup", "idle"} : pc' = [pc EXCEPT ![r] = p]
        BY <2>3, Zenon DEF IntentSettles
      <3>6. pc' \in [Req -> Phases]
        BY <3>5 DEF TypeOK, Phases
      <3>7. UNCHANGED <<engineVars, connected, pending, chainVars, rateVars>>
        BY <2>3 DEF IntentSettles
      <3>8. slot' \in Req \cup {None} /\ late' \in BOOLEAN
        BY <2>3 DEF TypeOK, IntentSettles, ReleaseSlot
      <3>9. bound' \in [Req -> Manifest \cup {None}]
        <4>1. bound' = bound \/ bound' = [bound EXCEPT ![r] = None]
          BY <2>3, Zenon DEF IntentSettles
        <4> QED  BY <4>1 DEF TypeOK
      <3>10. reserved' \in [Slots -> Req \cup {None}]
        BY <2>3 DEF TypeOK, IntentSettles
      <3> QED
        BY <3>2, <3>4, <3>6, <3>7, <3>8, <3>9, <3>10 DEF TypeOK, engineVars,
              promptVars, chainVars, rateVars
    <2>4. CASE PromptSettles(r, ok)
      <3>1. Settles(r, "prompt", "call", ok)
        BY <2>4 DEF PromptSettles
      <3>2. log' \in [Req -> Seq(EntryTypes)]
        BY <3>1, SettlesType DEF EntryTypes
      <3>3. jq # <<>>
        BY <3>1 DEF Settles
      <3>4. jq' \in Seq(E)
        BY <1>12, <2>4, <3>3, Zenon DEF PromptSettles, EntryTypes
      <3>5. \E p \in {"open", "done"} : pc' = [pc EXCEPT ![r] = p]
        BY <2>4, Zenon DEF PromptSettles
      <3>6. pc' \in [Req -> Phases]
        BY <3>5 DEF TypeOK, Phases
      <3>7. UNCHANGED <<engine, unlocking, connected, bound, chainVars,
                      reserved, pays>>
        BY <2>4 DEF PromptSettles
      <3>8. /\ slot' \in Req \cup {None} /\ pending' \in Req \cup {None}
            /\ late' \in BOOLEAN
        BY <2>4 DEF TypeOK, PromptSettles, ReleaseSlot
      <3>9. autolock' \in BOOLEAN
        BY <2>4 DEF TypeOK, PromptSettles
      <3>10. \/ preps' = preps
            \/ preps' = [preps EXCEPT ![DriveFor(r)] = preps[DriveFor(r)] + 1]
        BY <2>4 DEF PromptSettles
      <3>11. preps' \in [Drive -> Nat]
        <4>1. [preps EXCEPT ![DriveFor(r)] = preps[DriveFor(r)] + 1]
                 \in [Drive -> Nat]
          BY Stamped, DriveType DEF TypeOK
        <4> QED  BY <3>10, <4>1, Zenon DEF TypeOK
      <3> QED
        BY <3>2, <3>4, <3>6, <3>7, <3>8, <3>9, <3>10, <3>11 DEF TypeOK, engineVars,
              promptVars, chainVars, rateVars
    <2>5. CASE ApprovalSettles(r, ok)
      <3>1. Settles(r, "approval", "call", ok)
        BY <2>5 DEF ApprovalSettles
      <3>2. log' \in [Req -> Seq(EntryTypes)]
        BY <3>1, SettlesType DEF EntryTypes
      <3>3. jq # <<>>
        BY <3>1 DEF Settles
      <3>4. jq' \in Seq(E)
        BY <1>12, <2>5, <3>3, Zenon DEF ApprovalSettles, StartOp, EntryTypes
      <3>5. \E p \in {"prepare", "signapp", "failing", "done"} : pc' = [pc EXCEPT ![r] = p]
        BY <2>5, Zenon DEF ApprovalSettles, StartOp
      <3>6. pc' \in [Req -> Phases]
        BY <3>5 DEF TypeOK, Phases
      <3>7. UNCHANGED <<engine, unlocking, connected, promptVars, bound, worklet,
                      nonce, sent, onChain, chainNonce, reserved, rateVars>>
        BY <2>5 DEF ApprovalSettles
      <3>8. \/ op' = op
            \/ \E o \in {"run", "lost", "none"} : op' = [op EXCEPT ![r] = o]
        BY <2>5, Zenon DEF ApprovalSettles, StartOp
      <3>9. op' \in [Req -> OpStates]
        BY <3>8 DEF TypeOK, OpStates
      <3>10. autolock' \in BOOLEAN
        BY <2>5, Zenon DEF TypeOK, ApprovalSettles
      <3> QED
        BY <3>2, <3>4, <3>6, <3>7, <3>8, <3>9, <3>10 DEF TypeOK, engineVars,
              promptVars, chainVars, rateVars
    <2>6. CASE FailureSettles(r, ok)
      <3>1. Settles(r, "failed", "call", ok)
        BY <2>6 DEF FailureSettles
      <3>2. log' \in [Req -> Seq(EntryTypes)]
        BY <3>1, SettlesType DEF EntryTypes
      <3>3. jq # <<>>
        BY <3>1 DEF Settles
      <3>4. jq' \in Seq(E)
        BY <1>12, <2>6, <3>3, Zenon DEF FailureSettles, EntryTypes
      <3>5. \E p \in {"done"} : pc' = [pc EXCEPT ![r] = p]
        BY <2>6, Zenon DEF FailureSettles
      <3>6. pc' \in [Req -> Phases]
        BY <3>5 DEF TypeOK, Phases
      <3>7. UNCHANGED <<engineVars, connected, promptVars, bound, chainVars,
                      reserved, rateVars>>
        BY <2>6 DEF FailureSettles
      <3> QED
        BY <3>2, <3>4, <3>6, <3>7 DEF TypeOK, engineVars,
              promptVars, chainVars, rateVars
    <2>7. CASE BroadcastSettles(r, ok)
      <3>1. Settles(r, "broadcast", "call", ok)
        BY <2>7 DEF BroadcastSettles
      <3>2. log' \in [Req -> Seq(EntryTypes)]
        BY <3>1, SettlesType DEF EntryTypes
      <3>3. jq # <<>>
        BY <3>1 DEF Settles
      <3>4. jq' \in Seq(E)
        BY <1>12, <2>7, <3>3, Zenon DEF BroadcastSettles, PaymentSettled, EntryTypes
      <3>5. \E p \in {"reporting", "done"} : pc' = [pc EXCEPT ![r] = p]
        BY <2>7, Zenon DEF BroadcastSettles, PaymentSettled
      <3>6. pc' \in [Req -> Phases]
        BY <3>5 DEF TypeOK, Phases
      <3>7. UNCHANGED <<engine, unlocking, connected, promptVars, bound,
                      chainVars, reserved, preps>>
        BY <2>7 DEF BroadcastSettles
      <3>8. \/ pays' = pays
            \/ pays' = [pays EXCEPT ![DriveFor(r)] = pays[DriveFor(r)] + 1]
        BY <2>7 DEF BroadcastSettles, PaymentSettled
      <3>9. pays' \in [Drive -> Nat]
        <4>1. [pays EXCEPT ![DriveFor(r)] = pays[DriveFor(r)] + 1]
                 \in [Drive -> Nat]
          BY Stamped, DriveType DEF TypeOK
        <4> QED  BY <3>8, <4>1, Zenon DEF TypeOK
      <3>10. autolock' \in BOOLEAN
        BY <2>7, Zenon DEF TypeOK, BroadcastSettles, PaymentSettled
      <3> QED
        BY <3>2, <3>4, <3>6, <3>7, <3>8, <3>9, <3>10 DEF TypeOK, engineVars,
              promptVars, chainVars, rateVars
    <2>8. CASE SubmissionSettles(r, ok)
      <3>1. Settles(r, "submitted", "call", ok)
        BY <2>8 DEF SubmissionSettles
      <3>2. log' \in [Req -> Seq(EntryTypes)]
        BY <3>1, SettlesType DEF EntryTypes
      <3>3. jq # <<>>
        BY <3>1 DEF Settles
      <3>4. jq' \in Seq(E)
        BY <1>12, <2>8, <3>3, Zenon DEF SubmissionSettles, PaymentSettled, EntryTypes
      <3>5. \E p \in {"done"} : pc' = [pc EXCEPT ![r] = p]
        BY <2>8, Zenon DEF SubmissionSettles, PaymentSettled
      <3>6. pc' \in [Req -> Phases]
        BY <3>5 DEF TypeOK, Phases
      <3>7. UNCHANGED <<engine, unlocking, connected, promptVars, bound,
                      chainVars, reserved, preps>>
        BY <2>8 DEF SubmissionSettles
      <3>8. \/ pays' = pays
            \/ pays' = [pays EXCEPT ![DriveFor(r)] = pays[DriveFor(r)] + 1]
        BY <2>8 DEF SubmissionSettles, PaymentSettled
      <3>9. pays' \in [Drive -> Nat]
        <4>1. [pays EXCEPT ![DriveFor(r)] = pays[DriveFor(r)] + 1]
                 \in [Drive -> Nat]
          BY Stamped, DriveType DEF TypeOK
        <4> QED  BY <3>8, <4>1, Zenon DEF TypeOK
      <3>10. autolock' \in BOOLEAN
        BY <2>8, Zenon DEF TypeOK, SubmissionSettles, PaymentSettled
      <3> QED
        BY <3>2, <3>4, <3>6, <3>7, <3>8, <3>9, <3>10 DEF TypeOK, engineVars,
              promptVars, chainVars, rateVars
    <2>9. CASE AttestationSettles(r, ok)
      <3>1. Settles(r, "sign-app", "call", ok)
        BY <2>9 DEF AttestationSettles
      <3>2. log' \in [Req -> Seq(EntryTypes)]
        BY <3>1, SettlesType DEF EntryTypes
      <3>3. jq # <<>>
        BY <3>1 DEF Settles
      <3>4. jq' \in Seq(E)
        BY <1>12, <2>9, <3>3, Zenon DEF AttestationSettles, EntryTypes
      <3>5. \E p \in {"failing", "done"} : pc' = [pc EXCEPT ![r] = p]
        BY <2>9, Zenon DEF AttestationSettles
      <3>6. pc' \in [Req -> Phases]
        BY <3>5 DEF TypeOK, Phases
      <3>7. UNCHANGED <<engine, unlocking, connected, promptVars, bound,
                      chainVars, reserved, rateVars>>
        BY <2>9 DEF AttestationSettles
      <3>8. autolock' \in BOOLEAN
        BY <2>9, Zenon DEF TypeOK, AttestationSettles
      <3> QED
        BY <3>2, <3>4, <3>6, <3>7, <3>8 DEF TypeOK, engineVars,
              promptVars, chainVars, rateVars
    <2> QED  BY <1>13, <2>2, <2>3, <2>4, <2>5, <2>6, <2>7, <2>8, <2>9
  <1>14. CASE PromptExpires
    BY <1>14 DEF TypeOK, PromptExpires, engineVars, chainVars, journalVars,
                 rateVars
  <1>15. ASSUME NEW d \in Drive, StampExpires(d) PROVE TypeOK'
    <2>1. preps' \in [Drive -> Nat] /\ pays' \in [Drive -> Nat]
      <3>1. CASE /\ preps[d] > 0 /\ UNCHANGED pays
                 /\ preps' = [preps EXCEPT ![d] = preps[d] - 1]
        BY <3>1, SMTT(30) DEF TypeOK
      <3>2. CASE /\ pays[d] > 0 /\ UNCHANGED preps
                 /\ pays' = [pays EXCEPT ![d] = pays[d] - 1]
        BY <3>2 DEF TypeOK
      <3> QED  BY <1>15, <3>1, <3>2 DEF StampExpires, HasStamp
    <2> QED
      BY <1>15, <2>1 DEF TypeOK, StampExpires, engineVars, promptVars,
                         chainVars, journalVars
  <1>16. CASE Crash
    <2>1. jq' \in Seq(E)
      BY <1>16 DEF Crash
    <2>2. pc' \in [Req -> Phases]
      BY <1>16 DEF Crash, Phases
    <2>3. bound' \in [Req -> Manifest \cup {None}]
      BY <1>16 DEF TypeOK, Crash
    <2>4. /\ connected' \in [Tuple -> Manifest \cup {None}]
          /\ op' \in [Req -> OpStates] /\ worklet' = FALSE
          /\ preps' \in [Drive -> Nat] /\ pays' \in [Drive -> Nat]
          /\ engine' = "locked" /\ unlocking' = FALSE /\ autolock' = FALSE
          /\ slot' = None /\ late' = FALSE /\ pending' = None
          /\ UNCHANGED <<nonce, sent, onChain, chainNonce, log, reserved>>
      BY <1>16 DEF Crash, OpStates
    <2> QED
      BY <2>1, <2>2, <2>3, <2>4 DEF TypeOK, EngineStates
  <1>17. \/ UNCHANGED vars \/ LifecycleStep \/ JournalStep \/ Lock \/ Crash
         \/ \E r \in Req : CallStep(r) \/ EngineStep(r)
         \/ \E t \in Tuple : Disconnect(t)
         \/ PromptExpires
         \/ \E d \in Drive : StampExpires(d)
         \/ \E t \in Tuple, m \in Manifest : Connect(t, m)
         \/ \E r \in Req, approved \in BOOLEAN : ResolvePrompt(r, approved)
    BY DEF Next, InternalStep
  <1> QED
    BY <1>17, <1>1, <1>2, <1>3, <1>4, <1>5, <1>6, <1>7, <1>8, <1>9, <1>10, <1>11,
       <1>13, <1>14, <1>15, <1>16
       DEF LifecycleStep, JournalStep
-----------------------------------------------------------------------------
\* The actions of Next, one disjunct each, as the invariance proofs split it.
LEMMA NextCases ==
    ASSUME [Next]_vars
    PROVE  \/ UNCHANGED vars
           \/ UnlockStart \/ UnlockSettles \/ AddressRead \/ EngineLocked
           \/ EngineFaults \/ WorkletExits
           \/ Lock \/ Crash \/ PromptExpires
           \/ \E t \in Tuple : Disconnect(t)
           \/ \E t \in Tuple, m \in Manifest : Connect(t, m)
           \/ \E d \in Drive : StampExpires(d)
           \/ \E r \in Req, approved \in BOOLEAN : ResolvePrompt(r, approved)
           \/ \E r \in Req : CallStep(r) \/ EngineStep(r)
           \/ \E ok \in BOOLEAN : OutcomeSettles(ok) \/ LockSettles(ok)
           \/ \E r \in Req, ok \in BOOLEAN :
                 \/ ClosureSettles(r, ok)
                 \/ IntentSettles(r, ok)
                 \/ PromptSettles(r, ok)
                 \/ ApprovalSettles(r, ok)
                 \/ FailureSettles(r, ok)
                 \/ BroadcastSettles(r, ok)
                 \/ SubmissionSettles(r, ok)
                 \/ AttestationSettles(r, ok)
  BY DEF Next, InternalStep, LifecycleStep, JournalStep, AutoLock

\* The slot, the pending prompt and the phases move together in every step.
LEMMA SlotNext ==
    TypeOK /\ PromptOwnsSlot /\ [Next]_vars => PromptOwnsSlot'
  <1> SUFFICES ASSUME TypeOK, PromptOwnsSlot, [Next]_vars
               PROVE  PromptOwnsSlot'
    OBVIOUS
  <1> USE WalletAssumption DEF TypeOK, PromptOwnsSlot
  <1>1. CASE UNCHANGED <<pc, slot, pending>>
    BY <1>1
  <1>2. CASE Lock
    <2>1. CASE /\ pending # None /\ Consume(pending)
               /\ pc' = [pc EXCEPT ![pending] = "done"]
      BY <2>1 DEF Consume, ReleaseSlot
    <2> QED  BY <1>1, <1>2, <2>1 DEF Lock, promptVars
  <1>3. CASE \E t \in Tuple : Disconnect(t)
    <2>1. CASE /\ pending # None /\ Consume(pending)
               /\ pc' = [pc EXCEPT ![pending] = "done"]
      BY <2>1 DEF Consume, ReleaseSlot
    <2> QED  BY <1>1, <1>3, <2>1 DEF Disconnect, promptVars
  <1>4. CASE Crash
    BY <1>4 DEF Crash
  <1>5. ASSUME NEW r \in Req, NEW approved \in BOOLEAN,
               ResolvePrompt(r, approved)
        PROVE  PromptOwnsSlot'
    <2>1. pending = r /\ Consume(r)
      BY <1>5 DEF ResolvePrompt
    <2>2. \E p \in {"done", "approving"} : pc' = [pc EXCEPT ![r] = p]
      BY <1>5, Zenon DEF ResolvePrompt
    <2> QED  BY <2>1, <2>2 DEF Consume, ReleaseSlot
  <1>6. ASSUME NEW r \in Req, CallStep(r) \/ EngineStep(r)
        PROVE  PromptOwnsSlot'
    <2>1. CASE OpenPrompt(r) /\ pc[r] \in {"idle", "quote"}
      BY <2>1 DEF OpenPrompt, CanOpen
    <2>2. CASE /\ UNCHANGED <<slot, pending>>
               /\ pc[r] \notin {"intent", "prompt", "open"}
               /\ \E p \in Phases \ {"intent", "prompt", "open"} :
                     pc' = [pc EXCEPT ![r] = p]
      BY <2>2, SMTT(30)
    <2>3. \/ RequestPayment(r) \/ Lookup(r) \/ ReadState(r) \/ Quote(r)
          \/ RequestSignature(r) \/ EngineStep(r)
      BY <1>6 DEF CallStep
    <2>4. CASE RequestPayment(r) \/ Lookup(r)
      <3>1. UNCHANGED <<slot, pending>> /\ pc[r] \in {"idle", "lookup"}
        BY <2>4 DEF RequestPayment, Lookup, promptVars
      <3>2. \E p \in {"lookup", "quote", "idle", "reading"} :
               pc' = [pc EXCEPT ![r] = p]
        BY <2>4, Zenon DEF RequestPayment, Lookup
      <3> QED  BY <2>2, <3>1, <3>2 DEF Phases
    <2>5. CASE ReadState(r)
      <3>1. UNCHANGED <<slot, pending>> /\ pc[r] = "reading"
        BY <2>5 DEF ReadState, promptVars
      <3>2. \E p \in {"closing", "idle"} : pc' = [pc EXCEPT ![r] = p]
        BY <2>5, Zenon DEF ReadState
      <3> QED  BY <2>2, <3>1, <3>2 DEF Phases
    <2>6. CASE Quote(r)
      <3>1. CASE OpenPrompt(r)
        BY <2>1, <2>6, <3>1 DEF Quote
      <3>2. CASE pc' = [pc EXCEPT ![r] = "idle"] /\ UNCHANGED promptVars
        BY <2>2, <2>6, <3>2 DEF Quote, promptVars, Phases
      <3> QED  BY <2>6, <3>1, <3>2 DEF Quote
    <2>7. CASE RequestSignature(r)
      BY <2>1, <2>7 DEF RequestSignature
    <2>8. CASE EngineStep(r)
      <3>1. CASE Sends(r) \/ Accepted(r)
        BY <1>1, <3>1 DEF Sends, Accepted, promptVars
      <3>2. CASE ~(Sends(r) \/ Accepted(r))
        <4>1. UNCHANGED <<slot, pending>> /\ pc[r] \in OpPhases
          BY <2>8, <3>2 DEF EngineStep, Prepared, Signed, Broadcast, AppSigned,
               OpFails, MayFail, promptVars, OpPhases
        <4>2. \E p \in {"sign", "broadcast", "recording", "attesting", "failing"} :
                 pc' = [pc EXCEPT ![r] = p]
          BY <2>8, <3>2, Zenon DEF EngineStep, Prepared, Signed, Broadcast,
               AppSigned, OpFails
        <4> QED  BY <2>2, <4>1, <4>2 DEF OpPhases, Phases
      <3> QED  BY <3>1, <3>2
    <2> QED  BY <2>3, <2>4, <2>5, <2>6, <2>7, <2>8
  <1>7. ASSUME NEW r \in Req, NEW ok \in BOOLEAN,
               \/ ClosureSettles(r, ok)
               \/ ApprovalSettles(r, ok)
               \/ FailureSettles(r, ok)
               \/ BroadcastSettles(r, ok)
               \/ SubmissionSettles(r, ok)
               \/ AttestationSettles(r, ok)
        PROVE  PromptOwnsSlot'
    <2>1. UNCHANGED <<slot, pending>>
      BY <1>7 DEF ClosureSettles, ApprovalSettles, FailureSettles,
           BroadcastSettles, SubmissionSettles, AttestationSettles, promptVars
    <2>2. pc[r] \in {"closing", "approving", "failing", "recording",
                     "reporting", "attesting"}
      BY <1>7 DEF ClosureSettles, ApprovalSettles, FailureSettles,
           BroadcastSettles, SubmissionSettles, AttestationSettles
    <2>3. \E p \in {"idle", "done", "failing", "prepare", "signapp",
                    "reporting"} : pc' = [pc EXCEPT ![r] = p]
      BY <1>7, Zenon DEF ClosureSettles, ApprovalSettles, FailureSettles,
           BroadcastSettles, SubmissionSettles, AttestationSettles, StartOp,
           PaymentSettled
    <2>4. \A q \in Req : \/ pc'[q] = pc[q]
                        \/ /\ pc[q] \notin {"intent", "prompt", "open"}
                           /\ pc'[q] \notin {"intent", "prompt", "open"}
      BY <2>2, <2>3
    <2> QED  BY <2>1, <2>4
  <1>8. ASSUME NEW r \in Req, NEW ok \in BOOLEAN, IntentSettles(r, ok)
        PROVE  PromptOwnsSlot'
    <2>1. pc[r] = "intent" /\ UNCHANGED pending
      BY <1>8 DEF IntentSettles
    <2>2. \/ pc' = [pc EXCEPT ![r] = "prompt"] /\ UNCHANGED slot
          \/ /\ ReleaseSlot(r)
             /\ \E p \in {"lookup", "idle"} : pc' = [pc EXCEPT ![r] = p]
      BY <1>8, Zenon DEF IntentSettles
    <2>3. slot = r /\ pending # r
      BY <2>1
    <2>4. CASE pc' = [pc EXCEPT ![r] = "prompt"] /\ UNCHANGED slot
      BY <2>1, <2>3, <2>4
    <2>5. ASSUME ReleaseSlot(r), NEW p \in {"lookup", "idle"},
                 pc' = [pc EXCEPT ![r] = p]
          PROVE  PromptOwnsSlot'
      <3>1. slot' = None /\ pending = None
        BY <2>3, <2>5 DEF ReleaseSlot
      <3> QED  BY <2>1, <2>3, <2>5, <3>1
    <2> QED  BY <2>2, <2>4, <2>5
  <1>9. ASSUME NEW r \in Req, NEW ok \in BOOLEAN, PromptSettles(r, ok)
        PROVE  PromptOwnsSlot'
    <2>1. pc[r] = "prompt"
      BY <1>9 DEF PromptSettles
    <2>2. \/ /\ pc' = [pc EXCEPT ![r] = "open"]
             /\ pending' = r /\ UNCHANGED slot
          \/ /\ ReleaseSlot(r) /\ UNCHANGED pending
             /\ pc' = [pc EXCEPT ![r] = "done"]
      BY <1>9 DEF PromptSettles
    <2>3. slot = r /\ pending = None
      BY <2>1
    <2>4. CASE /\ pc' = [pc EXCEPT ![r] = "open"]
               /\ pending' = r /\ UNCHANGED slot
      BY <2>1, <2>3, <2>4
    <2>5. CASE /\ ReleaseSlot(r) /\ UNCHANGED pending
               /\ pc' = [pc EXCEPT ![r] = "done"]
      <3>1. slot' = None
        BY <2>3, <2>5 DEF ReleaseSlot
      <3> QED  BY <2>1, <2>3, <2>5, <3>1
    <2> QED  BY <2>2, <2>4, <2>5
  <1>10. ASSUME \/ UNCHANGED vars
                \/ UnlockStart \/ UnlockSettles \/ AddressRead \/ EngineLocked
                \/ EngineFaults \/ WorkletExits
                \/ PromptExpires
                \/ \E t \in Tuple, m \in Manifest : Connect(t, m)
                \/ \E d \in Drive : StampExpires(d)
                \/ \E ok \in BOOLEAN : OutcomeSettles(ok) \/ LockSettles(ok)
         PROVE  UNCHANGED <<pc, slot, pending>>
    BY <1>10 DEF vars, promptVars, UnlockStart, UnlockSettles, AddressRead,
         EngineLocked, EngineFaults, WorkletExits, PromptExpires, Connect, StampExpires, OutcomeSettles,
         LockSettles
  <1> QED
    BY NextCases, <1>1, <1>2, <1>3, <1>4, <1>5, <1>6, <1>7, <1>8, <1>9, <1>10
-----------------------------------------------------------------------------
\* The entries of q that no call awaits belong to intents that are durable.
Unawaited(q) == \A i \in DOMAIN q : q[i].by # "call" => pc[q[i].id] \in Started

LEMMA UnawaitedAppend ==
    ASSUME NEW q \in Seq(Appends), NEW e \in Appends, Unawaited(q),
           e.by = "call" \/ pc[e.id] \in Started
    PROVE  Unawaited(Append(q, e))
  BY QueueAppend DEF Unawaited

LEMMA UnawaitedTail ==
    ASSUME NEW q \in Seq(Appends), q # <<>>, Unawaited(q)
    PROVE  Unawaited(Tail(q))
  BY QueueTail DEF Unawaited

\* A settling append of a durable intent leaves the durable intents alone.
LEMMA SettlesDurable ==
    ASSUME TypeOK, CallShape, NEW r \in Req, NEW type \in EntryTypes,
           NEW by \in {"call", "lock", "none"} \cup Req, NEW ok \in BOOLEAN,
           Settles(r, type, by, ok), by # "call" \/ pc[r] \in Started
    PROVE  /\ \A q \in Req : log'[q] # <<>> <=> log[q] # <<>>
           /\ Unawaited(Tail(jq)) /\ pc[r] \in Started
           /\ Tail(jq) \in Seq(Appends)
  <1>1. jq # <<>> /\ Head(jq) = Entry(r, type, by)
    BY DEF Settles
  <1>2. pc[r] \in Started
    <2>1. 1 \in DOMAIN jq /\ jq[1] = Entry(r, type, by)
      BY <1>1, QueueTail DEF TypeOK
    <2>2. jq[1].by = by /\ jq[1].id = r
      BY <2>1 DEF Entry
    <2> QED  BY <2>1, <2>2 DEF CallShape
  <1>3. log[r] # <<>>
    BY <1>2 DEF CallShape
  <1>4. Append(log[r], type) # <<>>
    BY QueueAppend DEF TypeOK
  <1>5. \A q \in Req : log'[q] # <<>> <=> log[q] # <<>>
    BY <1>3, <1>4 DEF Settles, TypeOK
  <1> QED
    BY <1>1, <1>2, <1>5, UnawaitedTail, QueueTail DEF TypeOK, CallShape, Unawaited

\* The same of an intent that a replaying call closes.
LEMMA ClosedDurable ==
    ASSUME TypeOK, CallShape, NEW h \in Req, NEW r \in Req, NEW ok \in BOOLEAN,
           Settles(h, "expired", r, ok)
    PROVE  /\ \A q \in Req : log'[q] # <<>> <=> log[q] # <<>>
           /\ Unawaited(Tail(jq))
  <1>1. "expired" \in EntryTypes /\ r # "call"
    BY WalletAssumption DEF EntryTypes
  <1>2. r \in {"call", "lock", "none"} \cup Req /\ (r # "call" \/ pc[h] \in Started)
    BY <1>1
  <1> QED  BY <1>1, <1>2, SettlesDurable

\* A step that makes no intent durable keeps the shape of calls if those it
\* moves know their manifest and the queue stays in order.
LEMMA ShapeKept ==
    ASSUME TypeOK, CallShape, reserved' = reserved,
           \A r \in Req :
              /\ pc'[r] \in Started <=> pc[r] \in Started
              /\ log'[r] # <<>> <=> log[r] # <<>>
              /\ pc'[r] # "idle" => bound'[r] \in Manifest
              /\ pc'[r] \in Started => bound'[r] = bound[r]
              /\ pc'[r] \in {"reading", "closing"} =>
                    bound'[r] = bound[r] /\ Holder(r) # None,
           \A i \in DOMAIN jq' : jq'[i].id \in Req,
           Unawaited(jq')
    PROVE  CallShape'
  <1>1. \A r \in Req : bound'[r] = bound[r] => Holder(r)' = Holder(r)
    BY DEF Holder, ReservationKey, DriveFor
  <1>2. \A i \in DOMAIN jq' : jq'[i].by # "call" => pc'[jq'[i].id] \in Started
    BY DEF Unawaited
  <1>3. \A s \in Slots : reserved'[s] # None => pc'[reserved'[s]] \in Started
    BY DEF CallShape, TypeOK
  <1>4. \A r \in Payments : pc'[r] \in Started => Holder(r)' = r
    BY <1>1, WalletAssumption DEF CallShape
  <1>5. \A r \in Req : pc'[r] \in {"reading", "closing"} => Holder(r)' # None
    BY <1>1
  <1>6. \A r \in Req : /\ pc'[r] # "idle" => bound'[r] \in Manifest
                       /\ log'[r] # <<>> <=> pc'[r] \in Started
    BY DEF CallShape
  <1> QED  BY <1>2, <1>3, <1>4, <1>5, <1>6 DEF CallShape

LEMMA ShapeNext ==
    ASSUME TypeOK, TypeOK', CallShape, PromptOwnsSlot, [Next]_vars
    PROVE  CallShape'
  <1> USE WalletAssumption
  <1>t. /\ jq \in Seq(Appends) /\ Unawaited(jq)
        /\ \A i \in DOMAIN jq' : jq'[i].id \in Req
    <2>1. jq' \in Seq(Appends)
      BY DEF TypeOK
    <2>2. \A i \in DOMAIN jq' : jq'[i] \in Appends
      BY <2>1, QueueElement
    <2>3. \A e \in Appends : e.id \in Req
      BY DEF Appends
    <2> QED  BY <2>2, <2>3 DEF TypeOK, CallShape, Unawaited
  <1>k. ASSUME NEW r \in Req, NEW p \in Started, pc[r] \in Started,
               pc' = [pc EXCEPT ![r] = p],
               reserved' = reserved, bound' = bound,
               \A q \in Req : log'[q] # <<>> <=> log[q] # <<>>,
               Unawaited(jq')
        PROVE  CallShape'
    <2>1. \A q \in Req : q # r => pc'[q] = pc[q]
      BY <1>k DEF TypeOK
    <2>2. pc'[r] = p
      BY <1>k DEF TypeOK
    <2>3. "idle" \notin Started /\ {"reading", "closing"} \cap Started = {}
      BY DEF Started
    <2>4. \A q \in Req :
              /\ pc'[q] \in Started <=> pc[q] \in Started
              /\ pc'[q] # "idle" => bound'[q] \in Manifest
              /\ pc'[q] \in {"reading", "closing"} => Holder(q) # None
      BY <1>k, <2>1, <2>2, <2>3 DEF CallShape
    <2> QED  BY <1>k, <1>t, <2>4, ShapeKept
  <1>1. CASE UNCHANGED <<pc, bound, log, jq, reserved>>
    BY <1>1, <1>t, ShapeKept DEF CallShape
  <1>2. CASE Lock
    <2>1. CASE /\ pending # None
               /\ pc' = [pc EXCEPT ![pending] = "done"]
               /\ jq' = Append(jq, Entry(pending, "cancelled", "lock"))
      <3>1. /\ pending \in Req /\ pc[pending] \in Started /\ "done" \in Started
            /\ UNCHANGED <<bound, log, reserved>>
        BY <2>1, <1>2 DEF TypeOK, PromptOwnsSlot, Started, Lock
      <3>2. Entry(pending, "cancelled", "lock") \in Appends
        BY <3>1, EntryType DEF EntryTypes
      <3>3. Unawaited(jq')
        BY <1>t, <2>1, <3>1, <3>2, UnawaitedAppend DEF Entry
      <3> QED  BY <1>k, <2>1, <3>1, <3>3
    <2>2. CASE UNCHANGED <<pc, jq>>
      BY <1>1, <1>2, <2>2 DEF Lock
    <2> QED  BY <1>2, <2>1, <2>2 DEF Lock
  <1>3. ASSUME NEW t \in Tuple, Disconnect(t) PROVE CallShape'
    <2>1. CASE /\ pending # None
               /\ pc' = [pc EXCEPT ![pending] = "done"]
               /\ jq' = Append(jq, Entry(pending, "cancelled", "none"))
      <3>1. /\ pending \in Req /\ pc[pending] \in Started /\ "done" \in Started
            /\ UNCHANGED <<bound, log, reserved>>
        BY <2>1, <1>3 DEF TypeOK, PromptOwnsSlot, Started, Disconnect
      <3>2. Entry(pending, "cancelled", "none") \in Appends
        BY <3>1, EntryType DEF EntryTypes
      <3>3. Unawaited(jq')
        BY <1>t, <2>1, <3>1, <3>2, UnawaitedAppend DEF Entry
      <3> QED  BY <1>k, <2>1, <3>1, <3>3
    <2>2. CASE UNCHANGED <<pc, jq>>
      BY <1>1, <1>3, <2>2 DEF Disconnect
    <2> QED  BY <1>3, <2>1, <2>2 DEF Disconnect
  <1>4. CASE Crash
    <2>1. /\ \A r \in Req : pc'[r] = IF log[r] = <<>> THEN "idle" ELSE "done"
          /\ \A r \in Req : log[r] # <<>> => bound'[r] = bound[r]
          /\ jq' = <<>> /\ log' = log /\ reserved' = reserved
      BY <1>4 DEF Crash
    <2>2. "idle" \notin Started /\ "done" \in Started
      BY DEF Started
    <2>3. \A r \in Req :
              /\ pc'[r] \in Started <=> pc[r] \in Started
              /\ log'[r] # <<>> <=> log[r] # <<>>
              /\ pc'[r] # "idle" => bound'[r] \in Manifest
              /\ pc'[r] \in Started => bound'[r] = bound[r]
              /\ pc'[r] \notin {"reading", "closing"}
      BY <2>1, <2>2 DEF CallShape, Started
    <2>4. Unawaited(jq')
      BY <2>1 DEF Unawaited
    <2> QED  BY <1>t, <2>1, <2>3, <2>4, ShapeKept
  <1>5. ASSUME NEW r \in Req, NEW approved \in BOOLEAN,
               ResolvePrompt(r, approved)
        PROVE  CallShape'
    <2>1. \E p \in {"done", "approving"} : pc' = [pc EXCEPT ![r] = p]
      BY <1>5, Zenon DEF ResolvePrompt
    <2>2. pc[r] \in Started /\ {"done", "approving"} \subseteq Started
      BY <1>5 DEF ResolvePrompt, PromptOwnsSlot, Started
    <2>3. UNCHANGED <<bound, log, reserved>>
      BY <1>5 DEF ResolvePrompt
    <2>4. \E e \in Appends : e.id = r /\ jq' = Append(jq, e)
      <3>1. \A type \in EntryTypes, by \in {"none", "call"} :
               Entry(r, type, by) \in Appends /\ Entry(r, type, by).id = r
        BY EntryType DEF Entry
      <3>2. \E type \in EntryTypes, by \in {"none", "call"} :
               jq' = Append(jq, Entry(r, type, by))
        BY <1>5, Zenon DEF ResolvePrompt, EntryTypes
      <3> QED  BY <3>1, <3>2, Zenon
    <2>5. Unawaited(jq')
      BY <1>t, <2>2, <2>4, UnawaitedAppend
    <2> QED  BY <1>k, <2>1, <2>2, <2>3, <2>5
  <1>6. ASSUME NEW r \in Req, EngineStep(r) PROVE CallShape'
    <2>0. SUFFICES ASSUME \/ Prepared(r) \/ Signed(r) \/ Broadcast(r)
                          \/ AppSigned(r) \/ OpFails(r)
                   PROVE  CallShape'
      <3>1. CASE Sends(r) \/ Accepted(r)
        BY <1>1, <3>1 DEF Sends, Accepted, journalVars
      <3> QED  BY <1>6, <3>1 DEF EngineStep
    <2>1. /\ pc[r] \in OpPhases
          /\ UNCHANGED <<bound, log, reserved>>
      BY <2>0 DEF Prepared, Signed, Broadcast, AppSigned, OpFails, MayFail,
           OpPhases, chainVars, journalVars
    <2>2. \E p \in {"sign", "broadcast", "recording", "attesting", "failing"} :
             pc' = [pc EXCEPT ![r] = p]
      BY <2>0, Zenon DEF Prepared, Signed, Broadcast, AppSigned, OpFails
    <2>3. \/ jq' = jq
          \/ \E type \in {"broadcast", "failed", "sign-app"} :
                jq' = Append(jq, Entry(r, type, "call"))
      BY <2>0, Zenon DEF Prepared, Signed, Broadcast, AppSigned, OpFails,
           journalVars
    <2>4. \A type \in EntryTypes : /\ Entry(r, type, "call") \in Appends
                                   /\ Entry(r, type, "call").by = "call"
      BY EntryType DEF Entry
    <2>5. {"broadcast", "failed", "sign-app"} \subseteq EntryTypes
      BY DEF EntryTypes
    <2>6. Unawaited(jq')
      <3>1. \A type \in EntryTypes : Unawaited(Append(jq, Entry(r, type, "call")))
        BY <1>t, <2>4, UnawaitedAppend
      <3> QED  BY <1>t, <2>3, <2>5, <3>1, ZenonT(30)
    <2>7. pc[r] \in Started
      BY <2>1 DEF OpPhases, Started
    <2>8. {"sign", "broadcast", "recording", "attesting", "failing"}
             \subseteq Started
      BY DEF Started
    <2> QED  BY <1>k, <2>1, <2>2, <2>6, <2>7, <2>8
  <1>p. ASSUME NEW r \in Req, NEW p \in Phases \ Started,
               pc[r] \notin Started,
               pc' = [pc EXCEPT ![r] = p],
               \A q \in Req : q # r => bound'[q] = bound[q],
               p # "idle" => bound'[r] \in Manifest,
               p \in {"reading", "closing"} =>
                  bound'[r] = bound[r] /\ Holder(r) # None,
               reserved' = reserved,
               \A q \in Req : log'[q] # <<>> <=> log[q] # <<>>,
               Unawaited(jq')
        PROVE  CallShape'
    <2>1. \A q \in Req : q # r => pc'[q] = pc[q]
      BY <1>p DEF TypeOK
    <2>2. pc'[r] = p
      BY <1>p DEF TypeOK
    <2>3. ASSUME NEW q \in Req
          PROVE  /\ pc'[q] \in Started <=> pc[q] \in Started
                 /\ pc'[q] # "idle" => bound'[q] \in Manifest
                 /\ pc'[q] \in Started => bound'[q] = bound[q]
                 /\ pc'[q] \in {"reading", "closing"} =>
                       bound'[q] = bound[q] /\ Holder(q) # None
      <3>1. CASE q = r
        BY <1>p, <2>2, <3>1
      <3>2. CASE q # r
        BY <1>p, <2>1, <3>2 DEF CallShape
      <3> QED  BY <3>1, <3>2
    <2> QED  BY <1>p, <1>t, <2>3, ShapeKept
  <1>o. ASSUME NEW r \in Req, OpenPrompt(r), pc[r] \notin Started,
               \A q \in Req : q # r => bound'[q] = bound[q],
               bound'[r] \in Manifest
        PROVE  CallShape'
    <2>1. Entry(r, "intent", "call") \in Appends
      BY EntryType DEF EntryTypes
    <2>2. Unawaited(jq')
      BY <1>o, <1>t, <2>1, UnawaitedAppend DEF OpenPrompt, Entry
    <2>3. "intent" \in Phases \ Started
      BY DEF Phases, Started
    <2>4. pc' = [pc EXCEPT ![r] = "intent"] /\ UNCHANGED <<log, reserved>>
      BY <1>o DEF OpenPrompt
    <2> QED  BY <1>o, <1>p, <2>2, <2>3, <2>4
  <1>7. ASSUME NEW r \in Req, CallStep(r) PROVE CallShape'
    <2>1. CASE RequestPayment(r)
      <3>1. /\ pc[r] = "idle" /\ pc' = [pc EXCEPT ![r] = "lookup"]
            /\ bound' = [bound EXCEPT ![r] = connected[TupleOf[r]]]
            /\ connected[TupleOf[r]] # None
            /\ UNCHANGED <<jq, log, reserved>>
        BY <2>1 DEF RequestPayment, journalVars
      <3>2. connected[TupleOf[r]] \in Manifest
        BY <3>1 DEF TypeOK
      <3>3. bound'[r] \in Manifest /\ \A q \in Req : q # r => bound'[q] = bound[q]
        BY <3>1, <3>2 DEF TypeOK
      <3>4. "lookup" \in Phases \ Started /\ "idle" \notin Started
        BY DEF Phases, Started
      <3>5. Unawaited(jq')
        BY <1>t, <3>1
      <3> QED  BY <1>p, <3>1, <3>3, <3>4, <3>5
    <2>2. CASE Lookup(r)
      <3>1. pc[r] = "lookup" /\ UNCHANGED <<jq, log, reserved>>
        BY <2>2 DEF Lookup, journalVars
      <3>2. \/ pc' = [pc EXCEPT ![r] = "quote"] /\ UNCHANGED bound
            \/ /\ pc' = [pc EXCEPT ![r] = "idle"]
               /\ bound' = [bound EXCEPT ![r] = None]
            \/ /\ Holder(r) # None
               /\ pc' = [pc EXCEPT ![r] = "reading"] /\ UNCHANGED bound
        BY <2>2 DEF Lookup
      <3>3. /\ bound[r] \in Manifest
            /\ \A q \in Req : q # r => bound'[q] = bound[q]
        <4>1. bound[r] \in Manifest
          BY <3>1 DEF CallShape
        <4>2. bound' = bound \/ bound' = [bound EXCEPT ![r] = None]
          BY <3>2
        <4> QED  BY <4>1, <4>2 DEF TypeOK
      <3>4. /\ {"quote", "idle", "reading"} \subseteq Phases \ Started
            /\ "lookup" \notin Started
        BY DEF Phases, Started
      <3>5. Unawaited(jq')
        BY <1>t, <3>1
      <3>6. \E p \in {"quote", "idle", "reading"} :
               /\ pc' = [pc EXCEPT ![r] = p]
               /\ p # "idle" => bound' = bound
               /\ p = "reading" => Holder(r) # None
        BY <3>2
      <3> QED  BY <1>p, <3>1, <3>3, <3>4, <3>5, <3>6
    <2>3. CASE ReadState(r)
      <3>1. pc[r] = "reading" /\ UNCHANGED <<log, reserved>>
        BY <2>3 DEF ReadState
      <3>2. \/ /\ jq' = Append(jq, Entry(Holder(r), "expired", r))
               /\ ~(Reported(Holder(r)) # "none")
               /\ pc' = [pc EXCEPT ![r] = "closing"] /\ UNCHANGED bound
            \/ /\ pc' = [pc EXCEPT ![r] = "idle"] /\ UNCHANGED jq
               /\ bound' = [bound EXCEPT ![r] = None]
        BY <2>3, Zenon DEF ReadState
      <3>3. /\ Holder(r) \in Req /\ pc[Holder(r)] \in Started
            /\ bound[r] \in Manifest /\ Holder(r) # None
        BY <3>1 DEF CallShape, TypeOK, Holder, ReservationKey, DriveFor, Slots
      <3>4. Entry(Holder(r), "expired", r) \in Appends
        BY <3>3, EntryType DEF EntryTypes
      <3>5. Unawaited(Append(jq, Entry(Holder(r), "expired", r)))
        BY <1>t, <3>3, <3>4, UnawaitedAppend DEF Entry
      <3>6. Unawaited(jq')
        BY <1>t, <3>2, <3>5, Zenon
      <3>7. {"closing", "idle"} \subseteq Phases \ Started /\ "reading" \notin Started
        BY DEF Phases, Started
      <3>8. \E p \in {"closing", "idle"} :
               pc' = [pc EXCEPT ![r] = p] /\ (p # "idle" => bound' = bound)
        BY <3>2, Zenon
      <3>9. \A q \in Req : q # r => bound'[q] = bound[q]
        <4>1. bound' = bound \/ bound' = [bound EXCEPT ![r] = None]
          BY <3>2, Zenon
        <4> QED  BY <4>1 DEF TypeOK
      <3> QED  BY <1>p, <3>1, <3>3, <3>6, <3>7, <3>8, <3>9
    <2>4. CASE Quote(r)
      <3>1. pc[r] = "quote" /\ "quote" \notin Started
        BY <2>4 DEF Quote, Started
      <3>2. bound[r] \in Manifest
        BY <3>1 DEF CallShape
      <3>3. CASE OpenPrompt(r) /\ UNCHANGED bound
        BY <1>o, <3>1, <3>2, <3>3
      <3>4. CASE /\ pc' = [pc EXCEPT ![r] = "idle"]
                 /\ bound' = [bound EXCEPT ![r] = None]
                 /\ UNCHANGED journalVars
        <4>1. /\ \A q \in Req : q # r => bound'[q] = bound[q]
              /\ UNCHANGED <<jq, log, reserved>>
          BY <3>4 DEF TypeOK, journalVars
        <4>2. "idle" \in Phases \ Started
          BY DEF Phases, Started
        <4>3. Unawaited(jq')
          BY <1>t, <4>1
        <4> QED  BY <1>p, <3>1, <3>4, <4>1, <4>2, <4>3
      <3> QED  BY <2>4, <3>3, <3>4 DEF Quote
    <2>5. CASE RequestSignature(r)
      <3>1. /\ pc[r] = "idle" /\ OpenPrompt(r)
            /\ bound' = [bound EXCEPT ![r] = connected[TupleOf[r]]]
            /\ connected[TupleOf[r]] # None
        BY <2>5 DEF RequestSignature, OpenPrompt, CanOpen
      <3>2. connected[TupleOf[r]] \in Manifest
        BY <3>1 DEF TypeOK
      <3>3. bound'[r] \in Manifest /\ \A q \in Req : q # r => bound'[q] = bound[q]
        BY <3>1, <3>2 DEF TypeOK
      <3> QED  BY <1>o, <3>1, <3>3 DEF Started
    <2> QED  BY <1>7, <2>1, <2>2, <2>3, <2>4, <2>5 DEF CallStep
  <1>8. ASSUME NEW ok \in BOOLEAN, OutcomeSettles(ok) \/ LockSettles(ok)
        PROVE  CallShape'
    <2>1. {"rejection", "cancelled", "expired"} \subseteq EntryTypes
      BY DEF EntryTypes
    <2>2. /\ \A q \in Req : log'[q] # <<>> <=> log[q] # <<>>
          /\ Unawaited(Tail(jq))
      <3>1. CASE OutcomeSettles(ok)
        <4>1. PICK r \in Req, type \in {"rejection", "cancelled", "expired"} :
                 Settles(r, type, "none", ok)
          BY <3>1 DEF OutcomeSettles
        <4> QED  BY <2>1, <4>1, SettlesDurable
      <3>2. CASE LockSettles(ok)
        <4>1. PICK r \in Req : Settles(r, "cancelled", "lock", ok)
          BY <3>2 DEF LockSettles
        <4> QED  BY <2>1, <4>1, SettlesDurable
      <3> QED  BY <1>8, <3>1, <3>2
    <2>3. jq' = Tail(jq) /\ UNCHANGED <<pc, bound, reserved>>
      BY <1>8 DEF OutcomeSettles, LockSettles
    <2>4. Unawaited(jq')
      BY <2>2, <2>3, Zenon
    <2> QED  BY <1>t, <2>2, <2>3, <2>4, ShapeKept DEF CallShape
  <1>9. ASSUME NEW r \in Req, NEW ok \in BOOLEAN, ClosureSettles(r, ok)
        PROVE  CallShape'
    <2>1. /\ pc[r] = "closing" /\ Settles(Holder(r), "expired", r, ok)
          /\ jq' = Tail(jq) /\ pc' = [pc EXCEPT ![r] = "idle"]
          /\ bound' = [bound EXCEPT ![r] = None] /\ UNCHANGED reserved
      BY <1>9 DEF ClosureSettles
    <2>2. Holder(r) \in Req
      BY <2>1 DEF CallShape, TypeOK, Holder, ReservationKey, DriveFor, Slots
    <2>3. "expired" \in EntryTypes /\ r # "call"
      BY DEF EntryTypes
    <2>4. /\ \A q \in Req : log'[q] # <<>> <=> log[q] # <<>>
          /\ Unawaited(Tail(jq))
      <3>1. ASSUME NEW h \in Req, Settles(h, "expired", r, ok)
            PROVE  /\ \A q \in Req : log'[q] # <<>> <=> log[q] # <<>>
                   /\ Unawaited(Tail(jq))
        BY <3>1, ClosedDurable
      <3> QED  BY <2>1, <2>2, <3>1
    <2>5. Unawaited(jq')
      BY <2>1, <2>4, Zenon
    <2>6. \A q \in Req : q # r => bound'[q] = bound[q]
      BY <2>1 DEF TypeOK
    <2>7. "idle" \in Phases \ Started /\ "closing" \notin Started
      BY DEF Phases, Started
    <2> QED  BY <1>p, <2>1, <2>4, <2>5, <2>6, <2>7
  <1>s. ASSUME NEW r \in Req, NEW type \in EntryTypes, NEW ok \in BOOLEAN,
               Settles(r, type, "call", ok), pc[r] \in Started
        PROVE  /\ \A q \in Req : log'[q] # <<>> <=> log[q] # <<>>
               /\ Unawaited(Tail(jq))
               /\ \A next \in EntryTypes, by \in {"call", "none"} :
                     Unawaited(Append(Tail(jq), Entry(r, next, by)))
    <2>1. /\ \A q \in Req : log'[q] # <<>> <=> log[q] # <<>>
          /\ Unawaited(Tail(jq)) /\ Tail(jq) \in Seq(Appends)
      BY <1>s, SettlesDurable
    <2>2. \A next \in EntryTypes, by \in {"call", "none"} :
             /\ Entry(r, next, by) \in Appends
             /\ Entry(r, next, by).id = r
      BY EntryType DEF Entry
    <2>3. \A next \in EntryTypes, by \in {"call", "none"} :
             Unawaited(Append(Tail(jq), Entry(r, next, by)))
      BY <1>s, <2>1, <2>2, UnawaitedAppend
    <2> QED  BY <2>1, <2>3
  <1>10. ASSUME NEW r \in Req, NEW ok \in BOOLEAN,
                \/ PromptSettles(r, ok)
                \/ ApprovalSettles(r, ok)
                \/ FailureSettles(r, ok)
                \/ BroadcastSettles(r, ok)
                \/ SubmissionSettles(r, ok)
                \/ AttestationSettles(r, ok)
         PROVE  CallShape'
    <2>1. pc[r] \in {"prompt", "approving", "failing", "recording",
                     "reporting", "attesting"}
      BY <1>10 DEF PromptSettles, ApprovalSettles, FailureSettles,
           BroadcastSettles, SubmissionSettles, AttestationSettles
    <2>2. \E type \in {"prompt", "approval", "failed", "broadcast",
                       "submitted", "sign-app"} : Settles(r, type, "call", ok)
      BY <1>10, Zenon DEF PromptSettles, ApprovalSettles, FailureSettles,
           BroadcastSettles, SubmissionSettles, AttestationSettles
    <2>3. \/ jq' = Tail(jq)
          \/ \E next \in {"cancelled", "failed", "submitted"},
                by \in {"call", "none"} :
                jq' = Append(Tail(jq), Entry(r, next, by))
      BY <1>10, Zenon DEF PromptSettles, ApprovalSettles, FailureSettles,
           BroadcastSettles, SubmissionSettles, AttestationSettles, StartOp,
           PaymentSettled
    <2>4. \E p \in {"open", "done", "prepare", "signapp", "failing",
                    "reporting"} : pc' = [pc EXCEPT ![r] = p]
      BY <1>10, Zenon DEF PromptSettles, ApprovalSettles, FailureSettles,
           BroadcastSettles, SubmissionSettles, AttestationSettles, StartOp,
           PaymentSettled
    <2>5. UNCHANGED <<bound, reserved>>
      BY <1>10 DEF PromptSettles, ApprovalSettles, FailureSettles,
           BroadcastSettles, SubmissionSettles, AttestationSettles
    <2>6. pc[r] \in Started
      BY <2>1 DEF Started
    <2>7. /\ {"prompt", "approval", "failed", "broadcast", "submitted",
              "sign-app", "cancelled"} \subseteq EntryTypes
          /\ {"open", "done", "prepare", "signapp", "failing", "reporting"}
                \subseteq Started
      BY DEF EntryTypes, Started
    <2>8. \/ jq' = Tail(jq)
          \/ \E next \in EntryTypes, by \in {"call", "none"} :
                jq' = Append(Tail(jq), Entry(r, next, by))
      BY <2>3, <2>7, Zenon
    <2>9. /\ \A q \in Req : log'[q] # <<>> <=> log[q] # <<>>
          /\ Unawaited(jq')
      <3>1. PICK type \in EntryTypes : Settles(r, type, "call", ok)
        BY <2>2, <2>7
      <3>2. /\ \A q \in Req : log'[q] # <<>> <=> log[q] # <<>>
            /\ Unawaited(Tail(jq))
            /\ \A next \in EntryTypes, by \in {"call", "none"} :
                  Unawaited(Append(Tail(jq), Entry(r, next, by)))
        BY <1>s, <2>6, <3>1
      <3>3. CASE jq' = Tail(jq)
        BY <3>2, <3>3
      <3>4. ASSUME NEW next \in EntryTypes, NEW by \in {"call", "none"},
                   jq' = Append(Tail(jq), Entry(r, next, by))
            PROVE  Unawaited(jq')
        <4>1. Unawaited(Append(Tail(jq), Entry(r, next, by)))
          BY <3>2
        <4> QED  BY <3>4, <4>1
      <3> QED  BY <2>8, <3>2, <3>3, <3>4
    <2> QED  BY <1>k, <2>4, <2>5, <2>6, <2>7, <2>9
  <1>11. ASSUME NEW r \in Req, NEW ok \in BOOLEAN, IntentSettles(r, ok)
         PROVE  CallShape'
    <2> DEFINE durable == ok /\ ~KeyTaken(r)
    <2>1. pc[r] = "intent" /\ Settles(r, "intent", "call", durable)
      BY <1>11 DEF IntentSettles
    <2>2. jq # <<>> /\ Tail(jq) \in Seq(Appends) /\ Unawaited(Tail(jq))
      BY <1>t, <2>1, QueueTail, UnawaitedTail DEF Settles
    <2>3. /\ "intent" \notin Started /\ {"prompt"} \subseteq Started
          /\ {"lookup", "idle"} \subseteq Phases \ Started
      BY DEF Started, Phases
    <2>4. bound[r] \in Manifest /\ log[r] = <<>>
      BY <2>1, <2>3 DEF CallShape
    <2>5. CASE ~durable
      <3>1. \E p \in {"lookup", "idle"} :
               /\ pc' = [pc EXCEPT ![r] = p]
               /\ p # "idle" => bound' = bound
        BY <1>11, <2>5, Zenon DEF IntentSettles
      <3>2. /\ jq' = Tail(jq) /\ log' = log /\ reserved' = reserved
            /\ \A q \in Req : q # r => bound'[q] = bound[q]
        <4>1. /\ jq' = Tail(jq) /\ log' = log /\ reserved' = reserved
              /\ bound' = bound \/ bound' = [bound EXCEPT ![r] = None]
          BY <1>11, <2>5 DEF IntentSettles, Settles
        <4> QED  BY <4>1 DEF TypeOK
      <3>3. Unawaited(jq')
        BY <2>2, <3>2, Zenon
      <3> QED  BY <1>p, <2>1, <2>3, <2>4, <3>1, <3>2, <3>3
    <2>6. CASE durable
      <3>1. /\ pc' = [pc EXCEPT ![r] = "prompt"] /\ bound' = bound
            /\ log' = [log EXCEPT ![r] = Append(log[r], "intent")]
            /\ reserved' = IF r \in Payments
                           THEN [reserved EXCEPT ![ReservationKey(r)] = r]
                           ELSE reserved
        BY <1>11, <2>6 DEF IntentSettles, Settles
      <3>2. ReservationKey(r) \in Slots
        BY <2>4 DEF ReservationKey, DriveFor, Slots
      <3>3. \A q \in Req : q # r => pc'[q] = pc[q] /\ log'[q] = log[q]
        BY <3>1 DEF TypeOK
      <3>4. pc'[r] = "prompt" /\ log'[r] # <<>>
        <4>0. log[r] \in Seq(EntryTypes) /\ "intent" \in EntryTypes
          BY DEF TypeOK, EntryTypes
        <4>1. Append(log[r], "intent") # <<>>
          BY <4>0, QueueAppend
        <4> QED  BY <3>1, <4>1 DEF TypeOK
      <3>5. \A s \in Slots : reserved'[s] = reserved[s] \/ reserved'[s] = r
        BY <3>1 DEF TypeOK
      <3>6. \A q \in Req : q # r => (log'[q] # <<>> <=> pc'[q] \in Started)
        BY <3>3 DEF CallShape
      <3>7. \A s \in Slots : reserved'[s] # None => pc'[reserved'[s]] \in Started
        <4> SUFFICES ASSUME NEW s \in Slots, reserved'[s] # None,
                            reserved'[s] # r
                     PROVE  pc'[reserved'[s]] \in Started
          BY <2>3, <3>4
        <4>1. /\ reserved'[s] = reserved[s] /\ reserved[s] \in Req
              /\ pc[reserved[s]] \in Started
          BY <3>5 DEF CallShape, TypeOK
        <4>2. pc'[reserved[s]] = pc[reserved[s]]
          BY <3>3, <4>1
        <4> QED  BY <4>1, <4>2
      <3>8. \A q \in Req : Holder(q)' = reserved'[ReservationKey(q)]
        BY <3>1 DEF Holder, ReservationKey, DriveFor
      <3>9. \A q \in Req : pc'[q] \in {"reading", "closing"} => Holder(q)' # None
        <4> SUFFICES ASSUME NEW q \in Req, pc'[q] \in {"reading", "closing"}
                     PROVE  Holder(q)' # None
          OBVIOUS
        <4>1. q # r /\ Holder(q) # None
          BY <3>3, <3>4 DEF CallShape
        <4>2. ReservationKey(q) \in Slots
          BY <3>3, <4>1 DEF CallShape, ReservationKey, DriveFor, Slots
        <4> QED  BY <3>5, <3>8, <4>1, <4>2 DEF Holder
      <3>10. \A q \in Payments : pc'[q] \in Started => Holder(q)' = q
        <4> SUFFICES ASSUME NEW q \in Payments, pc'[q] \in Started
                     PROVE  Holder(q)' = q
          OBVIOUS
        <4>1. CASE q = r
          BY <3>1, <3>2, <3>8, <4>1 DEF TypeOK
        <4>2. CASE q # r
          <5>1. pc[q] \in Started /\ Holder(q) = q /\ q \in Req
            BY <3>3, <4>2 DEF CallShape
          <5>2. ReservationKey(q) \in Slots
            BY <5>1 DEF CallShape, Started, ReservationKey, DriveFor, Slots
          <5>3. r \in Payments => ReservationKey(q) # ReservationKey(r)
            BY <2>6, <5>1 DEF KeyTaken, Holder
          <5>4. reserved'[ReservationKey(q)] = reserved[ReservationKey(q)]
            BY <3>1, <3>2, <5>2, <5>3 DEF TypeOK
          <5> QED  BY <3>8, <5>1, <5>4 DEF Holder
        <4> QED  BY <4>1, <4>2
      <3>11. Unawaited(jq')
        <4>1. Entry(r, "prompt", "call") \in Appends
          BY EntryType DEF EntryTypes
        <4>2. jq' = Append(Tail(jq), Entry(r, "prompt", "call"))
          BY <1>11, <2>6 DEF IntentSettles
        <4>3. Unawaited(Append(Tail(jq), Entry(r, "prompt", "call")))
          BY <2>2, <4>1, UnawaitedAppend DEF Entry
        <4> QED  BY <4>2, <4>3, Zenon
      <3>12. \A i \in DOMAIN jq' : jq'[i].by # "call" => pc'[jq'[i].id] \in Started
        BY <1>t, <2>3, <3>3, <3>4, <3>11 DEF Unawaited
      <3>13. \A q \in Req : pc'[q] # "idle" => bound'[q] \in Manifest
        BY <2>4, <3>1, <3>3 DEF CallShape
      <3> QED
        BY <2>3, <3>4, <3>6, <3>7, <3>9, <3>10, <3>12, <3>13 DEF CallShape
    <2> QED  BY <2>5, <2>6
  <1>12. ASSUME \/ UNCHANGED vars
                \/ UnlockStart \/ UnlockSettles \/ AddressRead \/ EngineLocked
                \/ EngineFaults \/ WorkletExits
                \/ PromptExpires
                \/ \E t \in Tuple, m \in Manifest : Connect(t, m)
                \/ \E d \in Drive : StampExpires(d)
         PROVE  UNCHANGED <<pc, bound, log, jq, reserved>>
    BY <1>12 DEF vars, journalVars, UnlockStart, UnlockSettles, AddressRead,
         EngineLocked, EngineFaults, WorkletExits, PromptExpires, Connect, StampExpires
  <1> QED
    BY NextCases, <1>1, <1>2, <1>3, <1>4, <1>5, <1>6, <1>7, <1>8, <1>9, <1>10,
       <1>11, <1>12
-----------------------------------------------------------------------------
\* The invariant the first three theorems share: TypeOK needs the shape of
\* calls (a replayed intent exists), which needs the slot discipline (a
\* cancelled prompt belongs to an open intent).
CallInv == TypeOK /\ PromptOwnsSlot /\ CallShape

LEMMA CallInvInit == Init => CallInv
  <1> SUFFICES ASSUME Init PROVE CallInv
    OBVIOUS
  <1> USE WalletAssumption DEF Init
  <1>1. TypeOK
    <2>1. /\ engine \in EngineStates /\ unlocking \in BOOLEAN
          /\ autolock \in BOOLEAN /\ late \in BOOLEAN
          /\ slot \in Req \cup {None} /\ pending \in Req \cup {None}
          /\ onChain \in SUBSET Req /\ sent \in SUBSET Req
          /\ chainNonce \in Nat /\ worklet \in BOOLEAN
      BY DEF EngineStates
    <2>2. /\ connected \in [Tuple -> Manifest \cup {None}]
          /\ pc \in [Req -> Phases]
          /\ bound \in [Req -> Manifest \cup {None}]
          /\ op \in [Req -> OpStates]
          /\ nonce \in [Req -> Nat]
      BY DEF Phases, OpStates
    <2>3. jq \in Seq(Appends) /\ log \in [Req -> Seq(EntryTypes)]
      <3>1. <<>> \in Seq(Appends) /\ <<>> \in Seq(EntryTypes)
        OBVIOUS
      <3> QED  BY <3>1
    <2>4. /\ reserved \in [Slots -> Req \cup {None}]
          /\ preps \in [Drive -> Nat] /\ pays \in [Drive -> Nat]
      OBVIOUS
    <2> HIDE DEF Init
    <2> QED  BY <2>1, <2>2, <2>3, <2>4 DEF TypeOK
  <1>2. PromptOwnsSlot
    BY DEF PromptOwnsSlot
  <1>3. CallShape
    BY DEF CallShape, Started
  <1> QED  BY <1>1, <1>2, <1>3 DEF CallInv

LEMMA CallInvNext == CallInv /\ [Next]_vars => CallInv'
  BY TypeNext, SlotNext, ShapeNext DEF CallInv

LEMMA CallInvAlways == Spec => []CallInv
  BY CallInvInit, CallInvNext, PTL DEF Spec

\* Every variable keeps its type, for any set of calls and any limits; the
\* entry an idempotent replay closes is always an intent's, never none.
THEOREM TypeCorrect == Spec => []TypeOK
  <1>1. CallInv => TypeOK
    BY DEF CallInv
  <1> QED  BY <1>1, CallInvAlways, PTL

\* The policy's prompt slot and the service's pending prompt agree through
\* all the awaits of _openPrompt, resolvePrompt, lock and _disconnect.
THEOREM SlotCorrect == Spec => []PromptOwnsSlot
  <1>1. CallInv => PromptOwnsSlot
    BY DEF CallInv
  <1> QED  BY <1>1, CallInvAlways, PTL
-----------------------------------------------------------------------------
(* The settlement: what is sent was approved and never refused.            *)

Refusals == {"rejection", "cancelled"}

\* The queue q holds a refusal of r.
RefusalIn(q, r) == \E i \in DOMAIN q : q[i].id = r /\ q[i].type \in Refusals

Refused(r) ==
    InLog(r, "rejection") \/ InLog(r, "cancelled") \/ RefusalIn(jq, r)

Spending == {"prepare", "sign", "broadcast", "recording", "reporting"}

\* Where an intent whose transaction has been sent can stand.
AfterSpend == {"broadcast", "recording", "reporting", "failing", "done"}

\* The engine works for r only after its approval is durable; only payments
\* are sent, and only what was sent is on chain; a broadcast is answered, and
\* claimed by the journal, after the chain took it; a refused intent is at rest.
SettlesWell(r) ==
    /\ pc[r] \in OpPhases \cup {"recording", "reporting", "attesting"} =>
          InLog(r, "approval")
    /\ pc[r] \in Spending => r \in Payments
    /\ r \in sent =>
          r \in Payments /\ InLog(r, "approval") /\ pc[r] \in AfterSpend
    /\ r \in onChain => r \in sent
    /\ pc[r] \in {"recording", "reporting"} => r \in onChain
    /\ InLog(r, "broadcast") \/ InLog(r, "submitted") => r \in onChain
    /\ Refused(r) => pc[r] = "done" /\ r \notin sent

SettlementShape == \A r \in Req : SettlesWell(r)

\* The journal records type for r (if ok), and nothing else changes in it.
Records(r, type, ok) ==
    \A q \in Req, t \in EntryTypes :
       InLog(q, t)' <=> InLog(q, t) \/ (ok /\ q = r /\ t = type)

LEMMA RefusalAppend ==
    ASSUME NEW q \in Seq(Appends), NEW e \in Appends, NEW r \in Req,
           RefusalIn(Append(q, e), r)
    PROVE  RefusalIn(q, r) \/ (e.id = r /\ e.type \in Refusals)
  BY QueueAppend DEF RefusalIn

LEMMA RefusalTail ==
    ASSUME NEW q \in Seq(Appends), q # <<>>, NEW r \in Req,
           RefusalIn(Tail(q), r)
    PROVE  RefusalIn(q, r)
  BY QueueTail DEF RefusalIn

LEMMA SettlesRecords ==
    ASSUME TypeOK, NEW r \in Req, NEW type \in EntryTypes,
           NEW by, NEW ok \in BOOLEAN, Settles(r, type, by, ok)
    PROVE  /\ Records(r, type, ok)
           /\ jq # <<>> /\ jq \in Seq(Appends) /\ Tail(jq) \in Seq(Appends)
           /\ type \in Refusals => RefusalIn(jq, r)
  <1>1. ASSUME NEW q \in Req, NEW t \in EntryTypes
        PROVE  InLog(q, t)' <=> InLog(q, t) \/ (ok /\ q = r /\ t = type)
    <2>1. CASE ok /\ q = r
      <3>1. /\ log[r] \in Seq(EntryTypes) /\ log'[r] = Append(log[r], type)
        BY <2>1 DEF Settles, TypeOK
      <3>2. /\ DOMAIN log'[r] = 1 .. Len(log[r]) + 1
            /\ DOMAIN log[r] = 1 .. Len(log[r]) /\ Len(log[r]) \in Nat
            /\ \A i \in DOMAIN log[r] : log'[r][i] = log[r][i]
            /\ log'[r][Len(log[r]) + 1] = type
        BY <3>1
      <3>3. \A i \in DOMAIN log'[r] : i \in DOMAIN log[r] \/ i = Len(log[r]) + 1
        BY <3>2
      <3>4. Len(log[r]) + 1 \in DOMAIN log'[r] /\ DOMAIN log[r] \subseteq DOMAIN log'[r]
        BY <3>2
      <3> QED  BY <2>1, <3>2, <3>3, <3>4 DEF InLog
    <2>2. CASE ~(ok /\ q = r)
      <3>1. log'[q] = log[q]
        BY <2>2 DEF Settles, TypeOK
      <3> QED  BY <2>2, <3>1 DEF InLog
    <2> QED  BY <2>1, <2>2
  <1>2. jq # <<>> /\ jq \in Seq(Appends) /\ Tail(jq) \in Seq(Appends)
    BY QueueTail DEF Settles, TypeOK
  <1>3. ASSUME type \in Refusals PROVE RefusalIn(jq, r)
    <2>1. 1 \in DOMAIN jq /\ jq[1] = Entry(r, type, by)
      BY <1>2, QueueTail DEF Settles
    <2>2. jq[1].id = r /\ jq[1].type = type
      BY <2>1 DEF Entry
    <2> QED  BY <1>3, <2>1, <2>2 DEF RefusalIn
  <1> QED  BY <1>1, <1>2, <1>3 DEF Records

\* What a step leaves alone stays well.
LEMMA Untouched ==
    ASSUME TypeOK, NEW r \in Req, SettlesWell(r), pc'[r] = pc[r],
           r \in sent' <=> r \in sent, r \in onChain' <=> r \in onChain,
           \A t \in {"approval", "broadcast", "submitted"} :
              InLog(r, t)' <=> InLog(r, t),
           Refused(r)' => Refused(r)
    PROVE  SettlesWell(r)'
  BY DEF SettlesWell

LEMMA SettlementNext ==
    ASSUME TypeOK, TypeOK', CallShape, PromptOwnsSlot, SettlementShape,
           [Next]_vars
    PROVE  SettlementShape'
  <1> USE WalletAssumption
  <1>q. jq \in Seq(Appends)
    BY DEF TypeOK
  \* Steps that write nothing to the journal and refuse nothing.
  <1>u. ASSUME log' = log, \A q \in Req : RefusalIn(jq', q) => RefusalIn(jq, q)
        PROVE  \A q \in Req : /\ Refused(q)' => Refused(q)
                              /\ \A t \in EntryTypes : InLog(q, t)' <=> InLog(q, t)
    <2>1. \A q \in Req, t \in EntryTypes : InLog(q, t)' <=> InLog(q, t)
      BY <1>u DEF InLog
    <2> QED  BY <1>u, <2>1 DEF Refused, RefusalIn, EntryTypes
  <1>1. CASE UNCHANGED <<pc, sent, onChain, log, jq>>
    <2>1. \A q \in Req : RefusalIn(jq', q) => RefusalIn(jq, q)
      BY <1>1
    <2>2. \A q \in Req : SettlesWell(q)'
      BY <1>1, <1>u, <2>1, Untouched DEF SettlementShape, EntryTypes
    <2> QED  BY <2>2 DEF SettlementShape
  \* An intent the engine does not work for moves, or is refused and ends.
  <1>c. ASSUME NEW r \in Req, NEW p \in Phases, pc[r] \notin AfterSpend,
               p \notin OpPhases \cup {"recording", "reporting", "attesting"},
               pc' = [pc EXCEPT ![r] = p], UNCHANGED <<sent, onChain>>,
               \A q \in Req :
                  /\ Refused(q)' => Refused(q) \/ (q = r /\ p = "done")
                  /\ InLog(q, "broadcast")' <=> InLog(q, "broadcast")
                  /\ InLog(q, "submitted")' <=> InLog(q, "submitted")
                  /\ q # r => (InLog(q, "approval")' <=> InLog(q, "approval"))
        PROVE  SettlementShape'
    <2>1. ASSUME NEW q \in Req PROVE SettlesWell(q)'
      <3>1. SettlesWell(q)
        BY DEF SettlementShape
      <3>2. CASE q # r
        <4>1. pc'[q] = pc[q]
          BY <1>c, <3>2 DEF TypeOK
        <4>2. /\ Refused(q)' => Refused(q)
              /\ q \in sent' <=> q \in sent
              /\ q \in onChain' <=> q \in onChain
              /\ \A t \in {"approval", "broadcast", "submitted"} :
                    InLog(q, t)' <=> InLog(q, t)
          BY <1>c, <3>2
        <4> QED  BY <3>1, <4>1, <4>2, Untouched
      <3>3. CASE q = r
        <4>1. pc'[q] = p
          BY <1>c, <3>3 DEF TypeOK
        <4>2. q \notin sent' /\ q \notin onChain' /\ ~Refused(q)
          BY <1>c, <3>1, <3>3 DEF SettlesWell, AfterSpend
        <4>3. ~InLog(q, "broadcast")' /\ ~InLog(q, "submitted")'
          BY <1>c, <3>1, <4>2 DEF SettlesWell
        <4>4. p \notin Spending
          BY <1>c DEF Spending, OpPhases
        <4>5. p \notin {"recording", "reporting"}
          BY <1>c
        <4>6. Refused(q)' => p = "done"
          BY <1>c, <4>2
        <4> QED
          BY <1>c, <4>1, <4>2, <4>3, <4>4, <4>5, <4>6 DEF SettlesWell
      <3> QED  BY <3>2, <3>3
    <2> QED  BY <2>1 DEF SettlementShape
  \* An approved intent moves on.
  <1>d. ASSUME NEW r \in Req, NEW p \in Phases, pc[r] # "done",
               pc' = [pc EXCEPT ![r] = p],
               UNCHANGED <<sent, onChain>>,
               (\/ p \in OpPhases \cup {"recording", "reporting", "attesting"}
                \/ r \in sent) => InLog(r, "approval")',
               p \in Spending \/ r \in sent => r \in Payments,
               r \in sent => p \in AfterSpend,
               (\/ p \in {"recording", "reporting"}
                \/ InLog(r, "broadcast")' \/ InLog(r, "submitted")')
                  => r \in onChain,
               \A q \in Req :
                  /\ Refused(q)' => Refused(q)
                  /\ q # r => \A t \in {"approval", "broadcast", "submitted"} :
                                 InLog(q, t)' <=> InLog(q, t)
        PROVE  SettlementShape'
    <2>1. ASSUME NEW q \in Req PROVE SettlesWell(q)'
      <3>1. SettlesWell(q)
        BY DEF SettlementShape
      <3>2. CASE q # r
        <4>1. pc'[q] = pc[q]
          BY <1>d, <3>2 DEF TypeOK
        <4>2. /\ Refused(q)' => Refused(q)
              /\ q \in sent' <=> q \in sent
              /\ q \in onChain' <=> q \in onChain
              /\ \A t \in {"approval", "broadcast", "submitted"} :
                    InLog(q, t)' <=> InLog(q, t)
          BY <1>d, <3>2
        <4> QED  BY <3>1, <4>1, <4>2, Untouched
      <3>3. CASE q = r
        <4>1. pc'[q] = p
          BY <1>d, <3>3 DEF TypeOK
        <4>2. ~Refused(q)' /\ (q \in onChain' => q \in sent')
          BY <1>d, <3>1, <3>3 DEF SettlesWell
        <4> QED
          BY <1>d, <3>3, <4>1, <4>2 DEF SettlesWell
      <3> QED  BY <3>2, <3>3
    <2> QED  BY <2>1 DEF SettlementShape
  \* Appending an entry that refuses nobody, or refuses r.
  <1>a. ASSUME NEW r \in Req, NEW type \in EntryTypes,
               NEW by \in {"call", "lock", "none"} \cup Req,
               jq' = jq \/ jq' = Append(jq, Entry(r, type, by))
        PROVE  \A q \in Req : RefusalIn(jq', q) =>
                  RefusalIn(jq, q) \/ (q = r /\ type \in Refusals)
    <2>1. /\ Entry(r, type, by) \in Appends
          /\ Entry(r, type, by).id = r /\ Entry(r, type, by).type = type
      BY EntryType DEF Entry
    <2>2. \A q \in Req : RefusalIn(Append(jq, Entry(r, type, by)), q) =>
             RefusalIn(jq, q) \/ (q = r /\ type \in Refusals)
      BY <1>q, <2>1, RefusalAppend
    <2> QED  BY <1>a, <2>2, Zenon
  \* An append settles, and another one may follow it.
  <1>s. ASSUME NEW r \in Req, NEW type \in EntryTypes, NEW by,
               NEW ok \in BOOLEAN, Settles(r, type, by, ok)
        PROVE  /\ Records(r, type, ok)
               /\ type \in Refusals => RefusalIn(jq, r)
               /\ \A q \in Req : RefusalIn(Tail(jq), q) => RefusalIn(jq, q)
               /\ \A id \in Req, next \in EntryTypes, who \in {"call", "none"} :
                  \A q \in Req :
                     RefusalIn(Append(Tail(jq), Entry(id, next, who)), q) =>
                        RefusalIn(jq, q) \/ (q = id /\ next \in Refusals)
    <2>1. /\ Records(r, type, ok) /\ jq # <<>> /\ Tail(jq) \in Seq(Appends)
          /\ type \in Refusals => RefusalIn(jq, r)
      BY <1>s, SettlesRecords
    <2>2. \A q \in Req : RefusalIn(Tail(jq), q) => RefusalIn(jq, q)
      BY <1>q, <2>1, RefusalTail
    <2>3. ASSUME NEW id \in Req, NEW next \in EntryTypes,
                 NEW who \in {"call", "none"}, NEW q \in Req,
                 RefusalIn(Append(Tail(jq), Entry(id, next, who)), q)
          PROVE  RefusalIn(jq, q) \/ (q = id /\ next \in Refusals)
      <3>1. /\ Entry(id, next, who) \in Appends
            /\ Entry(id, next, who).id = id /\ Entry(id, next, who).type = next
        BY EntryType DEF Entry
      <3> DEFINE e == Entry(id, next, who)
                 rest == Tail(jq)
      <3>2. rest \in Seq(Appends) /\ e \in Appends /\ RefusalIn(Append(rest, e), q)
        BY <2>1, <2>3, <3>1
      <3>3. RefusalIn(rest, q) \/ (e.id = q /\ e.type \in Refusals)
        <4> HIDE DEF e, rest
        <4> QED  BY <3>2, RefusalAppend
      <3> QED  BY <2>2, <3>1, <3>3
    <2> QED  BY <2>1, <2>2, <2>3
  \* A prompt is refused by the chrome, a lock or a disconnect.
  <1>r. ASSUME NEW r \in Req, NEW type \in EntryTypes,
               NEW by \in {"call", "lock", "none"} \cup Req, pc[r] = "open",
               pc' = [pc EXCEPT ![r] = "done"], UNCHANGED <<sent, onChain, log>>,
               jq' = Append(jq, Entry(r, type, by))
        PROVE  SettlementShape'
    <2>1. \A q \in Req : RefusalIn(jq', q) => RefusalIn(jq, q) \/ q = r
      BY <1>a, <1>r
    <2>2. \A q \in Req, t \in EntryTypes : InLog(q, t)' <=> InLog(q, t)
      BY <1>r DEF InLog
    <2>3. \A q \in Req : Refused(q)' => Refused(q) \/ q = r
      BY <2>1, <2>2 DEF Refused, RefusalIn, EntryTypes
    <2>4. /\ "done" \in Phases /\ "open" \notin AfterSpend
          /\ "done" \notin OpPhases \cup {"recording", "reporting", "attesting"}
          /\ {"approval", "broadcast", "submitted"} \subseteq EntryTypes
      BY DEF Phases, AfterSpend, OpPhases, EntryTypes
    <2>5. \A q \in Req :
             /\ Refused(q)' => Refused(q) \/ (q = r /\ "done" = "done")
             /\ InLog(q, "broadcast")' <=> InLog(q, "broadcast")
             /\ InLog(q, "submitted")' <=> InLog(q, "submitted")
             /\ q # r => (InLog(q, "approval")' <=> InLog(q, "approval"))
      BY <2>2, <2>3, <2>4
    <2>6. pc[r] \notin AfterSpend /\ UNCHANGED <<sent, onChain>>
      BY <1>r, <2>4
    <2> QED  BY <1>c, <1>r, <2>4, <2>5, <2>6
  <1>2. CASE Lock
    <2>1. CASE /\ pending # None
               /\ pc' = [pc EXCEPT ![pending] = "done"]
               /\ jq' = Append(jq, Entry(pending, "cancelled", "lock"))
      <3>1. /\ pending \in Req /\ pc[pending] = "open"
            /\ UNCHANGED <<sent, onChain, log>>
        BY <2>1, <1>2 DEF TypeOK, PromptOwnsSlot, Lock
      <3> QED  BY <1>r, <2>1, <3>1 DEF EntryTypes
    <2>2. CASE UNCHANGED <<pc, jq>>
      BY <1>1, <1>2, <2>2 DEF Lock
    <2> QED  BY <1>2, <2>1, <2>2 DEF Lock
  <1>3. ASSUME NEW t \in Tuple, Disconnect(t) PROVE SettlementShape'
    <2>1. CASE /\ pending # None
               /\ pc' = [pc EXCEPT ![pending] = "done"]
               /\ jq' = Append(jq, Entry(pending, "cancelled", "none"))
      <3>1. /\ pending \in Req /\ pc[pending] = "open"
            /\ UNCHANGED <<sent, onChain, log>>
        BY <2>1, <1>3 DEF TypeOK, PromptOwnsSlot, Disconnect, chainVars
      <3> QED  BY <1>r, <2>1, <3>1 DEF EntryTypes
    <2>2. CASE UNCHANGED <<pc, jq>>
      BY <1>1, <1>3, <2>2 DEF Disconnect, chainVars
    <2> QED  BY <1>3, <2>1, <2>2 DEF Disconnect
  <1>4. ASSUME NEW r \in Req, NEW approved \in BOOLEAN,
               ResolvePrompt(r, approved)
        PROVE  SettlementShape'
    <2>1. pc[r] = "open" /\ UNCHANGED <<sent, onChain, log>>
      BY <1>4 DEF ResolvePrompt, PromptOwnsSlot, chainVars
    <2>2. \/ /\ pc' = [pc EXCEPT ![r] = "done"]
             /\ \E type \in {"expired", "cancelled", "rejection"} :
                   jq' = Append(jq, Entry(r, type, "none"))
          \/ /\ pc' = [pc EXCEPT ![r] = "approving"]
             /\ jq' = Append(jq, Entry(r, "approval", "call"))
      BY <1>4, Zenon DEF ResolvePrompt
    <2>3. CASE /\ pc' = [pc EXCEPT ![r] = "done"]
               /\ \E type \in {"expired", "cancelled", "rejection"} :
                     jq' = Append(jq, Entry(r, type, "none"))
      <3>1. PICK type \in {"expired", "cancelled", "rejection"} :
               jq' = Append(jq, Entry(r, type, "none"))
        BY <2>3
      <3>2. type \in EntryTypes
        BY DEF EntryTypes
      <3> QED  BY <1>r, <2>1, <2>3, <3>1, <3>2
    <2>4. CASE /\ pc' = [pc EXCEPT ![r] = "approving"]
               /\ jq' = Append(jq, Entry(r, "approval", "call"))
      <3>1. "approval" \in EntryTypes /\ "approval" \notin Refusals
        BY DEF EntryTypes, Refusals
      <3>2. \A q \in Req : RefusalIn(jq', q) => RefusalIn(jq, q)
        BY <1>a, <2>4, <3>1
      <3>3. \A q \in Req : /\ Refused(q)' => Refused(q)
                           /\ \A t \in EntryTypes : InLog(q, t)' <=> InLog(q, t)
        BY <1>u, <2>1, <3>2
      <3>4. /\ "approving" \in Phases /\ "open" \notin AfterSpend
            /\ "approving" \notin OpPhases \cup {"recording", "reporting",
                                                 "attesting"}
            /\ {"approval", "broadcast", "submitted"} \subseteq EntryTypes
        BY DEF Phases, AfterSpend, OpPhases, EntryTypes
      <3> QED  BY <1>c, <2>1, <2>4, <3>3, <3>4
    <2> QED  BY <2>2, <2>3, <2>4
  <1>5. ASSUME NEW r \in Req, CallStep(r) PROVE SettlementShape'
    <2>1. /\ pc[r] \in {"idle", "lookup", "reading", "quote"}
          /\ UNCHANGED <<sent, onChain, log>>
      BY <1>5 DEF CallStep, RequestPayment, Lookup, ReadState, Quote,
           RequestSignature, OpenPrompt, chainVars, journalVars
    <2>2. \E p \in {"lookup", "quote", "idle", "reading", "closing", "intent"} :
             pc' = [pc EXCEPT ![r] = p]
      BY <1>5, Zenon DEF CallStep, RequestPayment, Lookup, ReadState, Quote,
           RequestSignature, OpenPrompt
    <2>3. \/ jq' = jq
          \/ jq' = Append(jq, Entry(r, "intent", "call"))
          \/ pc[r] = "reading" /\ jq' = Append(jq, Entry(Holder(r), "expired", r))
      BY <1>5, Zenon DEF CallStep, RequestPayment, Lookup, ReadState, Quote,
           RequestSignature, OpenPrompt, journalVars
    <2>4. \A q \in Req : RefusalIn(jq', q) => RefusalIn(jq, q)
      <3>1. {"intent", "expired"} \subseteq EntryTypes \ Refusals
        BY DEF EntryTypes, Refusals
      <3>2. CASE jq' = jq \/ jq' = Append(jq, Entry(r, "intent", "call"))
        BY <1>a, <3>1, <3>2
      <3>3. CASE /\ pc[r] = "reading"
                 /\ jq' = Append(jq, Entry(Holder(r), "expired", r))
        <4> DEFINE h == Holder(r)
        <4>1. h \in Req /\ jq' = Append(jq, Entry(h, "expired", r))
          BY <3>3 DEF CallShape, TypeOK, Holder, ReservationKey, DriveFor, Slots
        <4> HIDE DEF h
        <4> QED  BY <1>a, <3>1, <4>1
      <3> QED  BY <2>3, <3>2, <3>3
    <2>5. \A q \in Req : /\ Refused(q)' => Refused(q)
                         /\ \A t \in EntryTypes : InLog(q, t)' <=> InLog(q, t)
      BY <1>u, <2>1, <2>4
    <2>6. \A p \in {"lookup", "quote", "idle", "reading", "closing", "intent"} :
             /\ p \in Phases
             /\ p \notin OpPhases \cup {"recording", "reporting", "attesting"}
      BY DEF Phases, OpPhases
    <2>7. /\ pc[r] \notin AfterSpend
          /\ {"approval", "broadcast", "submitted"} \subseteq EntryTypes
      BY <2>1 DEF AfterSpend, EntryTypes
    <2> QED  BY <1>c, <2>1, <2>2, <2>5, <2>6, <2>7
  <1>6. ASSUME NEW r \in Req, EngineStep(r) PROVE SettlementShape'
    <2>1. CASE Sends(r) \/ Accepted(r)
      <3>1. /\ UNCHANGED <<pc, log, jq>>
            /\ \/ /\ pc[r] = "broadcast"
                  /\ sent' = sent \cup {r} /\ onChain' = onChain
               \/ /\ r \in sent
                  /\ sent' = sent /\ onChain' = onChain \cup {r}
        BY <2>1 DEF Sends, Accepted, journalVars
      <3>2. /\ \A q \in Req : /\ Refused(q)' => Refused(q)
                              /\ \A t \in EntryTypes : InLog(q, t)' <=> InLog(q, t)
            /\ {"approval", "broadcast", "submitted"} \subseteq EntryTypes
        BY <1>u, <3>1 DEF EntryTypes
      <3>3. ASSUME NEW q \in Req, q # r PROVE SettlesWell(q)'
        <4>1. (q \in sent' <=> q \in sent) /\ (q \in onChain' <=> q \in onChain)
          BY <3>1, <3>3
        <4> QED  BY <3>1, <3>2, <4>1, Untouched DEF SettlementShape
      <3>4. SettlesWell(r)'
        <4>1. SettlesWell(r) /\ "broadcast" \in OpPhases \cap Spending \cap AfterSpend
          BY DEF SettlementShape, OpPhases, Spending, AfterSpend
        <4>2. /\ r \in Payments /\ InLog(r, "approval") /\ pc[r] \in AfterSpend
              /\ ~Refused(r)
          BY <3>1, <4>1 DEF SettlesWell
        <4>3. r \in sent' /\ (r \in onChain => r \in onChain')
          BY <3>1
        <4> HIDE DEF Refused, InLog
        <4> QED  BY <3>1, <3>2, <4>1, <4>2, <4>3 DEF SettlesWell
      <3> QED  BY <3>3, <3>4 DEF SettlementShape
    <2>0. SUFFICES ASSUME \/ Prepared(r) \/ Signed(r) \/ Broadcast(r)
                          \/ AppSigned(r) \/ OpFails(r)
                   PROVE  SettlementShape'
      BY <1>6, <2>1 DEF EngineStep
    <2>2. log' = log /\ SettlesWell(r) /\ UNCHANGED <<sent, onChain>>
      BY <2>0 DEF SettlementShape, Prepared, Signed, Broadcast, AppSigned,
           OpFails, chainVars, journalVars
    <2>3. \/ jq' = jq
          \/ \E type \in {"broadcast", "sign-app", "failed"} :
                jq' = Append(jq, Entry(r, type, "call"))
      BY <2>0, Zenon DEF Prepared, Signed, Broadcast, AppSigned, OpFails,
           journalVars
    <2>4. \A q \in Req : RefusalIn(jq', q) => RefusalIn(jq, q)
      <3>1. {"broadcast", "sign-app", "failed"} \subseteq EntryTypes \ Refusals
        BY DEF EntryTypes, Refusals
      <3> QED  BY <1>a, <2>3, <3>1
    <2>5. /\ \A q \in Req : /\ Refused(q)' => Refused(q)
                            /\ \A t \in EntryTypes : InLog(q, t)' <=> InLog(q, t)
          /\ {"approval", "broadcast", "submitted"} \subseteq EntryTypes
      BY <1>u, <2>2, <2>4 DEF EntryTypes
    <2>6. \/ pc[r] = "prepare" /\ pc' = [pc EXCEPT ![r] = "sign"]
          \/ pc[r] = "sign" /\ pc' = [pc EXCEPT ![r] = "broadcast"]
          \/ /\ pc[r] = "broadcast" /\ pc' = [pc EXCEPT ![r] = "recording"]
             /\ r \in onChain
          \/ pc[r] = "signapp" /\ pc' = [pc EXCEPT ![r] = "attesting"]
          \/ pc[r] \in OpPhases /\ pc' = [pc EXCEPT ![r] = "failing"]
      BY <2>0, Zenon DEF Prepared, Signed, Broadcast, Answered, AppSigned,
           OpFails, MayFail
    <2>7. PICK p \in {"sign", "broadcast", "recording", "attesting", "failing"} :
             /\ pc' = [pc EXCEPT ![r] = p]
             /\ \/ pc[r] \in OpPhases /\ p = "failing"
                \/ pc[r] = "prepare" /\ p = "sign"
                \/ pc[r] = "sign" /\ p = "broadcast"
                \/ pc[r] = "broadcast" /\ p = "recording" /\ r \in onChain
                \/ pc[r] = "signapp" /\ p = "attesting"
      BY <2>6
    <2>8. pc[r] \in OpPhases /\ pc[r] # "done" /\ p \in Phases
      BY <2>7 DEF OpPhases, Phases
    <2>9. InLog(r, "approval") /\ InLog(r, "approval")'
      BY <2>2, <2>5, <2>8 DEF SettlesWell
    <2>10. p \in Spending \/ r \in sent => r \in Payments
      BY <2>2, <2>7 DEF SettlesWell, Spending
    <2>11. r \in sent => p \in AfterSpend
      BY <2>2, <2>7 DEF SettlesWell, AfterSpend
    <2>12. (\/ p \in {"recording", "reporting"}
            \/ InLog(r, "broadcast")' \/ InLog(r, "submitted")')
              => r \in onChain
      BY <2>2, <2>5, <2>7 DEF SettlesWell
    <2> HIDE DEF Spending
    <2> QED  BY <1>d, <2>2, <2>5, <2>7, <2>8, <2>9, <2>10, <2>11, <2>12
  <1>7. ASSUME NEW ok \in BOOLEAN, OutcomeSettles(ok) \/ LockSettles(ok)
        PROVE  SettlementShape'
    <2>1. PICK r \in Req, type \in {"rejection", "cancelled", "expired"},
               by \in {"lock", "none"} : Settles(r, type, by, ok)
      BY <1>7 DEF OutcomeSettles, LockSettles
    <2>2. jq' = Tail(jq) /\ UNCHANGED <<pc, sent, onChain>>
      BY <1>7 DEF OutcomeSettles, LockSettles, chainVars
    <2>3. {"rejection", "cancelled", "expired", "approval", "broadcast",
           "submitted"} \subseteq EntryTypes
      BY DEF EntryTypes
    <2>4. /\ Records(r, type, ok)
          /\ type \in Refusals => RefusalIn(jq, r)
          /\ \A q \in Req : RefusalIn(Tail(jq), q) => RefusalIn(jq, q)
      BY <1>s, <2>1, <2>3
    <2>5. ASSUME NEW q \in Req PROVE SettlesWell(q)'
      <3>1. \A t \in {"approval", "broadcast", "submitted"} :
               InLog(q, t)' <=> InLog(q, t)
        BY <2>3, <2>4 DEF Records
      <3>2. RefusalIn(jq, q)' => RefusalIn(jq, q)
        BY <2>2, <2>4 DEF RefusalIn
      <3>3. \A t \in Refusals : InLog(q, t)' => InLog(q, t) \/ RefusalIn(jq, q)
        BY <2>3, <2>4 DEF Records, Refusals
      <3>4. Refused(q)' => Refused(q)
        BY <3>2, <3>3 DEF Refused, Refusals
      <3> QED  BY <2>2, <3>1, <3>4, Untouched DEF SettlementShape
    <2> QED  BY <2>5 DEF SettlementShape
  <1>8. CASE Crash
    <2>1. /\ \A r \in Req : pc'[r] = IF log[r] = <<>> THEN "idle" ELSE "done"
          /\ jq' = <<>> /\ log' = log /\ UNCHANGED <<sent, onChain>>
      BY <1>8 DEF Crash
    <2>2. \A q \in Req, t \in EntryTypes : InLog(q, t)' <=> InLog(q, t)
      BY <2>1 DEF InLog
    <2>3. {"approval", "broadcast", "submitted", "rejection", "cancelled"}
             \subseteq EntryTypes
      BY DEF EntryTypes
    <2>4. ASSUME NEW q \in Req PROVE SettlesWell(q)'
      <3>1. ~RefusalIn(jq, q)'
        BY <2>1 DEF RefusalIn
      <3>2. Refused(q)' => Refused(q) /\ pc'[q] = "done"
        BY <2>1, <2>2, <2>3, <3>1 DEF Refused, InLog
      <3>3. q \in sent => pc'[q] = "done"
        BY <2>1 DEF SettlementShape, SettlesWell, InLog
      <3>4. pc'[q] \notin OpPhases \cup {"recording", "reporting", "attesting"}
                             \cup Spending
        BY <2>1 DEF OpPhases, Spending
      <3>5. "done" \in AfterSpend
        BY DEF AfterSpend
      <3> QED
        BY <2>1, <2>2, <2>3, <3>2, <3>3, <3>4, <3>5
           DEF SettlementShape, SettlesWell
    <2> QED  BY <2>4 DEF SettlementShape
  <1>e. EntryTypes = Verdicts \cup {"intent", "prompt", "approval", "sign-app"}
    BY DEF EntryTypes, Verdicts
  \* An entry that is no refusal and claims nothing of the chain.
  <1>m. ASSUME NEW id \in Req, NEW type \in EntryTypes, NEW ok \in BOOLEAN,
               Records(id, type, ok),
               type \notin Refusals \cup {"broadcast", "submitted"}
        PROVE  \A q \in Req :
                  /\ Refused(q)' => Refused(q) \/ RefusalIn(jq', q)
                  /\ RefusalIn(jq, q) => Refused(q)
                  /\ InLog(q, "broadcast")' <=> InLog(q, "broadcast")
                  /\ InLog(q, "submitted")' <=> InLog(q, "submitted")
                  /\ q # id \/ type # "approval" =>
                        (InLog(q, "approval")' <=> InLog(q, "approval"))
    <2>1. /\ {"approval", "broadcast", "submitted"} \cup Refusals
                \subseteq EntryTypes
          /\ Refusals = {"rejection", "cancelled"}
      BY DEF EntryTypes, Refusals
    <2>2. \A q \in Req, t \in Refusals \cup {"broadcast", "submitted"} :
             InLog(q, t)' <=> InLog(q, t)
      BY <1>m, <2>1 DEF Records
    <2>3. \A q \in Req : q # id \/ type # "approval" =>
             (InLog(q, "approval")' <=> InLog(q, "approval"))
      BY <1>m, <2>1 DEF Records
    <2>4. \A q \in Req : Refused(q)' => Refused(q) \/ RefusalIn(jq', q)
      BY <2>1, <2>2 DEF Refused, RefusalIn
    <2> QED  BY <2>2, <2>3, <2>4 DEF Refused
  <1>9. ASSUME NEW r \in Req, NEW ok \in BOOLEAN,
               ClosureSettles(r, ok) \/ IntentSettles(r, ok) \/ PromptSettles(r, ok)
        PROVE  SettlementShape'
    <2>1. CASE ClosureSettles(r, ok)
      <3>1. /\ pc[r] = "closing" /\ Settles(Holder(r), "expired", r, ok)
            /\ jq' = Tail(jq) /\ pc' = [pc EXCEPT ![r] = "idle"]
            /\ UNCHANGED <<sent, onChain>>
        BY <2>1 DEF ClosureSettles, chainVars
      <3> DEFINE h == Holder(r)
      <3>2. h \in Req /\ Settles(h, "expired", r, ok)
        BY <3>1 DEF CallShape, TypeOK, Holder, ReservationKey, DriveFor, Slots
      <3> HIDE DEF h
      <3>3. /\ "expired" \in EntryTypes /\ "idle" \in Phases
            /\ "expired" \notin Refusals \cup {"broadcast", "submitted"}
            /\ "idle" \notin OpPhases \cup {"recording", "reporting", "attesting"}
            /\ pc[r] \notin AfterSpend
        BY <3>1 DEF EntryTypes, Phases, Refusals, OpPhases, AfterSpend
      <3>4. \A q \in Req : RefusalIn(jq', q) => RefusalIn(jq, q)
        BY <1>s, <3>1, <3>2, <3>3
      <3>5. Records(h, "expired", ok)
        BY <1>s, <3>2, <3>3
      <3>6. \A q \in Req :
               /\ Refused(q)' => Refused(q)
               /\ InLog(q, "broadcast")' <=> InLog(q, "broadcast")
               /\ InLog(q, "submitted")' <=> InLog(q, "submitted")
               /\ InLog(q, "approval")' <=> InLog(q, "approval")
        BY <1>m, <3>2, <3>3, <3>4, <3>5
      <3> QED  BY <1>c, <3>1, <3>3, <3>6
    <2>2. CASE IntentSettles(r, ok)
      <3>1. /\ pc[r] = "intent" /\ UNCHANGED <<sent, onChain>>
            /\ Settles(r, "intent", "call", ok /\ ~KeyTaken(r))
        BY <2>2 DEF IntentSettles, chainVars
      <3>2. /\ "intent" \in EntryTypes /\ "prompt" \in EntryTypes \ Refusals
            /\ "intent" \notin Refusals \cup {"broadcast", "submitted"}
            /\ pc[r] \notin AfterSpend
            /\ \A p \in {"prompt", "lookup", "idle"} :
                  /\ p \in Phases
                  /\ p \notin OpPhases \cup {"recording", "reporting", "attesting"}
        BY <3>1 DEF EntryTypes, Phases, Refusals, OpPhases, AfterSpend
      <3>3. \E p \in {"prompt", "lookup", "idle"} : pc' = [pc EXCEPT ![r] = p]
        BY <2>2, Zenon DEF IntentSettles
      <3>4. \A q \in Req : RefusalIn(jq', q) => RefusalIn(jq, q)
        <4>1. /\ \A q \in Req : RefusalIn(Tail(jq), q) => RefusalIn(jq, q)
              /\ \A q \in Req :
                    RefusalIn(Append(Tail(jq), Entry(r, "prompt", "call")), q)
                       => RefusalIn(jq, q)
          BY <1>s, <3>1, <3>2
        <4>2. \/ jq' = Tail(jq)
              \/ jq' = Append(Tail(jq), Entry(r, "prompt", "call"))
          BY <2>2, Zenon DEF IntentSettles
        <4> QED  BY <4>1, <4>2, Zenon
      <3>5. Records(r, "intent", ok /\ ~KeyTaken(r))
        BY <1>s, <3>1, <3>2
      <3>6. \A q \in Req :
               /\ Refused(q)' => Refused(q)
               /\ InLog(q, "broadcast")' <=> InLog(q, "broadcast")
               /\ InLog(q, "submitted")' <=> InLog(q, "submitted")
               /\ InLog(q, "approval")' <=> InLog(q, "approval")
        BY <1>m, <3>2, <3>4, <3>5
      <3> QED  BY <1>c, <3>1, <3>2, <3>3, <3>6
    <2>3. CASE PromptSettles(r, ok)
      <3>1. /\ pc[r] = "prompt" /\ UNCHANGED <<sent, onChain>>
            /\ Settles(r, "prompt", "call", ok)
        BY <2>3 DEF PromptSettles, chainVars
      <3>2. /\ "prompt" \in EntryTypes /\ "cancelled" \in EntryTypes
            /\ "prompt" \notin Refusals \cup {"broadcast", "submitted"}
            /\ pc[r] \notin AfterSpend
            /\ \A p \in {"open", "done"} :
                  /\ p \in Phases
                  /\ p \notin OpPhases \cup {"recording", "reporting", "attesting"}
        BY <3>1 DEF EntryTypes, Phases, Refusals, OpPhases, AfterSpend
      <3>3. /\ \A q \in Req : RefusalIn(Tail(jq), q) => RefusalIn(jq, q)
            /\ \A q \in Req :
                  RefusalIn(Append(Tail(jq), Entry(r, "cancelled", "none")), q)
                     => RefusalIn(jq, q) \/ q = r
        BY <1>s, <3>1, <3>2
      <3>7. Records(r, "prompt", ok)
        BY <1>s, <3>1, <3>2
      <3>8. \A q \in Req :
               /\ Refused(q)' => Refused(q) \/ RefusalIn(jq', q)
               /\ RefusalIn(jq, q) => Refused(q)
               /\ InLog(q, "broadcast")' <=> InLog(q, "broadcast")
               /\ InLog(q, "submitted")' <=> InLog(q, "submitted")
               /\ InLog(q, "approval")' <=> InLog(q, "approval")
        BY <1>m, <3>2, <3>7
      <3>4. \/ pc' = [pc EXCEPT ![r] = "open"] /\ jq' = Tail(jq)
            \/ /\ pc' = [pc EXCEPT ![r] = "done"]
               /\ jq' = Append(Tail(jq), Entry(r, "cancelled", "none"))
        BY <2>3, Zenon DEF PromptSettles
      <3>5. CASE pc' = [pc EXCEPT ![r] = "open"] /\ jq' = Tail(jq)
        <4>1. \A q \in Req : RefusalIn(jq', q) => RefusalIn(jq, q)
          BY <3>3, <3>5, Zenon
        <4> QED  BY <1>c, <3>1, <3>2, <3>5, <3>8, <4>1
      <3>6. CASE /\ pc' = [pc EXCEPT ![r] = "done"]
                 /\ jq' = Append(Tail(jq), Entry(r, "cancelled", "none"))
        <4>1. \A q \in Req : RefusalIn(jq', q) => RefusalIn(jq, q) \/ q = r
          BY <3>3, <3>6, Zenon
        <4>2. \A q \in Req :
                 /\ Refused(q)' => Refused(q) \/ (q = r /\ "done" = "done")
                 /\ InLog(q, "broadcast")' <=> InLog(q, "broadcast")
                 /\ InLog(q, "submitted")' <=> InLog(q, "submitted")
                 /\ q # r => (InLog(q, "approval")' <=> InLog(q, "approval"))
          BY <3>8, <4>1
        <4>3. /\ "done" \in Phases /\ UNCHANGED <<sent, onChain>>
              /\ "done" \notin OpPhases \cup {"recording", "reporting",
                                              "attesting"}
          BY <3>1, <3>2
        <4> QED  BY <1>c, <3>2, <3>6, <4>2, <4>3
      <3> QED  BY <3>4, <3>5, <3>6
    <2> QED  BY <1>9, <2>1, <2>2, <2>3
  \* The append of an approved intent's own call settles.
  <1>f. ASSUME NEW r \in Req, NEW type \in EntryTypes \ Refusals,
               NEW ok \in BOOLEAN, Settles(r, type, "call", ok),
               \/ jq' = Tail(jq)
               \/ \E next \in {"failed", "submitted"} :
                     jq' = Append(Tail(jq), Entry(r, next, "call"))
        PROVE  /\ Records(r, type, ok)
               /\ \A q \in Req : RefusalIn(jq', q) => RefusalIn(jq, q)
               /\ \A q \in Req :
                     /\ Refused(q)' => Refused(q)
                     /\ \A t \in {"approval", "broadcast", "submitted"} :
                           InLog(q, t)' <=> InLog(q, t) \/ (ok /\ q = r /\ t = type)
    <2>1. /\ Records(r, type, ok)
          /\ \A q \in Req : RefusalIn(Tail(jq), q) => RefusalIn(jq, q)
          /\ \A next \in EntryTypes : \A q \in Req :
                RefusalIn(Append(Tail(jq), Entry(r, next, "call")), q) =>
                   RefusalIn(jq, q) \/ (q = r /\ next \in Refusals)
      BY <1>f, <1>s
    <2>2. /\ {"approval", "broadcast", "submitted", "failed"} \cup Refusals
                \subseteq EntryTypes
          /\ Refusals = {"rejection", "cancelled"}
      BY DEF EntryTypes, Refusals
    <2>3. \A q \in Req : RefusalIn(jq', q) => RefusalIn(jq, q)
      <3>1. \A next \in {"failed", "submitted"} : \A q \in Req :
                RefusalIn(Append(Tail(jq), Entry(r, next, "call")), q) =>
                   RefusalIn(jq, q)
        BY <2>1, <2>2
      <3>2. CASE jq' = Tail(jq)
        BY <2>1, <3>2
      <3>3. ASSUME NEW next \in {"failed", "submitted"},
                   jq' = Append(Tail(jq), Entry(r, next, "call"))
            PROVE  \A q \in Req : RefusalIn(jq', q) => RefusalIn(jq, q)
        BY <3>1, <3>3
      <3> QED  BY <1>f, <3>2, <3>3
    <2>4. \A q \in Req : \A t \in Refusals : InLog(q, t)' <=> InLog(q, t)
      BY <1>f, <2>1, <2>2 DEF Records
    <2>5. \A q \in Req : Refused(q)' => Refused(q)
      BY <2>2, <2>3, <2>4 DEF Refused, RefusalIn
    <2> QED  BY <2>1, <2>2, <2>3, <2>5 DEF Records
  <1>10. ASSUME NEW r \in Req, NEW ok \in BOOLEAN, ApprovalSettles(r, ok)
         PROVE  SettlementShape'
    <2>1. /\ pc[r] = "approving" /\ UNCHANGED <<sent, onChain>>
          /\ Settles(r, "approval", "call", ok)
      BY <1>10 DEF ApprovalSettles
    <2>2. "approval" \in EntryTypes \ Refusals
      BY DEF EntryTypes, Refusals
    <2>3. \/ jq' = Tail(jq)
          \/ \E next \in {"failed", "submitted"} :
                jq' = Append(Tail(jq), Entry(r, next, "call"))
      BY <1>10, Zenon DEF ApprovalSettles, StartOp
    <2>4. /\ Records(r, "approval", ok)
          /\ \A q \in Req : RefusalIn(jq', q) => RefusalIn(jq, q)
          /\ \A q \in Req :
                /\ Refused(q)' => Refused(q)
                /\ \A t \in {"approval", "broadcast", "submitted"} :
                      InLog(q, t)' <=> InLog(q, t) \/ (ok /\ q = r /\ t = "approval")
      BY <1>f, <2>1, <2>2, <2>3
    <2>5. /\ pc[r] \notin AfterSpend /\ pc[r] # "done"
          /\ r \notin sent /\ r \notin onChain
      BY <2>1 DEF AfterSpend, SettlementShape, SettlesWell
    <2>6. \/ \E p \in {"failing", "done"} : pc' = [pc EXCEPT ![r] = p]
          \/ /\ ok /\ r \in Payments /\ pc' = [pc EXCEPT ![r] = "prepare"]
          \/ /\ ok /\ r \notin Payments /\ pc' = [pc EXCEPT ![r] = "signapp"]
      BY <1>10, Zenon DEF ApprovalSettles, StartOp, Proceeds
    <2>7. CASE \E p \in {"failing", "done"} : pc' = [pc EXCEPT ![r] = p]
      <3>1. \A p \in {"failing", "done"} :
               /\ p \in Phases
               /\ p \notin OpPhases \cup {"recording", "reporting", "attesting"}
        BY DEF Phases, OpPhases
      <3>2. "approval" \notin Refusals \cup {"broadcast", "submitted"}
        BY DEF Refusals
      <3>3. \A q \in Req :
               /\ Refused(q)' => Refused(q)
               /\ InLog(q, "broadcast")' <=> InLog(q, "broadcast")
               /\ InLog(q, "submitted")' <=> InLog(q, "submitted")
               /\ q # r => (InLog(q, "approval")' <=> InLog(q, "approval"))
        BY <2>4
      <3> QED  BY <1>c, <2>1, <2>5, <2>7, <3>1, <3>3
    <2>8. ASSUME NEW p \in {"prepare", "signapp"}, pc' = [pc EXCEPT ![r] = p],
                 ok, p = "prepare" => r \in Payments
          PROVE  SettlementShape'
      <3>1. p \in Phases /\ (p \in Spending => r \in Payments)
        BY <2>8 DEF Phases, Spending
      <3>2. InLog(r, "approval")'
        BY <2>1, <2>4, <2>5, <2>8
      <3>3. ~InLog(r, "broadcast")' /\ ~InLog(r, "submitted")'
        BY <2>4, <2>5 DEF SettlementShape, SettlesWell
      <3>4. \A q \in Req : /\ Refused(q)' => Refused(q)
                           /\ q # r => \A t \in {"approval", "broadcast", "submitted"} :
                                          InLog(q, t)' <=> InLog(q, t)
        BY <2>4
      <3>5. p \notin {"recording", "reporting"}
        OBVIOUS
      <3> QED  BY <1>d, <2>1, <2>5, <2>8, <3>1, <3>2, <3>3, <3>4, <3>5
    <2> QED  BY <2>6, <2>7, <2>8
  <1>11. ASSUME NEW r \in Req, NEW ok \in BOOLEAN,
                \/ FailureSettles(r, ok) \/ BroadcastSettles(r, ok)
                \/ SubmissionSettles(r, ok) \/ AttestationSettles(r, ok)
         PROVE  SettlementShape'
    <2>1. /\ pc[r] \in {"failing", "recording", "reporting", "attesting"}
          /\ UNCHANGED <<sent, onChain>>
      BY <1>11 DEF FailureSettles, BroadcastSettles, SubmissionSettles,
           AttestationSettles, chainVars
    <2>2. \/ jq' = Tail(jq)
          \/ \E next \in {"failed", "submitted"} :
                jq' = Append(Tail(jq), Entry(r, next, "call"))
      BY <1>11, Zenon DEF FailureSettles, BroadcastSettles, SubmissionSettles,
           AttestationSettles, PaymentSettled
    <2>3. \E type \in {"failed", "broadcast", "submitted", "sign-app"} :
             /\ Settles(r, type, "call", ok)
             /\ type \in {"broadcast", "submitted"} =>
                   pc[r] \in {"recording", "reporting"}
      BY <1>11, Zenon DEF FailureSettles, BroadcastSettles, SubmissionSettles,
           AttestationSettles
    <2>4. PICK type \in {"failed", "broadcast", "submitted", "sign-app"} :
             /\ Settles(r, type, "call", ok)
             /\ type \in {"broadcast", "submitted"} =>
                   pc[r] \in {"recording", "reporting"}
      BY <2>3
    <2>5. type \in EntryTypes \ Refusals
      BY DEF EntryTypes, Refusals
    <2>6. \A q \in Req :
             /\ Refused(q)' => Refused(q)
             /\ \A t \in {"approval", "broadcast", "submitted"} :
                   InLog(q, t)' <=> InLog(q, t) \/ (ok /\ q = r /\ t = type)
      BY <1>f, <2>2, <2>4, <2>5
    <2>7. \E p \in {"done", "reporting", "failing"} :
             /\ pc' = [pc EXCEPT ![r] = p]
             /\ p = "failing" => pc[r] = "attesting"
             /\ p = "reporting" => pc[r] = "recording"
      BY <1>11, Zenon DEF FailureSettles, BroadcastSettles, SubmissionSettles,
           AttestationSettles, PaymentSettled
    <2>8. PICK p \in {"done", "reporting", "failing"} :
             /\ pc' = [pc EXCEPT ![r] = p]
             /\ p = "failing" => pc[r] = "attesting"
             /\ p = "reporting" => pc[r] = "recording"
      BY <2>7
    <2>9. SettlesWell(r) /\ p \in Phases /\ p \in AfterSpend /\ pc[r] # "done"
      BY <2>1 DEF SettlementShape, Phases, AfterSpend
    <2>10. (p \in OpPhases \cup {"recording", "reporting", "attesting"}
              \/ r \in sent) => InLog(r, "approval")'
      BY <2>1, <2>6, <2>8, <2>9 DEF SettlesWell, OpPhases
    <2>11. p \in Spending \/ r \in sent => r \in Payments
      BY <2>1, <2>8, <2>9 DEF SettlesWell, Spending
    <2>12. (\/ p \in {"recording", "reporting"}
            \/ InLog(r, "broadcast")' \/ InLog(r, "submitted")')
              => r \in onChain
      BY <2>1, <2>4, <2>6, <2>8, <2>9 DEF SettlesWell
    <2>13. \A q \in Req :
              /\ Refused(q)' => Refused(q)
              /\ q # r => \A t \in {"approval", "broadcast", "submitted"} :
                             InLog(q, t)' <=> InLog(q, t)
      BY <2>6
    <2> QED
      BY <1>d, <2>1, <2>8, <2>9, <2>10, <2>11, <2>12, <2>13
  <1>12. ASSUME \/ UNCHANGED vars
                \/ UnlockStart \/ UnlockSettles \/ AddressRead \/ EngineLocked
                \/ EngineFaults \/ WorkletExits
                \/ PromptExpires
                \/ \E t \in Tuple, m \in Manifest : Connect(t, m)
                \/ \E d \in Drive : StampExpires(d)
         PROVE  UNCHANGED <<pc, sent, onChain, log, jq>>
    BY <1>12 DEF vars, chainVars, journalVars, UnlockStart, UnlockSettles,
         AddressRead, EngineLocked, EngineFaults, WorkletExits, PromptExpires, Connect, StampExpires
  <1> QED
    BY NextCases, <1>1, <1>2, <1>3, <1>4, <1>5, <1>6, <1>7, <1>8, <1>9, <1>10,
       <1>11, <1>12
-----------------------------------------------------------------------------
\* The inductive invariant of the service's safety theorems.
ServiceInv == CallInv /\ SettlementShape

LEMMA ServiceInvAlways == Spec => []ServiceInv
  <1>1. Init => ServiceInv
    <2> SUFFICES ASSUME Init PROVE SettlementShape
      BY CallInvInit DEF ServiceInv
    <2>1. ASSUME NEW r \in Req PROVE SettlesWell(r)
      <3>1. /\ pc[r] = "idle" /\ sent = {} /\ onChain = {} /\ log[r] = <<>> /\ jq = <<>>
        BY DEF Init
      <3>2. ~Refused(r) /\ \A t \in EntryTypes : ~InLog(r, t)
        BY <3>1 DEF Refused, InLog, RefusalIn
      <3> QED  BY <3>1, <3>2 DEF SettlesWell, OpPhases, Spending, EntryTypes
    <2> QED  BY <2>1 DEF SettlementShape
  <1>2. ServiceInv /\ [Next]_vars => ServiceInv'
    BY CallInvNext, SettlementNext DEF ServiceInv, CallInv
  <1> QED  BY <1>1, <1>2, PTL DEF Spec

\* What has been sent stands in the journal: the payment holds its reservation.
LEMMA SentHolds ==
    ASSUME ServiceInv, NEW r \in sent
    PROVE  /\ r \in Req /\ r \in Payments /\ InLog(r, "approval")
           /\ pc[r] \in Started /\ Holder(r) = r
  <1>1. r \in Req
    BY DEF ServiceInv, CallInv, TypeOK
  <1>2. r \in Payments /\ InLog(r, "approval") /\ pc[r] \in Started
    BY <1>1 DEF ServiceInv, SettlementShape, SettlesWell, AfterSpend, Started
  <1> QED  BY <1>1, <1>2 DEF ServiceInv, CallInv, CallShape

\* Whatever was sent to the network is a payment whose approval is durable and
\* which was never refused (resolvePrompt awaits the approval append first).
THEOREM SpendCorrect == Spec => []SpendIsApproved
  <1>1. ServiceInv => SpendIsApproved
    <2> SUFFICES ASSUME ServiceInv, NEW r \in sent
                 PROVE  /\ r \in Payments
                        /\ InLog(r, "approval")
                        /\ ~InLog(r, "rejection") /\ ~InLog(r, "cancelled")
      BY DEF SpendIsApproved
    <2>1. r \in Req
      BY DEF ServiceInv, CallInv, TypeOK
    <2> QED  BY <2>1 DEF ServiceInv, SettlementShape, SettlesWell, Refused
  <1> QED  BY <1>1, ServiceInvAlways, PTL

\* A refusal that is queued or durable is the end of its intent: no later
\* resolution, lock or disconnect lets it settle.
THEOREM RefusalCorrect == Spec => []RefusedNeverSettles
  <1>1. ServiceInv => RefusedNeverSettles
    BY DEF ServiceInv, SettlementShape, SettlesWell, Refused, RefusalIn,
           Refusals, RefusedNeverSettles
  <1> QED  BY <1>1, ServiceInvAlways, PTL

\* What the journal says was broadcast or submitted is on chain, whatever
\* locks, engine failures and crashes fall in between.
THEOREM JournalCorrect == Spec => []SubmittedIsOnChain
  <1>1. ServiceInv => SubmittedIsOnChain
    BY DEF ServiceInv, SettlementShape, SettlesWell, SubmittedIsOnChain
  <1> QED  BY <1>1, ServiceInvAlways, PTL

\* An idempotency key is spent at most once, over retries, concurrent calls
\* from any number of tabs, and restarts of the backend.
THEOREM KeyCorrect == Spec => []OneSpendPerKey
  <1>1. ServiceInv => OneSpendPerKey
    <2> SUFFICES ASSUME ServiceInv PROVE OneSpendPerKey
      OBVIOUS
    <2> QED  BY SentHolds DEF OneSpendPerKey, Holder
  <1> QED  BY <1>1, ServiceInvAlways, PTL
-----------------------------------------------------------------------------
(* The service implements the ideal payment.                               *)

\* The manifest an intent is bound to never changes once it is durable.
LEMMA BoundKept ==
    ASSUME ServiceInv, [Next]_vars, NEW q \in Req, pc[q] \in Started
    PROVE  bound'[q] = bound[q]
  <1> USE DEF ServiceInv, CallInv, TypeOK
  <1>1. ASSUME NEW r \in Req, pc[r] \notin Started,
               \/ bound' = bound
               \/ \E m \in Manifest \cup {None} : bound' = [bound EXCEPT ![r] = m]
        PROVE  bound'[q] = bound[q]
    BY <1>1
  <1>2. ASSUME NEW r \in Req, CallStep(r) PROVE bound'[q] = bound[q]
    <2>1. pc[r] \in {"idle", "lookup", "reading", "quote"}
      BY <1>2 DEF CallStep, RequestPayment, Lookup, ReadState, Quote,
           RequestSignature
    <2>2. connected[TupleOf[r]] \in Manifest \cup {None}
      BY WalletAssumption
    <2>3. \/ bound' = bound
          \/ \E m \in {connected[TupleOf[r]], None} :
                bound' = [bound EXCEPT ![r] = m]
      BY <1>2, Zenon DEF CallStep, RequestPayment, Lookup, ReadState, Quote,
           RequestSignature
    <2> QED  BY <1>1, <2>1, <2>2, <2>3 DEF Started
  <1>3. ASSUME NEW r \in Req, NEW ok \in BOOLEAN,
               ClosureSettles(r, ok) \/ IntentSettles(r, ok)
        PROVE  bound'[q] = bound[q]
    <2>1. /\ pc[r] \in {"closing", "intent"}
          /\ bound' = bound \/ bound' = [bound EXCEPT ![r] = None]
      BY <1>3 DEF ClosureSettles, IntentSettles
    <2> QED  BY <1>1, <2>1 DEF Started
  <1>4. CASE Crash
    BY <1>4 DEF Crash, CallShape
  <1>5. ASSUME NEW r \in Req, EngineStep(r) PROVE bound' = bound
    BY <1>5 DEF EngineStep, Prepared, Signed, Sends, Accepted, Broadcast,
         AppSigned, OpFails
  <1>6. ASSUME NEW r \in Req, NEW ok \in BOOLEAN,
               \/ PromptSettles(r, ok)
               \/ ApprovalSettles(r, ok)
               \/ FailureSettles(r, ok)
               \/ BroadcastSettles(r, ok)
               \/ SubmissionSettles(r, ok)
               \/ AttestationSettles(r, ok)
        PROVE  bound' = bound
    BY <1>6 DEF PromptSettles, ApprovalSettles, FailureSettles,
         BroadcastSettles, SubmissionSettles, AttestationSettles
  <1>7. ASSUME \/ UNCHANGED vars
               \/ UnlockStart \/ UnlockSettles \/ AddressRead \/ EngineLocked
               \/ EngineFaults \/ WorkletExits
               \/ Lock \/ PromptExpires
               \/ \E t \in Tuple : Disconnect(t)
               \/ \E t \in Tuple, m \in Manifest : Connect(t, m)
               \/ \E d \in Drive : StampExpires(d)
               \/ \E r \in Req, approved \in BOOLEAN : ResolvePrompt(r, approved)
               \/ \E ok \in BOOLEAN : OutcomeSettles(ok) \/ LockSettles(ok)
        PROVE  bound' = bound
    BY <1>7 DEF vars, UnlockStart, UnlockSettles, AddressRead, EngineLocked, EngineFaults, WorkletExits,
         Lock, PromptExpires, Disconnect, Connect, StampExpires,
         ResolvePrompt, OutcomeSettles, LockSettles
  <1> QED  BY NextCases, <1>2, <1>3, <1>4, <1>5, <1>6, <1>7

\* A step spends, or settles one append, or changes neither chain nor journal;
\* an approval settles for the call that waits for it.
LEMMA StepKinds ==
    ASSUME ServiceInv, [Next]_vars
    PROVE  \/ UNCHANGED <<onChain, log>>
           \/ \E r \in Req : Accepted(r)
           \/ /\ onChain' = onChain
              /\ \E r \in Req, type \in EntryTypes, ok \in BOOLEAN :
                    /\ Records(r, type, ok)
                    /\ type = "approval" => pc[r] = "approving"
  <1>t. TypeOK /\ CallShape
    BY DEF ServiceInv, CallInv
  <1>1. ASSUME NEW r \in Req, NEW type \in EntryTypes, NEW by,
               NEW ok \in BOOLEAN, Settles(r, type, by, ok)
        PROVE  Records(r, type, ok)
    BY <1>t, <1>1, SettlesRecords
  <1>2. ASSUME NEW ok \in BOOLEAN, OutcomeSettles(ok) \/ LockSettles(ok)
        PROVE  /\ onChain' = onChain
               /\ \E r \in Req, type \in EntryTypes :
                     Records(r, type, ok) /\ type # "approval"
    <2>1. PICK r \in Req, type \in {"rejection", "cancelled", "expired"},
               by \in {"lock", "none"} : Settles(r, type, by, ok)
      BY <1>2 DEF OutcomeSettles, LockSettles
    <2>2. type \in EntryTypes /\ type # "approval"
      BY DEF EntryTypes
    <2> QED  BY <1>1, <1>2, <2>1, <2>2 DEF OutcomeSettles, LockSettles, chainVars
  <1>3. ASSUME NEW r \in Req, NEW ok \in BOOLEAN, ClosureSettles(r, ok)
        PROVE  /\ onChain' = onChain
               /\ \E h \in Req, type \in EntryTypes :
                     Records(h, type, ok) /\ type # "approval"
    <2> DEFINE h == Holder(r)
    <2>1. pc[r] = "closing" /\ Settles(h, "expired", r, ok) /\ onChain' = onChain
      BY <1>3 DEF ClosureSettles, chainVars
    <2>2. h \in Req
      BY <1>t, <2>1, WalletAssumption
         DEF CallShape, TypeOK, Holder, ReservationKey, DriveFor, Slots
    <2>3. "expired" \in EntryTypes
      BY DEF EntryTypes
    <2> HIDE DEF h
    <2>4. Records(h, "expired", ok)
      BY <1>1, <2>1, <2>2, <2>3
    <2> QED  BY <2>1, <2>2, <2>3, <2>4
  <1>4. ASSUME NEW r \in Req, NEW ok \in BOOLEAN,
               \/ IntentSettles(r, ok)
               \/ PromptSettles(r, ok)
               \/ ApprovalSettles(r, ok)
               \/ FailureSettles(r, ok)
               \/ BroadcastSettles(r, ok)
               \/ SubmissionSettles(r, ok)
               \/ AttestationSettles(r, ok)
        PROVE  /\ onChain' = onChain
               /\ \E type \in EntryTypes, done \in BOOLEAN :
                     /\ Records(r, type, done)
                     /\ type = "approval" => pc[r] = "approving"
    <2>1. onChain' = onChain
      BY <1>4 DEF IntentSettles, PromptSettles, ApprovalSettles,
           FailureSettles, BroadcastSettles, SubmissionSettles,
           AttestationSettles, chainVars
    <2>2. \E type \in {"intent", "prompt", "approval", "failed", "broadcast",
                       "submitted", "sign-app"}, done \in BOOLEAN :
             /\ Settles(r, type, "call", done)
             /\ type = "approval" => pc[r] = "approving"
      <3>1. CASE IntentSettles(r, ok)
        <4>1. Settles(r, "intent", "call", ok /\ ~KeyTaken(r))
          BY <3>1 DEF IntentSettles
        <4> QED  BY <4>1
      <3>2. CASE \/ PromptSettles(r, ok)
                 \/ ApprovalSettles(r, ok)
                 \/ FailureSettles(r, ok)
                 \/ BroadcastSettles(r, ok)
                 \/ SubmissionSettles(r, ok)
                 \/ AttestationSettles(r, ok)
        BY <3>2, Zenon DEF PromptSettles, ApprovalSettles, FailureSettles,
           BroadcastSettles, SubmissionSettles, AttestationSettles
      <3> QED  BY <1>4, <3>1, <3>2
    <2>3. {"intent", "prompt", "approval", "failed", "broadcast", "submitted",
           "sign-app"} \subseteq EntryTypes
      BY DEF EntryTypes
    <2> QED  BY <1>1, <2>1, <2>2, <2>3
  <1>5. ASSUME NEW r \in Req, EngineStep(r)
        PROVE  Accepted(r) \/ UNCHANGED <<onChain, log>>
    BY <1>5 DEF EngineStep, Prepared, Signed, Sends, Broadcast, AppSigned,
         OpFails, chainVars, journalVars
  <1>6. ASSUME NEW r \in Req, CallStep(r) PROVE UNCHANGED <<onChain, log>>
    BY <1>6 DEF CallStep, RequestPayment, Lookup, ReadState, Quote,
         RequestSignature, OpenPrompt, chainVars, journalVars
  <1>7. ASSUME \/ UNCHANGED vars
               \/ UnlockStart \/ UnlockSettles \/ AddressRead \/ EngineLocked
               \/ EngineFaults \/ WorkletExits
               \/ Lock \/ Crash \/ PromptExpires
               \/ \E t \in Tuple : Disconnect(t)
               \/ \E t \in Tuple, m \in Manifest : Connect(t, m)
               \/ \E d \in Drive : StampExpires(d)
               \/ \E r \in Req, approved \in BOOLEAN : ResolvePrompt(r, approved)
        PROVE  UNCHANGED <<onChain, log>>
    BY <1>7 DEF vars, chainVars, journalVars, UnlockStart, UnlockSettles,
         AddressRead, EngineLocked, EngineFaults, WorkletExits, Lock, Crash, PromptExpires, Disconnect,
         Connect, StampExpires, ResolvePrompt
  <1> QED  BY NextCases, <1>2, <1>3, <1>4, <1>5, <1>6, <1>7

\* The scope of a decided intent, as the refinement mapping has it.
MappedScope(r) == IF Decided(r) = "open" THEN None ELSE ReservationKey(r)

LEMMA IdealNext ==
    ASSUME ServiceInv, ServiceInv', [Next]_vars
    PROVE  [Ideal!Next]_(Ideal!vars)
  <1> USE WalletAssumption
  <1>1. /\ {"approval", "rejection", "cancelled"} \subseteq EntryTypes
        /\ \A r \in Req : Decided(r) # "open" => pc[r] \in Started
    BY DEF EntryTypes, ServiceInv, CallInv, CallShape, Decided, InLog
  <1>2. \A r \in Req : Decided(r) # "open" => ReservationKey(r)' = ReservationKey(r)
    BY <1>1, BoundKept DEF ReservationKey, DriveFor
  <1>3. \A r \in Req : Decided(r)' # "open" => ReservationKey(r)' \in Slots
    <2> SUFFICES ASSUME NEW r \in Req, Decided(r)' # "open"
                 PROVE  ReservationKey(r)' \in Slots
      OBVIOUS
    <2>1. log'[r] # <<>>
      BY DEF Decided, InLog
    <2>2. pc'[r] \in Started
      BY <2>1 DEF ServiceInv, CallInv, CallShape
    <2>3. bound'[r] \in Manifest
      BY <2>2 DEF ServiceInv, CallInv, CallShape, Started
    <2> QED  BY <2>3 DEF ReservationKey, DriveFor, Slots
  <1>4. ASSUME onChain' = onChain, \A r \in Req : Decided(r)' = Decided(r)
        PROVE  UNCHANGED Ideal!vars
    <2>1. \A r \in Req : MappedScope(r)' = MappedScope(r)
      BY <1>2, <1>4 DEF MappedScope
    <2> QED  BY <1>4, <2>1 DEF Ideal!vars, MappedScope
  <1>5. CASE UNCHANGED <<onChain, log>>
    <2>1. \A r \in Req : Decided(r)' = Decided(r)
      BY <1>5 DEF Decided, InLog
    <2> QED  BY <1>4, <1>5, <2>1
  <1>6. ASSUME NEW r \in Req, Accepted(r)
        PROVE  Ideal!Spend(r)
    <2>1. /\ r \in sent \ onChain /\ log' = log /\ bound' = bound
          /\ onChain' = onChain \cup {r}
      BY <1>6 DEF Accepted, journalVars
    <2>2. onChain \subseteq sent
      BY DEF ServiceInv, CallInv, TypeOK, SettlementShape, SettlesWell
    <2>3. /\ r \in Payments /\ InLog(r, "approval") /\ Holder(r) = r
          /\ \A q \in onChain : InLog(q, "approval") /\ Holder(q) = q
      BY <2>1, <2>2, SentHolds
    <2>5. \A q \in onChain : ReservationKey(q) # ReservationKey(r)
      BY <2>1, <2>3 DEF Holder
    <2>6. /\ Decided(r) = "approved"
          /\ \A q \in onChain : MappedScope(q) # MappedScope(r)
      BY <2>3, <2>5 DEF Decided, MappedScope
    <2>7. /\ \A q \in Req : Decided(q)' = Decided(q)
          /\ \A q \in Req : MappedScope(q)' = MappedScope(q)
      BY <2>1 DEF Decided, InLog, MappedScope, ReservationKey, DriveFor
    <2>8. onChain \subseteq Req
      BY DEF ServiceInv, CallInv, TypeOK
    <2> QED
      BY <2>1, <2>3, <2>6, <2>7, <2>8 DEF Ideal!Spend, MappedScope
  <1>7. ASSUME NEW r \in Req, NEW type \in EntryTypes, NEW ok \in BOOLEAN,
               Records(r, type, ok), type = "approval" => pc[r] = "approving",
               onChain' = onChain
        PROVE  Ideal!Decide(r) \/ UNCHANGED Ideal!vars
    <2>1. \A q \in Req : q # r => Decided(q)' = Decided(q)
      BY <1>1, <1>7 DEF Records, Decided
    <2>2. Decided(r) # "open" => Decided(r)' = Decided(r)
      <3>1. pc[r] = "approving" => ~InLog(r, "rejection") /\ ~InLog(r, "cancelled")
        BY DEF ServiceInv, SettlementShape, SettlesWell, Refused
      <3> QED  BY <1>1, <1>7, <3>1 DEF Records, Decided
    <2>3. CASE Decided(r)' = Decided(r)
      BY <1>4, <1>7, <2>1, <2>3
    <2>4. CASE Decided(r)' # Decided(r)
      <3>1. Decided(r) = "open" /\ Decided(r)' \in {"approved", "refused"}
        BY <2>2, <2>4 DEF Decided
      <3>2. ReservationKey(r)' \in Slots /\ MappedScope(r)' = ReservationKey(r)'
        BY <1>3, <3>1 DEF MappedScope
      <3>3. \A q \in Req : q # r => MappedScope(q)' = MappedScope(q)
        BY <1>2, <2>1 DEF MappedScope
      <3> DEFINE d == [q \in Req |-> Decided(q)]
                 s == [q \in Req |-> MappedScope(q)]
      <3>4. d' = [d EXCEPT ![r] = Decided(r)']
        BY <2>1
      <3>5. s' = [s EXCEPT ![r] = ReservationKey(r)']
        BY <3>2, <3>3
      <3>6. d[r] = "open"
        BY <3>1
      <3> QED
        BY <1>7, <3>1, <3>2, <3>4, <3>5, <3>6 DEF Ideal!Decide, MappedScope
    <2> QED  BY <2>3, <2>4
  <1> QED  BY StepKinds, <1>5, <1>6, <1>7 DEF Ideal!Next

\* The service implements the ideal payment: one decision per intent, spends
\* only on approval and once per idempotency scope, through every
\* interleaving, lock, failure and crash.
THEOREM Refinement == Spec => ImplementsIdeal
  <1>1. Init => Ideal!Init
    BY DEF Init, Ideal!Init, Decided, InLog
  <1>2. ServiceInv /\ ServiceInv' /\ [Next]_vars => [Ideal!Next]_(Ideal!vars)
    BY IdealNext
  <1> QED  BY <1>1, <1>2, ServiceInvAlways, PTL DEF Spec, ImplementsIdeal, Ideal!Spec
-----------------------------------------------------------------------------
(* The preparation limit.                                                  *)

\* The call that holds the slot has passed checkPrepare() and no other call
\* has recorded a preparation since: the stamps of its drive only expire.
PrepareRoom ==
    /\ PrepareLimitKept
    /\ \A r \in Req : pc[r] \in {"intent", "prompt"} =>
          preps[DriveFor(r)] < PrepareLimit

LEMMA PrepareNext ==
    ASSUME CallInv, CallInv', PrepareRoom, [Next]_vars
    PROVE  PrepareRoom'
  <1> USE WalletAssumption, DriveType
  <1>t. /\ preps \in [Drive -> Nat] /\ preps' \in [Drive -> Nat]
        /\ pc \in [Req -> Phases] /\ pc' \in [Req -> Phases]
        /\ PrepareLimit \in Nat
        /\ \A r \in Req : pc'[r] \in {"intent", "prompt"} => slot' = r
        /\ \A r \in Req : DriveFor(r)' = DriveFor(r)
    BY DEF CallInv, TypeOK, PromptOwnsSlot, DriveFor
  \* No stamp is added, and no call enters the phases before its prompt.
  <1>k. ASSUME \A d \in Drive : preps'[d] <= preps[d],
               \A r \in Req : pc'[r] \in {"intent", "prompt"} =>
                                 pc[r] \in {"intent", "prompt"}
        PROVE  PrepareRoom'
    <2>1. \A d \in Drive : preps'[d] <= PrepareLimit
      BY <1>k, <1>t DEF PrepareRoom, PrepareLimitKept
    <2>2. \A r \in Req : pc'[r] \in {"intent", "prompt"} =>
             preps'[DriveFor(r)] < PrepareLimit
      BY <1>k, <1>t DEF PrepareRoom
    <2> QED  BY <1>t, <2>1, <2>2 DEF PrepareRoom, PrepareLimitKept
  <1>m. ASSUME preps' = preps, NEW r \in Req, NEW p \in Phases,
               pc' = [pc EXCEPT ![r] = p],
               p \in {"intent", "prompt"} => pc[r] \in {"intent", "prompt"}
        PROVE  PrepareRoom'
    <2>1. \A q \in Req : pc'[q] \in {"intent", "prompt"} =>
                            pc[q] \in {"intent", "prompt"}
      BY <1>m, <1>t
    <2> QED  BY <1>k, <1>m, <1>t, <2>1
  <1>1. CASE UNCHANGED <<pc, preps>>
    BY <1>1, <1>k, <1>t
  <1>2. CASE Lock \/ \E t \in Tuple : Disconnect(t)
    <2>1. preps' = preps /\ "done" \in Phases
      BY <1>2 DEF Lock, Disconnect, rateVars, Phases
    <2>2. pc' = pc \/ pc' = [pc EXCEPT ![pending] = "done"]
      BY <1>2 DEF Lock, Disconnect
    <2>3. \A q \in Req : pc'[q] \in {"intent", "prompt"} =>
                            pc[q] \in {"intent", "prompt"}
      BY <1>t, <2>2
    <2> QED  BY <1>k, <1>t, <2>1, <2>3
  <1>3. ASSUME NEW r \in Req, NEW approved \in BOOLEAN,
               ResolvePrompt(r, approved)
        PROVE  PrepareRoom'
    <2>1. preps' = preps /\ {"done", "approving"} \subseteq Phases
      BY <1>3 DEF ResolvePrompt, rateVars, Phases
    <2>2. \E p \in {"done", "approving"} : pc' = [pc EXCEPT ![r] = p]
      BY <1>3, Zenon DEF ResolvePrompt
    <2> QED  BY <1>m, <2>1, <2>2
  <1>4. ASSUME NEW r \in Req, CallStep(r) PROVE PrepareRoom'
    <2>1. CASE OpenPrompt(r)
      <3>1. /\ preps' = preps /\ pc' = [pc EXCEPT ![r] = "intent"]
            /\ preps[DriveFor(r)] < PrepareLimit
        BY <2>1 DEF OpenPrompt, CanOpen, rateVars
      <3>2. \A q \in Req : pc'[q] \in {"intent", "prompt"} =>
               q = r \/ pc[q] \in {"intent", "prompt"}
        BY <3>1, <1>t
      <3>3. \A q \in Req : pc'[q] \in {"intent", "prompt"} =>
               preps'[DriveFor(q)] < PrepareLimit
        BY <3>1, <3>2 DEF PrepareRoom
      <3> QED  BY <1>t, <3>1, <3>3 DEF PrepareRoom, PrepareLimitKept
    <2>2. CASE ~OpenPrompt(r)
      <3>1. preps' = preps
            /\ {"lookup", "quote", "idle", "reading", "closing"} \subseteq Phases
        BY <1>4, <2>2 DEF CallStep, RequestPayment, Lookup, ReadState, Quote,
             RequestSignature, rateVars, Phases
      <3>2. \E p \in {"lookup", "quote", "idle", "reading", "closing"} :
               pc' = [pc EXCEPT ![r] = p]
        BY <1>4, <2>2, Zenon DEF CallStep, RequestPayment, Lookup, ReadState,
             Quote, RequestSignature
      <3> QED  BY <1>m, <3>1, <3>2
    <2> QED  BY <2>1, <2>2
  <1>5. ASSUME NEW r \in Req, EngineStep(r) PROVE PrepareRoom'
    <2>1. /\ preps' = preps
          /\ {"sign", "broadcast", "recording", "attesting", "failing"}
                \subseteq Phases
      BY <1>5 DEF EngineStep, Prepared, Signed, Sends, Accepted, Broadcast,
           AppSigned, OpFails, rateVars, Phases
    <2>2. \/ pc' = pc
          \/ \E p \in {"sign", "broadcast", "recording", "attesting", "failing"} :
                pc' = [pc EXCEPT ![r] = p]
      BY <1>5, Zenon DEF EngineStep, Prepared, Signed, Sends, Accepted,
           Broadcast, AppSigned, OpFails
    <2> QED  BY <1>1, <1>m, <2>1, <2>2
  <1>6. ASSUME NEW r \in Req, NEW ok \in BOOLEAN,
               \/ ClosureSettles(r, ok)
               \/ IntentSettles(r, ok)
               \/ ApprovalSettles(r, ok)
               \/ FailureSettles(r, ok)
               \/ BroadcastSettles(r, ok)
               \/ SubmissionSettles(r, ok)
               \/ AttestationSettles(r, ok)
        PROVE  PrepareRoom'
    <2>1. /\ preps' = preps
          /\ {"idle", "prompt", "lookup", "done", "failing", "prepare",
              "signapp", "reporting"} \subseteq Phases
      BY <1>6 DEF ClosureSettles, IntentSettles, ApprovalSettles,
           FailureSettles, BroadcastSettles, SubmissionSettles,
           AttestationSettles, rateVars, Phases
    <2>2. \E p \in {"idle", "prompt", "lookup", "done", "failing", "prepare",
                    "signapp", "reporting"} :
             /\ pc' = [pc EXCEPT ![r] = p]
             /\ p = "prompt" => pc[r] = "intent"
      BY <1>6, Zenon DEF ClosureSettles, IntentSettles, ApprovalSettles,
           FailureSettles, BroadcastSettles, SubmissionSettles,
           AttestationSettles, StartOp, PaymentSettled
    <2> QED  BY <1>m, <2>1, <2>2
  \* The prompt is exposed and its preparation recorded: its call had room,
  \* and no other call is before its prompt, for the slot is its own.
  <1>7. ASSUME NEW r \in Req, NEW ok \in BOOLEAN, PromptSettles(r, ok)
        PROVE  PrepareRoom'
    <2>1. pc[r] = "prompt" /\ preps[DriveFor(r)] < PrepareLimit
      BY <1>7 DEF PromptSettles, PrepareRoom
    <2>2. \A q \in Req : pc[q] \in {"intent", "prompt"} => q = r
      BY <2>1 DEF CallInv, PromptOwnsSlot
    <2>3. \/ /\ pc' = [pc EXCEPT ![r] = "open"]
             /\ preps' = [preps EXCEPT ![DriveFor(r)] = preps[DriveFor(r)] + 1]
          \/ pc' = [pc EXCEPT ![r] = "done"] /\ preps' = preps
      BY <1>7 DEF PromptSettles
    <2>4. \A q \in Req : pc'[q] \notin {"intent", "prompt"}
      BY <1>t, <2>2, <2>3
    <2>5. \A d \in Drive : preps'[d] <= PrepareLimit
      BY <1>t, <2>1, <2>3 DEF PrepareRoom, PrepareLimitKept
    <2> QED  BY <1>t, <2>4, <2>5 DEF PrepareRoom, PrepareLimitKept
  <1>8. ASSUME NEW d \in Drive, StampExpires(d) PROVE PrepareRoom'
    <2>1. pc' = pc /\ \A e \in Drive : preps'[e] <= preps[e]
      BY <1>8, <1>t DEF StampExpires, HasStamp
    <2> QED  BY <1>k, <2>1
  <1>9. CASE Crash
    <2>1. /\ \A d \in Drive : preps'[d] <= preps[d]
          /\ \A r \in Req : pc'[r] \notin {"intent", "prompt"}
      BY <1>9, <1>t DEF Crash
    <2> QED  BY <1>k, <2>1
  <1>10. ASSUME \/ UNCHANGED vars
                \/ UnlockStart \/ UnlockSettles \/ AddressRead \/ EngineLocked
                \/ EngineFaults \/ WorkletExits
                \/ PromptExpires
                \/ \E t \in Tuple, m \in Manifest : Connect(t, m)
                \/ \E ok \in BOOLEAN : OutcomeSettles(ok) \/ LockSettles(ok)
         PROVE  UNCHANGED <<pc, preps>>
    BY <1>10 DEF vars, rateVars, UnlockStart, UnlockSettles, AddressRead,
         EngineLocked, EngineFaults, WorkletExits, PromptExpires, Connect, OutcomeSettles, LockSettles
  <1> QED
    BY NextCases, <1>1, <1>2, <1>3, <1>4, <1>5, <1>6, <1>7, <1>8, <1>9, <1>10

\* A drive never opens more prompts in a window than its limit, although
\* checkPrepare() and recordPrepare() are two journal awaits apart.
THEOREM PrepareCorrect == Spec => []PrepareLimitKept
  <1>1. Init => PrepareRoom
    BY WalletAssumption DEF Init, PrepareRoom, PrepareLimitKept
  <1>2. CallInv /\ CallInv' /\ PrepareRoom /\ [Next]_vars => PrepareRoom'
    BY PrepareNext
  <1>3. PrepareRoom => PrepareLimitKept
    BY DEF PrepareRoom
  <1> QED  BY <1>1, <1>2, <1>3, CallInvAlways, PTL DEF Spec
-----------------------------------------------------------------------------
(* The worklet lock() has ended.                                           *)

\* No worklet serves a wallet that is locked or being opened again, and an
\* operation is worked on only while its worklet lives.
EngineStops ==
    /\ worklet => engine \notin {"locked", "initializing"}
    /\ \A r \in Req : op[r] \in {"run", "stale"} => worklet

LEMMA EngineStopsNext ==
    ASSUME TypeOK, EngineStops, [Next]_vars
    PROVE  EngineStops'
  <1>t. op \in [Req -> OpStates]
    BY DEF TypeOK
  \* The engine and the worklet stay as they are and nothing is started.
  <1>k. ASSUME UNCHANGED <<engine, worklet>>,
               \A r \in Req : op'[r] \in {"run", "stale"} => op[r] \in {"run", "stale"}
        PROVE  EngineStops'
    BY <1>k DEF EngineStops
  <1>o. ASSUME op' = Outdated
        PROVE  \A r \in Req : op'[r] \in {"run", "stale"} => op[r] \in {"run", "stale"}
    BY <1>o DEF Outdated
  <1>s. CASE Seal /\ worklet' = worklet
    <2>1. engine' = IF engine \in {"ready", "initializing"} THEN "locking" ELSE engine
      BY <1>s DEF Seal
    <2> QED  BY <1>s, <1>o, <2>1 DEF EngineStops, Seal
  <1>1. CASE UnlockStart
    BY <1>1 DEF UnlockStart, chainVars, EngineStops
  <1>2. CASE UnlockSettles
    BY <1>2 DEF UnlockSettles, EngineStops
  <1>3. CASE EngineLocked
    BY <1>3 DEF EngineLocked, Terminated, chainVars, EngineStops
  <1>4. CASE EngineFaults
    BY <1>4, <1>o DEF EngineFaults, EngineStops
  <1>5. CASE WorkletExits
    <2>1. \A r \in Req : op'[r] \notin {"run", "stale"}
      BY <1>5, <1>t DEF WorkletExits
    <2> QED  BY <1>5, <2>1 DEF WorkletExits, EngineStops
  <1>6. CASE Lock
    BY <1>6, <1>k, <1>s DEF Lock
  <1>7. CASE Crash
    BY <1>7 DEF Crash, EngineStops
  <1>8. ASSUME NEW r \in Req, NEW ok \in BOOLEAN, ApprovalSettles(r, ok)
        PROVE  EngineStops'
    <2>1. UNCHANGED <<engine, worklet>>
      BY <1>8 DEF ApprovalSettles
    <2>2. CASE op' = [op EXCEPT ![r] = IF worklet THEN "run" ELSE "lost"]
      BY <2>1, <2>2, <1>t DEF EngineStops
    <2>3. CASE op' = [op EXCEPT ![r] = "none"] \/ op' = op
      BY <1>k, <1>t, <2>1, <2>3
    <2> QED  BY <1>8, <2>2, <2>3, Zenon DEF ApprovalSettles, StartOp
  <1>9. ASSUME NEW r \in Req, EngineStep(r)
        PROVE  EngineStops'
    <2>1. UNCHANGED <<engine, worklet>>
      BY <1>9 DEF EngineStep, Prepared, Signed, Sends, Accepted, Broadcast,
           AppSigned, OpFails, engineVars, chainVars
    <2>2. op' = [op EXCEPT ![r] = "none"] \/ op' = op
      BY <1>9, Zenon DEF EngineStep, Prepared, Signed, Sends, Accepted,
         Broadcast, AppSigned, OpFails, chainVars
    <2> QED  BY <1>k, <1>t, <2>1, <2>2
  <1>10. ASSUME NEW ok \in BOOLEAN, OutcomeSettles(ok) \/ LockSettles(ok)
         PROVE  EngineStops'
    BY <1>10, <1>k, <1>s DEF OutcomeSettles, LockSettles, engineVars, chainVars
  <1>11. ASSUME \/ UNCHANGED vars
                \/ AddressRead \/ PromptExpires
                \/ \E t \in Tuple : Disconnect(t)
                \/ \E t \in Tuple, m \in Manifest : Connect(t, m)
                \/ \E d \in Drive : StampExpires(d)
                \/ \E r \in Req, approved \in BOOLEAN : ResolvePrompt(r, approved)
                \/ \E r \in Req : CallStep(r)
         PROVE  UNCHANGED <<engine, worklet, op>>
    BY <1>11 DEF vars, engineVars, chainVars, AddressRead, PromptExpires,
         Disconnect, Connect, StampExpires, ResolvePrompt, CallStep,
         RequestPayment, Lookup, ReadState, Quote, RequestSignature, OpenPrompt
  <1>12. ASSUME NEW r \in Req, NEW ok \in BOOLEAN,
                \/ ClosureSettles(r, ok)
                \/ IntentSettles(r, ok)
                \/ PromptSettles(r, ok)
                \/ FailureSettles(r, ok)
                \/ BroadcastSettles(r, ok)
                \/ SubmissionSettles(r, ok)
                \/ AttestationSettles(r, ok)
         PROVE  UNCHANGED <<engine, worklet, op>>
    BY <1>12 DEF engineVars, chainVars, ClosureSettles, IntentSettles,
         PromptSettles, FailureSettles, BroadcastSettles, SubmissionSettles,
         AttestationSettles
  <1>13. ASSUME UNCHANGED <<engine, worklet, op>> PROVE EngineStops'
    BY <1>k, <1>13
  <1> QED
    BY NextCases, <1>1, <1>2, <1>3, <1>4, <1>5, <1>6, <1>7, <1>8, <1>9, <1>10,
       <1>11, <1>12, <1>13

\* Only a worklet that works on the broadcast sends.
LEMMA SentKinds ==
    ASSUME [Next]_vars
    PROVE  sent' = sent \/ \E r \in Req : Sends(r)
  <1>1. ASSUME NEW r \in Req, CallStep(r) \/ EngineStep(r)
        PROVE  sent' = sent \/ Sends(r)
    BY <1>1 DEF CallStep, RequestPayment, Lookup, ReadState, Quote, RequestSignature,
         OpenPrompt, EngineStep, Prepared, Signed, Accepted, Broadcast, AppSigned,
         OpFails, chainVars
  <1>2. ASSUME NEW r \in Req, NEW ok \in BOOLEAN,
               \/ ClosureSettles(r, ok)
               \/ IntentSettles(r, ok)
               \/ PromptSettles(r, ok)
               \/ ApprovalSettles(r, ok)
               \/ FailureSettles(r, ok)
               \/ BroadcastSettles(r, ok)
               \/ SubmissionSettles(r, ok)
               \/ AttestationSettles(r, ok)
        PROVE  sent' = sent
    BY <1>2 DEF ClosureSettles, IntentSettles, PromptSettles, ApprovalSettles,
         FailureSettles, BroadcastSettles, SubmissionSettles, AttestationSettles,
         chainVars
  <1>3. ASSUME \/ UNCHANGED vars
               \/ UnlockStart \/ UnlockSettles \/ AddressRead \/ EngineLocked
               \/ EngineFaults \/ WorkletExits
               \/ Lock \/ Crash \/ PromptExpires
               \/ \E t \in Tuple : Disconnect(t)
               \/ \E t \in Tuple, m \in Manifest : Connect(t, m)
               \/ \E d \in Drive : StampExpires(d)
               \/ \E r \in Req, approved \in BOOLEAN : ResolvePrompt(r, approved)
               \/ \E ok \in BOOLEAN : OutcomeSettles(ok) \/ LockSettles(ok)
        PROVE  sent' = sent
    BY <1>3 DEF vars, chainVars, UnlockStart, UnlockSettles, AddressRead,
         EngineLocked, EngineFaults, WorkletExits, Lock, Crash, PromptExpires,
         Disconnect, Connect, StampExpires, ResolvePrompt, OutcomeSettles, LockSettles
  <1> QED  BY NextCases, <1>1, <1>2, <1>3

\* Nothing is sent in a state in which the engine is locked or being opened
\* again, even for an operation signed before the lock: lock() says "locked"
\* only after the worklet's exit.
THEOREM LockCorrect == Spec => NothingSentWhileLocked
  <1>1. Init => EngineStops
    BY DEF Init, EngineStops
  <1>2. ServiceInv /\ EngineStops /\ [Next]_vars => EngineStops'
    BY EngineStopsNext DEF ServiceInv, CallInv
  <1>3. EngineStops /\ [Next]_vars
          => [sent' # sent => engine \notin {"locked", "initializing"}]_vars
    <2> SUFFICES ASSUME EngineStops, [Next]_vars, sent' # sent
                 PROVE  engine \notin {"locked", "initializing"}
      OBVIOUS
    <2>1. PICK r \in Req : Sends(r)
      BY SentKinds
    <2> QED  BY <2>1 DEF Sends, EngineStops
  <1> QED  BY <1>1, <1>2, <1>3, ServiceInvAlways, PTL DEF Spec, NothingSentWhileLocked
-----------------------------------------------------------------------------
(***************************************************************************)
(* The journal queue around lock(): a call's "prompt" entry waits behind   *)
(* the cancellation lock() is waiting for, never before it.                *)
(***************************************************************************)
IsLock(e) == e.by = "lock"
IsPrompt(e) == e.type = "prompt"
Plain(e) == ~IsLock(e) /\ ~IsPrompt(e)

SealInv ==
    /\ NoPromptWhenSealed
    /\ \A i \in DOMAIN jq : IsLock(jq[i]) => pending = None
    /\ \A i, j \in DOMAIN jq : IsLock(jq[i]) /\ IsPrompt(jq[j]) => i < j
    /\ \A i, j \in DOMAIN jq : IsPrompt(jq[i]) /\ IsPrompt(jq[j]) => i = j
    /\ \A i \in DOMAIN jq : IsPrompt(jq[i]) => pc[jq[i].id] = "prompt"

\* What stands in q was in the journal queue, up to one entry less at its head,
\* or is neither a prompt nor the entry lock() waits for.
ShiftedBy(q, k) ==
    \A i \in DOMAIN q : Plain(q[i]) \/ (i + k \in DOMAIN jq /\ q[i] = jq[i + k])
Keeps(q) == ShiftedBy(q, 0) \/ ShiftedBy(q, 1)

LEMMA Requested ==
    ASSUME TypeOK
    PROVE  \A i \in DOMAIN jq : jq[i].id \in Req
  <1>1. \A i \in DOMAIN jq : jq[i] \in Appends
    BY QueueElement DEF TypeOK
  <1> QED  BY <1>1 DEF Appends

LEMMA KeepsQueue ==
    ASSUME TypeOK
    PROVE  jq \in Seq(Appends) /\ Keeps(jq)
  <1>1. jq \in Seq(Appends)
    BY DEF TypeOK
  <1>2. \A i \in DOMAIN jq : i + 0 = i
    BY <1>1
  <1> QED  BY <1>1, <1>2 DEF Keeps, ShiftedBy

LEMMA KeepsTail ==
    ASSUME TypeOK, jq # <<>>
    PROVE  Tail(jq) \in Seq(Appends) /\ Keeps(Tail(jq))
  BY QueueTail DEF TypeOK, Keeps, ShiftedBy

LEMMA KeepsAppend ==
    ASSUME NEW q \in Seq(Appends), Keeps(q), NEW e \in Appends, Plain(e)
    PROVE  Append(q, e) \in Seq(Appends) /\ Keeps(Append(q, e))
  BY QueueAppend DEF Keeps, ShiftedBy

LEMMA PlainEntry ==
    ASSUME NEW r, NEW type, NEW by, type # "prompt", by # "lock"
    PROVE  Plain(Entry(r, type, by))
  BY DEF Plain, IsLock, IsPrompt, Entry

\* A step that queues nothing but plain entries, exposes no prompt and takes no
\* call out of the wait for its prompt entry.
LEMMA SealQuiet ==
    ASSUME TypeOK, SealInv, jq' \in Seq(Appends), Keeps(jq'), NoPromptWhenSealed',
           pending' \in {pending, None},
           \A r \in Req : pc[r] = "prompt" => pc'[r] = "prompt"
    PROVE  SealInv'
  <1>1. PICK k \in {0, 1} : ShiftedBy(jq', k)
    BY DEF Keeps
  <1>2. /\ \A i \in DOMAIN jq' : i \in Int /\ jq'[i] \in Appends
        /\ \A i \in DOMAIN jq : i \in Int /\ jq[i] \in Appends
    BY QueueElement DEF TypeOK
  <1>3. \A i \in DOMAIN jq' : IsLock(jq'[i]) \/ IsPrompt(jq'[i]) =>
            i + k \in DOMAIN jq /\ jq'[i] = jq[i + k]
    BY <1>1 DEF ShiftedBy, Plain
  <1>4. \A i \in DOMAIN jq' : IsLock(jq'[i]) => pending' = None
    BY <1>3 DEF SealInv
  <1>5. \A i, j \in DOMAIN jq' : IsLock(jq'[i]) /\ IsPrompt(jq'[j]) => i < j
    <2>1. SUFFICES ASSUME NEW i \in DOMAIN jq', NEW j \in DOMAIN jq',
                          IsLock(jq'[i]), IsPrompt(jq'[j])
                   PROVE  i < j
      OBVIOUS
    <2>2. i + k < j + k
      BY <1>3, <2>1 DEF SealInv
    <2> QED  BY <1>2, <2>2
  <1>6. \A i, j \in DOMAIN jq' : IsPrompt(jq'[i]) /\ IsPrompt(jq'[j]) => i = j
    <2>1. SUFFICES ASSUME NEW i \in DOMAIN jq', NEW j \in DOMAIN jq',
                          IsPrompt(jq'[i]), IsPrompt(jq'[j])
                   PROVE  i = j
      OBVIOUS
    <2>2. i + k = j + k
      BY <1>3, <2>1 DEF SealInv
    <2> QED  BY <1>2, <2>2
  <1>7. \A i \in DOMAIN jq' : IsPrompt(jq'[i]) => pc'[jq'[i].id] = "prompt"
    BY <1>3, Requested DEF SealInv
  <1> QED  BY <1>4, <1>5, <1>6, <1>7 DEF SealInv, IsLock, IsPrompt

\* A step that leaves the engine, the connections and the pending prompt alone.
LEMMA SealFrame ==
    ASSUME TypeOK, SealInv, UNCHANGED <<pending, engine, connected>>,
           jq' \in Seq(Appends), Keeps(jq'),
           \A r \in Req : pc[r] = "prompt" => pc'[r] = "prompt"
    PROVE  SealInv'
  BY SealQuiet DEF SealInv, NoPromptWhenSealed

\* The entry a call has queued is plain, and so the rest of the queue is kept.
LEMMA KeepsEntry ==
    ASSUME NEW q \in Seq(Appends), Keeps(q), NEW r \in Req,
           NEW type \in EntryTypes \ {"prompt"}, NEW by \in {"call", "none"} \cup Req,
           by # "lock"
    PROVE  Append(q, Entry(r, type, by)) \in Seq(Appends)
           /\ Keeps(Append(q, Entry(r, type, by)))
  BY EntryType, PlainEntry, KeepsAppend
-----------------------------------------------------------------------------
(* The steps of the service.                                               *)

\* pc moves at r only, from a phase other than "prompt".
Moves(r) ==
    pc[r] # "prompt" /\ \E p : pc' = [pc EXCEPT ![r] = p]

LEMMA MovesKeep ==
    ASSUME TypeOK, NEW r \in Req, Moves(r)
    PROVE  \A q \in Req : pc[q] = "prompt" => pc'[q] = "prompt"
  BY DEF TypeOK, Moves

\* A call is named by none of the words of the queue.
LEMMA Named ==
    ASSUME CallInv, NEW r \in Req
    PROVE  /\ TypeOK /\ r # "lock" /\ r # None /\ jq \in Seq(Appends)
           /\ pc[r] = "reading" => Holder(r) \in Req
  <1>1. TypeOK /\ jq \in Seq(Appends) /\ r # "lock" /\ r # None
    BY WalletAssumption DEF CallInv, TypeOK
  <1>2. ASSUME pc[r] = "reading" PROVE Holder(r) \in Req
    <2>1. Holder(r) # None /\ bound[r] \in Manifest
      BY <1>2 DEF CallInv, CallShape
    <2>2. ReservationKey(r) \in Slots
      BY <2>1, WalletAssumption, DriveType DEF ReservationKey, Slots
    <2> QED  BY <1>1, <2>1, <2>2 DEF Holder, TypeOK
  <1> QED  BY <1>1, <1>2

LEMMA SealCall ==
    ASSUME CallInv, SealInv, NEW r \in Req, CallStep(r)
    PROVE  SealInv'
  <1>1. UNCHANGED <<pending, engine, connected>>
    BY DEF CallStep, RequestPayment, Lookup, ReadState, Quote, RequestSignature,
           OpenPrompt, promptVars, engineVars
  <1>2. Moves(r)
    <2>1. pc[r] \in {"idle", "lookup", "reading", "quote"}
      BY DEF CallStep, RequestPayment, Lookup, ReadState, Quote, RequestSignature
    <2>2. \E p \in {"lookup", "quote", "idle", "reading", "closing", "intent"} :
             pc' = [pc EXCEPT ![r] = p]
      BY Zenon DEF CallStep, RequestPayment, Lookup, ReadState, Quote, RequestSignature,
             OpenPrompt
    <2> QED  BY <2>1, <2>2 DEF Moves
  <1>3. \/ jq' = jq \/ jq' = Append(jq, Entry(r, "intent", "call"))
        \/ pc[r] = "reading" /\ jq' = Append(jq, Entry(Holder(r), "expired", r))
    BY DEF CallStep, RequestPayment, Lookup, ReadState, Quote, RequestSignature,
           OpenPrompt, journalVars
  <1>4. jq' \in Seq(Appends) /\ Keeps(jq')
    <2>1. CASE jq' = jq
      BY <2>1, Named, KeepsQueue
    <2>2. CASE jq' = Append(jq, Entry(r, "intent", "call"))
      BY <2>2, Named, KeepsQueue, KeepsEntry DEF EntryTypes
    <2>3. CASE pc[r] = "reading" /\ jq' = Append(jq, Entry(Holder(r), "expired", r))
      BY <2>3, Named, KeepsQueue, KeepsEntry DEF EntryTypes
    <2> QED  BY <1>3, <2>1, <2>2, <2>3
  <1> QED  BY <1>1, <1>2, <1>4, Named, MovesKeep, SealFrame

LEMMA SealEngine ==
    ASSUME CallInv, SealInv, NEW r \in Req, EngineStep(r)
    PROVE  SealInv'
  <1> USE DEF EngineStep, Prepared, Signed, Sends, Accepted, Broadcast, AppSigned, OpFails
  <1>1. UNCHANGED <<pending, engine, connected>>
    BY DEF promptVars, engineVars
  <1>2. \A q \in Req : pc[q] = "prompt" => pc'[q] = "prompt"
    <2>1. CASE Sends(r) \/ Accepted(r)
      BY <2>1
    <2>2. CASE ~(Sends(r) \/ Accepted(r))
      <3>1. pc[r] # "prompt"
        BY <2>2 DEF MayFail, OpPhases
      <3>2. \E p \in {"sign", "broadcast", "recording", "attesting", "failing"} :
               pc' = [pc EXCEPT ![r] = p]
        BY <2>2, Zenon
      <3> QED  BY <3>1, <3>2, Named, MovesKeep DEF Moves
    <2> QED  BY <2>1, <2>2
  <1>3. \/ jq' = jq
        \/ \E type \in {"broadcast", "failed", "sign-app"} :
              jq' = Append(jq, Entry(r, type, "call"))
    BY DEF journalVars
  <1>4. jq' \in Seq(Appends) /\ Keeps(jq')
    <2>1. CASE jq' = jq
      BY <2>1, Named, KeepsQueue
    <2>2. ASSUME NEW type \in {"broadcast", "failed", "sign-app"},
                 jq' = Append(jq, Entry(r, type, "call"))
          PROVE  jq' \in Seq(Appends) /\ Keeps(jq')
      BY <2>2, Named, KeepsQueue, KeepsEntry DEF EntryTypes
    <2> QED  BY <1>3, <2>1, <2>2
  <1> QED  BY <1>1, <1>2, <1>4, Named, SealFrame

LEMMA SealSettles ==
    ASSUME CallInv, SealInv, NEW r \in Req, NEW ok \in BOOLEAN,
           \/ ClosureSettles(r, ok)
           \/ ApprovalSettles(r, ok)
           \/ FailureSettles(r, ok)
           \/ BroadcastSettles(r, ok)
           \/ SubmissionSettles(r, ok)
           \/ AttestationSettles(r, ok)
    PROVE  SealInv'
  <1> USE DEF ClosureSettles, ApprovalSettles, FailureSettles, BroadcastSettles,
              SubmissionSettles, AttestationSettles
  <1>1. UNCHANGED <<pending, engine, connected>>
    BY DEF promptVars, engineVars
  <1>2. Moves(r)
    <2>1. pc[r] # "prompt"
      OBVIOUS
    <2>2. \E p \in {"idle", "done", "failing", "prepare", "signapp", "reporting"} :
             pc' = [pc EXCEPT ![r] = p]
      BY Zenon DEF StartOp, PaymentSettled
    <2> QED  BY <2>1, <2>2 DEF Moves
  <1>3. /\ jq # <<>>
        /\ \/ jq' = Tail(jq)
           \/ \E type \in {"failed", "submitted"} :
                 jq' = Append(Tail(jq), Entry(r, type, "call"))
    BY Zenon DEF Settles, StartOp, PaymentSettled
  <1>4. jq' \in Seq(Appends) /\ Keeps(jq')
    <2>1. CASE jq' = Tail(jq)
      BY <1>3, <2>1, Named, KeepsTail
    <2>2. ASSUME NEW type \in {"failed", "submitted"},
                 jq' = Append(Tail(jq), Entry(r, type, "call"))
          PROVE  jq' \in Seq(Appends) /\ Keeps(jq')
      BY <1>3, <2>2, Named, KeepsTail, KeepsEntry DEF EntryTypes
    <2> QED  BY <1>3, <2>1, <2>2
  <1> QED  BY <1>1, <1>2, <1>4, Named, MovesKeep, SealFrame

\* The intent is durable and its "prompt" entry queued: no other can be, for
\* the slot is this call's, and no prompt is pending.
LEMMA SealIntent ==
    ASSUME CallInv, SealInv, NEW r \in Req, NEW ok \in BOOLEAN, IntentSettles(r, ok)
    PROVE  SealInv'
  <1>1. /\ pc[r] = "intent" /\ UNCHANGED <<pending, engine, connected>> /\ jq # <<>>
    BY DEF IntentSettles, engineVars, Settles
  <1>2. CASE jq' = Tail(jq) /\ \E p \in {"lookup", "idle"} : pc' = [pc EXCEPT ![r] = p]
    <2>1. Moves(r)
      BY <1>1, <1>2 DEF Moves
    <2> QED  BY <1>1, <1>2, <2>1, Named, KeepsTail, MovesKeep, SealFrame
  <1>3. CASE /\ jq' = Append(Tail(jq), Entry(r, "prompt", "call"))
             /\ pc' = [pc EXCEPT ![r] = "prompt"]
    <2> DEFINE e == Entry(r, "prompt", "call")
               q == Tail(jq)
    <2>1. slot = r /\ pending = None /\ \A s \in Req : pc[s] # "prompt"
      BY <1>1, Named DEF CallInv, PromptOwnsSlot, TypeOK
    <2>2. /\ q \in Seq(Appends) /\ e \in Appends /\ ~IsLock(e) /\ e.id = r
          /\ jq \in Seq(Appends)
      BY <1>1, Named, KeepsTail, EntryType DEF Entry, IsLock, EntryTypes
    <2>3. \A i \in DOMAIN jq : ~IsPrompt(jq[i])
      <3>1. \A i \in DOMAIN jq : jq[i].id \in Req
        BY Requested, Named
      <3> QED  BY <2>1, <3>1 DEF SealInv
    <2>4. \A i \in DOMAIN q : q[i] \in Appends /\ ~IsPrompt(q[i]) /\ i \in Int /\ i <= Len(q)
      BY <1>1, <2>2, <2>3, QueueTail, QueueElement
    <2> HIDE DEF e, q
    <2>5. /\ jq' \in Seq(Appends) /\ Len(q) \in Nat
          /\ \A i \in DOMAIN jq' : \/ i \in DOMAIN q /\ jq'[i] = q[i]
                                   \/ i = Len(q) + 1 /\ jq'[i] = e
      BY <1>3, <2>2, QueueAppend DEF e, q
    <2>6. \A i \in DOMAIN jq' : IsPrompt(jq'[i]) => i = Len(q) + 1 /\ jq'[i] = e
      BY <2>4, <2>5
    <2>7. \A i \in DOMAIN jq' : IsLock(jq'[i]) => i < Len(q) + 1
      BY <2>2, <2>4, <2>5
    <2>8. pc'[r] = "prompt" /\ pending' = None
      BY <1>1, <1>3, <2>1, Named DEF TypeOK
    <2>9. NoPromptWhenSealed'
      BY <2>8, Named DEF NoPromptWhenSealed
    <2> QED  BY <2>2, <2>6, <2>7, <2>8, <2>9 DEF SealInv, IsLock, IsPrompt
  <1> QED  BY <1>2, <1>3, Zenon DEF IntentSettles

\* The prompt is shown: its entry was the head, so no lock() is waiting.
LEMMA SealPrompt ==
    ASSUME CallInv, SealInv, NEW r \in Req, NEW ok \in BOOLEAN, PromptSettles(r, ok)
    PROVE  SealInv'
  <1>1. /\ pc[r] = "prompt" /\ UNCHANGED <<engine, connected>>
        /\ jq # <<>> /\ Head(jq) = Entry(r, "prompt", "call")
    BY DEF PromptSettles, engineVars, Settles
  <1>2. /\ jq \in Seq(Appends) /\ 1 \in DOMAIN jq /\ IsPrompt(jq[1])
        /\ \A i \in DOMAIN Tail(jq) : /\ i \in Int /\ i >= 1 /\ i + 1 \in DOMAIN jq
                                      /\ Tail(jq)[i] = jq[i + 1]
    BY <1>1, Named, QueueTail DEF Entry, IsPrompt
  <1>4. \A i \in DOMAIN Tail(jq) : ~IsPrompt(Tail(jq)[i])
    <2>1. SUFFICES ASSUME NEW i \in DOMAIN Tail(jq), IsPrompt(jq[i + 1])
                   PROVE  FALSE
      BY <1>2
    <2>2. i + 1 = 1
      BY <1>2, <2>1 DEF SealInv
    <2> QED  BY <1>2, <2>2
  <1>5. \A i \in DOMAIN Tail(jq) : ~IsLock(Tail(jq)[i])
    <2>1. SUFFICES ASSUME NEW i \in DOMAIN Tail(jq), IsLock(jq[i + 1])
                   PROVE  FALSE
      BY <1>2
    <2>2. i + 1 < 1
      BY <1>2, <2>1 DEF SealInv
    <2> QED  BY <1>2, <2>2
  <1>6. Tail(jq) \in Seq(Appends)
    BY <1>1, <1>2, QueueTail
  <1>7. CASE /\ pending' = r /\ jq' = Tail(jq) /\ StillValid(r)
    <2>1. NoPromptWhenSealed'
      BY <1>1, <1>7 DEF StillValid, NoPromptWhenSealed
    <2> QED  BY <1>4, <1>5, <1>7, <2>1 DEF SealInv
  <1>8. CASE /\ pending' = pending /\ jq' = Append(Tail(jq), Entry(r, "cancelled", "none"))
    <2> DEFINE e == Entry(r, "cancelled", "none")
               q == Tail(jq)
    <2>1. e \in Appends /\ ~IsLock(e) /\ ~IsPrompt(e)
      BY EntryType DEF Entry, IsLock, IsPrompt, EntryTypes
    <2>2. \A i \in DOMAIN q : ~IsLock(q[i]) /\ ~IsPrompt(q[i])
      BY <1>4, <1>5
    <2> HIDE DEF e, q
    <2>3. \A i \in DOMAIN jq' : ~IsLock(jq'[i]) /\ ~IsPrompt(jq'[i])
      BY <1>6, <1>8, <2>1, <2>2, QueueAppend DEF e, q
    <2>4. NoPromptWhenSealed'
      BY <1>1, <1>8 DEF SealInv, NoPromptWhenSealed
    <2> QED  BY <2>3, <2>4 DEF SealInv
  <1> QED  BY <1>7, <1>8, Zenon DEF PromptSettles

-----------------------------------------------------------------------------
(* Lock, disconnection and what else moves the engine or the prompt.       *)

\* lock() with a live prompt waits for the cancellation it queues; nobody else
\* is before a prompt of its own then.
LEMMA SealLock ==
    ASSUME CallInv, SealInv, Lock
    PROVE  SealInv'
  <1>1. TypeOK /\ jq \in Seq(Appends) /\ None \notin Req
    BY WalletAssumption DEF CallInv, TypeOK
  <1>2. CASE /\ pending # None /\ Consume(pending)
             /\ pc' = [pc EXCEPT ![pending] = "done"]
             /\ jq' = Append(jq, Entry(pending, "cancelled", "lock"))
    <2> DEFINE e == Entry(pending, "cancelled", "lock")
    <2>1. pending \in Req /\ pending' = None /\ \A s \in Req : pc[s] # "prompt"
      BY <1>1, <1>2 DEF CallInv, PromptOwnsSlot, TypeOK, Consume
    <2>2. e \in Appends /\ ~IsPrompt(e)
      BY <2>1, EntryType DEF Entry, IsPrompt, EntryTypes
    <2>3. \A i \in DOMAIN jq : ~IsPrompt(jq[i])
      <3>1. \A i \in DOMAIN jq : jq[i].id \in Req
        BY <1>1, Requested
      <3> QED  BY <2>1, <3>1 DEF SealInv
    <2> HIDE DEF e
    <2>4. \A i \in DOMAIN jq' : ~IsPrompt(jq'[i])
      BY <1>1, <1>2, <2>2, <2>3, QueueAppend DEF e
    <2>5. NoPromptWhenSealed'
      BY <1>1, <2>1 DEF NoPromptWhenSealed
    <2> QED  BY <2>1, <2>4, <2>5 DEF SealInv
  <1>3. CASE pending = None /\ UNCHANGED <<pending, pc, jq>>
    <2>1. NoPromptWhenSealed'
      BY <1>1, <1>3 DEF NoPromptWhenSealed
    <2> QED  BY <1>1, <1>3, <2>1, KeepsQueue, SealQuiet
  <1> QED  BY <1>2, <1>3 DEF Lock, promptVars

LEMMA SealDisconnect ==
    ASSUME CallInv, SealInv, NEW t \in Tuple, Disconnect(t)
    PROVE  SealInv'
  <1>1. TypeOK /\ jq \in Seq(Appends) /\ None \notin Req
    BY WalletAssumption DEF CallInv, TypeOK
  <1>2. engine' = engine /\ connected' = [connected EXCEPT ![t] = None]
    BY DEF Disconnect, engineVars
  <1>3. CASE /\ pending # None /\ Consume(pending)
             /\ pc' = [pc EXCEPT ![pending] = "done"]
             /\ jq' = Append(jq, Entry(pending, "cancelled", "none"))
    <2>1. pending \in Req /\ pending' = None /\ pc[pending] = "open"
      BY <1>1, <1>3 DEF CallInv, PromptOwnsSlot, TypeOK, Consume
    <2>2. jq' \in Seq(Appends) /\ Keeps(jq')
      BY <1>1, <1>3, <2>1, KeepsQueue, KeepsEntry, WalletAssumption DEF EntryTypes
    <2>3. \A q \in Req : pc[q] = "prompt" => pc'[q] = "prompt"
      BY <1>1, <1>3, <2>1 DEF TypeOK
    <2>4. NoPromptWhenSealed'
      BY <1>1, <2>1 DEF NoPromptWhenSealed
    <2> QED  BY <1>1, <2>1, <2>2, <2>3, <2>4, SealQuiet
  <1>4. CASE ~(pending # None /\ TupleOf[pending] = t) /\ UNCHANGED <<pending, pc, jq>>
    <2>1. NoPromptWhenSealed'
      BY <1>1, <1>2, <1>4, WalletAssumption DEF NoPromptWhenSealed, SealInv, TypeOK
    <2> QED  BY <1>1, <1>4, <2>1, KeepsQueue, SealQuiet
  <1> QED  BY <1>3, <1>4 DEF Disconnect, promptVars

LEMMA SealResolve ==
    ASSUME CallInv, SealInv, NEW r \in Req, NEW approved \in BOOLEAN,
           ResolvePrompt(r, approved)
    PROVE  SealInv'
  <1>1. pending = r /\ pending' = None
    BY DEF ResolvePrompt, Consume
  <1>2. Moves(r)
    <2>1. \E p \in {"done", "approving"} : pc' = [pc EXCEPT ![r] = p]
      BY Zenon DEF ResolvePrompt
    <2>2. pc[r] = "open"
      BY <1>1 DEF CallInv, PromptOwnsSlot
    <2> QED  BY <2>1, <2>2 DEF Moves
  <1>3. \E type \in {"expired", "cancelled", "rejection", "approval"},
           by \in {"call", "none"} : jq' = Append(jq, Entry(r, type, by))
    BY Zenon DEF ResolvePrompt
  <1>4. jq' \in Seq(Appends) /\ Keeps(jq')
    BY <1>3, Named, KeepsQueue, KeepsEntry DEF EntryTypes
  <1>5. NoPromptWhenSealed'
    BY <1>1, Named DEF NoPromptWhenSealed
  <1> QED  BY <1>1, <1>2, <1>4, <1>5, Named, MovesKeep, SealQuiet

\* The wallet seals when the cancellation lock() waited for settles: no prompt
\* has come up since.
LEMMA SealOutcome ==
    ASSUME CallInv, SealInv, NEW ok \in BOOLEAN, OutcomeSettles(ok) \/ LockSettles(ok)
    PROVE  SealInv'
  <1>1. TypeOK /\ jq # <<>> /\ jq' = Tail(jq) /\ UNCHANGED <<pending, pc>>
    BY DEF CallInv, OutcomeSettles, LockSettles, Settles, promptVars
  <1>2. NoPromptWhenSealed'
    <2>1. CASE OutcomeSettles(ok)
      BY <2>1 DEF OutcomeSettles, engineVars, promptVars, SealInv, NoPromptWhenSealed
    <2>2. CASE LockSettles(ok)
      <3>1. PICK r \in Req : Head(jq) = Entry(r, "cancelled", "lock")
        BY <2>2 DEF LockSettles, Settles
      <3>2. 1 \in DOMAIN jq /\ IsLock(jq[1])
        BY <1>1, <3>1, QueueTail DEF TypeOK, Entry, IsLock
      <3>3. pending' = None
        BY <1>1, <3>2 DEF SealInv
      <3> QED  BY <3>3, WalletAssumption DEF NoPromptWhenSealed
    <2> QED  BY <2>1, <2>2
  <1> QED  BY <1>1, <1>2, KeepsTail, SealQuiet

\* But for a fault, the engine moves only while no prompt is on screen.
LEMMA SealLifecycle ==
    ASSUME CallInv, SealInv,
           \/ UNCHANGED vars
           \/ UnlockStart \/ UnlockSettles \/ AddressRead \/ EngineLocked
           \/ EngineFaults \/ WorkletExits
           \/ PromptExpires
           \/ \E t \in Tuple, m \in Manifest : Connect(t, m)
           \/ \E d \in Drive : StampExpires(d)
    PROVE  SealInv'
  <1>1. UNCHANGED <<pending, pc, jq>> /\ TypeOK
    BY DEF CallInv, vars, promptVars, journalVars, UnlockStart, UnlockSettles,
           AddressRead, EngineLocked, EngineFaults, WorkletExits, PromptExpires, Connect, StampExpires
  <1>2. /\ engine \in {"ready", "faulted"} => engine' \in {"ready", "faulted"}
        /\ \A t \in Tuple : connected[t] # None => connected'[t] # None
    BY <1>1, WalletAssumption
       DEF TypeOK, vars, engineVars, UnlockStart, UnlockSettles, AddressRead,
           EngineLocked, EngineFaults, WorkletExits, PromptExpires, Connect, StampExpires
  <1>3. NoPromptWhenSealed'
    BY <1>1, <1>2, WalletAssumption DEF SealInv, NoPromptWhenSealed
  <1> QED  BY <1>1, <1>3, KeepsQueue, SealQuiet

LEMMA SealCrash ==
    ASSUME CallInv, SealInv, Crash
    PROVE  SealInv'
  BY WalletAssumption DEF Crash, SealInv, NoPromptWhenSealed

LEMMA SealNext ==
    ASSUME CallInv, SealInv, [Next]_vars
    PROVE  SealInv'
  BY NextCases, SealCall, SealEngine, SealSettles, SealIntent, SealPrompt, SealLock,
     SealDisconnect, SealResolve, SealOutcome, SealLifecycle, SealCrash

\* A prompt is never on screen for a wallet that is locked, locking or opening,
\* or for a revoked connection, for any number of calls, tabs and locks: what
\* lock() waits for in the journal is ahead of every prompt that could still
\* come up (wallet-service.cjs lock() and _openPrompt()).  A late fault of the
\* engine is the one thing that leaves a prompt without its wallet.
THEOREM SealedCorrect == Spec => []NoPromptWhenSealed
  <1>1. Init => SealInv
    BY WalletAssumption DEF Init, SealInv, NoPromptWhenSealed
  <1>2. CallInv /\ SealInv /\ [Next]_vars => SealInv'
    BY SealNext
  <1>3. SealInv => NoPromptWhenSealed
    BY DEF SealInv
  <1> QED  BY <1>1, <1>2, <1>3, CallInvAlways, PTL DEF Spec
-----------------------------------------------------------------------------
(* The broker: only a click spends.                                        *)

\* Where a call stands whose prompt was approved, up to its transaction's sending.
Granted == {"approving", "prepare", "sign", "broadcast"}

ClickInv ==
    /\ sent \subseteq clicked
    /\ \A r \in Req : pc[r] \in Granted => r \in clicked

\* The broker calls the service and does nothing of its own to it.
LEMMA ConsentIsService ==
    ASSUME [ConsentNext]_consentVars
    PROVE  [Next]_vars
  BY DEF ConsentNext, consentVars, ServiceStep, Bridged, AskConnect, ConnectResolve, BrokerResolve,
         BrokerTimeout, ChromeLock, ConsentCrash, CallResolve, TimeoutAnswer, Next

\* No step of the service grants anything by itself, and what it sends was
\* granted.
Ungranted ==
    /\ \A r \in Req : pc'[r] \in Granted => pc[r] \in Granted
    /\ \A r \in sent' : r \in sent \/ (r \in Req /\ pc[r] = "broadcast")

LEMMA UngrantedMove ==
    ASSUME TypeOK, NEW r \in Req, NEW p, pc' = [pc EXCEPT ![r] = p], sent' = sent,
           p \in Granted => pc[r] \in Granted
    PROVE  Ungranted
  BY DEF TypeOK, Ungranted

LEMMA UngrantedStay ==
    ASSUME pc' = pc, sent' = sent
    PROVE  Ungranted
  BY DEF Ungranted

LEMMA LockGrantsNothing == ASSUME CallInv, Lock \/ Crash \/ \E t \in Tuple : Disconnect(t)
                           PROVE  Ungranted
  <1>1. TypeOK /\ sent' = sent
    BY DEF CallInv, Lock, Crash, Disconnect, chainVars
  <1>2. \/ \A r \in Req : pc'[r] \in {"idle", "done"}
        \/ pc' = pc \/ pc' = [pc EXCEPT ![pending] = "done"]
    BY DEF Lock, Crash, Disconnect
  <1> QED  BY <1>1, <1>2 DEF Ungranted, Granted, TypeOK

LEMMA CallGrantsNothing ==
    ASSUME CallInv, NEW r \in Req, CallStep(r) \/ EngineStep(r)
    PROVE  Ungranted
  <1>1. TypeOK
    BY DEF CallInv
  <1>2. CASE CallStep(r)
    <2>1. sent' = sent
      BY <1>2 DEF CallStep, RequestPayment, Lookup, ReadState, Quote, RequestSignature,
                  OpenPrompt, chainVars
    <2>2. \E p \in {"lookup", "quote", "idle", "reading", "closing", "intent"} :
             pc' = [pc EXCEPT ![r] = p]
      BY <1>2, Zenon DEF CallStep, RequestPayment, Lookup, ReadState, Quote,
                         RequestSignature, OpenPrompt
    <2> QED  BY <1>1, <2>1, <2>2, UngrantedMove DEF Granted
  <1>3. CASE Sends(r) \/ Accepted(r)
    BY <1>1, <1>3 DEF Sends, Accepted, Ungranted, Granted, TypeOK
  <1>4. CASE Prepared(r) \/ Signed(r) \/ Broadcast(r) \/ AppSigned(r) \/ OpFails(r)
    <2>1. sent' = sent
      BY <1>4 DEF Prepared, Signed, Broadcast, AppSigned, OpFails, chainVars
    <2>2. \E p \in {"sign", "broadcast", "recording", "attesting", "failing"} :
             pc' = [pc EXCEPT ![r] = p] /\ (p \in Granted => pc[r] \in Granted)
      BY <1>4, Zenon DEF Prepared, Signed, Broadcast, AppSigned, OpFails, Granted
    <2> QED  BY <1>1, <2>1, <2>2, UngrantedMove
  <1> QED  BY <1>2, <1>3, <1>4 DEF EngineStep

LEMMA SettlesGrantsNothing ==
    ASSUME CallInv, NEW r \in Req, NEW ok \in BOOLEAN,
           \/ ClosureSettles(r, ok) \/ IntentSettles(r, ok) \/ PromptSettles(r, ok)
           \/ ApprovalSettles(r, ok) \/ FailureSettles(r, ok) \/ BroadcastSettles(r, ok)
           \/ SubmissionSettles(r, ok) \/ AttestationSettles(r, ok)
    PROVE  Ungranted
  <1>1. TypeOK /\ sent' = sent
    BY DEF CallInv, ClosureSettles, IntentSettles, PromptSettles, ApprovalSettles,
           FailureSettles, BroadcastSettles, SubmissionSettles, AttestationSettles, chainVars
  <1>2. CASE ApprovalSettles(r, ok)
    <2>1. pc[r] \in Granted /\ \E p : pc' = [pc EXCEPT ![r] = p]
      BY <1>2, Zenon DEF ApprovalSettles, StartOp, Granted
    <2> QED  BY <1>1, <2>1, UngrantedMove
  <1>3. CASE ~ApprovalSettles(r, ok)
    <2>1. \E p \in {"idle", "prompt", "open", "lookup", "done", "failing", "reporting"} :
             pc' = [pc EXCEPT ![r] = p]
      BY <1>3, Zenon DEF ClosureSettles, IntentSettles, PromptSettles, FailureSettles,
         BroadcastSettles, SubmissionSettles, AttestationSettles, PaymentSettled
    <2> QED  BY <1>1, <2>1, UngrantedMove DEF Granted
  <1> QED  BY <1>2, <1>3

LEMMA OthersGrantNothing ==
    ASSUME \/ UNCHANGED vars
           \/ UnlockStart \/ UnlockSettles \/ AddressRead \/ EngineLocked
           \/ EngineFaults \/ WorkletExits
           \/ PromptExpires
           \/ \E t \in Tuple, m \in Manifest : Connect(t, m)
           \/ \E d \in Drive : StampExpires(d)
           \/ \E ok \in BOOLEAN : OutcomeSettles(ok) \/ LockSettles(ok)
    PROVE  Ungranted
  <1>1. UNCHANGED <<pc, sent>>
    BY DEF vars, chainVars, UnlockStart, UnlockSettles, AddressRead, EngineLocked, EngineFaults, WorkletExits,
           PromptExpires, Connect, StampExpires, OutcomeSettles, LockSettles
  <1> QED  BY <1>1, UngrantedStay

\* Everything but an answer to a prompt.
LEMMA ServiceGrantsNothing ==
    ASSUME CallInv,
           \/ UNCHANGED vars \/ InternalStep \/ Lock \/ Crash
           \/ \E t \in Tuple, m \in Manifest : Connect(t, m)
    PROVE  Ungranted
  <1>1. CASE InternalStep
    BY <1>1, LockGrantsNothing, CallGrantsNothing, SettlesGrantsNothing, OthersGrantNothing
       DEF InternalStep, LifecycleStep, JournalStep, AutoLock
  <1> QED  BY <1>1, LockGrantsNothing, OthersGrantNothing

\* A refusal grants nothing, an approval its own prompt only.
LEMMA AnswerGrants ==
    ASSUME CallInv, NEW r \in Req, NEW approved \in BOOLEAN, ResolvePrompt(r, approved)
    PROVE  /\ sent' = sent
           /\ \A q \in Req : pc'[q] \in Granted => pc[q] \in Granted \/ (q = r /\ approved)
  <1>1. TypeOK /\ sent' = sent
    BY DEF CallInv, ResolvePrompt, chainVars
  <1>2. \E p \in {"done", "approving"} :
           pc' = [pc EXCEPT ![r] = p] /\ (p = "approving" => approved)
    BY Zenon DEF ResolvePrompt
  <1> QED  BY <1>1, <1>2 DEF TypeOK, Granted

LEMMA ClickKept ==
    ASSUME CallInv, ClickInv, Ungranted, clicked \subseteq clicked'
    PROVE  ClickInv'
  BY DEF ClickInv, Ungranted, Granted

LEMMA ClickNext ==
    ASSUME CallInv, ClickInv, [ConsentNext]_consentVars
    PROVE  ClickInv'
  <1>1. CASE UNCHANGED consentVars
    BY <1>1, ClickKept, ServiceGrantsNothing DEF consentVars, brokerVars
  <1>2. CASE ServiceStep \/ ChromeLock \/ ConsentCrash
    BY <1>2, ClickKept, ServiceGrantsNothing DEF ServiceStep, Bridged, ChromeLock, ConsentCrash
  <1>3. ASSUME NEW t \in Tuple, NEW m \in Manifest, AskConnect(t, m) \/ ConnectResolve(t, m)
        PROVE  ClickInv'
    BY <1>3, ClickKept, ServiceGrantsNothing DEF AskConnect, ConnectResolve
  <1>4. ASSUME NEW r \in Req, NEW approved \in BOOLEAN, BrokerResolve(r, approved)
        PROVE  ClickInv'
    <2>1. CASE UNCHANGED vars
      BY <1>4, <2>1, ClickKept, ServiceGrantsNothing DEF BrokerResolve
    <2>2. CASE ~UNCHANGED vars
      <3>1. /\ ResolvePrompt(r, approved)
            /\ clicked' = IF approved THEN clicked \cup {r} ELSE clicked
        BY <1>4, <2>2 DEF BrokerResolve, CallResolve
      <3> QED  BY <3>1, AnswerGrants DEF ClickInv
    <2> QED  BY <2>1, <2>2
  <1>5. ASSUME NEW r \in Req, BrokerTimeout(r) PROVE ClickInv'
    <2>1. clicked' = clicked /\ (ResolvePrompt(r, FALSE) \/ UNCHANGED vars)
      BY <1>5 DEF BrokerTimeout, CallResolve, TimeoutAnswer
    <2> QED  BY <2>1, AnswerGrants, ClickKept, ServiceGrantsNothing DEF ClickInv
  <1> QED  BY <1>1, <1>2, <1>3, <1>4, <1>5 DEF ConsentNext

\* Whatever was sent, the user clicked on that very prompt, in time: for any
\* number of pages, retries, locks, restarts and prompts nobody answered
\* (wallet-consent.cjs).
THEOREM ClickCorrect == ConsentSpec => []SpendWasClicked
  <1>1. ConsentInit => CallInv /\ ClickInv
    BY CallInvInit DEF ConsentInit, Init, ClickInv, Granted
  <1>2. CallInv /\ ClickInv /\ [ConsentNext]_consentVars => CallInv' /\ ClickInv'
    BY CallInvNext, ConsentIsService, ClickNext
  <1>3. ClickInv => SpendWasClicked
    BY DEF ClickInv, SpendWasClicked
  <1> QED  BY <1>1, <1>2, <1>3, PTL DEF ConsentSpec

\* The broker, the bridge and the chrome drive the service only through its own
\* steps: whatever is proved of the service holds behind them.
THEOREM ConsentRefinesService == ConsentSpec => Spec
  <1>1. ConsentInit => Init
    BY DEF ConsentInit
  <1>2. [ConsentNext]_consentVars => [Next]_vars
    BY ConsentIsService
  <1> QED  BY <1>1, <1>2, PTL DEF ConsentSpec, Spec

\* With the broker in front: a key is spent at most once over retries, restarts
\* and prompts, the journal never claims a transaction the chain did not accept,
\* and every intent goes through the ideal payment's life (wallet-journal.cjs:206-217,
\* wallet-service.cjs:830-838).
THEOREM ConsentCorrect ==
    ConsentSpec => []OneSpendPerKey /\ []SubmittedIsOnChain /\ ImplementsIdeal
  BY ConsentRefinesService, KeyCorrect, JournalCorrect, Refinement
=============================================================================
