# Verification of PearBrowser desktop

TLA+ modules, TLC configurations and TLAPS proofs for the backend of
PearBrowser desktop. The modules are translated from the source under
`src/`; paths below are relative to it.

## 1. The system

PearBrowser is an Electron/Pear browser for sites stored in Hyperdrives. A
chrome (`ui/`) talks RPC to a single backend process (`backend/index.js`), which
serves pages through a loopback HTTP bridge (`backend/http-bridge.js`) and keeps
its state in Hyperbees, Autobases and files.

| Part | Files (under `backend/` unless said) | State | Operations | Interacts with |
|---|---|---|---|---|
| Wallet service | `wallet/wallet-service.cjs` | pending prompt, idle timer, genesis/unlock promises | unlock, lock, connect, disconnect, requestPayment, signAppPayload, resolvePrompt | engine, journal, policy, connections; called by bridge and chrome |
| Consent broker | `wallet/wallet-consent.cjs` | parked page calls with timers | request, resolve, expire, rejectAll | bridge parks, chrome resolves, resolver is the service |
| Policy | `wallet/wallet-policy.cjs` | prompt slot, sliding windows per drive | check/record prepare and payment, acquire/release prompt | the service |
| Connections | `wallet/wallet-connections.cjs` | record per (session, tab, drive) | connect, disconnect, revokeAll | the service |
| Journal | `wallet/wallet-journal.cjs` | Hyperbee of entries, reservations, index; promise-chain queue | append, lookupIdempotency, getByIntentId | the service |
| Engine | `wallet/wdk-engine.cjs`, `wdk-bare-transport.cjs`, worklets | life-cycle state, epoch, ceremony, worklet process | initialize, ceremonies, typed calls, lock | the service; worklets by RPC |
| Vault and genesis | `wallet/wallet-vault.cjs`, `wallet-service.cjs`, `wdk-secret-envelope.cjs` | three files: encrypted seed, encrypted entropy, vault | create, restore, back up, unlock | service, ceremonies |
| Documents | `wallet/wallet-documents.cjs`, `wallet-manifest.cjs` | tokens per navigation epoch | issue, resolve, revoke | bridge, page-context bridge |
| Naming registry | `name-registry-*.cjs`, `names.cjs`, `federated-name-resolver.cjs` | Autobase view of claims | claim, rotate, release, revoke, resolve | relays, UI |
| Browser state sync | `browser-state-*.cjs`, `device-linker.js` | multi-writer Autobase | set, delete, merge, link a device | UI |
| Autobee catalog | `autobee-catalog-*.cjs`, `catalog-*.js` | multi-writer catalog, moderation cache | publish, delist, merge | app manager, UI |
| Nostr | `nostr-*.cjs`, `federated-nostr-feed.cjs` | replaceable events, key bindings | ingest, bind, query | search, UI |
| Search | `search-*.cjs`, `query-planner.js`, `personal-index.cjs` | shards, frontier, personal index | plan, query, merge | relays, UI |
| Swarm bridge | `swarm-bridge.js`, `swarm-grants.js` | joined topics per page, grants | join, leave, send, revoke | Hyperswarm, pages |
| Apps and plugins | `app-manager.js`, `plugin-drive-loader.cjs`, `site-manager.js`, `pear-*.js` | installed apps, published sites | install, uninstall, publish | drives |
| Relays | `relay-client.js`, `community-submit.cjs`, `identity-binding-publisher.js` | retry state | pin, submit, publish | remote relays |
| Identity, profile, contacts | `identity.js`, `seed-vault.cjs`, `profile.js`, `contacts.js`, `user-data.js` | key pair, small stores | load, sign, edit | most of the above |
| Proxies, content shield | `hyper-proxy.js`, `clearnet-proxy.cjs`, `content-shield.cjs`, `shield-list-sync.cjs` | filter lists, caches | fetch, filter, update the list | pages |
| RPC | `rpc.js`, `rpc-websocket-auth.cjs`, `ui/rpc-client.js` | pending requests | call, reply, time out | UI, backend |
| Assistant | `ai/*` | model and session state | load, ask, cancel | UI |
| Shell | `electron/*`, `workers/main.js`, `index.js` | windows, updates | start, update, quit | everything |

What is hard about it: the wallet moves money through a page, a bridge, a
broker, a service, a journal and a worklet process, every arrow between them is
asynchronous, and a lock, a disconnect, a timeout or the death of the process
can fall on any of them. The Autobase views (names, browser state, catalog)
must give the same answer on every device whatever order the writers' batches
arrive in. The rest is mostly sequential code over files and sockets.

## 2. Plan

What has been done, in the order of risk:

1. **WalletService**, **WalletConsent** over it, and **IdealPayment**, which the
   service implements: checked and proved.
2. **WalletJournal** (the puts inside one append, crashes between them, the
   recovery of the counter), which implements **IdealLog**: checked and proved.
3. **WdkEngine** (life cycle, ceremonies, lock, worklets), which implements
   **IdealEngine**: checked and proved.
4. **WalletVault** over WdkEngine: the three files of a wallet, written and read
   by overlapping calls, across crashes: checked and proved.
5. **NameRegistry**: the Autobase log of owner-signed operations on names, its
   orders on each device, its reducer: checked and proved, along one order and
   between two.
6. **RpcLink** (page, host, backend, diagnostics), **SwarmBridge** (joins,
   limits, consent, channels), **Assistant** (queue, models, shutdown): checked,
   the safety proved.
7. **PersonalIndex**: the search index and the Nostr binding kept in it, across
   failing writes and crashes: checked, the index proved.

Every safety property of a passing run is a theorem. What is worth doing next:
type correctness of the modules that do not state it as a theorem yet;
**IdentityBindingPublisher** (`identity-binding-publisher.js`), which
writes a binding and its version counter in separate puts as PersonalIndex
describes for the Nostr binding, and publishes beside a rotation;
**shield-list-sync.cjs**, which keeps a list's metadata and its rules under two
settings, so that a subscription ended during a pull can come back.

## 3. Modules

A `MC` module only names the values a configuration gives to the constants; an
`Ideal` module is the abstract specification its detailed neighbour implements;
a `Proofs` module holds theorems and nothing else. Operators whose comment
starts with `Bug:` are plausible mistakes kept next to the definition they
would replace; no specification uses them, but where the mistake is a dropped
guard, the definition may be the guard on top of it.

| Module | Over | Implements | Proofs |
|---|---|---|---|
| WalletService | | IdealPayment | WalletServiceProofs |
| WalletConsent | WalletService | | WalletServiceProofs |
| WalletJournal | | IdealLog | WalletJournalProofs |
| WdkEngine | | IdealEngine | WdkEngineProofs |
| WalletVault | WdkEngine | | WdkEngineProofs |
| NameRegistry | | | NameRegistryProofs |
| SwarmBridge | | | SwarmBridgeProofs |
| RpcLink | | | RpcLinkProofs |
| Assistant | | | AssistantProofs |
| PersonalIndex | | | PersonalIndexProofs |

### WalletService (`wallet-service.cjs`, `wallet-policy.cjs`, `wallet-connections.cjs`, the queue of `wallet-journal.cjs`, the operations of `wdk-engine.cjs`)

One call of a page is an element of `Req`; once it has opened an intent it is
also that intent. `pc[r]` says before which `await` it stands, and one action
is the code between two awaits, so calls, settlements, locks and timers
interleave as they do in the event loop.

| Variable | Code |
|---|---|
| `engine`, `unlocking`, `autolock` | `WdkEngineAdapter._state`; `unlock()` waiting for the address; `_autoLockTimer` |
| `connected` | the records of `WalletConnections`, with their manifest |
| `slot`, `late` | `WalletPolicy._prompt` and whether the clock has passed its `expiresAt` |
| `pending` | `WalletService._pending` |
| `pc`, `bound` | the suspended call or settlement; the manifest it was made under |
| `worklet` | the worklet that serves the open wallet has not exited |
| `op`, `nonce` | the typed engine call in flight and what has become of its worklet; the nonce `prepareTransfer` read |
| `sent` | raw transactions the worklet has sent (`broadcastSigned`) |
| `onChain`, `chainNonce` | the network (external) |
| `jq`, `log`, `reserved` | appends on the journal's promise chain, entries and reservations on disk |
| `preps`, `pays` | the two sliding windows of the policy |

Actions follow the methods: `UnlockStart`/`UnlockSettles`/`AddressRead`,
`Lock`/`LockSettles`/`EngineLocked`, `EngineFaults` (an abandoned ceremony strikes
an engine that has gone on), `WorkletExits`, `AutoLock`, `Connect`, `Disconnect`,
`RequestPayment` → `Lookup` → (`ReadState` → `ClosureSettles`) or `Quote` →
`OpenPrompt` → `IntentSettles` → `PromptSettles`, `RequestSignature`,
`ResolvePrompt` → `ApprovalSettles`, then `Prepared`, `Signed`, `Sends`,
`Accepted`, `Broadcast`, `BroadcastSettles`, `SubmissionSettles`, `OpFails`,
`FailureSettles`, `AppSigned`, `AttestationSettles`; and `PromptExpires`,
`StampExpires`, `Crash`.

Approximations: an append is written whole or not at all (WalletJournal opens
it up); reading an intent's entries is one step; the best-effort entries of
connect and disconnect, the status and `transaction()` reads are left out; the
engine is its state, its one worklet and the operation in flight (WdkEngine opens
it up), and a fault may strike it in any state; a call
refused before it writes anything goes back to `idle`; the clock is the
possibility that a prompt or a stamp expires at any time.

An operation ends in one of four ways: its worklet answers; it fails; the worklet
exits and the transport rejects what is pending; or nothing ever happens, since a
typed call has no timer. A request posted to a worklet that has exited (`lost`) has
no exit left that would reject it. The network takes what it was sent in its own
time, also after the operation, the engine or the process has gone (`Accepted`).

### WalletConsent (`wallet-consent.cjs`, the wallet routes of `http-bridge.js`)

EXTENDS WalletService. A page call is parked while the chrome shows its prompt;
the user's click, the broker's timer, and `rejectAll()` answer it by calling the
service's `resolvePrompt`. `owed` holds the page calls that have not been answered:
`parked` loses an entry when it is taken from the broker's map, `owed` when the
promise is settled, after `resolvePrompt` has returned or thrown. `clicked` is a
history of what the user clicked on.
The internal steps of the service are steps of this module; its callers
are replaced by the broker and the chrome.

### IdealPayment

What a page may believe of payments: an intent gets one decision, only approved
ones are spent, and a scope (drive, manifest, key) at most once.

### WalletJournal, IdealLog (`wallet-journal.cjs`)

Hyperbee puts are atomic and durable; everything else happens between them.
`at` is the next put of the append at the head of the queue, and `Put`,
`PutMeta`, `PutFails`, `Crash`, `Ready` are the five things that can happen to
it. `seq` is the counter in memory, `meta` the one on disk. Callers are those of
`wallet-service.cjs`: an intent's first entry carries its reservation
(`KeyOf`), and later entries follow only after the first append resolved
(`live`). `sent` and `resolved` are histories. `IdealLog` is the journal as
WalletService uses it.

### WdkEngine, IdealEngine (`wdk-engine.cjs`, `wdk-bare-transport.cjs`)

An element of `Worklet` is one worklet the process raises, and `stage[w]` is
where the `initialize()` or the ceremony that raised it stands; `process[w]` is
the worklet itself, which can exit at any time and may never do so. `seeded`
holds the worklets that were given the seed. `lockpc` is what the one `lock()`
under way waits for (`lock()` hands a second caller the same promise). A promise
that `lock()` rejects resumes its call before anything else runs, so `CancelInit`
and `LockAborts` move the cancelled call too. When `lock()` itself finishes the
ceremony and that fails, it rejects; the model runs `LockBody` there, which then
has nothing to do, since no wallet opens while a ceremony is registered. The
order of secret zeroing, audit entries and what worklets compute are left out.
`IdealEngine` is the life cycle that WalletService's `engine` variable has, with its
fault from any state.

### WalletVault (`wallet-service.cjs`: createWallet, restoreWallet, backupWallet, unlock, `_persistGenesis`)

EXTENDS WdkEngine. A service call is named by the worklet it raises, and so is
the key material of a new wallet: `disk[f] = w` says that file `f` holds what
`w`'s ceremony yielded. `tmp` is the one temporary name beside each file, which
two calls share; `call` is how far the call has come; `overlapped` is a history:
a genesis passed its check for a vault while another was under way. A crash
leaves the files as they are, so the model starts from every content an earlier
process may have left. Passphrases and key wrapping are left out: material of one
wallet with the key of another is refused.

### NameRegistry (`name-registry-apply.cjs`, `-ops.cjs`, `-store.cjs`, the handlers in `index.js`)

`log` is every node any device appended, with what its writer had seen (`sees`);
`order[r]` is the order device `r` applies them in, and `views[r]` the view after
each prefix, as `Applied` (the reducer) builds it. `Apply` takes the next node,
`Undo` rewinds by one, so that any causal order can come about and change.
That two replicas apply the same operations on a skeleton in one order (`SameOn`)
is an order-preserving map between the positions of those operations.
The reducer takes a read of its view that fails for "no record"
(`name-registry-store.cjs:23, :27`): `Seen` is what it reads, `Reduced` what it then
writes, and `misread` records the devices on which that came out different. The
properties speak of the other devices, and hold whatever happens on those. A
failing read in `resolve()` only makes it answer null, which refuses a rotation; a
failing put rejects Autobase's apply, which is external.
Signatures bind operations to owners and not to writers: `Reappend` lets any
device append a signed operation a second time. `call` is a rotation that has
read a version and not yet appended. Autobase is external: it delivers causal
orders and nothing else is assumed of it. Petnames, federation over contacts and
invitations of writers are left out.

### SwarmBridge (`swarm-bridge.js`, `swarm-grants.js`, routes of `http-bridge.js`, the consent sheet of `index.js`)

A join waits four times: for the grant store, for the user, for the grant to be
stored, for the swarm. `chan[c].stage` says where; `count`, `joins`, `pending`
are the counters, which are not recomputed from the channels; `grants` is on
disk and `approved` a history of the user's answers. `stream` and `attached`
are the event streams of pages, whose end leaves the channel. Peers, messages,
byte rates and stream tickets are left out.

### RpcLink (`index.js`, `ui/boot.js`, `ui/rpc-client.js`, `backend/rpc.js`, `rpc-websocket-auth.cjs`)

`page` is a page load with its client, `pipe` its reconnecting socket, `sock`
each socket with both ends and the frames it carries, `host` the process that
bridges one renderer to the backend (with the buffer and the grace timer),
`backend` the handlers at work, `diag` the diagnostic sockets, which share the
backend under ids of the host's own. `answers`, `seen` and `lost` are histories.
A reload starts a new load with ids from 1; sockets break anywhere; the close
event of an old socket may come late.

### Assistant (`ai/qvac-service.mjs`, `ai/ask-browser-service.cjs`)

`phase` says where each request is, `queue`, `active`, `drain` are the queue and
its loop, `loaded` is `_loaded` and `held` what is in native memory, `timer` and
`idle` are the idle timer and the unload passes it started, `closing` and `ask`
the two shutdowns. An unload pass is taken to end before the quiet window passes
again. `unloadModel` has no caller and is left out, as is what streams say.

### PersonalIndex (`personal-index.cjs`, `nostr-binding-store.cjs`)

`rec`, `posted`, `order`, `seq`, `count` are the index's keys in the Hyperbee,
`binding`, `epoch`, `revoked` those of the Nostr binding. `chain` is the promise
chain: the call at its head is running, and each action is one batch or put of
it. `Fails` rejects any of them, `Crash` ends the process (or closes the store)
between any two; a batch itself is atomic (external). Reads go past the chain, and
a read that fails is taken for the default, as `_meta()` does; `misread` records
that it happened. The index is found as an older version may have left it:
records may have no number (`seq` 0), and order keys up to `OldSeq` may name a page
that is not indexed, or that is indexed under a later key too
(`personal-index.cjs:92, :116-118`). `turns` counts the turns of the running
eviction, which gives up after `MaxDocs + Slack`. The binding kept under its epoch
as history is left out.

## 4. What the runs show

All state spaces are finite without constraints: intents, worklets, calls and
requests are used once, and every queue, log and counter is bounded by them or by
a constant whose comment says so (`Max...`).

| Run | Question | Instance | States |
|---|---|---|---|
| `slot` | A payment, its retry under the same key from another tab, and an app signature contend for the slot: do slot, prompt and calls agree, does no prompt survive sealing, are refusals final, is nothing sent for a locked wallet, whatever worklet, network and a late ceremony do? | 2 payments, 1 signature, 2 tabs | 1,435,524 |
| `consent` | Is every spend preceded by a click on that very prompt, and made once per key? Does the service implement IdealPayment? Is every page call answered and does the slot come free, without the user? | 2 payments, 2 tabs, 1 key, 1 connect prompt at a time, fairness | 221,265 |
| `journal` | Numbers, indexes, reservations under failing puts and crashes; IdealLog | 2 payments, 1 key | 5,376 |
| `vault` | Is a vault on disk a whole wallet, whatever fails; where is the seed; what does "locked" mean (IdealEngine); what may overlap a ceremony; do locks and the calls they may wait for end, with a worklet that never answers? | 3 worklets, fairness | 805,215 |
| `registry` | Do reservations mirror the names; whose claim does a holder hold by; do versions and tombstones only move forward; do names that look different leave each other alone? | 3 names, 2 look alike, 2 owners, 2 devices, 3 nodes, 1 device that misreads, symmetry | 375,695 |
| `bridge` | Do the limits hold across four waits; is only what the user approved joined; is every join answered; does a page take its channel with it? | 3 joins, 2 streams, fairness | 167,433 |
| `rpc` | Is an event lost, repeated or overtaken; do answers cross between askers; can a stale socket detach a renderer; does a host without one end? | 2 sockets, 2 loads, 1 call each, 2 events, 1 diagnostic, fairness | 663,867 |
| `assistant` | Can a model be unloaded under the request that was given it; is every request answered; does memory come free; is shutdown final? | 2 pages, 2 questions, 2 models, fairness | 35,943 |
| `index` | Are counter, postings and order keys those of the records; is the cap restored; can a page be evicted by its own indexing; does every call behind a failed one settle? | 2 pages, room for 1, 1 stray key, 1 binding, 1 revocation, 1 crash, 1 step with failing reads, fairness | 831,048 |

Bounds. Two calls are what every race of the service needs: a holder and a
contender of the slot, the key or the window. One key makes them collide, a
limit of 1 makes the second call the one at the limit, and the signature of
`slot` has the two payments meet a prompt of another kind. In the journal, two
intents queue, collide on a key and follow each other after a crash. Three
worklets let a ceremony that is being aborted, a wallet and a second unlock
overlap, and let two creations race. In the registry three nodes are a claim, an
operation that ends it and one that contends, in every order, on two devices;
one of the two may misread, and the other must not notice. A rotation begins only
where `MaxNodes` leaves room for its node, so no rotation is cut off by the bound.
One parked connect prompt (`MaxAsking`) is enough for `rejectAll` and the slot:
connect prompts do not take the slot and are independent of each other. Three joins are one
more than the limit of two channels. Two sockets and two loads are an old and a
new one of each. The assistant has two requests of each kind, so that one waits,
runs or is refused while another of its model or of the other comes. With room
for one page, two index calls re-index, evict, and do either after a crash has
cut the other short; a stray key and one turn to spare (the code has 64) let
eviction meet the key, give up on it, or take it for the page just indexed. The
theorems of section 5 have no bounds.

Fairness. In the service the promise chain of the journal settles (its puts
resolve or reject), and a request whose worklet has exited is rejected by the
transport's exit handler; in the broker the prompt timers fire. Nothing is
assumed of a worklet's answer or exit, nor of the network: a typed call has no
timer of its own (`wdk-engine.cjs:748-770`, `wdk-bare-transport.cjs:63-69`). In
the engine every wait of the life cycle is a race with a `setTimeout`, so some
call and the lock go on, while nothing is assumed of worklets. In RpcLink only
timers are fair: the request timeout and the grace period. In SwarmBridge the
store answers, the consent timer fires, the swarm flushes and lets go. In the
Assistant the adapter answers, the idle timer fires, and shutdown comes and goes
on. In PersonalIndex reads and writes settle. Nothing is assumed of the user, of
pages, of auto-lock or of crashes.

`CHECK_DEADLOCK FALSE` stands where the system may come to rest: every join,
request, socket or call of the instance has been used.

### Disagreements between the code and its documentation

Three are runs: each states the sentence of a document or comment and finds a
behaviour of the code that breaks it.

| Run | The document says | The code does |
|---|---|---|
| `failed_is_unspent` | a submitted payment is never reported failed | reports `failed` when only the broadcast's answer was lost |
| `vault_whole` | the presence of the vault marks a complete wallet | lets a second creation that checked earlier replace the seed and entropy of a finished wallet |
| `revoke_sticks` | a revocation of the current binding's epoch unlinks | looks for revocations only up to a counter that is written after the binding, and may not be |

Others were met while modelling and are not kept as runs:

- Two approved payments settle side by side and read one nonce
  (`wdk-engine.cjs`), where requests are said to be serialized per account.
- The hourly payment limit is checked before the engine work and recorded after
  it (`wallet-service.cjs:812`), so settlements in flight together exceed it.
- A replay closes an intent that is still being opened as expired, and the intent
  goes on; a terminal intent is said to be immutable.
- A changed manifest does not cancel the prompt; only the connection is asked for.
  The runs have one manifest, and no property compares manifests.
- An answer that comes after the expiry drops the parked call without telling the
  service, whose prompt then waits for its own expiry.
- A late ceremony's fault (`wdk-engine.cjs:1142`) leaves the prompt of an open wallet
  where it is: `resolvePrompt()` refuses it on a faulted engine, and it keeps the slot
  until `lock()`. `NoPromptWhenSealed` and `ConsentFreesSlot` except it.
- A typed call to a worklet that does not answer, or that had exited before the
  request was posted, may wait for ever, and the page's call with it, also after
  `lock()`: `PageAnswered` excepts it.
- A grant revoked while an approved join is storing it is written back
  (`swarm-bridge.js:229`); `ConsentFirst` is about approvals, which a revocation does
  not undo.
- Auto-lock does not reject parked prompts, as a wallet lock is said to.
- The reply to a call of an earlier page load settles a call of the new load with
  the same id (`rpc-client.js:13`): `AnswersKeepToTheirSide` excepts it.
- The claim handler answers with `ok` and the other holder's entry when the name
  is already held (`index.js:2516-2521`), where its comment has it refused.
- A claim does not say which log it was signed for, nor when: appended once more
  behind a release, it is a claim again and brings the ended holder back.
  `HeldByClaim` counts places in the order, not signatures.
- A read of the registry's view that fails is taken for "no record"
  (`name-registry-store.cjs:23, :27`): a claim may restart a version, replace a
  tombstone or rewrite a reservation on that device, which from then on may disagree
  with the others. The four properties of the registry hold of every other device.
- A join that is refused after its place was counted never gives it back
  (`swarm-bridge.js:103`): a page without a channel can be told it has too many.
  `WithinLimits` is an inequality for that reason.
- The spec (1049-1050) and `wallet-journal.cjs:238-239` have a reservation written
  atomically with its intent; the entry is put first and the reservation later.
  That is harmless as the service uses the journal: the call whose append failed
  stops, and `ReservedBeforeUse` shows that nobody gets past an append without
  the key.
- The spec (732-733) has a ceremony's worklet run while the wallet is locked; a
  ceremony that fails to begin is forgotten before its worklet has been
  terminated (`wdk-engine.cjs:1133`), and a wallet may open beside it.
  `CeremonyWhileLocked` states what does hold.
- `close()` of the assistant gives up when the adapter refuses to cancel, and
  leaves its models in memory (`qvac-service.mjs:185`, against
  `docs/QVAC_NATIVE_AI.md:90`): `MemoryReleased` excepts it.
- A failing read of `meta!count` or of a page's record is taken for "none"
  (`personal-index.cjs:46-49`, `:68`): the counter restarts, or a page keeps its
  old order key beside the new one. `IndexWhole` holds until that happens.
- An order key that an older version left behind is taken for the page it names: if
  that page has been indexed again, eviction removes the page just indexed and keeps
  the stray key (`personal-index.cjs:111-119`). `FreshPageStays` excepts exactly
  that. With more stray keys than `maxDocs + 64`, eviction gives up above the cap.

## 5. What is proved

The theorems hold for all values of the constants that satisfy the named
assumptions (the functions have their types, `None` is not a member of the
sets, the limits are natural numbers). They quantify over any number of calls,
tabs, drives, keys, intents, worklets, nodes, sockets and pages.

**WalletServiceProofs.** The inductive invariant is `ServiceInv`: types, the
agreement of slot, prompt and phases (`PromptOwnsSlot`), for each phase what
the log and the queue hold of its intent (`CallShape`, `SettlementShape`), and
room in the window for whoever holds the slot (`PrepareRoom`). Without the
shape of the queue the claims are not inductive: an approval is queued long
before it is durable, and a refusal queued by `lock()` must not meet an
approval of the same intent. Steps that append touch only one intent; the
others are carried by frame lemmas. `SpendIsApproved`, `RefusedNeverSettles`,
`SubmittedIsOnChain` and `OneSpendPerKey` follow from the invariant, and
`Refinement` maps each step to a decision, a spend or a stutter of
IdealPayment.

With the broker in front (WalletConsent), `ConsentRefinesService` maps every step
to a step of the service or a stutter, so that all of this carries over, as the
run `consent` checks it (`ConsentCorrect`). Two more invariants are about the
prompts. For
`SealedCorrect` (while a prompt is pending the engine is ready, or has faulted under
it, and the connection stands), `SealInv` describes the journal's queue: the entry `lock()` waits
for is ahead of every entry that could still raise a prompt, at most one such
entry exists, and its call stands at "prompt". Without the order of the queue the
claim is not inductive, for a prompt is raised long after its guard was checked.
For `ClickCorrect`, `ClickInv` says that whoever has left the prompt as granted
was clicked.
`LockCorrect` is an action property of its own: a step that sends a raw transaction
starts from an engine that is neither locked nor being unlocked. `EngineStops` says
why: in those states the worklet has exited, so no operation is with one. The
network is not restricted; it may take what was sent before at any time.

**WalletJournalProofs.** `JournalInv` adds to the types: which puts are done
when `at` has a given value (`RunShape`, `PutsDone`), that numbers on disk do
not exceed the counter, or what `ready()` will recover (`NumbersBounded`), that
they are distinct (`NumbersUnique`), and that intents past their first append
hold their keys (`KeysHeld`). `NumbersBounded` is the point of `ready()`: it
holds after a crash only because the recovered counter is the larger of the two.

**WdkEngineProofs.** `EngineInv` says that one `initialize()` or open wallet
exists at a time and the endpoint is its worklet (`OneCall`), that a seeded
worklet that outlives its call has left `_recoveryRequired` behind
(`Unconfirmed`), and what the state and the lock say of the calls
(`StateShape`, `LockShape`). `SeedGone` then shows that whoever sets the state
to "locked" leaves no live worklet with the seed, which is the hard step of
`Refinement`: a `lock()` may do so over a fault that struck while it waited, and
what excludes a second seeded worklet then is that its own call still counts as
the one of `OneCall`. `CeremonyCorrect` is inductive relative to `EngineInv`.

The vault stands on the engine: `VaultRefinesEngine` maps each of its steps to a
step of the engine or a stutter, which brings `EngineInv` over. `VaultInv` adds
that, unless two genesis calls have overlapped, there is one at most
(`OneGenesis`), and that it found no vault, holds the temporary file it is about
to rename, and wrote the files it has passed (`GenesisShape`). The order of the
writes, the vault last, is what makes that inductive across crashes; `VaultCorrect`
follows, and what is proved of the engine holds of the composition
(`VaultEngineCorrect`). Without the condition the claim is false: that is the run `vault_whole`.

**NameRegistryProofs.** `IInv` says of each replica that its list of snapshots is
`Good`: each snapshot mirrors names in reservations, and from any of them to any
later one names only move forward. Rewinding takes a prefix of such a list, so
the invariant survives any reordering without saying what the log is.
`SkeletonsCorrect` and `ForwardCorrect` follow. All of this is said of the devices
outside `misread`: a step on them builds what `Applied` does (`Reduced` with nothing
lost, or with a loss that made no difference), and a device never leaves `misread`.

The other two speak of the log. `Folded` says that a replica's snapshots are what
the reducer makes of its order, node by node; it is inductive because entries of
the log never change. `HeldCorrect` then goes along one order, by induction on its
length: while a name is held, `Held` names the claim, the last write of the
target, and that nothing of the holder's ends it in between. `AgreeCorrect` goes
along two orders at once: an operation on another skeleton leaves a slice alone
(`SliceOther`), one on this skeleton depends on nothing but the slice
(`SliceSame`), and `SliceAgree` matches what two replicas hold of it, prefix by
prefix. These inductions are over the natural numbers as sets
(`NatSetInduction`, from the well-foundedness of `<`).

**SwarmBridgeProofs.** `IInv` says that the joins that hold a place are no more
than the counter, and the counter no more than the limit; likewise for consent
sheets; and that a join past the question has been approved. The counters are
related to the joins by lemmas on the cardinality of finite sets, one per way a
join can enter or leave them. `LimitsCorrect` and `ConsentCorrect` follow.

**RpcLinkProofs.** What keeps the two sides apart is the ids: those of the host
are negative and go down, those of pages are positive (`DiagOK`, `LinkOK`). A
reply in flight under an id the page waits for was asked by a load no later than
this one. `AttachedOK` says that the socket the host is attached to is open at its
end. `AnswersCorrect` and `AttachedCorrect` follow.

`OrderCorrect` and `AccountedCorrect` share an invariant, `FlowInv`. `Where` says
that only the socket of the page's pipe carries frames to it, that a socket let go
of is cut, and that nothing is buffered while a renderer is attached. `Flow` is
the order itself: what the page has seen, what each socket carries and what is
buffered are each in order, and each comes before the next. So an event can never
be written to a socket while an older one is still in the buffer, which is what a
late flush or a second socket could break.

**AssistantProofs.** `IInv` says that only the active request works, that what is
in memory is what `_loaded` lists, and what shutdown leaves of either. The order
of the queue plays no part in it. `UseCorrect` and `CloseCorrect` follow.

**PersonalIndexProofs.** `ChainShape` says that a call is at the head of the chain
from its first batch to its last, so that nobody else is between its batches.
Unless a read has failed, records, counter, postings and order keys agree
(`Agreed`), no number is used twice and the last one given is the highest
(`Numbered`), a page is out of the index between its two batches and the latest in
it during eviction (`Placed`). Keys above `OldSeq` are those of records, one each;
keys below it may be stray, and every record can be found by one key at least. That
the numbers are unique is what makes a removal take exactly its own order key, and
that the latest is the highest is why eviction by the oldest key does not take the
page that has just come in, unless an older key of the same page is left. The counter
is related to the records by the cardinality of finite sets. `IndexCorrect` and
`FreshCorrect` follow, for any cap, 0 included (where the page just indexed does go).

Only model-checked: every liveness property (`ConsentFreesSlot`,
`PageAnswered`, `WaitsEnd`, `JoinSettles`,
`StreamEndLeaves`, `DetachedEnds`, `RequestSettles`, `MemoryReleased`,
`CallSettles`): liveness under fairness and `ENABLED` are beyond the prover. The
three violations are TLC's too. `FaultIsFinal` is the opposite case: proved
(`FaultCorrect`), and not run.

## 6. What is not modelled

Within the wallet: document tokens (issued, looked up and revoked within one
synchronous operation each), canonical encodings and the secret envelope
(sequential codecs with their own tests), rendering. Of the engine: the contents
of answers, zeroing of secrets, and the ceremonies' cryptography.

Outside the wallet: browser state and the Autobee catalog are op logs like the
registry under a last-writer-wins fold that is rebuilt on every read, with no
rule that relates one record to another; Nostr events are an order-independent
union of verified records; search beyond the index is computation over fetched
shards; proxies and the content shield are string processing and I/O; apps,
publishing and relays are sequential handlers and retrying clients over drives,
files and remote services; the shell, the interface, the scripts and the
generated bundles hold no protocol of their own. Most of the repository's lines
are of these kinds. Each component is listed in `PROJECT.json` with its status
and reason.
