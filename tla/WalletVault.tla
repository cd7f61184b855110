---------------------------- MODULE WalletVault ----------------------------
(***************************************************************************)
(* The life of the wallet's three files over the engine: createWallet()    *)
(* and restoreWallet() run a ceremony and persist what it yields,          *)
(* backupWallet() and unlock() read the files back.  A call is named by    *)
(* the worklet it raises, and so is the key material a ceremony yields.    *)
(*                                                                         *)
(* A crash leaves the files as they are and forgets the rest, so the model *)
(* starts from whatever files an earlier process may have left; that no    *)
(* reachable step leaves others is what makes it safe to crash anywhere.   *)
(*                                                                         *)
(* Code: src/backend/wallet/wallet-service.cjs.                            *)
(***************************************************************************)
EXTENDS WdkEngine

CONSTANT Old    \* key material from before this process

VARIABLES
    disk,       \* whose seed, entropy and vault key the files hold
    tmp,        \* the temporary file beside each: one name per process
    call,       \* how far the service call that raised each worklet is
    overlapped  \* history: a genesis call passed its check during another

filesVars == <<disk, tmp, call, overlapped>>
vaultVars == <<vars, filesVars>>

Material == Worklet \cup {Old}
File == {"seed", "entropy", "vault"}

\* The files left by a process that may have died between any two writes.
Whole(d) == d.vault # None => d.seed = d.vault /\ d.entropy = d.vault

VaultInit ==
    /\ Init
    /\ disk \in {d \in [File -> {Old, None}] : Whole(d)}
    /\ tmp = [f \in File |-> None]
    /\ call = [w \in Worklet |-> "none"]
    /\ overlapped = FALSE

Calls(w, c) == call' = [call EXCEPT ![w] = c]

HasVault == disk.vault # None

Renaming(f) ==
    CASE f = "seed" -> "seed-tmp" [] f = "entropy" -> "entropy-tmp" [] f = "vault" -> "vault-tmp"

\* Genesis calls that have their material and have not written all of it.
Persisting == File \cup {Renaming(f) : f \in File}

\* Bug: the check for an existing vault is left out.
CreateUnchecked(w) ==
    /\ BeginCeremony(w)
    /\ Calls(w, "create")
    /\ overlapped' = (overlapped \/ \E v \in Worklet : call[v] \in Persisting)
    /\ UNCHANGED <<disk, tmp>>

\* createWallet() and restoreWallet(), up to the wait for the worklet.
Create(w) == ~HasVault /\ CreateUnchecked(w)

\* The worklet is given the entropy and the key unwrapped from the vault: two
\* reads, taken here as one.
Backup(w) ==
    /\ HasVault /\ BeginCeremony(w)
    /\ Calls(w, IF disk.entropy = disk.vault THEN "backup" ELSE "mismatch")
    /\ UNCHANGED <<disk, tmp, overlapped>>

Unlock(w) ==
    /\ HasVault /\ Initialize(w)
    /\ Calls(w, IF disk.seed = disk.vault THEN "unlock" ELSE "mismatch")
    /\ UNCHANGED <<disk, tmp, overlapped>>

\* Key and ciphertext of different wallets: the worklet refuses.
Opens(w) == BeginResolves(w) \/ InitResolves(w)

Opened(w) ==
    /\ call[w] # "mismatch" /\ Opens(w)
    /\ UNCHANGED filesVars

\* The service asks for the outcome of its own genesis; the chrome for that of
\* a backup.
Completes(w) ==
    /\ Finish(w)
    /\ IF call[w] = "create" THEN Calls(w, "asked") ELSE UNCHANGED call
    /\ UNCHANGED <<disk, tmp, overlapped>>

\* A ceremony that lock() ended first yields nothing.
Yields(w) ==
    /\ FinishSettles(w)
    /\ \/ call[w] = "asked" /\ Calls(w, "given")
       \/ UNCHANGED call
    /\ UNCHANGED <<disk, tmp, overlapped>>

\* The material is handed over once the worklet is known to be gone.
Delivers(w) ==
    /\ CloseEnds(w)
    /\ IF call[w] = "given" /\ ~recovery' THEN Calls(w, "seed") ELSE UNCHANGED call
    /\ UNCHANGED <<disk, tmp, overlapped>>

\* What an engine call goes through without the service noticing.
EngineCallStep(w) ==
    \/ SpawnResolves(w) \/ SpawnRejects(w) \/ SpawnTimesOut(w)
    \/ InitFails(w) \/ UnwindEnds(w) \/ UnwindTimesOut(w)
    \/ CeremonySpawned(w) \/ CeremonySpawnRejects(w) \/ BeginFails(w)
    \/ AbortEnds(w)

OtherEngineStep ==
    /\ \/ Lock \/ LockStep
       \/ \E w \in Worklet :
             EngineCallStep(w) \/ LockAborts(w) \/ LateSpawn(w) \/ Exits(w)
    /\ UNCHANGED filesVars

\* Bug: the vault is written first.
VaultFirst(f) ==
    CASE f = "seed" -> "vault" [] f = "entropy" -> "seed" [] f = "vault" -> "entropy"

\* The vault is written last.
FileOf(f) == f

After(f) ==
    CASE f = "seed" -> "entropy" [] f = "entropy" -> "vault" [] f = "vault" -> "made"

\* writeFileAtomic(): writeFile to the temporary name, then rename.  Of two
\* calls that share the name, the first to rename takes what the last to write
\* wrote, and the second finds nothing.
WriteTmp(w, f) ==
    /\ call[w] = f
    /\ tmp' = [tmp EXCEPT ![FileOf(f)] = w]
    /\ Calls(w, Renaming(f))
    /\ UNCHANGED <<vars, disk, overlapped>>

Rename(w, f) ==
    /\ call[w] = Renaming(f) /\ tmp[FileOf(f)] # None
    /\ disk' = [disk EXCEPT ![FileOf(f)] = tmp[FileOf(f)]]
    /\ tmp' = [tmp EXCEPT ![FileOf(f)] = None]
    /\ Calls(w, After(f))
    /\ UNCHANGED <<vars, overlapped>>

\* No space, no permission, nothing to rename: the call throws.
WriteFails(w, f) ==
    /\ call[w] \in {f, Renaming(f)}
    /\ Calls(w, "failed")
    /\ UNCHANGED <<vars, disk, tmp, overlapped>>

Persists(w) == \E f \in File : WriteTmp(w, f) \/ Rename(w, f) \/ WriteFails(w, f)

VaultNext ==
    \/ \E w \in Worklet :
          \/ Create(w) \/ Backup(w) \/ Unlock(w) \/ Opened(w)
          \/ Completes(w) \/ Yields(w) \/ Delivers(w) \/ Persists(w)
    \/ OtherEngineStep

VaultSpec == VaultInit /\ [][VaultNext]_vaultVars

ServiceCallStep(w) ==
    \/ Opened(w) \/ Yields(w) \/ Delivers(w)
    \/ (EngineCallStep(w) /\ UNCHANGED filesVars)

\* Timers fire, so some call under way moves on, and so does lock().  Nothing
\* is assumed of worklets: one may answer nothing and never exit.
VaultFairness ==
    /\ WF_vaultVars(\E w \in Worklet : ServiceCallStep(w))
    /\ WF_vaultVars(LockStep /\ UNCHANGED filesVars)

FairVaultSpec == VaultSpec /\ VaultFairness
-----------------------------------------------------------------------------
(* Properties.                                                             *)

VaultTypeOK ==
    /\ TypeOK
    /\ disk \in [File -> Material \cup {None}]
    /\ tmp \in [File -> Worklet \cup {None}]
    /\ call \in [Worklet -> Persisting \cup
                    {"none", "create", "asked", "given", "backup", "unlock",
                     "mismatch", "made", "failed"}]
    /\ overlapped \in BOOLEAN

\* "The vault file is written last: its presence marks a complete wallet"
\* (wallet-service.cjs:219).  It does not when two calls overlap: the one that
\* checked before the other wrote its vault goes on to replace the seed.
CompleteWallet == Whole(disk)

\* As long as no two genesis calls overlap, whatever fails, locks or crashes
\* between any two writes leaves either no vault or a complete wallet, which
\* the next process can start from; and a wallet reported as created is the one
\* on disk, and is never replaced.
CompleteUnlessOverlapped ==
    ~overlapped =>
        /\ Whole(disk)
        /\ \A w \in Worklet : call[w] = "made" => \A f \in File : disk[f] = w
=============================================================================
