# Verification of pqc-crypto-module

TLA+ models of the security module's own logic, checked with TLC on small
instances; the safety properties of every component, and the refinements of the
contracts the components give each other, are proved with TLAPS for every size.

Paths below are relative to the repository root.

## 1. The system

| Part | State it keeps | Operations | Talks to |
|---|---|---|---|
| Slot manager, `src/slot/` | slots (life-cycle state, PINs, wrong-PIN counter, key, generation, metadata tag), session table, persist hook | init_token, set_user_pin, session open/close/login/logout, generate, load_seed, sign, decaps, destroy, zeroize, unlock | key store (through the hook), audit log, crypto, hardware keys |
| Key store, `src/store/` | one file with every slot, a rollback anchor (file or hardware counter) | save (tmp, fsync, rename, fsync directory, advance anchor), load | serialisation of the slot manager |
| Audit log, `src/audit/` | header (count, head), hash-chained records; signed anchors elsewhere | open, append, verify, anchor create/verify, export | called by the slot manager after every operation |
| Host daemon, `cli/pqchsmd.c` | token, socket | start (load), serve one request at a time, persist hook, stop | everything above |
| Backup, injection, Shamir, `src/backup/` | the backup file, the custodians' shares, the manufacturing fuse (a stub in memory) | export and restore of the slots that allow it, injection of a seed, split and combine | the slot manager, one locked look at a slot at a time; `cli/pqchsm_admin.c` runs backup and restore |
| Wire protocol, `src/proto/` | none | one command per message | slot manager |
| PKCS#11 module, `src/p11/` | session table with the operations in progress, session objects, handles made of slot and 18 bits of generation | the C_ functions, each under one lock | slot manager (a session of its own for each open session), key store |
| Board service, `service/pqchsm_fpgad.c` | one connection at a time, two handle tables of sealed seeds, `hw_fault`, rate limiter | SDF-style requests | RTL through registers that EL3 accesses for it, the trusted application, clients through `libsdfe.c`, `hsm_httpd.c`, `hsmctl.c` |
| Trusted application, `tee/` | the key encryption key, shared by all its sessions | makes and opens sealed seeds and keys, pushes them word by word into the hardware | the board service and any other process of the board |
| RTL, `hardware/rtl/` | per core: staged seed, run, result, two wipes; key vault, firewall, TRNG | register accesses, some refused while wiping or busy | the board service, the trusted application |
| Crypto, HAL, utilities, tools, board bring-up | - | - | - |

**What is hard in it.** Library calls of several threads interleave between
critical sections: a call takes the session-table lock, a slot lock and the
audit lock one after the other and uses afterwards what it read before.
Security state (the wrong-PIN counter above all) must survive a power cut at
any point; the save that makes it durable is itself a sequence of slots, then of
file-system calls, then of an anchor update. Handles and session identifiers
are reused table positions told apart by generations only. Operations fail half
way. The audit log keeps two regions of one file consistent with two fsyncs.
On the board a write that a slave refuses hangs the whole machine, so every write
must come after a wait; the wait is a read, which may fail; cores finish and wipe
on their own, and another client of the trusted application may stage a seed
between two accesses of the daemon. A backup spans two devices, several people
with shares and a file that outlives them all.
`PROJECT.json` lists each of these as a hazard, at its line.

## 2. Modules

| Module | Models | Depends on |
|---|---|---|
| `SlotFSM` | the transition table and unlock target of `src/slot/fsm.c` | |
| `KeySlots` | what the slot manager promises about keys: they come and go one at a time, with a step of the generation | |
| `SlotManager` | `src/slot/slot.c`, `persist.c`: every public operation, thread by thread, and the save it triggers | `SlotFSM`; refines `KeySlots` |
| `SlotManagerProofs` | theorems about `SlotManager`: types, locks, lockout | `SlotManager` |
| `SlotUseProofs` | more of them: keys, handles, logins and the refinement of `KeySlots`, for any number of threads | `SlotManagerProofs` |
| `SingleCallerProofs` | what holds of the file, PIN guesses and logins with one caller, and of PIN guesses with any number in one process life | `SlotUseProofs` |
| `AtomicStore` | what a key store promises: the stored version changes as a whole | |
| `Keystore` | `src/store/keystore.c`, `rbanchor.c`: save, load, power cuts, anchor; start and stop of `pqchsmd` | refines `AtomicStore` |
| `KeystoreProofs` | theorems about `Keystore`, and the refinement | `Keystore` |
| `AuditLog` | `src/audit/audit.c`, `anchor.c` | |
| `AuditLogProofs` | theorems about `AuditLog` | `AuditLog` |
| `BoardDaemon` | `service/pqchsm_fpgad.c`, `tee/ta/pqchsm_ta.c`, the bus slaves `mlkem_axi.v` and `mldsa_axi.v` and the key vault, composed | |
| `BoardDaemonProofs` | theorems about `BoardDaemon` | `BoardDaemon` |
| `P11Module` | `src/p11/p11_module.c`, on the slot manager as `SlotManager` shows it to one caller | refines `KeySlots` |
| `P11ModuleProofs` | theorems about `P11Module` | `P11Module` |
| `Shamir` | `src/backup/shamir.c`: GF(256), split, combine | |
| `Backup` | `src/backup/backup.c`, `inject.c` and the restore command of `cli/pqchsm_admin.c` | a sharing, as parameters |
| `BackupProofs` | theorems about `Backup`, for every sharing that works | `Backup` |
| `MCSlot`, `MCKeystore`, `MCAudit`, `MCBoard`, `MCP11`, `MCBackup` | finite instances; `MCBackup` gives `Backup` the sharing of `Shamir` | the modules above |

Operators keep the names of the C functions where TLA+ allows it; actions are
named after the call or the step of the call. Operators whose name ends in a
capitalised suffix after an underscore and that follow a comment `Mutant:` are
deliberately wrong variants, used by no specification; they serve to show that
each property can fail.

### SlotManager

`slot[s]` is the `slot_t` of slot `s`: life-cycle state, `pre_lock`,
`generation`, PIN flags, counter, the private key by name (0 for none) and where
it lives (`sk`, `seed`, `hw`). `sealed` says that the metadata tag matches the
metadata: `fsm_apply` and every other change of the metadata breaks it, `slot_reseal`
restores it, as in the code. Under `KdrMayFail` the derivations behind the tag may fail
at each place that computes one, so a reseal may fail after the change it was to seal
(the operations take as `ok` whether it works) and a check may fail on a good tag
(`Intact`). A create whose reseal fails puts the state back and keeps the key in the
record (`install_key_undone`); a zeroize whose reseal fails has wiped the slot and skips
the drop of its sessions.
`user_pin_torn` says that salt and verifier of the User PIN do not belong
together. `th[t]` is the call thread `t` is in, with the values it read under
one lock and uses under another. One critical section is one action; sign and
decaps are two (`BeginUse`, `EndUse`) with the slot lock held between them, so
other threads wait. `commit_security_state` is five actions: skip or begin, one
per slot serialised, publish, end. `disk` is the key store file and changes as a
whole: that is what `Keystore` shows of the real save. `Restart` is a kill at any
point followed by a start that loads the file.

Left out: labels, algorithms, usage and policy bits (they only refuse calls),
the audit record at the end of each call, the SO's wrong-PIN count (nothing reads
it), arguments that are refused before anything is touched. `issued`, `era`,
`guesses`, `nkeys` and the session fields `by` and `auth` are history: no action
reads them for its effect except to enumerate the handles a caller could hold.

### KeySlots

What the layers above may rely on, and no more: of a slot only its key by number, its
generation and whether it is UNINIT, EMPTY or LOADED. A key is installed in an empty
slot under a new number and leaves it only with a step of the generation. A key that a failed create left in an EMPTY slot is none to them: no handle
names it (`StrayKeysUnreachable`). `stored`, what a restart brings back, may lag behind memory and one slot of it may be older than
another, because a save collects slot after slot (`going`) and others change the slots
meanwhile; a key that lives in hardware is never collected. `SlotManager` maps a slot
in use to LOADED and a locked one to what an unlock makes of it. `P11Module` models the
token it stands on in a coarser way, and maps it to the same contract. So what follows
from the contract holds of both; that each step of the token is one the slot manager can
make is not shown, and sessions, roles and PINs of the token are outside the contract.
`Backup` is left
out of this: a new device changes the set of slots, and a restore installs many records
in one step.

### Keystore and AtomicStore

A file is the version of the token it was written from, its epoch, whether its
tag verifies and whether its bytes were fsynced. A crash picks, for the file and
for the anchor separately, any of the states the calls made so far allow: the
renamed file or the one before while the directory is not synced, a torn file
while its bytes are not. Under `HwAnchor` an advance is durable at once; the file
anchor is renamed into place without an fsync of the directory, as in
`rbanchor.c`. `ReplaceFile` puts any file ever saved back while the daemon is
down. `AtomicStore` sees one stored version, and `Keystore` maps it to
`oldFile.version`, what is certain to be found.

### AuditLog

A chain value stands for the sequence of events hashed into it, which takes
SHA3-256 to be collision free. `recs` and `hdr` are the file as the process sees
it, `oldRecs` and `oldHdr` as of the last fsync; a crash mixes them and may tear
the record that grows the file. An anchor is two steps, because the code reads first the
head and then the count of the open log without a lock: `anchor_head` keeps what it read
in `reading`, `anchor_create` reads the count, signs and writes; appends of other threads
come anywhere in between. A head copied while it is being written is left out. Assumed: one writer at a time, and that the
64-byte header, which lies in one sector, is written wholly or not at all.

### BoardDaemon

`pc` is the line of the daemon's one thread: `boot...` is `main` up to the listen,
`accept` and `recv` the loops, `check` the wait before every request, `op` the
checks of `handle_op`, `clr`, `clrW`, `ta`, `taWait`, `undo`, `undoW` the functions
`seed_new_clean` and `seed_replay_clean`, `mode`, `exp`, `feed`, `start`, `poll`,
`drain` the functions `mlkem_run_raw` and `mldsa_run_raw` (which differ in the order of
the first two), `reply` the answer, `end...`, `zeroK`, `zeroD` the function
`session_end`. A step is one register access or one wait; a wait is left when the bit
it reads is down, when a read failed (`fault`, which is `hw_fault`), or when the
daemon gives up. `ta` is the command the application executes and how many words it
has pushed; every word goes through the check of EL3. `core[c]` is a bus slave:
`busy` a run, `job` and `out` its coming and its last result, `staged` the words of
the seed, `wiping` and `expWiping` the two wipes. `hung` says who made the write that
a slave refused. A seed is a number and a word the number of its seed, which is what
makes a mixed seed visible. A vault slot is a key and who put it there: this connection,
an earlier one, or another client. The hardware falls silent at any access (`Outage`) and
answers again with everything as it was (`Recover`), so one access may fail alone, or
after the bitstream was loaded again (`Reload`). `Poll` has the two waits for DONE as they
are: that of ML-KEM is a number of reads and does not look at `fault`, that of ML-DSA ends
at its deadline or at a fault. A run the daemon gave up on goes on. `late` (cores that run
for nobody), `unwiped` (the last wipe of the vault was lost or never sent), `mine` and
`sure` in results, who put a key into the vault, and the counters are history.

Left out: payloads and lengths that are refused before the hardware is touched, the
symmetric data path, TLS and the rate limiter, the known-answer commands, the
firewall's view of who accesses, tamper. Other clients of the application stage seeds,
set the key encryption key and load keys of their own into the slots of the vault, half
way through a load of the daemon's connection too.

### P11Module

Every C_ function holds `g_lock` throughout, so a call is one action; the calls of
several threads, and callers that keep handles of destroyed objects and closed
sessions, are in the interleaving. `g_sessions` and `g_secrets` are the two tables,
`core` the sessions of the slot manager, `tok` and `disk` the token and its file. A
handle is the kind, the slot and the generation modulo `Gens` (2^18 in the code, 2 in
the run, so that it wraps). The parts of a message are the identifier of the session
that gave them. `want`, `parts`, `cut`, `issued`, `alive` and the `sess` of a session
object are history. A call that returns before it changes anything is a stuttering
step.

### Shamir and Backup

`Shamir` computes: `Product` is the code's eight rounds, `gf_inv` its addition chain,
and the products are tabulated once. `Backup` takes the sharing as the parameters
`Split` and `Combine`, which `MCBackup` binds to `shamir_split` and `shamir_combine`;
`BackupAssumption` says what a sharing has to do for those who have enough shares, and
`SharingAssumption` what for those who have not; TLC evaluates both with that binding. `Backup` has the calls of another thread as whole
actions, because each of them is one critical section and a save, and export and
injection as one action per look at a slot: `ExportCheck` and `ExportRead`,
`InjectFind`, `InjectProbe`, `InjectDestroy`, `InjectLoad`. `exp`, `inj` and `rst` are
the locals of the three operations, `file` and `shares` what is outside the device,
`tok` and `disk` the token in memory and in its key store. `Replace` is a new, blank
device; `RestoreBegin` to `RestoreSave` are the process that restores. A file opens
exactly with the RMK it was made with, which is what MAC and wrapping guarantee, and
the RMK that a set of shares gives is what `Combine` computes. A slot's key is in software
or in hardware (`hw`); `slot_serialize_locked` writes a slot without software key with its
metadata and no key, which is what reaches both the key store (`Written`) and a backup.
`last`, `spoilt` and, in the records of an export, `checked` and `was` (the slot as it was
read) are history.

## 3. Runs

Passing runs. Deadlock is checked in all but two of them: `board`, where the daemon
may exit and the board may hang, and `backup`, where the bounds of a scenario end it.

| Run | Instance | Shows |
|---|---|---|
| `slot_threads` | 2 threads (symmetric), 1 slot, 2 sessions, limit 2, 2 keys, 1 generation step, 2 opens, no hook | `InUseIsTransient`, `UseReachesItsKey`, `LoginIsOwn`, `KeyGoneMovesGeneration` |
| `slot_daemon` | 1 thread, 2 sessions, limit 3, crashes, 2 keys, 2 generation steps | `ZeroizeEndsLogins`, `QuietMeansDurable`, `PinGuessBound`, `UseReachesItsKey` across restarts |
| `slot_faults` | 1 thread, all key kinds, random numbers, seals and saves fail, crashes | `StrayKeysUnreachable`, `FailsMeanLocked`, `NobodyHoldsAndWaits`, `ImplementsKeySlots`, `TornSlotIsInert` |
| `ks_crash` | file anchor, 2 versions, 3 epochs, crash and failed advance anywhere, files put back | `NeverBricked`, `AckedSurvives`, `OldSnapshotRefused`, `StartsAgain`, `ImplementsAtomicStore` |
| `audit` | 2 events, 2 records, 2 anchors, crashes, failing I/O, rewritten file | `AckedStays`, `OpenLogVerifies`, `AnchorsKeepVerifying`, `AnchorPinsHistory`, `AppendHeals` |
| `board` | 1 handle per core, seeds of 2 words, 1 vault slot, 2 seeds or keys; five environments (below) | `SeedNeverMixed`, `ReplyIsOwn`, `NoInheritedSymKey`, `DaemonNeverHangs` |
| `p11` | 2 slots, 3 session entries over 2 sessions of the slot manager, 2 session objects, 1-bit generations, 2 parts; six applications | `HandleReachesItsKey`, `PartsUnlessCut`, `NothingOutlivesItsSession`, `AeadUsesChosenKey`, `CoreSessionsOwned`, `TouchesOneSlot`, `TokenKeepsKeySlots` |
| `backup` | 1 or 2 slots, 3 keys, 2 generation steps, 2 exports, thresholds 2 of 2, 2 of 3, 3 of 3; five scenarios | `SealedStaysHome`, `QuorumBringsBack`, `FewSharesTellNothing`, `InjectTakesInjectable` |

The type invariants (`TypeOK`, in two modules `TypesOK`) are theorems of section 4, and
no run repeats them.

Runs that end in a counterexample, each a disagreement between the code and what
the repository says of it (the quotations are in `PROJECT.json`):

| Run | Shows |
|---|---|
| `slot_pin_race` | with two threads, a wrong PIN answered while the other thread's save is under way is not saved; a power cut returns the guess |
| `ks_epoch_reuse` | an epoch can be given to two saves, and then the older file is accepted |
| `p11_parts` | parts given before a second `C_SignInit`, or before a one-call `C_Sign`, are signed with the next multi-part message |
| `backup_small` | a restore that stops at a record for a slot the device does not have answers OK, and the tool saves and prints success |

`slot_pin_race` needs two threads in the library: `pqchsmd` serves one request at a time,
and `slot_daemon` shows that the property holds there.

Seen while modelling, in states these modules reach, without a run of their own. In the
first four the code does less than the repository says, and a property has an exception
because of it:

- A create whose reseal fails after the key is in place (`install_key`, `slot.c:849-852`
  and `773-777`) puts back `meta.state` only (`slot.c:918`): the private key stays in a slot
  that is EMPTY, in memory and, once a later reseal works, in the file. The comment there and
  `tests/unit/test_slot.c:148` speak of a rollback to a slot that is not half loaded. Hence
  `StrayKeysUnreachable` says that no handle can name such a key, and the stronger
  `NoKeyOutsideLoaded` is a theorem only as long as no seal fails.
- An append that ends between the two reads of `hsm_audit_anchor_create` (`anchor.c:132`
  and `135`; `audit_head` and `audit_count` take no lock) makes an anchor of n + 1 records
  and the head of n, which no log ever verifies against, where `anchor.h:45-51` promises the
  head of this moment. `AnchorsKeepVerifying` is about the anchors whose head and count
  belong together. `pqchsmd` has one thread and does not get there.
- The end of a connection wipes the key vault by one write (`pqchsm_fpgad.c:1101`), whose
  failure nobody repeats or looks at. If that access alone fails, the next connection's
  symmetric requests succeed with the key of the last one, where
  `docs/ARCHITECTURE.zh-CN.md:162` says that the vault keeps keys for one session. It is an
  exception in `NoInheritedSymKey`.
- A key in hardware may be BACKUPABLE. An export counts its slot and answers OK, and its
  record has no key (`persist.c:77`), so a restore that answers OK brings the slot back
  LOADED and without a key, where `backup.c:105` says that what is in a backup can be
  restored. `QuorumBringsBack` is about the
  slots whose key software held.
- With two threads, a login that passed its PIN check before a zeroize sets its role
  after the zeroize dropped the sessions (`slot.c:709`); in the single-threaded daemon
  `ZeroizeEndsLogins` holds. The PKCS#11 module holds one lock over each call, so it is
  not exposed.
- A slot with a hardware key is LOADED without a key after a restart too, where
  `slot_internal.h:49-50` describes an empty slot. `KeySlots` admits that, and no stored
  slot with another key than it had.
- A zeroize whose reseal fails has wiped the slot and leaves the sessions on it logged in
  (`slot.c:1257` drops them only after HSM_OK). `ZeroizeEndsLogins` counts the zeroizes
  that sealed the slot; after one that did not, all that the slot still takes is another
  zeroize (`TornSlotIsInert`).
- `init_token` and `set_user_pin` fail half way when random numbers fail
  (`slot.c:488`, `slot.c:533`). `TornSlotIsInert` says what becomes of a slot the first
  leaves: nothing, until it is zeroized.
- An append that fails while the header is written leaves a file that need not verify.
  The next append that succeeds makes it good (`AppendHeals`), if the log is not closed
  or cut off before; an open does not repair the header.
- The daemon's self test asks for a seed without a SEED_CLR first, so a seed another
  client left staged makes it refuse to start. A restarted daemon writes SEED_CLR
  without waiting for a wipe of its predecessor, and leaves the predecessor's symmetric
  keys in the vault until the first connection ends: the exceptions in
  `DaemonNeverHangs` and `NoInheritedSymKey`.
- Another client of the application may replace a key that a connection loaded into the
  vault, and the connection's next operation succeeds with that one.
- An ML-KEM run that outlasts the daemon gives its result to a later KeyGen of the same
  connection, and an ML-DSA run that does makes the next MODE write the refused one: the
  exceptions in `ReplyIsOwn` and `DaemonNeverHangs`. The daemon's limits are far above
  what a run takes; but one failed read of STATUS ends the wait for ML-DSA as well
  (`pqchsm_fpgad.c:922`), and if the accesses after it work the core is still busy when
  the next request of the connection writes MODE.
- EL3 looks at the word count of the staging port and not at WIPING, so a word of
  another client may be the refused write; `DaemonNeverHangs` is about the daemon.
- A PKCS#11 session object can be used and destroyed by any session, and an AEAD
  operation whose object was destroyed runs with the next object in the entry
  (`AeadUsesChosenKey` says until when it does not).
- An export replaces the previous backup before its own shares exist (`spoilt` in
  `QuorumBringsBack`), and takes a slot whose key was replaced between its two looks
  (the exception in `SealedStaysHome`).
- A restored record that cannot be sealed again is installed and the restore ends with
  HSM_ERR_CRYPTO (`persist.c`), so the token holds part of the backup; the tool does not
  save it.

**Bounds.** Two threads are enough for every race of two calls, and each further
thread only repeats a role; two sessions let one be reopened while a call on it is
under way; two keys and one generation step are what a stale handle needs; the
limit is the code's 3 where the number of guesses matters and smaller where only
reaching it does. For the invariants of section 4 the proofs remove these bounds.
In `Keystore` two versions and three epochs give a save, a save cut off and the
save after it. In `AuditLog` two records give an acknowledged record and an append
that overwrites a failed one; anchors need one record more than they sign, and two of them one
of each kind, whole and not.

The later modules take their bounds from an environment, application or scenario that
`Init` picks, so that one run has several small worlds instead of their product. In
`board`: keys carried as blobs while another client sets the key encryption key; one
core with seeds staged by others, late runs, and two outages or kills, for each core; both
cores with no faults; symmetric keys with others loading keys into the same slot and two
faults. One handle is enough because the
next is refused; a seed of two words is the shortest that two clients can mix; two seeds
are one's own and another's. In `p11`: setting up a token; handles over three
generations with a 1-bit field, so it wraps; messages; session objects; two slots.
Three session entries over a smaller table of the slot manager show what 32 over 16 do.
In `backup`: another thread against an export; another thread against injections; two
exports with failures and kills restored on devices of one and two slots, with keys in
software and in hardware (as in the second); the
arithmetic with several secrets and coefficients for thresholds 2 and 3.
`FewSharesTellNothing` ranges over all 256 values of each coefficient. The RMK is one
byte of the 32, which the code shares independently; `restore` is tried with every
subset of all shares ever made.

**Fairness.** Only `Keystore!FairSpec` has any: weak fairness of `Start`, because the init
system starts the daemon again. `SlotManager` claims no liveness: pthreads does not hand a
mutex out in turn, so that every call returns is not true of any scheduler. What the code
can be held to is that no call waits because of another that waits for it, which is
`NobodyHoldsAndWaits` and, in the runs, the absence of deadlock. `BoardDaemon` claims none
either: its waits end by their own bounds in the code, counts of reads and deadlines,
which the model does not count.

**Mutants.** Each property of each passing run has a mutant: a plausible mistake
in one definition that makes TLC report exactly that property.

## 4. Proofs

Every theorem holds for all values of the constants that the module's assumption
admits, bounds included: the runs of section 3 are small instances of them. Each is
proved the same way. The property is not inductive, so a module defines an invariant
that is: a conjunction of named parts, each an idea of why the code works. A proof
module has lemmas about the operators first, then one lemma per action that takes the
invariant over its step, then a lemma that combines them along the disjuncts of
`Next`, and last the theorems, which follow from the invariant.

### Slot manager

`SlotManagerProofs`, for every finite set of threads, every number of slots and
sessions, every PIN limit of at least 1, with and without a hook, crashes and failures
(`ConstantsAssumption`):

| Theorem | States |
|---|---|
| `TypeCorrect` | `Spec => []TypeOK` |
| `InUseTransient` | `Spec => []InUseIsTransient` |
| `KeysOnlyWhereLoaded` | `Spec => []NoKeyOutsideLoaded`, assuming `~KdrMayFail` |
| `LockoutHolds` | `Spec => []FailsMeanLocked` |
| `NoCircleOfWaits` | `Spec => []NobodyHoldsAndWaits` |

That the counter stays within `0..HSM_PIN_MAX_FAILS` (a part of `TypeOK`) holds
because a slot at the limit is LOCKED and a locked slot checks no User PIN, which is
the lockout. That the file never holds IN_USE needs that a save takes the slot lock,
hence that IN_USE coincides with the lock. A thread that holds a slot lock is
inside a use, which takes no other lock before it releases that one, so no two wait for
each other. So one invariant carries all five:

    IInv == TypeOK /\ RecordsOK /\ LocksOK /\ CallsOK

`RecordsOK`: every record, in memory, in the snapshot of a save under way and in
the file, has its key only where the state says so as long as seals do not fail, its
PINs only when initialised and its counter below the limit unless LOCKED; the saved ones are not
IN_USE. `LocksOK`: a slot's lock is held exactly by the one thread inside
sign/decaps on it, and exactly then its state is IN_USE. `CallsOK`: what a thread
carries through a call fits the operation (a login's role is not PUBLIC, and so on).

The hypothesis of `KeysOnlyWhereLoaded` is needed: without it a create whose reseal fails
(section 3) leaves a key in an EMPTY slot. What then still holds is `NoGivenKeyIsLeftBehind`, below.

`SlotUseProofs`, on top of `IInv` and for as many threads:

| Theorem | States | Because |
|---|---|---|
| `KeysGoWithAGeneration` | `Spec => KeyGoneMovesGeneration` | a section leaves a key, makes one where there is none, or forgets it with a step of the generation (`KeyStep`), and every record names a key exactly when it says where it lives (`KeysOK`) |
| `NoGivenKeyIsLeftBehind` | `Spec => []StrayKeysUnreachable` | a key stays where its slot's state says there is none only when its create failed; that call returns no handle, and no later one has that key to return (`StraysOK`) |
| `LoginsAreOwn` | `Spec => []LoginIsOwn` | a role is set in an entry only under the generation the login named (`OwnRole`) |
| `HandlesReachTheirKey` | `Spec => []UseReachesItsKey`, assuming `~MayCrash` | every handle, and every handle a call carries, is of an earlier generation or of its key's (`HandlesOK`) |
| `SlotManagerImplementsKeySlots` | `Spec => ImplementsKeySlots` | each section changes a slot as `KeySlots` allows, and what a save has collected of a slot stays or is what the slot is, without its hardware key |
| `TornSlotsAreInert` | `Spec => TornSlotIsInert` | every transition but that of a zeroize asks for a matching tag, and the file has matching tags only |

The hypothesis of `HandlesReachTheirKey` is needed: with two threads a commit that finds a save
under way is skipped, and a crash before the next one brings a generation back that a
handle already has.

`SingleCallerProofs` proves what is true of the host daemon, which ends a request
before it takes the next: `Threads = {t}`. `slot_pin_race` is what happens with two.
`Reliable` says that there is a hook and that random numbers, seals and saves do not
fail, because a failed save, and a slot whose tag was left stale, leave the file behind
memory.

| Theorem | Under | States |
|---|---|---|
| `QuietIsDurable` | one caller, `Reliable` | `Spec => []QuietMeansDurable` |
| `GuessesAreBounded` | one caller, `Reliable` | `Spec => []PinGuessBound` |
| `HandlesSurviveCrashes` | one caller, `Reliable` | `Spec => []UseReachesItsKey`, crashes included |
| `ZeroizeEndsAllLogins` | one caller | `Spec => []ZeroizeEndsLogins` |

`DurableOK` says how far the file is behind memory at each point of a call: only the
slot the call works on may be ahead, until its save is published. `GuessesOK` bounds
the guesses that were answered by the counter in memory, and by the one in the file
but for the wrong PIN on its way there. `DiskHandles` says that what a restart would
bring back is as good to every handle as what is there. `LoginsOK` follows the PIN
check of a login from the section to the session that gets its role.

One theorem of that module is about any number of callers and any failures, in one life
of the process:

| Theorem | Under | States |
|---|---|---|
| `GuessesBoundedInOneLife` | `~MayCrash` | `Spec => []PinGuessBound` |

Its invariant `CountersOK` says that the counter in memory is never behind the guesses
answered, which neither a failed draw of random numbers, a seal that fails, nor a save
that fails or is skipped disturbs. Without the hypothesis it is false, by `slot_pin_race`: a kill brings
back the counter of the file. So what a library caller with threads can rely on is the
bound within a process life, and what a caller of `pqchsmd` can is the bound over all.

### Key store

`KeystoreProofs`, for both anchors and every bound:

| Theorem | States |
|---|---|
| `KeystoreTypes` | `Spec => []TypeOK` |
| `NoCrashBricks` | `Spec => []NeverBricked` |
| `AcknowledgedSavesStay` | `Spec => []AckedSurvives` |
| `CountedSavesStay` | `Spec => []OldSnapshotRefused` |
| `SaveIsAtomic` | `Spec => ImplementsAtomicStore` |

    KInv == TypeOK /\ TmpOK /\ PathOK /\ AnchorOK /\ MemoryOK /\ VersionsOK /\ EpochsOK /\ OrderOK

`TmpOK`: the temporary file is the version under way under the anchor's next epoch,
and as whole as the save has come. `PathOK`: between the rename and the fsync of the
directory the path leads to one of two files, at other times to one, and what it leads
to was fsynced. `AnchorOK`: the anchor may fall back by the advance that is not
durable. `VersionsOK`: as long as nobody exchanges files, both files are whole and not
behind the anchor, and versions grow from save to save, with memory (`MemoryOK`) not
behind them. `EpochsOK` and `OrderOK`: where no epoch was given twice, a later epoch
is a later version, and nothing that runs is behind a version the anchor has counted.
The refinement maps every step to a step of `AtomicStore` or to a stutter; the rename
does not change the stored version, its fsync does.

### Audit log

`AuditLogProofs`, for every set of events and every length:

| Theorem | States |
|---|---|
| `AuditTypes` | `Spec => []TypeOK` |
| `AcknowledgedEventsStay` | `Spec => []AckedStays` |
| `OpenMeansVerified` | `Spec => []OpenLogVerifies` |
| `AnchorsStayGood` | `Spec => []AnchorsKeepVerifying` |
| `AnchorsPinTheEvents` | `Spec => []AnchorPinsHistory` |
| `AppendsHeal` | `Spec => AppendHeals` |

    AInv == TypeOK /\ LogOK /\ AckedOK /\ HistoryOK /\ DiskOK /\ AnchorsOK

`LogOK`: memory and file agree on where the next record goes. `AckedOK`: every
combination of records and header that a crash may keep holds the acknowledged events,
below the count a later append starts from. `HistoryOK`: up to where a chain holds,
its value is the whole sequence of events. `DiskOK`: on a disk that has reported no
error an open log is a chain that memory and one of the two headers describe.
`AnchorsOK`: whatever a crash keeps agrees with every anchor whose head and count belong
together, and with the head an anchor under way has read (`Signed`), at the position of
its length; an anchor that an append parted (section 3) is not among them. `AppendsHeal` needs
no part about the disk: a failed append leaves at most one record behind the ones that
memory counts, in the place the next append writes.

### PKCS#11 module

`P11ModuleProofs`, for every number of slots, sessions and secrets, every number of
generations a handle tells apart, and applications that make any calls:

| Theorem | States |
|---|---|
| `P11Types` | `Spec => []TypeOK` |
| `HandlesReachTheirKey` | `Spec => []HandleReachesItsKey` |
| `PartsAreTheMessage` | `Spec => []PartsUnlessCut` |
| `NothingIsLeftBehind` | `Spec => []NothingOutlivesItsSession` |
| `AeadKeyIsChosen` | `Spec => []AeadUsesChosenKey` |
| `SlotSessionsAreOwned` | `Spec => []CoreSessionsOwned` |
| `CallsTouchOneSlot` | `Spec => TouchesOneSlot` |
| `TokenKeepsContract` | `Spec => TokenKeepsKeySlots` |

    PInv == CountsOK /\ TokensOK /\ CoreOK /\ SessionsOK /\ SecretsOK /\ IssuedOK

`CoreOK` pairs open entries with sessions of the slot manager; `SessionsOK` says what
each entry holds: a closed one nothing, an open one the parts given since its Init, a
key that is the chosen one as long as that lives, and handles in its search that are
good; `SecretsOK` gives every session object an open owner; `IssuedOK` says that a
handle was made from the low bits of a generation its slot has not gone back from.

### Board service

`BoardDaemonProofs`, for environments with requests, other clients of the application,
late runs, outages and kills in any combination (`board` has them apart), any number
of handles and vault slots, and seeds of any number of words:

| Theorem | States |
|---|---|
| `BoardTypes` | `Spec => []TypesOK` |
| `SeedsAreNeverMixed` | `Spec => []SeedNeverMixed` |
| `RepliesAreOwn` | `Spec => []ReplyIsOwn` |
| `NoSymKeyIsInherited` | `Spec => []NoInheritedSymKey` |
| `WritesAreTaken` | `Spec => []DaemonNeverHangs` |

    BInv == TypesOK /\ RequestOK /\ WipesOK /\ RunsOK /\ VaultOK /\ TaOK /\ SeedsOK /\ ResultOK
            /\ ReplyIsOwn /\ NoInheritedSymKey /\ DaemonNeverHangs

`WipesOK`: after `check` has seen both wipes end none starts before the end of the
connection. `RunsOK`: a core that runs does so for the request that waits, or for
nobody after the daemon gave up. `TaOK`: what the application is executing is the
command of the request in progress or somebody else's, and the words it has pushed are
the last ones on the port. `SeedsOK`: the port never holds more than a seed, which is
EL3's refusal, so between the answer of the application and START it holds the whole
of the handle's. `ResultOK`: the run waited for, and the result read, are the
request's. `VaultOK`: a key of a connection is in the vault during that connection, and
after it only if the last wipe was lost or never sent, whatever others put beside it.

### Backup and injection

`BackupProofs`, for every scenario (any calls, failures and kills, devices and
thresholds of any size, any number of exports) and every sharing of which
`BackupAssumption` holds:

| Theorem | States |
|---|---|
| `BackupTypes` | `Spec => []TypesOK` |
| `SealedKeysStayHome` | `Spec => []SealedStaysHome` |
| `AQuorumRestores` | `Spec => []QuorumBringsBack` |
| `InjectionsTakeInjectable` | `Spec => InjectTakesInjectable` |
| `FewSharesAreNothing` | `Spec => []FewSharesTellNothing` |

    BkInv == TypesOK /\ AloneOK /\ SealedOK /\ InjectOK /\ SharesOK /\ RestoreOK /\ QuorumBringsBack

`AloneOK`: a restore runs alone, and outside it the file is what is written of memory
(`Written`: the same, but for the keys in hardware).
`SealedOK` and `InjectOK`: since the look at a slot its generation has moved on or the
slot is what was seen, because within a generation a key comes only to an empty slot.
`SharesOK`: the shares of an export appear when it answers, all of one split of the
RMK of its file, and until the file is replaced that is the file; the slots in a file
are in order, hence different. `RestoreOK`: the records before the one at hand are
installed. `BackupAssumption` is that two shares of one split differ in their index and
that as many as the threshold combine to the secret, with a threshold of at least 2,
which `shamir_split` demands. `FewSharesAreNothing` rests on `SharingAssumption`: fewer
points of a split than the threshold lie, for every secret, on a polynomial of the full
degree. What is left to prove is that all shares of an export are points of one split,
under one number and of the degree its threshold asks for, through second exports, kills
and failed writes (`SharesOK`, and `DoneOK`: an export that is done is the latest that
answered). For `Shamir` both assumptions stay with TLC, which evaluates them for every
split of the scenarios of `backup`.

### Only model-checked

- Liveness, which is out of the prover's reach: `StartsAgain`.
- The arithmetic of `Shamir`, that is, the clause of `BackupAssumption` about `Combine` and
  `SharingAssumption`: exclusive-or comes from the module Bitwise, and the polynomial and
  its interpolation are recursions over data.
- The properties of the four runs that end in a counterexample, of course; the theorems
  say under which hypotheses their weaker forms hold.

## 5. Not modelled

- Cryptographic primitives and the arithmetic cores: pure functions of long byte
  strings, covered by the repository's known-answer tests.
- The hardware abstraction's register access, `src/util/`, and the front ends of the
  board (`hsm_httpd.c`, `hsmctl.c`, `hsmops.c`, `libsdfe.c`, `pqcs_tls.c`): formatting,
  I/O, and handles that the daemon forgets when their connection ends.
- The wire protocol and the tools: one request is one call of the slot manager.
- The rate limiter of the board daemon, the firewall, the TRNG's health tests, tamper.
- Board bring-up programs, kernel modules and boot patches, which keep no state of the
  service. More than half of the repository's lines are known-answer vectors (`src/board/src/kat_*.h`),
  generated simulation code (`src/build-host/`) and such programs.
- The 32-bit wrap of the slot manager's generations (2^32 calls), and a disk whose
  directory fsync fails (its result is ignored by the code; `Keystore` takes it to work).
- Two processes on one key store (each PKCS#11 application loads its own token and the
  last save wins), and a restore into a token in use, which the library allows and the
  tool does not do.
- The ends of the board daemon's waits as a property: each loop has its own bound.
- Backends that fail while they hold a key in hardware, and the loss of their handles in
  a running process; `Backup` has such a key until the process ends.
- The slot manager composed with the audit log: what an operation's missing record means
  is not stated by the code, which ignores the result of `audit_append`.

## 6. Plan

Done: slot manager, key store, audit log, board daemon with the trusted application and
the cores' bus slaves, PKCS#11 module, backup, restore, injection and sharing; a proof
of every safety property the passing runs check, under hypotheses where section 4 names them, and a contract of the key slots that
both the slot manager and the token of the PKCS#11 module implement. What may still be
gained:

1. `SlotManager`: the number of guesses a power cut can give back with several
   callers, and `QuietMeansDurable` with failing saves for the slots whose last save
   worked.
2. `P11Module` on `SlotManager` also for sessions, roles and PINs, which `KeySlots` does
   not see.
3. The rate limiter of the board daemon and the firewall, which no module has yet.
