------------------------------ MODULE Keystore ------------------------------
(***************************************************************************)
(* The key store file of src/src/store: the save that replaces it, the     *)
(* load that accepts or refuses it, and the rollback anchor that counts    *)
(* saves.  A version stands for the contents of the whole token; a file    *)
(* holds the version it was written from, the epoch in its header, whether *)
(* its tag verifies (whole) and whether its bytes reached the disk         *)
(* (synced).                                                               *)
(*                                                                         *)
(* What a crash leaves is chosen from what the calls made so far allow: a  *)
(* file that was not fsynced may come back torn, and a rename whose        *)
(* directory was not fsynced may not have happened.                        *)
(***************************************************************************)
EXTENDS Integers

CONSTANTS
  HwAnchor,      \* the anchor is a hardware counter, durable when it moves
  MaxVersion,    \* bound on token changes
  MaxEpoch       \* bound on epochs

ASSUME KeystoreAssumption ==
  HwAnchor \in BOOLEAN /\ {MaxVersion, MaxEpoch} \subseteq Nat

VARIABLES
  up,        \* pqchsmd serves
  mem,       \* version of the token in memory
  pc,        \* where keystore_save_impl is
  saving,    \* the version it writes
  tmp,       \* <path>.tmp
  file,      \* <path>, as the running system sees it
  oldFile,   \* what <path> was before a rename not yet durable
  anchor,    \* the rollback anchor
  oldAnchor, \* what it was before an advance not yet durable
  acked,     \* history: the file of the latest save reported done
  saved,     \* history: every file a save put in place
  replaced   \* history: has a file been put back

vars == <<up, mem, pc, saving, tmp, file, oldFile, anchor, oldAnchor,
          acked, saved, replaced>>

FileRec == [epoch : Nat, version : Nat, whole : BOOLEAN, synced : BOOLEAN]

\* No file: the version of a fresh token, accepted by any start.
NoFile == [epoch |-> 0, version |-> 0, whole |-> TRUE, synced |-> TRUE]

Init ==
  /\ up = FALSE /\ mem = 0 /\ pc = "idle" /\ saving = 0
  /\ tmp = NoFile /\ file = NoFile /\ oldFile = NoFile
  /\ anchor = 0 /\ oldAnchor = 0
  /\ acked = NoFile /\ saved = {} /\ replaced = FALSE

saveVars    == <<pc, saving, tmp>>
diskVars    == <<file, oldFile, anchor, oldAnchor>>
historyVars == <<acked, saved, replaced>>

\* Any operation that changes the token in memory.
ChangeToken ==
  /\ up /\ mem < MaxVersion
  /\ mem' = mem + 1
  /\ UNCHANGED <<up, saveVars, diskVars, historyVars>>
-----------------------------------------------------------------------------
(* keystore_save_impl, a step per call that reaches the disk.               *)

\* Read the anchor, serialise the token, create <path>.tmp.
SaveBegin ==
  /\ up /\ pc = "idle" /\ anchor < MaxEpoch
  /\ pc' = "write"
  /\ saving' = mem
  /\ tmp' = [epoch |-> anchor + 1, version |-> mem, whole |-> FALSE,
             synced |-> FALSE]
  /\ UNCHANGED <<up, mem, diskVars, historyVars>>

\* The header, the records and the tag; until the last one tmp is not whole.
SaveWrite ==
  /\ up /\ pc = "write"
  /\ tmp' = [tmp EXCEPT !.whole = TRUE]
  /\ pc' = "fsync"
  /\ UNCHANGED <<up, mem, saving, diskVars, historyVars>>

\* Mutant: no fsync before the rename.
SaveFsync_None ==
  /\ up /\ pc = "fsync"
  /\ pc' = "rename"
  /\ UNCHANGED <<up, mem, saving, tmp, diskVars, historyVars>>

SaveFsync ==
  /\ up /\ pc = "fsync"
  /\ tmp' = [tmp EXCEPT !.synced = TRUE]
  /\ pc' = "rename"
  /\ UNCHANGED <<up, mem, saving, diskVars, historyVars>>

SaveRename ==
  /\ up /\ pc = "rename"
  /\ file' = tmp
  /\ oldFile' = file
  /\ saved' = saved \cup {tmp}
  /\ pc' = "fsync_dir"
  /\ UNCHANGED <<up, mem, saving, tmp, anchor, oldAnchor, acked, replaced>>

\* Mutant: the directory is not synced.
SaveFsyncDir_None ==
  /\ up /\ pc = "fsync_dir"
  /\ pc' = "bump"
  /\ UNCHANGED <<up, mem, saving, tmp, diskVars, historyVars>>

\* fsync_dir makes the renames of this directory durable, the anchor file's too.
SaveFsyncDir ==
  /\ up /\ pc = "fsync_dir"
  /\ oldFile' = file
  /\ oldAnchor' = anchor
  /\ pc' = "bump"
  /\ UNCHANGED <<up, mem, saving, tmp, file, anchor, historyVars>>

\* pqc_rbanchor_bump, last.  The file anchor is renamed into place without an
\* fsync of the directory.  A bump that fails is only noted; the save is done.
SaveBump ==
  /\ up /\ pc = "bump"
  /\ \/ /\ anchor' = anchor + 1
        /\ oldAnchor' = IF HwAnchor THEN anchor + 1 ELSE anchor
     \/ UNCHANGED <<anchor, oldAnchor>>
  /\ pc' = "idle" /\ saving' = 0
  /\ acked' = file
  /\ UNCHANGED <<up, mem, tmp, file, oldFile, saved, replaced>>

\* Mutant: an error after the rename is reported as a failed save.
SaveFail_Late ==
  /\ up /\ pc \in {"write", "fsync", "rename", "fsync_dir"}
  /\ tmp' = NoFile
  /\ pc' = "idle" /\ saving' = 0
  /\ UNCHANGED <<up, mem, diskVars, historyVars>>

\* Any call before the rename takes effect fails: tmp is unlinked.
SaveFail ==
  /\ up /\ pc \in {"write", "fsync", "rename"}
  /\ tmp' = NoFile
  /\ pc' = "idle" /\ saving' = 0
  /\ UNCHANGED <<up, mem, diskVars, historyVars>>
-----------------------------------------------------------------------------
Torn(f) == [f EXCEPT !.whole = FALSE]

Down(f, a) ==
  /\ up' = FALSE
  /\ mem' = 0
  /\ pc' = "idle" /\ saving' = 0
  /\ file' = [f EXCEPT !.synced = TRUE]
  /\ oldFile' = [f EXCEPT !.synced = TRUE]
  /\ anchor' = a
  /\ oldAnchor' = a
  /\ UNCHANGED <<tmp, historyVars>>

\* The daemon exits between requests; it saves nothing on its way out.
Stop == up /\ pc = "idle" /\ Down(file, anchor)

Crash ==
  /\ up
  /\ \E f \in {file, oldFile} \cup (IF file.synced THEN {} ELSE {Torn(file)}),
        a \in {anchor, oldAnchor} : Down(f, a)

\* Someone puts an earlier, genuine file back.
ReplaceFile ==
  /\ ~up
  /\ \E f \in saved : file' = f /\ oldFile' = f
  /\ replaced' = TRUE
  /\ UNCHANGED <<up, mem, saveVars, anchor, oldAnchor, acked, saved>>

\* Mutant: the epoch is not compared with the anchor.
Accepts_AnyEpoch(f) == f = NoFile \/ f.whole

\* hsm_keystore_load: the tag first, then the epoch, refused when it is older
\* than the anchor.  A file with a newer epoch is accepted and the anchor is not
\* moved.
Accepts(f) == f = NoFile \/ (f.whole /\ f.epoch >= anchor)

\* Mutant: an epoch equal to the anchor is refused, again and again.
Start_Strict ==
  /\ ~up
  /\ \/ /\ file = NoFile \/ (file.whole /\ file.epoch > anchor)
        /\ up' = TRUE
        /\ mem' = file.version
        /\ UNCHANGED <<saveVars, diskVars, historyVars>>
     \/ UNCHANGED vars

\* pqchsmd starts on a file it can load, or on none; otherwise it exits.
Start ==
  /\ ~up /\ Accepts(file)
  /\ up' = TRUE
  /\ mem' = file.version
  /\ UNCHANGED <<saveVars, diskVars, historyVars>>

Next == \/ ChangeToken \/ SaveBegin \/ SaveWrite \/ SaveFsync \/ SaveRename
        \/ SaveFsyncDir \/ SaveBump \/ SaveFail \/ Stop \/ Crash \/ ReplaceFile
        \/ Start

Spec == Init /\ [][Next]_vars

\* An init system that starts the daemon again whenever it is down.
FairSpec == Spec /\ WF_vars(Start)
-----------------------------------------------------------------------------
TypeOK ==
  /\ up \in BOOLEAN /\ replaced \in BOOLEAN
  /\ pc \in {"idle", "write", "fsync", "rename", "fsync_dir", "bump"}
  /\ {mem, saving, anchor, oldAnchor} \subseteq Nat
  /\ {tmp, file, oldFile, acked} \subseteq FileRec
  /\ saved \subseteq FileRec

\* No crash, at any point of any save, leaves a key store the next start
\* refuses: what <path> may be is whole and its epoch is not behind what the
\* anchor may be.
NeverBricked ==
  ~replaced => \A f \in {file, oldFile}, a \in {anchor, oldAnchor} :
                 f = NoFile \/ (f.whole /\ f.epoch >= a)

\* A save that was reported done is never undone by a crash.
AckedSurvives == ~replaced /\ ~up => file.version >= acked.version

\* Once the anchor has counted the latest save reported done, no start goes
\* back behind that save, whichever genuine file it finds.
CountedSaveStays ==
  up /\ anchor >= acked.epoch => mem >= acked.version

\* The same wherever no two saves were given the same epoch.
EpochReused ==
  \E f, g \in saved : f.epoch = g.epoch /\ f.version # g.version

OldSnapshotRefused == EpochReused \/ CountedSaveStays

\* The daemon is always able to come back up, unless its file was exchanged.
StartsAgain == []<>(up \/ replaced)

\* The detailed save implements the atomic one: the stored version is what a
\* start would find once the renames of this directory are durable.
Abstract == INSTANCE AtomicStore WITH
  stored  <- oldFile.version,
  pending <- IF pc \in {"idle", "bump"} THEN {} ELSE {saving}

ImplementsAtomicStore == Abstract!StoreSpec
=============================================================================
