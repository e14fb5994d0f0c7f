--------------------------- MODULE KeystoreProofs ---------------------------
(***************************************************************************)
(* Proofs about Keystore, for a file anchor and a hardware one and for     *)
(* every bound: crashes at any point of a save, torn files, renames that   *)
(* are not durable, failing calls and files put back.                      *)
(***************************************************************************)
EXTENDS Keystore, TLAPS

Saving == {"write", "fsync", "rename", "fsync_dir"}

\* The temporary file holds the version under way, under the next epoch; how
\* far it has come is where the save is.
TmpOK ==
  pc \in Saving \cup {"bump"} =>
    /\ up /\ tmp.epoch = anchor + 1 /\ tmp.version = saving
    /\ pc # "write" => tmp.whole
    /\ pc \notin {"write", "fsync"} => tmp.synced

\* Between the rename and the fsync of the directory there are two files <path>
\* may be, at any other time one; and what is under <path> was fsynced.
PathOK ==
  /\ file.synced /\ oldFile.synced /\ \A f \in saved : f.synced
  /\ pc \in {"fsync_dir", "bump"} => file = tmp
  /\ pc # "fsync_dir" => oldFile = file
  /\ ~up => pc = "idle"

\* The anchor may fall back by the advance that is not durable, never ahead.
AnchorOK == oldAnchor <= anchor

\* Unless someone exchanges files, the path leads to a file a start accepts, the
\* versions grow from save to save, and memory is not behind the file.
VersionsOK ==
  ~replaced =>
    /\ file = NoFile \/ (file.whole /\ file.epoch >= anchor)
    /\ oldFile = NoFile \/ (oldFile.whole /\ oldFile.epoch >= anchor)
    /\ acked.version <= oldFile.version /\ oldFile.version <= file.version
    /\ up => file.version <= mem
    /\ pc \in Saving => file.version <= saving

MemoryOK == pc \in Saving \cup {"bump"} => saving <= mem

\* Every file in place or reported done was put there by a save, and the epochs of
\* the saves, and those the anchor has counted, leave no gap.
EpochsOK ==
  /\ file = NoFile \/ file \in saved
  /\ oldFile = NoFile \/ oldFile \in saved
  /\ acked = NoFile \/ acked \in saved
  /\ \A f \in {file, oldFile} : f = NoFile => anchor = 0
  /\ \A f \in saved : f.epoch >= 1
  /\ \A f \in saved : \A k \in 1..f.epoch : \E g \in saved : g.epoch = k
  /\ \A k \in 1..anchor : \E g \in saved : g.epoch = k

\* Wherever no epoch was given twice, a later epoch means a later version, and neither
\* a running daemon nor a save is behind any version the anchor has counted.
OrderOK ==
  \/ EpochReused
  \/ /\ \A f, g \in saved : f.epoch <= g.epoch => f.version <= g.version
     /\ \A f \in saved : f.epoch <= anchor =>
          /\ up => f.version <= mem
          /\ pc \in Saving => f.version <= saving

KInv == /\ TypeOK /\ TmpOK /\ PathOK /\ AnchorOK /\ MemoryOK
        /\ VersionsOK /\ EpochsOK /\ OrderOK
-----------------------------------------------------------------------------
(* The invariant and the steps.                                             *)

\* An absent file has the type of a file.
LEMMA NoFileType ==
  /\ NoFile \in FileRec /\ NoFile.version = 0 /\ NoFile.epoch = 0
  /\ NoFile.whole /\ NoFile.synced
BY DEF FileRec, NoFile

\* An empty directory, a fresh anchor.
LEMMA InitKInv == Init => KInv
<1> SUFFICES ASSUME Init PROVE KInv
  OBVIOUS
<1>1. TypeOK
  <2>1. up \in BOOLEAN /\ replaced \in BOOLEAN /\ pc = "idle"
    BY DEF Init
  <2>2. {mem, saving, anchor, oldAnchor} \subseteq Nat
    BY DEF Init
  <2>3. {tmp, file, oldFile, acked} \subseteq FileRec /\ saved \subseteq FileRec
    BY NoFileType DEF Init
  <2> QED BY <2>1, <2>2, <2>3 DEF TypeOK
<1>2. TmpOK /\ PathOK /\ AnchorOK /\ MemoryOK
  BY NoFileType DEF Init, TmpOK, PathOK, AnchorOK, MemoryOK, Saving
<1>3. VersionsOK /\ EpochsOK /\ OrderOK
  BY NoFileType DEF Init, VersionsOK, EpochsOK, OrderOK, Saving
<1> QED BY <1>1, <1>2, <1>3 DEF KInv

\* A change in memory only moves the token further ahead of the file.
LEMMA ChangeTokenKeeps == ASSUME KInv, ChangeToken PROVE KInv'
<1>1. TypeOK'
  BY DEF KInv, ChangeToken, saveVars, diskVars, historyVars, TypeOK, FileRec
<1>2. TmpOK' /\ PathOK' /\ AnchorOK' /\ MemoryOK'
  BY DEF KInv, ChangeToken, saveVars, diskVars, historyVars, TypeOK, FileRec, TmpOK, PathOK, AnchorOK, MemoryOK, Saving
<1>3. VersionsOK'
  BY DEF KInv, ChangeToken, saveVars, diskVars, historyVars, TypeOK, FileRec, TmpOK, PathOK, MemoryOK, VersionsOK, Saving
<1>4. EpochsOK' /\ OrderOK'
  BY DEF KInv, Saving, ChangeToken, saveVars, diskVars, historyVars, TypeOK, FileRec, PathOK, EpochsOK, OrderOK, EpochReused
<1> QED BY <1>1, <1>2, <1>3, <1>4 DEF KInv

\* The new file is made under the next epoch, from a token not behind the file.
LEMMA SaveBeginKeeps == ASSUME KInv, SaveBegin PROVE KInv'
<1>1. TypeOK'
  <2>1. mem \in Nat /\ anchor \in Nat /\ anchor + 1 \in Nat
    BY DEF KInv, TypeOK
  <2>2. tmp' \in FileRec
    BY <2>1 DEF SaveBegin, FileRec
  <2> QED BY <2>1, <2>2 DEF KInv, SaveBegin, diskVars, historyVars, TypeOK
<1>2. TmpOK' /\ PathOK' /\ AnchorOK' /\ MemoryOK'
  BY DEF KInv, SaveBegin, diskVars, historyVars, TypeOK, TmpOK, PathOK, AnchorOK, MemoryOK, Saving
<1>3. VersionsOK'
  BY DEF KInv, SaveBegin, diskVars, historyVars, TypeOK, PathOK, VersionsOK, Saving
<1>4. EpochsOK' /\ OrderOK'
  BY DEF KInv, Saving, SaveBegin, diskVars, historyVars, EpochsOK, OrderOK, EpochReused
<1> QED BY <1>1, <1>2, <1>3, <1>4 DEF KInv

\* The records and the tag.
LEMMA SaveWriteKeeps == ASSUME KInv, SaveWrite PROVE KInv'
<1>1. TypeOK'
  BY DEF KInv, SaveWrite, diskVars, historyVars, TypeOK, FileRec
<1>2. TmpOK' /\ PathOK' /\ AnchorOK' /\ MemoryOK'
  BY DEF KInv, SaveWrite, diskVars, historyVars, TypeOK, FileRec, TmpOK, PathOK, AnchorOK, MemoryOK, Saving
<1>3. VersionsOK'
  BY DEF KInv, SaveWrite, diskVars, historyVars, TypeOK, FileRec, TmpOK, PathOK, MemoryOK, VersionsOK, Saving
<1>4. EpochsOK' /\ OrderOK'
  BY DEF KInv, Saving, SaveWrite, diskVars, historyVars, TypeOK, FileRec, PathOK, EpochsOK, OrderOK, EpochReused
<1> QED BY <1>1, <1>2, <1>3, <1>4 DEF KInv

\* The fsync of the new file.
LEMMA SaveFsyncKeeps == ASSUME KInv, SaveFsync PROVE KInv'
<1>1. TypeOK'
  BY DEF KInv, SaveFsync, diskVars, historyVars, TypeOK, FileRec
<1>2. TmpOK' /\ PathOK' /\ AnchorOK' /\ MemoryOK'
  BY DEF KInv, SaveFsync, diskVars, historyVars, TypeOK, FileRec, TmpOK, PathOK, AnchorOK, MemoryOK, Saving
<1>3. VersionsOK'
  BY DEF KInv, SaveFsync, diskVars, historyVars, TypeOK, FileRec, TmpOK, PathOK, MemoryOK, VersionsOK, Saving
<1>4. EpochsOK' /\ OrderOK'
  BY DEF KInv, Saving, SaveFsync, diskVars, historyVars, TypeOK, FileRec, PathOK, EpochsOK, OrderOK, EpochReused
<1> QED BY <1>1, <1>2, <1>3, <1>4 DEF KInv

\* The rename puts a whole, synced file in place.  If its epoch was given before, to
\* another version, epochs are reused; if to the same version, it fits in where that
\* one was; and a new epoch is the highest, with the newest version.
LEMMA SaveRenameKeeps == ASSUME KInv, SaveRename PROVE KInv'
<1>1. TypeOK'
  BY DEF KInv, SaveRename, TypeOK
<1>2. TmpOK' /\ PathOK' /\ AnchorOK' /\ MemoryOK'
  BY DEF KInv, SaveRename, TypeOK, TmpOK, PathOK, AnchorOK, MemoryOK, Saving
<1>3. VersionsOK'
  BY DEF KInv, SaveRename, TypeOK, FileRec, TmpOK, PathOK, MemoryOK, VersionsOK, Saving
<1>4. /\ tmp.epoch = anchor + 1 /\ tmp.version = saving /\ saving <= mem /\ up
      /\ anchor \in Nat /\ saving \in Nat /\ mem \in Nat /\ tmp \in FileRec
      /\ saved' = saved \cup {tmp} /\ saved \subseteq FileRec
      /\ UNCHANGED <<up, mem, anchor, acked>> /\ file' = tmp /\ oldFile' = file
  BY DEF KInv, SaveRename, TypeOK, TmpOK, MemoryOK, Saving
<1>5. \A k \in 1..tmp.epoch : \E g \in saved' : g.epoch = k
  <2> SUFFICES ASSUME NEW k \in 1..(anchor + 1) PROVE \E g \in saved' : g.epoch = k
    BY <1>4
  <2>1. CASE k = anchor + 1
    BY <1>4, <2>1
  <2>2. CASE k \in 1..anchor
    BY <1>4, <2>2 DEF KInv, EpochsOK
  <2> QED BY <1>4, <2>1, <2>2
<1>6. EpochsOK'
  <2>1. tmp # NoFile /\ tmp.epoch >= 1
    BY <1>4, NoFileType
  <2>2. \A f \in saved' : f.epoch >= 1
    BY <1>4, <2>1 DEF KInv, EpochsOK
  <2>3. ASSUME NEW f \in saved', NEW k \in 1..f.epoch
        PROVE  \E g \in saved' : g.epoch = k
    <3>1. CASE f = tmp
      BY <1>5, <3>1
    <3>2. CASE f \in saved
      BY <1>4, <3>2 DEF KInv, EpochsOK
    <3> QED BY <1>4, <3>1, <3>2
  <2>4. \A k \in 1..anchor' : \E g \in saved' : g.epoch = k
    BY <1>4 DEF KInv, EpochsOK
  <2>5. /\ file' = NoFile \/ file' \in saved'
        /\ oldFile' = NoFile \/ oldFile' \in saved'
        /\ acked' = NoFile \/ acked' \in saved'
        /\ \A f \in {file', oldFile'} : f = NoFile => anchor' = 0
    BY <1>4, <2>1 DEF KInv, EpochsOK
  <2> QED BY <2>2, <2>3, <2>4, <2>5 DEF EpochsOK
<1>7. ASSUME ~EpochReused'
      PROVE  /\ \A f \in saved : f.epoch <= tmp.epoch => f.version <= tmp.version
             /\ \A f \in saved : tmp.epoch <= f.epoch => tmp.version <= f.version
  <2>1. /\ \A f, g \in saved : f.epoch <= g.epoch => f.version <= g.version
        /\ \A f \in saved : f.epoch <= anchor => f.version <= tmp.version
    BY <1>4, <1>7 DEF KInv, OrderOK, EpochReused, SaveRename, Saving
  <2>2. \A g \in saved : g.epoch = tmp.epoch => g.version = tmp.version
    BY <1>4, <1>7 DEF EpochReused
  <2>3. \A f \in saved : f.epoch \in Nat /\ f.version \in Nat
    BY <1>4 DEF FileRec
  <2>4. ASSUME NEW f \in saved, tmp.epoch <= f.epoch
        PROVE  tmp.version <= f.version
    <3>1. PICK g \in saved : g.epoch = tmp.epoch
      BY <1>4, <2>3, <2>4 DEF KInv, EpochsOK
    <3> QED BY <2>1, <2>2, <2>4, <3>1
  <2>5. ASSUME NEW f \in saved, f.epoch <= tmp.epoch
        PROVE  f.version <= tmp.version
    <3>1. CASE f.epoch <= anchor
      BY <1>4, <2>1, <3>1
    <3>2. CASE f.epoch = tmp.epoch
      BY <2>2, <2>3, <3>2
    <3> QED BY <1>4, <2>3, <2>5, <3>1, <3>2
  <2> QED BY <2>4, <2>5
<1>8. OrderOK'
  <2>1. CASE EpochReused'
    BY <2>1 DEF OrderOK
  <2>2. CASE ~EpochReused'
    <3>1. ~EpochReused
      BY <1>4, <2>2 DEF EpochReused
    <3>2. \A f, g \in saved' : f.epoch <= g.epoch => f.version <= g.version
      BY <1>4, <1>7, <2>2, <3>1 DEF KInv, OrderOK, FileRec
    <3>3. \A f \in saved' : f.epoch <= anchor' => f.version <= mem' /\ f.version <= saving'
      BY <1>4, <3>1 DEF KInv, OrderOK, SaveRename, Saving
    <3> QED BY <3>2, <3>3 DEF OrderOK
  <2> QED BY <2>1, <2>2
<1> QED BY <1>1, <1>2, <1>3, <1>6, <1>8 DEF KInv

\* The fsync of the directory settles which file the path leads to.
LEMMA SaveFsyncDirKeeps == ASSUME KInv, SaveFsyncDir PROVE KInv'
<1>1. TypeOK'
  BY DEF KInv, SaveFsyncDir, historyVars, TypeOK, FileRec
<1>2. TmpOK' /\ PathOK' /\ AnchorOK' /\ MemoryOK'
  BY DEF KInv, SaveFsyncDir, historyVars, TypeOK, FileRec, TmpOK, PathOK, AnchorOK, MemoryOK, Saving
<1>3. VersionsOK'
  BY DEF KInv, SaveFsyncDir, historyVars, TypeOK, FileRec, TmpOK, PathOK, MemoryOK, VersionsOK, Saving
<1>4. EpochsOK' /\ OrderOK'
  BY DEF KInv, Saving, SaveFsyncDir, historyVars, TypeOK, FileRec, PathOK, EpochsOK, OrderOK, EpochReused
<1> QED BY <1>1, <1>2, <1>3, <1>4 DEF KInv

\* The anchor counts the save, or the advance fails; the file counted is the one in
\* place, so no version the anchor now covers is ahead of memory.
LEMMA SaveBumpKeeps == ASSUME KInv, SaveBump PROVE KInv'
<1>1. TypeOK'
  BY DEF KInv, SaveBump, TypeOK
<1>2. TmpOK' /\ PathOK' /\ AnchorOK' /\ MemoryOK'
  BY DEF KInv, SaveBump, TypeOK, TmpOK, PathOK, AnchorOK, MemoryOK, Saving
<1>3. VersionsOK'
  BY DEF KInv, SaveBump, TypeOK, FileRec, TmpOK, PathOK, MemoryOK, VersionsOK, Saving
<1>4. /\ file = tmp /\ oldFile = file /\ file.epoch = anchor + 1 /\ file.version <= mem
      /\ anchor \in Nat /\ mem \in Nat /\ saved \subseteq FileRec
      /\ anchor' \in {anchor, anchor + 1} /\ acked' = file /\ pc' = "idle"
      /\ UNCHANGED <<up, mem, file, oldFile, saved>>
  BY DEF KInv, SaveBump, TypeOK, TmpOK, PathOK, MemoryOK
<1>5. file \in saved
  BY <1>4, NoFileType DEF KInv, EpochsOK
<1>6. EpochsOK'
  <2>1. \A k \in 1..anchor' : \E g \in saved : g.epoch = k
    BY <1>4, <1>5 DEF KInv, EpochsOK
  <2>2. file # NoFile
    BY <1>4, NoFileType
  <2> QED BY <1>4, <1>5, <2>1, <2>2 DEF KInv, EpochsOK
<1>7. OrderOK'
  <2>1. CASE EpochReused
    BY <1>4, <2>1 DEF OrderOK, EpochReused
  <2>2. CASE ~EpochReused
    <3>1. \A f \in saved : f.epoch \in Nat
      BY <1>4 DEF FileRec
    <3>2. \A f \in saved : f.epoch = anchor + 1 => f.version = file.version
      BY <1>4, <1>5, <2>2 DEF EpochReused
    <3>3. \A f \in saved : f.epoch <= anchor' => f.version <= mem
      BY <1>4, <2>2, <3>1, <3>2 DEF KInv, OrderOK, SaveBump, TmpOK
    <3> QED BY <1>4, <2>2, <3>3 DEF KInv, OrderOK, EpochReused, SaveBump, TmpOK, Saving
  <2> QED BY <2>1, <2>2
<1> QED BY <1>1, <1>2, <1>3, <1>6, <1>7 DEF KInv

\* A call that fails before the rename took effect leaves the path alone.
LEMMA SaveFailKeeps == ASSUME KInv, SaveFail PROVE KInv'
<1>1. TypeOK'
  BY NoFileType DEF KInv, SaveFail, diskVars, historyVars, TypeOK
<1>2. TmpOK' /\ PathOK' /\ AnchorOK' /\ MemoryOK'
  BY DEF KInv, SaveFail, diskVars, historyVars, TypeOK, FileRec, TmpOK, PathOK, AnchorOK, MemoryOK, Saving
<1>3. VersionsOK'
  BY DEF KInv, SaveFail, diskVars, historyVars, TypeOK, FileRec, TmpOK, PathOK, MemoryOK, VersionsOK, Saving
<1>4. EpochsOK' /\ OrderOK'
  BY DEF KInv, Saving, SaveFail, diskVars, historyVars, TypeOK, FileRec, PathOK, EpochsOK, OrderOK, EpochReused
<1> QED BY <1>1, <1>2, <1>3, <1>4 DEF KInv

\* What a crash finds under the path was fsynced, so the save it interrupts has
\* happened or has not.
LEMMA DownKeeps ==
  ASSUME KInv, NEW f \in {file, oldFile}, NEW a \in {anchor, oldAnchor}, Down(f, a)
  PROVE  KInv'
<1>1. f.synced /\ f \in FileRec /\ a \in Nat /\ a <= anchor
  BY DEF KInv, PathOK, AnchorOK, TypeOK
<1>2. [f EXCEPT !.synced = TRUE] = f
  BY <1>1 DEF FileRec
<1>3. /\ ~up' /\ mem' = 0 /\ pc' = "idle" /\ saving' = 0 /\ file' = f /\ oldFile' = f
      /\ anchor' = a /\ oldAnchor' = a /\ UNCHANGED <<tmp, acked, saved, replaced>>
  BY <1>2 DEF Down, historyVars
<1>4. TypeOK'
  <2>1. up' \in BOOLEAN
    BY DEF Down
  <2>2. {mem', saving', anchor', oldAnchor'} \subseteq Nat
    BY <1>1, <1>3
  <2>3. {tmp', file', oldFile', acked'} \subseteq FileRec
    BY <1>1, <1>3 DEF KInv, TypeOK
  <2> QED BY <1>3, <2>1, <2>2, <2>3 DEF KInv, TypeOK
<1>5. TmpOK' /\ PathOK' /\ AnchorOK' /\ MemoryOK'
  BY <1>1, <1>3 DEF KInv, TmpOK, PathOK, AnchorOK, MemoryOK, Saving
<1>6. VersionsOK'
  BY <1>1, <1>3 DEF KInv, TypeOK, FileRec, VersionsOK, Saving
<1>7. EpochsOK'
  BY <1>1, <1>3 DEF KInv, TypeOK, EpochsOK
<1>8. OrderOK'
  BY <1>1, <1>3 DEF KInv, TypeOK, OrderOK, EpochReused, Saving
<1> QED BY <1>4, <1>5, <1>6, <1>7, <1>8 DEF KInv

\* The daemon exits, or is cut off at any point of a save.
LEMMA GoingDownKeeps == ASSUME KInv, Stop \/ Crash PROVE KInv'
<1>1. file.synced
  BY DEF KInv, PathOK
<1> QED BY <1>1, DownKeeps DEF Stop, Crash

\* An earlier file put back is one a save had put in place.
LEMMA ReplaceFileKeeps == ASSUME KInv, ReplaceFile PROVE KInv'
<1>1. PICK f \in saved : file' = f /\ oldFile' = f
  BY DEF ReplaceFile
<1>2. /\ replaced' /\ ~up /\ UNCHANGED <<up, mem, pc, saving, tmp, anchor, oldAnchor, acked, saved>>
      /\ f \in FileRec /\ f # NoFile
  BY <1>1, NoFileType DEF ReplaceFile, saveVars, KInv, TypeOK, EpochsOK
<1>3. TypeOK' /\ VersionsOK'
  BY <1>1, <1>2 DEF KInv, TypeOK, VersionsOK
<1>4. TmpOK' /\ PathOK' /\ AnchorOK' /\ MemoryOK'
  BY <1>1, <1>2 DEF KInv, TmpOK, PathOK, AnchorOK, MemoryOK, Saving
<1>5. EpochsOK' /\ OrderOK'
  BY <1>1, <1>2 DEF KInv, EpochsOK, OrderOK, EpochReused
<1> QED BY <1>3, <1>4, <1>5 DEF KInv

\* A file that is accepted has an epoch the anchor has not passed, so its version is
\* none the anchor had counted a successor of.
LEMMA StartKeeps == ASSUME KInv, Start PROVE KInv'
<1>1. /\ up' /\ mem' = file.version /\ pc = "idle" /\ file \in FileRec /\ oldFile = file
      /\ UNCHANGED <<pc, saving, tmp, file, oldFile, anchor, oldAnchor, acked, saved, replaced>>
  BY DEF Start, KInv, TypeOK, PathOK, saveVars, diskVars, historyVars
<1>2. TypeOK'
  BY <1>1 DEF KInv, TypeOK, FileRec, Start
<1>3. TmpOK' /\ PathOK' /\ AnchorOK' /\ MemoryOK'
  BY <1>1 DEF KInv, TmpOK, PathOK, AnchorOK, MemoryOK, Saving
<1>4. VersionsOK' /\ EpochsOK'
  BY <1>1 DEF KInv, TypeOK, FileRec, VersionsOK, EpochsOK, Saving
<1>5. OrderOK'
  <2>1. CASE EpochReused
    BY <1>1, <2>1 DEF OrderOK, EpochReused
  <2>2. CASE ~EpochReused
    <3>1. ASSUME NEW f \in saved, f.epoch <= anchor
          PROVE  f.version <= file.version
      <4>1. f \in FileRec /\ anchor \in Nat /\ f.epoch >= 1
        BY DEF KInv, TypeOK, EpochsOK
      <4>2. CASE file = NoFile
        BY <3>1, <4>1, <4>2 DEF KInv, EpochsOK, FileRec
      <4>3. CASE file # NoFile
        <5>1. file \in saved /\ file.epoch >= anchor
          BY <4>3 DEF KInv, EpochsOK, Start, Accepts
        <5> QED BY <1>1, <2>2, <3>1, <4>1, <5>1 DEF KInv, OrderOK, FileRec
      <4> QED BY <4>2, <4>3
    <3> QED BY <1>1, <2>2, <3>1 DEF KInv, OrderOK, EpochReused, Saving
  <2> QED BY <2>1, <2>2
<1> QED BY <1>2, <1>3, <1>4, <1>5 DEF KInv
-----------------------------------------------------------------------------
(* The theorems.                                                            *)

\* The invariant is inductive.
LEMMA KInvStep == KInv /\ [Next]_vars => KInv'
<1> SUFFICES ASSUME KInv, [Next]_vars PROVE KInv'
  OBVIOUS
<1>1. CASE UNCHANGED vars
  BY <1>1 DEF vars, KInv, TypeOK, TmpOK, PathOK, AnchorOK, MemoryOK, VersionsOK, EpochsOK,
              OrderOK, EpochReused
<1> QED
  BY <1>1, ChangeTokenKeeps, SaveBeginKeeps, SaveWriteKeeps, SaveFsyncKeeps, SaveRenameKeeps,
     SaveFsyncDirKeeps, SaveBumpKeeps, SaveFailKeeps, GoingDownKeeps, ReplaceFileKeeps,
     StartKeeps
     DEF Next

\* The invariant holds in every reachable state.
LEMMA KeystoreInductive == Spec => []KInv
BY InitKInv, KInvStep, PTL DEF Spec

\* Types of the file, the anchor and the save under way, whatever crashes, failing
\* calls and exchanged files do.
THEOREM KeystoreTypes == Spec => []TypeOK
<1>1. KInv => TypeOK
  BY DEF KInv
<1> QED BY <1>1, KeystoreInductive, PTL

\* hsm_keystore_save and pqc_rbanchor_bump, cut off anywhere, leave a file that
\* hsm_keystore_load accepts.
THEOREM NoCrashBricks == Spec => []NeverBricked
<1>1. KInv => NeverBricked
  BY DEF KInv, TypeOK, FileRec, AnchorOK, VersionsOK, NeverBricked
<1> QED BY <1>1, KeystoreInductive, PTL

\* A save that hsm_keystore_save reported done is what a start finds after any crash, or
\* a later one is.
THEOREM AcknowledgedSavesStay == Spec => []AckedSurvives
<1>1. KInv => AckedSurvives
  BY DEF KInv, TypeOK, FileRec, PathOK, VersionsOK, AckedSurvives
<1> QED BY <1>1, KeystoreInductive, PTL

\* Once the anchor has counted a save, no earlier file put back is accepted, wherever no
\* two saves got the same epoch.
THEOREM CountedSavesStay == Spec => []OldSnapshotRefused
<1>1. KInv => OldSnapshotRefused
  <2> SUFFICES ASSUME KInv, ~EpochReused, up, anchor >= acked.epoch
               PROVE  mem >= acked.version
    BY DEF OldSnapshotRefused, CountedSaveStays
  <2>1. acked \in FileRec /\ mem \in Nat /\ anchor \in Nat
    BY DEF KInv, TypeOK
  <2>2. CASE acked = NoFile
    BY <2>1, <2>2, NoFileType
  <2>3. CASE acked \in saved
    BY <2>1, <2>3 DEF KInv, OrderOK, FileRec
  <2> QED BY <2>2, <2>3 DEF KInv, EpochsOK
<1> QED BY <1>1, KeystoreInductive, PTL
-----------------------------------------------------------------------------
(* The refinement of AtomicStore.                                           *)

\* A step of the detailed save is a step of the atomic one or a stutter: the version
\* is stored when the directory is fsynced, or by a crash after the rename.
LEMMA StepRefines ==
  ASSUME KInv, KInv', [Next]_vars
  PROVE  [Abstract!StoreNext]_(Abstract!storeVars)
<1> DEFINE pending == IF pc \in {"idle", "bump"} THEN {} ELSE {saving}
<1>1. CASE UNCHANGED vars
  BY <1>1 DEF vars, Abstract!storeVars
<1>2. CASE ChangeToken
  BY <1>2 DEF ChangeToken, saveVars, diskVars, historyVars, Abstract!StoreNext, Abstract!Change
<1>3. CASE SaveBegin
  BY <1>3 DEF SaveBegin, diskVars, historyVars, Abstract!StoreNext, Abstract!BeginSave
<1>4. CASE SaveWrite \/ SaveFsync \/ SaveRename
  BY <1>4 DEF SaveWrite, SaveFsync, SaveRename, diskVars, historyVars, KInv, PathOK, Abstract!storeVars
<1>5. CASE SaveFsyncDir
  BY <1>5 DEF SaveFsyncDir, historyVars, KInv, PathOK, TmpOK, Saving, Abstract!StoreNext, Abstract!SaveDone
<1>6. CASE SaveBump
  BY <1>6 DEF SaveBump, Abstract!storeVars
<1>7. CASE SaveFail
  BY <1>7 DEF SaveFail, diskVars, historyVars, Abstract!StoreNext, Abstract!SaveFailed
<1>8. CASE Stop \/ Crash
  <2>1. PICK f \in {file, oldFile}, a \in {anchor, oldAnchor} : Down(f, a)
    BY <1>8 DEF Stop, Crash, KInv, PathOK
  <2>2. up /\ ~up' /\ mem' = 0 /\ pc' = "idle" /\ UNCHANGED replaced
        /\ oldFile' = [f EXCEPT !.synced = TRUE]
    BY <1>8, <2>1 DEF Stop, Crash, Down, historyVars
  <2>3. oldFile'.version = f.version
    BY <2>1, <2>2 DEF KInv, TypeOK, FileRec
  <2>4. f.version \in {oldFile.version} \cup pending
    BY <2>1 DEF KInv, PathOK, TmpOK, Saving
  <2> QED BY <2>2, <2>3, <2>4 DEF Abstract!StoreNext, Abstract!GoDown
<1>9. CASE ReplaceFile
  BY <1>9 DEF ReplaceFile, saveVars, KInv, TypeOK, FileRec, Abstract!StoreNext, Abstract!Exchange
<1>10. CASE Start
  BY <1>10 DEF Start, saveVars, diskVars, historyVars, KInv, PathOK, Abstract!StoreNext, Abstract!StartUp
<1> QED BY <1>1, <1>2, <1>3, <1>4, <1>5, <1>6, <1>7, <1>8, <1>9, <1>10 DEF Next

\* hsm_keystore_save, as crashes and failing calls leave it, is a store that replaces one
\* version as a whole.
THEOREM SaveIsAtomic == Spec => ImplementsAtomicStore
<1>1. Init => Abstract!StoreInit
  BY NoFileType DEF Init, Abstract!StoreInit
<1>2. KInv /\ KInv' /\ [Next]_vars => [Abstract!StoreNext]_(Abstract!storeVars)
  BY StepRefines
<1> QED
  BY <1>1, <1>2, KeystoreInductive, PTL DEF Spec, ImplementsAtomicStore, Abstract!StoreSpec
=============================================================================
