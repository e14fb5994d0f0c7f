------------------------------ MODULE AuditLog ------------------------------
(***************************************************************************)
(* The hash-chained audit log of src/src/audit: a header (count, head) and *)
(* fixed-size records, each carrying the chain value after it; and the     *)
(* anchors that sign a (count, head) pair outside the log.                 *)
(*                                                                         *)
(* A chain value stands for the sequence of events hashed into it, so two  *)
(* values are equal exactly when the hash inputs are: SHA3-256 is taken to *)
(* be collision free.  The genesis value is the empty sequence.            *)
(*                                                                         *)
(* A write reaches the disk when an fsync says so; until then a crash may  *)
(* keep it, lose it, or keep part of it (for a record that grows the       *)
(* file).  The single writer the module assumes is the process.            *)
(***************************************************************************)
EXTENDS Integers, Sequences, FiniteSets

CONSTANTS
  Events,     \* what is recorded: operation, role, slot, result, detail
  MaxRecords, \* bound on the records of the log
  MaxAnchors  \* bound on the anchors signed

ASSUME AuditAssumption == {MaxRecords, MaxAnchors} \subseteq Nat /\ Events # {}

VARIABLES
  recs,     \* the records in the file
  hdr,      \* the header in the file
  oldRecs,  \* the records as of the last fsync
  oldHdr,   \* the header as of the last fsync
  log,      \* the open log: count and head in memory
  pc,       \* where audit_append is
  rec,      \* the record it appends
  acked,    \* history: <<position, event>> of appends that returned 0
  anchors,  \* signed (count, head) pairs, kept elsewhere
  reading,  \* the head an anchor_create has read, before it reads the count
  failed,   \* history: has a write or an fsync reported an error
  rewritten \* history: was the file replaced

vars == <<recs, hdr, oldRecs, oldHdr, log, pc, rec, acked, anchors, reading, failed, rewritten>>

\* Half a record, or a record of which only part reached the disk.
Junk == [seq |-> -1, event |-> CHOOSE e \in Events : TRUE, hash |-> <<>>]

Genesis == [count |-> 0, head |-> <<>>]
Closed  == [open |-> FALSE, count |-> 0, head |-> <<>>]
NoRead  == [on |-> FALSE, head |-> <<>>]

\* H_next = SHA3-256(prev || wire)
chain_step(prev, event) == Append(prev, event)

\* create_genesis puts the header in place as a whole.
Init ==
  /\ recs = <<>> /\ oldRecs = <<>>
  /\ hdr = Genesis /\ oldHdr = Genesis
  /\ log = Closed
  /\ pc = "idle" /\ rec = Junk
  /\ acked = {} /\ anchors = {} /\ reading = NoRead
  /\ failed = FALSE /\ rewritten = FALSE

\* Mutant: a file longer than the header says still opens.
LengthFits_OrMore(rs, h) == Len(rs) >= h.count

\* audit_open takes count and head from the header if the length fits exactly;
\* the chain itself is not recomputed here.
LengthFits(rs, h) == Len(rs) = h.count /\ (Len(rs) > 0 => rs[Len(rs)].seq # -1)

audit_open ==
  /\ ~log.open
  /\ LengthFits(recs, hdr)
  /\ log' = [open |-> TRUE, count |-> hdr.count, head |-> hdr.head]
  /\ UNCHANGED <<recs, hdr, oldRecs, oldHdr, pc, rec, acked, anchors, reading, failed, rewritten>>

\* The handle is not closed under a call that uses it.
audit_close ==
  /\ log.open /\ pc = "idle" /\ ~reading.on
  /\ log' = Closed
  /\ UNCHANGED <<recs, hdr, oldRecs, oldHdr, pc, rec, acked, anchors, reading, failed, rewritten>>
-----------------------------------------------------------------------------
(* audit_append: record, fsync, header, fsync, and only then memory.        *)

\* Mutant: the record goes to the end of the file, wherever that is.
Put_AtEnd(rs, i, r) == Append(rs, r)

\* pwrite at 64 + 96 * count: past the end it grows the file, otherwise it
\* overwrites what an append that failed has left there.
Put(rs, i, r) == [j \in 1..(IF i > Len(rs) THEN i ELSE Len(rs)) |->
                    IF j = i THEN r ELSE rs[j]]

AppendRecord(e) ==
  LET r == [seq |-> log.count, event |-> e, hash |-> chain_step(log.head, e)]
  IN
  /\ log.open /\ pc = "idle" /\ log.count < MaxRecords
  /\ rec' = r
  /\ recs' = Put(recs, log.count + 1, r)
  /\ pc' = "fsync_record"
  /\ UNCHANGED <<hdr, oldRecs, oldHdr, log, acked, anchors, reading, failed, rewritten>>

FsyncRecord ==
  /\ pc = "fsync_record"
  /\ oldRecs' = recs /\ oldHdr' = hdr
  /\ pc' = "header"
  /\ UNCHANGED <<recs, hdr, log, rec, acked, anchors, reading, failed, rewritten>>

WriteHeader ==
  /\ pc = "header"
  /\ hdr' = [count |-> log.count + 1, head |-> rec.hash]
  /\ pc' = "fsync_header"
  /\ UNCHANGED <<recs, oldRecs, oldHdr, log, rec, acked, anchors, reading, failed, rewritten>>

\* Mutant: the count in memory stays behind.
FsyncHeader_SameCount ==
  /\ pc = "fsync_header"
  /\ oldRecs' = recs /\ oldHdr' = hdr
  /\ log' = [log EXCEPT !.head = rec.hash]
  /\ acked' = acked \cup {<<log.count + 1, rec.event>>}
  /\ pc' = "idle" /\ rec' = Junk
  /\ UNCHANGED <<recs, hdr, anchors, reading, failed, rewritten>>

FsyncHeader ==
  /\ pc = "fsync_header"
  /\ oldRecs' = recs /\ oldHdr' = hdr
  /\ log' = [log EXCEPT !.count = @ + 1, !.head = rec.hash]
  /\ acked' = acked \cup {<<log.count + 1, rec.event>>}
  /\ pc' = "idle" /\ rec' = Junk
  /\ UNCHANGED <<recs, hdr, anchors, reading, failed, rewritten>>

\* A write or an fsync fails: -1, and memory stays as it was.  The caller
\* (slot_audit) does not look at the result.
AppendFails ==
  /\ pc # "idle"
  /\ pc' = "idle" /\ rec' = Junk
  /\ failed' = TRUE
  /\ UNCHANGED <<recs, hdr, oldRecs, oldHdr, log, acked, anchors, reading, rewritten>>
-----------------------------------------------------------------------------
(* hsm_audit_anchor_create signs what memory holds and writes it elsewhere. *)
(* It reads the head, then the count, and takes no lock: an append of       *)
(* another thread may be anywhere, and may end between the two reads.  A    *)
(* head copied while memcpy writes it is not modelled: no chain has it.     *)

anchor_head ==
  /\ log.open /\ ~reading.on /\ Cardinality(anchors) < MaxAnchors
  /\ reading' = [on |-> TRUE, head |-> log.head]
  /\ UNCHANGED <<recs, hdr, oldRecs, oldHdr, log, pc, rec, acked, anchors, failed, rewritten>>

anchor_create ==
  /\ reading.on
  /\ anchors' = anchors \cup {[count |-> log.count, head |-> reading.head]}
  /\ reading' = NoRead
  /\ UNCHANGED <<recs, hdr, oldRecs, oldHdr, log, pc, rec, acked, failed, rewritten>>

TornRecords == IF Len(recs) > Len(oldRecs) THEN {Append(oldRecs, Junk)} ELSE {}

Crash ==
  /\ log.open
  /\ \E rs \in {recs, oldRecs} \cup TornRecords, h \in {hdr, oldHdr} :
       /\ recs' = rs /\ oldRecs' = rs
       /\ hdr' = h /\ oldHdr' = h
  /\ log' = Closed /\ pc' = "idle" /\ rec' = Junk /\ reading' = NoRead
  /\ UNCHANGED <<acked, anchors, failed, rewritten>>

\* The chain over a sequence of events, as whoever can write the file would
\* compute it: every record and the header agree.
ChainOf(es) == [i \in 1..Len(es) |->
                  [seq |-> i - 1, event |-> es[i], hash |-> SubSeq(es, 1, i)]]

Rewrite ==
  /\ ~log.open
  /\ \E n \in 0..MaxRecords : \E es \in [1..n -> Events] :
       /\ recs' = ChainOf(es) /\ oldRecs' = recs'
       /\ hdr' = [count |-> n, head |-> es] /\ oldHdr' = hdr'
  /\ rewritten' = TRUE
  /\ UNCHANGED <<log, pc, rec, acked, anchors, reading, failed>>

Next == \/ audit_open \/ audit_close
        \/ \E e \in Events : AppendRecord(e)
        \/ FsyncRecord \/ WriteHeader \/ FsyncHeader \/ AppendFails
        \/ anchor_head \/ anchor_create \/ Crash \/ Rewrite

Spec == Init /\ [][Next]_vars
-----------------------------------------------------------------------------
(* The two verifications.                                                   *)

PrevHash(rs, i) == IF i = 1 THEN <<>> ELSE rs[i - 1].hash

audit_verify_file(rs, h) ==
  /\ LengthFits(rs, h)
  /\ \A i \in 1..Len(rs) : /\ rs[i].seq = i - 1
                           /\ rs[i].hash = chain_step(PrevHash(rs, i), rs[i].event)
  /\ h.head = IF Len(rs) = 0 THEN <<>> ELSE rs[Len(rs)].hash

\* Mutant: the hash of record n counted from 0 is the one after n + 1 records.
audit_hash_at_OneOn(rs, n) == IF n < Len(rs) THEN rs[n + 1].hash ELSE <<>>

audit_hash_at(rs, n) == IF n = 0 THEN <<>> ELSE rs[n].hash

\* Mutant: the chain value at the anchored position is not compared.
anchor_verify_LengthOnly(rs, h, a) ==
  /\ audit_verify_file(rs, h)
  /\ a.count <= Len(rs)

anchor_verify(rs, h, a) ==
  /\ audit_verify_file(rs, h)
  /\ a.count <= Len(rs)
  /\ audit_hash_at(rs, a.count) = a.head

RecordRec == [seq : Int, event : Events, hash : Seq(Events)]

TypeOK ==
  /\ {recs, oldRecs} \subseteq Seq(RecordRec)
  /\ {hdr, oldHdr} \subseteq [count : Nat, head : Seq(Events)]
  /\ log \in [open : BOOLEAN, count : Nat, head : Seq(Events)]
  /\ pc \in {"idle", "fsync_record", "header", "fsync_header"}
  /\ rec \in RecordRec
  /\ acked \subseteq Nat \X Events
  /\ anchors \subseteq [count : Nat, head : Seq(Events)]
  /\ reading \in [on : BOOLEAN, head : Seq(Events)]
  /\ failed \in BOOLEAN /\ rewritten \in BOOLEAN

\* An event whose append returned 0 stays where it was put: no later append,
\* failed append or crash overwrites it or cuts it off.
AckedStays ==
  ~rewritten => \A a \in acked : a[1] <= Len(recs) /\ recs[a[1]].event = a[2]

\* The cheap check of audit_open is enough after a crash: a log that opens is
\* one audit_verify_file accepts, unless the disk has reported an error.
OpenLogVerifies ==
  log.open /\ pc = "idle" /\ ~failed => audit_verify_file(recs, hdr)

\* Records 1..n carry the chain values of their predecessors.
Linked(rs, n) ==
  \A i \in 1..n : /\ rs[i].seq = i - 1
                  /\ rs[i].hash = chain_step(PrevHash(rs, i), rs[i].event)

\* The records an open log counts are a chain, and it holds their head.
HandleSound ==
  /\ log.count <= Len(recs)
  /\ Linked(recs, log.count)
  /\ log.head = audit_hash_at(recs, log.count)

\* While the log stays open no failing write or fsync harms it: whatever a failed
\* append left in the file, the next one that returns 0 writes it over, and the
\* log is then one audit_verify_file accepts.
AppendHeals ==
  [][log.open /\ HandleSound /\ log'.open =>
       /\ HandleSound'
       /\ log'.count > log.count => audit_verify_file(recs, hdr)']_vars

\* The head is the chain value of as many events as the count says.
Whole(a) == Len(a.head) = a.count

\* On a disk that has reported no error, an anchor whose count and head belong to each
\* other keeps verifying as long as the log itself does: no append under way when it
\* was signed, and no append or crash since, changes what it signed.
AnchorsKeepVerifying ==
  ~failed /\ ~rewritten /\ audit_verify_file(recs, hdr) =>
    \A a \in anchors : Whole(a) => anchor_verify(recs, hdr, a)

\* A log rewritten as a whole may pass audit_verify_file, but an anchor accepts
\* it only if its first count events are the ones that were signed.
AnchorPinsHistory ==
  \A a \in anchors : anchor_verify(recs, hdr, a) =>
    [i \in 1..a.count |-> recs[i].event] = a.head
=============================================================================
