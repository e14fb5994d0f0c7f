--------------------------- MODULE AuditLogProofs ---------------------------
(***************************************************************************)
(* Proofs about AuditLog, for every set of events and every length of the  *)
(* log: crashes at any point of an append, torn records, failing writes    *)
(* and fsyncs, and a file rewritten from outside.                          *)
(***************************************************************************)
EXTENDS AuditLog, SequenceTheorems, TLAPS

EventsTo(rs, n) == [i \in 1..n |-> rs[i].event]

\* Memory and the file agree on where the next record goes, and an append that is
\* under way has put its record there.
LogOK ==
  /\ log.open => Len(recs) \in {log.count, log.count + 1}
  /\ ~log.open => pc = "idle"
  /\ pc # "idle" => /\ Len(recs) = log.count + 1 /\ recs[log.count + 1] = rec
                    /\ rec.seq = log.count
                    /\ rec.hash = chain_step(log.head, rec.event)
  /\ pc \in {"header", "fsync_header"} => oldRecs = recs
  /\ pc = "fsync_header" => hdr = [count |-> log.count + 1, head |-> rec.hash]

\* Whatever a crash keeps of the file holds the acknowledged events, within the count
\* a later append starts from.
AckedIn(rs, h) ==
  \A a \in acked : a[1] \in 1..Len(rs) /\ a[1] <= h.count /\ rs[a[1]].event = a[2]

AckedOK ==
  ~rewritten =>
    /\ \A rs \in {recs, oldRecs}, h \in {hdr, oldHdr} : AckedIn(rs, h)
    /\ log.open => \A a \in acked : a[1] <= log.count

\* Where the chain holds up to a record, its chain value is all the events so far.
HistoryIn(rs) ==
  \A n \in 0..Len(rs) : Linked(rs, n) => audit_hash_at(rs, n) = EventsTo(rs, n)

HistoryOK == HistoryIn(recs) /\ HistoryIn(oldRecs)

\* On a disk that has reported no error, an open log is a chain that memory and one of
\* the two headers describe, and a closed one either has the wrong length or verifies.
DiskOK ==
  ~failed =>
    /\ pc # "fsync_record" => oldRecs = recs
    /\ pc = "fsync_record" => recs = Append(oldRecs, rec)
    /\ log.open => /\ Linked(recs, Len(recs))
                   /\ log.head = audit_hash_at(recs, log.count)
                   /\ oldHdr = [count |-> log.count, head |-> log.head]
    /\ pc # "fsync_header" => hdr = oldHdr
    /\ log.open /\ pc = "idle" => Len(recs) = log.count
    /\ ~log.open /\ LengthFits(recs, hdr) => audit_verify_file(recs, hdr)

\* The chain values that are signed with the count that is theirs, or may still be.
Signed == {a.head : a \in {b \in anchors : Whole(b)}}
            \cup {x \in {reading.head} : reading.on}

\* Whatever a crash keeps of the file has each of them at the position of its length.
AnchoredIn(rs) ==
  \A x \in Signed : Len(x) <= Len(rs) /\ audit_hash_at(rs, Len(x)) = x

AnchorsOK == ~failed /\ ~rewritten => AnchoredIn(recs) /\ AnchoredIn(oldRecs)

AInv == TypeOK /\ LogOK /\ AckedOK /\ HistoryOK /\ DiskOK /\ AnchorsOK
-----------------------------------------------------------------------------
(* What the operators on a file of records do.                              *)

\* A torn record has the type of a record, and a sequence number no record has.
LEMMA JunkType == Junk \in RecordRec /\ Junk.seq = -1
<1>1. (CHOOSE e \in Events : TRUE) \in Events
  BY AuditAssumption
<1>2. <<>> \in Seq(Events)
  OBVIOUS
<1> QED BY <1>1, <1>2 DEF Junk, RecordRec

\* pwrite at the end of the file, or over the record after the last one in memory,
\* touches no record before it.
LEMMA PutProperties ==
  ASSUME NEW rs \in Seq(RecordRec), NEW r \in RecordRec,
         NEW i \in Nat, i >= 1, i = Len(rs) \/ i = Len(rs) + 1
  PROVE  /\ Put(rs, i, r) \in Seq(RecordRec)
         /\ Len(Put(rs, i, r)) = i
         /\ Put(rs, i, r)[i] = r
         /\ \A j \in 1..(i - 1) : Put(rs, i, r)[j] = rs[j]
<1> DEFINE q == [j \in 1..i |-> IF j = i THEN r ELSE rs[j]]
<1>1. Put(rs, i, r) = q
  <2>1. (IF i > Len(rs) THEN i ELSE Len(rs)) = i
    BY LenProperties
  <2> QED BY <2>1 DEF Put
<1>2. \A j \in 1..i : q[j] \in RecordRec
  <2> TAKE j \in 1..i
  <2>1. CASE j = i
    BY <2>1
  <2>2. CASE j # i
    <3>1. j \in 1..Len(rs)
      BY <2>2, LenProperties
    <3> QED BY <2>2, <3>1, ElementOfSeq
  <2> QED BY <2>1, <2>2
<1>3. q \in Seq(RecordRec) /\ Len(q) = i
  <2>1. q \in [1..i -> RecordRec]
    BY <1>2
  <2> QED BY <2>1
<1>4. q[i] = r /\ \A j \in 1..(i - 1) : q[j] = rs[j]
  OBVIOUS
<1> QED BY <1>1, <1>3, <1>4

\* pwrite at the end of the file appends.
LEMMA PutAtEnd ==
  ASSUME NEW rs \in Seq(RecordRec), NEW r \in RecordRec
  PROVE  Put(rs, Len(rs) + 1, r) = Append(rs, r)
<1> DEFINE q == Put(rs, Len(rs) + 1, r)
<1>1. Len(rs) \in Nat
  BY LenProperties
<1>2. q \in Seq(RecordRec) /\ Len(q) = Len(rs) + 1 /\ q[Len(rs) + 1] = r
      /\ \A j \in 1..Len(rs) : q[j] = rs[j]
  <2> HIDE DEF q
  <2>1. q \in Seq(RecordRec) /\ Len(q) = Len(rs) + 1 /\ q[Len(rs) + 1] = r
        /\ \A j \in 1..(Len(rs) + 1 - 1) : q[j] = rs[j]
    <3> DEFINE i == Len(rs) + 1
    <3>1. i \in Nat /\ i >= 1 /\ i = Len(rs) + 1 /\ q = Put(rs, i, r)
      BY <1>1 DEF q
    <3> HIDE DEF i
    <3>2. q \in Seq(RecordRec) /\ Len(q) = i
      BY <3>1, PutProperties
    <3>3. q[i] = r
      BY <3>1, PutProperties
    <3>4. \A j \in 1..(i - 1) : q[j] = rs[j]
      BY <3>1, PutProperties
    <3> QED BY <3>1, <3>2, <3>3, <3>4
  <2> QED BY <1>1, <2>1
<1>3. Append(rs, r) \in Seq(RecordRec) /\ Len(Append(rs, r)) = Len(rs) + 1
      /\ Append(rs, r)[Len(rs) + 1] = r
      /\ \A j \in 1..Len(rs) : Append(rs, r)[j] = rs[j]
  BY <1>1, AppendProperties
<1> HIDE DEF q
<1>4. \A j \in 1..Len(q) : q[j] = Append(rs, r)[j]
  BY <1>1, <1>2, <1>3
<1> QED BY <1>2, <1>3, <1>4, SeqEqual DEF q

\* Chain, chain value and events up to n depend on the first n records only.
LEMMA SameUpTo ==
  ASSUME NEW rs, NEW qs, NEW n \in Nat, \A j \in 1..n : rs[j] = qs[j]
  PROVE  /\ Linked(rs, n) <=> Linked(qs, n)
         /\ audit_hash_at(rs, n) = audit_hash_at(qs, n)
         /\ EventsTo(rs, n) = EventsTo(qs, n)
<1>1. \A i \in 1..n : PrevHash(rs, i) = PrevHash(qs, i)
  BY DEF PrevHash
<1>2. Linked(rs, n) <=> Linked(qs, n)
  BY <1>1 DEF Linked
<1>3. audit_hash_at(rs, n) = audit_hash_at(qs, n)
  BY DEF audit_hash_at
<1>4. EventsTo(rs, n) = EventsTo(qs, n)
  BY DEF EventsTo
<1> QED BY <1>2, <1>3, <1>4

\* A chain is a chain up to any of its records.
LEMMA LinkedPrefix ==
  ASSUME NEW rs, NEW n \in Nat, NEW m \in Nat, m <= n, Linked(rs, n)
  PROVE  Linked(rs, m)
BY DEF Linked

\* One more record that follows from the chain value so far extends the chain.
LEMMA LinkedExtend ==
  ASSUME NEW rs, NEW n \in Nat, Linked(rs, n), rs[n + 1].seq = n,
         rs[n + 1].hash = chain_step(audit_hash_at(rs, n), rs[n + 1].event)
  PROVE  Linked(rs, n + 1)
<1>1. PrevHash(rs, n + 1) = audit_hash_at(rs, n)
  BY DEF PrevHash, audit_hash_at
<1> QED BY <1>1 DEF Linked

\* audit_verify_file is the length, the chain and the head.
LEMMA VerifyIs ==
  ASSUME NEW rs, NEW h
  PROVE  audit_verify_file(rs, h) <=> /\ LengthFits(rs, h) /\ Linked(rs, Len(rs))
                                      /\ h.head = audit_hash_at(rs, Len(rs))
BY DEF audit_verify_file, Linked, audit_hash_at

\* The events up to n + 1 are the events up to n and one more.
LEMMA EventsExtend ==
  ASSUME NEW rs \in Seq(RecordRec), NEW n \in Nat, n + 1 <= Len(rs)
  PROVE  /\ EventsTo(rs, n) \in Seq(Events)
         /\ EventsTo(rs, n + 1) = Append(EventsTo(rs, n), rs[n + 1].event)
<1>1. \A j \in 1..(n + 1) : rs[j].event \in Events
  <2> TAKE j \in 1..(n + 1)
  <2>1. j \in 1..Len(rs)
    BY LenProperties
  <2>2. rs[j] \in RecordRec
    BY <2>1, ElementOfSeq
  <2> QED BY <2>2 DEF RecordRec
<1>2. EventsTo(rs, n) \in [1..n -> Events]
  BY <1>1 DEF EventsTo
<1>3. EventsTo(rs, n) \in Seq(Events) /\ Len(EventsTo(rs, n)) = n
  BY <1>2
<1>4. EventsTo(rs, n + 1) \in [1..(n + 1) -> Events]
  BY <1>1 DEF EventsTo
<1>5. EventsTo(rs, n + 1) \in Seq(Events) /\ Len(EventsTo(rs, n + 1)) = n + 1
  BY <1>4
<1>6. rs[n + 1].event \in Events
  BY <1>1
<1> DEFINE a == Append(EventsTo(rs, n), rs[n + 1].event)
<1>7. a \in Seq(Events) /\ Len(a) = n + 1 /\ a[n + 1] = rs[n + 1].event
      /\ \A j \in 1..n : a[j] = EventsTo(rs, n)[j]
  BY <1>3, <1>6, AppendProperties
<1>8. \A j \in 1..(n + 1) : a[j] = EventsTo(rs, n + 1)[j]
  <2>1. \A j \in 1..n : EventsTo(rs, n)[j] = rs[j].event
    BY DEF EventsTo
  <2>2. \A j \in 1..(n + 1) : EventsTo(rs, n + 1)[j] = rs[j].event
    BY DEF EventsTo
  <2> HIDE DEF a
  <2> QED BY <1>7, <2>1, <2>2
<1> HIDE DEF a
<1>9. a = EventsTo(rs, n + 1)
  BY <1>5, <1>7, <1>8, SeqEqual
<1> QED BY <1>3, <1>9 DEF a

\* A file that keeps all but its last record from one whose chain values are the
\* events has chain values that are the events, whatever the last record says.
LEMMA HistoryExtend ==
  ASSUME NEW rs \in Seq(RecordRec), NEW qs \in Seq(RecordRec), HistoryIn(rs),
         Len(qs) >= 1, Len(qs) - 1 <= Len(rs),
         \A j \in 1..(Len(qs) - 1) : qs[j] = rs[j]
  PROVE  HistoryIn(qs)
<1> DEFINE n == Len(qs) - 1
<1>1. n \in Nat /\ Len(rs) \in Nat /\ Len(qs) = n + 1
  BY LenProperties
<1> HIDE DEF n
<1>2. ASSUME NEW m \in 0..n, Linked(qs, m)
      PROVE  audit_hash_at(qs, m) = EventsTo(qs, m)
  <2>1. m \in Nat /\ m \in 0..Len(rs) /\ \A j \in 1..m : qs[j] = rs[j]
    BY <1>1 DEF n
  <2>2. Linked(rs, m) /\ audit_hash_at(qs, m) = audit_hash_at(rs, m)
        /\ EventsTo(qs, m) = EventsTo(rs, m)
    BY <2>1, <1>2, SameUpTo
  <2> QED BY <2>1, <2>2 DEF HistoryIn
<1>3. ASSUME Linked(qs, n + 1)
      PROVE  audit_hash_at(qs, n + 1) = EventsTo(qs, n + 1)
  <2>1. Linked(qs, n)
    BY <1>1, <1>3, LinkedPrefix
  <2>2. audit_hash_at(qs, n) = EventsTo(qs, n)
    BY <1>1, <1>2, <2>1
  <2>3. qs[n + 1].hash = Append(PrevHash(qs, n + 1), qs[n + 1].event)
    BY <1>1, <1>3 DEF Linked, chain_step
  <2>4. PrevHash(qs, n + 1) = audit_hash_at(qs, n)
    BY <1>1 DEF PrevHash, audit_hash_at
  <2>5. EventsTo(qs, n + 1) = Append(EventsTo(qs, n), qs[n + 1].event)
    BY <1>1, EventsExtend
  <2>6. audit_hash_at(qs, n + 1) = qs[n + 1].hash
    BY <1>1 DEF audit_hash_at
  <2> QED BY <2>2, <2>3, <2>4, <2>5, <2>6
<1> QED BY <1>1, <1>2, <1>3 DEF HistoryIn
-----------------------------------------------------------------------------
(* The invariant and the steps.                                             *)

\* What the steps use of the types.
LEMMA TypeFacts ==
  ASSUME TypeOK
  PROVE  /\ recs \in Seq(RecordRec) /\ oldRecs \in Seq(RecordRec)
         /\ Len(recs) \in Nat /\ Len(oldRecs) \in Nat
         /\ hdr.count \in Nat /\ oldHdr.count \in Nat /\ log.count \in Nat
         /\ log.head \in Seq(Events) /\ rec \in RecordRec /\ rec.hash \in Seq(Events)
         /\ rec.event \in Events
         /\ \A a \in acked : a[1] \in Nat
         /\ \A a \in anchors : a.count \in Nat /\ a.head \in Seq(Events)
         /\ reading.head \in Seq(Events)
         /\ \A x \in Signed : Len(x) \in Nat
<1>1. recs \in Seq(RecordRec) /\ oldRecs \in Seq(RecordRec)
  BY DEF TypeOK
<1>2. Len(recs) \in Nat /\ Len(oldRecs) \in Nat
  BY <1>1, LenProperties
<1>3. hdr.count \in Nat /\ oldHdr.count \in Nat /\ log.count \in Nat
      /\ log.head \in Seq(Events)
  BY DEF TypeOK
<1>4. rec \in RecordRec /\ rec.hash \in Seq(Events) /\ rec.event \in Events
  BY DEF TypeOK, RecordRec
<1>5. \A a \in acked : a[1] \in Nat
  BY DEF TypeOK
<1>6. \A a \in anchors : a.count \in Nat /\ a.head \in Seq(Events)
  BY DEF TypeOK
<1>7. reading.head \in Seq(Events)
  BY DEF TypeOK
<1>8. \A x \in Signed : Len(x) \in Nat
  <2>1. \A x \in Signed : x \in Seq(Events)
    BY <1>6, <1>7 DEF Signed
  <2> QED BY <2>1, LenProperties
<1> QED BY <1>1, <1>2, <1>3, <1>4, <1>5, <1>6, <1>7, <1>8

\* create_genesis: no record, the genesis header.
LEMMA InitAInv == Init => AInv
<1> SUFFICES ASSUME Init PROVE AInv
  OBVIOUS
<1>0. Len(recs) = 0 /\ Len(oldRecs) = 0
  BY DEF Init
<1>1. TypeOK
  <2>1. recs \in Seq(RecordRec) /\ oldRecs \in Seq(RecordRec)
    BY DEF Init
  <2>2. {hdr, oldHdr} \subseteq [count : Nat, head : Seq(Events)]
    BY DEF Init, Genesis
  <2>3. log \in [open : BOOLEAN, count : Nat, head : Seq(Events)]
    BY DEF Init, Closed
  <2>4. rec \in RecordRec /\ pc = "idle" /\ acked = {} /\ anchors = {}
    BY JunkType DEF Init
  <2>5. failed \in BOOLEAN /\ rewritten \in BOOLEAN
    BY DEF Init
  <2>6. reading \in [on : BOOLEAN, head : Seq(Events)]
    BY DEF Init, NoRead
  <2> QED BY <2>1, <2>2, <2>3, <2>4, <2>5, <2>6 DEF TypeOK
<1>2. LogOK
  BY DEF Init, LogOK, Closed
<1>3. AckedOK
  BY DEF Init, AckedOK, AckedIn
<1>4. HistoryOK
  <2>1. audit_hash_at(recs, 0) = EventsTo(recs, 0)
    BY DEF audit_hash_at, EventsTo
  <2> QED BY <1>0, <2>1 DEF Init, HistoryOK, HistoryIn
<1>5. DiskOK
  BY <1>0 DEF Init, DiskOK, Closed, Genesis, audit_verify_file
<1>6. AnchorsOK
  BY DEF Init, AnchorsOK, AnchoredIn, Signed, Whole, NoRead
<1> QED BY <1>1, <1>2, <1>3, <1>4, <1>5, <1>6 DEF AInv

\* audit_open believes the header; a length that fits it means the chain verifies.
LEMMA OpenKeeps == ASSUME AInv, audit_open PROVE AInv'
<1>0. Len(recs) = hdr.count
  BY DEF audit_open, LengthFits
<1>1. TypeOK'
  <2>1. log' \in [open : BOOLEAN, count : Nat, head : Seq(Events)]
    BY DEF AInv, TypeOK, audit_open
  <2> QED BY <2>1 DEF AInv, TypeOK, audit_open
<1>2. LogOK'
  BY <1>0 DEF AInv, LogOK, audit_open
<1>3. AckedOK'
  BY DEF AInv, AckedOK, AckedIn, audit_open
<1>4. HistoryOK'
  BY DEF AInv, HistoryOK, audit_open
<1>5. DiskOK'
  <2> SUFFICES ASSUME ~failed PROVE DiskOK'
    BY DEF DiskOK, audit_open
  <2>1. pc = "idle" /\ oldRecs = recs /\ hdr = oldHdr
    BY DEF AInv, LogOK, DiskOK, audit_open
  <2>2. Linked(recs, Len(recs)) /\ hdr.head = audit_hash_at(recs, Len(recs))
    BY VerifyIs DEF AInv, DiskOK, audit_open
  <2>3. hdr = [count |-> hdr.count, head |-> hdr.head]
    BY DEF AInv, TypeOK
  <2> QED BY <1>0, <2>1, <2>2, <2>3 DEF DiskOK, audit_open
<1>6. AnchorsOK'
  BY DEF AInv, AnchorsOK, AnchoredIn, Signed, audit_open
<1> QED BY <1>1, <1>2, <1>3, <1>4, <1>5, <1>6 DEF AInv

\* The file stays as memory and the headers describe it.
LEMMA CloseKeeps == ASSUME AInv, audit_close PROVE AInv'
<1>1. TypeOK'
  <2>1. log' \in [open : BOOLEAN, count : Nat, head : Seq(Events)]
    BY DEF audit_close, Closed
  <2> QED BY <2>1 DEF AInv, TypeOK, audit_close
<1>2. LogOK'
  BY DEF AInv, LogOK, audit_close, Closed
<1>3. AckedOK'
  BY DEF AInv, AckedOK, AckedIn, audit_close, Closed
<1>4. HistoryOK'
  BY DEF AInv, HistoryOK, audit_close
<1>5. DiskOK'
  <2> SUFFICES ASSUME ~failed PROVE DiskOK'
    BY DEF DiskOK, audit_close
  <2>1. /\ oldRecs = recs /\ hdr = oldHdr /\ Len(recs) = log.count
        /\ Linked(recs, Len(recs)) /\ log.head = audit_hash_at(recs, log.count)
        /\ oldHdr = [count |-> log.count, head |-> log.head]
    BY DEF AInv, DiskOK, audit_close
  <2>2. LengthFits(recs, hdr) => audit_verify_file(recs, hdr)
    BY <2>1, VerifyIs
  <2>3. (LengthFits(recs, hdr) => audit_verify_file(recs, hdr))'
    BY <2>2 DEF audit_close
  <2> QED BY <2>1, <2>3 DEF DiskOK, audit_close, Closed
<1>6. AnchorsOK'
  BY DEF AInv, AnchorsOK, AnchoredIn, Signed, audit_close
<1> QED BY <1>1, <1>2, <1>3, <1>4, <1>5, <1>6 DEF AInv

\* The record goes behind the ones in memory: at the end of the file, or over what a
\* failed append left there.
LEMMA AppendKeeps == ASSUME AInv, NEW e \in Events, AppendRecord(e) PROVE AInv'
<1> DEFINE n == log.count
           r == [seq |-> n, event |-> e, hash |-> chain_step(log.head, e)]
<1>0. /\ TypeOK /\ LogOK /\ log.open /\ pc = "idle"
      /\ recs \in Seq(RecordRec) /\ n \in Nat /\ Len(recs) \in {n, n + 1}
  <2>1. TypeOK /\ LogOK /\ log.open /\ pc = "idle"
    BY DEF AInv, AppendRecord
  <2> QED BY <2>1, TypeFacts DEF LogOK
<1>1. r \in RecordRec
  <2>1. chain_step(log.head, e) \in Seq(Events)
    BY <1>0, TypeFacts, AppendProperties DEF chain_step
  <2> QED BY <1>0, <2>1 DEF RecordRec
<1>2. rec' = r /\ recs' = Put(recs, n + 1, r) /\ pc' = "fsync_record"
      /\ UNCHANGED <<hdr, oldRecs, oldHdr, log, acked, anchors, reading, failed, rewritten>>
  BY DEF AppendRecord
<1>3. r.seq = n /\ r.event = e /\ r.hash = chain_step(log.head, r.event)
  OBVIOUS
<1> HIDE DEF r
<1>4. /\ recs' \in Seq(RecordRec) /\ Len(recs') = n + 1 /\ recs'[n + 1] = r
      /\ \A j \in 1..n : recs'[j] = recs[j]
  <2> DEFINE i == n + 1
  <2>1. i \in Nat /\ i >= 1 /\ (i = Len(recs) \/ i = Len(recs) + 1) /\ i - 1 = n
    BY <1>0
  <2>2. recs \in Seq(RecordRec) /\ recs' = Put(recs, i, r)
    BY <1>0, <1>2
  <2> HIDE DEF i, n
  <2>3. Put(recs, i, r) \in Seq(RecordRec) /\ Len(Put(recs, i, r)) = i
    BY <1>1, <2>1, <2>2, PutProperties
  <2>4. Put(recs, i, r)[i] = r
    BY <1>1, <2>1, <2>2, PutProperties
  <2>5. \A j \in 1..(i - 1) : Put(recs, i, r)[j] = recs[j]
    BY <1>1, <2>1, <2>2, PutProperties
  <2> QED BY <2>1, <2>2, <2>3, <2>4, <2>5 DEF i
<1>5. TypeOK'
  <2>1. recs' \in Seq(RecordRec) /\ rec' \in RecordRec
    BY <1>1, <1>2, <1>4
  <2> QED BY <1>0, <1>2, <2>1 DEF TypeOK
<1>6. LogOK'
  BY <1>0, <1>2, <1>3, <1>4 DEF LogOK
<1>7. AckedOK'
  <2> SUFFICES ASSUME ~rewritten PROVE AckedOK'
    BY <1>2 DEF AckedOK
  <2>1. \A a \in acked : a[1] <= n /\ a[1] \in 1..Len(recs) /\ recs[a[1]].event = a[2]
    BY <1>0 DEF AInv, AckedOK, AckedIn
  <2>2. \A a \in acked : a[1] \in 1..Len(recs') /\ recs'[a[1]].event = a[2]
    BY <1>0, <1>4, <2>1
  <2> QED BY <1>0, <1>2, <2>2 DEF AInv, AckedOK, AckedIn
<1>8. HistoryOK'
  <2>1. HistoryIn(recs) /\ HistoryIn(oldRecs)
    BY DEF AInv, HistoryOK
  <2>2. Len(recs') >= 1 /\ Len(recs') - 1 <= Len(recs)
        /\ \A j \in 1..(Len(recs') - 1) : recs'[j] = recs[j]
    BY <1>0, <1>4
  <2>3. HistoryIn(recs')
    BY <1>0, <1>4, <2>1, <2>2, HistoryExtend
  <2> QED BY <1>2, <2>1, <2>3 DEF HistoryOK
<1>9. DiskOK'
  <2> SUFFICES ASSUME ~failed PROVE DiskOK'
    BY <1>2 DEF DiskOK
  <2>1. /\ oldRecs = recs /\ Linked(recs, Len(recs)) /\ log.head = audit_hash_at(recs, n)
        /\ oldHdr = [count |-> n, head |-> log.head] /\ hdr = oldHdr /\ Len(recs) = n
    BY <1>0 DEF AInv, DiskOK
  <2>2. recs' = Append(oldRecs, r)
    BY <1>0, <1>1, <1>2, <2>1, PutAtEnd
  <2>3. Linked(recs', n) /\ audit_hash_at(recs', n) = audit_hash_at(recs, n)
    BY <1>0, <1>4, <2>1, SameUpTo
  <2>4. Linked(recs', n + 1)
    BY <1>0, <1>3, <1>4, <2>1, <2>3, LinkedExtend
  <2> QED BY <1>0, <1>2, <1>4, <2>1, <2>2, <2>3, <2>4 DEF DiskOK
<1>10. AnchorsOK'
  <2> SUFFICES ASSUME ~failed, ~rewritten PROVE AnchorsOK'
    BY <1>2 DEF AnchorsOK
  <2>1. Len(recs) = n /\ AnchoredIn(recs) /\ AnchoredIn(oldRecs)
    BY <1>0 DEF AInv, DiskOK, AnchorsOK
  <2>2. ASSUME NEW x \in Signed
        PROVE  Len(x) <= Len(recs') /\ audit_hash_at(recs', Len(x)) = x
    <3>1. Len(x) \in Nat /\ Len(x) <= n /\ audit_hash_at(recs, Len(x)) = x
      BY <1>0, <2>1, TypeFacts DEF AnchoredIn
    <3>2. \A j \in 1..Len(x) : recs'[j] = recs[j]
      <4>1. n \in Nat
        BY <1>0
      <4>2. \A j \in 1..n : recs'[j] = recs[j]
        BY <1>4
      <4> HIDE DEF n
      <4> QED BY <3>1, <4>1, <4>2
    <3>3. audit_hash_at(recs', Len(x)) = audit_hash_at(recs, Len(x))
      BY <3>1, <3>2, SameUpTo
    <3> QED BY <1>0, <1>4, <3>1, <3>3
  <2>3. Signed' = Signed
    BY <1>2 DEF Signed
  <2> QED BY <1>2, <2>1, <2>2, <2>3 DEF AnchorsOK, AnchoredIn
<1> QED BY <1>5, <1>6, <1>7, <1>8, <1>9, <1>10 DEF AInv

\* The first fsync: the record is there to stay.
LEMMA FsyncRecordKeeps == ASSUME AInv, FsyncRecord PROVE AInv'
<1>1. TypeOK'
  BY DEF AInv, TypeOK, FsyncRecord
<1>2. LogOK'
  BY DEF AInv, LogOK, FsyncRecord
<1>3. AckedOK'
  BY DEF AInv, AckedOK, AckedIn, FsyncRecord
<1>4. HistoryOK'
  BY DEF AInv, HistoryOK, FsyncRecord
<1>5. DiskOK'
  BY DEF AInv, LogOK, DiskOK, FsyncRecord
<1>6. AnchorsOK'
  BY DEF AInv, AnchorsOK, AnchoredIn, Signed, FsyncRecord
<1> QED BY <1>1, <1>2, <1>3, <1>4, <1>5, <1>6 DEF AInv

\* The header counts the record that is already durable.
LEMMA WriteHeaderKeeps == ASSUME AInv, WriteHeader PROVE AInv'
<1>1. TypeOK'
  <2>1. hdr' \in [count : Nat, head : Seq(Events)]
    BY TypeFacts DEF AInv, WriteHeader
  <2> QED BY <2>1 DEF AInv, TypeOK, WriteHeader
<1>2. LogOK'
  BY DEF AInv, LogOK, WriteHeader
<1>3. AckedOK'
  <2> SUFFICES ASSUME ~rewritten PROVE AckedOK'
    BY DEF AckedOK, WriteHeader
  <2>1. log.open /\ log.count \in Nat /\ \A a \in acked : a[1] \in Nat
    BY TypeFacts DEF AInv, LogOK, WriteHeader
  <2>2. \A a \in acked : a[1] <= hdr'.count
    BY <2>1 DEF AInv, AckedOK, WriteHeader
  <2> QED BY <2>2 DEF AInv, AckedOK, AckedIn, WriteHeader
<1>4. HistoryOK'
  BY DEF AInv, HistoryOK, WriteHeader
<1>5. DiskOK'
  BY DEF AInv, LogOK, DiskOK, WriteHeader
<1>6. AnchorsOK'
  BY DEF AInv, AnchorsOK, AnchoredIn, Signed, WriteHeader
<1> QED BY <1>1, <1>2, <1>3, <1>4, <1>5, <1>6 DEF AInv

\* The second fsync, and the append returns 0: memory catches up with the file.
LEMMA FsyncHeaderKeeps == ASSUME AInv, FsyncHeader PROVE AInv'
<1>0. /\ TypeOK /\ log.open /\ log.count \in Nat /\ Len(recs) = log.count + 1
      /\ recs[log.count + 1] = rec /\ rec.event \in Events /\ rec.hash \in Seq(Events)
      /\ hdr = [count |-> log.count + 1, head |-> rec.hash] /\ oldRecs = recs
  BY TypeFacts DEF AInv, LogOK, FsyncHeader
<1>1. log' = [open |-> TRUE, count |-> log.count + 1, head |-> rec.hash]
  BY <1>0 DEF TypeOK, FsyncHeader
<1>2. TypeOK'
  <2>1. log' \in [open : BOOLEAN, count : Nat, head : Seq(Events)]
    BY <1>0, <1>1
  <2>2. acked' \subseteq Nat \X Events
    BY <1>0 DEF TypeOK, FsyncHeader
  <2>3. rec' \in RecordRec
    BY JunkType DEF FsyncHeader
  <2> QED BY <1>0, <2>1, <2>2, <2>3 DEF TypeOK, FsyncHeader
<1>3. LogOK'
  BY <1>0, <1>1 DEF LogOK, FsyncHeader
<1>4. AckedOK'
  <2> SUFFICES ASSUME ~rewritten PROVE AckedOK'
    BY DEF AckedOK, FsyncHeader
  <2>1. \A a \in acked : a[1] \in 1..Len(recs) /\ a[1] <= log.count + 1
                         /\ recs[a[1]].event = a[2]
    BY <1>0, TypeFacts DEF AInv, AckedOK, AckedIn
  <2>2. \A a \in acked' : a[1] \in 1..Len(recs) /\ a[1] <= log.count + 1
                          /\ recs[a[1]].event = a[2]
    BY <1>0, <2>1 DEF FsyncHeader
  <2>3. recs' = recs /\ oldRecs' = recs /\ hdr' = hdr /\ oldHdr' = hdr /\ hdr.count = log.count + 1
    BY <1>0 DEF FsyncHeader
  <2> QED BY <1>1, <2>2, <2>3 DEF AckedOK, AckedIn
<1>5. HistoryOK'
  BY <1>0 DEF AInv, HistoryOK, FsyncHeader
<1>6. DiskOK'
  <2>1. audit_hash_at(recs, log.count + 1) = rec.hash
    BY <1>0 DEF audit_hash_at
  <2> QED BY <1>0, <1>1, <2>1 DEF AInv, DiskOK, FsyncHeader
<1>7. AnchorsOK'
  BY DEF AInv, AnchorsOK, AnchoredIn, Signed, FsyncHeader
<1> QED BY <1>2, <1>3, <1>4, <1>5, <1>6, <1>7 DEF AInv

\* A failing write or fsync leaves the record, and perhaps the header, one ahead of
\* memory.
LEMMA FailKeeps == ASSUME AInv, AppendFails PROVE AInv'
<1>1. TypeOK'
  BY JunkType DEF AInv, TypeOK, AppendFails
<1>2. LogOK'
  BY DEF AInv, LogOK, AppendFails
<1>3. AckedOK'
  BY DEF AInv, AckedOK, AckedIn, AppendFails
<1>4. HistoryOK'
  BY DEF AInv, HistoryOK, AppendFails
<1>5. DiskOK' /\ AnchorsOK'
  BY DEF DiskOK, AnchorsOK, AppendFails
<1> QED BY <1>1, <1>2, <1>3, <1>4, <1>5 DEF AInv

\* The head an anchor reads is the chain value of the records memory counts, and they
\* are durable, wherever an append is.
LEMMA AnchorHeadKeeps == ASSUME AInv, anchor_head PROVE AInv'
<1>0. /\ TypeOK /\ log.open /\ reading' = [on |-> TRUE, head |-> log.head]
      /\ UNCHANGED <<recs, hdr, oldRecs, oldHdr, log, pc, rec, acked, anchors, failed,
                     rewritten>>
  BY DEF AInv, anchor_head
<1>1. TypeOK'
  <2>1. reading' \in [on : BOOLEAN, head : Seq(Events)]
    BY <1>0, TypeFacts
  <2> QED BY <1>0, <2>1 DEF TypeOK
<1>2. LogOK'
  BY <1>0 DEF AInv, LogOK
<1>3. AckedOK'
  BY <1>0 DEF AInv, AckedOK, AckedIn
<1>4. HistoryOK'
  BY <1>0 DEF AInv, HistoryOK
<1>5. DiskOK'
  BY <1>0 DEF AInv, DiskOK
<1>6. AnchorsOK'
  <2> SUFFICES ASSUME ~failed, ~rewritten PROVE AnchorsOK'
    BY <1>0 DEF AnchorsOK
  <2> DEFINE n == log.count
  <2>1. /\ n \in Nat /\ recs \in Seq(RecordRec) /\ oldRecs \in Seq(RecordRec)
        /\ Len(recs) \in Nat /\ Len(oldRecs) \in Nat /\ rec \in RecordRec
    BY <1>0, TypeFacts
  <2>2. /\ Len(recs) \in {n, n + 1}
        /\ Linked(recs, Len(recs)) /\ log.head = audit_hash_at(recs, n)
    BY <1>0 DEF AInv, LogOK, DiskOK
  <2>3. n <= Len(oldRecs) /\ \A j \in 1..n : oldRecs[j] = recs[j]
    <3>1. CASE pc = "fsync_record"
      <4>1. Len(recs) = n + 1 /\ recs = Append(oldRecs, rec)
        BY <3>1 DEF AInv, LogOK, DiskOK
      <4>2. Len(recs) = Len(oldRecs) + 1 /\ \A j \in 1..Len(oldRecs) : oldRecs[j] = recs[j]
        BY <2>1, <4>1, AppendProperties
      <4>3. Len(oldRecs) = n
        <5>1. Len(recs) = n + 1
          BY <4>1
        <5>2. Len(recs) = Len(oldRecs) + 1
          BY <4>2
        <5>3. n \in Nat /\ Len(oldRecs) \in Nat
          BY <2>1
        <5> HIDE DEF n
        <5> QED BY <5>1, <5>2, <5>3
      <4> QED BY <2>1, <4>2, <4>3
    <3>2. CASE pc # "fsync_record"
      <4>1. oldRecs = recs
        BY <3>2 DEF AInv, DiskOK
      <4> QED BY <2>1, <2>2, <4>1
    <3> QED BY <3>1, <3>2
  <2> HIDE DEF n
  <2>4. n \in 0..Len(recs) /\ Linked(recs, n)
    BY <2>1, <2>2, LinkedPrefix
  <2>5. log.head = EventsTo(recs, n)
    BY <2>2, <2>4 DEF AInv, HistoryOK, HistoryIn
  <2>6. Len(log.head) = n
    BY <2>1, <2>5 DEF EventsTo
  <2>7. audit_hash_at(oldRecs, n) = audit_hash_at(recs, n)
    BY <2>1, <2>3, SameUpTo
  <2>8. Signed' \subseteq Signed \cup {log.head}
    BY <1>0 DEF Signed
  <2>9. AnchoredIn(recs) /\ AnchoredIn(oldRecs)
    BY DEF AInv, AnchorsOK
  <2>10. \A x \in Signed' : /\ Len(x) <= Len(recs) /\ audit_hash_at(recs, Len(x)) = x
                           /\ Len(x) <= Len(oldRecs) /\ audit_hash_at(oldRecs, Len(x)) = x
    <3> TAKE x \in Signed'
    <3>1. CASE x \in Signed
      BY <2>9, <3>1 DEF AnchoredIn
    <3>2. CASE x = log.head
      BY <2>1, <2>2, <2>3, <2>4, <2>6, <2>7, <3>2
    <3> QED BY <2>8, <3>1, <3>2
  <2> QED BY <1>0, <2>10 DEF AnchorsOK, AnchoredIn
<1> QED BY <1>1, <1>2, <1>3, <1>4, <1>5, <1>6 DEF AInv

\* Whatever the count is by then, an anchor signs no chain value but the one it read.
LEMMA AnchorCreateKeeps == ASSUME AInv, anchor_create PROVE AInv'
<1>0. /\ reading.on /\ reading' = NoRead
      /\ anchors' = anchors \cup {[count |-> log.count, head |-> reading.head]}
      /\ UNCHANGED <<recs, hdr, oldRecs, oldHdr, log, pc, rec, acked, failed, rewritten>>
  BY DEF anchor_create
<1>1. TypeOK'
  <2>1. anchors' \subseteq [count : Nat, head : Seq(Events)]
    BY <1>0, TypeFacts DEF AInv, TypeOK
  <2>2. reading' \in [on : BOOLEAN, head : Seq(Events)]
    BY <1>0 DEF NoRead
  <2> QED BY <1>0, <2>1, <2>2 DEF AInv, TypeOK
<1>2. LogOK'
  BY <1>0 DEF AInv, LogOK
<1>3. AckedOK'
  BY <1>0 DEF AInv, AckedOK, AckedIn
<1>4. HistoryOK'
  BY <1>0 DEF AInv, HistoryOK
<1>5. DiskOK'
  BY <1>0 DEF AInv, DiskOK
<1>6. AnchorsOK'
  <2>1. Signed' \subseteq Signed
    BY <1>0 DEF Signed, NoRead, Whole
  <2> QED BY <1>0, <2>1 DEF AInv, AnchorsOK, AnchoredIn
<1> QED BY <1>1, <1>2, <1>3, <1>4, <1>5, <1>6 DEF AInv

\* A crash keeps the file, or what the last fsync left of it, or that and a torn record
\* the length check or the chain shows.
LEMMA CrashKeeps == ASSUME AInv, Crash PROVE AInv'
<1> DEFINE n == log.count
<1>0. /\ TypeOK /\ LogOK /\ log.open
      /\ recs \in Seq(RecordRec) /\ oldRecs \in Seq(RecordRec) /\ n \in Nat
      /\ Len(recs) \in Nat /\ Len(oldRecs) \in Nat
  BY TypeFacts DEF AInv, Crash
<1>1. log' = Closed /\ pc' = "idle" /\ rec' = Junk /\ reading' = NoRead
      /\ UNCHANGED <<acked, anchors, failed, rewritten>>
  BY DEF Crash
<1>2. PICK rs \in {recs, oldRecs} \cup TornRecords, h \in {hdr, oldHdr} :
        recs' = rs /\ oldRecs' = rs /\ hdr' = h /\ oldHdr' = h
  BY DEF Crash
<1> DEFINE torn == Append(oldRecs, Junk)
<1>3. /\ torn \in Seq(RecordRec) /\ Len(torn) = Len(oldRecs) + 1
      /\ torn[Len(oldRecs) + 1] = Junk
      /\ \A j \in 1..Len(oldRecs) : torn[j] = oldRecs[j]
  BY <1>0, JunkType, AppendProperties
<1>4. rs = recs \/ rs = oldRecs \/ rs = torn
  BY <1>2 DEF TornRecords
<1> HIDE DEF torn
<1>5. TypeOK'
  <2>1. rs \in Seq(RecordRec) /\ h \in [count : Nat, head : Seq(Events)]
    BY <1>0, <1>2, <1>3, <1>4 DEF TypeOK
  <2>2. Closed \in [open : BOOLEAN, count : Nat, head : Seq(Events)]
    BY DEF Closed
  <2>3. NoRead \in [on : BOOLEAN, head : Seq(Events)]
    BY DEF NoRead
  <2> QED BY <1>0, <1>1, <1>2, <2>1, <2>2, <2>3, JunkType DEF TypeOK
<1>6. LogOK'
  BY <1>1 DEF LogOK, Closed
<1>7. AckedOK'
  <2> SUFFICES ASSUME ~rewritten PROVE AckedOK'
    BY <1>1 DEF AckedOK
  <2>1. \A qs \in {recs, oldRecs}, g \in {hdr, oldHdr} : AckedIn(qs, g)
    BY DEF AInv, AckedOK
  <2>2. ASSUME NEW a \in acked
        PROVE  a[1] \in 1..Len(rs) /\ a[1] <= h.count /\ rs[a[1]].event = a[2]
    <3>1. CASE rs = torn
      <4>1. a[1] \in 1..Len(oldRecs) /\ a[1] <= h.count /\ oldRecs[a[1]].event = a[2]
        BY <1>2, <2>1 DEF AckedIn
      <4> QED BY <1>0, <1>3, <3>1, <4>1
    <3>2. CASE rs = recs \/ rs = oldRecs
      BY <1>2, <2>1, <3>2 DEF AckedIn
    <3> QED BY <1>4, <3>1, <3>2
  <2> QED BY <1>1, <1>2, <2>2 DEF AckedOK, AckedIn, Closed
<1>8. HistoryOK'
  <2>1. HistoryIn(recs) /\ HistoryIn(oldRecs)
    BY DEF AInv, HistoryOK
  <2>2. Len(torn) >= 1 /\ Len(torn) - 1 <= Len(oldRecs)
        /\ \A j \in 1..(Len(torn) - 1) : torn[j] = oldRecs[j]
    BY <1>0, <1>3
  <2>3. HistoryIn(torn)
    BY <1>0, <1>3, <2>1, <2>2, HistoryExtend
  <2> QED BY <1>2, <1>4, <2>1, <2>3 DEF HistoryOK
<1>9. DiskOK'
  <2> SUFFICES ASSUME ~failed, LengthFits(rs, h)
               PROVE  Linked(rs, Len(rs)) /\ h.head = audit_hash_at(rs, Len(rs))
    BY <1>1, <1>2, VerifyIs DEF DiskOK, Closed
  <2>1. /\ Linked(recs, Len(recs)) /\ log.head = audit_hash_at(recs, n)
        /\ oldHdr = [count |-> n, head |-> log.head]
        /\ pc # "fsync_header" => hdr = oldHdr
    BY <1>0 DEF AInv, DiskOK
  <2>2. Len(rs) = h.count /\ (Len(rs) > 0 => rs[Len(rs)].seq # -1)
    BY DEF LengthFits
  <2>3. rs # torn
    BY <1>0, <1>3, <2>2, JunkType
  <2>4. CASE rs = recs
    <3>1. CASE h = oldHdr
      BY <2>1, <2>2, <2>4, <3>1
    <3>2. CASE h # oldHdr
      <4>1. h = hdr /\ pc = "fsync_header"
        BY <1>2, <2>1, <3>2
      <4>2. /\ h.count = n + 1 /\ h.head = rec.hash /\ recs[n + 1] = rec
        BY <1>0, <4>1 DEF LogOK
      <4>3. audit_hash_at(recs, n + 1) = rec.hash
        BY <1>0, <4>2 DEF audit_hash_at
      <4> QED BY <2>1, <2>2, <2>4, <4>2, <4>3
    <3> QED BY <3>1, <3>2
  <2>5. CASE rs = oldRecs /\ rs # recs
    <3>1. pc = "fsync_record" /\ recs = Append(oldRecs, rec) /\ rec \in RecordRec
          /\ Len(recs) = n + 1
      BY <1>0, <2>5, TypeFacts DEF AInv, DiskOK, LogOK
    <3>2. Len(recs) = Len(oldRecs) + 1 /\ \A j \in 1..Len(oldRecs) : oldRecs[j] = recs[j]
      BY <1>0, <3>1, AppendProperties
    <3>3. Len(oldRecs) = n
      <4>1. Len(recs) = n + 1 /\ Len(recs) = Len(oldRecs) + 1 /\ n \in Nat
            /\ Len(oldRecs) \in Nat
        <5>1. Len(recs) = n + 1
          BY <3>1
        <5>2. Len(recs) = Len(oldRecs) + 1
          BY <3>2
        <5> QED BY <1>0, <5>1, <5>2
      <4> HIDE DEF n
      <4> QED BY <4>1
    <3>4. Linked(recs, n)
      BY <1>0, <2>1, <3>1, LinkedPrefix
    <3>5. Linked(oldRecs, n) /\ audit_hash_at(oldRecs, n) = audit_hash_at(recs, n)
      <4>1. n \in Nat /\ \A j \in 1..n : oldRecs[j] = recs[j]
        BY <1>0, <3>2, <3>3
      <4> HIDE DEF n
      <4> QED BY <3>4, <4>1, SameUpTo
    <3>6. h = oldHdr
      BY <1>2, <2>1, <3>1
    <3> QED BY <2>1, <2>5, <3>3, <3>5, <3>6
  <2> QED BY <1>4, <2>3, <2>4, <2>5
<1>10. AnchorsOK'
  <2>0. Signed' \subseteq Signed
    BY <1>1 DEF Signed, NoRead
  <2> SUFFICES ASSUME ~failed, ~rewritten, NEW x \in Signed
               PROVE  Len(x) <= Len(rs) /\ audit_hash_at(rs, Len(x)) = x
    BY <1>1, <1>2, <2>0 DEF AnchorsOK, AnchoredIn
  <2>1. /\ Len(x) \in Nat
        /\ Len(x) <= Len(recs) /\ audit_hash_at(recs, Len(x)) = x
        /\ Len(x) <= Len(oldRecs) /\ audit_hash_at(oldRecs, Len(x)) = x
    BY <1>0, TypeFacts DEF AInv, AnchorsOK, AnchoredIn
  <2>2. CASE rs = torn
    <3>1. \A j \in 1..Len(x) : torn[j] = oldRecs[j]
      BY <1>0, <1>3, <2>1
    <3>2. audit_hash_at(torn, Len(x)) = audit_hash_at(oldRecs, Len(x))
      BY <2>1, <3>1, SameUpTo
    <3> QED BY <1>0, <1>3, <2>1, <2>2, <3>2
  <2>3. CASE rs = recs \/ rs = oldRecs
    BY <2>1, <2>3
  <2> QED BY <1>4, <2>2, <2>3
<1> QED BY <1>5, <1>6, <1>7, <1>8, <1>9, <1>10 DEF AInv

\* A file computed from a sequence of events is a chain over it.
LEMMA ChainOfIsLinked ==
  ASSUME NEW es \in Seq(Events)
  PROVE  /\ ChainOf(es) \in Seq(RecordRec) /\ Len(ChainOf(es)) = Len(es)
         /\ Linked(ChainOf(es), Len(es))
         /\ \A m \in 0..Len(es) : /\ audit_hash_at(ChainOf(es), m) = SubSeq(es, 1, m)
                                  /\ EventsTo(ChainOf(es), m) = SubSeq(es, 1, m)
<1> DEFINE n == Len(es)
           c == ChainOf(es)
<1>0. n \in Nat /\ \A i \in 1..n : es[i] \in Events
  BY LenProperties, ElementOfSeq
<1>1. \A m \in 0..n : /\ SubSeq(es, 1, m) \in Seq(Events) /\ Len(SubSeq(es, 1, m)) = m
                      /\ \A i \in 1..m : SubSeq(es, 1, m)[i] = es[i]
  <2> TAKE m \in 0..n
  <2>1. m \in Int /\ 1 \in Int /\ \A i \in 1..m : es[i] \in Events
    BY <1>0
  <2>2. SubSeq(es, 1, m) \in Seq(Events)
    BY <2>1, SubSeqProperties
  <2>3. Len(SubSeq(es, 1, m)) = IF 1 <= m THEN m - 1 + 1 ELSE 0
    BY <2>1, SubSeqProperties
  <2>4. \A i \in 1..(m - 1 + 1) : SubSeq(es, 1, m)[i] = es[1 + i - 1]
    BY <2>1, SubSeqProperties
  <2>5. m \in Nat /\ m - 1 + 1 = m /\ \A i \in 1..m : 1 + i - 1 = i
    BY <1>0
  <2>6. Len(SubSeq(es, 1, m)) = m
    BY <2>3, <2>5
  <2>7. \A i \in 1..m : SubSeq(es, 1, m)[i] = es[i]
    BY <2>4, <2>5
  <2> QED BY <2>2, <2>6, <2>7
<1>2. \A i \in 1..n : c[i] = [seq |-> i - 1, event |-> es[i], hash |-> SubSeq(es, 1, i)]
  BY DEF ChainOf
<1>3. \A i \in 1..n : c[i] \in RecordRec
  <2> SUFFICES ASSUME NEW i \in 1..n PROVE c[i] \in RecordRec
    OBVIOUS
  <2>1. es[i] \in Events /\ i - 1 \in Int /\ i \in 0..n
    BY <1>0
  <2>2. SubSeq(es, 1, i) \in Seq(Events)
    BY <1>1, <2>1
  <2>3. c[i] = [seq |-> i - 1, event |-> es[i], hash |-> SubSeq(es, 1, i)]
    BY <1>2
  <2> HIDE DEF c
  <2> QED BY <2>1, <2>2, <2>3 DEF RecordRec
<1>4. c \in Seq(RecordRec) /\ Len(c) = n
  <2>1. c \in [1..n -> RecordRec]
    BY <1>3 DEF ChainOf
  <2> QED BY <1>0, <2>1
<1> HIDE DEF c
<1>5. \A m \in 0..n : audit_hash_at(c, m) = SubSeq(es, 1, m)
  <2> TAKE m \in 0..n
  <2>1. CASE m = 0
    <3>1. SubSeq(es, 1, 0) = <<>>
      BY SubSeqEmpty
    <3> QED BY <2>1, <3>1 DEF audit_hash_at
  <2>2. CASE m # 0
    <3>1. m \in 1..n
      BY <1>0, <2>2
    <3>2. c[m] = [seq |-> m - 1, event |-> es[m], hash |-> SubSeq(es, 1, m)]
      BY <1>2, <3>1
    <3> QED BY <2>2, <3>2 DEF audit_hash_at
  <2> QED BY <2>1, <2>2
<1>6. \A m \in 0..n : EventsTo(c, m) = SubSeq(es, 1, m)
  <2> TAKE m \in 0..n
  <2>1. \A i \in 1..m : c[i].event = es[i]
    <3> TAKE i \in 1..m
    <3>1. i \in 1..n
      BY <1>0
    <3>2. c[i] = [seq |-> i - 1, event |-> es[i], hash |-> SubSeq(es, 1, i)]
      BY <1>2, <3>1
    <3> QED BY <3>2
  <2>2. EventsTo(c, m) \in [1..m -> Events]
    BY <1>0, <2>1 DEF EventsTo
  <2>3. EventsTo(c, m) \in Seq(Events) /\ Len(EventsTo(c, m)) = m
    BY <1>0, <2>2
  <2>4. \A i \in 1..m : EventsTo(c, m)[i] = SubSeq(es, 1, m)[i]
    BY <1>0, <1>1, <2>1 DEF EventsTo
  <2> QED BY <1>0, <1>1, <2>3, <2>4, SeqEqual
<1>7. Linked(c, n)
  <2> SUFFICES ASSUME NEW i \in 1..n
               PROVE  /\ c[i].seq = i - 1
                      /\ c[i].hash = chain_step(PrevHash(c, i), c[i].event)
    BY DEF Linked
  <2>1. PrevHash(c, i) = audit_hash_at(c, i - 1)
    BY <1>0 DEF PrevHash, audit_hash_at
  <2>2. PrevHash(c, i) = SubSeq(es, 1, i - 1)
    BY <1>0, <1>5, <2>1
  <2>3. SubSeq(es, 1, i) = SubSeq(es, 1, i - 1) \o <<es[i]>>
    <3>1. 1 \in 1..Len(es) /\ i \in 1..Len(es)
      BY <1>0
    <3> QED BY <3>1, SubSeqRecursiveSecond
  <2>4. Append(SubSeq(es, 1, i - 1), es[i]) = SubSeq(es, 1, i - 1) \o <<es[i]>>
    <3>1. SubSeq(es, 1, i - 1) \in Seq(Events) /\ es[i] \in Events
      BY <1>0, <1>1
    <3> QED BY <3>1, AppendIsConcat
  <2>5. c[i] = [seq |-> i - 1, event |-> es[i], hash |-> SubSeq(es, 1, i)]
    BY <1>2
  <2>6. c[i].seq = i - 1 /\ c[i].event = es[i] /\ c[i].hash = SubSeq(es, 1, i)
    BY <2>5
  <2> QED BY <2>2, <2>3, <2>4, <2>6 DEF chain_step
<1> QED BY <1>4, <1>5, <1>6, <1>7 DEF c

\* Whoever replaces the file computes a chain that verifies.
LEMMA RewriteKeeps == ASSUME AInv, Rewrite PROVE AInv'
<1>1. PICK n \in 0..MaxRecords : \E es \in [1..n -> Events] :
        /\ recs' = ChainOf(es) /\ oldRecs' = recs'
        /\ hdr' = [count |-> n, head |-> es] /\ oldHdr' = hdr'
  BY DEF Rewrite
<1>2. PICK es \in [1..n -> Events] :
        /\ recs' = ChainOf(es) /\ oldRecs' = recs'
        /\ hdr' = [count |-> n, head |-> es] /\ oldHdr' = hdr'
  BY <1>1
<1>3. n \in Nat /\ es \in Seq(Events) /\ Len(es) = n
  BY AuditAssumption
<1>4. /\ recs' \in Seq(RecordRec) /\ Len(recs') = n /\ Linked(recs', n)
      /\ \A m \in 0..n : /\ audit_hash_at(recs', m) = SubSeq(es, 1, m)
                         /\ EventsTo(recs', m) = SubSeq(es, 1, m)
  BY <1>2, <1>3, ChainOfIsLinked
<1>5. TypeOK'
  <2>1. hdr' \in [count : Nat, head : Seq(Events)]
    BY <1>2, <1>3
  <2> QED BY <1>2, <1>4, <2>1 DEF AInv, TypeOK, Rewrite
<1>6. LogOK'
  BY DEF AInv, LogOK, Rewrite
<1>7. AckedOK' /\ AnchorsOK'
  BY DEF AckedOK, AnchorsOK, Rewrite
<1>8. HistoryOK'
  BY <1>2, <1>4 DEF HistoryOK, HistoryIn
<1>9. DiskOK'
  <2>1. audit_hash_at(recs', n) = es
    BY <1>3, <1>4, SubSeqFull
  <2>2. LengthFits(recs', hdr') => audit_verify_file(recs', hdr')
    BY <1>2, <1>4, <2>1, VerifyIs
  <2> QED BY <1>2, <2>2 DEF AInv, LogOK, DiskOK, Rewrite
<1> QED BY <1>5, <1>6, <1>7, <1>8, <1>9 DEF AInv

\* The invariant reads the variables only.
LEMMA StutterKeeps == ASSUME AInv, UNCHANGED vars PROVE AInv'
<1>1. TypeOK' /\ LogOK'
  BY DEF AInv, TypeOK, LogOK, vars
<1>2. AckedOK' /\ HistoryOK'
  BY DEF AInv, AckedOK, AckedIn, HistoryOK, vars
<1>3. DiskOK' /\ AnchorsOK'
  BY DEF AInv, DiskOK, AnchorsOK, AnchoredIn, Signed, vars
<1> QED BY <1>1, <1>2, <1>3 DEF AInv

\* Every step of the log, of the disk under it and of whoever replaces the file keeps
\* the invariant.
LEMMA AInvStep == AInv /\ [Next]_vars => AInv'
BY OpenKeeps, CloseKeeps, AppendKeeps, FsyncRecordKeeps, WriteHeaderKeeps,
   FsyncHeaderKeeps, FailKeeps, AnchorHeadKeeps, AnchorCreateKeeps, CrashKeeps,
   RewriteKeeps, StutterKeeps DEF Next

\* The inductive invariant holds in every reachable state.
LEMMA AInvHolds == Spec => []AInv
BY InitAInv, AInvStep, PTL DEF Spec
-----------------------------------------------------------------------------
(* What it says about the log.                                              *)

\* Header, memory, records, acknowledgements and anchors keep their types whatever a
\* crash, a failing write or a replaced file does to them.
THEOREM AuditTypes == Spec => []TypeOK
<1>1. AInv => TypeOK
  BY DEF AInv
<1> QED BY <1>1, AInvHolds, PTL

\* An event for which audit_append returned 0 stays at its place: its record and the
\* header that counts it were fsynced before the return, and a later append writes
\* behind every record the header counts.
THEOREM AcknowledgedEventsStay == Spec => []AckedStays
<1>1. AInv => AckedStays
  BY DEF AInv, AckedOK, AckedIn, AckedStays
<1> QED BY <1>1, AInvHolds, PTL

\* audit_open compares a length only, and that is enough: on a disk that has reported
\* no error, a log that opened is one the full verification accepts.
THEOREM OpenMeansVerified == Spec => []OpenLogVerifies
<1>1. ASSUME AInv, log.open, pc = "idle", ~failed
      PROVE  audit_verify_file(recs, hdr)
  <2>1. /\ Linked(recs, Len(recs)) /\ log.head = audit_hash_at(recs, log.count)
        /\ oldHdr = [count |-> log.count, head |-> log.head]
        /\ hdr = oldHdr /\ Len(recs) = log.count
    BY <1>1 DEF AInv, DiskOK
  <2>2. Len(recs) > 0 => recs[Len(recs)].seq # -1
    BY <1>1, <2>1, TypeFacts DEF AInv, Linked
  <2>3. LengthFits(recs, hdr)
    BY <2>1, <2>2 DEF LengthFits
  <2> QED BY <2>1, <2>3, VerifyIs
<1>2. AInv => OpenLogVerifies
  BY <1>1 DEF OpenLogVerifies
<1> QED BY <1>2, AInvHolds, PTL

\* What an open log counts it keeps, whatever a step writes behind it.
LEMMA HandleKeeps ==
  ASSUME AInv, log.open, HandleSound, Len(recs') \in Nat, UNCHANGED log,
         log.count <= Len(recs'), \A j \in 1..log.count : recs'[j] = recs[j]
  PROVE  HandleSound'
<1>1. log.count \in Nat
  BY TypeFacts DEF AInv
<1>2. /\ Linked(recs, log.count) <=> Linked(recs', log.count)
      /\ audit_hash_at(recs, log.count) = audit_hash_at(recs', log.count)
  BY <1>1, SameUpTo
<1> QED BY <1>2 DEF HandleSound, Linked, audit_hash_at, PrevHash

\* The append whose header is fsynced has its record behind the chain in memory, and the
\* header says so.
LEMMA AckSound ==
  ASSUME AInv, AInv', log.open, HandleSound, FsyncHeader
  PROVE  HandleSound' /\ audit_verify_file(recs, hdr)'
<1> DEFINE n == log.count
<1>1. /\ n \in Nat /\ recs \in Seq(RecordRec) /\ Len(recs) = n + 1 /\ recs[n + 1] = rec
      /\ rec.seq = n /\ rec.hash = chain_step(log.head, rec.event)
      /\ hdr = [count |-> n + 1, head |-> rec.hash]
  BY TypeFacts DEF AInv, LogOK, FsyncHeader
<1>2. /\ recs' = recs /\ hdr' = hdr
      /\ log' = [log EXCEPT !.count = n + 1, !.head = rec.hash]
  BY DEF FsyncHeader
<1>3. log'.count = n + 1 /\ log'.head = rec.hash
  BY <1>1, <1>2 DEF AInv, TypeOK
<1> HIDE DEF n
<1>4. Linked(recs, n) /\ log.head = audit_hash_at(recs, n)
  BY DEF HandleSound, n
<1>5. Linked(recs, n + 1)
  BY <1>1, <1>4, LinkedExtend
<1>6. audit_hash_at(recs, n + 1) = rec.hash
  BY <1>1 DEF audit_hash_at
<1>7. n + 1 <= Len(recs) /\ n + 1 > 0 /\ recs[n + 1].seq # -1
  BY <1>1
<1>8. LengthFits(recs, hdr)
  BY <1>1, <1>7 DEF LengthFits
<1>9. audit_verify_file(recs, hdr)
  BY <1>1, <1>5, <1>6, <1>8, VerifyIs
<1>10. HandleSound'
  <2>1. log'.count <= Len(recs')
    BY <1>2, <1>3, <1>7
  <2>2. Linked(recs', log'.count)
    BY <1>2, <1>3, <1>5
  <2>3. log'.head = audit_hash_at(recs', log'.count)
    BY <1>2, <1>3, <1>6
  <2> QED BY <2>1, <2>2, <2>3 DEF HandleSound
<1>11. audit_verify_file(recs, hdr)'
  BY <1>2, <1>9
<1> QED BY <1>10, <1>11

\* A log that is open outlives every error of the disk: a failed append leaves at most one
\* record behind the ones in memory, and the next append writes over it.
THEOREM AppendsHeal == Spec => AppendHeals
<1> DEFINE Heals == log.open /\ HandleSound /\ log'.open =>
                      /\ HandleSound'
                      /\ log'.count > log.count => audit_verify_file(recs, hdr)'
<1>1. ASSUME AInv, AInv', [Next]_vars, log.open, HandleSound, log'.open
      PROVE  /\ HandleSound'
             /\ log'.count > log.count => audit_verify_file(recs, hdr)'
  <2>1. log.count \in Nat /\ log.count <= Len(recs) /\ Len(recs) \in Nat /\ Len(recs') \in Nat
    BY <1>1, TypeFacts DEF AInv, HandleSound
  <2>2. CASE UNCHANGED <<recs, log>>
    <3>1. HandleSound'
      BY <1>1, <2>1, <2>2, HandleKeeps
    <3> QED BY <2>1, <2>2, <3>1
  <2>3. ASSUME NEW e \in Events, AppendRecord(e)
        PROVE  HandleSound' /\ UNCHANGED log
    <3> DEFINE n == log.count
               r == [seq |-> n, event |-> e, hash |-> chain_step(log.head, e)]
    <3>1. recs' = Put(recs, n + 1, r) /\ rec' = r /\ UNCHANGED log
      BY <2>3 DEF AppendRecord
    <3>2. r \in RecordRec /\ recs \in Seq(RecordRec) /\ Len(recs) \in {n, n + 1}
      BY <1>1, <3>1, TypeFacts DEF AInv, TypeOK, LogOK
    <3> HIDE DEF n, r
    <3>3. n \in Nat
      BY <2>1 DEF n
    <3>4. PICK i : i = n + 1
      OBVIOUS
    <3>5. i \in Nat /\ i >= 1 /\ (i = Len(recs) \/ i = Len(recs) + 1)
      BY <2>1, <3>2, <3>3, <3>4
    <3>6. Len(recs') = i /\ \A j \in 1..(i - 1) : recs'[j] = recs[j]
      <4>1. recs' = Put(recs, i, r)
        BY <3>1, <3>4
      <4>2. /\ Len(Put(recs, i, r)) = i
            /\ \A j \in 1..(i - 1) : Put(recs, i, r)[j] = recs[j]
        BY <3>2, <3>5, PutProperties
      <4> QED BY <4>1, <4>2
    <3>7. n <= Len(recs') /\ \A j \in 1..n : recs'[j] = recs[j]
      BY <3>3, <3>4, <3>6
    <3>8. HandleSound'
      BY <1>1, <2>1, <3>1, <3>7, HandleKeeps DEF n
    <3> QED BY <3>1, <3>8
  <2>4. CASE FsyncHeader
    BY <1>1, <2>4, AckSound
  <2>5. CASE FsyncRecord \/ WriteHeader \/ AppendFails \/ anchor_head \/ anchor_create
    BY <2>2, <2>5 DEF FsyncRecord, WriteHeader, AppendFails, anchor_head, anchor_create
  <2>6. ~audit_open /\ ~audit_close /\ ~Crash /\ ~Rewrite
    BY <1>1 DEF audit_open, audit_close, Crash, Rewrite, Closed
  <2>7. UNCHANGED vars => UNCHANGED <<recs, log>>
    BY DEF vars
  <2> QED BY <1>1, <2>1, <2>2, <2>3, <2>4, <2>5, <2>6, <2>7 DEF Next
<1>2. AInv /\ AInv' /\ [Next]_vars => [Heals]_vars
  BY <1>1
<1> QED BY <1>2, AInvHolds, PTL DEF Spec, AppendHeals

\* hsm_audit_anchor_verify keeps accepting the log an anchor was signed over, whatever
\* was appended since and wherever the process died, while no error was reported and
\* nobody replaced the file: this holds of every anchor whose count is that of the head
\* it read, also when an append of another thread was half way.
THEOREM AnchorsStayGood == Spec => []AnchorsKeepVerifying
<1>1. ASSUME AInv, ~failed, ~rewritten, NEW a \in anchors, Whole(a)
      PROVE  a.count <= Len(recs) /\ audit_hash_at(recs, a.count) = a.head
  <2>1. a.head \in Signed /\ Len(a.head) = a.count
    BY <1>1 DEF Signed, Whole
  <2> QED BY <1>1, <2>1 DEF AInv, AnchorsOK, AnchoredIn
<1>2. AInv => AnchorsKeepVerifying
  BY <1>1 DEF AnchorsKeepVerifying, anchor_verify
<1> QED BY <1>2, AInvHolds, PTL

\* A file replaced as a whole, or damaged in any way, passes hsm_audit_anchor_verify
\* only if the events before the anchored position are those the anchor signed.
THEOREM AnchorsPinTheEvents == Spec => []AnchorPinsHistory
<1>1. ASSUME AInv, NEW a \in anchors, anchor_verify(recs, hdr, a)
      PROVE  EventsTo(recs, a.count) = a.head
  <2>1. /\ a.count \in Nat /\ a.count <= Len(recs) /\ Len(recs) \in Nat
        /\ audit_hash_at(recs, a.count) = a.head
    BY <1>1, TypeFacts DEF AInv, anchor_verify
  <2>2. Linked(recs, Len(recs))
    BY <1>1, VerifyIs DEF anchor_verify
  <2>3. Linked(recs, a.count)
    BY <2>1, <2>2, LinkedPrefix
  <2> QED BY <1>1, <2>1, <2>3 DEF AInv, HistoryOK, HistoryIn
<1>2. AInv => AnchorPinsHistory
  BY <1>1 DEF AnchorPinsHistory, EventsTo
<1> QED BY <1>2, AInvHolds, PTL
=============================================================================
