--------------------------- MODULE ResolverProofs ---------------------------
(***************************************************************************)
(* The loop over TXT records finds the newest one, for any zone.           *)
(***************************************************************************)
EXTENDS Resolver, FiniteSetTheorems, TLAPS

\* What the goroutine knows of the answer it reads.
ScanTypeOK ==
  /\ zone \in Zones
  /\ txts \in Seq(Record)
  /\ k \in 1..(Len(txts) + 1)
  /\ pc = "scan" => latestRecord \in Record \cup {Nil}

\* Position i has the first of the newest valid records before position n.
FirstNewest(i, n) ==
  /\ Valid(txts[i])
  /\ \A j \in 1..(n - 1) : Valid(txts[j]) => txts[j].time <= txts[i].time
  /\ \A j \in 1..(i - 1) : Valid(txts[j]) => txts[j].time < txts[i].time

\* latestRecord is the first of the newest valid records before position n.
LatestBefore(n) ==
  IF latestRecord = Nil
  THEN \A j \in 1..(n - 1) : ~Valid(txts[j])
  ELSE \E i \in 1..(n - 1) : latestRecord = txts[i] /\ FirstNewest(i, n)

\* The loop invariant of ResolveUDPAddr, and what is left of it once the loop
\* is over.
ScanInv ==
  /\ ScanTypeOK
  /\ pc = "scan" => LatestBefore(k)
  /\ pc = "host" /\ kind = "hn2etxt" => latestRecord # Nil /\ LatestBefore(Len(txts) + 1)

\* LookupTXT returns a sequence of records, each of them in the zone.
LEMMA AnswerIsSeq ==
  ASSUME NEW z \in Zones, NEW answer \in SetToSeqs(z.txts)
  PROVE  answer \in Seq(Record)
<1>1. IsFiniteSet(z.txts) /\ z.txts \subseteq Record
  BY ResolverAssumption
<1>2. Cardinality(z.txts) \in Nat
  BY <1>1, FS_CardinalityType
<1>3. answer \in [1..Cardinality(z.txts) -> z.txts]
  BY Zenon DEF SetToSeqs
<1>4. answer \in Seq(z.txts)
  BY <1>2, <1>3
<1>. QED  BY <1>1, <1>4

\* A record has a time to compare and is not the absent latestRecord.
LEMMA RecordTime ==
  ASSUME NEW r \in Record
  PROVE  r.time \in Nat /\ r # Nil
<1>1. r.time \in {0} \cup Times
  BY DEF Record
<1>2. {0} \cup Times \subseteq Nat
  <2>1. Times \subseteq Nat \ {0}
    BY Zenon, ResolverAssumption
  <2>. QED  BY <2>1
<1>3. r.time \in Nat
  BY Zenon, <1>1, <1>2
<1>4. r # Nil
  BY Zenon, ResolverAssumption
<1>. QED  BY <1>3, <1>4

\* One turn of the loop: a valid record that is newer than all before it is
\* taken, and any other leaves the first of the newest where it was.
LEMMA ScanKeepsLatest ==
  ASSUME ScanInv, ScanRecord
  PROVE  LatestBefore(k)'
<1>1. /\ txts \in Seq(Record) /\ k \in 1..Len(txts) /\ latestRecord \in Record \cup {Nil}
      /\ txts' = txts /\ k' = k + 1 /\ pc = "scan"
  BY DEF ScanInv, ScanTypeOK, ScanRecord
<1>2. LatestBefore(k)
  BY <1>1 DEF ScanInv
<1>3. \A j \in 1..Len(txts) : txts[j] \in Record /\ txts[j].time \in Nat /\ txts[j] # Nil
  BY <1>1, RecordTime
<1>4. CASE Valid(txts[k]) /\ (latestRecord = Nil \/ Newer(txts[k], latestRecord))
  <2>1. latestRecord' = txts[k] /\ latestRecord' # Nil
    BY <1>1, <1>3, <1>4 DEF ScanRecord, Valid, tryDecrypt, parse
  <2>2. \A j \in 1..(k - 1) : Valid(txts[j]) => txts[j].time < txts[k].time
    <3>1. CASE latestRecord = Nil
      BY <1>2, <3>1 DEF LatestBefore
    <3>2. CASE latestRecord # Nil
      <4>1. PICK i \in 1..(k - 1) : latestRecord = txts[i] /\ FirstNewest(i, k)
        BY <1>2, <3>2 DEF LatestBefore
      <4>2. txts[i].time < txts[k].time
        BY <1>1, <1>3, <1>4, <3>2, <4>1 DEF Newer
      <4>. QED  BY <1>1, <1>3, <4>1, <4>2 DEF FirstNewest
    <3>. QED  BY <3>1, <3>2
  <2>3. \A j \in 1..k : Valid(txts[j]) => txts[j].time <= txts[k].time
    BY <1>1, <1>3, <2>2
  <2>4. FirstNewest(k, k + 1)
    BY <1>1, <1>4, <2>2, <2>3 DEF FirstNewest
  <2>. QED  BY <1>1, <2>1, <2>4 DEF LatestBefore, FirstNewest
<1>5. CASE ~(Valid(txts[k]) /\ (latestRecord = Nil \/ Newer(txts[k], latestRecord)))
  <2>1. latestRecord' = latestRecord
    BY <1>5 DEF ScanRecord, Valid, tryDecrypt, parse
  <2>2. CASE latestRecord = Nil
    <3>1. \A j \in 1..k : ~Valid(txts[j])
      BY <1>1, <1>2, <1>5, <2>2 DEF LatestBefore
    <3>. QED  BY <1>1, <2>1, <2>2, <3>1 DEF LatestBefore
  <2>3. CASE latestRecord # Nil
    <3>1. PICK i \in 1..(k - 1) : latestRecord = txts[i] /\ FirstNewest(i, k)
      BY <1>2, <2>3 DEF LatestBefore
    <3>2. Valid(txts[k]) => txts[k].time <= txts[i].time
      BY <1>1, <1>3, <1>5, <2>3, <3>1 DEF Newer
    <3>3. FirstNewest(i, k + 1)
      BY <1>1, <3>1, <3>2 DEF FirstNewest
    <3>. QED  BY <1>1, <2>1, <2>3, <3>1, <3>3 DEF LatestBefore, FirstNewest
  <2>. QED  BY <2>2, <2>3
<1>. QED  BY <1>4, <1>5

\* Every step of the client's goroutine, and of the owner of the zone, keeps
\* the loop invariant.
LEMMA NextScanInv ==
  ScanInv /\ [Next]_vars => ScanInv'
<1>. SUFFICES ASSUME ScanInv, [Next]_vars PROVE ScanInv'
  OBVIOUS
<1>1. CASE LookupTXT
  <2>1. txts' \in Seq(Record) /\ k' = 1 /\ latestRecord' = Nil /\ zone' = zone /\ pc' = "scan"
    BY <1>1, AnswerIsSeq DEF LookupTXT, ScanInv, ScanTypeOK
  <2>2. LatestBefore(k)'
    BY <2>1 DEF LatestBefore
  <2>. QED  BY <2>1, <2>2 DEF ScanInv, ScanTypeOK
<1>2. CASE ScanRecord
  <2>1. ScanTypeOK'
    BY <1>2 DEF ScanRecord, ScanInv, ScanTypeOK
  <2>. QED  BY <1>2, <2>1, ScanKeepsLatest DEF ScanInv, ScanRecord
<1>3. CASE FinishScan
  <2>1. k = Len(txts) + 1 /\ UNCHANGED resolveVars /\ LatestBefore(k)
    BY <1>3 DEF FinishScan, ScanInv, ScanTypeOK
  <2>. QED  BY <1>3, <2>1 DEF FinishScan, ScanInv, ScanTypeOK, resolveVars, LatestBefore, FirstNewest
<1>4. CASE StartHost
  BY <1>4 DEF StartHost, ScanInv, ScanTypeOK
<1>5. CASE Publish
  BY <1>5 DEF Publish, ScanInv, ScanTypeOK, resolveVars, LatestBefore, FirstNewest
<1>6. CASE Configure \/ FailStart \/ LookupIP \/ FailLookup \/ SendUpdate \/ Wake
  <2>1. UNCHANGED <<zone, resolveVars>> /\ pc' \notin {"scan", "host"}
    BY <1>6 DEF Configure, FailStart, LookupIP, FailLookup, SendUpdate, Wake
  <2>. QED  BY <2>1 DEF ScanInv, ScanTypeOK, resolveVars
<1>7. CASE UNCHANGED vars
  BY <1>7 DEF vars, ScanInv, ScanTypeOK, resolveVars, LatestBefore, FirstNewest
<1>. QED  BY <1>1, <1>2, <1>3, <1>4, <1>5, <1>6, <1>7 DEF Next, Step

\* Whatever the zone, its changes and the order of the answer, ResolveUDPAddr
\* goes on with the first of the newest valid TXT records of the answer.
THEOREM LatestRecordFound == Spec => []LatestFound
<1>1. Init => ScanInv
  BY DEF Init, ScanInv, ScanTypeOK
<1>2. ScanInv => LatestFound
  <2>. SUFFICES ASSUME ScanInv, pc = "host", kind = "hn2etxt"
                PROVE  \E i \in Newest(txts) :
                         latestRecord = txts[i] /\ \A j \in Newest(txts) : i <= j
    BY DEF LatestFound
  <2>1. txts \in Seq(Record) /\ DOMAIN txts = 1..Len(txts)
    BY DEF ScanInv, ScanTypeOK
  <2>2. PICK i \in 1..Len(txts) : latestRecord = txts[i] /\ FirstNewest(i, Len(txts) + 1)
    BY <2>1 DEF ScanInv, LatestBefore
  <2>3. i \in Newest(txts)
    BY <2>1, <2>2 DEF FirstNewest, Newest
  <2>4. ASSUME NEW j \in Newest(txts) PROVE i <= j
    <3>1. j \in 1..Len(txts) /\ Valid(txts[j]) /\ txts[i].time <= txts[j].time
      BY <2>1, <2>2 DEF Newest, FirstNewest
    <3>2. txts[i].time \in Nat /\ txts[j].time \in Nat
      BY <2>1, <3>1, RecordTime
    <3>. QED  BY <2>2, <3>1, <3>2 DEF FirstNewest
  <2>. QED  BY <2>2, <2>3, <2>4
<1>. QED  BY <1>1, <1>2, NextScanInv, PTL DEF Spec

=============================================================================
