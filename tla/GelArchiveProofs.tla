-------------------------- MODULE GelArchiveProofs --------------------------
(***************************************************************************)
(* Retention keeps the history: theorems of GelArchive for histories of    *)
(* any length and any number of rounds, crashes and restarts.              *)
(***************************************************************************)
EXTENDS GelArchive, SequenceTheorems, TLAPS

\* Lengths and elements of the four sequences of records.
LEMMA Lengths ==
    ASSUME NEW s \in Seq(GelRecord)
    PROVE  /\ Len(s) \in Nat /\ DOMAIN s = 1 .. Len(s)
           /\ \A i \in 1 .. Len(s) : s[i] \in GelRecord
           /\ s = <<>> <=> Len(s) = 0
BY LenProperties, ElementOfSeq, EmptySeq

\* What Append does to a sequence of records.
LEMMA Appended ==
    ASSUME NEW s \in Seq(GelRecord), NEW r \in GelRecord
    PROVE  /\ Append(s, r) \in Seq(GelRecord) /\ Append(s, r) # <<>>
           /\ Len(Append(s, r)) = Len(s) + 1
           /\ DOMAIN Append(s, r) = 1 .. (Len(s) + 1)
           /\ \A i \in 1 .. Len(s) : Append(s, r)[i] = s[i]
           /\ Append(s, r)[Len(s) + 1] = r
<1>1. /\ Append(s, r) \in Seq(GelRecord) /\ Len(Append(s, r)) = Len(s) + 1
      /\ \A i \in 1 .. Len(s) : Append(s, r)[i] = s[i]
      /\ Append(s, r)[Len(s) + 1] = r
    BY AppendProperties
<1>2. QED BY <1>1, Lengths

\* The empty files of the initial state satisfy the invariant.
LEMMA InitIndInv == Init => IndInv
<1> SUFFICES ASSUME Init PROVE IndInv OBVIOUS
<1>1. <<>> \in Seq(GelRecord) /\ Len(<<>>) = 0 /\ DOMAIN <<>> = {} BY EmptySeq
<1>2. TypeOK BY <1>1 DEF Init, TypeOK, GENESIS_HASH
<1>3. Current = <<>> BY DEF Init, Current
<1>4. ChainIntact BY <1>1 DEF Init, ChainIntact, GENESIS_HASH
<1>5. ActiveIsNewest BY <1>1, <1>3 DEF Init, ActiveIsNewest, Newest
<1>6. ArchiverState BY DEF Init, ArchiverState
<1>7. ArchiveCovers BY <1>1, <1>3 DEF Init, ArchiveCovers, Oldest
<1>8. Kept BY <1>1 DEF Init, Kept
<1>9. QED BY <1>2, <1>4, <1>5, <1>6, <1>7, <1>8 DEF IndInv

\* No file has been emptied and no crash has fallen between unlink and rename.
Harmless == events \subseteq {"crash_copying"}

Base == TypeOK /\ ArchiverState

Good == Base /\ ChainIntact /\ ActiveIsNewest /\ ArchiveCovers

\* Types and the archiver's own variables, whatever happens.
LEMMA BaseStep ==
    ASSUME Base, [Next]_vars PROVE Base'
<1> USE DEF Base
<1>1. /\ active \in Seq(GelRecord) /\ chain \in Seq(GelRecord) /\ archive \in Seq(GelRecord)
      /\ history \in Seq(GelRecord) /\ <<>> \in Seq(GelRecord)
    BY EmptySeq DEF TypeOK
<1>2. /\ Len(history) \in Nat /\ Len(chain) \in Nat /\ Len(active) \in Nat
      /\ DOMAIN active = 1 .. Len(active)
      /\ \A i \in 1 .. Len(chain) : chain[i] \in GelRecord
      /\ \A i \in 1 .. Len(active) : active[i] \in GelRecord
      /\ active = <<>> <=> Len(active) = 0
    BY <1>1, Lengths
<1>3. ASSUME NEW a \in Actions, Evaluate(a) PROVE Base'
  <2> DEFINE record == [hash |-> Len(history) + 1, previous |-> tip,
                        action |-> a, allow |-> a \notin admitted]
  <2>1. record \in GelRecord BY <1>2 DEF GelRecord, TypeOK
  <2>2. Append(active, record) \in Seq(GelRecord) /\ Append(history, record) \in Seq(GelRecord)
      BY <1>1, <2>1, Appended
  <2>3. /\ pc = "idle" /\ active' = Append(active, record) /\ history' = Append(history, record)
        /\ tip' = Len(history) + 1 /\ admitted' = admitted \union {a}
        /\ UNCHANGED <<archive, pc, chain, cutoff, copied, events>>
      BY <1>3 DEF Evaluate, archiver
  <2> HIDE DEF record
  <2>4. TypeOK' BY <1>2, <2>2, <2>3 DEF TypeOK
  <2>5. ArchiverState' BY <2>3 DEF ArchiverState
  <2>6. QED BY <2>4, <2>5
<1>4. CASE seed
  <2>1. /\ pc = "idle" /\ tip' = LastHash(active)
        /\ admitted' = {active[i].action : i \in {j \in DOMAIN active : active[j].allow}}
        /\ UNCHANGED <<active, archive, pc, chain, cutoff, copied, history, events>>
      BY <1>4 DEF seed, files, archiver
  <2>2. \A i \in DOMAIN active : active[i].action \in Actions BY <1>2 DEF GelRecord
  <2>3. admitted' \subseteq Actions BY <2>1, <2>2
  <2>4. LastHash(active) \in Nat BY <1>2 DEF LastHash, GENESIS_HASH, GelRecord
  <2>5. TypeOK' BY <2>1, <2>3, <2>4 DEF TypeOK
  <2>6. ArchiverState' BY <2>1 DEF ArchiverState
  <2>7. QED BY <2>5, <2>6
<1>5. ASSUME NEW k \in 1 .. MaxRecords, StartArchive(k) PROVE Base'
  <2>1. /\ pc' = "appending" /\ k \in 1 .. Len(active)
        /\ chain' = active /\ cutoff' = k /\ copied' = 0
        /\ events' = IF k = Len(active) THEN events \union {"emptied"} ELSE events
        /\ UNCHANGED <<active, archive, tip, admitted, history>>
      BY <1>5 DEF StartArchive, files, index
  <2>2. events' \subseteq Events /\ (k = Len(active) => "emptied" \in events')
      BY <2>1 DEF TypeOK, Events
  <2>3. k \in Nat /\ 0 \in 0 .. k
    <3>1. Len(active) \in Nat /\ k \in 1 .. Len(active) BY <1>2, <2>1
    <3>2. k \in Nat BY <3>1
    <3>3. QED BY <3>2
  <2>4. TypeOK' BY <2>1, <2>2, <2>3 DEF TypeOK
  <2>5. ArchiverState'
    <3>1. chain' = active' /\ cutoff' \in 1 .. Len(chain') /\ copied' \in 0 .. cutoff'
        BY <2>1, <2>3
    <3>2. cutoff' = Len(chain') => "emptied" \in events' BY <2>1, <2>2
    <3>3. QED BY <2>1, <3>1, <3>2 DEF ArchiverState
  <2>6. QED BY <2>4, <2>5
<1>6. CASE appendChain
  <2>1. /\ pc = "appending" /\ copied < cutoff /\ copied' = copied + 1
        /\ archive' = Append(archive, chain[copied + 1])
        /\ UNCHANGED <<active, pc, chain, cutoff, tip, admitted, history, events>>
      BY <1>6 DEF appendChain, index
  <2>2. cutoff \in 1 .. Len(chain) /\ copied \in 0 .. cutoff BY <2>1 DEF ArchiverState
  <2>3. copied + 1 \in 1 .. Len(chain) /\ copied + 1 \in 0 .. cutoff BY <1>2, <2>1, <2>2
  <2>4. archive' \in Seq(GelRecord) BY <1>1, <1>2, <2>1, <2>3, Appended
  <2>5. TypeOK' BY <2>1, <2>3, <2>4 DEF TypeOK
  <2>6. ArchiverState' BY <2>1, <2>3 DEF ArchiverState
  <2>7. QED BY <2>5, <2>6
<1>7. CASE UnlinkActive
    BY <1>1, <1>7 DEF UnlinkActive, TypeOK, ArchiverState, index
<1>8. CASE RenameActive
  <2>1. /\ pc = "unlinked" /\ pc' = "idle" /\ active' = SubSeq(chain, cutoff + 1, Len(chain))
        /\ chain' = <<>> /\ cutoff' = 0 /\ copied' = 0 /\ cutoff \in 1 .. Len(chain)
        /\ UNCHANGED <<archive, tip, admitted, history, events>>
      BY <1>8 DEF RenameActive, index, ArchiverState
  <2>2. \A i \in (cutoff + 1) .. Len(chain) : i \in 1 .. Len(chain) /\ chain[i] \in GelRecord
      BY <1>2, <2>1
  <2>3. active' \in Seq(GelRecord) BY <1>1, <1>2, <2>1, <2>2, SubSeqProperties
  <2>4. TypeOK' BY <1>1, <2>1, <2>3 DEF TypeOK
  <2>5. ArchiverState' BY <2>1 DEF ArchiverState
  <2>6. QED BY <2>4, <2>5
<1>9. CASE Crash
    BY <1>1, <1>9 DEF Crash, TypeOK, ArchiverState, Events, files, index
<1>10. CASE UNCHANGED vars
    BY <1>10 DEF vars, TypeOK, ArchiverState, files, archiver, index
<1>11. QED BY <1>3, <1>4, <1>5, <1>6, <1>7, <1>8, <1>9, <1>10 DEF Next

\* A new record goes to the end of the history and of the active file.
LEMMA EvaluateStep ==
    ASSUME Good, NEW a \in Actions, Evaluate(a), Base'
    PROVE  Good'
<1> DEFINE n == Len(history)
           record == [hash |-> n + 1, previous |-> tip,
                      action |-> a, allow |-> a \notin admitted]
<1>1. /\ pc = "idle" /\ active' = Append(active, record)
      /\ history' = Append(history, record) /\ tip' = n + 1
      /\ admitted' = admitted \union {a}
      /\ UNCHANGED <<archive, pc, chain, cutoff, copied, events>>
    BY DEF Evaluate, archiver
<1>2. /\ active \in Seq(GelRecord) /\ archive \in Seq(GelRecord)
      /\ history \in Seq(GelRecord) /\ tip = n /\ n \in Nat /\ copied = 0
    BY <1>1, Lengths DEF Good, Base, TypeOK, ChainIntact, ArchiverState
<1>3. record \in GelRecord BY <1>2 DEF GelRecord
<1>6. /\ record.hash = n + 1 /\ record.previous = n BY <1>2
<1> HIDE DEF record, n
<1>4. /\ history' \in Seq(GelRecord) /\ Len(history') = n + 1
      /\ DOMAIN history' = 1 .. (n + 1) /\ DOMAIN history = 1 .. n
      /\ \A i \in 1 .. n : history'[i] = history[i]
      /\ history'[n + 1] = record
    BY <1>1, <1>2, <1>3, Appended, Lengths DEF n
<1>5. /\ active' \in Seq(GelRecord) /\ active' # <<>> /\ Len(active') = Len(active) + 1
      /\ Len(active) \in Nat
      /\ DOMAIN active' = 1 .. (Len(active) + 1) /\ DOMAIN active = 1 .. Len(active)
      /\ \A i \in 1 .. Len(active) : active'[i] = active[i]
      /\ active'[Len(active) + 1] = record
    BY <1>1, <1>2, <1>3, Appended, Lengths
<1>7. /\ Current = active /\ Current' = active' BY <1>1 DEF Current
<1>9. ChainIntact'
    BY <1>1, <1>2, <1>4, <1>6 DEF Good, ChainIntact
<1>10. ActiveIsNewest'
  <2>1. Len(active) <= n /\ \A i \in 1 .. Len(active) : active[i] = history[n - Len(active) + i]
      BY <1>5, <1>7 DEF Good, ActiveIsNewest, Newest, n
  <2>2. Len(active') <= Len(history') BY <1>2, <1>4, <1>5, <2>1
  <2>3. ASSUME NEW i \in 1 .. (Len(active) + 1)
        PROVE  active'[i] = history'[Len(history') - Len(active') + i]
    <3>1. Len(history') - Len(active') + i = n - Len(active) + i BY <1>2, <1>4, <1>5
    <3>2. CASE i = Len(active) + 1 BY <1>2, <1>4, <1>5, <3>1, <3>2
    <3>3. CASE i \in 1 .. Len(active)
      <4>1. n - Len(active) + i \in 1 .. n BY <1>2, <1>5, <2>1, <3>3
      <4>2. QED BY <1>4, <1>5, <2>1, <3>1, <3>3, <4>1
    <3>4. QED BY <1>5, <3>2, <3>3
  <2>4. QED BY <1>5, <1>7, <2>2, <2>3 DEF ActiveIsNewest, Newest
<1>12. ArchiveCovers'
  <2>1. DOMAIN archive = 1 .. Len(archive) /\ Len(archive) \in Nat BY <1>2, Lengths
  <2>2. Len(history') - Len(Current') + copied' = n - Len(Current) + copied
      BY <1>1, <1>2, <1>4, <1>5, <1>7
  <2>3. \A i \in DOMAIN archive : \E j \in DOMAIN history' : archive'[i] = history'[j]
      BY <1>1, <1>2, <1>4 DEF Good, ArchiveCovers
  <2>4. n - Len(Current) + copied <= n BY <1>2, <1>5, <1>7
  <2>5. \A i \in 1 .. (n - Len(Current) + copied) :
            \E j \in DOMAIN archive' : archive'[j] = history'[i]
      BY <1>1, <1>2, <1>4, <1>5, <1>7, <2>4 DEF Good, ArchiveCovers, n
  <2>6. Oldest(archive) => Oldest(archive)'
      BY <1>1, <1>2, <1>4, <2>1 DEF Oldest, n
  <2>7. verifyGelRecords(archive)' <=> verifyGelRecords(archive)
      BY <1>1 DEF verifyGelRecords, verifyGelRecordsStartingFrom
  <2>8. QED
      BY <1>1, <2>2, <2>3, <2>5, <2>6, <2>7 DEF Good, ArchiveCovers, n
<1>13. QED BY <1>9, <1>10, <1>12 DEF Good

\* A restarted boundary finds the end of the history in the active file.
LEMMA SeedStep ==
    ASSUME Good, seed, Base'
    PROVE  Good'
<1>1. /\ pc = "idle" /\ tip' = LastHash(active)
      /\ UNCHANGED <<active, archive, pc, chain, cutoff, copied, history, events>>
    BY DEF seed, files, archiver
<1>2. /\ active \in Seq(GelRecord) /\ history \in Seq(GelRecord) BY DEF Good, Base, TypeOK
<1>3. /\ Len(active) \in Nat /\ DOMAIN active = 1 .. Len(active)
      /\ \A i \in 1 .. Len(active) : active[i] \in GelRecord
      /\ active = <<>> <=> Len(active) = 0
    BY <1>2, Lengths
<1>4. /\ Len(history) \in Nat /\ DOMAIN history = 1 .. Len(history)
      /\ history = <<>> <=> Len(history) = 0
    BY <1>2, Lengths
<1>5. /\ Len(active) <= Len(history) /\ (history # <<>> => active # <<>>)
      /\ \A i \in DOMAIN active : active[i] = history[Len(history) - Len(active) + i]
    BY <1>1 DEF Good, ActiveIsNewest, Newest, Current
<1>6. LastHash(active) = Len(history)
  <2>1. CASE active = <<>> BY <1>3, <1>4, <1>5, <2>1 DEF LastHash, GENESIS_HASH
  <2>2. CASE active # <<>>
    <3>1. Len(active) \in DOMAIN active /\ Len(history) \in DOMAIN history
        BY <1>3, <1>4, <1>5, <2>2
    <3>2. active[Len(active)] = history[Len(history)] BY <1>3, <1>4, <1>5, <3>1
    <3>3. QED BY <2>2, <3>1, <3>2 DEF LastHash, Good, ChainIntact
  <2>3. QED BY <2>1, <2>2
<1>9. QED
    BY <1>1, <1>6 DEF Good, ChainIntact, ActiveIsNewest, Newest, Current,
       ArchiveCovers, Oldest, verifyGelRecords, verifyGelRecordsStartingFrom

\* The archiver starts with nothing copied.
LEMMA StartStep ==
    ASSUME Good, NEW k \in 1 .. MaxRecords, StartArchive(k), Base', Harmless, Harmless'
    PROVE  Good'
<1>1. /\ pc = "idle" /\ pc' = "appending" /\ k \in 1 .. Len(active) /\ k # Len(active)
      /\ chain' = active /\ cutoff' = k /\ copied' = 0 /\ copied = 0
      /\ UNCHANGED <<active, archive, tip, admitted, history, events>>
    BY DEF StartArchive, files, index, Good, Base, ArchiverState, Harmless
<1>2. active \in Seq(GelRecord) /\ Len(active) \in Nat
    BY Lengths DEF Good, Base, TypeOK
<1>4. Current' = active /\ Current = active BY <1>1 DEF Current
<1>6. QED
    BY <1>1, <1>4 DEF Good, ChainIntact, ActiveIsNewest, Newest,
       ArchiveCovers, Oldest, verifyGelRecords, verifyGelRecordsStartingFrom

\* The copied record is the next of the history, and only if the archive
\* was the history so far does the longer archive verify.
LEMMA AppendStep ==
    ASSUME Good, appendChain, Base', Harmless
    PROVE  Good'
<1> DEFINE n == Len(history)
           m == Len(archive)
           p == n - Len(chain) + copied + 1
           record == chain[copied + 1]
<1>1. /\ pc = "appending" /\ copied < cutoff /\ archive' = Append(archive, record)
      /\ copied' = copied + 1 /\ chain = active
      /\ UNCHANGED <<active, pc, chain, cutoff, tip, admitted, history, events>>
    BY DEF appendChain, index, Good, Base, ArchiverState
<1>2. /\ chain \in Seq(GelRecord) /\ history \in Seq(GelRecord) /\ archive \in Seq(GelRecord)
      /\ cutoff \in 1 .. (Len(chain) - 1) /\ copied \in 0 .. cutoff
    BY <1>1 DEF Good, Base, TypeOK, ArchiverState, Harmless
<1>3. /\ Len(chain) \in Nat /\ n \in Nat /\ m \in Nat
      /\ DOMAIN chain = 1 .. Len(chain) /\ DOMAIN history = 1 .. n /\ DOMAIN archive = 1 .. m
      /\ \A i \in 1 .. Len(chain) : chain[i] \in GelRecord
    BY <1>2, Lengths
<1>4. Current = chain /\ Current' = chain BY <1>1 DEF Current
<1>5. /\ Len(chain) <= n
      /\ \A i \in DOMAIN chain : chain[i] = history[n - Len(chain) + i]
    BY <1>4 DEF Good, ActiveIsNewest, Newest
<1>6. copied + 1 \in 1 .. Len(chain) /\ p \in 1 .. n /\ p = n - Len(chain) + (copied + 1)
    BY <1>1, <1>2, <1>3, <1>5
<1>7. record \in GelRecord /\ record = history[p] BY <1>3, <1>5, <1>6
<1>8. record.hash = p /\ record.previous = p - 1
    BY <1>3, <1>6, <1>7 DEF Good, ChainIntact
<1> HIDE DEF record
<1>9. /\ archive' \in Seq(GelRecord) /\ Len(archive') = m + 1
      /\ DOMAIN archive' = 1 .. (m + 1)
      /\ \A i \in 1 .. m : archive'[i] = archive[i]
      /\ archive'[m + 1] = record
    BY <1>1, <1>2, <1>7, Appended
<1>11. ChainIntact' /\ ActiveIsNewest'
    BY <1>1, <1>4 DEF Good, ChainIntact, ActiveIsNewest, Newest
<1>13. \A i \in DOMAIN archive' : \E j \in DOMAIN history' : archive'[i] = history'[j]
  <2> SUFFICES ASSUME NEW i \in DOMAIN archive'
               PROVE  \E j \in DOMAIN history' : archive'[i] = history'[j]
      OBVIOUS
  <2>1. CASE i = m + 1 BY <1>1, <1>3, <1>6, <1>7, <1>9, <2>1
  <2>2. CASE i \in 1 .. m BY <1>1, <1>3, <1>9, <2>2 DEF Good, ArchiveCovers
  <2>3. QED BY <1>3, <1>9, <2>1, <2>2
<1>14. \A i \in 1 .. (n - Len(chain) + copied') : \E j \in DOMAIN archive' : archive'[j] = history[i]
  <2> SUFFICES ASSUME NEW i \in 1 .. (n - Len(chain) + copied')
               PROVE  \E j \in DOMAIN archive' : archive'[j] = history[i]
      OBVIOUS
  <2>1. CASE i = p
    <3>1. m + 1 \in DOMAIN archive' BY <1>3, <1>9
    <3>2. QED BY <1>7, <1>9, <2>1, <3>1
  <2>2. CASE i # p
    <3> HIDE DEF p
    <3>0. copied \in Int /\ i \in 1 .. (n - Len(chain) + (copied + 1)) BY <1>1, <1>2
    <3>1. i \in 1 .. (n - Len(chain) + copied) BY <1>3, <1>6, <2>2, <3>0
    <3>2. PICK j \in DOMAIN archive : archive[j] = history[i]
        BY <1>4, <3>1 DEF Good, ArchiveCovers
    <3>3. j \in DOMAIN archive' /\ archive'[j] = archive[j] BY <1>3, <1>9
    <3>4. QED BY <3>2, <3>3
  <2>3. QED BY <2>1, <2>2
<1>15. ASSUME Oldest(archive), p = m + 1 PROVE Oldest(archive)'
  <2>1. m + 1 <= n BY <1>3, <1>6, <1>15
  <2>2. ASSUME NEW i \in 1 .. (m + 1) PROVE archive'[i] = history[i]
    <3>1. CASE i = m + 1 BY <1>7, <1>9, <1>15, <3>1
    <3>2. CASE i \in 1 .. m BY <1>3, <1>9, <1>15, <3>2 DEF Oldest
    <3>3. QED BY <1>3, <3>1, <3>2
  <2>3. QED BY <1>1, <1>9, <2>1, <2>2 DEF Oldest
<1>16. ASSUME verifyGelRecords(archive)' PROVE Oldest(archive)'
  <2>1. \A i \in 1 .. (m + 1) :
            archive'[i].previous = IF i = 1 THEN GENESIS_HASH ELSE archive'[i - 1].hash
      BY <1>9, <1>16 DEF verifyGelRecords, verifyGelRecordsStartingFrom
  <2>2. verifyGelRecords(archive)
    <3> SUFFICES ASSUME NEW i \in 1 .. m
                 PROVE  archive[i].previous = IF i = 1 THEN GENESIS_HASH ELSE archive[i - 1].hash
        BY <1>3 DEF verifyGelRecords, verifyGelRecordsStartingFrom
    <3>1. i \in 1 .. (m + 1) /\ (i # 1 => i - 1 \in 1 .. m) BY <1>3
    <3>2. QED BY <1>9, <2>1, <3>1
  <2>3. Oldest(archive) BY <2>2 DEF Good, ArchiveCovers
  <2>4. p = m + 1
    <3>1. m + 1 \in 1 .. (m + 1) BY <1>3
    <3>2. p - 1 = IF m + 1 = 1 THEN GENESIS_HASH ELSE archive'[m].hash
        BY <1>3, <1>8, <1>9, <2>1, <3>1
    <3>3. CASE m = 0 BY <1>3, <1>6, <3>2, <3>3 DEF GENESIS_HASH
    <3>4. CASE m # 0
      <4>1. m \in 1 .. m /\ m \in DOMAIN history BY <1>3, <2>3, <3>4 DEF Oldest
      <4>2. archive'[m] = history[m] BY <1>3, <1>9, <2>3, <4>1 DEF Oldest
      <4>3. archive'[m].hash = m BY <4>1, <4>2 DEF Good, ChainIntact
      <4>4. QED BY <1>3, <1>6, <3>2, <3>4, <4>3
    <3>5. QED BY <3>3, <3>4
  <2>5. QED BY <1>15, <2>3, <2>4
<1>17. ASSUME events = {}
       PROVE  Oldest(archive)' /\ Len(archive') = n - Len(chain) + copied'
  <2>1. Oldest(archive) /\ m = n - Len(chain) + copied
      BY <1>4, <1>17 DEF Good, ArchiveCovers
  <2>2. p = m + 1 BY <2>1
  <2>3. QED BY <1>1, <1>2, <1>3, <1>9, <1>15, <2>1, <2>2
<1>18. ArchiveCovers'
    BY <1>1, <1>4, <1>13, <1>14, <1>16, <1>17 DEF ArchiveCovers
<1>19. QED BY <1>11, <1>18 DEF Good

\* Unlinking, renaming and crashing leave the newest records where Current
\* looks for them.
LEMMA SwapStep ==
    ASSUME Good, UnlinkActive \/ RenameActive \/ Crash, Base', Harmless, Harmless'
    PROVE  Good'
<1> DEFINE n == Len(history)
<1>1. /\ active \in Seq(GelRecord) /\ chain \in Seq(GelRecord) /\ archive \in Seq(GelRecord)
      /\ history \in Seq(GelRecord) /\ <<>> \in Seq(GelRecord) /\ Len(<<>>) = 0
    BY EmptySeq DEF Good, Base, TypeOK
<1>2. n \in Nat /\ Len(chain) \in Nat /\ Len(active) \in Nat
      /\ DOMAIN chain = 1 .. Len(chain)
    BY <1>1, Lengths
<1>3. CASE UnlinkActive
  <2>1. /\ pc = "appending" /\ copied = cutoff /\ pc' = "unlinked" /\ active' = <<>>
        /\ chain = active /\ UNCHANGED <<archive, chain, cutoff, copied, tip, admitted, history, events>>
      BY <1>3 DEF UnlinkActive, index, Good, Base, ArchiverState
  <2>2. Current = chain /\ Current' = chain BY <2>1 DEF Current
  <2>5. QED
      BY <2>1, <2>2 DEF Good, ChainIntact, ActiveIsNewest, Newest,
         ArchiveCovers, Oldest, verifyGelRecords, verifyGelRecordsStartingFrom
<1>4. CASE RenameActive
  <2> DEFINE kept == SubSeq(chain, cutoff + 1, Len(chain))
  <2>1. /\ pc = "unlinked" /\ pc' = "idle" /\ active' = kept
        /\ chain' = <<>> /\ cutoff' = 0 /\ copied' = 0 /\ copied = cutoff
        /\ cutoff \in 1 .. (Len(chain) - 1)
        /\ UNCHANGED <<archive, tip, admitted, history, events>>
      BY <1>4 DEF RenameActive, index, Good, Base, ArchiverState, Harmless
  <2>2. /\ kept \in Seq(GelRecord) /\ Len(kept) = Len(chain) - cutoff
        /\ \A i \in 1 .. (Len(chain) - cutoff) : kept[i] = chain[cutoff + i]
    <3>1. /\ cutoff + 1 \in 1 .. (Len(chain) + 1) /\ Len(chain) \in cutoff .. Len(chain)
          /\ cutoff + 1 \in Int /\ Len(chain) \in Int
          /\ \A i \in (cutoff + 1) .. Len(chain) : i \in 1 .. Len(chain) /\ chain[i] \in GelRecord
        BY <1>1, <1>2, <2>1, Lengths
    <3>2. QED BY <1>1, <1>2, <2>1, <3>1, SubSeqProperties
  <2>3. Len(kept) \in Nat /\ DOMAIN kept = 1 .. Len(kept) /\ kept # <<>>
      BY <1>2, <2>1, <2>2, Lengths
  <2> HIDE DEF kept
  <2>4. Current = chain /\ Current' = kept BY <2>1 DEF Current
  <2>7. Len(chain) <= n /\ \A i \in DOMAIN chain : chain[i] = history[n - Len(chain) + i]
      BY <2>4 DEF Good, ActiveIsNewest, Newest
  <2>8. ActiveIsNewest'
    <3>1. ASSUME NEW i \in DOMAIN kept PROVE kept[i] = history[n - Len(kept) + i]
      <4>1. i \in 1 .. (Len(chain) - cutoff) /\ cutoff + i \in DOMAIN chain
            /\ n - Len(chain) + (cutoff + i) = n - Len(kept) + i
          BY <1>2, <2>1, <2>2, <2>3
      <4>2. QED BY <2>2, <2>7, <4>1
    <3>2. Len(kept) <= n BY <1>2, <2>1, <2>2, <2>7
    <3>3. QED BY <2>1, <2>3, <2>4, <3>1, <3>2 DEF ActiveIsNewest, Newest
  <2>9. n - Len(kept) + copied' = n - Len(chain) + copied BY <1>2, <2>1, <2>2
  <2>10. ChainIntact' BY <2>1 DEF Good, ChainIntact
  <2>11. ArchiveCovers'
      BY <2>1, <2>4, <2>9 DEF Good, ArchiveCovers, Oldest, verifyGelRecords,
         verifyGelRecordsStartingFrom
  <2>12. QED BY <2>8, <2>10, <2>11 DEF Good
<1>5. CASE Crash
  <2>1. /\ pc = "appending" /\ pc' = "idle" /\ events' # {}
        /\ chain' = <<>> /\ cutoff' = 0 /\ copied' = 0
        /\ cutoff \in 1 .. Len(chain) /\ copied \in 0 .. cutoff /\ chain = active
        /\ UNCHANGED <<active, archive, tip, admitted, history>>
      BY <1>5 DEF Crash, files, index, Good, Base, ArchiverState, Harmless
  <2>2. Current = active /\ Current' = active BY <2>1 DEF Current
  <2>5. \A i \in 1 .. (n - Len(active) + 0) : i \in 1 .. (n - Len(active) + copied)
      BY <1>2, <2>1
  <2>6. ArchiveCovers'
      BY <2>1, <2>2, <2>5 DEF Good, ArchiveCovers, Oldest, verifyGelRecords,
         verifyGelRecordsStartingFrom
  <2>7. QED
      BY <2>1, <2>2, <2>6 DEF Good, ChainIntact, ActiveIsNewest, Newest
<1>6. QED BY <1>3, <1>4, <1>5

\* The steps that keep the chain and its parts together.
LEMMA GoodStep ==
    ASSUME Good, [Next]_vars, Base', Harmless, Harmless' PROVE Good'
<1>1. ASSUME NEW a \in Actions, Evaluate(a) PROVE Good' BY <1>1, EvaluateStep
<1>2. CASE seed BY <1>2, SeedStep
<1>3. ASSUME NEW k \in 1 .. MaxRecords, StartArchive(k) PROVE Good' BY <1>3, StartStep
<1>4. CASE appendChain BY <1>4, AppendStep
<1>5. CASE UnlinkActive \/ RenameActive \/ Crash BY <1>5, SwapStep
<1>6. CASE UNCHANGED vars
  <2>1. UNCHANGED <<active, archive, pc, chain, cutoff, copied, tip, admitted, history, events>>
      BY <1>6 DEF vars, files, archiver, index
  <2>2. QED
      BY <2>1 DEF Good, ChainIntact, ActiveIsNewest, Newest, Current,
         ArchiveCovers, Oldest, verifyGelRecords, verifyGelRecordsStartingFrom
<1>7. QED BY <1>1, <1>2, <1>3, <1>4, <1>5, <1>6 DEF Next

\* No step but a crash between unlink and rename drops a record.
LEMMA KeptStep ==
    ASSUME Base, Base', [Next]_vars, Kept, "crash_swapping" \notin events' PROVE Kept'
<1>1. /\ active \in Seq(GelRecord) /\ chain \in Seq(GelRecord) /\ archive \in Seq(GelRecord)
      /\ history \in Seq(GelRecord)
    BY DEF Base, TypeOK
<1>2. /\ Len(chain) \in Nat /\ DOMAIN chain = 1 .. Len(chain)
      /\ Len(active) \in Nat /\ DOMAIN active = 1 .. Len(active)
      /\ Len(archive) \in Nat /\ DOMAIN archive = 1 .. Len(archive)
      /\ Len(history) \in Nat /\ DOMAIN history = 1 .. Len(history)
      /\ \A i \in 1 .. Len(chain) : chain[i] \in GelRecord
    BY <1>1, Lengths
<1>3. ASSUME NEW s \in Seq(GelRecord), NEW x \in GelRecord, NEW r, Contains(s, r)
      PROVE  Contains(Append(s, x), r)
  <2>1. PICK j \in 1 .. Len(s) : s[j] = r BY <1>3, Lengths DEF Contains
  <2>2. Len(s) \in Nat /\ j \in 1 .. (Len(s) + 1) BY Lengths
  <2>3. QED BY <2>1, <2>2, Appended DEF Contains
<1>4. ASSUME NEW s \in Seq(GelRecord), NEW x \in GelRecord
      PROVE  Contains(Append(s, x), x)
  <2>1. Len(s) \in Nat /\ Len(s) + 1 \in 1 .. (Len(s) + 1) BY Lengths
  <2>2. QED BY <2>1, Appended DEF Contains
<1>5. ASSUME NEW a \in Actions, Evaluate(a) PROVE Kept'
  <2> DEFINE record == [hash |-> Len(history) + 1, previous |-> tip,
                        action |-> a, allow |-> a \notin admitted]
  <2>1. /\ pc = "idle" /\ pc' = "idle" /\ archive' = archive
        /\ active' = Append(active, record) /\ history' = Append(history, record)
      BY <1>5 DEF Evaluate, archiver
  <2>2. record \in GelRecord BY <1>2 DEF GelRecord, Base, TypeOK
  <2> HIDE DEF record
  <2>3. Current = active /\ Current' = active' BY <2>1 DEF Current
  <2>4. ASSUME NEW i \in DOMAIN history'
        PROVE  Contains(active', history'[i]) \/ Contains(archive, history'[i])
    <3>1. i \in 1 .. (Len(history) + 1) BY <1>1, <2>1, <2>2, Appended
    <3>2. CASE i = Len(history) + 1
        BY <1>1, <1>4, <2>1, <2>2, <3>2, Appended
    <3>3. CASE i # Len(history) + 1
      <4>1. i \in DOMAIN history BY <1>2, <3>1, <3>3
      <4>2. history'[i] = history[i] BY <1>1, <1>2, <2>1, <2>2, <4>1, Appended
      <4>3. Contains(active, history[i]) \/ Contains(archive, history[i])
          BY <2>3, <4>1 DEF Kept
      <4>4. QED BY <1>1, <1>3, <2>1, <2>2, <4>2, <4>3
    <3>4. QED BY <3>2, <3>3
  <2>5. QED BY <2>1, <2>3, <2>4 DEF Kept
<1>6. CASE seed
  <2>1. UNCHANGED <<active, archive, pc, chain, copied, history>>
      BY <1>6 DEF seed, files, archiver
  <2>2. QED BY <2>1 DEF Kept, Current
<1>7. ASSUME NEW k \in 1 .. MaxRecords, StartArchive(k) PROVE Kept'
  <2>1. /\ pc = "idle" /\ pc' = "appending" /\ chain' = active /\ copied' = 0
        /\ UNCHANGED <<active, archive, history>>
      BY <1>7 DEF StartArchive, files
  <2>2. QED BY <2>1 DEF Kept, Current
<1>8. CASE appendChain
  <2>1. /\ pc = "appending" /\ copied + 1 \in 1 .. Len(chain) /\ copied \in Nat
        /\ archive' = Append(archive, chain[copied + 1]) /\ copied' = copied + 1
        /\ UNCHANGED <<active, pc, chain, history>>
    <3>1. /\ pc = "appending" /\ copied < cutoff /\ cutoff \in 1 .. Len(chain)
          /\ copied \in 0 .. cutoff /\ pc' = pc
        BY <1>8 DEF appendChain, Base, ArchiverState
    <3>2. copied + 1 \in 1 .. Len(chain) /\ copied \in Nat BY <1>2, <3>1
    <3>3. QED BY <1>8, <3>1, <3>2 DEF appendChain
  <2>2. Current' = Current BY <2>1 DEF Current
  <2>3. \A r : Contains(archive, r) => Contains(archive', r)
      BY <1>1, <1>2, <1>3, <2>1
  <2>4. \A i \in 1 .. (copied + 1) : Contains(archive', chain[i])
    <3>1. Contains(archive', chain[copied + 1]) BY <1>1, <1>2, <1>4, <2>1
    <3>2. \A i \in 1 .. copied : Contains(archive', chain[i])
        BY <2>1, <2>3 DEF Kept
    <3>3. QED BY <2>1, <3>1, <3>2
  <2>5. QED BY <2>1, <2>2, <2>3, <2>4 DEF Kept
<1>9. CASE UnlinkActive
  <2>1. /\ pc = "appending" /\ pc' = "unlinked" /\ chain = active
        /\ UNCHANGED <<archive, chain, copied, history>>
      BY <1>9 DEF UnlinkActive, Base, ArchiverState
  <2>2. QED BY <2>1 DEF Kept, Current
<1>10. CASE RenameActive
  <2> DEFINE rest == SubSeq(chain, cutoff + 1, Len(chain))
  <2>1. /\ pc = "unlinked" /\ pc' = "idle" /\ active' = rest /\ copied = cutoff
        /\ cutoff \in 1 .. Len(chain) /\ UNCHANGED <<archive, history>>
      BY <1>10 DEF RenameActive, Base, ArchiverState
  <2>2. /\ rest \in Seq(GelRecord) /\ Len(rest) = Len(chain) - cutoff
        /\ \A i \in 1 .. (Len(chain) - cutoff) : rest[i] = chain[cutoff + i]
    <3>1. /\ cutoff + 1 \in 1 .. (Len(chain) + 1) /\ Len(chain) \in cutoff .. Len(chain)
          /\ cutoff + 1 \in Int /\ Len(chain) \in Int
          /\ \A i \in (cutoff + 1) .. Len(chain) : i \in 1 .. Len(chain) /\ chain[i] \in GelRecord
        BY <1>1, <1>2, <2>1, Lengths
    <3>2. /\ rest \in Seq(GelRecord)
          /\ Len(rest) = IF cutoff + 1 <= Len(chain) THEN Len(chain) - (cutoff + 1) + 1 ELSE 0
          /\ \A i \in 1 .. (Len(chain) - (cutoff + 1) + 1) : rest[i] = chain[(cutoff + 1) + i - 1]
        BY <1>1, <3>1, SubSeqProperties
    <3> HIDE DEF rest
    <3>3. cutoff \in Int /\ Len(chain) \in Int /\ cutoff <= Len(chain) BY <1>2, <2>1
    <3>4. Len(rest) = Len(chain) - cutoff BY <3>2, <3>3
    <3>5. ASSUME NEW i \in 1 .. (Len(chain) - cutoff) PROVE rest[i] = chain[cutoff + i]
      <4>1. i \in 1 .. (Len(chain) - (cutoff + 1) + 1) /\ (cutoff + 1) + i - 1 = cutoff + i
          BY <3>3
      <4>2. QED BY <3>2, <4>1
    <3>6. QED BY <3>2, <3>4, <3>5
  <2>3. DOMAIN rest = 1 .. (Len(chain) - cutoff) BY <2>2, Lengths
  <2> HIDE DEF rest
  <2>4. Current = chain /\ Current' = rest BY <2>1 DEF Current
  <2>5. ASSUME NEW i \in DOMAIN history
        PROVE  Contains(rest, history[i]) \/ Contains(archive, history[i])
    <3>1. CASE Contains(archive, history[i]) BY <3>1
    <3>2. CASE Contains(chain, history[i])
      <4>1. PICK j \in 1 .. Len(chain) : chain[j] = history[i] BY <1>2, <3>2 DEF Contains
      <4>2. CASE j \in 1 .. cutoff BY <2>1, <4>1, <4>2 DEF Kept
      <4>3. CASE j \notin 1 .. cutoff
        <5>1. j - cutoff \in DOMAIN rest /\ cutoff + (j - cutoff) = j
            BY <1>2, <2>1, <2>3, <4>3
        <5>2. rest[j - cutoff] = history[i] BY <2>2, <2>3, <4>1, <5>1
        <5>3. QED BY <5>1, <5>2 DEF Contains
      <4>4. QED BY <4>2, <4>3
    <3>3. QED BY <2>4, <3>1, <3>2 DEF Kept
  <2>6. QED BY <2>1, <2>4, <2>5 DEF Kept
<1>11. CASE Crash
  <2>1. /\ pc = "appending" /\ pc' = "idle" /\ UNCHANGED <<active, archive, history>>
      BY <1>11 DEF Crash, files
  <2>2. QED BY <2>1 DEF Kept, Current
<1>12. CASE UNCHANGED vars
  <2>1. UNCHANGED <<active, archive, pc, chain, copied, history>>
      BY <1>12 DEF vars, files, archiver
  <2>2. QED BY <2>1 DEF Kept, Current
<1>13. QED BY <1>5, <1>6, <1>7, <1>8, <1>9, <1>10, <1>11, <1>12 DEF Next

\* What has happened stays happened.
LEMMA EventsGrow ==
    ASSUME [Next]_vars PROVE events \subseteq events'
<1>1. CASE UNCHANGED vars BY <1>1 DEF vars
<1>2. CASE Next
    BY <1>2 DEF Next, Evaluate, seed, StartArchive, appendChain, UnlinkActive, RenameActive, Crash
<1>3. QED BY <1>1, <1>2

(* The inductive invariant of retention: the files are parts of one        *)
(* history, in every state of archiveGelChain, as far as the events that   *)
(* have happened allow.                                                    *)
THEOREM Invariance == Spec => []IndInv
<1>1. ASSUME IndInv, [Next]_vars PROVE IndInv'
  <2>1. Base /\ Base' BY <1>1, BaseStep DEF IndInv, Base
  <2>2. events \subseteq events' BY <1>1, EventsGrow
  <2>3. ASSUME "crash_swapping" \notin events' PROVE Kept'
      BY <1>1, <2>1, <2>2, <2>3, KeptStep DEF IndInv
  <2>4. ASSUME Harmless' PROVE Good'
    <3>1. Harmless BY <2>2, <2>4 DEF Harmless
    <3>2. Good BY <1>1, <2>1, <3>1 DEF IndInv, Harmless, Good
    <3>3. QED BY <1>1, <2>1, <2>4, <3>1, <3>2, GoodStep
  <2>5. QED BY <2>1, <2>3, <2>4 DEF IndInv, Base, Good, Harmless
<1>2. QED BY <1>1, InitIndInv, PTL DEF Spec

\* An archive and an active file that meet are the history.
LEMMA JoinIsHistory ==
    ASSUME TypeOK, Oldest(archive), Newest(active), Len(archive) + Len(active) = Len(history)
    PROVE  archive \o active = history
<1> DEFINE joined == archive \o active
<1>1. /\ archive \in Seq(GelRecord) /\ active \in Seq(GelRecord) /\ history \in Seq(GelRecord)
    BY DEF TypeOK
<1>2. /\ Len(archive) \in Nat /\ Len(active) \in Nat /\ Len(history) \in Nat
      /\ DOMAIN archive = 1 .. Len(archive) /\ DOMAIN active = 1 .. Len(active)
    BY <1>1, Lengths
<1>3. /\ joined \in Seq(GelRecord) /\ Len(joined) = Len(archive) + Len(active)
      /\ \A i \in 1 .. (Len(archive) + Len(active)) :
            joined[i] = IF i <= Len(archive) THEN archive[i] ELSE active[i - Len(archive)]
    BY <1>1, ConcatProperties
<1> HIDE DEF joined
<1>4. ASSUME NEW i \in 1 .. Len(history) PROVE joined[i] = history[i]
  <2>1. CASE i <= Len(archive)
    <3>1. i \in DOMAIN archive BY <1>2, <2>1
    <3>2. QED BY <1>3, <2>1, <3>1 DEF Oldest
  <2>2. CASE ~(i <= Len(archive))
    <3>1. /\ i - Len(archive) \in DOMAIN active
          /\ Len(history) - Len(active) + (i - Len(archive)) = i
        BY <1>2, <2>2
    <3>2. QED BY <1>3, <2>2, <3>1 DEF Newest
  <2>3. QED BY <2>1, <2>2
<1>5. joined = history BY <1>1, <1>3, <1>4, SeqEqual
<1>6. QED BY <1>5 DEF joined

\* The file that is being appended to still is the active file.
LEMMA IdleFacts ==
    ASSUME Good, pc = "idle"
    PROVE  /\ TypeOK /\ Newest(active) /\ copied = 0 /\ Current = active
           /\ history # <<>> => active # <<>>
           /\ Len(history) \in Nat /\ DOMAIN history = 1 .. Len(history)
           /\ Len(archive) \in Nat /\ DOMAIN archive = 1 .. Len(archive)
           /\ Len(active) \in Nat /\ DOMAIN active = 1 .. Len(active)
<1>1. Current = active BY DEF Current
<1>2. QED BY <1>1, Lengths DEF Good, Base, TypeOK, ActiveIsNewest, ArchiverState

(* No record is lost: whatever rounds and crashes there have been, unless  *)
(* one fell between unlink and rename, each record is in the active file   *)
(* or in the archive when archiveGelChain is not under way.                *)
THEOREM RecordsKept == Spec => []NothingLost
<1>1. IndInv => NothingLost BY DEF IndInv, Kept, Current, NothingLost
<1>2. QED BY <1>1, Invariance, PTL

(* What restoreArchive reports as restored is the whole history: copies    *)
(* left in the archive by crashes make it fail, never succeed.             *)
THEOREM RestoreIsComplete ==
    Spec => []RestoreComplete
<1>1. IndInv => RestoreComplete
  <2> SUFFICES ASSUME Good, pc = "idle", restoreOk PROVE archive \o active = history
      BY DEF RestoreComplete, IndInv, Good, Base
  <2>1. archive = <<>> <=> Len(archive) = 0 BY Lengths DEF Good, Base, TypeOK
  <2>2. active = <<>> <=> Len(active) = 0 BY Lengths DEF Good, Base, TypeOK
  <2>3. history = <<>> <=> Len(history) = 0 BY Lengths DEF Good, Base, TypeOK
  <2>4. Len(active) <= Len(history) BY IdleFacts DEF Newest
  <2>5. CASE archive = <<>>
    <3>1. Len(archive) = 0 /\ DOMAIN archive = {} BY <2>1, <2>5, IdleFacts
    <3>2. Len(history) = Len(active)
      <4>1. ASSUME Len(history) # Len(active) PROVE FALSE
        <5>1. 1 \in 1 .. (Len(history) - Len(Current) + copied)
          <6>1. Len(Current) = Len(active) /\ copied = 0 BY IdleFacts
          <6>2. Len(history) \in Nat /\ Len(active) \in Nat BY IdleFacts
          <6>3. QED BY <4>1, <2>4, <6>1, <6>2
        <5>2. QED BY <3>1, <5>1 DEF Good, ArchiveCovers
      <4>2. QED BY <4>1
    <3>3. Oldest(archive) BY <3>1, IdleFacts DEF Oldest
    <3>4. QED BY <3>1, <3>2, <3>3, IdleFacts, JoinIsHistory
  <2>6. CASE active = <<>>
    <3>1. Len(history) = 0 /\ DOMAIN history = {} BY <2>3, <2>6, IdleFacts
    <3>2. DOMAIN archive = {} BY <3>1 DEF Good, ArchiveCovers
    <3>3. Len(archive) = 0 BY <3>2, IdleFacts
    <3>4. QED BY <2>1, <2>5, <3>3
  <2>7. CASE archive # <<>> /\ active # <<>>
    <3> DEFINE joined == archive \o active
    <3>1. active[1].previous = LastHash(archive) /\ verifyGelRecords(joined)
        BY <2>7 DEF restoreOk
    <3>2. /\ joined \in Seq(GelRecord) /\ Len(joined) = Len(archive) + Len(active)
          /\ \A i \in 1 .. (Len(archive) + Len(active)) :
                joined[i] = IF i <= Len(archive) THEN archive[i] ELSE active[i - Len(archive)]
        BY ConcatProperties DEF Good, Base, TypeOK
    <3>3. DOMAIN joined = 1 .. (Len(archive) + Len(active)) BY <3>2, Lengths
    <3> HIDE DEF joined
    <3>4. verifyGelRecords(archive)
      <4> SUFFICES ASSUME NEW i \in DOMAIN archive
                   PROVE  archive[i].previous = IF i = 1 THEN GENESIS_HASH ELSE archive[i - 1].hash
          BY DEF verifyGelRecords, verifyGelRecordsStartingFrom
      <4>1. /\ i \in DOMAIN joined /\ joined[i] = archive[i]
            /\ i # 1 => joined[i - 1] = archive[i - 1]
          BY <3>2, <3>3, IdleFacts
      <4>2. QED BY <3>1, <4>1 DEF verifyGelRecords, verifyGelRecordsStartingFrom
    <3>5. Oldest(archive) BY <3>4 DEF Good, ArchiveCovers
    <3>6. Len(archive) \in DOMAIN archive /\ Len(archive) \in DOMAIN history
        BY <2>1, <2>7, <3>5, IdleFacts DEF Oldest
    <3>7. LastHash(archive) = Len(archive)
        BY <2>7, <3>5, <3>6 DEF LastHash, Oldest, Good, ChainIntact
    <3>8. 1 \in DOMAIN active /\ Len(history) - Len(active) + 1 \in DOMAIN history
        BY <2>2, <2>4, <2>7, IdleFacts
    <3>9. active[1] = history[Len(history) - Len(active) + 1] BY <3>8, IdleFacts DEF Newest
    <3>10. active[1].previous = Len(history) - Len(active) + 1 - 1
        BY <3>8, <3>9 DEF Good, ChainIntact
    <3>11. Len(archive) + Len(active) = Len(history)
      <4>1. Len(archive) \in Nat /\ Len(active) \in Nat /\ Len(history) \in Nat BY IdleFacts
      <4>2. Len(archive) = Len(history) - Len(active) + 1 - 1 BY <3>1, <3>7, <3>10
      <4>3. QED BY <4>1, <4>2
    <3>12. QED BY <3>5, <3>11, IdleFacts, JoinIsHistory
  <2>8. QED BY <2>5, <2>6, <2>7
<1>2. QED BY <1>1, Invariance, PTL

(* Without crashes every state between two calls is the archive followed   *)
(* by the active file.                                                     *)
THEOREM Atomicity ==
    Spec => []ArchiveIsAtomic
<1>1. IndInv => ArchiveIsAtomic
  <2> SUFFICES ASSUME Good, events = {}, pc = "idle" PROVE archive \o active = history
      BY DEF ArchiveIsAtomic, IndInv, Good, Base
  <2>1. Oldest(archive) /\ Len(archive) = Len(history) - Len(active)
      BY IdleFacts DEF Good, ArchiveCovers
  <2>2. QED BY <2>1, IdleFacts, JoinIsHistory
<1>2. QED BY <1>1, Invariance, PTL

(* Without crashes both files verify after any number of rounds and        *)
(* restarts, the active one from the archive's tip.                        *)
THEOREM BothVerify ==
    Spec => []FilesVerify
<1>1. IndInv => FilesVerify
  <2> SUFFICES ASSUME Good, events = {}, pc = "idle"
               PROVE  /\ verifyGelRecords(archive)
                      /\ verifyGelRecordsStartingFrom(active, LastHash(archive))
      BY DEF FilesVerify, IndInv, Good, Base
  <2>1. Oldest(archive) /\ Len(archive) = Len(history) - Len(active)
      BY IdleFacts DEF Good, ArchiveCovers
  <2>2. \A i \in DOMAIN history : history[i].hash = i /\ history[i].previous = i - 1
      BY DEF Good, ChainIntact
  <2>3. \A i \in DOMAIN archive : archive[i].hash = i /\ archive[i].previous = i - 1
      BY <2>1, <2>2, IdleFacts DEF Oldest
  <2>4. verifyGelRecords(archive)
      BY <2>3, IdleFacts DEF verifyGelRecords, verifyGelRecordsStartingFrom, GENESIS_HASH
  <2>5. LastHash(archive) = Len(archive)
    <3>1. archive = <<>> <=> Len(archive) = 0 BY Lengths DEF Good, Base, TypeOK
    <3>2. QED BY <2>3, <3>1, IdleFacts DEF LastHash, GENESIS_HASH
  <2>6. \A i \in DOMAIN active : active[i].hash = Len(archive) + i
                              /\ active[i].previous = Len(archive) + i - 1
    <3> SUFFICES ASSUME NEW i \in DOMAIN active
                 PROVE  active[i].hash = Len(archive) + i /\ active[i].previous = Len(archive) + i - 1
        OBVIOUS
    <3>1. Len(archive) + i \in DOMAIN history /\ Len(archive) + i = Len(history) - Len(active) + i
        BY <2>1, IdleFacts
    <3>2. active[i] = history[Len(archive) + i] BY <3>1, IdleFacts DEF Newest
    <3>3. active[i].hash = Len(archive) + i /\ active[i].previous = (Len(archive) + i) - 1
        BY <2>2, <3>1, <3>2
    <3>4. QED BY <3>3
  <2>7. verifyGelRecordsStartingFrom(active, LastHash(archive))
      BY <2>5, <2>6, IdleFacts DEF verifyGelRecordsStartingFrom
  <2>8. QED BY <2>4, <2>7
<1>2. QED BY <1>1, Invariance, PTL
=============================================================================
