-------------------------- MODULE FileStoreProofs --------------------------
(***************************************************************************)
(* Theorems of the two stores that keep their state in one file: replay    *)
(* protection of NonceStore for any nonces, any maxAgeMs and any number of *)
(* crashes, and the resolutions of ConflictInbox for any actions and       *)
(* decisions.                                                              *)
(***************************************************************************)
EXTENDS NonceStore, ConflictInbox, SequenceTheorems, FiniteSetTheorems, TLAPS

-----------------------------------------------------------------------------
(* The nonce store                                                         *)

\* The elements of the history and their type.
LEMMA AcceptedType ==
    ASSUME TypeOK, NEW i \in DOMAIN accepted
    PROVE  accepted[i].nonce \in Nonces /\ accepted[i].at \in Nat /\ i \in Nat
<1>1. accepted \in Seq([nonce : Nonces, at : Nat]) BY DEF TypeOK
<1>2. DOMAIN accepted = 1 .. Len(accepted) /\ Len(accepted) \in Nat
    BY <1>1, LenProperties
<1>3. accepted[i] \in [nonce : Nonces, at : Nat] BY <1>1, <1>2, ElementOfSeq
<1>4. QED BY <1>2, <1>3

\* Eviction forgets nothing that is younger than maxAgeMs.
LEMMA SurvivorsHold ==
    ASSUME TypeOK, NEW index \in Index, Holds(index)
    PROVE  Survivors(index) \in Index /\ Holds(Survivors(index))
<1>1. Survivors(index) \in Index
    BY DEF Survivors, Index
<1>2. ASSUME NEW i \in DOMAIN accepted, clock - accepted[i].at < MaxAge
      PROVE  Survivors(index)[accepted[i].nonce] >= accepted[i].at
  <2>1. accepted[i].nonce \in Nonces /\ accepted[i].at \in Nat BY AcceptedType
  <2>2. index[accepted[i].nonce] >= accepted[i].at BY <1>2 DEF Holds
  <2>3. index[accepted[i].nonce] \in Int BY <2>1 DEF Index, Never
  <2>4. QED
      BY <1>2, <2>1, <2>2, <2>3, NonceStoreAssumption DEF Survivors, TypeOK
<1>3. QED BY <1>1, <1>2 DEF Holds

\* A new time stamp for a nonce keeps what an index holds.
LEMMA StampHolds ==
    ASSUME TypeOK, \A i \in DOMAIN accepted : accepted[i].at <= clock,
           NEW index \in Index, Holds(index), NEW n \in Nonces
    PROVE  [index EXCEPT ![n] = clock] \in Index /\ Holds([index EXCEPT ![n] = clock])
BY AcceptedType DEF Holds, Index, TypeOK

\* What the invariant says as long as no crash has done harm.
Good == TypeOK /\ NeverTwice /\ Covered

\* Steps that neither accept a nonce nor move the clock.
LEMMA FileStep ==
    ASSUME Good, TypeOK', UNCHANGED <<clock, accepted>>, ~torn',
           pc' # "down" => Holds(seen'),
           pc' \in {"written", "unlinked"} => Holds(tmp'),
           pc' # "unlinked" => Holds(file')
    PROVE  Good'
BY DEF Good, Covered, Holds, NeverTwice, Replay

\* The initial state holds the invariant: nothing has been accepted.
LEMMA InitIndInv == Init => IndInv
<1> SUFFICES ASSUME Init PROVE IndInv OBVIOUS
<1>1. Empty \in Index BY DEF Empty, Index
<1>2. accepted \in Seq([nonce : Nonces, at : Nat]) /\ DOMAIN accepted = {}
    BY EmptySeq DEF Init
<1>3. TypeOK BY <1>1, <1>2 DEF Init, TypeOK
<1>4. QED BY <1>2, <1>3 DEF Init, IndInv, NeverTwice, Covered, Holds

\* A nonce that is accepted was not held, so its earlier acceptance is old.
LEMMA AcceptStep ==
    ASSUME Good, NEW n \in Nonces, addAndCheck(n), TypeOK'
    PROVE  Good'
<1> DEFINE new == [nonce |-> n, at |-> clock]
           k == Len(accepted) + 1
<1>1. /\ clock \in Nat /\ clock' = clock /\ pc' = pc /\ tmp' = tmp /\ pc = "up" /\ ~has(n)
      /\ seen' = [seen EXCEPT ![n] = clock] /\ file' = [file EXCEPT ![n] = clock] /\ ~torn'
      /\ torn' = FALSE /\ accepted' = Append(accepted, new)
    BY DEF addAndCheck, persist, Good, Covered, TypeOK
<1>2. /\ Len(accepted) \in Nat /\ DOMAIN accepted = 1 .. Len(accepted)
      /\ accepted' \in Seq([nonce : Nonces, at : Nat]) /\ DOMAIN accepted' = 1 .. k
      /\ \A i \in DOMAIN accepted : accepted'[i] = accepted[i]
      /\ accepted'[k] = new
    BY <1>1, AppendProperties, LenProperties DEF Good, TypeOK
<1>3. /\ seen' \in Index /\ Holds([seen EXCEPT ![n] = clock])
      /\ file' \in Index /\ Holds([file EXCEPT ![n] = clock])
    BY <1>1, StampHolds DEF Good, Covered, TypeOK
<1>5. \A i \in DOMAIN accepted' : i = k \/ i \in DOMAIN accepted BY <1>2
<1>6. \A i \in DOMAIN accepted' : accepted'[i].at <= clock'
    BY <1>1, <1>2, <1>5 DEF Good, Covered
<1>7. seen'[n] = clock /\ file'[n] = clock BY <1>1 DEF Good, TypeOK, Index
<1>8. Holds(seen)' /\ Holds(file)' BY <1>1, <1>2, <1>3, <1>5, <1>7 DEF Holds
<1>9. ASSUME NEW i \in DOMAIN accepted, accepted[i].nonce = n
      PROVE  clock - accepted[i].at >= MaxAge
  <2>1. accepted[i].at \in Nat BY AcceptedType DEF Good
  <2>2. seen[n] \in Int BY DEF Good, TypeOK, Index, Never
  <2>3. clock - accepted[i].at < MaxAge => seen[n] >= accepted[i].at
      BY <1>1, <1>9 DEF Good, Covered, Holds
  <2>4. QED BY <1>1, <2>1, <2>2, <2>3, NonceStoreAssumption DEF has, Never
<1>10. NeverTwice'
  <2> SUFFICES ASSUME NEW i \in DOMAIN accepted', NEW j \in DOMAIN accepted',
                      Replay(i, j)'
               PROVE  FALSE
      BY DEF NeverTwice
  <2>1. CASE j \in DOMAIN accepted
    <3>1. i \in DOMAIN accepted BY <1>2, <2>1 DEF Replay
    <3>2. QED BY <1>2, <2>1, <3>1 DEF Good, NeverTwice, Replay
  <2>2. CASE j = k
    <3>1. i \in DOMAIN accepted BY <1>2, <2>2 DEF Replay
    <3>2. accepted'[j].nonce = n /\ accepted'[j].at = clock BY <1>2, <2>2
    <3>3. accepted[i].nonce = n /\ accepted'[i] = accepted[i] BY <1>2, <3>1, <3>2 DEF Replay
    <3>4. accepted[i].at \in Nat BY <3>1, AcceptedType DEF Good
    <3>5. QED BY <1>1, <1>9, <3>1, <3>2, <3>3, <3>4, NonceStoreAssumption DEF Replay
  <2>3. QED BY <1>5, <2>1, <2>2
<1>11. QED BY <1>1, <1>6, <1>8, <1>10 DEF Good, Covered

\* Every step that does no harm keeps it.
LEMMA NextGood ==
    ASSUME Good, [Next]_vars, TypeOK', Intact, Intact'
    PROVE  Good'
<1> USE DEF Good, Covered
<1>1. ASSUME NEW n \in Nonces, addAndCheck(n) PROVE Good' BY <1>1, AcceptStep
<1>2. ASSUME NEW n \in Nonces, add(n) PROVE Good'
  <2>1. /\ seen' = [seen EXCEPT ![n] = clock] /\ file' = [file EXCEPT ![n] = clock]
        /\ torn' = FALSE /\ pc = "up" /\ UNCHANGED <<clock, pc, tmp, accepted>>
      BY <1>2 DEF add, persist
  <2>2. /\ seen' \in Index /\ Holds(seen') /\ file' \in Index /\ Holds(file')
      BY <2>1, StampHolds DEF TypeOK
  <2>4. QED BY <2>1, <2>2, FileStep
<1>3. ASSUME NEW n \in Nonces, Forget(n) PROVE Good'
  <2>1. /\ seen' = [seen EXCEPT ![n] = Never] /\ pc = "up" /\ ~has(n) /\ seen[n] # Never
        /\ UNCHANGED <<clock, pc, file, torn, tmp, accepted>>
      BY <1>3 DEF Forget
  <2>2. seen' \in Index BY <2>1 DEF TypeOK, Index
  <2>4. ASSUME NEW i \in DOMAIN accepted, clock - accepted[i].at < MaxAge
        PROVE  seen'[accepted[i].nonce] >= accepted[i].at
    <3>1. accepted[i].nonce \in Nonces /\ accepted[i].at \in Nat BY AcceptedType
    <3>2. seen[accepted[i].nonce] >= accepted[i].at BY <2>1, <2>4 DEF Holds
    <3>3. seen[n] \in Int /\ clock \in Nat BY DEF TypeOK, Index, Never
    <3>4. accepted[i].nonce # n
        BY <2>1, <2>4, <3>1, <3>2, <3>3, NonceStoreAssumption DEF has
    <3>5. QED BY <2>1, <3>1, <3>2, <3>4 DEF TypeOK, Index
  <2>5. Holds(seen') BY <2>4 DEF Holds
  <2>6. QED BY <2>1, <2>5, FileStep
<1>4. ASSUME NEW n \in Nonces, CrashInAppend(n) PROVE Good'
  <2>1. /\ file' = [file EXCEPT ![n] = clock] /\ torn' = FALSE /\ pc = "up" /\ pc' = "down"
        /\ UNCHANGED <<clock, seen, tmp, accepted>>
      BY <1>4 DEF CrashInAppend, persist, Intact
  <2>2. file' \in Index /\ Holds(file') BY <2>1, StampHolds DEF TypeOK
  <2>4. QED BY <2>1, <2>2, FileStep
<1>5. CASE size
  <2>1. /\ seen' = Survivors(seen) /\ pc = "up"
        /\ UNCHANGED <<clock, pc, file, torn, tmp, accepted>>
      BY <1>5 DEF size
  <2>2. seen' \in Index /\ Holds(seen') BY <2>1, SurvivorsHold DEF TypeOK
  <2>4. QED BY <2>1, <2>2, FileStep
<1>6. CASE CompactWrite
  <2>1. /\ seen' = Survivors(seen) /\ tmp' = Survivors(seen) /\ pc = "up" /\ pc' = "written"
        /\ UNCHANGED <<clock, file, torn, accepted>>
      BY <1>6 DEF CompactWrite
  <2>2. seen' \in Index /\ Holds(seen') /\ tmp' \in Index /\ Holds(tmp')
      BY <2>1, SurvivorsHold DEF TypeOK
  <2>4. QED BY <2>1, <2>2, FileStep
<1>7. CASE CompactUnlink
  <2>1. /\ file' = Empty /\ torn' = FALSE /\ pc = "written" /\ pc' = "unlinked"
        /\ UNCHANGED <<clock, seen, tmp, accepted>>
      BY <1>7 DEF CompactUnlink
  <2>3. QED BY <2>1, FileStep
<1>8. CASE CompactRename
  <2>1. /\ file' = tmp /\ tmp' = Empty /\ pc = "unlinked" /\ pc' = "up"
        /\ UNCHANGED <<clock, seen, torn, accepted>>
      BY <1>8 DEF CompactRename
  <2>3. QED BY <2>1, FileStep
<1>9. CASE Crash
  <2>1. /\ pc \in {"up", "written"} /\ pc' = "down"
        /\ UNCHANGED <<clock, seen, file, torn, tmp, accepted>>
      BY <1>9 DEF Crash, Intact
  <2>3. QED BY <2>1, FileStep
<1>10. CASE hydrate
  <2>1. /\ seen' = Survivors(file) /\ pc = "down" /\ pc' = "up"
        /\ UNCHANGED <<clock, file, torn, tmp, accepted>>
      BY <1>10 DEF hydrate
  <2>2. seen' \in Index /\ Holds(seen') BY <2>1, SurvivorsHold DEF TypeOK
  <2>4. QED BY <2>1, <2>2, FileStep
<1>11. CASE Tick
  <2>1. /\ clock \in Nat /\ clock' = clock + 1
        /\ UNCHANGED <<pc, seen, file, torn, tmp, accepted>>
      BY <1>11 DEF Tick, TypeOK
  <2>2. \A i \in DOMAIN accepted : accepted[i].at \in Nat BY AcceptedType
  <2>3. \A i \in DOMAIN accepted :
          clock' - accepted[i].at < MaxAge => clock - accepted[i].at < MaxAge
      BY <2>1, <2>2, NonceStoreAssumption
  <2>5. \A i \in DOMAIN accepted : accepted[i].at <= clock' BY <2>1, <2>2
  <2>6. QED BY <2>1, <2>3, <2>5 DEF Holds, NeverTwice, Replay
<1>12. CASE UNCHANGED vars
  <2>1. UNCHANGED <<clock, pc, seen, file, torn, tmp, accepted>> BY <1>12 DEF vars
  <2>3. QED BY <2>1, FileStep
<1>13. QED
    BY <1>1, <1>2, <1>3, <1>4, <1>5, <1>6, <1>7, <1>8, <1>9, <1>10, <1>11, <1>12 DEF Next

\* Types are kept by every step.
LEMMA NextType ==
    ASSUME TypeOK, [Next]_vars PROVE TypeOK'
<1>1. \A n \in Nonces : /\ [seen EXCEPT ![n] = clock] \in Index
                        /\ [seen EXCEPT ![n] = Never] \in Index
                        /\ [file EXCEPT ![n] = clock] \in Index
                        /\ Append(accepted, [nonce |-> n, at |-> clock])
                             \in Seq([nonce : Nonces, at : Nat])
    BY DEF TypeOK, Index
<1>2. Survivors(seen) \in Index /\ Survivors(file) \in Index /\ Empty \in Index
    BY DEF TypeOK, Index, Survivors, Empty
<1>3. ASSUME NEW n \in Nonces, addAndCheck(n) \/ add(n) \/ Forget(n) PROVE TypeOK'
  <2>1. CASE addAndCheck(n)
      BY <1>1, <2>1 DEF TypeOK, addAndCheck, persist, mishaps
  <2>2. CASE add(n) BY <1>1, <2>2 DEF TypeOK, add, persist, mishaps
  <2>3. CASE Forget(n) BY <1>1, <2>3 DEF TypeOK, Forget, mishaps
  <2>4. QED BY <1>3, <2>1, <2>2, <2>3
<1>4. ASSUME NEW n \in Nonces, CrashInAppend(n) PROVE TypeOK'
  <2>1. /\ file' \in {file, [file EXCEPT ![n] = clock]} /\ (torn' = TRUE \/ torn' = FALSE)
        /\ tears' \in {tears, tears + 1} /\ pc' = "down"
        /\ UNCHANGED <<clock, seen, tmp, accepted, emptied>>
      BY <1>4 DEF CrashInAppend, persist
  <2>2. file' \in Index /\ tears' \in Nat
    <3>1. file \in Index /\ tears \in Nat BY DEF TypeOK
    <3>2. [file EXCEPT ![n] = clock] \in Index BY <1>1
    <3>3. file' \in Index BY <2>1, <3>1, <3>2, Zenon
    <3>4. QED BY <2>1, <3>1, <3>3
  <2>3. torn' \in BOOLEAN BY <2>1, Zenon
  <2>4. QED BY <2>1, <2>2, <2>3 DEF TypeOK
<1>5. CASE size \/ CompactWrite BY <1>2, <1>5 DEF TypeOK, size, CompactWrite, mishaps
<1>6. CASE CompactUnlink \/ CompactRename
    BY <1>2, <1>6 DEF TypeOK, CompactUnlink, CompactRename, mishaps
<1>7. CASE Crash \/ hydrate \/ Tick
  <2>1. CASE Crash
    <3>1. emptied' \in BOOLEAN BY <2>1, Zenon DEF Crash
    <3>2. QED BY <2>1, <3>1 DEF TypeOK, Crash
  <2>2. CASE hydrate \/ Tick BY <1>2, <2>2 DEF TypeOK, hydrate, Tick, mishaps
  <2>3. QED BY <1>7, <2>1, <2>2
<1>8. CASE UNCHANGED vars BY <1>8 DEF TypeOK, vars, mishaps
<1>9. QED BY <1>3, <1>4, <1>5, <1>6, <1>7, <1>8 DEF Next

\* Harm is not undone.
LEMMA HarmStays ==
    ASSUME TypeOK, [Next]_vars, Intact' PROVE Intact
<1>1. tears \in Nat /\ emptied \in BOOLEAN BY DEF TypeOK
<1>2. \/ UNCHANGED mishaps
      \/ tears' \in {tears, tears + 1} /\ UNCHANGED emptied
      \/ (emptied => emptied') /\ UNCHANGED tears
    BY DEF Next, addAndCheck, add, Forget, CrashInAppend, size, CompactWrite, CompactUnlink,
           CompactRename, Crash, hydrate, Tick, vars, mishaps
<1>3. QED BY <1>1, <1>2 DEF Intact, mishaps

\* Every step keeps the invariant.
LEMMA NextIndInv == IndInv /\ [Next]_vars => IndInv'
<1> SUFFICES ASSUME IndInv, [Next]_vars PROVE IndInv' OBVIOUS
<1>1. TypeOK' BY NextType DEF IndInv
<1>2. ASSUME Intact' PROVE (NeverTwice /\ Covered)'
  <2>1. Intact BY <1>2, HarmStays DEF IndInv
  <2>2. Good BY <2>1 DEF IndInv, Good
  <2>3. Good' BY <1>1, <1>2, <2>1, <2>2, NextGood
  <2>4. QED BY <2>3 DEF Good
<1>3. QED BY <1>1, <1>2 DEF IndInv

(* Memory, file and temporary file each hold every acceptance that is      *)
(* younger than maxAgeMs whenever the next step may rely on them, until a  *)
(* crash falls into one of the two harmful windows.                        *)
THEOREM Invariance == Spec => []IndInv
<1>1. QED BY InitIndInv, NextIndInv, PTL DEF Spec

(* addAndCheck never accepts a nonce again within maxAgeMs, unless a crash *)
(* has torn a line or fallen between unlink and rename.                    *)
THEOREM ReplayProtection == Spec => []ReplayRefused
<1>1. IndInv => ReplayRefused BY DEF IndInv, ReplayRefused
<1>2. QED BY <1>1, Invariance, PTL

-----------------------------------------------------------------------------
(* What a torn line can cost                                               *)

Torn == IF torn THEN 1 ELSE 0

\* Repeats and forgotten nonces are finitely many.
LEMMA CountsAreFinite ==
    ASSUME TypeOK, NEW index
    PROVE  /\ IsFiniteSet(Repeats) /\ Cardinality(Repeats) \in Nat
           /\ IsFiniteSet(Forgotten(index)) /\ Cardinality(Forgotten(index)) \in Nat
<1>1. DOMAIN accepted = 1 .. Len(accepted) /\ Len(accepted) \in Nat
    BY LenProperties DEF TypeOK
<1>2. IsFiniteSet(DOMAIN accepted) BY <1>1, FS_Interval
<1>3. Repeats \in SUBSET DOMAIN accepted BY DEF Repeats
<1> DEFINE f == [i \in DOMAIN accepted |-> accepted[i].nonce]
           T == {accepted[i].nonce : i \in DOMAIN accepted}
<1>4. f \in Surjection(DOMAIN accepted, T) BY DEF Surjection
<1>5. IsFiniteSet(T)
  <2> HIDE DEF f, T
  <2>1. QED BY <1>2, <1>4, FS_Surjection
<1>6. Forgotten(index) \in SUBSET T BY DEF Forgotten
<1>7. IsFiniteSet(Repeats) /\ IsFiniteSet(Forgotten(index)) BY <1>2, <1>3, <1>5, <1>6, FS_Subset
<1>8. QED BY <1>7, FS_CardinalityType

\* Eviction loses nothing that is young enough to matter.
LEMMA SurvivorsForgetNothing ==
    ASSUME TypeOK, NEW index \in Index
    PROVE  Forgotten(Survivors(index)) \subseteq Forgotten(index)
<1> SUFFICES ASSUME NEW n \in Nonces, NEW i \in DOMAIN accepted, accepted[i].nonce = n,
                    clock - accepted[i].at < MaxAge, Survivors(index)[n] < accepted[i].at
             PROVE  index[n] < accepted[i].at
    BY DEF Forgotten
<1>1. accepted[i].at \in Nat /\ clock \in Nat /\ index[n] \in Int
    BY AcceptedType DEF TypeOK, Index, Never
<1>2. Survivors(index)[n] = IF index[n] <= clock - MaxAge THEN Never ELSE index[n] BY DEF Survivors
<1>3. QED BY <1>1, <1>2, NonceStoreAssumption

\* A new time stamp makes up for what the index had lost of a nonce.
LEMMA StampRemembers ==
    ASSUME TypeOK, \A i \in DOMAIN accepted : accepted[i].at <= clock,
           NEW index \in Index, NEW n \in Nonces
    PROVE  Forgotten([index EXCEPT ![n] = clock]) = Forgotten(index) \ {n}
<1> DEFINE new == [index EXCEPT ![n] = clock]
<1>1. new[n] = clock /\ \A m \in Nonces : m # n => new[m] = index[m] BY DEF Index
<1> HIDE DEF new
<1>2. \A i \in DOMAIN accepted : accepted[i].at \in Nat /\ ~(clock < accepted[i].at)
    BY AcceptedType DEF TypeOK
<1>3. QED BY <1>1, <1>2 DEF Forgotten, new

\* Dropping what has expired loses nothing.
LEMMA DropForgetsNothing ==
    ASSUME TypeOK, NEW n \in Nonces, ~has(n)
    PROVE  Forgotten([seen EXCEPT ![n] = Never]) \subseteq Forgotten(seen)
<1> DEFINE new == [seen EXCEPT ![n] = Never]
<1>1. new[n] = Never /\ \A m \in Nonces : m # n => new[m] = seen[m] BY DEF TypeOK, Index
<1> HIDE DEF new
<1> SUFFICES ASSUME NEW m \in Nonces, NEW i \in DOMAIN accepted, accepted[i].nonce = m,
                    clock - accepted[i].at < MaxAge, new[m] < accepted[i].at
             PROVE  seen[m] < accepted[i].at
    BY DEF Forgotten, new
<1>2. accepted[i].at \in Nat /\ clock \in Nat /\ seen[n] \in Int
    BY AcceptedType DEF TypeOK, Index, Never
<1>3. CASE m = n BY <1>2, <1>3, NonceStoreAssumption DEF has, Never
<1>4. CASE m # n BY <1>1, <1>4
<1>5. QED BY <1>3, <1>4

\* A nonce that is not in the Map was not accepted lately, or is forgotten.
LEMMA UnknownIsOldOrForgotten ==
    ASSUME TypeOK, NEW n \in Nonces, ~has(n), n \notin Forgotten(seen),
           NEW i \in DOMAIN accepted, accepted[i].nonce = n
    PROVE  clock - accepted[i].at >= MaxAge
<1>1. accepted[i].at \in Nat /\ clock \in Nat /\ seen[n] \in Int
    BY AcceptedType DEF TypeOK, Index, Never
<1>2. clock - accepted[i].at < MaxAge => ~(seen[n] < accepted[i].at) BY DEF Forgotten
<1>3. QED BY <1>1, <1>2, NonceStoreAssumption DEF has, Never

\* What is charged covers what is due.
LEMMA Balance ==
    ASSUME NEW r \in Nat, NEW c \in Nat, NEW m \in Nat, NEW t \in Int, NEW u \in Int,
           NEW e \in Nat, NEW f \in Nat,
           r + c + t <= e, m <= c, u - f <= t - e
    PROVE  r + m + u <= f
OBVIOUS

\* The books balance after a step that accepts nothing, forgets nothing more
\* and is charged for the line it tears.
LEMMA QuietTears ==
    ASSUME TypeOK, TypeOK', TearsInv, ~emptied, accepted' = accepted, clock' = clock,
           Forgotten(Kept)' \subseteq Forgotten(Kept), Torn' - tears' <= Torn - tears,
           (pc \in {"written", "unlinked"} => seen = tmp)',
           (pc # "down" => Forgotten(seen) \subseteq Forgotten(Kept))'
    PROVE  TearsInv'
<1> DEFINE K == Forgotten(Kept)
           M == Forgotten(Kept)'
<1>1. \A i \in DOMAIN accepted : accepted[i].at <= clock BY DEF TearsInv
<1>2. Cardinality(Repeats) + Cardinality(K) + Torn <= tears BY DEF TearsInv, Torn
<1>3. Repeats' = Repeats BY DEF Repeats, Replay
<1>4. Cardinality(Repeats) \in Nat /\ IsFiniteSet(K) /\ Cardinality(K) \in Nat BY CountsAreFinite
<1>5. M \in SUBSET K OBVIOUS
<1> HIDE DEF K, M
<1>6. Cardinality(M) \in Nat /\ Cardinality(M) <= Cardinality(K)
    BY <1>4, <1>5, FS_Subset, FS_CardinalityType
<1>7. tears \in Nat /\ tears' \in Nat /\ Torn \in Int /\ Torn' \in Int BY DEF TypeOK, Torn
<1>8. Cardinality(Repeats)' + Cardinality(M) + Torn' <= tears'
  <2>1. Cardinality(Repeats)' = Cardinality(Repeats) BY <1>3
  <2> DEFINE r == Cardinality(Repeats)
             c == Cardinality(K)
             m == Cardinality(M)
             t == Torn
             u == Torn'
  <2>2. /\ r \in Nat /\ c \in Nat /\ m \in Nat /\ t \in Int /\ u \in Int
        /\ tears \in Nat /\ tears' \in Nat
        /\ r + c + t <= tears /\ m <= c /\ u - tears' <= t - tears
      BY <1>2, <1>4, <1>6, <1>7
  <2> HIDE DEF r, c, m, t, u
  <2>3. r + m + u <= tears' BY <2>2, Balance
  <2>4. QED BY <2>1, <2>3 DEF r, m, u
<1>9. QED BY <1>1, <1>8 DEF TearsInv, Torn, M

\* Accepting a nonce: the one that is accepted a second time is one the file had
\* lost; the one whose line is lost pays with the torn line it was put behind.
LEMMA AcceptTears ==
    ASSUME TypeOK, TypeOK', TearsInv, ~emptied, NEW n \in Nonces, addAndCheck(n)
    PROVE  TearsInv'
<1> DEFINE new == [nonce |-> n, at |-> clock]
           k == Len(accepted) + 1
           K == Forgotten(file)
           M == Forgotten(file)'
<1>1. /\ clock \in Nat /\ clock' = clock /\ pc' = pc /\ pc = "up" /\ ~has(n)
      /\ tears' = tears /\ tears \in Nat
      /\ seen' = [seen EXCEPT ![n] = clock] /\ torn' = FALSE
      /\ file' = IF torn THEN file ELSE [file EXCEPT ![n] = clock]
      /\ accepted' = Append(accepted, new)
    BY DEF addAndCheck, persist, TypeOK, mishaps
<1>2. /\ Len(accepted) \in Nat /\ DOMAIN accepted = 1 .. Len(accepted)
      /\ DOMAIN accepted' = 1 .. k
      /\ \A i \in DOMAIN accepted : accepted'[i] = accepted[i] /\ i # k
      /\ accepted'[k] = new
    BY <1>1, AppendProperties, LenProperties DEF TypeOK
<1>3. k \in DOMAIN accepted' /\ \A i \in DOMAIN accepted' : i = k \/ i \in DOMAIN accepted BY <1>2
<1>4. /\ \A i \in DOMAIN accepted : accepted[i].at <= clock
      /\ Forgotten(seen) \subseteq K
      /\ Cardinality(Repeats) + Cardinality(K) + Torn <= tears
    BY <1>1 DEF TearsInv, Kept, Torn
<1>5. \A i \in DOMAIN accepted' : accepted'[i].at <= clock' BY <1>1, <1>2, <1>3, <1>4
<1>6. ASSUME NEW index \in Index
      PROVE  {m \in Nonces : \E i \in DOMAIN accepted' :
                 /\ accepted'[i].nonce = m /\ clock' - accepted'[i].at < MaxAge
                 /\ index[m] < accepted'[i].at} \subseteq Forgotten(index) \union {n}
    BY <1>1, <1>2, <1>3 DEF Forgotten
<1>7. Forgotten(seen)' \subseteq Forgotten(seen) \ {n}
  <2>1. Forgotten([seen EXCEPT ![n] = clock]) = Forgotten(seen) \ {n}
      BY <1>4, StampRemembers DEF TypeOK
  <2>2. Forgotten(seen)' \subseteq Forgotten(seen') \union {n} BY <1>6 DEF Forgotten, TypeOK
  <2>3. seen'[n] = clock BY <1>1 DEF TypeOK, Index
  <2>4. n \notin Forgotten(seen)' BY <1>1, <1>5, <2>3, AcceptedType DEF Forgotten, TypeOK
  <2>5. QED BY <1>1, <2>1, <2>2, <2>4
<1>8. M \subseteq K \union {n} /\ (~torn => M \subseteq K \ {n})
  <2>1. M \subseteq Forgotten(file') \union {n} BY <1>6 DEF Forgotten, TypeOK
  <2>2. CASE torn BY <1>1, <2>1, <2>2
  <2>3. CASE ~torn
    <3>1. file' = [file EXCEPT ![n] = clock] BY <1>1, <2>3
    <3>2. Forgotten(file') = K \ {n} BY <1>4, <3>1, StampRemembers DEF TypeOK
    <3>3. file'[n] = clock BY <3>1 DEF TypeOK, Index
    <3>4. n \notin M BY <1>1, <1>5, <3>3, AcceptedType DEF Forgotten, TypeOK
    <3>5. QED BY <2>1, <3>2, <3>4
  <2>4. QED BY <2>2, <2>3
<1>9. Repeats' \subseteq Repeats \union {k} /\ (n \notin Forgotten(seen) => Repeats' \subseteq Repeats)
  <2>1. ASSUME NEW j \in Repeats', j # k PROVE j \in Repeats
    <3>1. PICK i \in DOMAIN accepted' : Replay(i, j)' BY DEF Repeats
    <3>2. j \in DOMAIN accepted BY <1>3, <2>1 DEF Repeats
    <3>3. i \in DOMAIN accepted BY <1>2, <3>1, <3>2 DEF Replay
    <3>4. QED BY <1>2, <3>1, <3>2, <3>3 DEF Repeats, Replay
  <2>2. ASSUME n \notin Forgotten(seen), NEW j \in Repeats', j = k PROVE FALSE
    <3>1. PICK i \in DOMAIN accepted' : Replay(i, j)' BY DEF Repeats
    <3>2. i \in DOMAIN accepted BY <1>2, <2>2, <3>1 DEF Replay
    <3>3. accepted[i].nonce = n /\ clock - accepted[i].at < MaxAge BY <1>2, <2>2, <3>1, <3>2 DEF Replay
    <3>4. clock - accepted[i].at >= MaxAge
        BY <1>1, <2>2, <3>2, <3>3, UnknownIsOldOrForgotten
    <3>5. accepted[i].at \in Nat BY <3>2, AcceptedType
    <3>6. QED BY <1>1, <3>3, <3>4, <3>5, NonceStoreAssumption
  <2>3. QED BY <2>1, <2>2
<1> DEFINE R == Repeats
           S == Repeats'
<1>10. /\ IsFiniteSet(R) /\ Cardinality(R) \in Nat /\ IsFiniteSet(K) /\ Cardinality(K) \in Nat
    BY CountsAreFinite
<1>11. n \in Forgotten(seen) => n \in K BY <1>4
<1> HIDE DEF K, M, R, S, k
<1>12. /\ Cardinality(S) \in Nat /\ Cardinality(S) <= Cardinality(R) + 1
       /\ n \notin Forgotten(seen) => Cardinality(S) <= Cardinality(R)
  <2>1. S \in SUBSET (R \union {k}) /\ (n \notin Forgotten(seen) => S \in SUBSET R)
      BY <1>9 DEF R, S
  <2>2. IsFiniteSet(R \union {k}) /\ Cardinality(R \union {k}) <= Cardinality(R) + 1
        /\ Cardinality(R \union {k}) \in Nat
    <3>1. /\ IsFiniteSet(R \union {k})
          /\ Cardinality(R \union {k}) =
               IF k \in R THEN Cardinality(R) ELSE Cardinality(R) + 1
        BY <1>10, FS_AddElement
    <3>2. QED BY <1>10, <3>1
  <2>3. IsFiniteSet(S) /\ Cardinality(S) <= Cardinality(R \union {k}) BY <2>1, <2>2, FS_Subset
  <2>4. Cardinality(S) \in Nat BY <2>3, FS_CardinalityType
  <2>5. n \notin Forgotten(seen) => Cardinality(S) <= Cardinality(R) BY <1>10, <2>1, FS_Subset
  <2>6. QED BY <1>10, <2>2, <2>3, <2>4, <2>5
<1>13. /\ Cardinality(M) \in Nat /\ Cardinality(M) <= Cardinality(K) + 1
       /\ n \in K \/ ~torn => Cardinality(M) <= Cardinality(K)
       /\ n \in K /\ ~torn => Cardinality(M) <= Cardinality(K) - 1
  <2>1. M \in SUBSET (K \union {n}) BY <1>8
  <2>2. IsFiniteSet(K \union {n}) /\ Cardinality(K \union {n}) <= Cardinality(K) + 1
        /\ Cardinality(K \union {n}) \in Nat
    <3>1. /\ IsFiniteSet(K \union {n})
          /\ Cardinality(K \union {n}) =
               IF n \in K THEN Cardinality(K) ELSE Cardinality(K) + 1
        BY <1>10, FS_AddElement
    <3>2. QED BY <1>10, <3>1
  <2>3. IsFiniteSet(M) /\ Cardinality(M) <= Cardinality(K \union {n}) BY <2>1, <2>2, FS_Subset
  <2>4. Cardinality(M) \in Nat BY <2>3, FS_CardinalityType
  <2>5. n \in K \/ ~torn => Cardinality(M) <= Cardinality(K)
    <3>1. n \in K \/ ~torn => M \in SUBSET K BY <1>8
    <3>2. QED BY <1>10, <3>1, FS_Subset
  <2>6. n \in K /\ ~torn => Cardinality(M) <= Cardinality(K) - 1
    <3>1. IsFiniteSet(K \ {n}) /\ (n \in K => Cardinality(K \ {n}) = Cardinality(K) - 1)
        BY <1>10, FS_RemoveElement
    <3>2. ~torn => M \in SUBSET (K \ {n}) BY <1>8
    <3>3. ~torn => Cardinality(M) <= Cardinality(K \ {n}) BY <3>1, <3>2, FS_Subset
    <3>4. QED BY <3>1, <3>3
  <2>7. QED BY <1>10, <2>2, <2>3, <2>4, <2>5, <2>6
<1>14. Cardinality(S) + Cardinality(M) + Torn' <= tears'
  <2>1. Torn' = 0 /\ tears' = tears /\ tears \in Nat /\ Torn = IF torn THEN 1 ELSE 0 BY <1>1 DEF Torn
  <2>2. Cardinality(R) + Cardinality(K) + Torn <= tears BY <1>4 DEF R
  <2>3. CASE n \in Forgotten(seen) /\ torn BY <1>10, <1>11, <1>12, <1>13, <2>1, <2>2, <2>3
  <2>4. CASE n \in Forgotten(seen) /\ ~torn BY <1>10, <1>11, <1>12, <1>13, <2>1, <2>2, <2>4
  <2>5. CASE n \notin Forgotten(seen) /\ torn BY <1>10, <1>12, <1>13, <2>1, <2>2, <2>5
  <2>6. CASE n \notin Forgotten(seen) /\ ~torn BY <1>10, <1>12, <1>13, <2>1, <2>2, <2>6
  <2>7. QED BY <2>3, <2>4, <2>5, <2>6
<1>15. (Kept = file)' BY <1>1 DEF Kept
<1>16. (Forgotten(seen) \subseteq Forgotten(Kept))'
  <2>1. n \notin Forgotten(seen)' BY <1>7
  <2>2. Forgotten(seen)' \subseteq K \ {n} BY <1>4, <1>7
  <2>3. K \ {n} \subseteq M
    <3>1. ASSUME NEW m \in Nonces, m # n PROVE file'[m] = file[m] BY <1>1, <3>1 DEF TypeOK, Index
    <3>2. QED BY <1>1, <1>2, <1>3, <3>1 DEF K, M, Forgotten
  <2>4. Forgotten(Kept)' = M BY <1>15 DEF M
  <2>5. QED BY <2>2, <2>3, <2>4
<1>17. Forgotten(Kept)' = M BY <1>15 DEF M
<1>18. QED BY <1>1, <1>5, <1>14, <1>16, <1>17 DEF TearsInv, Torn, S

\* A line for a nonce: written, or joined to the torn one, which is paid for.
LEMMA PersistForgetsNothing ==
    ASSUME TypeOK, \A i \in DOMAIN accepted : accepted[i].at <= clock, NEW n \in Nonces, persist(n)
    PROVE  /\ Forgotten(seen) \ {n} \subseteq Forgotten(file) => Forgotten(seen) \ {n} \subseteq Forgotten(file')
           /\ Forgotten(file') \subseteq Forgotten(file) /\ Torn' = 0 /\ torn' = FALSE
<1>1. CASE torn BY <1>1 DEF persist, Torn
<1>2. CASE ~torn
  <2>1. file' = [file EXCEPT ![n] = clock] /\ Torn' = 0 /\ torn' = FALSE BY <1>2 DEF persist, Torn
  <2>2. Forgotten(file') = Forgotten(file) \ {n} BY <2>1, StampRemembers DEF TypeOK
  <2>3. QED BY <2>1, <2>2
<1>3. QED BY <1>1, <1>2

\* Forgotten, with what it reads as arguments.
LostAt(index, acc, now) ==
    {n \in Nonces : \E i \in DOMAIN acc :
        /\ acc[i].nonce = n /\ now - acc[i].at < MaxAge
        /\ index[n] < acc[i].at}

\* What membership of it says.
LEMMA LostAtMeaning ==
    ASSUME NEW index, NEW acc, NEW now, NEW n
    PROVE  n \in LostAt(index, acc, now) <=>
               n \in Nonces /\ \E i \in DOMAIN acc : /\ acc[i].nonce = n /\ now - acc[i].at < MaxAge
                                                    /\ index[n] < acc[i].at
BY DEF LostAt

\* Time makes losses matter less, and never more to memory than to the file.
LEMMA TickTears ==
    ASSUME TypeOK, TypeOK', TearsInv, ~emptied, Tick
    PROVE  TearsInv'
<1>1. /\ clock \in Nat /\ clock' = clock + 1
      /\ UNCHANGED <<pc, seen, file, torn, tmp, accepted, tears>>
    BY DEF Tick, TypeOK, mishaps
<1>2. \A i \in DOMAIN accepted : accepted[i].at \in Nat /\ accepted[i].at <= clock /\ accepted[i].nonce \in Nonces
    BY AcceptedType DEF TearsInv
<1>3. \A i \in DOMAIN accepted' : accepted'[i].at <= clock' BY <1>1, <1>2
<1> DEFINE K == Forgotten(Kept)
           M == Forgotten(Kept)'
           Lost(index) == LostAt(index, accepted, clock')
<1>4. Kept' = Kept /\ Kept \in Index BY <1>1 DEF Kept, TypeOK
<1>5. M = Lost(Kept) /\ Forgotten(seen)' = Lost(seen)
  <2>1. accepted' = accepted /\ clock' = clock + 1 /\ seen' = seen BY <1>1
  <2>2. Forgotten(seen)' = LostAt(seen', accepted', clock') BY DEF Forgotten, LostAt
  <2>3. M = LostAt(Kept', accepted', clock') BY DEF Forgotten, LostAt
  <2>4. QED BY <1>4, <2>1, <2>2, <2>3
<1>5a. ASSUME NEW f, NEW n
       PROVE  n \in Lost(f) <=> /\ n \in Nonces
                                /\ \E i \in DOMAIN accepted :
                                     /\ accepted[i].nonce = n /\ clock' - accepted[i].at < MaxAge
                                     /\ f[n] < accepted[i].at
  BY LostAtMeaning
<1> HIDE DEF Lost, M
<1>6. M \in SUBSET K
  <2>1. \A i \in DOMAIN accepted : clock' - accepted[i].at < MaxAge => clock - accepted[i].at < MaxAge
      BY <1>1, <1>2, NonceStoreAssumption
  <2>2. \A n : n \in Lost(Kept) => n \in K BY <1>5a, <2>1 DEF Forgotten
  <2> HIDE DEF K
  <2>3. QED BY <1>5, <2>2
<1>7. pc # "down" => Forgotten(seen)' \subseteq M
  <2> SUFFICES ASSUME pc # "down", NEW n \in Lost(seen) PROVE n \in Lost(Kept)
      BY <1>5
  <2>1. PICK i \in DOMAIN accepted : /\ accepted[i].nonce = n /\ clock' - accepted[i].at < MaxAge
                                    /\ seen[n] < accepted[i].at
      BY <1>5a
  <2>2. n \in Nonces /\ Kept[n] \in Int /\ MaxAge \in Int BY <1>4, <1>5a, NonceStoreAssumption DEF Index, Never
  <2>3. clock - accepted[i].at < MaxAge BY <1>1, <1>2, <2>1, <2>2
  <2>4. n \in Forgotten(seen) BY <2>1, <2>2, <2>3 DEF Forgotten
  <2>5. Forgotten(seen) \subseteq Forgotten(Kept) BY DEF TearsInv
  <2>6. PICK j \in DOMAIN accepted : /\ accepted[j].nonce = n /\ Kept[n] < accepted[j].at
      BY <2>4, <2>5 DEF Forgotten
  <2>7. accepted[i].at \in Nat /\ accepted[j].at \in Nat BY <1>2
  <2>8. CASE accepted[j].at <= accepted[i].at
    <3>1. Kept[n] < accepted[i].at BY <2>2, <2>6, <2>7, <2>8
    <3>2. QED BY <1>5a, <2>1, <2>2, <3>1
  <2>9. CASE accepted[i].at < accepted[j].at
    <3>1. clock' - accepted[j].at < MaxAge BY <1>1, <2>1, <2>2, <2>7, <2>9
    <3>2. QED BY <1>5a, <2>2, <2>6, <3>1
  <2>10. QED BY <2>7, <2>8, <2>9
<1>8. IsFiniteSet(K) /\ Cardinality(K) \in Nat /\ Cardinality(Repeats) \in Nat BY CountsAreFinite
<1>9. Cardinality(Repeats) + Cardinality(K) + Torn <= tears BY DEF TearsInv, Torn
<1>10. Repeats' = Repeats /\ Torn' = Torn /\ Torn \in Int /\ tears \in Nat /\ tears' = tears
    BY <1>1 DEF Repeats, Replay, Torn, TypeOK
<1> HIDE DEF K
<1>11. Cardinality(M) \in Nat /\ Cardinality(M) <= Cardinality(K) BY <1>6, <1>8, FS_Subset, FS_CardinalityType
<1>12. Cardinality(Repeats)' + Cardinality(M) + Torn' <= tears'
  <2>1. Cardinality(Repeats) + Cardinality(M) + Torn <= tears
      BY <1>8, <1>9, <1>10, <1>11, Balance
  <2>2. QED BY <1>10, <2>1
<1>13. pc \in {"written", "unlinked"} => seen = tmp BY DEF TearsInv
<1>14. QED BY <1>1, <1>3, <1>7, <1>12, <1>13 DEF TearsInv, Torn, M, K

\* Every step keeps the books, and none undoes the harm of an emptied file.
LEMMA NextTears ==
    ASSUME TypeOK, TypeOK', TearsInv, [Next]_vars
    PROVE  TearsInv'
<1> SUFFICES ASSUME ~emptied' PROVE TearsInv' BY DEF TearsInv
<1>1. ~emptied
    BY DEF Next, addAndCheck, add, Forget, CrashInAppend, size, CompactWrite, CompactUnlink,
           CompactRename, Crash, hydrate, Tick, vars, mishaps, TypeOK
<1>2. /\ \A i \in DOMAIN accepted : accepted[i].at <= clock
      /\ pc \in {"written", "unlinked"} => seen = tmp
      /\ pc # "down" => Forgotten(seen) \subseteq Forgotten(Kept)
    BY <1>1 DEF TearsInv
<1>3. tears \in Nat /\ Torn \in {0, 1} /\ seen \in Index /\ file \in Index /\ tmp \in Index
    BY DEF TypeOK, Torn
<1>4. ASSUME NEW n \in Nonces, addAndCheck(n) PROVE TearsInv' BY <1>1, <1>4, AcceptTears
<1>5. ASSUME NEW n \in Nonces, add(n) PROVE TearsInv'
  <2>1. /\ pc = "up" /\ pc' = "up" /\ persist(n) /\ seen' = [seen EXCEPT ![n] = clock]
        /\ UNCHANGED <<clock, accepted, tears>>
      BY <1>5 DEF add, mishaps
  <2>2. Kept = file /\ Kept' = file' BY <2>1 DEF Kept
  <2>3. Forgotten(seen') = Forgotten(seen) \ {n} BY <1>2, <1>3, <2>1, StampRemembers
  <2>4. Forgotten(seen') \subseteq Forgotten(file') /\ Forgotten(file') \subseteq Forgotten(file) /\ Torn' = 0
      BY <1>2, <2>1, <2>2, <2>3, PersistForgetsNothing
  <2>5. Forgotten(seen)' = Forgotten(seen') /\ Forgotten(Kept)' = Forgotten(file')
      BY <2>1, <2>2 DEF Forgotten
  <2>6. Torn' - tears' <= Torn - tears BY <1>3, <2>1, <2>4
  <2>7. Forgotten(Kept)' \subseteq Forgotten(Kept) BY <2>2, <2>4, <2>5
  <2>8. (pc # "down" => Forgotten(seen) \subseteq Forgotten(Kept))' BY <2>4, <2>5
  <2>9. (pc \in {"written", "unlinked"} => seen = tmp)' BY <2>1
  <2>10. QED BY <1>1, <2>1, <2>6, <2>7, <2>8, <2>9, QuietTears
<1>6. ASSUME NEW n \in Nonces, Forget(n) PROVE TearsInv'
  <2>1. /\ pc = "up" /\ ~has(n) /\ seen' = [seen EXCEPT ![n] = Never]
        /\ UNCHANGED <<clock, pc, file, torn, tmp, accepted, tears>>
      BY <1>6 DEF Forget, mishaps
  <2>2. Kept = file /\ Kept' = file /\ Torn' = Torn BY <2>1 DEF Kept, Torn
  <2>3. Forgotten(seen') \subseteq Forgotten(file) BY <1>2, <2>1, <2>2, DropForgetsNothing
  <2>4. Forgotten(seen)' = Forgotten(seen') /\ Forgotten(Kept)' = Forgotten(file)
      BY <2>1, <2>2 DEF Forgotten
  <2>5. Torn' - tears' <= Torn - tears BY <1>3, <2>1, <2>2
  <2>6. Forgotten(Kept)' \subseteq Forgotten(Kept) BY <2>2, <2>4
  <2>7. (pc # "down" => Forgotten(seen) \subseteq Forgotten(Kept))' BY <2>2, <2>3, <2>4
  <2>8. (pc \in {"written", "unlinked"} => seen = tmp)' BY <2>1
  <2>9. QED BY <1>1, <2>1, <2>5, <2>6, <2>7, <2>8, QuietTears
<1>7. ASSUME NEW n \in Nonces, CrashInAppend(n) PROVE TearsInv'
  <2>1. /\ pc = "up" /\ pc' = "down" /\ UNCHANGED <<clock, accepted>> BY <1>7 DEF CrashInAppend
  <2>2. Kept = file /\ Kept' = file' BY <2>1 DEF Kept
  <2>3. Forgotten(Kept)' = Forgotten(file') BY <2>1, <2>2 DEF Forgotten
  <2>4. CASE persist(n) /\ UNCHANGED tears
    <3>1. Forgotten(file') \subseteq Forgotten(file) /\ Torn' = 0
        BY <1>2, <2>4, PersistForgetsNothing
    <3>2. QED BY <1>1, <1>3, <2>1, <2>2, <2>3, <2>4, <3>1, QuietTears
  <2>5. CASE file' = file /\ torn' = TRUE /\ tears' = IF torn THEN tears ELSE tears + 1
    <3>1. Torn' - tears' <= Torn - tears BY <1>3, <2>5 DEF Torn
    <3>2. QED BY <1>1, <2>1, <2>2, <2>3, <2>5, <3>1, QuietTears
  <2>6. QED BY <1>7, <2>4, <2>5 DEF CrashInAppend
<1>8. CASE size \/ CompactWrite
  <2>1. /\ pc = "up" /\ pc' \in {"up", "written"} /\ seen' = Survivors(seen)
        /\ pc' = "written" => tmp' = Survivors(seen)
        /\ UNCHANGED <<clock, file, torn, accepted, tears>>
      BY <1>8 DEF size, CompactWrite, mishaps
  <2>2. Kept = file /\ Kept' = file /\ Torn' = Torn BY <2>1 DEF Kept, Torn
  <2>3. Forgotten(seen') \subseteq Forgotten(file) BY <1>2, <1>3, <2>1, <2>2, SurvivorsForgetNothing
  <2>4. Forgotten(seen)' = Forgotten(seen') /\ Forgotten(Kept)' = Forgotten(file)
      BY <2>1, <2>2 DEF Forgotten
  <2>5. QED BY <1>1, <1>3, <2>1, <2>2, <2>3, <2>4, QuietTears
<1>9. CASE CompactUnlink
  <2>1. /\ pc = "written" /\ pc' = "unlinked" /\ torn' = FALSE
        /\ UNCHANGED <<clock, seen, tmp, accepted, tears>>
      BY <1>9 DEF CompactUnlink, mishaps
  <2>2. Kept = file /\ Kept' = tmp /\ seen = tmp /\ Torn' = 0 BY <1>2, <2>1 DEF Kept, Torn
  <2>3. Forgotten(seen)' = Forgotten(seen) /\ Forgotten(Kept)' = Forgotten(seen)
      BY <2>1, <2>2 DEF Forgotten
  <2>4. QED BY <1>1, <1>2, <1>3, <2>1, <2>2, <2>3, QuietTears
<1>10. CASE CompactRename
  <2>1. /\ pc = "unlinked" /\ pc' = "up" /\ file' = tmp
        /\ UNCHANGED <<clock, seen, torn, accepted, tears>>
      BY <1>10 DEF CompactRename, mishaps
  <2>2. Kept = tmp /\ Kept' = tmp /\ seen = tmp /\ Torn' = Torn BY <1>2, <2>1 DEF Kept, Torn
  <2>3. Forgotten(seen)' = Forgotten(seen) /\ Forgotten(Kept)' = Forgotten(Kept)
      BY <2>1, <2>2 DEF Forgotten
  <2>4. QED BY <1>1, <1>2, <1>3, <2>1, <2>2, <2>3, QuietTears
<1>11. CASE Crash
  <2>1. /\ pc \in {"up", "written"} /\ pc' = "down"
        /\ UNCHANGED <<clock, seen, file, torn, tmp, accepted, tears>>
      BY <1>11 DEF Crash
  <2>2. Kept = file /\ Kept' = file /\ Torn' = Torn BY <2>1 DEF Kept, Torn
  <2>3. Forgotten(Kept)' = Forgotten(Kept) BY <2>1, <2>2 DEF Forgotten
  <2>4. QED BY <1>1, <1>3, <2>1, <2>2, <2>3, QuietTears
<1>12. CASE hydrate
  <2>1. /\ pc = "down" /\ pc' = "up" /\ seen' = Survivors(file)
        /\ UNCHANGED <<clock, file, torn, tmp, accepted, tears>>
      BY <1>12 DEF hydrate, mishaps
  <2>2. Kept = file /\ Kept' = file /\ Torn' = Torn BY <2>1 DEF Kept, Torn
  <2>3. Forgotten(seen') \subseteq Forgotten(file) BY <1>3, <2>1, SurvivorsForgetNothing
  <2>4. Forgotten(seen)' = Forgotten(seen') /\ Forgotten(Kept)' = Forgotten(file)
      BY <2>1, <2>2 DEF Forgotten
  <2>5. QED BY <1>1, <1>3, <2>1, <2>2, <2>3, <2>4, QuietTears
<1>13. CASE Tick BY <1>1, <1>13, TickTears
<1>14. CASE UNCHANGED vars
  <2>1. UNCHANGED <<clock, pc, seen, file, torn, tmp, accepted, tears, emptied>>
      BY <1>14 DEF vars, mishaps
  <2>2. Kept' = Kept /\ Torn' = Torn BY <2>1 DEF Kept, Torn
  <2>3. Forgotten(seen)' = Forgotten(seen) /\ Forgotten(Kept)' = Forgotten(Kept)
      BY <2>1, <2>2 DEF Forgotten
  <2>4. QED BY <1>1, <1>2, <1>3, <2>1, <2>2, <2>3, QuietTears
<1>15. QED
    BY <1>4, <1>5, <1>6, <1>7, <1>8, <1>9, <1>10, <1>11, <1>12, <1>13, <1>14 DEF Next

\* No line is torn at first.
LEMMA InitTears == Init => TearsInv
<1> SUFFICES ASSUME Init PROVE TearsInv OBVIOUS
<1>1. DOMAIN accepted = {} BY EmptySeq DEF Init
<1>2. Repeats = {} /\ Forgotten(Kept) = {} /\ Forgotten(seen) = {} BY <1>1 DEF Repeats, Forgotten
<1>3. Cardinality({}) = 0 BY FS_EmptySet
<1>4. QED BY <1>1, <1>2, <1>3 DEF Init, TearsInv

(* As long as no crash falls between unlink and rename, no more nonces are *)
(* accepted a second time within maxAgeMs than lines were torn, over any   *)
(* number of crashes, restarts and compactions (FilesystemNonceStore).     *)
THEOREM OneLossTheorem == Spec => []OneLossPerTear
<1>1. IndInv /\ IndInv' /\ TearsInv /\ [Next]_vars => TearsInv'
    BY NextTears DEF IndInv
<1>2. IndInv /\ TearsInv => OneLossPerTear
  <2> SUFFICES ASSUME TypeOK, TearsInv, ~emptied PROVE Cardinality(Repeats) <= tears
      BY DEF IndInv, OneLossPerTear
  <2>1. Cardinality(Repeats) + Cardinality(Forgotten(Kept)) + Torn <= tears
      BY DEF TearsInv, Torn
  <2>2. Cardinality(Repeats) \in Nat /\ Cardinality(Forgotten(Kept)) \in Nat /\ Torn \in {0, 1} /\ tears \in Nat
      BY CountsAreFinite DEF Torn, TypeOK
  <2> HIDE DEF Torn
  <2>3. QED BY <2>1, <2>2
<1>3. QED BY InitTears, Invariance, <1>1, <1>2, PTL DEF Spec

-----------------------------------------------------------------------------
(* The conflict inbox: an operator's resolution outlives every later       *)
(* report and every change of policy.                                      *)

\* Items can be told from the absence of one by their status.
LEMMA ItemIsSome == \A i \in Item : i # NoItem /\ i.status # "none"
<1> SUFFICES ASSUME NEW i \in Item PROVE i # NoItem /\ i.status # "none" OBVIOUS
<1>1. i.status \in RESOLVED_STATES \union {"open"} BY DEF Item
<1>2. i.status # "none" BY <1>1 DEF RESOLVED_STATES
<1>3. NoItem.status = "none" BY DEF NoItem
<1>4. QED BY <1>2, <1>3

\* What ingest stores is an item, with the resolution of the one before it.
LEMMA IngestedItem ==
    ASSUME InboxTypeOK, NEW a \in Actions, NEW e \in GateDecisions
    PROVE  /\ Ingested(a, e) \in Item
           /\ items[a] # NoItem /\ items[a].resolved /\ items[a].status \in RESOLVED_STATES
                => Ingested(a, e).resolved /\ Ingested(a, e).status = items[a].status
           /\ ~(items[a] # NoItem /\ items[a].resolved /\ items[a].status \in RESOLVED_STATES)
                => /\ ~Ingested(a, e).resolved
                   /\ Ingested(a, e).status # "open" =>
                         /\ Ingested(a, e).status = "reconciled"
                         /\ Ingested(a, e).edge = Ingested(a, e).current
<1>1. policy[a] \in GateDecisions BY DEF InboxTypeOK
<1>2. Reconciled(a, e) \in Item BY <1>1 DEF Reconciled, Item, RESOLVED_STATES
<1>3. Reconciled(a, e).edge \in GateDecisions /\ Reconciled(a, e).current \in GateDecisions
    BY <1>1 DEF Reconciled
<1>4. CASE items[a] # NoItem /\ items[a].resolved /\ items[a].status \in RESOLVED_STATES
  <2>1. Ingested(a, e) = [edge |-> Reconciled(a, e).edge, current |-> Reconciled(a, e).current,
                          status |-> items[a].status, resolved |-> TRUE]
      BY <1>4 DEF Ingested
  <2>2. QED BY <1>3, <1>4, <2>1 DEF Item
<1>5. CASE ~(items[a] # NoItem /\ items[a].resolved /\ items[a].status \in RESOLVED_STATES)
  <2>1. Ingested(a, e) = Reconciled(a, e) BY <1>5 DEF Ingested
  <2>2. QED BY <1>2, <1>5, <2>1 DEF Reconciled
<1>6. QED BY <1>4, <1>5

\* Every step keeps what operators have decided.
LEMMA NextInboxInv ==
    InboxInv /\ [InboxNext]_inboxVars => InboxInv'
<1> SUFFICES ASSUME InboxInv, [InboxNext]_inboxVars PROVE InboxInv' OBVIOUS
<1> USE DEF InboxInv
<1>1. ASSUME NEW a \in Actions, NEW d \in GateDecisions, ingest(a, d) PROVE InboxInv'
  <2>1. /\ items' = [items EXCEPT ![a] = Ingested(a, d)] /\ policy' = policy /\ decided' = decided
      BY <1>1 DEF ingest
  <2>2. InboxTypeOK' BY <2>1, IngestedItem DEF InboxTypeOK
  <2>3. ASSUME NEW b \in Actions, decided[b] # "none"
        PROVE  items'[b] # NoItem /\ items'[b].resolved /\ items'[b].status = decided[b]
    <3>1. CASE b # a BY <2>1, <2>3, <3>1 DEF InboxTypeOK
    <3>2. CASE b = a
      <4>1. items[a] # NoItem /\ items[a].resolved /\ items[a].status = decided[a]
          BY <2>3, <3>2
      <4>2. decided[a] \in RESOLVED_STATES BY <2>3, <3>2 DEF InboxTypeOK
      <4>3. items'[a] = Ingested(a, d) BY <2>1 DEF InboxTypeOK
      <4>4. QED BY <3>2, <4>1, <4>2, <4>3, IngestedItem, ItemIsSome
    <3>3. QED BY <3>1, <3>2
  <2>4. ASSUME NEW b \in Actions, items'[b] # NoItem
        PROVE  /\ items'[b].resolved => decided[b] = items'[b].status
               /\ ~items'[b].resolved /\ items'[b].status # "open" =>
                     items'[b].status = "reconciled" /\ items'[b].edge = items'[b].current
    <3>1. CASE b # a BY <2>1, <2>4, <3>1 DEF InboxTypeOK
    <3>2. CASE b = a
      <4>1. items'[a] = Ingested(a, d) BY <2>1 DEF InboxTypeOK
      <4>2. CASE items[a] # NoItem /\ items[a].resolved /\ items[a].status \in RESOLVED_STATES
          BY <3>2, <4>1, <4>2, IngestedItem
      <4>3. CASE ~(items[a] # NoItem /\ items[a].resolved /\ items[a].status \in RESOLVED_STATES)
          BY <3>2, <4>1, <4>3, IngestedItem
      <4>4. QED BY <4>2, <4>3
    <3>3. QED BY <3>1, <3>2
  <2>5. QED BY <2>1, <2>2, <2>3, <2>4
<1>2. ASSUME NEW a \in Actions, NEW d \in GateDecisions, ChangePolicy(a, d) PROVE InboxInv'
    BY <1>2 DEF ChangePolicy, InboxTypeOK
<1>3. ASSUME NEW a \in Actions, NEW action \in ResolutionActions, resolve(a, action)
      PROVE  InboxInv'
  <2> DEFINE item == [edge |-> items[a].edge, current |-> items[a].current,
                      status |-> NEXT_STATUS[action], resolved |-> TRUE]
  <2>1. /\ items[a] # NoItem /\ items' = [items EXCEPT ![a] = item]
        /\ decided' = [decided EXCEPT ![a] = NEXT_STATUS[action]] /\ policy' = policy
      BY <1>3 DEF resolve, applyResolution
  <2>2. NEXT_STATUS[action] \in RESOLVED_STATES
      BY DEF NEXT_STATUS, ResolutionActions, RESOLVED_STATES
  <2>3. items[a] \in Item BY <2>1 DEF InboxTypeOK
  <2>4. item \in Item BY <2>2, <2>3 DEF Item
  <2>5. item.resolved /\ item.status = NEXT_STATUS[action] OBVIOUS
  <2> HIDE DEF item
  <2>6. InboxTypeOK' BY <2>1, <2>2, <2>4 DEF InboxTypeOK
  <2>7. ASSUME NEW b \in Actions, decided'[b] # "none"
        PROVE  items'[b] # NoItem /\ items'[b].resolved /\ items'[b].status = decided'[b]
    <3>1. CASE b # a BY <2>1, <2>7, <3>1 DEF InboxTypeOK
    <3>2. CASE b = a BY <2>1, <2>4, <2>5, <3>2, ItemIsSome DEF InboxTypeOK
    <3>3. QED BY <3>1, <3>2
  <2>8. ASSUME NEW b \in Actions, items'[b] # NoItem
        PROVE  /\ items'[b].resolved => decided'[b] = items'[b].status
               /\ ~items'[b].resolved /\ items'[b].status # "open" =>
                     items'[b].status = "reconciled" /\ items'[b].edge = items'[b].current
    <3>1. CASE b # a BY <2>1, <2>8, <3>1 DEF InboxTypeOK
    <3>2. CASE b = a BY <2>1, <2>5, <3>2 DEF InboxTypeOK
    <3>3. QED BY <3>1, <3>2
  <2>9. QED BY <2>6, <2>7, <2>8
<1>4. CASE CrashWhileWriting BY <1>4 DEF CrashWhileWriting, InboxTypeOK
<1>5. CASE UNCHANGED inboxVars BY <1>5 DEF inboxVars, InboxTypeOK
<1>6. QED BY <1>1, <1>2, <1>3, <1>4, <1>5 DEF InboxNext

(* What operators have decided and what they have not is told apart in     *)
(* every state.                                                            *)
THEOREM InboxInvariance == InboxSpec => []InboxInv
<1>1. InboxInit => InboxInv
    BY DEF InboxInit, InboxInv, InboxTypeOK
<1>2. QED BY <1>1, NextInboxInv, PTL DEF InboxSpec

(* An item keeps the status an operator gave it through all later reports  *)
(* of edges and all changes of policy, as long as the file is readable.    *)
THEOREM ResolutionsStand == InboxSpec => []ResolutionStands
<1>1. InboxInv => ResolutionStands BY DEF InboxInv, ResolutionStands
<1>2. QED BY <1>1, InboxInvariance, PTL

(* No conflict is closed on the operator's behalf, crashes included: what  *)
(* is not open was decided by the operator or is an agreement.             *)
THEOREM OperatorsDecide == InboxSpec => []OperatorDecides
<1>1. InboxInv => OperatorDecides
  <2> SUFFICES ASSUME InboxInv, NEW a \in Actions, items[a] # NoItem, items[a].status # "open"
               PROVE  \/ decided[a] = items[a].status
                      \/ items[a].status = "reconciled" /\ items[a].edge = items[a].current
      BY DEF OperatorDecides
  <2>1. CASE items[a].resolved BY <2>1 DEF InboxInv
  <2>2. CASE ~items[a].resolved BY <2>2 DEF InboxInv
  <2>3. QED BY <2>1, <2>2
<1>2. QED BY <1>1, InboxInvariance, PTL
=============================================================================
