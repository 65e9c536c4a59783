----------------------------- MODULE NonceStore -----------------------------
(***************************************************************************)
(* FilesystemNonceStore (shared/nonce-store/src/index.ts): replay          *)
(* protection by remembering nonces in memory and in an append-only JSONL  *)
(* file, through crashes of the process in the middle of an append or of   *)
(* a compaction.                                                           *)
(*                                                                         *)
(* The file is represented by what hydrate makes of it: for each nonce the *)
(* time stamp of its last readable line, and whether its last line is torn *)
(* (has no end of line).  The clock does not go back, and appended lines   *)
(* are durable (fsync, the default).                                       *)
(***************************************************************************)
EXTENDS Integers, Sequences, FiniteSets

CONSTANTS
    Nonces,
    MaxAge,         \* maxAgeMs
    MaxTime,        \* bound on the clock
    MaxAccepted,    \* bound on the nonces accepted
    MaxTears        \* bound on the torn lines

ASSUME NonceStoreAssumption ==
    /\ MaxAge \in Nat \ {0} /\ MaxTime \in Nat
    /\ MaxAccepted \in Nat /\ MaxTears \in Nat

VARIABLES
    clock,
    pc,        \* up, in the middle of compact(), or down
    seen,      \* the Map in memory
    file,      \* the readable lines of the file
    torn,      \* the file ends in the middle of a line
    tmp,       \* the temporary file of compact()
    accepted,  \* the nonces addAndCheck has reported as new, in order
    tears,     \* how often a crash has torn the last line
    emptied    \* a crash fell between unlink and rename

mishaps == <<tears, emptied>>
vars == <<clock, pc, seen, file, torn, tmp, accepted, mishaps>>

Never == -1

Index == [Nonces -> Nat \union {Never}]

Empty == [n \in Nonces |-> Never]

TypeOK ==
    /\ clock \in Nat
    /\ pc \in {"up", "written", "unlinked", "down"}
    /\ seen \in Index /\ file \in Index /\ tmp \in Index
    /\ torn \in BOOLEAN
    /\ accepted \in Seq([nonce : Nonces, at : Nat])
    /\ tears \in Nat /\ emptied \in BOOLEAN

Init ==
    /\ clock = 0 /\ pc = "up"
    /\ seen = Empty /\ file = Empty /\ tmp = Empty /\ torn = FALSE
    /\ accepted = <<>> /\ tears = 0 /\ emptied = FALSE

-----------------------------------------------------------------------------
\* Mutant: the comparison of the age is turned round.
has_OnlyExpired(n) == seen[n] # Never /\ clock - seen[n] > MaxAge

\* has: seen, and not older than maxAgeMs.
has(n) == seen[n] # Never /\ clock - seen[n] <= MaxAge

\* Mutant: a line appended behind a torn one does not end it.
persist_StaysTorn(n) ==
    /\ file' = IF torn THEN file ELSE [file EXCEPT ![n] = clock]
    /\ torn' = torn

\* One line is appended.  Behind a torn line it becomes part of it, and the
\* two together are not readable.
persist(n) ==
    /\ file' = IF torn THEN file ELSE [file EXCEPT ![n] = clock]
    /\ torn' = FALSE

\* The check-and-add of one Warrant: reports a replay, or records the nonce.
addAndCheck(n) ==
    /\ pc = "up" /\ ~has(n)
    /\ Len(accepted) < MaxAccepted
    /\ persist(n)
    /\ seen' = [seen EXCEPT ![n] = clock]
    /\ accepted' = Append(accepted, [nonce |-> n, at |-> clock])
    /\ UNCHANGED <<clock, pc, tmp, mishaps>>

\* add: whatever is in the Map is left as it is, expired or not.
add(n) ==
    /\ pc = "up" /\ seen[n] = Never
    /\ persist(n)
    /\ seen' = [seen EXCEPT ![n] = clock]
    /\ UNCHANGED <<clock, pc, tmp, accepted, mishaps>>

\* A look-up drops an expired nonce from the Map.
Forget(n) ==
    /\ pc = "up" /\ seen[n] # Never /\ ~has(n)
    /\ seen' = [seen EXCEPT ![n] = Never]
    /\ UNCHANGED <<clock, pc, file, torn, tmp, accepted, mishaps>>

\* The cutoff of compaction and hydration.
Survivors(index) ==
    [n \in Nonces |-> IF index[n] <= clock - MaxAge THEN Never ELSE index[n]]

\* size: evict from the Map only.
size ==
    /\ pc = "up"
    /\ seen' = Survivors(seen)
    /\ seen' # seen
    /\ UNCHANGED <<clock, pc, file, torn, tmp, accepted, mishaps>>

-----------------------------------------------------------------------------
(* compact: evict, write the temporary file, unlink the old, rename.       *)

CompactWrite ==
    /\ pc = "up"
    /\ pc' = "written"
    /\ seen' = Survivors(seen)
    /\ tmp' = Survivors(seen)
    /\ UNCHANGED <<clock, file, torn, accepted, mishaps>>

CompactUnlink ==
    /\ pc = "written"
    /\ pc' = "unlinked"
    /\ file' = Empty /\ torn' = FALSE
    /\ UNCHANGED <<clock, seen, tmp, accepted, mishaps>>

CompactRename ==
    /\ pc = "unlinked"
    /\ pc' = "up"
    /\ file' = tmp /\ tmp' = Empty
    /\ UNCHANGED <<clock, seen, torn, accepted, mishaps>>

-----------------------------------------------------------------------------
(* Crashes, restarts and time                                              *)

Crash ==
    /\ pc \in {"up", "written", "unlinked"}
    /\ pc' = "down"
    /\ emptied' = (emptied \/ pc = "unlinked")
    /\ UNCHANGED <<clock, seen, file, torn, tmp, accepted, tears>>

\* The process dies in addAndCheck before the caller has an answer: the line
\* is complete, or torn.  Before the write it is a plain Crash.
CrashInAppend(n) ==
    /\ pc = "up" /\ ~has(n)
    /\ pc' = "down"
    /\ \/ persist(n) /\ UNCHANGED tears
       \/ /\ torn \/ tears < MaxTears
          /\ file' = file /\ torn' = TRUE
          /\ tears' = IF torn THEN tears ELSE tears + 1
    /\ UNCHANGED <<clock, seen, tmp, accepted, emptied>>

\* The constructor: hydrate reads the file, never the temporary one.
hydrate ==
    /\ pc = "down"
    /\ pc' = "up"
    /\ seen' = Survivors(file)
    /\ UNCHANGED <<clock, file, torn, tmp, accepted, mishaps>>

Tick ==
    /\ clock < MaxTime
    /\ clock' = clock + 1
    /\ UNCHANGED <<pc, seen, file, torn, tmp, accepted, mishaps>>

Next ==
    \/ \E n \in Nonces : addAndCheck(n) \/ add(n) \/ Forget(n) \/ CrashInAppend(n)
    \/ size \/ CompactWrite \/ CompactUnlink \/ CompactRename
    \/ Crash \/ hydrate \/ Tick

Spec == Init /\ [][Next]_vars

-----------------------------------------------------------------------------
(* Properties                                                              *)

Replay(i, j) ==
    /\ i < j /\ accepted[i].nonce = accepted[j].nonce
    /\ accepted[j].at - accepted[i].at < MaxAge

NeverTwice == \A i, j \in DOMAIN accepted : ~Replay(i, j)

\* No crash has fallen into one of the two windows in which it does harm.
Intact == tears = 0 /\ ~emptied

(* "Durable replay-protection": a nonce that was accepted is not accepted  *)
(* again before maxAgeMs has passed, whatever was evicted, compacted or    *)
(* restarted.  It takes a line torn by a crash, or a crash between unlink  *)
(* and rename, to have a nonce accepted again.                             *)
ReplayRefused == Intact => NeverTwice

\* The acceptances of a nonce that was accepted less than maxAgeMs before.
Repeats == {j \in DOMAIN accepted : \E i \in DOMAIN accepted : Replay(i, j)}

(* What a torn line can cost at most.  The line appended behind it is      *)
(* lost with it, no other is: over any number of crashes and compactions   *)
(* no more nonces are accepted a second time than lines were torn.         *)
OneLossPerTear == ~emptied => Cardinality(Repeats) <= tears

-----------------------------------------------------------------------------
(* The inductive invariant                                                 *)

\* The index holds every acceptance that is younger than maxAgeMs.
Holds(index) ==
    \A i \in DOMAIN accepted :
        clock - accepted[i].at < MaxAge => index[accepted[i].nonce] >= accepted[i].at

\* Memory, file and temporary file, whenever a later step relies on them.
Covered ==
    /\ ~torn
    /\ \A i \in DOMAIN accepted : accepted[i].at <= clock
    /\ pc # "down" => Holds(seen)
    /\ pc \in {"written", "unlinked"} => Holds(tmp)
    /\ pc # "unlinked" => Holds(file)

IndInv == TypeOK /\ (Intact => NeverTwice /\ Covered)

\* The nonces with an acceptance younger than maxAgeMs that the index has lost.
Forgotten(index) ==
    {n \in Nonces : \E i \in DOMAIN accepted :
        /\ accepted[i].nonce = n /\ clock - accepted[i].at < MaxAge
        /\ index[n] < accepted[i].at}

\* What the next process will read: the file, or what is about to replace it.
Kept == IF pc = "unlinked" THEN tmp ELSE file

\* Every torn line has been paid for at most once: by a nonce accepted a second
\* time, by one that may be, or not yet.  Memory has lost no more than the file.
TearsInv ==
    ~emptied =>
        /\ \A i \in DOMAIN accepted : accepted[i].at <= clock
        /\ pc \in {"written", "unlinked"} => seen = tmp
        /\ pc # "down" => Forgotten(seen) \subseteq Forgotten(Kept)
        /\ Cardinality(Repeats) + Cardinality(Forgotten(Kept)) + (IF torn THEN 1 ELSE 0) <= tears
=============================================================================
