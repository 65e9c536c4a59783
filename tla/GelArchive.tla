----------------------------- MODULE GelArchive -----------------------------
(***************************************************************************)
(* Retention of the Governance Evidence Ledger                             *)
(* (shared/gel-archive/src/index.ts) together with the boundary that       *)
(* writes it (FileLedgerBackend): the oldest records are appended to an    *)
(* archive file and the active file is replaced by the others, with        *)
(* crashes between the steps and restarts of the boundary.                 *)
(*                                                                         *)
(* archiveGelChain is synchronous: nobody else writes the files while it   *)
(* runs.  A record's hash is its number in the history of all records, so  *)
(* that no two records have the same.  The lines of a file are complete.   *)
(***************************************************************************)
EXTENDS Integers, Sequences

CONSTANTS
    Actions,      \* canonical action hashes
    MaxRecords,   \* bound on the records written
    MaxArchive    \* bound on the archive file, which crashes make longer

ASSUME GelArchiveAssumption == MaxRecords \in Nat /\ MaxArchive \in Nat

VARIABLES
    active,    \* the active ledger file
    archive,   \* the archive file
    pc,        \* idle, or where archiveGelChain is
    chain,     \* the active file as archiveGelChain has loaded it
    cutoff,    \* the number of records to archive
    copied,    \* the number of them that are in the archive already
    tip,       \* the boundary's index: hash of the last record
    admitted,  \* the boundary's index: the actions it has admitted
    history,   \* every record ever written, in order
    events     \* what has happened that later states may suffer from

files == <<active, archive>>
archiver == <<pc, chain, cutoff, copied>>
index == <<tip, admitted>>
vars == <<files, archiver, index, history, events>>

GENESIS_HASH == 0

\* A crash while copying, a crash between unlink and rename, and a cutoff
\* that leaves no record in the active file.
Events == {"crash_copying", "crash_swapping", "emptied"}

GelRecord == [hash : Nat, previous : Nat, action : Actions, allow : BOOLEAN]

TypeOK ==
    /\ active \in Seq(GelRecord) /\ archive \in Seq(GelRecord)
    /\ chain \in Seq(GelRecord) /\ history \in Seq(GelRecord)
    /\ pc \in {"idle", "appending", "unlinked"}
    /\ cutoff \in Nat /\ copied \in Nat
    /\ tip \in Nat /\ admitted \subseteq Actions /\ events \subseteq Events

Init ==
    /\ active = <<>> /\ archive = <<>> /\ history = <<>>
    /\ pc = "idle" /\ chain = <<>> /\ cutoff = 0 /\ copied = 0
    /\ tip = GENESIS_HASH /\ admitted = {} /\ events = {}

-----------------------------------------------------------------------------
(* The boundary                                                            *)

LastHash(records) ==
    IF records = <<>> THEN GENESIS_HASH ELSE records[Len(records)].hash

\* A decision and its record, linked to the tip of the index.
Evaluate(a) ==
    /\ pc = "idle" /\ Len(history) < MaxRecords
    /\ LET record == [hash |-> Len(history) + 1, previous |-> tip,
                      action |-> a, allow |-> a \notin admitted]
       IN  /\ active' = Append(active, record)
           /\ history' = Append(history, record)
           /\ tip' = record.hash
    /\ admitted' = admitted \union {a}
    /\ UNCHANGED <<archive, archiver, events>>

\* A new boundary seeds its index from the active file.
seed ==
    /\ pc = "idle"
    /\ tip' = LastHash(active)
    /\ admitted' = {active[i].action : i \in {j \in DOMAIN active : active[j].allow}}
    /\ UNCHANGED <<files, archiver, history, events>>

-----------------------------------------------------------------------------
(* archiveGelChain                                                         *)

\* The cutoff is an input or is computed from a threshold; where it is 0
\* nothing happens.
StartArchive(k) ==
    /\ pc = "idle" /\ k \in 1 .. Len(active)
    /\ Len(archive) + k <= MaxArchive
    /\ pc' = "appending"
    /\ chain' = active /\ cutoff' = k /\ copied' = 0
    /\ events' = IF k = Len(active) THEN events \union {"emptied"} ELSE events
    /\ UNCHANGED <<files, index, history>>

appendChain ==
    /\ pc = "appending" /\ copied < cutoff
    /\ archive' = Append(archive, chain[copied + 1])
    /\ copied' = copied + 1
    /\ UNCHANGED <<active, pc, chain, cutoff, index, history, events>>

\* writeChain up to the unlink; the temporary file is read by nobody.
UnlinkActive ==
    /\ pc = "appending" /\ copied = cutoff
    /\ pc' = "unlinked"
    /\ active' = <<>>
    /\ UNCHANGED <<archive, chain, cutoff, copied, index, history, events>>

\* Mutant: the record at the cutoff is left out of both files.
RenameActive_OffByOne ==
    /\ pc = "unlinked"
    /\ pc' = "idle"
    /\ active' = SubSeq(chain, cutoff + 2, Len(chain))
    /\ chain' = <<>> /\ cutoff' = 0 /\ copied' = 0
    /\ UNCHANGED <<archive, index, history, events>>

\* Mutant: the record at the cutoff stays in the active file as well.
RenameActive_KeepsOne ==
    /\ pc = "unlinked"
    /\ pc' = "idle"
    /\ active' = SubSeq(chain, cutoff, Len(chain))
    /\ chain' = <<>> /\ cutoff' = 0 /\ copied' = 0
    /\ UNCHANGED <<archive, index, history, events>>

RenameActive ==
    /\ pc = "unlinked"
    /\ pc' = "idle"
    /\ active' = SubSeq(chain, cutoff + 1, Len(chain))
    /\ chain' = <<>> /\ cutoff' = 0 /\ copied' = 0
    /\ UNCHANGED <<archive, index, history, events>>

Crash ==
    /\ pc \in {"appending", "unlinked"}
    /\ pc' = "idle"
    /\ chain' = <<>> /\ cutoff' = 0 /\ copied' = 0
    /\ events' = events \union
                    {IF pc = "appending" THEN "crash_copying" ELSE "crash_swapping"}
    /\ UNCHANGED <<files, index, history>>

Next ==
    \/ \E a \in Actions : Evaluate(a)
    \/ seed
    \/ \E k \in 1 .. MaxRecords : StartArchive(k)
    \/ appendChain \/ UnlinkActive \/ RenameActive \/ Crash

Spec == Init /\ [][Next]_vars

-----------------------------------------------------------------------------
(* Verification and restore                                                *)

\* verifyGelRecordsStartingFrom; hashes of the contents always agree.
verifyGelRecordsStartingFrom(records, start) ==
    \A i \in DOMAIN records :
        records[i].previous = IF i = 1 THEN start ELSE records[i - 1].hash

verifyGelRecords(records) == verifyGelRecordsStartingFrom(records, GENESIS_HASH)

\* Mutant: the two files are joined without a look at the result.
restoreOk_NoVerify ==
    archive # <<>> /\ active # <<>> => active[1].previous = LastHash(archive)

\* restoreArchive succeeds.  Where one of the files is empty the other is
\* taken as it is.
restoreOk ==
    archive # <<>> /\ active # <<>> =>
        /\ active[1].previous = LastHash(archive)
        /\ verifyGelRecords(archive \o active)

-----------------------------------------------------------------------------
(* Properties                                                              *)

Contains(records, r) == \E j \in DOMAIN records : records[j] = r

(* archiveGelChain moves records: over any number of rounds, completed or  *)
(* crashed while copying, each record is in the active file or in the      *)
(* archive.  It takes a crash between unlink and rename to lose one.       *)
NothingLost ==
    pc = "idle" /\ "crash_swapping" \notin events =>
        \A i \in DOMAIN history : Contains(active, history[i]) \/ Contains(archive, history[i])

(* restoreArchive "fails fast on mismatch instead of producing a corrupted *)
(* concatenation": when it reports success its output is every record that *)
(* was ever written, once and in order, also after crashes while copying   *)
(* have left records twice.                                                *)
RestoreComplete ==
    pc = "idle" /\ events \subseteq {"crash_copying"} /\ restoreOk
        => archive \o active = history

(* archiveGelChain without a crash leaves "the post-archive state": the    *)
(* archive is followed by the active file and together they are the        *)
(* history.                                                                *)
ArchiveIsAtomic ==
    pc = "idle" /\ events = {} => archive \o active = history

(* "Both files independently verify under their respective verifiers", the *)
(* archive from GENESIS and the active file from the archive's tip,        *)
(* through rounds without a crash and restarts of the boundary.            *)
FilesVerify ==
    pc = "idle" /\ events = {} =>
        /\ verifyGelRecords(archive)
        /\ verifyGelRecordsStartingFrom(active, LastHash(archive))

-----------------------------------------------------------------------------
(* The inductive invariant                                                 *)

\* The active file, or what is about to become it.
Current == IF pc = "unlinked" THEN chain ELSE active

\* The last records of the history, and its first.
Newest(records) ==
    /\ Len(records) <= Len(history)
    /\ \A i \in DOMAIN records :
        records[i] = history[Len(history) - Len(records) + i]

Oldest(records) ==
    /\ Len(records) <= Len(history)
    /\ \A i \in DOMAIN records : records[i] = history[i]

ArchiverState ==
    /\ pc = "idle" => copied = 0
    /\ pc = "appending" => chain = active
    /\ pc # "idle" =>
        /\ cutoff \in 1 .. Len(chain) /\ copied \in 0 .. cutoff
        /\ cutoff = Len(chain) => "emptied" \in events
    /\ pc = "unlinked" => copied = cutoff

\* The history is one chain and the boundary's index is at its end.
ChainIntact ==
    /\ \A i \in DOMAIN history : history[i].hash = i /\ history[i].previous = i - 1
    /\ tip = Len(history)

ActiveIsNewest ==
    /\ Newest(Current)
    /\ history # <<>> => Current # <<>>

\* Everything that is no longer in the active file is in the archive.  The
\* archive verifies only if it is the beginning of the history, and without
\* crashes it is.
ArchiveCovers ==
    /\ \A i \in DOMAIN archive : \E j \in DOMAIN history : archive[i] = history[j]
    /\ \A i \in 1 .. (Len(history) - Len(Current) + copied) :
        \E j \in DOMAIN archive : archive[j] = history[i]
    /\ verifyGelRecords(archive) => Oldest(archive)
    /\ events = {} =>
        Oldest(archive) /\ Len(archive) = Len(history) - Len(Current) + copied

\* Each record is in one of the files, and what was copied is in the archive.
Kept ==
    /\ \A i \in DOMAIN history : Contains(Current, history[i]) \/ Contains(archive, history[i])
    /\ pc # "idle" => \A i \in 1 .. copied : Contains(archive, chain[i])

IndInv ==
    /\ TypeOK /\ ArchiverState
    /\ "crash_swapping" \notin events => Kept
    /\ events \subseteq {"crash_copying"} => ChainIntact /\ ActiveIsNewest /\ ArchiveCovers
=============================================================================
