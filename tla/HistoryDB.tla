------------------------------ MODULE HistoryDB ------------------------------
(***************************************************************************)
(* The tables entries and findings of internal/db, the proxy goroutines    *)
(* that save flows, the plugins that report findings, and the statements   *)
(* that the history and findings pages execute.                            *)
(*                                                                         *)
(* The read-write connection pool has one connection, so one SQL statement *)
(* is one step.  Whatever needs two statements is two steps: the search    *)
(* for a duplicate and the insertion, which dedupMu joins, and the count   *)
(* and the deletion of the bulk operations, which nothing joins.  The      *)
(* pages run in one event loop and call the database from it: bulk is what *)
(* that loop is in the middle of.                                          *)
(***************************************************************************)
EXTENDS Naturals, FiniteSets

CONSTANTS
    Flow,        \* flows that reach the end of Broker.SaveEntry's checks
    Request,     \* method, host, path and hash of the body
    RequestOf,   \* the request of each flow
    Report,      \* calls of create_finding
    Finding,     \* pairs (plugin_name, dedup_key)
    FindingOf,   \* the finding each call reports
    Nobody       \* the holder of a free mutex

ASSUME HistoryAssumption ==
    /\ RequestOf \in [Flow -> Request]
    /\ FindingOf \in [Report -> Finding]
    /\ Flow \cap Report = {}
    /\ Nobody \notin Flow \cup Report

VARIABLES
    entryRows,       \* the rows by id: the flow each stores
    flaggedEntries,  \* the ids of the flagged rows
    lastEntry,       \* the last id that AUTOINCREMENT gave
    findings,        \* the rows, known by their UNIQUE(plugin_name, dedup_key)
    flaggedFindings, \* the flagged ones
    dismissed,       \* the dismissed ones
    skipDuplicates,  \* history.skip_duplicates, read when the program starts
    dedupMu,         \* who holds DB.dedupMu
    pc,              \* where each goroutine is
    bulk             \* the bulk operation of the event loop, if one is under way

entryVars   == <<entryRows, flaggedEntries, lastEntry>>
findingVars == <<findings, flaggedFindings, dismissed>>
tables      == <<entryVars, findingVars>>
goroutines  == <<skipDuplicates, dedupMu, pc>>
dbVars      == <<tables, goroutines, bulk>>

Actor == Flow \cup Report

\* The ends of a call: the row was inserted, was there before, was refused by
\* a plugin, met an error of the database, or the program ended meanwhile.
Ended == {"saved", "duplicate", "refused", "failed", "gone"}
PC    == {"start", "lock", "check", "insert"} \cup Ended

\* The event loop between two statements: unflagged says whether the count
\* was positive; upTo is the last id at that moment, kept for the properties.
Idle == [op |-> "idle", unflagged |-> FALSE, upTo |-> 0]
Bulk == [op : {"idle", "deleteAll", "dismissAll"}, unflagged : BOOLEAN, upTo : Nat]

DBInit ==
    /\ entryRows = [id \in {} |-> 0]
    /\ flaggedEntries = {}
    /\ lastEntry = 0
    /\ findings = {}
    /\ flaggedFindings = {}
    /\ dismissed = {}
    /\ skipDuplicates \in BOOLEAN
    /\ dedupMu = Nobody
    /\ pc = [a \in Actor |-> "start"]
    /\ bulk = Idle
-----------------------------------------------------------------------------
(***************************************************************************)
(* Goroutines.                                                             *)
(***************************************************************************)
At(a, label) == pc[a] = label
Goto(a, label) == pc' = [pc EXCEPT ![a] = label]

Lock(a) == dedupMu = Nobody /\ dedupMu' = a

\* defer dedupMu.Unlock(), on every return; the plain InsertEntry holds nothing.
Unlock(a) == dedupMu' = IF dedupMu = a THEN Nobody ELSE dedupMu

\* HasDuplicate, as a query on the table.
Stored(r) == \E id \in DOMAIN entryRows : RequestOf[entryRows[id]] = r

\* The rest of SaveEntry: onBeforeNewEntry may refuse the entry, and
\* skip_duplicates chooses between InsertIfNotDuplicate and InsertEntry.
Submit(f) ==
    /\ At(f, "start")
    /\ \/ Goto(f, "refused")
       \/ Goto(f, IF skipDuplicates THEN "lock" ELSE "insert")
    /\ UNCHANGED <<tables, skipDuplicates, dedupMu, bulk>>

\* Mistake: the mutex is not taken.
LockDedupSkipped(f) ==
    /\ At(f, "lock")
    /\ Goto(f, "check")
    /\ UNCHANGED <<tables, skipDuplicates, dedupMu, bulk>>

LockDedup(f) ==
    /\ At(f, "lock")
    /\ Lock(f)
    /\ Goto(f, "check")
    /\ UNCHANGED <<tables, skipDuplicates, bulk>>

\* The query may fail; the flow is then not saved.
HasDuplicate(f) ==
    /\ At(f, "check")
    /\ \/ Goto(f, "failed") /\ Unlock(f)
       \/ Stored(RequestOf[f]) /\ Goto(f, "duplicate") /\ Unlock(f)
       \/ ~Stored(RequestOf[f]) /\ Goto(f, "insert") /\ UNCHANGED dedupMu
    /\ UNCHANGED <<tables, skipDuplicates, bulk>>

\* Mistake: the row takes the next id, the sequence is not advanced.
InsertEntryUncounted(f) ==
    /\ At(f, "insert")
    /\ entryRows' = [id \in DOMAIN entryRows \cup {lastEntry + 1} |->
                     IF id = lastEntry + 1 THEN f ELSE entryRows[id]]
    /\ Goto(f, "saved")
    /\ Unlock(f)
    /\ UNCHANGED <<flaggedEntries, lastEntry, findingVars, skipDuplicates, bulk>>

\* INSERT INTO entries, with the next id.
InsertEntry(f) ==
    /\ At(f, "insert")
    /\ lastEntry' = lastEntry + 1
    /\ entryRows' = [id \in DOMAIN entryRows \cup {lastEntry + 1} |->
                     IF id = lastEntry + 1 THEN f ELSE entryRows[id]]
    /\ Goto(f, "saved")
    /\ Unlock(f)
    /\ UNCHANGED <<flaggedEntries, findingVars, skipDuplicates, bulk>>

\* Mistake: an error returns without unlocking.
InsertFailsLocked(f) ==
    /\ At(f, "insert")
    /\ Goto(f, "failed")
    /\ UNCHANGED <<tables, skipDuplicates, dedupMu, bulk>>

InsertFails(f) ==
    /\ At(f, "insert")
    /\ Goto(f, "failed")
    /\ Unlock(f)
    /\ UNCHANGED <<tables, skipDuplicates, bulk>>

LockFindings(r) ==
    /\ At(r, "start")
    /\ Lock(r)
    /\ Goto(r, "insert")
    /\ UNCHANGED <<tables, skipDuplicates, bulk>>

\* INSERT OR IGNORE INTO findings.
UpsertFinding(r) ==
    /\ At(r, "insert")
    /\ findings' = findings \cup {FindingOf[r]}
    /\ Goto(r, IF FindingOf[r] \in findings THEN "duplicate" ELSE "saved")
    /\ Unlock(r)
    /\ UNCHANGED <<entryVars, flaggedFindings, dismissed, skipDuplicates, bulk>>

UpsertFails(r) ==
    /\ At(r, "insert")
    /\ Goto(r, "failed")
    /\ Unlock(r)
    /\ UNCHANGED <<tables, skipDuplicates, bulk>>
-----------------------------------------------------------------------------
(***************************************************************************)
(* The event loop.  A page names a row by the id of its copy of it, which  *)
(* may have been deleted since: such a statement changes nothing.          *)
(***************************************************************************)
BulkIdle == bulk.op = "idle"

\* x with its membership of the set s inverted: flagged = NOT flagged.
Toggled(s, x) == IF x \in s THEN s \ {x} ELSE s \cup {x}

ToggleFlag(id) ==
    /\ BulkIdle
    /\ flaggedEntries' = Toggled(flaggedEntries, id)
    /\ UNCHANGED <<entryRows, lastEntry, findingVars, goroutines, bulk>>

KeepOnly(ids) ==
    /\ entryRows' = [id \in ids |-> entryRows[id]]
    /\ flaggedEntries' = flaggedEntries \cap ids

DeleteEntry(id) ==
    /\ BulkIdle
    /\ KeepOnly(DOMAIN entryRows \ {id})
    /\ UNCHANGED <<lastEntry, findingVars, goroutines, bulk>>

UnflaggedEntries == DOMAIN entryRows \ flaggedEntries

\* Mistake: one unflagged row is not enough.
CountUnflaggedOne ==
    /\ BulkIdle
    /\ bulk' = [op |-> "deleteAll", unflagged |-> Cardinality(UnflaggedEntries) > 1,
                upTo |-> lastEntry]
    /\ UNCHANGED <<tables, goroutines>>

\* SELECT COUNT(*) FROM entries WHERE flagged = 0
CountUnflagged ==
    /\ BulkIdle
    /\ bulk' = [op |-> "deleteAll", unflagged |-> UnflaggedEntries # {}, upTo |-> lastEntry]
    /\ UNCHANGED <<tables, goroutines>>

\* DELETE FROM entries [WHERE flagged = 0]
DeleteAllExceptFlagged ==
    /\ bulk.op = "deleteAll"
    /\ KeepOnly(IF bulk.unflagged THEN flaggedEntries ELSE {})
    /\ bulk' = Idle
    /\ UNCHANGED <<lastEntry, findingVars, goroutines>>

ToggleFindingFlag(k) ==
    /\ BulkIdle
    /\ flaggedFindings' = Toggled(flaggedFindings, k)
    /\ UNCHANGED <<entryVars, findings, dismissed, goroutines, bulk>>

DismissFinding(k) ==
    /\ BulkIdle
    /\ dismissed' = dismissed \cup {k}
    /\ UNCHANGED <<entryVars, findings, flaggedFindings, goroutines, bulk>>

\* SELECT COUNT(*) FROM findings WHERE dismissed = 0 AND flagged = 0
CountActive ==
    /\ BulkIdle
    /\ bulk' = [op |-> "dismissAll", upTo |-> 0,
                unflagged |-> findings \ (dismissed \cup flaggedFindings) # {}]
    /\ UNCHANGED <<tables, goroutines>>

\* UPDATE findings SET dismissed = 1 [WHERE flagged = 0]
DismissAllFindings ==
    /\ bulk.op = "dismissAll"
    /\ dismissed' = dismissed \cup (IF bulk.unflagged THEN findings \ flaggedFindings ELSE findings)
    /\ bulk' = Idle
    /\ UNCHANGED <<entryVars, findings, flaggedFindings, goroutines>>

\* Either statement of a bulk operation fails, and the operation with it.
BulkFails ==
    /\ ~BulkIdle
    /\ bulk' = Idle
    /\ UNCHANGED <<tables, goroutines>>

\* The program ends, at any point, and is started again: the tables stay, the
\* goroutines and what they held do not, and the configuration may be another.
Restart ==
    /\ skipDuplicates' \in BOOLEAN
    /\ dedupMu' = Nobody
    /\ pc' = [a \in Actor |-> IF pc[a] \in Ended \cup {"start"} THEN pc[a] ELSE "gone"]
    /\ bulk' = Idle
    /\ UNCHANGED tables
-----------------------------------------------------------------------------
Goroutine(a) ==
    \/ a \in Flow /\ \/ Submit(a)
                     \/ LockDedup(a)
                     \/ HasDuplicate(a)
                     \/ InsertEntry(a)
                     \/ InsertFails(a)
    \/ a \in Report /\ \/ LockFindings(a)
                       \/ UpsertFinding(a)
                       \/ UpsertFails(a)

EventLoop ==
    \/ \E id \in DOMAIN entryRows : ToggleFlag(id) \/ DeleteEntry(id)
    \/ CountUnflagged
    \/ DeleteAllExceptFlagged
    \/ \E k \in findings : ToggleFindingFlag(k) \/ DismissFinding(k)
    \/ CountActive
    \/ DismissAllFindings
    \/ BulkFails

DBNext ==
    \/ \E a \in Actor : Goroutine(a)
    \/ EventLoop
    \/ Restart

DBSpec == DBInit /\ [][DBNext]_dbVars

\* Goroutines that can go on do.  Nobody takes the mutex twice, so whoever
\* waits for it needs no stronger fairness.
DBFairSpec == DBSpec /\ \A a \in Actor : WF_dbVars(Goroutine(a))
-----------------------------------------------------------------------------
(***************************************************************************)
(* Properties.                                                             *)
(***************************************************************************)
\* Every variable keeps its type; ids grow.
DBTypeOK ==
    /\ lastEntry \in Nat
    /\ DOMAIN entryRows \subseteq 1..lastEntry
    /\ \A id \in DOMAIN entryRows : entryRows[id] \in Flow
    /\ flaggedEntries \subseteq DOMAIN entryRows
    /\ findings \subseteq Finding
    /\ flaggedFindings \subseteq findings
    /\ dismissed \subseteq findings
    /\ skipDuplicates \in BOOLEAN
    /\ dedupMu \in Actor \cup {Nobody}
    /\ pc \in [Actor -> PC]
    /\ bulk \in Bulk

\* "skip saving entries with the same method, host, path and body": with
\* skip_duplicates on, whichever goroutines save at the same time, no entry is
\* added whose request is in the table already.
NoDuplicateSaved ==
    [][skipDuplicates =>
         \A id \in DOMAIN entryRows' \ DOMAIN entryRows : ~Stored(RequestOf[entryRows'[id]])]_dbVars

\* A flow is only skipped as a duplicate if the same request was stored: never
\* on account of one that is still waiting, was refused or failed.
DuplicatesWereStored ==
    \A f \in Flow : At(f, "duplicate") =>
        \E g \in Flow : g # f /\ At(g, "saved") /\ RequestOf[g] = RequestOf[f]

\* DeleteAll takes a flagged entry only when no unflagged one was left: an
\* unflagged entry that goes with it came after the count.
FlaggedGoLast ==
    [][bulk.op = "deleteAll" =>
         \A id \in flaggedEntries \ DOMAIN entryRows' :
             \A other \in UnflaggedEntries : other > bulk.upTo]_dbVars

\* "If the user dismisses a finding it is permanently hidden and will never
\* reappear, even if the plugin generates it again": nor after a restart.
DismissedForGood ==
    [][dismissed \subseteq dismissed']_dbVars

\* Nothing a goroutine waits for here can fail to come: whatever statements
\* fail, every call ends.
CallsEnd == <>(\A a \in Actor : pc[a] \in Ended)
=============================================================================
