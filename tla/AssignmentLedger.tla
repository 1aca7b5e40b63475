-------------------------- MODULE AssignmentLedger --------------------------
(* The worker's ledger of assignments (bins/sandboxd/src/assignment.rs): a  *)
(* map from sandbox to its latest assignment record, kept in memory and in  *)
(* a journal. A call changes the map and queues its record under one lock,  *)
(* waits for the journal outside it, and takes the change back when the     *)
(* journal refuses it. The journal is the one JournalPromise describes.     *)
EXTENDS JournalPromise, FiniteSets

CONSTANTS
    Keys,                \* sandboxes
    Snapshots, NoSnapshot,
    NoRecord,
    Opener,              \* stands for the process that opens the ledger
    MaximumAssignments,  \* MAXIMUM_ASSIGNMENTS
    CompactionInterval,  \* COMPACTION_INTERVAL
    MaxEpoch,            \* bound on the epochs requested
    MaxRestarts          \* bound on the crashes of one behaviour

VARIABLES
    entries,    \* the map in memory
    appends,    \* appends_since_compaction
    call,       \* what the caller for each key does, and what it must undo
    stage,      \* how far the start of the process is
    restarts,
    ack,        \* history: the last record the caller of a key was told is stored
    doubt,      \* history: the records written for a key since
    granted     \* history: the last epoch begin returned

lvars == <<entries, appends, call, stage, restarts, ack, doubt, granted>>
vars == <<jvars, lvars>>

LedgerTickets == (Keys \cup {Opener}) \X {"append", "replace"}

InProgress == {"Provisioning", "Restoring", "Active", "Fencing"}
States == InProgress \cup {"Transferable", "Stopped", "Failed"}

AssignmentRecord ==
    [key : Keys, epoch : 1 .. MaxEpoch, state : States,
     snapshot : Snapshots \cup {NoSnapshot}]

NoCall == [pc |-> "idle"]

TypeOK ==
    /\ entries \in [Keys -> AssignmentRecord \cup {NoRecord}]
    /\ appends \in 0 .. CompactionInterval - 1
    /\ stage \in {"down", "loaded", "compacting", "reconciling", "serving"}
    /\ \A k \in Keys : call[k].pc \in {"idle", "append", "replace"}
    /\ ack \in [Keys -> AssignmentRecord \cup {NoRecord}]
    /\ granted \in [Keys -> 0 .. MaxEpoch]

Init ==
    /\ JournalInit
    /\ entries = [k \in Keys |-> NoRecord] /\ appends = 0
    /\ call = [k \in Keys |-> NoCall]
    /\ stage = "down" /\ restarts = 0
    /\ ack = entries /\ doubt = [k \in Keys |-> {}]
    /\ granted = [k \in Keys |-> 0]

----------------------------------------------------------------------------
\* load: the last record of each key.
Load(records) ==
    FoldLeft(LAMBDA m, r : [m EXCEPT ![r.key] = r], [k \in Keys |-> NoRecord], records)

Stored(map) == {map[k] : k \in Keys} \ {NoRecord}

\* encode_entries: one record for each key.
EncodeEntries(map) == SetToSeq(Stored(map))

AppendOf(k, record) == [op |-> "append", data |-> <<record>>, ticket |-> <<k, "append">>]
ReplaceBy(k, map) == [op |-> "replace", data |-> EncodeEntries(map), ticket |-> <<k, "replace">>]

\* valid_transition
ValidTransition ==
    {<<"Provisioning", "Active">>, <<"Provisioning", "Stopped">>, <<"Provisioning", "Failed">>,
     <<"Restoring", "Active">>, <<"Restoring", "Failed">>,
     <<"Active", "Fencing">>, <<"Active", "Stopped">>, <<"Active", "Failed">>,
     <<"Fencing", "Active">>, <<"Fencing", "Transferable">>, <<"Fencing", "Failed">>}

\* open: read the journal, then replace it by what was read.
OpenLedger ==
    /\ stage = "down" /\ Open
    /\ entries' = Load(loaded') /\ appends' = 0
    /\ stage' = "loaded"
    /\ UNCHANGED <<call, restarts, ack, doubt, granted>>

Compact ==
    /\ stage = "loaded"
    /\ Submit(<<ReplaceBy(Opener, entries)>>)
    /\ stage' = "compacting"
    /\ UNCHANGED <<entries, appends, call, restarts, ack, doubt, granted>>

\* Mutant: an interrupted hand-over stays in the fencing state.
ReconciledButFencing ==
    [k \in Keys |-> IF entries[k] # NoRecord /\ entries[k].state \in InProgress \ {"Fencing"}
                    THEN [entries[k] EXCEPT !.state = "Failed"] ELSE entries[k]]

\* reconcile_after_recovery: no assignment of an earlier process goes on.
Reconciled ==
    [k \in Keys |-> IF entries[k] # NoRecord /\ entries[k].state \in InProgress
                    THEN [entries[k] EXCEPT !.state = "Failed"] ELSE entries[k]]

Serve(map) ==
    /\ stage' = "serving"
    /\ ack' = map /\ doubt' = [k \in Keys |-> {}]

ReconcileAfterRecovery ==
    /\ stage = "compacting" /\ reply[<<Opener, "replace">>] = "ok"
    /\ entries' = Reconciled
    /\ IF entries' = entries
       THEN Serve(entries) /\ UNCHANGED <<jvars, appends>>
       ELSE /\ Submit(<<ReplaceBy(Opener, entries')>>)
            /\ appends' = 0 /\ stage' = "reconciling"
            /\ doubt' = [k \in Keys |-> doubt[k] \cup {entries'[k]}]
            /\ UNCHANGED ack
    /\ UNCHANGED <<call, restarts, granted>>

StartServing ==
    /\ stage = "reconciling" /\ reply[<<Opener, "replace">>] = "ok"
    /\ Serve(entries)
    /\ UNCHANGED <<jvars, entries, appends, call, restarts, granted>>

----------------------------------------------------------------------------
\* Mutant: the compaction writes the map as it was before the call.
WriteCompactsOld(k, record, begins) ==
    LET map == [entries EXCEPT ![k] = record]
        full == appends + 1 >= CompactionInterval
    IN  /\ entries' = map
        /\ appends' = IF full THEN 0 ELSE appends + 1
        /\ Submit(<<AppendOf(k, record)>> \o IF full THEN <<ReplaceBy(k, entries)>> ELSE <<>>)
        /\ call' = [call EXCEPT ![k] = [pc |-> "append", record |-> record,
                                        previous |-> entries[k], compacts |-> full,
                                        begins |-> begins]]
        /\ doubt' = IF failure THEN doubt ELSE [doubt EXCEPT ![k] = @ \cup {record}]
        /\ UNCHANGED <<stage, restarts, ack, granted>>

\* Mutant: the counter is not reset by a compaction.
WriteCountsOn(k, record, begins) ==
    LET map == [entries EXCEPT ![k] = record]
        full == appends + 1 >= CompactionInterval
    IN  /\ entries' = map
        /\ appends' = appends + 1
        /\ Submit(<<AppendOf(k, record)>> \o IF full THEN <<ReplaceBy(k, map)>> ELSE <<>>)
        /\ call' = [call EXCEPT ![k] = [pc |-> "append", record |-> record,
                                        previous |-> entries[k], compacts |-> full,
                                        begins |-> begins]]
        /\ doubt' = IF failure THEN doubt ELSE [doubt EXCEPT ![k] = @ \cup {record}]
        /\ UNCHANGED <<stage, restarts, ack, granted>>

\* The locked part of a call: the map, the append and, at the interval, a
\* compaction of the map (maybe_enqueue_compaction).
Write(k, record, begins) ==
    LET map == [entries EXCEPT ![k] = record]
        full == appends + 1 >= CompactionInterval
    IN  /\ entries' = map
        /\ appends' = IF full THEN 0 ELSE appends + 1
        /\ Submit(<<AppendOf(k, record)>> \o IF full THEN <<ReplaceBy(k, map)>> ELSE <<>>)
        /\ call' = [call EXCEPT ![k] = [pc |-> "append", record |-> record,
                                        previous |-> entries[k], compacts |-> full,
                                        begins |-> begins]]
        /\ doubt' = IF failure THEN doubt ELSE [doubt EXCEPT ![k] = @ \cup {record}]
        /\ UNCHANGED <<stage, restarts, ack, granted>>

\* The service has at most one call in progress for a key: create, run and restore
\* hold its reservation, stop and snapshot its instance.
MayCall(k) == stage = "serving" /\ call[k].pc = "idle"

\* Mutant: the limit admits one assignment too many.
HasRoomForOneMore(k) ==
    entries[k] # NoRecord \/ Cardinality(Stored(entries)) <= MaximumAssignments

\* begin_operation: the ledger is not full.
HasRoom(k) == entries[k] # NoRecord \/ Cardinality(Stored(entries)) < MaximumAssignments

\* Mutant: the epoch of the last assignment is accepted again.
BeginSameEpoch(k, epoch, state, snapshot) ==
    /\ MayCall(k) /\ HasRoom(k)
    /\ entries[k] # NoRecord =>
         /\ entries[k].state \notin InProgress
         /\ epoch >= entries[k].epoch
         /\ entries[k].state = "Transferable" =>
              state = "Restoring" /\ snapshot = entries[k].snapshot
    /\ Write(k, [key |-> k, epoch |-> epoch, state |-> state, snapshot |-> snapshot], TRUE)

\* Mutant: a transferable assignment may be restored from any snapshot.
BeginAnySnapshot(k, epoch, state, snapshot) ==
    /\ MayCall(k) /\ HasRoom(k)
    /\ entries[k] # NoRecord =>
         /\ entries[k].state \notin InProgress
         /\ epoch > entries[k].epoch
         /\ entries[k].state = "Transferable" =>
              state = "Restoring"
    /\ Write(k, [key |-> k, epoch |-> epoch, state |-> state, snapshot |-> snapshot], TRUE)

\* begin_operation, of begin and begin_restore: the epoch is the caller's or the
\* successor of the current one.
BeginOperation(k, epoch, state, snapshot) ==
    /\ MayCall(k) /\ HasRoom(k)
    /\ entries[k] # NoRecord =>
         /\ entries[k].state \notin InProgress
         /\ epoch > entries[k].epoch
         /\ entries[k].state = "Transferable" =>
              state = "Restoring" /\ snapshot = entries[k].snapshot
    /\ Write(k, [key |-> k, epoch |-> epoch, state |-> state, snapshot |-> snapshot], TRUE)

\* transition, of mark, begin_fencing and mark_transferable: the caller passes the
\* epoch it was given, and a snapshot exactly when it fences or hands over.
Transition(k, epoch, state, snapshot) ==
    /\ MayCall(k)
    /\ entries[k] # NoRecord /\ entries[k].epoch = epoch
    /\ <<entries[k].state, state>> \in ValidTransition
    /\ (snapshot # NoSnapshot) = (state \in {"Fencing", "Transferable"})
    /\ state = "Transferable" => snapshot = entries[k].snapshot
    /\ Write(k, [entries[k] EXCEPT
                    !.state = state,
                    !.snapshot = IF snapshot # NoSnapshot THEN snapshot
                                 ELSE IF state \in {"Active", "Stopped"} THEN NoSnapshot
                                 ELSE @], FALSE)

Return(k) ==
    /\ call' = [call EXCEPT ![k] = NoCall]
    /\ ack' = [ack EXCEPT ![k] = call[k].record]
    /\ doubt' = [doubt EXCEPT ![k] = {}]
    /\ granted' = IF call[k].begins
                  THEN [granted EXCEPT ![k] = call[k].record.epoch] ELSE granted

\* The append is answered ok: the call is done, or waits for its compaction.
AppendStored(k) ==
    /\ call[k].pc = "append" /\ Take(<<k, "append">>, "ok")
    /\ IF call[k].compacts
       THEN call' = [call EXCEPT ![k].pc = "replace"] /\ UNCHANGED <<ack, doubt, granted>>
       ELSE Return(k)
    /\ UNCHANGED <<entries, appends, stage, restarts>>

\* Mutant: a refused record stays in the map.
AppendRefusedKeeps(k) ==
    /\ call[k].pc = "append" /\ Take(<<k, "append">>, "err")
    /\ call' = [call EXCEPT ![k] = NoCall]
    /\ UNCHANGED <<entries, appends, stage, restarts, ack, doubt, granted>>

\* rollback: the append is refused; the record goes unless it was replaced since.
AppendRefused(k) ==
    /\ call[k].pc = "append" /\ Take(<<k, "append">>, "err")
    /\ entries' = IF entries[k] = call[k].record
                  THEN [entries EXCEPT ![k] = call[k].previous] ELSE entries
    /\ call' = [call EXCEPT ![k] = NoCall]
    /\ UNCHANGED <<appends, stage, restarts, ack, doubt, granted>>

\* The compaction is answered; when it is refused the call fails though its record
\* is stored.
CompactionStored(k) ==
    /\ call[k].pc = "replace" /\ Take(<<k, "replace">>, "ok")
    /\ Return(k)
    /\ UNCHANGED <<entries, appends, stage, restarts>>

CompactionRefused(k) ==
    /\ call[k].pc = "replace" /\ Take(<<k, "replace">>, "err")
    /\ call' = [call EXCEPT ![k] = NoCall]
    /\ UNCHANGED <<entries, appends, stage, restarts, ack, doubt, granted>>

\* The journal works and fails on its own.
JournalStep ==
    /\ \/ \E n \in 1 .. Len(pending) : Commit(n)
       \/ \E tickets \in SUBSET Waiting : Refuse(tickets)
    /\ UNCHANGED lvars

\* The process or the machine stops; a refused opening ends the process too.
Restart ==
    /\ restarts < MaxRestarts
    /\ \E n \in 0 .. Len(pending) : Crash(n)
    /\ stage' = "down" /\ restarts' = restarts + 1
    /\ call' = [k \in Keys |-> NoCall]
    /\ entries' = [k \in Keys |-> NoRecord] /\ appends' = 0
    /\ UNCHANGED <<ack, doubt, granted>>

Next ==
    \/ OpenLedger \/ Compact \/ ReconcileAfterRecovery \/ StartServing
    \/ \E k \in Keys, epoch \in 1 .. MaxEpoch :
         \/ BeginOperation(k, epoch, "Provisioning", NoSnapshot)
         \/ \E s \in Snapshots : BeginOperation(k, epoch, "Restoring", s)
         \/ \E state \in States, s \in Snapshots \cup {NoSnapshot} :
              Transition(k, epoch, state, s)
    \/ \E k \in Keys : AppendStored(k) \/ AppendRefused(k) \/ CompactionStored(k) \/ CompactionRefused(k)
    \/ JournalStep \/ Restart

Spec == Init /\ [][Next]_vars

----------------------------------------------------------------------------
\* What memory says of a sandbox no call is writing is the record synced to disk:
\* rollback takes a refused record back to exactly the stored one, another call's
\* compaction loses nothing and brings nothing back, and require_current never
\* answers from a record that was never stored.
IdleIsDurable ==
    stage = "serving" =>
        \A k \in Keys : call[k].pc = "idle" => entries[k] = Load(disk)[k]

\* A restarted ledger finds for every key the last acknowledged record or one that
\* was written after it, never an older one, and a record that was refused is never
\* mistaken for more than a possibly stored one.
AcknowledgedSurvives ==
    stage = "loaded" => \A k \in Keys : entries[k] \in {ack[k]} \cup doubt[k]

\* Whatever part of the queue a crash leaves, the file is one that load accepts at
\* the next start (MAXIMUM_RECOVERY_RECORDS, MAXIMUM_ASSIGNMENTS), although a
\* rolled back assignment makes room for another while its record may be on disk.
AlwaysLoadable ==
    \A n \in 0 .. Len(pending) :
        LET records == Contents(disk, SubSeq(pending, 1, n))
        IN  /\ Len(records) <= MaximumAssignments + CompactionInterval
            /\ Cardinality(Stored(Load(records))) <= MaximumAssignments

\* begin returns to its caller in this step.
Granting(k) == call[k].pc # "idle" /\ call[k].begins /\ ack'[k] # ack[k]

\* begin never returns the same or a smaller epoch for a sandbox again, in this
\* process or after a restart, although a refused grant is rolled back and its
\* record may still be found on disk.
EpochsAdvance ==
    [][\A k \in Keys : Granting(k) => call[k].record.epoch > granted[k]]_vars

\* An assignment acknowledged as transferable is only ever succeeded by a restore
\* of its snapshot, across restarts.
TransferBound ==
    [][\A k \in Keys :
        Granting(k) /\ ack[k] # NoRecord /\ ack[k].state = "Transferable" =>
            call[k].record.state = "Restoring" /\ call[k].record.snapshot = ack[k].snapshot]_vars

\* A process starts serving only when every assignment of an earlier one is fenced,
\* in memory and in whatever a crash can leave on disk.
RestartFences ==
    [][stage # "serving" /\ stage' = "serving" =>
        \A r \in Stored(entries') \cup Range(Contents(disk', pending')) :
            r.state \notin InProgress]_vars
=============================================================================
