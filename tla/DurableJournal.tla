--------------------------- MODULE DurableJournal ---------------------------
(* The append-only journal under bins/sandboxd/src/journal: callers queue   *)
(* commands, one writer thread takes them in batches, writes, syncs and     *)
(* answers. The file is modelled record by record: what a reader would see, *)
(* how much of it is known to be on disk, and a partly written record at    *)
(* its end.                                                                 *)
EXTENDS Naturals, Sequences, SequencesExt

CONSTANTS
    Tickets,       \* the receipts callers can be waiting on
    NoTicket,      \* stands for a receipt that died with its process
    Records,       \* what can be appended
    Replacements,  \* contents a replacement can carry
    MaxBatch,      \* MAXIMUM_BATCH_RECORDS
    MaxCommands,   \* bound on the commands of one behaviour
    Opener,        \* the receipt of the opening compaction
    Garbage        \* a record whose bytes follow a torn one

VARIABLES
    reply,     \* what each receipt says: none, pending, ok, err
    loaded,    \* the records read at the last opening
    up,        \* whether the process runs
    file,      \* the records of the file the journal's path names
    torn,      \* the file ends in part of a record
    synced,    \* the first records that survive a machine crash
    older,     \* files a machine crash may bring back: their renaming is not synced
    queue,     \* the channel to the writer
    batch,     \* the appends being written
    written,   \* how many of them are
    phase,     \* what the writer does: idle, append, renamed
    failure,   \* the writer met an error
    log,       \* history: the commands queued, less the ones a crash lost
    acked,     \* history: how many of them are known to be on disk
    applied    \* history: how many of them the file reflects

vars == <<reply, loaded, up, file, torn, synced, older, queue, batch, written, phase,
          failure, log, acked, applied>>
jvars == <<reply, loaded, up, log, acked>>

Users == Tickets \ {Opener}

TicketsOf(commands) == {commands[i].ticket : i \in DOMAIN commands}

\* The commands of a process that is gone.
Orphaned(commands) == [i \in DOMAIN commands |-> [commands[i] EXCEPT !.ticket = NoTicket]]

NoReplies == [t \in Tickets |-> "none"]

Opening == [op |-> "replace", data |-> loaded, ticket |-> Opener]

Commands ==
    [op : {"append"}, data : {<<r>> : r \in Records}, ticket : Users]
        \cup [op : {"replace"}, data : Replacements, ticket : Users]
        \cup {Opening}

TypeOK ==
    /\ \A s \in {log, queue, batch} : \A i \in DOMAIN s : s[i].ticket \in Tickets \cup {NoTicket}
    /\ file \in Seq(Records \cup {Garbage}) /\ loaded \in Seq(Records \cup {Garbage})
    /\ synced \in 0 .. Len(file)
    /\ applied \in Nat /\ acked \in Nat
    /\ written \in 0 .. Len(batch)
    /\ phase \in {"idle", "append", "renamed"}
    /\ reply \in [Tickets -> {"none", "pending", "ok", "err"}]
    /\ {torn, failure, up} \subseteq BOOLEAN

Init ==
    /\ reply = NoReplies /\ loaded = <<>> /\ up = FALSE
    /\ log = <<>> /\ acked = 0
    /\ file = <<>> /\ torn = FALSE /\ synced = 0 /\ older = {}
    /\ queue = <<>> /\ batch = <<>> /\ written = 0 /\ phase = "idle"
    /\ failure = FALSE /\ applied = 0

\* enqueue: hand a command to the writer and keep its receipt. The users of the
\* journal (AssignmentLedger::open, ReplayCache::open) first replace the file by
\* what they read from it, and go on when that is answered.
Enqueue(c) ==
    /\ Len(log) < MaxCommands
    /\ IF c.ticket = Opener
       THEN reply[Opener] = "none"
       ELSE reply[Opener] = "ok" /\ reply[c.ticket] # "pending"
    /\ up
    /\ log' = IF failure THEN log ELSE Append(log, c)
    /\ queue' = Append(queue, c)
    /\ reply' = [reply EXCEPT ![c.ticket] = "pending"]
    /\ UNCHANGED <<loaded, up, acked, file, torn, synced, older, batch, written, phase, failure, applied>>

Answer(tickets, verdict) ==
    reply' = [t \in Tickets |-> IF t \in tickets THEN verdict ELSE reply[t]]

\* Mutant: a failed writer forgets the receipt.
DropFailed ==
    /\ up /\ phase = "idle" /\ failure /\ queue # <<>>
    /\ queue' = Tail(queue)
    /\ UNCHANGED <<jvars, file, torn, synced, older, batch, written, phase, failure, applied>>

\* run: a failed writer answers every later command with its error.
AnswerFailed ==
    /\ up /\ phase = "idle" /\ failure /\ queue # <<>>
    /\ Answer({Head(queue).ticket}, "err")
    /\ queue' = Tail(queue)
    /\ UNCHANGED <<log, acked, loaded, up, file, torn, synced, older, batch, written,
                   phase, failure, applied>>

\* Mutant: the writer goes on after an error.
CollectAfterFailure(n) ==
    /\ up /\ phase = "idle"
    /\ n \in 1 .. MaxBatch /\ n <= Len(queue)
    /\ \A i \in 1 .. n : queue[i].op = "append"
    /\ batch' = SubSeq(queue, 1, n)
    /\ queue' = SubSeq(queue, n + 1, Len(queue))
    /\ written' = 0 /\ phase' = "append"
    /\ UNCHANGED <<jvars, file, torn, synced, older, failure, applied>>

\* run: collect appends until the batch is full, the window closes or a
\* replacement comes.
CollectBatch(n) ==
    /\ up /\ phase = "idle" /\ ~failure
    /\ n \in 1 .. MaxBatch /\ n <= Len(queue)
    /\ \A i \in 1 .. n : queue[i].op = "append"
    /\ batch' = SubSeq(queue, 1, n)
    /\ queue' = SubSeq(queue, n + 1, Len(queue))
    /\ written' = 0 /\ phase' = "append"
    /\ UNCHANGED <<jvars, file, torn, synced, older, failure, applied>>

\* append_batch: one write_all. Bytes after a torn record complete no record.
WriteRecord ==
    /\ up /\ phase = "append" /\ written < Len(batch)
    /\ file' = file \o IF torn THEN <<Garbage>> ELSE batch[written + 1].data
    /\ torn' = FALSE
    /\ written' = written + 1 /\ applied' = applied + 1
    /\ UNCHANGED <<jvars, synced, older, queue, batch, phase, failure>>

\* Mutant: the receipts are answered without the sync.
SyncSkipped ==
    /\ up /\ phase = "append" /\ written = Len(batch)
    /\ Answer(TicketsOf(batch), "ok")
    /\ batch' = <<>> /\ written' = 0 /\ phase' = "idle"
    /\ UNCHANGED <<log, acked, loaded, up, file, torn, synced, older, queue, failure,
                   applied>>

\* Mutant: the position in the batch is not reset.
SyncKeepsPosition ==
    /\ up /\ phase = "append" /\ written = Len(batch)
    /\ synced' = Len(file) /\ acked' = applied
    /\ Answer(TicketsOf(batch), "ok")
    /\ batch' = <<>> /\ phase' = "idle"
    /\ UNCHANGED <<log, loaded, up, file, torn, older, queue, written, failure, applied>>

\* append_batch: sync_data, then every receipt of the batch.
SyncBatch ==
    /\ up /\ phase = "append" /\ written = Len(batch)
    /\ synced' = Len(file) /\ acked' = applied
    /\ Answer(TicketsOf(batch), "ok")
    /\ batch' = <<>> /\ written' = 0 /\ phase' = "idle"
    /\ UNCHANGED <<log, loaded, up, file, torn, older, queue, failure, applied>>

Fail(commands) ==
    /\ failure' = TRUE
    /\ Answer(TicketsOf(commands), "err")
    /\ batch' = <<>> /\ written' = 0 /\ phase' = "idle"

\* append_batch: a write or the sync returns an error; a write may leave part of
\* its record.
AppendFails ==
    /\ up /\ phase = "append"
    /\ torn' \in IF written < Len(batch) THEN {torn, TRUE} ELSE {torn}
    /\ Fail(batch)
    /\ UNCHANGED <<log, acked, loaded, up, file, synced, older, queue, applied>>

\* replace: write and sync a temporary file, and rename it over the journal.
Rename ==
    /\ up /\ phase = "idle" /\ ~failure /\ queue # <<>> /\ Head(queue).op = "replace"
    /\ file' = Head(queue).data /\ torn' = FALSE
    /\ older' = older \cup {[data |-> SubSeq(file, 1, n),
                             applied |-> applied - (Len(file) - n)] :
                                n \in synced .. Len(file)}
    /\ synced' = Len(file') /\ applied' = applied + 1
    /\ batch' = <<Head(queue)>> /\ queue' = Tail(queue)
    /\ phase' = "renamed"
    /\ UNCHANGED <<jvars, written, failure>>

\* replace: sync the directory and reopen the file.
SyncDirectory ==
    /\ up /\ phase = "renamed"
    /\ older' = {} /\ acked' = applied
    /\ Answer(TicketsOf(batch), "ok")
    /\ batch' = <<>> /\ phase' = "idle"
    /\ UNCHANGED <<log, loaded, up, file, torn, synced, queue, written, failure, applied>>

\* replace: an error before the rename, or after it.
ReplaceFails ==
    /\ up /\ ~failure
    /\ \/ /\ phase = "renamed" /\ Fail(batch) /\ UNCHANGED queue
       \/ /\ phase = "idle" /\ queue # <<>> /\ Head(queue).op = "replace"
          /\ Fail(<<Head(queue)>>) /\ queue' = Tail(queue)
    /\ UNCHANGED <<log, acked, loaded, up, file, torn, synced, older, applied>>

Halt ==
    /\ reply' = NoReplies /\ up' = FALSE
    /\ queue' = <<>> /\ batch' = <<>> /\ written' = 0 /\ phase' = "idle"
    /\ failure' = FALSE
    /\ UNCHANGED <<acked, loaded>>

\* The process dies: the file stays as it is, a write under way may be cut short.
ProcessCrash ==
    /\ up
    /\ Halt
    /\ torn' \in IF phase = "append" /\ written < Len(batch) THEN BOOLEAN ELSE {torn}
    /\ log' = Orphaned(SubSeq(log, 1, applied))
    /\ UNCHANGED <<file, synced, older, applied>>

\* The machine dies: bytes not synced are lost from some point on, and a rename
\* whose directory was not synced may be undone.
MachineCrash ==
    /\ Halt
    /\ \/ \E n \in synced .. Len(file) :
            /\ file' = SubSeq(file, 1, n)
            /\ applied' = applied - (Len(file) - n)
            /\ torn' \in IF n < Len(file) \/ torn \/ phase = "append"
                         THEN BOOLEAN ELSE {FALSE}
       \/ \E lost \in older :
            file' = lost.data /\ torn' = FALSE /\ applied' = lost.applied
    /\ synced' = Len(file') /\ older' = {}
    /\ log' = Orphaned(SubSeq(log, 1, applied'))

\* open: repair_torn_tail cuts a partial record off; read_records reads the rest.
OpenJournal ==
    /\ ~up
    /\ up' = TRUE /\ loaded' = file
    /\ torn' = FALSE /\ synced' = IF torn THEN Len(file) ELSE synced
    /\ UNCHANGED <<log, acked, reply, file, older, queue, batch, written, phase,
                   failure, applied>>

Next ==
    \/ \E c \in Commands : Enqueue(c)
    \/ AnswerFailed
    \/ \E n \in 1 .. MaxBatch : CollectBatch(n)
    \/ WriteRecord \/ SyncBatch \/ AppendFails
    \/ Rename \/ SyncDirectory \/ ReplaceFails
    \/ ProcessCrash \/ MachineCrash \/ OpenJournal

Spec == Init /\ [][Next]_vars

WriterStep ==
    \/ AnswerFailed \/ (\E n \in 1 .. MaxBatch : CollectBatch(n))
    \/ WriteRecord \/ SyncBatch \/ AppendFails
    \/ Rename \/ SyncDirectory \/ ReplaceFails

\* The writer thread keeps running while the process does.
FairSpec == Spec /\ WF_vars(WriterStep)

----------------------------------------------------------------------------
Effect(contents, c) == IF c.op = "append" THEN contents \o c.data ELSE c.data

Contents(commands) == FoldLeft(Effect, <<>>, commands)

Promise == INSTANCE JournalPromise WITH
    disk <- Contents(SubSeq(log, 1, acked)),
    pending <- SubSeq(log, acked + 1, Len(log))

\* The journal implements its promise: whatever the writer was doing when the
\* process or the machine stopped, the records read at the next opening are the
\* effect of a prefix of the commands in queue order that holds every command
\* answered ok (run, append_batch, replace, repair_torn_tail, read_records).
KeepsPromise == Promise!JournalInit /\ [][Promise!JournalNext(Commands)]_(Promise!jvars)

\* No record is ever written behind a torn one, where its bytes would join the
\* torn record's and make the file unreadable: after a failed write the writer
\* writes no more, and a file is repaired before it is written again.
NeverGarbled == Garbage \notin Range(file)

\* Every receipt is answered, by success or error, or the process stops: no caller
\* of JournalReceipt::wait is left waiting by a failed writer.
Answered == \A t \in Tickets : reply[t] = "pending" ~> reply[t] # "pending"
=============================================================================
