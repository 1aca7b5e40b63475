--------------------------- MODULE JournalPromise ---------------------------
(* What a DurableJournal promises its users: commands take effect in the    *)
(* order they were queued, an acknowledged command survives every crash, a  *)
(* command refused or not yet answered may survive or not, and what         *)
(* survives is always a prefix of the queue order. After one refusal no     *)
(* later command takes effect until the journal is opened again.            *)
EXTENDS Naturals, Sequences, SequencesExt

CONSTANTS
    Tickets,   \* the receipts a user can be waiting on
    NoTicket   \* stands for a receipt that died with its process

VARIABLES
    disk,      \* the records that survive every crash
    pending,   \* the later commands: each may have reached the disk or not
    reply,     \* what each receipt says: none, pending, ok, err
    failure,   \* the journal has refused a command
    loaded,    \* the records read at the last opening
    up         \* whether the process that owns the journal runs

jvars == <<disk, pending, reply, failure, loaded, up>>

\* A command appends its data or replaces everything with it.
Effect(contents, c) == IF c.op = "append" THEN contents \o c.data ELSE c.data

\* The records a journal holds after some more commands.
Contents(records, commands) == FoldLeft(Effect, records, commands)

NoReplies == [t \in Tickets |-> "none"]

TicketsOf(commands) == {commands[i].ticket : i \in DOMAIN commands}

\* The commands of a process that is gone.
Orphaned(commands) == [i \in DOMAIN commands |-> [commands[i] EXCEPT !.ticket = NoTicket]]

Answered(tickets, verdict) ==
    [t \in Tickets |-> IF t \in tickets THEN verdict ELSE reply[t]]

Waiting == {t \in Tickets : reply[t] = "pending"}

JournalInit ==
    /\ disk = <<>> /\ pending = <<>> /\ loaded = <<>>
    /\ reply = NoReplies /\ failure = FALSE /\ up = FALSE

\* Queueing commands gives each one a receipt; after a refusal they take no effect.
Submit(commands) ==
    /\ up
    /\ pending' = IF failure THEN pending ELSE pending \o commands
    /\ reply' = Answered(TicketsOf(commands), "pending")
    /\ UNCHANGED <<disk, failure, loaded, up>>

\* The next n commands are on disk for good and answered.
Commit(n) ==
    /\ up /\ ~failure
    /\ n \in 1 .. Len(pending)
    /\ disk' = Contents(disk, SubSeq(pending, 1, n))
    /\ pending' = SubSeq(pending, n + 1, Len(pending))
    /\ reply' = Answered(TicketsOf(SubSeq(pending, 1, n)), "ok")
    /\ UNCHANGED <<failure, loaded, up>>

\* Some commands are answered with an error, whether they reached the disk or not.
Refuse(tickets) ==
    /\ up
    /\ tickets # {} /\ tickets \subseteq Waiting
    /\ reply' = Answered(tickets, "err")
    /\ failure' = TRUE
    /\ UNCHANGED <<disk, pending, loaded, up>>

\* JournalReceipt::wait: the answer is taken once.
Take(ticket, verdict) ==
    /\ reply[ticket] = verdict
    /\ reply' = Answered({ticket}, "none")
    /\ UNCHANGED <<disk, pending, failure, loaded, up>>

\* The owner stops, at any time and possibly with the machine: the first k of the
\* commands in doubt have taken effect.
Crash(k) ==
    /\ k \in 0 .. Len(pending)
    /\ pending' = Orphaned(SubSeq(pending, 1, k))
    /\ reply' = NoReplies /\ failure' = FALSE /\ up' = FALSE
    /\ UNCHANGED <<disk, loaded>>

Open ==
    /\ ~up
    /\ up' = TRUE /\ loaded' = Contents(disk, pending)
    /\ UNCHANGED <<disk, pending, reply, failure>>

\* The journal's behaviour when its users queue the given commands.
JournalNext(commands) ==
    \/ \E c \in commands : Submit(<<c>>)
    \/ \E n \in 1 .. Len(pending) : Commit(n)
    \/ \E tickets \in SUBSET Waiting : Refuse(tickets)
    \/ \E t \in Tickets, verdict \in {"ok", "err"} : Take(t, verdict)
    \/ \E k \in 0 .. Len(pending) : Crash(k)
    \/ Open
=============================================================================
