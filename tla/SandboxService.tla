--------------------------- MODULE SandboxService ---------------------------
(* The worker daemon (bins/sandboxd): connection threads that serve run,    *)
(* create, restore, stop, snapshot, pause and resume, the single worker     *)
(* slot, the assignment ledger, the sandboxes it runs and its start and end. *)
(* The ledger is reduced to what AssignmentLedger guarantees: a write is     *)
(* stored, or refused and then perhaps stored, and after a refusal every     *)
(* write is refused. The executor is reduced to which assignments may still  *)
(* have processes.                                                           *)
EXTENDS Naturals, FiniteSets

CONSTANTS
    Keys, NoKey,        \* sandboxes
    Threads, NoThread,  \* connection threads
    NoRecord,
    Writable,           \* the sandboxes whose topology has writable data
    Offers,             \* the sets of work orders (sandboxes with an epoch) there may be
    MaxStarts           \* bound on the starts of the daemon

VARIABLES
    \* on disk, or outside the daemon
    stored,         \* for each sandbox the records of which one is on disk
    marker,         \* the terminal marker of the worker
    executing,      \* the assignments that may have processes
    grants,         \* the assignments with a published transfer grant
    starts,
    orders,         \* the work orders clients send
    started,        \* history: the assignments ever executed
    \* in memory
    phase,          \* down, recovered, serving, closing
    shutdown,       \* DaemonState::shutdown
    slot,           \* WorkerSlot
    active,         \* reservations
    listed,         \* DaemonState::sandboxes
    inst,           \* the sandbox objects
    lock,           \* who holds a sandbox object
    ledger, journalFailed,
    threads

disk == <<stored, marker, grants, starts, orders>>
lvars == <<ledger, stored, journalFailed>>
runtime == <<inst, executing, started>>
vars == <<disk, runtime, phase, shutdown, slot, active, listed, lock, ledger,
          journalFailed, threads>>

InProgress == {"Provisioning", "Restoring", "Active", "Fencing"}
SlotStates == {"Clean", "Leased", "Running", "Draining", "Cleaning", "Quarantined"}
StartOps == {"run", "create", "restore"}
InstanceOps == {"stop", "live", "move", "pause", "resume"}

Record == [epoch : {x[2] : x \in UNION Offers}, state : InProgress \cup {"Transferable", "Stopped", "Failed"}]
Instance == [state : {"none", "Running", "Paused", "Failed", "Stopped"},
             resources : BOOLEAN, ingress : BOOLEAN]

NoInstance == [state |-> "none", resources |-> FALSE, ingress |-> FALSE]
CleanSlot == [state |-> "Clean", key |-> NoKey]
Idle == [pc |-> "idle", op |-> "none", key |-> NoKey, epoch |-> 0, paused |-> FALSE]

TypeOK ==
    /\ ledger \in [Keys -> Record \cup {NoRecord}]
    /\ \A k \in Keys : stored[k] # {} /\ stored[k] \subseteq Record \cup {NoRecord}
    /\ slot \in [state : SlotStates, key : Keys \cup {NoKey}]
    /\ inst \in [Keys -> Instance]
    /\ lock \in [Keys -> Threads \cup {NoThread}]
    /\ active \subseteq Keys /\ listed \subseteq Keys
    /\ executing \subseteq started /\ grants \subseteq started
    /\ phase \in {"down", "recovered", "serving", "closing"}
    /\ {marker, shutdown, journalFailed} \subseteq BOOLEAN

\* A process that has just started holds nothing in memory.
Init ==
    /\ shutdown = FALSE /\ slot = CleanSlot
    /\ active = {} /\ listed = {} /\ journalFailed = FALSE
    /\ inst = [k \in Keys |-> NoInstance] /\ lock = [k \in Keys |-> NoThread]
    /\ threads = [t \in Threads |-> Idle]
    /\ stored = [k \in Keys |-> {NoRecord}] /\ marker = FALSE
    /\ executing = {} /\ grants = {} /\ started = {} /\ starts = 0
    /\ orders \in Offers
    /\ phase = "down" /\ ledger = [k \in Keys |-> NoRecord]

----------------------------------------------------------------------------
Assignment(t) == <<threads[t].key, threads[t].epoch>>
Of(k) == {x \in executing : x[1] = k}

At(t, pc) == threads[t].pc = pc
Go(t, pc) == threads' = [threads EXCEPT ![t].pc = pc]

\* A change of state by the thread's key; the code refuses it in any other state.
SlotMoves(t, from, to) ==
    /\ slot.state = from /\ slot.key = threads[t].key
    /\ slot' = [slot EXCEPT !.state = to]

\* A ledger write: go on at one place when it is stored, at another when refused. A
\* write whose record is stored but whose compaction fails is refused, and stays in
\* memory.
Write(t, state, onStored, onRefused) ==
    LET k == threads[t].key
        record == [epoch |-> threads[t].epoch, state |-> state]
        written == /\ ~journalFailed
                   /\ ledger' = [ledger EXCEPT ![k] = record]
                   /\ stored' = [stored EXCEPT ![k] = {record}]
        withdrawn == /\ stored' = IF journalFailed THEN stored ELSE [stored EXCEPT ![k] = @ \cup {record}]
                     /\ UNCHANGED ledger
    IN  \/ written /\ Go(t, onStored) /\ UNCHANGED journalFailed
        \/ (written \/ withdrawn) /\ Go(t, onRefused) /\ journalFailed' = TRUE

\* Resources::cleanup of a sandbox: everything is gone, or perhaps not.
CleanedUp(k) == executing' = executing \ Of(k)
CleanupFailed(k) == executing' \in {executing, executing \ Of(k)}

----------------------------------------------------------------------------
(* run, create and restore                                                  *)

\* create and restore refuse a sandbox that is listed.
Accept(t, op, k, epoch) ==
    /\ phase = "serving" /\ threads[t] = Idle
    /\ op \in {"create", "restore"} => k \notin listed
    /\ threads' = [threads EXCEPT ![t] =
                     [Idle EXCEPT !.pc = "reserve", !.op = op, !.key = k, !.epoch = epoch]]
    /\ UNCHANGED <<disk, runtime, phase, shutdown, slot, active, listed, lock, ledger, journalFailed>>

\* ProjectReservation::acquire
Reserve(t) ==
    /\ At(t, "reserve")
    /\ IF shutdown \/ threads[t].key \in active
       THEN threads' = [threads EXCEPT ![t] = Idle] /\ UNCHANGED active
       ELSE active' = active \cup {threads[t].key} /\ Go(t, "lease")
    /\ UNCHANGED <<disk, runtime, phase, shutdown, slot, listed, lock, ledger, journalFailed>>

\* Mutant: any slot that is not in quarantine can be leased.
LeaseAny(t) ==
    /\ At(t, "lease")
    /\ IF slot.state # "Quarantined"
       THEN slot' = [slot EXCEPT !.state = "Leased", !.key = threads[t].key] /\ Go(t, "begin")
       ELSE UNCHANGED slot /\ Go(t, "return")
    /\ UNCHANGED <<disk, runtime, phase, shutdown, active, listed, lock, ledger, journalFailed>>

\* WorkerSlot::lease; a slot that is clean for too short a time is refused too.
Lease(t) ==
    /\ At(t, "lease")
    /\ \/ /\ slot.state = "Clean"
          /\ slot' = [slot EXCEPT !.state = "Leased", !.key = threads[t].key]
          /\ Go(t, "begin")
       \/ UNCHANGED slot /\ Go(t, "return")
    /\ UNCHANGED <<disk, runtime, phase, shutdown, active, listed, lock, ledger, journalFailed>>

\* AssignmentLedger::begin and begin_restore refuse an epoch that is not new and an
\* assignment under way; what was handed over can only be restored.
Acceptable(k, epoch, op) ==
    ledger[k] # NoRecord =>
        /\ ledger[k].state \notin InProgress /\ epoch > ledger[k].epoch
        /\ ledger[k].state = "Transferable" => op = "restore"

\* Mutant: the record is queued and its receipt is not waited for.
BeginUnstored(t) ==
    LET k == threads[t].key
        state == IF threads[t].op = "restore" THEN "Restoring" ELSE "Provisioning"
    IN  /\ At(t, "begin")
        /\ IF Acceptable(k, threads[t].epoch, threads[t].op)
           THEN /\ ledger' = [ledger EXCEPT ![k] = [epoch |-> threads[t].epoch, state |-> state]]
                /\ Go(t, "admit")
           ELSE UNCHANGED ledger /\ Go(t, "quarantine")
        /\ UNCHANGED <<disk, runtime, phase, shutdown, slot, active, listed, lock, journalFailed>>

\* Mutant: the epoch after the one that was asked for is granted.
BeginNext(t) ==
    LET k == threads[t].key
        record == [epoch |-> threads[t].epoch + 1, state |-> "Provisioning"]
    IN  /\ At(t, "begin") /\ ~journalFailed
        /\ ledger' = [ledger EXCEPT ![k] = record] /\ stored' = [stored EXCEPT ![k] = {record}]
        /\ Go(t, "admit")
        /\ UNCHANGED <<marker, grants, starts, orders, runtime, phase, shutdown, slot, active, listed, lock, journalFailed>>

Begin(t) ==
    /\ At(t, "begin")
    /\ IF Acceptable(threads[t].key, threads[t].epoch, threads[t].op)
       THEN Write(t, IF threads[t].op = "restore" THEN "Restoring" ELSE "Provisioning",
                  "admit", "quarantine")
       ELSE Go(t, "quarantine") /\ UNCHANGED lvars
    /\ UNCHANGED <<marker, grants, starts, orders, runtime, phase, shutdown, slot, active, listed, lock>>

\* admit_topology. restore then returns at once when the epoch in its fence proof
\* is zero, without failing the assignment.
Admit(t) ==
    /\ At(t, "admit")
    /\ \/ Go(t, IF threads[t].op = "run" THEN "running" ELSE "start")
       \/ Go(t, "fail")
       \/ threads[t].op = "restore" /\ Go(t, "return")
    /\ UNCHANGED <<disk, runtime, phase, shutdown, slot, active, listed, lock, ledger, journalFailed>>

\* run: mark_running.
Running(t) ==
    /\ At(t, "running") /\ SlotMoves(t, "Leased", "Running") /\ Go(t, "execute")
    /\ UNCHANGED <<disk, runtime, phase, shutdown, active, listed, lock, ledger, journalFailed>>

\* run_admitted: the services start, or the preparation fails.
Execute(t) ==
    /\ At(t, "execute")
    /\ \/ /\ executing' = executing \cup {Assignment(t)}
          /\ started' = started \cup {Assignment(t)} /\ Go(t, "executing")
       \/ Go(t, "fail") /\ UNCHANGED <<executing, started>>
    /\ UNCHANGED <<disk, inst, phase, shutdown, slot, active, listed, lock, ledger, journalFailed>>

\* run_admitted: the waited service ends and everything is cleaned up. The run
\* succeeds only if both do.
Executed(t) ==
    /\ At(t, "executing")
    /\ \/ CleanedUp(threads[t].key) /\ Go(t, "finish")
       \/ CleanupFailed(threads[t].key) /\ Go(t, "fail")
    /\ UNCHANGED <<disk, inst, started, phase, shutdown, slot, active, listed, lock, ledger, journalFailed>>

\* finish_terminal_assignment: begin_draining and mark.
Finish(t) ==
    /\ At(t, "finish") /\ SlotMoves(t, "Running", "Draining")
    /\ Write(t, "Stopped", "clean", "quarantine")
    /\ UNCHANGED <<marker, grants, starts, orders, runtime, phase, shutdown, active, listed, lock>>

\* persist_terminal: when it fails, the marker may be there or not.
Persist(verdict) == marker' \in IF verdict = "ok" THEN {TRUE} ELSE {marker, TRUE}

\* complete_worker_cleanup: begin_cleaning, recycle_clean, shutdown.
Clean(t) ==
    /\ At(t, "clean")
    /\ slot.state = "Draining" /\ slot.key = threads[t].key
    /\ \/ /\ Persist("ok") /\ slot' = [slot EXCEPT !.state = "Cleaning"]
          /\ shutdown' = TRUE /\ Go(t, "return")
       \/ /\ Persist("err") /\ slot' = [slot EXCEPT !.state = "Cleaning"]
          /\ Go(t, "quarantine") /\ UNCHANGED shutdown
    /\ UNCHANGED <<stored, grants, starts, orders, runtime, phase, active, listed, lock, ledger, journalFailed>>

\* start_admitted and restore_admitted: a failed start may leave something behind.
Start(t) ==
    LET k == threads[t].key
    IN  /\ At(t, "start")
        /\ started' = started \cup {Assignment(t)}
        /\ \/ /\ executing' = executing \cup {Assignment(t)}
              /\ inst' = [inst EXCEPT ![k] = [state |-> "Running", resources |-> TRUE, ingress |-> FALSE]]
              /\ Go(t, "activate")
           \/ /\ executing' \in {executing, executing \cup {Assignment(t)}}
              /\ Go(t, "fail") /\ UNCHANGED inst
        /\ UNCHANGED <<disk, phase, shutdown, slot, active, listed, lock, ledger, journalFailed>>

\* create and restore: mark the assignment active.
Activate(t) ==
    /\ At(t, "activate") /\ Write(t, "Active", "list", "discard")
    /\ UNCHANGED <<marker, grants, starts, orders, runtime, phase, shutdown, slot, active, listed, lock>>

\* GvisorSandbox::drop
Drop(k) ==
    /\ inst' = [inst EXCEPT ![k] = NoInstance]
    /\ IF inst[k].resources THEN CleanupFailed(k) ELSE UNCHANGED executing
    /\ UNCHANGED started

Discard(t) ==
    /\ At(t, "discard") /\ Drop(threads[t].key) /\ Go(t, "fail")
    /\ UNCHANGED <<disk, phase, shutdown, slot, active, listed, lock, ledger, journalFailed>>

\* create and restore: activate_ingress, mark_running and insert. The sandbox is
\* new and the slot leased to it, so neither call fails.
List(t) ==
    LET k == threads[t].key
    IN  /\ At(t, "list") /\ SlotMoves(t, "Leased", "Running")
        /\ inst' = [inst EXCEPT ![k].ingress = TRUE]
        /\ listed' = listed \cup {k} /\ Go(t, "return")
        /\ UNCHANGED <<disk, executing, started, phase, shutdown, active, lock, ledger, journalFailed>>

\* Mutant: a failed assignment does not put the worker in quarantine.
FailOnly(t) ==
    /\ At(t, "fail") /\ Write(t, "Failed", "return", "return")
    /\ UNCHANGED <<marker, grants, starts, orders, runtime, phase, shutdown, slot, active, listed, lock>>

\* mark_failed: the ledger's answer does not matter.
Fail(t) ==
    /\ At(t, "fail") /\ Write(t, "Failed", "quarantine", "quarantine")
    /\ UNCHANGED <<marker, grants, starts, orders, runtime, phase, shutdown, slot, active, listed, lock>>

\* quarantine_after_failure: first the flag, then the slot and its marker.
FlagShutdown(t) ==
    /\ At(t, "quarantine") /\ shutdown' = TRUE /\ Go(t, "quarantining")
    /\ UNCHANGED <<disk, runtime, phase, slot, active, listed, lock, ledger, journalFailed>>

Quarantine(t) ==
    /\ At(t, "quarantining") /\ slot.key = threads[t].key
    /\ \/ Persist("ok") /\ slot' = [slot EXCEPT !.state = "Quarantined"]
       \/ Persist("err") /\ slot' = [slot EXCEPT !.state = "Quarantined"]
    /\ Go(t, "return")
    /\ UNCHANGED <<stored, grants, starts, orders, runtime, phase, shutdown, active, listed, lock, ledger, journalFailed>>

----------------------------------------------------------------------------
(* Operations on a sandbox                                                  *)

\* require_current
Current(k, epoch) == ledger[k] = [epoch |-> epoch, state |-> "Active"]

\* The assignment is current and the sandbox listed.
Lookup(t, op, k, epoch) ==
    /\ phase = "serving" /\ threads[t] = Idle
    /\ Current(k, epoch) /\ k \in listed
    /\ threads' = [threads EXCEPT ![t] =
                     [Idle EXCEPT !.pc = "lock", !.op = op, !.key = k, !.epoch = epoch]]
    /\ UNCHANGED <<disk, runtime, phase, shutdown, slot, active, listed, lock, ledger, journalFailed>>

\* Wait for the sandbox and look at the assignment again.
Lock(t) ==
    LET k == threads[t].key
    IN  /\ At(t, "lock") /\ lock[k] = NoThread
        /\ IF Current(k, threads[t].epoch)
           THEN lock' = [lock EXCEPT ![k] = t] /\ Go(t, threads[t].op)
           ELSE Go(t, "return") /\ UNCHANGED lock
        /\ UNCHANGED <<disk, runtime, phase, shutdown, slot, active, listed, ledger, journalFailed>>

\* stop: begin_draining, then GvisorSandbox::stop, which gives the resources up
\* whether they can be cleaned up or not.
Stop(t) ==
    LET k == threads[t].key
    IN  /\ At(t, "stop")
        /\ IF slot.state # "Running"
           THEN Go(t, "return") /\ UNCHANGED <<slot, inst, executing>>
           ELSE /\ slot' = [slot EXCEPT !.state = "Draining"]
                /\ \/ /\ CleanedUp(k) /\ Go(t, "stopped")
                      /\ inst' = [inst EXCEPT ![k] = [@ EXCEPT !.state = "Stopped",
                                                     !.resources = FALSE, !.ingress = FALSE]]
                   \/ /\ CleanupFailed(k) /\ Go(t, "fail")
                      /\ inst' = [inst EXCEPT ![k] = [@ EXCEPT !.resources = FALSE, !.ingress = FALSE]]
        /\ UNCHANGED <<disk, started, phase, shutdown, active, listed, lock, ledger, journalFailed>>

Stopped(t) ==
    /\ At(t, "stopped") /\ Write(t, "Stopped", "unlist", "fail")
    /\ UNCHANGED <<marker, grants, starts, orders, runtime, phase, shutdown, slot, active, listed, lock>>

Unlist(t) ==
    LET k == threads[t].key
    IN  /\ At(t, "unlist")
        /\ listed' = listed \ {k} /\ lock' = [lock EXCEPT ![k] = NoThread] /\ Go(t, "clean")
        /\ UNCHANGED <<disk, runtime, phase, shutdown, slot, active, ledger, journalFailed>>


\* GvisorSandbox::pause of a running sandbox: done; or its root is found dead; or
\* runsc fails and ingress is switched on again.
Pause(k, onDone, onError, t) ==
    \/ /\ inst' = [inst EXCEPT ![k] = [@ EXCEPT !.state = "Paused", !.ingress = FALSE]]
       /\ threads' = [threads EXCEPT ![t] = [@ EXCEPT !.pc = onDone, !.paused = TRUE]]
    \/ inst' = [inst EXCEPT ![k].state = "Failed"] /\ Go(t, onError)
    \/ inst' = [inst EXCEPT ![k].ingress = TRUE] /\ Go(t, onError)

Resumed(k) == [inst EXCEPT ![k] = [@ EXCEPT !.state = "Running", !.ingress = TRUE]]

PauseSandbox(t) ==
    LET k == threads[t].key
    IN  /\ At(t, "pause")
        /\ IF inst[k].state = "Running" /\ inst[k].resources
           THEN Pause(k, "return", "return", t)
           ELSE Go(t, "return") /\ UNCHANGED inst
        /\ UNCHANGED <<disk, executing, started, phase, shutdown, slot, active, listed, lock, ledger, journalFailed>>

ResumeSandbox(t) ==
    LET k == threads[t].key
    IN  /\ At(t, "resume") /\ Go(t, "return")
        /\ \/ UNCHANGED inst
           \/ inst[k].state = "Paused" /\ inst[k].resources /\ inst' = Resumed(k)
        /\ UNCHANGED <<disk, executing, started, phase, shutdown, slot, active, listed, lock, ledger, journalFailed>>

\* snapshot for stop-and-move: begin_draining, fence_ingress, begin_fencing.
Fence(t) ==
    LET k == threads[t].key
    IN  /\ At(t, "move")
        /\ IF slot.state = "Running" /\ inst[k].resources
           THEN /\ slot' = [slot EXCEPT !.state = "Draining"]
                /\ inst' = [inst EXCEPT ![k].ingress = FALSE]
                /\ Write(t, "Fencing", "live", "unfence")
           ELSE Go(t, "return") /\ UNCHANGED <<slot, inst, lvars>>
        /\ UNCHANGED <<marker, grants, starts, orders, executing, started, phase, shutdown, active, listed, lock>>

\* Mutant: the sandbox is looked up and locked again by the thread that has it.
UnfenceLocking(t) ==
    /\ At(t, "unfence") /\ Go(t, "lock")
    /\ UNCHANGED <<disk, runtime, phase, shutdown, slot, active, listed, lock, ledger, journalFailed>>

\* activate_ingress and cancel_draining: the sandbox goes on.
Unfence(t) ==
    LET k == threads[t].key
    IN  /\ At(t, "unfence") /\ SlotMoves(t, "Draining", "Running")
        /\ inst' = [inst EXCEPT ![k].ingress = @ \/ inst[k].state = "Running"]
        /\ Go(t, "return")
        /\ UNCHANGED <<disk, executing, started, phase, shutdown, active, listed, lock, ledger, journalFailed>>

\* checkpoint::snapshot: a sandbox with writable data is paused first. A paused
\* one has no live snapshot, and one without a checkpointable service none at all.
Freeze(t) ==
    LET k == threads[t].key
        i == inst[k]
    IN  /\ At(t, "live")
        /\ \/ Go(t, "snapshotFailed") /\ UNCHANGED inst
           \/ /\ i.resources
              /\ i.state = "Running" \/ (i.state = "Paused" /\ threads[t].op = "move")
              /\ IF k \in Writable /\ i.state = "Running"
                 THEN Pause(k, "stage", "snapshotFailed", t)
                 ELSE Go(t, "stage") /\ UNCHANGED inst
        /\ UNCHANGED <<disk, executing, started, phase, shutdown, slot, active, listed, lock, ledger, journalFailed>>

\* resume_after_snapshot_error
ResumeAfterError(t) ==
    /\ inst' \in {inst} \cup (IF threads[t].paused /\ inst[threads[t].key].state = "Paused"
                              THEN {Resumed(threads[t].key)} ELSE {})
    /\ Go(t, "snapshotFailed")

\* The checkpoint and the writable data are staged; then a live sandbox resumes.
Stage(t) ==
    LET k == threads[t].key
    IN  /\ At(t, "stage")
        /\ \/ ResumeAfterError(t)
           \/ IF threads[t].paused /\ threads[t].op = "live"
              THEN \/ inst' = Resumed(k) /\ Go(t, "publish")
                   \/ UNCHANGED inst /\ Go(t, "snapshotFailed")
              ELSE UNCHANGED inst /\ Go(t, "publish")
        /\ UNCHANGED <<disk, executing, started, phase, shutdown, slot, active, listed, lock, ledger, journalFailed>>

\* The snapshot is published; a live one is then done.
Publish(t) ==
    /\ At(t, "publish")
    /\ \/ ResumeAfterError(t)
       \/ UNCHANGED inst /\ Go(t, IF threads[t].op = "live" THEN "return" ELSE "remove")
    /\ UNCHANGED <<disk, executing, started, phase, shutdown, slot, active, listed, lock, ledger, journalFailed>>

\* Mutant: a failed cleanup of the source is overlooked.
RemoveRegardless(t) ==
    LET k == threads[t].key
    IN  /\ At(t, "remove")
        /\ CleanupFailed(k) /\ Go(t, "grant")
        /\ inst' = [inst EXCEPT ![k] = [@ EXCEPT !.state = "Stopped",
                                       !.resources = FALSE, !.ingress = FALSE]]
        /\ lock' = [lock EXCEPT ![k] = NoThread]
        /\ UNCHANGED <<disk, started, phase, shutdown, slot, active, listed, ledger, journalFailed>>

\* The source is removed before anything is granted. The handler lets the sandbox
\* go when this is done.
Remove(t) ==
    LET k == threads[t].key
    IN  /\ At(t, "remove")
        /\ \/ /\ CleanedUp(k) /\ Go(t, "grant")
              /\ inst' = [inst EXCEPT ![k] = [@ EXCEPT !.state = "Stopped",
                                             !.resources = FALSE, !.ingress = FALSE]]
              /\ lock' = [lock EXCEPT ![k] = NoThread]
           \/ /\ CleanupFailed(k) /\ Go(t, "snapshotFailed")
              /\ inst' = [inst EXCEPT ![k] = [@ EXCEPT !.resources = FALSE, !.ingress = FALSE]]
              /\ UNCHANGED lock
        /\ UNCHANGED <<disk, started, phase, shutdown, slot, active, listed, ledger, journalFailed>>

\* is_executable
Executable(k) == inst[k].resources /\ inst[k].state \in {"Running", "Paused"}

\* A live snapshot that fails changes nothing more. A stop-and-move goes back to
\* active if the sandbox can go on, and fails the assignment otherwise.
SnapshotFailed(t) ==
    LET k == threads[t].key
    IN  /\ At(t, "snapshotFailed")
        /\ \/ /\ threads[t].op = "live"
              /\ Go(t, "return") /\ UNCHANGED <<lvars, listed, lock>>
           \/ /\ threads[t].op = "move" /\ Executable(k)
              /\ Write(t, "Active", "unfence", "return") /\ UNCHANGED <<listed, lock>>
           \/ /\ threads[t].op = "move" /\ ~Executable(k)
              /\ listed' = listed \ {k} /\ lock' = [lock EXCEPT ![k] = NoThread]
              /\ Go(t, "fail") /\ UNCHANGED lvars
        /\ UNCHANGED <<marker, grants, starts, orders, runtime, phase, shutdown, slot, active>>

\* publish_transfer_grant; one that returns an error may have been published.
Grant(t) ==
    /\ At(t, "grant")
    /\ \/ grants' = grants \cup {Assignment(t)} /\ Go(t, "transfer") /\ UNCHANGED listed
       \/ /\ grants' \in {grants, grants \cup {Assignment(t)}}
          /\ listed' = listed \ {threads[t].key} /\ Go(t, "fail")
    /\ UNCHANGED <<stored, marker, starts, orders, runtime, phase, shutdown, slot, active, lock, ledger, journalFailed>>

\* mark_transferable
Transfer(t) ==
    /\ At(t, "transfer") /\ Write(t, "Transferable", "clean", "fail")
    /\ listed' = listed \ {threads[t].key}
    /\ UNCHANGED <<marker, grants, starts, orders, runtime, phase, shutdown, slot, active, lock>>

\* The handler returns: the reservation and the sandbox are released, and a
\* sandbox nobody refers to any more is dropped.
Return(t) ==
    LET k == threads[t].key
        held == k \in listed \/ threads[t].op \in StartOps
                  \/ \E u \in Threads \ {t} : threads[u].key = k /\ threads[u].op \in InstanceOps
    IN  /\ At(t, "return")
        /\ active' = IF threads[t].op \in StartOps THEN active \ {k} ELSE active
        /\ lock' = IF lock[k] = t THEN [lock EXCEPT ![k] = NoThread] ELSE lock
        /\ IF held THEN UNCHANGED runtime ELSE Drop(k)
        /\ threads' = [threads EXCEPT ![t] = Idle]
        /\ UNCHANGED <<disk, phase, shutdown, slot, listed, ledger, journalFailed>>

----------------------------------------------------------------------------
(* The daemon                                                               *)

\* shutdown: refused while anything is reserved or listed.
Shutdown ==
    /\ phase = "serving" /\ active = {} /\ listed = {} /\ shutdown' = TRUE
    /\ UNCHANGED <<disk, runtime, phase, slot, active, listed, lock, ledger, journalFailed, threads>>

\* accept_connections ends.
StopAccepting ==
    /\ phase = "serving" /\ shutdown /\ phase' = "closing"
    /\ UNCHANGED <<disk, runtime, shutdown, slot, active, listed, lock, ledger, journalFailed, threads>>

\* Memory is gone; threads that were at work have stopped where they were.
Down ==
    /\ phase' = "down" /\ shutdown' = FALSE /\ slot' = CleanSlot
    /\ active' = {} /\ listed' = {} /\ journalFailed' = FALSE
    /\ inst' = [k \in Keys |-> NoInstance] /\ lock' = [k \in Keys |-> NoThread]
    /\ threads' = [t \in Threads |-> Idle] /\ ledger' = [k \in Keys |-> NoRecord]
    /\ UNCHANGED <<disk, started>>

\* Mutant: the end waits for the sandboxes too.
ExitUnlisted ==
    /\ phase = "closing" /\ listed = {} /\ \A t \in Threads : threads[t] = Idle
    /\ Down /\ UNCHANGED executing

\* serve returns when no connection is left; the sandboxes are dropped.
Exit ==
    /\ phase = "closing" /\ \A t \in Threads : threads[t] = Idle
    /\ Down
    /\ executing' \in {executing} \cup {executing \ UNION {Of(k) : k \in listed}}

\* The process dies at any time after it started; or wait_for_connections gives
\* up on a connection.
Crash ==
    /\ phase # "down"
    /\ Down /\ UNCHANGED executing

\* Mutant: startup does not look for what an earlier process left.
RecoverNothing ==
    /\ phase = "down" /\ starts < MaxStarts
    /\ phase' = "recovered" /\ starts' = starts + 1
    /\ UNCHANGED <<stored, marker, grants, orders, runtime, shutdown, slot, active, listed, lock, ledger, journalFailed, threads>>

\* executor::recover; when it fails the process ends.
Recover ==
    /\ phase = "down" /\ starts < MaxStarts
    /\ phase' = "recovered" /\ starts' = starts + 1
    /\ executing' = {}
    /\ UNCHANGED <<stored, marker, grants, orders, inst, started, shutdown, slot, active, listed, lock, ledger, journalFailed, threads>>

Reconciled(r) ==
    IF r # NoRecord /\ r.state \in InProgress THEN [r EXCEPT !.state = "Failed"] ELSE r

\* Mutant: the terminal marker is not looked at.
ServeUsed ==
    /\ phase = "recovered"
    /\ \E found \in [Keys -> UNION {stored[k] : k \in Keys}] :
         /\ \A k \in Keys : found[k] \in stored[k]
         /\ ledger' = [k \in Keys |-> Reconciled(found[k])]
    /\ stored' = [k \in Keys |-> {ledger'[k]}]
    /\ phase' = "serving"
    /\ UNCHANGED <<marker, grants, starts, orders, runtime, shutdown, slot, active, listed, lock, journalFailed, threads>>

\* AssignmentLedger::open, reconcile_after_recovery, WorkerSlot::open, mark_clean. A
\* worker with a terminal marker ends again.
Serve ==
    /\ phase = "recovered"
    /\ \E found \in [Keys -> UNION {stored[k] : k \in Keys}] :
         /\ \A k \in Keys : found[k] \in stored[k]
         /\ ledger' = [k \in Keys |-> Reconciled(found[k])]
    /\ stored' = [k \in Keys |-> {ledger'[k]}]
    /\ phase' = IF marker THEN "down" ELSE "serving"
    /\ UNCHANGED <<marker, grants, starts, orders, runtime, shutdown, slot, active, listed, lock, journalFailed, threads>>

Step(t) ==
    \/ Reserve(t) \/ Lease(t) \/ Begin(t) \/ Admit(t) \/ Running(t) \/ Execute(t) \/ Executed(t)
    \/ Finish(t) \/ Clean(t) \/ Start(t) \/ Activate(t) \/ Discard(t) \/ List(t) \/ Fail(t)
    \/ FlagShutdown(t) \/ Quarantine(t)
    \/ Lock(t) \/ Stop(t) \/ Stopped(t) \/ Unlist(t) \/ PauseSandbox(t) \/ ResumeSandbox(t)
    \/ Fence(t) \/ Unfence(t) \/ Freeze(t) \/ Stage(t) \/ Publish(t) \/ Remove(t)
    \/ SnapshotFailed(t) \/ Grant(t) \/ Transfer(t) \/ Return(t)

Next ==
    \/ \E t \in Threads, x \in orders :
         \/ \E op \in StartOps : Accept(t, op, x[1], x[2])
         \/ \E op \in InstanceOps : Lookup(t, op, x[1], x[2])
    \/ \E t \in Threads : Step(t)
    \/ Shutdown \/ StopAccepting \/ Exit \/ Crash \/ Recover \/ Serve

Spec == Init /\ [][Next]_vars

\* Every call of the executor, the journal and the artifact store has a deadline,
\* so a connection thread goes on; so does the thread that accepts connections.
FairSpec ==
    /\ Spec
    /\ \A t \in Threads : WF_vars(Step(t))
    /\ WF_vars(StopAccepting) /\ WF_vars(Exit)

----------------------------------------------------------------------------
\* At most one assignment has processes on the worker, and a daemon that serves has
\* its slot taken by it, whatever failed before and however often the daemon was
\* restarted (WorkerSlot::lease, executor::recover).
OneWorkload ==
    /\ Cardinality(executing) <= 1
    /\ phase \in {"serving", "closing"} => \A x \in executing : slot.key = x[1]

\* An assignment is executed at most once: a daemon that crashed in the middle of
\* create, run or restore never starts the same epoch again.
ExecutedOnce ==
    [][executing' \cap started \subseteq executing]_vars

\* Once a transfer grant may be published the source has no processes and its
\* assignment can never be active again, also after a restart (snapshot).
TransferFencesSource ==
    \A x \in grants :
        /\ x \notin executing
        /\ \A r \in stored[x[1]] \cup {ledger[x[1]]} :
             r # NoRecord /\ r.epoch = x[2] => r.state \in {"Fencing", "Transferable", "Failed"}


\* A worker that has its terminal marker is never clean, leased or running again.
UsedStaysUsed ==
    marker /\ phase \in {"serving", "closing"} => slot.state \in {"Cleaning", "Quarantined"}

\* A handler finds the slot in the state it expects, leased to its sandbox: no
\* change of state is refused, whatever two handlers do at once and whichever step
\* failed before (WorkerSlot::transition).
TransitionsAccepted ==
    \A t \in Threads :
        LET pc == threads[t].pc
            expects(state) == slot = [state |-> state, key |-> threads[t].key]
        IN  /\ pc \in {"begin", "admit", "running", "start", "activate", "discard", "list"}
                 => expects("Leased")
            /\ pc \in {"execute", "executing", "finish"} => expects("Running")
            /\ pc \in {"stopped", "unlist", "clean", "unfence", "remove", "grant", "transfer"}
                 => expects("Draining")
            /\ pc \in {"fail", "quarantine", "quarantining"} => slot.key = threads[t].key

Quiet == phase \in {"serving", "closing"} /\ \A t \in Threads : threads[t] = Idle

\* The worker serves one sandbox: the slot, the list, the ledger and the executor
\* agree on which.
ServesOne ==
    /\ slot.state = "Running" /\ listed = {slot.key} /\ ~shutdown
    /\ inst[slot.key].resources /\ ledger[slot.key].state = "Active"
    /\ executing = {<<slot.key, ledger[slot.key].epoch>>}

\* The worker is unused.
Unused == slot = CleanSlot /\ listed = {} /\ executing = {} /\ \A k \in Keys : inst[k] = NoInstance

\* Whenever no handler is at work, the worker is unused, or serves one sandbox, or
\* is on its way to be replaced. There are two exceptions: a restore with an invalid
\* fence proof leaves the worker leased, and a stop-and-move that the journal
\* refuses leaves the sandbox running where no later call can end it.
Settled ==
    Quiet =>
        \/ Unused \/ ServesOne
        \/ shutdown /\ slot.state \in {"Cleaning", "Quarantined"}
        \/ slot.state = "Leased" /\ ledger[slot.key].state = "Restoring" /\ executing = {}
        \/ /\ journalFailed /\ listed = {slot.key} /\ inst[slot.key].resources
           /\ <<slot.state, ledger[slot.key].state>> \in
                {<<"Draining", "Fencing">>, <<"Draining", "Active">>, <<"Running", "Fencing">>}

\* Every call returns once it has its sandbox, or the daemon stops: no handler is
\* left in a state from which it cannot go on. (The mutex of a sandbox is not fair,
\* so a call that waits for it may wait as long as others keep coming.)
CallsReturn ==
    \A t \in Threads : threads[t].pc \notin {"idle", "lock"} ~> threads[t].pc = "idle"

\* A daemon that is to be replaced ends, with every call that waits for a sandbox
\* (wait_for_connections).
ShutdownEnds == shutdown ~> phase = "down"
=============================================================================
