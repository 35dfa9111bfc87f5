----------------------------- MODULE WorkStore ------------------------------
(***************************************************************************)
(* The durable store of Work Items: scripts/cao_work_store.py with the     *)
(* write guard of scripts/lifecycle_guard.py and the atomic replacement of *)
(* scripts/state_store.py.                                                 *)
(*                                                                         *)
(* A Work lives in three files that are replaced one at a time: its own    *)
(* record, the guard that remembers the last authorised record, and the    *)
(* index, which is only a projection.  Lifecycle events wait in the record *)
(* (pending_events) until they are appended to events.jsonl.  Commands run *)
(* one at a time inside repo_transaction (module RepoLock), but a process  *)
(* may die between any two of its durable writes, the machine may lose     *)
(* power, an fsync may fail, and a program that does not know the guard    *)
(* may write or remove a record at any moment.                             *)
(***************************************************************************)
EXTENDS Naturals, FiniteSetsExt, SequencesExt

CONSTANTS
    WorkIds,        \* Work Items, numbered in the order their files sort
    Agents,         \* processes that run commands
    Guarded,        \* Works of lifecycle contract 2; the others have no guard
    Statuses,       \* of a Work: "active" and some that are not
    Absent,         \* no such file
    Unexpected,     \* file content that no command of this engine wrote
    None,           \* no guard, no snapshot, no transaction
    Torn,           \* an incomplete line of events.jsonl
    ForeignKinds,   \* what foreign writers do: subset of ForeignDeeds
    ForeignInWindow,\* may they do it while a guard is only prepared?
    MaxRev,         \* bound: no command saves above this state_revision
    MaxFaults,      \* bound on crashes, power losses and failed fsyncs
    MaxForeign      \* bound on foreign writes

Events == WorkIds \X (Nat \ {0})

(* A Work record, abstracted: notes stands for what the agents contributed *)
(* (decisions, pending items, paths ...), pend for pending_events.         *)
Records == [status : Statuses, rev : Nat \ {0}, gen : Nat,
            notes : SUBSET Agents, pend : Seq(Events)]

Blank(st) == [status |-> st, rev |-> 0, gen |-> 0, notes |-> {}, pend |-> <<>>]

(* A guard, and what an agent keeps of the Work it has read.               *)
Guards == [state : {"prepared", "committed"}, previous : Records \cup {Absent},
           authority : Records]
Snapshots == [id : WorkIds, work : Records \cup {Blank("active")}]

(* The command in progress: who runs it, its next step, its purpose, the   *)
(* Work it is persisting and the record to write, the events it still has  *)
(* to append, and for a scan of all Works those left to drain and the      *)
(* statuses it read.                                                       *)
Steps == {"write", "seal", "drain", "append", "clear", "restored", "scan", "pick"}
Transactions == [by : Agents, step : Steps, goal : {"load", "save", "index"},
                 id : WorkIds, next : Records \cup {Absent}, todo : Seq(Events),
                 scanning : BOOLEAN, rest : SUBSET WorkIds,
                 shown : [WorkIds -> Statuses \cup {"none"}]]

ForeignDeeds == {"overwrite", "delete", "restore"}

ASSUME StoreAssumption ==
    /\ WorkIds \subseteq Nat /\ WorkIds # {}
    /\ Guarded \subseteq WorkIds
    /\ "active" \in Statuses
    /\ ForeignKinds \subseteq ForeignDeeds
    /\ ForeignInWindow \in BOOLEAN
    /\ {MaxRev, MaxFaults, MaxForeign} \subseteq Nat
    /\ "none" \notin Statuses
    /\ Absent \notin Records /\ Unexpected \notin Records \cup {Absent}
    /\ None \notin Guards \cup Snapshots \cup Transactions
    /\ Torn \notin Events

VARIABLES
    file,       \* work/<id>.json
    guard,      \* lifecycle/guards/<id>.json
    log,        \* the lines of lifecycle/events.jsonl
    synced,     \* how many of them an fsync has made durable
    index,      \* index.json: the status shown for each Work
    snap,       \* the Work object each agent holds between two commands
    txn,        \* the command that is inside the repository transaction
    seen,       \* history: the last record of each Work a command got
    owed,       \* history: events of every sealed record
    faults,     \* faults so far
    foreign     \* foreign writes so far

disk == <<file, guard, log, synced, index>>
vars == <<disk, snap, txn, seen, owed, faults, foreign>>

Status(r) == IF r = Absent THEN "none" ELSE r.status
Pend(r) == IF r = Absent THEN <<>> ELSE r.pend

Prepared(old, new) == [state |-> "prepared", previous |-> old, authority |-> new]
Committed(new) == [state |-> "committed", previous |-> Absent, authority |-> new]

TypeOK ==
    /\ file \in [WorkIds -> Records \cup {Absent, Unexpected}]
    /\ guard \in [WorkIds -> Guards \cup {None}]
    /\ log \in Seq(Events \cup {Torn})
    /\ synced \in 0 .. Len(log)
    /\ index \in [WorkIds -> Statuses \cup {"none"}]
    /\ snap \in [Agents -> Snapshots \cup {None}]
    /\ txn \in Transactions \cup {None}
    /\ seen \in [WorkIds -> Records \cup {Absent}]
    /\ owed \subseteq Events
    /\ faults \in 0 .. MaxFaults
    /\ foreign \in 0 .. MaxForeign

Init ==
    /\ file = [w \in WorkIds |-> Absent]
    /\ guard = [w \in WorkIds |-> None]
    /\ log = <<>>
    /\ synced = 0
    /\ index = [w \in WorkIds |-> "none"]
    /\ snap = [a \in Agents |-> None]
    /\ txn = None
    /\ seen = [w \in WorkIds |-> Absent]
    /\ owed = {}
    /\ faults = 0
    /\ foreign = 0

-----------------------------------------------------------------------------
(* Reading a Work: _read_work and verify.                                  *)

\* verify lets through the record the guard authorises; while the guard is
\* prepared, both the previous record and the new one.
Authorised(w) ==
    CASE guard[w] = None -> {file[w]}
      [] guard[w] # None /\ guard[w].state = "prepared" ->
            {guard[w].previous, guard[w].authority}
      [] OTHER -> {guard[w].authority}

Readable(w) == file[w] # Unexpected /\ file[w] \in Authorised(w)

\* Mutant: the record found is used, but the guard stays prepared.
GuardsNeverSealed(S) == guard

\* Mutant: the guard of a first write that never happened is sealed too.
GuardsSealedForNothing(S) ==
    [w \in WorkIds |->
        IF w \in S /\ Readable(w) /\ guard[w] # None THEN Committed(file[w]) ELSE guard[w]]

\* What reading the Works of S leaves in their guards: an interrupted write
\* is sealed for whichever record it left behind, and a guard prepared for
\* a first write that never happened is removed.
GuardsAfterReading(S) ==
    [w \in WorkIds |->
        IF w \in S /\ Readable(w) /\ guard[w] # None
          THEN IF file[w] = Absent THEN None ELSE Committed(file[w])
          ELSE guard[w]]

\* The Works whose files a glob finds, and those a command has read when it
\* stops at the first one, in the order of the names, that it may not use.
Existing == {w \in WorkIds : file[w] # Absent}
AllReadable == \A w \in Existing : Readable(w)
ReadBeforeFailure ==
    {w \in Existing : \A v \in Existing : v <= w => Readable(v)}

Observe(S) == seen' = [w \in WorkIds |-> IF w \in S THEN file[w] ELSE seen[w]]

\* A command may go on with Work w; otherwise it raises an error.
Usable(w) == Readable(w) /\ file[w] # Absent

\* Reading Work w in the course of a command.
Read(w) ==
    /\ Readable(w)
    /\ guard' = GuardsAfterReading({w})
    /\ Observe({w})

-----------------------------------------------------------------------------
(* Writing a Work: _persist_work and persist.                              *)

\* The first durable write of a persist replaces guard g: the guard of a
\* protected Work names the old and the new record before the record moves.
Prepare(g, t) ==
    /\ guard' = IF t.id \in Guarded
                  THEN [g EXCEPT ![t.id] = Prepared(file[t.id], t.next)]
                  ELSE g
    /\ txn' = [t EXCEPT !.step = "write"]

\* After a persist: drain what the record queues; when there is nothing to
\* drain a scan goes on, a load is over, and a save refreshes the index.
Proceed ==
    /\ txn' = CASE Pend(txn.next) # <<>> -> [txn EXCEPT !.step = "drain"]
                [] Pend(txn.next) = <<>> /\ txn.scanning -> [txn EXCEPT !.step = "pick"]
                [] Pend(txn.next) = <<>> /\ ~txn.scanning /\ txn.goal = "load" -> None
                [] OTHER -> [txn EXCEPT !.step = "scan"]
    /\ snap' = IF txn' = None
                 THEN [snap EXCEPT ![txn.by] = [id |-> txn.id, work |-> txn.next]]
                 ELSE snap

Command(a, w, goal, step, next) ==
    [by |-> a, step |-> step, goal |-> goal, id |-> w, next |-> next,
     todo |-> <<>>, scanning |-> FALSE, rest |-> {},
     shown |-> [v \in WorkIds |-> "none"]]

\* save_work's generation: raised when the status changed, never lowered.
NextGen(old, new) ==
    LET current == IF old = Absent THEN 0
                   ELSE old.gen + (IF old.status # new.status THEN 1 ELSE 0)
    IN  Max({current, new.gen})

\* The revision a caller read is still the current one.  Mutant: no check.
AnyRevision(r, w) == TRUE
UpToDate(r, w) == r.rev = (IF file[w] = Absent THEN 0 ELSE file[w].rev)

\* Mutant: the active pointer of the index is trusted.
MayActivateByIndex(w, st) ==
    st = "active" => \A v \in WorkIds \ {w} : index[v] # "active"

\* A Work that was not active becomes active only if no other file is.
MayActivate(w, st) ==
    st = "active" /\ Status(file[w]) # "active" =>
        \A v \in Existing \ {w} : Readable(v) /\ file[v].status # "active"

\* The Works whose guards a save of w has read by then.
ReadForActivation(w, st) ==
    IF st = "active" /\ Status(file[w]) # "active" THEN Existing \cup {w} ELSE {w}

-----------------------------------------------------------------------------
(* Commands.                                                               *)

\* load_work: read, then publish what an interrupted command left queued.
Load(a, w) ==
    /\ txn = None
    /\ file[w] # Absent
    /\ Read(w)
    /\ IF file[w].pend = <<>>
         THEN /\ snap' = [snap EXCEPT ![a] = [id |-> w, work |-> file[w]]]
              /\ UNCHANGED txn
         ELSE /\ txn' = Command(a, w, "load", "drain", file[w])
              /\ UNCHANGED snap
    /\ UNCHANGED <<file, log, synced, index, owed, faults, foreign>>

\* A command is about to create a Work and finds that there is none.
Begin(a, w) ==
    /\ txn = None
    /\ file[w] = Absent
    /\ Read(w)
    /\ snap' = [snap EXCEPT ![a] = [id |-> w, work |-> Blank("active")]]
    /\ UNCHANGED <<file, log, synced, index, txn, owed, faults, foreign>>

\* The record a caller passes to save_work: its snapshot, with its own
\* contribution, a status and one more event in the outbox.
Edited(a, r, st) ==
    [status |-> st, rev |-> r.rev + 1, gen |-> r.gen, notes |-> r.notes \cup {a},
     pend |-> Append(r.pend, <<snap[a].id, r.rev + 1>>)]

\* save_work with the snapshot of an earlier command.
Save(a, st) ==
    /\ txn = None
    /\ snap[a] # None
    /\ LET w == snap[a].id
           new == Edited(a, snap[a].work, st)
       IN  /\ new.rev < MaxRev
           /\ Readable(w)
           /\ UpToDate(snap[a].work, w)
           /\ MayActivate(w, st)
           /\ Prepare(GuardsAfterReading(ReadForActivation(w, st)),
                Command(a, w, "save", "write",
                        [new EXCEPT !.gen = NextGen(file[w], new)]))
           /\ Observe(ReadForActivation(w, st))
    /\ snap' = [snap EXCEPT ![a] = None]
    /\ UNCHANGED <<file, log, synced, index, owed, faults, foreign>>

\* save_work refuses: the snapshot is stale, another Work is active or may
\* not be read.  The reads before the refusal have sealed their guards.
Refuse(a, st) ==
    /\ txn = None
    /\ snap[a] # None
    /\ LET w == snap[a].id
           current == Readable(w) /\ UpToDate(snap[a].work, w)
           read == (IF Readable(w) THEN {w} ELSE {})
                     \cup (IF current THEN ReadBeforeFailure ELSE {})
       IN  /\ ~(current /\ MayActivate(w, st))
           /\ guard' = GuardsAfterReading(read)
           /\ Observe(read)
    /\ snap' = [snap EXCEPT ![a] = None]
    /\ UNCHANGED <<file, log, synced, index, txn, owed, faults, foreign>>

\* cao lifecycle recover: put the authorised bytes back, then save them with
\* a new generation and an event that says so.
Recover(a, w) ==
    /\ txn = None
    /\ guard[w] # None
    /\ guard[w].state = "committed"
    /\ file[w] # guard[w].authority
    /\ file' = [file EXCEPT ![w] = guard[w].authority]
    /\ txn' = Command(a, w, "save", "restored", guard[w].authority)
    /\ UNCHANGED <<guard, log, synced, index, snap, seen, owed, faults, foreign>>

\* The step of the command in progress.
At(step) == txn # None /\ txn.step = step

SaveRestored ==
    /\ At("restored")
    /\ Usable(txn.id)
    /\ LET w == txn.id
           old == txn.next
           new == [old EXCEPT !.rev = @ + 1, !.gen = @ + 1,
                              !.pend = Append(@, <<w, old.rev + 1>>)]
       IN  /\ Prepare(GuardsAfterReading({w}), [txn EXCEPT !.next = new])
           /\ Observe({w})
    /\ UNCHANGED <<file, log, synced, index, snap, owed, faults, foreign>>

\* cao status and every command that begins with load_index.
Rescan(a) ==
    /\ txn = None
    /\ txn' = Command(a, Min(WorkIds), "index", "scan", Absent)
    /\ UNCHANGED <<disk, snap, seen, owed, faults, foreign>>

-----------------------------------------------------------------------------
(* The durable steps inside a command, in the order of the code.           *)

\* atomic_json replaces the record.
WriteWork ==
    /\ At("write")
    /\ file' = [file EXCEPT ![txn.id] = txn.next]
    /\ IF txn.id \in Guarded
         THEN /\ txn' = [txn EXCEPT !.step = "seal"]
              /\ UNCHANGED <<snap, owed>>
         ELSE /\ Proceed
              /\ owed' = owed \cup Range(txn.next.pend)
    /\ UNCHANGED <<guard, log, synced, index, seen, faults, foreign>>

\* atomic_json replaces the guard.
SealGuard ==
    /\ At("seal")
    /\ guard' = [guard EXCEPT ![txn.id] = Committed(txn.next)]
    /\ owed' = owed \cup Range(txn.next.pend)
    /\ Proceed
    /\ UNCHANGED <<file, log, synced, index, seen, faults, foreign>>

\* drain_events reads the Work again and takes its queue.
Drain ==
    /\ At("drain")
    /\ Usable(txn.id)
    /\ Read(txn.id)
    /\ txn' = [txn EXCEPT !.step = "append", !.todo = file[txn.id].pend]
    /\ UNCHANGED <<file, log, synced, index, snap, owed, faults, foreign>>

\* Mutant: a retried event is written again.
WithEventAgain(e) == Append(log, e)

\* The log with the next event on a line of its own, unless it is there.
WithEvent(e) == IF e \in Range(log) THEN log ELSE Append(log, e)

\* Mutant: a line that is already there is taken to be durable.
AppendTrustingTheFile ==
    /\ At("append")
    /\ log' = WithEvent(Head(txn.todo))
    /\ synced' = IF log' = log THEN synced ELSE Len(log')
    /\ txn' = [txn EXCEPT !.todo = Tail(@),
                          !.step = IF Len(txn.todo) = 1 THEN "clear" ELSE "append"]
    /\ UNCHANGED <<file, guard, index, snap, seen, owed, faults, foreign>>

\* _append_lifecycle_event: write the line if it is missing, and make the
\* file durable in both cases.
AppendEvent ==
    /\ At("append")
    /\ log' = WithEvent(Head(txn.todo))
    /\ synced' = Len(log')
    /\ txn' = [txn EXCEPT !.todo = Tail(@),
                          !.step = IF Len(txn.todo) = 1 THEN "clear" ELSE "append"]
    /\ UNCHANGED <<file, guard, index, snap, seen, owed, faults, foreign>>

\* The line is written but fsync fails, and the command with it.
FsyncFails ==
    /\ At("append")
    /\ faults < MaxFaults
    /\ log' = WithEvent(Head(txn.todo))
    /\ txn' = None
    /\ faults' = faults + 1
    /\ UNCHANGED <<file, guard, synced, index, snap, seen, owed, foreign>>

\* Everything queued is published: persist the record with an empty queue.
ClearQueue ==
    /\ At("clear")
    /\ Usable(txn.id)
    /\ LET next == [file[txn.id] EXCEPT !.pend = <<>>, !.rev = @ + 1]
       IN  Prepare(GuardsAfterReading({txn.id}), [txn EXCEPT !.next = next])
    /\ Observe({txn.id})
    /\ UNCHANGED <<file, log, synced, index, snap, owed, faults, foreign>>

\* Mutant: the index is rebuilt without draining what dead commands queued.
ScanWithoutDraining ==
    /\ At("scan")
    /\ AllReadable
    /\ guard' = GuardsAfterReading(Existing)
    /\ Observe(Existing)
    /\ txn' = [txn EXCEPT !.step = "pick",
                          !.shown = [w \in WorkIds |-> Status(file[w])]]
    /\ UNCHANGED <<file, log, synced, index, snap, owed, faults, foreign>>

\* recover_index reads every Work before it drains any of them.
Scan ==
    /\ At("scan")
    /\ AllReadable
    /\ guard' = GuardsAfterReading(Existing)
    /\ Observe(Existing)
    /\ txn' = [txn EXCEPT !.step = "pick", !.scanning = TRUE,
                          !.rest = {w \in Existing : file[w].pend # <<>>},
                          !.shown = [w \in WorkIds |-> Status(file[w])]]
    /\ UNCHANGED <<file, log, synced, index, snap, owed, faults, foreign>>

\* Works that an interrupted command left with queued events are drained.
PickWork ==
    /\ At("pick")
    /\ txn.rest # {}
    /\ txn' = [txn EXCEPT !.step = "drain", !.id = Min(txn.rest),
                          !.rest = @ \ {Min(txn.rest)}]
    /\ UNCHANGED <<disk, snap, seen, owed, faults, foreign>>

\* The projection is written, and the command is over.
WriteIndex ==
    /\ At("pick")
    /\ txn.rest = {}
    /\ index' = txn.shown
    /\ txn' = None
    /\ UNCHANGED <<file, guard, log, synced, snap, seen, owed, faults, foreign>>

\* A read in the middle of a command raises LIFECYCLE_UNSUPPORTED_WRITER
\* or finds no Work.
GiveUp ==
    /\ \/ /\ At("drain") \/ At("clear") \/ At("restored")
          /\ ~Usable(txn.id)
          /\ UNCHANGED <<guard, seen>>
       \/ /\ At("scan")
          /\ ~AllReadable
          /\ guard' = GuardsAfterReading(ReadBeforeFailure)
          /\ Observe(ReadBeforeFailure)
    /\ txn' = None
    /\ UNCHANGED <<file, log, synced, index, snap, owed, faults, foreign>>

-----------------------------------------------------------------------------
(* What the environment does.                                              *)

\* A process dies.  A line it was appending may be missing, incomplete, or
\* complete but not yet durable.
Crash(a) ==
    /\ faults < MaxFaults
    /\ snap[a] # None \/ (txn # None /\ txn.by = a)
    /\ IF txn # None /\ txn.by = a
         THEN /\ txn' = None
              /\ log' \in IF txn.step = "append"
                            THEN {log, Append(log, Torn), WithEvent(Head(txn.todo))}
                            ELSE {log}
         ELSE UNCHANGED <<txn, log>>
    /\ snap' = [snap EXCEPT ![a] = None]
    /\ faults' = faults + 1
    /\ UNCHANGED <<file, guard, synced, index, seen, owed, foreign>>

\* The machine stops: lines that no fsync covered may be gone.
PowerLoss ==
    /\ faults < MaxFaults
    /\ \E n \in synced .. Len(log) :
         /\ log' \in {SubSeq(log, 1, n)} \cup
                     IF n < Len(log) THEN {Append(SubSeq(log, 1, n), Torn)} ELSE {}
         /\ synced' = Len(log')
    /\ txn' = None
    /\ snap' = [a \in Agents |-> None]
    /\ faults' = faults + 1
    /\ UNCHANGED <<file, guard, index, seen, owed, foreign>>

\* A program that knows nothing of the guard touches the record of a Work
\* that is under guard: other content, no file, or the file as it was.
ForeignWrite(w) ==
    /\ foreign < MaxForeign
    /\ guard[w] # None
    /\ ForeignInWindow \/ guard[w].state = "committed"
    /\ \/ /\ "overwrite" \in ForeignKinds
          /\ file[w] # Unexpected
          /\ file' = [file EXCEPT ![w] = Unexpected]
       \/ /\ "delete" \in ForeignKinds
          /\ file[w] # Absent
          /\ file' = [file EXCEPT ![w] = Absent]
       \/ /\ "restore" \in ForeignKinds
          /\ guard[w].state = "prepared"
          /\ file[w] # guard[w].previous
          /\ file' = [file EXCEPT ![w] = guard[w].previous]
    /\ foreign' = foreign + 1
    /\ UNCHANGED <<guard, log, synced, index, snap, txn, seen, owed, faults>>

-----------------------------------------------------------------------------
Start ==
    \E a \in Agents :
        \/ Rescan(a)
        \/ \E w \in WorkIds : Load(a, w) \/ Begin(a, w) \/ Recover(a, w)
        \/ \E st \in Statuses : Save(a, st) \/ Refuse(a, st)

Advance ==
    \/ SaveRestored \/ WriteWork \/ SealGuard \/ Drain \/ AppendEvent
    \/ ClearQueue \/ Scan \/ PickWork \/ WriteIndex \/ GiveUp

Environment ==
    \/ FsyncFails \/ PowerLoss
    \/ \E a \in Agents : Crash(a)
    \/ \E w \in Guarded : ForeignWrite(w)

Next == Start \/ Advance \/ Environment

Spec == Init /\ [][Next]_vars

(* A command that has begun goes on until it ends or dies; users keep      *)
(* running commands, each of which begins by reading the index; and they   *)
(* follow the advice of LIFECYCLE_UNSUPPORTED_WRITER to run cao lifecycle  *)
(* recover.  Nobody has to create or save anything.                        *)
FairSpec ==
    /\ Spec
    /\ WF_vars(Advance)
    /\ SF_vars(\E a \in Agents : Rescan(a))
    /\ \A w \in WorkIds : SF_vars(\E a \in Agents : Recover(a, w))

-----------------------------------------------------------------------------
(* Properties.                                                             *)

DurableLog == SubSeq(log, 1, synced)

\* The complete lines, without those a crash cut short.
Complete(lines) ==
    LET upto[n \in 0 .. Len(lines)] ==
          IF n = 0 THEN <<>>
          ELSE IF lines[n] = Torn THEN upto[n - 1] ELSE Append(upto[n - 1], lines[n])
    IN  upto[Len(lines)]

Published == Complete(DurableLog)

(* What commands read of a protected Work only moves forward: never back   *)
(* to an earlier record, never without a contribution that was read        *)
(* before, whatever crashes, stale snapshots and foreign writes happen     *)
(* (verify, persist and the revision check of _persist_work).              *)
ObservedOnlyAdvances ==
    [][\A w \in Guarded :
          seen[w] # Absent /\ seen'[w] # seen[w] =>
            /\ seen'[w] # Absent
            /\ seen'[w].rev > seen[w].rev
            /\ seen'[w].gen >= seen[w].gen
            /\ seen[w].notes \subseteq seen'[w].notes]_vars

(* An event queued by a committed record is never lost: it is durable in   *)
(* events.jsonl, or every record that may still be read queues it          *)
(* (drain_events, _append_lifecycle_event).                                *)
NoEventLost ==
    \A e \in owed :
        \/ e \in Range(DurableLog)
        \/ \A r \in Authorised(e[1]) : e \in Range(Pend(r))

(* However often a drain is interrupted and retried, an event has at most  *)
(* one complete line in events.jsonl.                                      *)
EventsOnce ==
    \A i, j \in 1 .. Len(log) : log[i] = log[j] /\ log[i] # Torn => i = j

(* The files keep their shape, and the queue of events survives whatever   *)
(* happens to them: nothing is lost, nothing is doubled.                   *)
StoreSound == TypeOK /\ NoEventLost /\ EventsOnce

(* A command that ends by writing the index leaves the three files in      *)
(* agreement: the index shows every readable Work as it is, and no Work    *)
(* still queues an event, not even one that a dead process left behind.    *)
AcknowledgedMeansSettled ==
    [][index' # index \/ WriteIndex =>
         \A w \in WorkIds : Readable(w) =>
            index'[w] = Status(file[w]) /\ Pend(file[w]) = <<>>]_vars

(* At most one Work is active (the default of one active Work in a shared  *)
(* workspace): the check before an activation holds whatever the index     *)
(* shows and whatever commands died in between.                            *)
SingleActive ==
    \A v, w \in WorkIds :
        file[v] \in Records /\ file[w] \in Records
        /\ file[v].status = "active" /\ file[w].status = "active" => v = w

Unpublished == {e \in owed : e \notin Range(DurableLog)}

(* Whatever the committed records of all Works queue is published in the   *)
(* end, by somebody else's command where the one that queued it died: again *)
(* and again, nothing that is due is missing from the log.                 *)
EventsPublished == []<>(Unpublished = {})

-----------------------------------------------------------------------------
(* The store implements the ledger.  The record counts from the moment the *)
(* file is replaced, an event from the moment it is durable.               *)

Authority(w) ==
    CASE guard[w] = None -> file[w]
      [] guard[w] # None /\ guard[w].state = "committed" -> guard[w].authority
      [] OTHER -> IF file[w] = guard[w].authority THEN file[w] ELSE guard[w].previous

Ledger == INSTANCE WorkLedger WITH
    work <- [w \in WorkIds |-> Authority(w)],
    published <- Published

(* Every step of the store is one step of the ledger or none of its        *)
(* business.                                                               *)
ImplementsLedger == Ledger!Spec
=============================================================================
