----------------------------- MODULE WorkSwitch -----------------------------
(***************************************************************************)
(* Moving between Works: the durable journal of switch and amend, its      *)
(* recovery and abort, the barrier an unfinished journal puts before every *)
(* other Work write, and the commands that change a Work's status.         *)
(*                                                                         *)
(* A save of one Work is one step here (WorkStore shows what it takes).    *)
(* A recovery is many: it reads the inspected inputs before it takes the   *)
(* repository lock, validates under it, and then makes one durable write   *)
(* after another, any of which may be its last.                            *)
(***************************************************************************)
EXTENDS Naturals, FiniteSets, Sequences, SequencesExt, TLC

CONSTANTS
    Works,          \* identities of Works (one requirement file each)
    Procs,          \* processes that run cao
    Contents,       \* contents a requirement file may have
    Products,       \* states of the product tree, and of the configuration
    Tracked,        \* Works whose requirement file lies in the product tree
    Unguarded,      \* Works an unsupported writer can change unnoticed
    Nothing,        \* no evidence, no execution, no bytes, no holder, no signature
    MaxOps,         \* bound: operations journalled
    MaxEdits,       \* bound: edits made outside cao
    MaxCrashes      \* bound: processes that die

ASSUME WorkSwitchAssumption ==
    /\ Tracked \subseteq Works /\ Unguarded \subseteq Works
    /\ Nothing \notin Contents \cup Products \cup Procs
    /\ MaxOps \in Nat /\ MaxEdits \in Nat /\ MaxCrashes \in Nat

VARIABLES
    work,       \* the Work records
    file,       \* bytes of each Work's requirement file
    product,    \* state of the product tree
    cfg,        \* contents of the configuration file
    stale,      \* Works bound to an older project context
    busy,       \* per Work, what its live or unknown execution started from
    ops,        \* the operation journals
    repairs,    \* per operation, the failures recorded against it
    lock,       \* process inside a repository transaction
    proc,       \* what each process is doing
    edits, crashes,
    closed      \* history: Works completed and not explicitly reopened since

files == <<file, product, cfg>>
journal == <<ops, repairs>>
vars == <<work, file, product, cfg, stale, busy, ops, repairs, lock, proc, edits, crashes, closed>>

Statuses == {"none", "todo", "active", "suspended", "completed"}
WorkRecord == [status : Statuses, blocked : BOOLEAN, req : Contents \cup {Nothing},
               earned : Products \cup {Nothing, "running", "outrun"}]
Absent == [status |-> "none", blocked |-> FALSE, req |-> Nothing, earned |-> Nothing]

\* Mutant: a blocked Work is not counted as active.
ActiveUnblocked == {w \in Works : work[w].status = "active" /\ ~work[w].blocked}
Active == {w \in Works : work[w].status = "active"}
Busy == {w \in Works : busy[w] # Nothing}
Open(id) == ops[id].status \in {"prepared", "applying"}
IsOpen(n) == n \in DOMAIN ops /\ Open(n)
Pending == \E id \in DOMAIN ops : Open(id)
Free == lock = Nothing

-----------------------------------------------------------------------------
(* What a recovery looks at.                                               *)

\* The product tree as a snapshot sees it: requirement files under
\* .orchestrator are not part of it.
Tree == [product |-> product, docs |-> [w \in Tracked |-> file[w]]]

\* Mutant: the product tree is not among the inputs.
SignatureWithoutTree(id) ==
    [works |-> [w \in ToSet(ops[id].order) |-> work[w]], cfg |-> cfg, tree |-> Nothing]

\* The inputs whose repeated failure pauses an operation.
Signature(id) ==
    [works |-> [w \in ToSet(ops[id].order) |-> work[w]], cfg |-> cfg, tree |-> Tree]

NoRepair == [seen |-> Nothing, attempts |-> 0]
Paused(id, seen, repair) == repair.seen = seen /\ repair.attempts >= 2

\* Mutant: a Work that is already where the journal takes it is a conflict.
RecoverableFromTheStart(id) ==
    LET op == ops[id] IN
    /\ op.status # "aborted"
    /\ op.cfg \in {Nothing, cfg} /\ op.tree \in {Nothing, Tree}
    /\ \A w \in ToSet(op.order) : work[w] = op.before[w]
    /\ op.kind = "amend" => file[Head(op.order)] \in {op.old, op.new}

\* What makes a recovery refuse before it writes anything.
Recoverable(id) ==
    LET op == ops[id] IN
    /\ op.status # "aborted"
    /\ op.cfg \in {Nothing, cfg}
    /\ op.tree \in {Nothing, Tree}
    /\ \A w \in ToSet(op.order) : work[w] \in {op.before[w], op.after[w]}
    /\ op.kind = "amend" => file[Head(op.order)] \in {op.old, op.new}

\* Mutant: one Work still at its start is enough.
AbortableHalfway(id) == \E w \in ToSet(ops[id].order) : Open(id) /\ work[w] = ops[id].before[w]

\* Nothing of the operation has been written yet.
Abortable(id) ==
    LET op == ops[id] IN
    /\ op.status = "prepared"
    /\ \A w \in ToSet(op.order) : work[w] = op.before[w]
    /\ op.kind = "amend" => file[Head(op.order)] = op.old

\* A save makes a Work active only when no other Work is.
MayActivate(w, r) == r.status = "active" /\ work[w].status # "active" => Active \subseteq {w}

\* Mutant: every command may write.
NoBarrier == TRUE
\* While a journal is open only its recovery may write Works.
Barrier == ~Pending

-----------------------------------------------------------------------------
(* Processes.                                                              *)

Idle == [at |-> "idle", op |-> 0, held |-> FALSE, seen |-> Nothing, prev |-> NoRepair,
         left |-> <<>>]

\* Mutant: the lock is kept.
LeavesLocked(p) == proc' = [proc EXCEPT ![p] = Idle] /\ UNCHANGED lock
\* The process has nothing more to do and leaves the repository.
Leaves(p) ==
    /\ proc' = [proc EXCEPT ![p] = Idle]
    /\ lock' = IF lock = p THEN Nothing ELSE lock

Goes(p, at) == proc' = [proc EXCEPT ![p].at = at] /\ UNCHANGED lock

Init ==
    /\ work = [w \in Works |-> Absent]
    /\ file \in [Works -> Contents]
    /\ product \in Products /\ cfg \in Products
    /\ stale = {} /\ busy = [w \in Works |-> Nothing]
    /\ ops = <<>> /\ repairs = <<>>
    /\ lock = Nothing /\ proc = [p \in Procs |-> Idle]
    /\ edits = 0 /\ crashes = 0
    /\ closed = {}

-----------------------------------------------------------------------------
(* Commands that write one Work: one transaction, refused by the barrier.  *)

Save(w, r) ==
    /\ Free /\ Barrier /\ MayActivate(w, r)
    /\ work' = [work EXCEPT ![w] = r]
    /\ UNCHANGED <<files, journal, lock, proc, edits, crashes>>

\* What taking the requirement file as it is does to the record.
Anchored(w) ==
    IF work[w].req = file[w] THEN work[w]
    ELSE [work[w] EXCEPT !.req = file[w], !.earned = Nothing]

Defer(w) ==
    /\ work[w] = Absent
    /\ Save(w, [Anchored(w) EXCEPT !.status = "todo"])
    /\ UNCHANGED <<stale, busy, closed>>

\* start without --replace; reopen says whether --reopen was given.
Start(w, reopen) ==
    /\ Active = {}
    /\ work[w].status = "completed" => reopen
    /\ w \notin stale
    /\ Save(w, [Anchored(w) EXCEPT !.status = "active"])
    /\ closed' = closed \ {w}
    /\ UNCHANGED <<stale, busy>>

Block(w, suspend) ==
    /\ work[w] # Absent
    /\ Save(w, [work[w] EXCEPT !.blocked = TRUE,
                               !.status = IF suspend THEN "suspended" ELSE @])
    /\ UNCHANGED <<stale, busy, closed>>

\* Clearing the last blocker of a suspended Work goes on to switch to it.
Unblock(p, w) ==
    /\ Free /\ Barrier
    /\ proc[p].at = "idle"
    /\ work[w].blocked
    /\ work' = [work EXCEPT ![w].blocked = FALSE]
    /\ IF work[w].status = "suspended" /\ Active = {}
       THEN /\ lock' = p
            /\ proc' = [proc EXCEPT ![p] = [Idle EXCEPT !.at = "switch", !.left = <<w>>]]
       ELSE UNCHANGED <<lock, proc>>
    /\ UNCHANGED <<files, stale, busy, journal, edits, crashes, closed>>

Reopen(w, reanchor) ==
    /\ work[w].status \in IF reanchor THEN {"active", "completed"} ELSE {"completed"}
    /\ Active \subseteq {w}
    /\ Save(w, [work[w] EXCEPT !.status = "active", !.earned = Nothing,
                               !.req = IF reanchor THEN file[w] ELSE @])
    /\ closed' = closed \ {w}
    /\ UNCHANGED <<stale, busy>>

\* done: every duty is met for the inputs as they are now.
Done(w) ==
    /\ work[w].status = "active" /\ ~work[w].blocked
    /\ work[w].earned = product /\ work[w].req = file[w]
    /\ w \notin stale
    /\ Save(w, [work[w] EXCEPT !.status = "completed"])
    /\ closed' = closed \cup {w}
    /\ UNCHANGED <<stale, busy>>

\* The Work takes over the changed project context: evidence earned, or being
\* earned, under the old one no longer matches.
Rebind(w) ==
    /\ w \in stale
    /\ Save(w, [work[w] EXCEPT !.earned = IF @ \in Products THEN Nothing ELSE @])
    /\ stale' = stale \ {w}
    /\ busy' = [busy EXCEPT ![w] = IF @ = Nothing THEN @ ELSE "other"]
    /\ UNCHANGED closed

\* A verification starts; it is not admitted beside an unresolved one.
RunStarts(w) ==
    /\ work[w].status = "active" /\ w \notin Busy \cup stale
    /\ work[w].earned \notin {"running", "outrun"}
    /\ Save(w, [work[w] EXCEPT !.earned = "running"])
    /\ busy' = [busy EXCEPT ![w] = product]
    /\ UNCHANGED <<stale, closed>>

\* It ends: its result is kept by the active Work still waiting for it, and
\* counts when nothing it started from has changed.
RunEnds(w, passed) ==
    /\ w \in Busy
    /\ Save(w, IF work[w].status # "active" \/ work[w].earned # "running" THEN work[w]
               ELSE [work[w] EXCEPT !.earned =
                        IF passed /\ busy[w] = product /\ work[w].req = file[w]
                        THEN product ELSE Nothing])
    /\ busy' = [busy EXCEPT ![w] = Nothing]
    /\ UNCHANGED <<stale, closed>>

\* Somebody who inspected the effects gives an unresolved run up.
Abandon(w) ==
    /\ work[w].earned \in {"running", "outrun"}
    /\ Save(w, [work[w] EXCEPT !.earned = Nothing])
    /\ busy' = [busy EXCEPT ![w] = Nothing]
    /\ UNCHANGED <<stale, closed>>

-----------------------------------------------------------------------------
(* Operations: validate, write the journal, recover it at once.            *)

\* A process that has just written journal n recovers it under the same lock.
Journals(p, op) ==
    /\ Len(ops) < MaxOps
    /\ ops' = Append(ops, op)
    /\ repairs' = Append(repairs, NoRepair)
    /\ lock' = p
    /\ proc' = [proc EXCEPT ![p] = [Idle EXCEPT !.at = "look", !.op = Len(ops) + 1, !.held = TRUE]]
    /\ UNCHANGED <<work, files, stale, busy, edits, crashes, closed>>

\* Mutant: executions are not asked about.
SourceForgotten(s) == FALSE
\* An unresolved execution of the source is seen only through its recovery
\* plan, which says nothing of runs once the project prerequisites fail.
SourceUnresolved(s) == s \in Busy \ stale

MaySwitch(t) ==
    /\ work[t].status \in {"todo", "suspended"} /\ ~work[t].blocked
    /\ t \notin stale
    /\ work[t].req = file[t]
    /\ Cardinality(Active) <= 1
    /\ \A s \in Active : ~SourceUnresolved(s)

\* A switch raises the generation, so a verification still running is lost.
Outrun(r) == [r EXCEPT !.earned = IF @ = "running" THEN "outrun" ELSE @]

SwitchJournal(t) ==
    LET order == SetToSeq(Active) \o <<t>> IN
    [kind |-> "switch", status |-> "prepared", order |-> order,
     before |-> [w \in ToSet(order) |-> work[w]],
     after |-> [w \in ToSet(order) |->
                   [Outrun(work[w]) EXCEPT !.status = IF w = t THEN "active" ELSE "suspended"]],
     tree |-> IF Active = {} THEN Nothing ELSE Tree,
     cfg |-> cfg, old |-> Nothing, new |-> Nothing]

Switch(p, t) ==
    /\ proc[p].at = "idle" /\ Free
    /\ Barrier /\ MaySwitch(t)
    /\ Journals(p, SwitchJournal(t))

\* The switch inside unblock or resume; refused, it leaves what was saved.
SwitchInside(p) ==
    /\ proc[p].at = "switch"
    /\ LET t == Head(proc[p].left) IN
       IF MaySwitch(t) /\ Len(ops) < MaxOps
       THEN Journals(p, SwitchJournal(t))
       ELSE /\ Leaves(p)
            /\ UNCHANGED <<work, files, stale, busy, journal, edits, crashes, closed>>

Amend(p, w, c) ==
    /\ proc[p].at = "idle" /\ Free
    /\ Barrier
    /\ work[w].status \in {"active", "suspended"} /\ c # work[w].req
    /\ Journals(p, [kind |-> "amend", status |-> "prepared", order |-> <<w>>,
                    before |-> [v \in {w} |-> work[v]],
                    after |-> [v \in {w} |-> [work[v] EXCEPT !.req = c, !.earned = Nothing]],
                    tree |-> Nothing, cfg |-> Nothing, old |-> file[w], new |-> c])


-----------------------------------------------------------------------------
(* Recovery.                                                               *)

\* cao switch recover: the inputs are read with no lock held.
RecoverCommand(p, id) ==
    /\ proc[p].at = "idle"
    /\ proc' = [proc EXCEPT ![p] = [Idle EXCEPT !.at = "look", !.op = id]]
    /\ UNCHANGED <<work, files, stale, busy, journal, lock, edits, crashes, closed>>

Look(p) ==
    LET id == proc[p].op IN
    /\ proc[p].at = "look"
    /\ IF ops[id].status = "committed" \/ Paused(id, Signature(id), repairs[id])
       THEN Leaves(p)
       ELSE /\ proc' = [proc EXCEPT ![p].at = "enter", ![p].seen = Signature(id),
                                    ![p].prev = repairs[id]]
            /\ UNCHANGED lock
    /\ UNCHANGED <<work, files, stale, busy, journal, edits, crashes, closed>>

\* Mutant: the journal read before the lock was taken is believed.
EnterWithoutRereading(p) ==
    LET id == proc[p].op IN
    /\ proc[p].at = "enter" /\ lock \in {Nothing, p}
    /\ IF Recoverable(id)
       THEN /\ proc' = [proc EXCEPT ![p].at = IF ops[id].kind = "amend" THEN "file" ELSE "mark"]
            /\ lock' = p
       ELSE /\ proc' = [proc EXCEPT ![p].at = "note"]
            /\ UNCHANGED lock
    /\ UNCHANGED <<work, files, stale, busy, journal, edits, crashes, closed>>

\* Under the lock the journal is read again and everything is validated.
Enter(p) ==
    LET id == proc[p].op IN
    /\ proc[p].at = "enter" /\ lock \in {Nothing, p}
    /\ IF ops[id].status = "committed" THEN Leaves(p)
       ELSE IF Recoverable(id)
       THEN /\ proc' = [proc EXCEPT ![p].at = IF ops[id].kind = "amend" THEN "file" ELSE "mark"]
            /\ lock' = p
       ELSE /\ proc' = [proc EXCEPT ![p].at = "note"]
            /\ UNCHANGED lock
    /\ UNCHANGED <<work, files, stale, busy, journal, edits, crashes, closed>>

\* amend: the requirement file is replaced while the journal still says prepared.
PutFile(p) ==
    LET id == proc[p].op IN
    /\ proc[p].at = "file"
    /\ file' = [file EXCEPT ![Head(ops[id].order)] = ops[id].new]
    /\ Goes(p, "mark")
    /\ UNCHANGED <<work, product, cfg, stale, busy, journal, edits, crashes, closed>>

Mark(p) ==
    LET id == proc[p].op IN
    /\ proc[p].at = "mark"
    /\ ops' = [ops EXCEPT ![id].status = "applying"]
    /\ proc' = [proc EXCEPT ![p].at = "apply", ![p].left = ops[id].order]
    /\ UNCHANGED <<work, files, stale, busy, repairs, lock, edits, crashes, closed>>

\* Mutant: a Work that is already there ends the writing.
ApplyUntilOneIsThere(p) ==
    LET id == proc[p].op
        w == Head(proc[p].left)
        r == ops[id].after[w] IN
    /\ proc[p].at = "apply" /\ proc[p].left # <<>>
    /\ work[w] = r \/ MayActivate(w, r)
    /\ work' = [work EXCEPT ![w] = r]
    /\ proc' = [proc EXCEPT ![p].left = IF work[w] = r THEN <<>> ELSE Tail(@)]
    /\ UNCHANGED <<files, stale, busy, journal, lock, edits, crashes, closed>>

\* The next Work of the journal; one that is already there is passed over.
Apply(p) ==
    LET id == proc[p].op
        w == Head(proc[p].left)
        r == ops[id].after[w] IN
    /\ proc[p].at = "apply" /\ proc[p].left # <<>>
    /\ IF work[w] = r \/ MayActivate(w, r)
       THEN /\ work' = [work EXCEPT ![w] = r]
            /\ stale' = IF work[w].status = "todo" THEN stale \ {w} ELSE stale
            /\ proc' = [proc EXCEPT ![p].left = Tail(@)]
            /\ UNCHANGED lock
       ELSE Leaves(p) /\ UNCHANGED <<work, stale>>
    /\ UNCHANGED <<files, busy, journal, edits, crashes, closed>>

Commit(p) ==
    /\ proc[p].at = "apply" /\ proc[p].left = <<>>
    /\ ops' = [ops EXCEPT ![proc[p].op].status = "committed"]
    /\ Leaves(p)
    /\ UNCHANGED <<work, files, stale, busy, repairs, edits, crashes, closed>>

\* A refused recovery is counted against the inputs that were read for it.
Counted(prev, seen) ==
    [seen |-> seen,
     attempts |-> IF prev.seen = seen
                  THEN IF prev.attempts + 1 < 2 THEN prev.attempts + 1 ELSE 2
                  ELSE 1]

Note(p) ==
    /\ proc[p].at = "note"
    /\ repairs' = [repairs EXCEPT ![proc[p].op] = Counted(proc[p].prev, proc[p].seen)]
    /\ Leaves(p)
    /\ UNCHANGED <<work, files, stale, busy, ops, edits, crashes, closed>>

Abort(id) ==
    /\ Free /\ Abortable(id)
    /\ ops' = [ops EXCEPT ![id].status = "aborted"]
    /\ UNCHANGED <<work, files, stale, busy, repairs, lock, proc, edits, crashes, closed>>

-----------------------------------------------------------------------------
(* The world outside.                                                      *)

Crash(p) ==
    /\ proc[p].at # "idle" /\ crashes < MaxCrashes
    /\ crashes' = crashes + 1
    /\ Leaves(p)
    /\ UNCHANGED <<work, files, stale, busy, journal, edits, closed>>

\* Edits land between commands: an editor's write inside one is not modelled.
Edits ==
    /\ Free /\ edits < MaxEdits
    /\ edits' = edits + 1
    /\ UNCHANGED <<busy, journal, lock, proc, crashes, closed>>

EditFile(w, c) ==
    /\ c # file[w] /\ Edits
    /\ file' = [file EXCEPT ![w] = c]
    /\ UNCHANGED <<work, product, cfg, stale>>

EditProduct(v) ==
    /\ v # product /\ Edits
    /\ product' = v
    /\ UNCHANGED <<work, file, cfg, stale>>

EditConfig(v) ==
    /\ v # cfg /\ Edits
    /\ cfg' = v
    /\ UNCHANGED <<work, file, product, stale>>

\* A writer that does not know the barrier changes an unguarded record.
EditWork(w) ==
    /\ w \in Unguarded /\ work[w] # Absent /\ Edits
    /\ work' = [work EXCEPT ![w].blocked = ~@]
    /\ UNCHANGED <<files, stale>>

\* The accepted project context changes: every bound Work is behind it.
ContextChanges ==
    /\ Edits
    /\ stale' = stale \cup {w \in Works : work[w].status \in {"active", "suspended", "completed"}}
    /\ UNCHANGED <<work, files>>

\* Somebody puts the inspected inputs of an open operation back.
Restore(id) ==
    LET op == ops[id] IN
    /\ Free /\ Open(id) /\ ~Recoverable(id)
    /\ cfg' = IF op.cfg = Nothing THEN cfg ELSE op.cfg
    /\ product' = IF op.tree = Nothing THEN product ELSE op.tree.product
    /\ file' = [w \in Works |->
                  IF op.tree # Nothing /\ w \in Tracked THEN op.tree.docs[w]
                  ELSE IF op.kind = "amend" /\ w = Head(op.order) /\ file[w] # op.new THEN op.old
                  ELSE file[w]]
    /\ work' = [w \in Works |->
                  IF w \in ToSet(op.order) /\ work[w] \notin {op.before[w], op.after[w]}
                  THEN [work[w] EXCEPT !.blocked = ~@] ELSE work[w]]
    /\ UNCHANGED <<stale, busy, journal, lock, proc, edits, crashes, closed>>

-----------------------------------------------------------------------------
RecoverySteps(p) ==
    \/ SwitchInside(p) \/ Look(p) \/ Enter(p) \/ PutFile(p) \/ Mark(p)
    \/ Apply(p) \/ Commit(p) \/ Note(p)

Commands ==
    \E w \in Works :
        \/ Defer(w)
        \/ \E b \in BOOLEAN : Start(w, b) \/ Block(w, b) \/ Reopen(w, b) \/ RunEnds(w, b)
        \/ Done(w) \/ Rebind(w) \/ RunStarts(w) \/ Abandon(w)

Operations ==
    \/ \E p \in Procs, w \in Works :
        \/ Unblock(p, w) \/ Switch(p, w)
        \/ \E c \in Contents : Amend(p, w, c)
    \/ \E id \in DOMAIN ops :
        \/ Abort(id)
        \/ \E p \in Procs : RecoverCommand(p, id)

Outside ==
    \/ \E p \in Procs : Crash(p)
    \/ \E w \in Works : EditWork(w) \/ \E c \in Contents : EditFile(w, c)
    \/ \E v \in Products : EditProduct(v) \/ EditConfig(v)
    \/ ContextChanges
    \/ \E id \in DOMAIN ops : Restore(id)

Next == Commands \/ Operations \/ Outside \/ \E p \in Procs : RecoverySteps(p)

Spec == Init /\ [][Next]_vars

\* Commands that are running go on; an open operation is recovered and its
\* inputs put back as often as it takes.
Fairness ==
    /\ \A p \in Procs : WF_vars(RecoverySteps(p))
    /\ \A n \in 1..MaxOps :
        /\ WF_vars(IsOpen(n) /\ Restore(n))
        /\ SF_vars(IsOpen(n) /\ \E p \in Procs : RecoverCommand(p, n))
FairSpec == Spec /\ Fairness

-----------------------------------------------------------------------------
(* Properties.                                                             *)

Operation(op) ==
    /\ op.kind \in {"switch", "amend"}
    /\ op.status \in {"prepared", "applying", "committed", "aborted"}
    /\ op.order \in Seq(Works) /\ op.order # <<>>
    /\ op.before \in [ToSet(op.order) -> WorkRecord]
    /\ op.after \in [ToSet(op.order) -> WorkRecord]
    /\ op.old \in Contents \cup {Nothing} /\ op.new \in Contents \cup {Nothing}

\* Every variable has the shape the code gives it, and the lock is held by a
\* process that is in the middle of a command.
TypeOK ==
    /\ work \in [Works -> WorkRecord] /\ file \in [Works -> Contents]
    /\ product \in Products /\ cfg \in Products
    /\ stale \subseteq Works /\ closed \subseteq Works
    /\ busy \in [Works -> Products \cup {Nothing, "other"}]
    /\ \A id \in DOMAIN ops : Operation(ops[id])
    /\ DOMAIN repairs = DOMAIN ops
    /\ lock \in Procs \cup {Nothing}
    /\ lock # Nothing => proc[lock].at # "idle"

\* Two Works are never active at once, wherever an operation was interrupted.
SingleActive ==
    \A v, w \in Works : work[v].status = "active" /\ work[w].status = "active" => v = w

\* While an operation is open its Works go from before to after and every
\* other Work stays as it is; a requirement file is replaced by cao only when
\* it holds the bytes the journal recorded.  (Only an unsupported writer
\* changes anything else, and it changes blockers here.)
OnlyTheJournal ==
    [][\A id \in DOMAIN ops : Open(id) =>
          \A w \in Works :
              /\ [work'[w] EXCEPT !.blocked = work[w].blocked] # work[w] =>
                    /\ w \in ToSet(ops[id].order)
                    /\ work[w] = ops[id].before[w] /\ work'[w] = ops[id].after[w]
              /\ file'[w] # file[w] /\ ~Free =>
                    file[w] = ops[id].old /\ file'[w] = ops[id].new]_vars

\* An operation is committed only with all of it in place, requirement file
\* included, however many recoveries it took.
CommittedInFull ==
    [][\A id \in DOMAIN ops : Open(id) /\ ops'[id].status = "committed" =>
          /\ \A w \in ToSet(ops[id].order) : work[w] = ops[id].after[w]
          /\ ops[id].kind = "amend" => file[Head(ops[id].order)] = ops[id].new]_vars

\* A committed or aborted operation stays that, whoever had looked at it before.
FinalIsFinal ==
    [][\A id \in DOMAIN ops : ~Open(id) => ops'[id].status = ops[id].status]_vars

\* The Works and the lock as every command finds them, with one Work active.
BoardSound == TypeOK /\ SingleActive

\* An operation suspends no Work whose execution is live or unknown, unless
\* the Work is behind the project context: the recovery plan of such a Work
\* ends before it looks at runs.
SourceAtRest ==
    [][\A w \in Works :
          Pending /\ work[w].status = "active" /\ work'[w].status = "suspended" =>
              w \notin Busy \ stale]_vars

\* What the journal of an operation promises: it moves its own Works only and
\* from before to after, none that is seen to be executing, it is committed
\* with all of them moved, and then it is over for good.
JournalKept == OnlyTheJournal /\ SourceAtRest /\ CommittedInFull /\ FinalIsFinal

\* An operation is refused as paused only while its recovery would fail.
PausedOnlyInConflict ==
    \A id \in DOMAIN ops :
        Open(id) /\ Free /\ Paused(id, Signature(id), repairs[id]) => ~Recoverable(id)

\* A completed Work stays history until somebody reopens it explicitly.
StaysHistorical == \A w \in closed : work[w].status = "completed"

\* An amendment paused over a requirement file that is not among the inputs
\* whose change lifts the pause: nothing that is put back opens it again.
DeadEnd(n) ==
    /\ IsOpen(n) /\ ops[n].kind = "amend" /\ Head(ops[n].order) \notin Tracked
    /\ Paused(n, Signature(n), repairs[n])

\* An open operation is finished or aborted in the end, whatever was edited
\* meanwhile and however often its recovery failed on it, unless it ends in
\* the pause of a requirement file that no snapshot covers.
OpenResolved == \A n \in 1..MaxOps : IsOpen(n) ~> ~IsOpen(n) \/ DeadEnd(n)

\* To a reader who waits for the journal, a move is one step of the board.
BoardView ==
    [w \in Works |->
        LET mine == {id \in DOMAIN ops : Open(id) /\ w \in ToSet(ops[id].order)} IN
        IF mine = {} THEN work[w] ELSE ops[CHOOSE id \in mine : TRUE].before[w]]
Board == INSTANCE WorkBoard WITH board <- BoardView, Records <- WorkRecord
ImplementsBoard == Board!BoardSpec
=============================================================================
