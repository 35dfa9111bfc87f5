--------------------------- MODULE NativeCompletion ----------------------------
(***************************************************************************)
(* Completing a Work on native evidence (lifecycle_contract.completion,    *)
(* cmd_done, cmd_reopen), and the move between the two lifecycle contracts *)
(* (lifecycle_migration.py), which happens with the Work at any of its     *)
(* steps and may be cut short by a death.  The verification is one step    *)
(* here; VerificationRuns has what happens inside it.                      *)
(***************************************************************************)
EXTENDS NativeEvidence

vars == <<product, file, work, runner, journal, limits, used>>

-----------------------------------------------------------------------------
(* Workflow and verification.                                              *)

\* The native workflow is recorded complete, with its artifacts as they are.
CompleteWorkflow(w) ==
    /\ Active(w) /\ work[w].flow # product.unit
    /\ work' = [work EXCEPT ![w].flow = product.unit]
    /\ UNCHANGED <<product, file, runner, aside, used>>

\* technical_inputs: what a verification is of.
Technical == [code |-> product.code, policy |-> product.policy]

\* cao verify: a contract 2 Work has its evidence in order first.
Verify(w, status) ==
    /\ Active(w) /\ Prerequisites(w) /\ (work[w].contract = 2 => EvidenceReady(w))
    /\ work' = [work EXCEPT ![w].verified = [status |-> status, on |-> Technical]]
    /\ UNCHANGED <<product, file, runner, aside, used>>

\* verification_fresh.
Verified(w) ==
    work[w].verified # Nothing /\ work[w].verified.status = "passed" /\ work[w].verified.on = Technical

CompletionReady(w) == Prerequisites(w) /\ EvidenceReady(w) /\ Verified(w)

\* cmd_done judges, lets the provider make its own transition without the
\* lock, and judges again.
DoneJudges(p, w) ==
    /\ runner[p] = Nothing /\ work[w].contract = 2 /\ CompletionReady(w)
    /\ runner' = [runner EXCEPT ![p] = [work |-> w, id |-> Nothing, stage |-> "closing"]]
    /\ UNCHANGED <<product, file, work, aside, used>>

\* Mutant: what was judged before the provider's transition is enough.
DoneClosesUnjudged(p) ==
    /\ runner[p] # Nothing /\ runner[p].stage = "closing"
    /\ runner' = [runner EXCEPT ![p] = Nothing]
    /\ work' = [work EXCEPT ![runner[p].work].status = "completed"]
    /\ UNCHANGED <<product, file, aside, used>>

DoneCloses(p) ==
    /\ runner[p] # Nothing /\ runner[p].stage = "closing"
    /\ runner' = [runner EXCEPT ![p] = Nothing]
    /\ work' = IF CompletionReady(runner[p].work)
               THEN [work EXCEPT ![runner[p].work].status = "completed"] ELSE work
    /\ UNCHANGED <<product, file, aside, used>>

\* cao reopen: what closed the Work has to be earned again.
Reopen(w) ==
    /\ work[w].status = "completed" /\ \A v \in Works : ~Active(v) /\ Spend("turns")
    /\ work' = [work EXCEPT ![w].status = "active", ![w].gen = @ + 1, ![w].verified = Nothing]
    /\ UNCHANGED <<product, file, runner, aside>>

-----------------------------------------------------------------------------
(* Migration of the lifecycle contract.                                    *)

Latest(w) == Last(journal[w])
Journaled(w) == journal[w] # <<>>
\* source_inputs, as far as anything here changes them.
Sources == product.code

Eligible(w) == work[w].status \in {"active", "suspended"}

\* A journal is the latest by its second of creation and then by its name:
\* one made in the same second may come before the last.
Filed(w, entry, sooner) ==
    IF sooner THEN BeforeLast(journal[w], entry) ELSE Append(journal[w], entry)
Sealed(w, i, state) == [journal EXCEPT ![w][i].state = state]

Prepared(w) == Journaled(w) /\ Latest(w).state = "prepared"

\* What a move uses up.
Moves(dies) ==
    /\ used.moves < limits.moves /\ (dies # "no" => used.deaths < limits.deaths)
    /\ used' = [used EXCEPT !.moves = @ + 1, !.deaths = IF dies = "no" THEN @ ELSE @ + 1]

\* Mutant: a prepared migration is resumed whatever became of the Work.
ResumesAny(w) == Prepared(w)
\* A prepared migration is resumed only for the very Work it was made for;
\* for another one it is refused.
Resumes(w) == Prepared(w) /\ work[w] = Latest(w).before /\ Sources = Latest(w).sources

\* The journal comes first, then the Work, then the seal; a death may come
\* after either.
Migrate(w, sooner, dies) ==
    LET planned == IF Resumes(w) THEN Latest(w).after
                   ELSE [work[w] EXCEPT !.contract = 2, !.gen = @ + 1]
        entry == [state |-> IF dies = "no" THEN "committed" ELSE "prepared",
                  before |-> work[w], after |-> planned, sources |-> Sources, back |-> Nothing]
    IN
    /\ work[w].contract = 1 /\ Eligible(w) /\ (Prepared(w) => Resumes(w))
    /\ Moves(dies) /\ (sooner => Journaled(w) /\ ~Resumes(w))
    /\ journal' = IF ~Resumes(w) THEN [journal EXCEPT ![w] = Filed(w, entry, sooner)]
                  ELSE IF dies = "no" THEN Sealed(w, Len(journal[w]), "committed") ELSE journal
    /\ work' = IF dies = "journaled" THEN work ELSE [work EXCEPT ![w] = planned]
    /\ UNCHANGED <<product, file, runner, limits>>

\* migrate again after the Work was saved and not the seal.
SealMigration(w) ==
    /\ work[w].contract = 2 /\ Eligible(w) /\ Prepared(w) /\ work[w] = Latest(w).after
    /\ journal' = Sealed(w, Len(journal[w]), "committed")
    /\ UNCHANGED <<product, file, work, runner, limits, used>>

\* Mutant: the generation goes back to the one of the checkpoint.
RestoredAll(w) == Latest(w).before
\* The checkpoint, in a generation of its own.
Restored(w) == [Latest(w).before EXCEPT !.gen = work[w].gen + 1]

\* Mutant: progress made since the migration is not noticed.
UntouchedNever(w) == Sources = Latest(w).sources
\* Nothing has happened to the Work, or to the sources, since the migration.
Untouched(w) == work[w] = Latest(w).after /\ Sources = Latest(w).sources

Rollback(w, dies) ==
    LET i == Len(journal[w]) IN
    /\ Journaled(w) /\ Latest(w).state # "rolled_back" /\ Untouched(w)
    /\ work[w].status # "completed" /\ ~(Latest(w).state = "rollback_prepared" /\ work[w] = Latest(w).back)
    /\ Moves(dies)
    /\ journal' = [journal EXCEPT ![w][i].state = IF dies = "no" THEN "rolled_back" ELSE "rollback_prepared",
                                  ![w][i].back = Restored(w)]
    /\ work' = IF dies = "journaled" THEN work ELSE [work EXCEPT ![w] = Restored(w)]
    /\ UNCHANGED <<product, file, runner, limits>>

\* rollback again after the Work was restored and not the journal.
SealRollback(w) ==
    /\ Journaled(w) /\ Latest(w).state = "rollback_prepared" /\ work[w] = Latest(w).back
    /\ journal' = Sealed(w, Len(journal[w]), "rolled_back")
    /\ UNCHANGED <<product, file, work, runner, limits, used>>

-----------------------------------------------------------------------------
MoveNext ==
    \/ \E w \in Works, sooner \in BOOLEAN, dies \in {"no", "journaled", "saved"} : Migrate(w, sooner, dies)
    \/ \E w \in Works : SealMigration(w)
    \/ \E w \in Works, dies \in {"no", "journaled", "saved"} : Rollback(w, dies)
    \/ \E w \in Works : SealRollback(w)

CompletionNext ==
    \/ \E w \in Works : CompleteWorkflow(w)
    \/ \E w \in Works, status \in {"passed", "failed"} : Verify(w, status)
    \/ \E p \in Processes, w \in Works : DoneJudges(p, w)
    \/ \E p \in Processes : DoneCloses(p)
    \/ \E w \in Works : Reopen(w)
    \/ \E p \in Paths, body \in limits.bodies : WriteReport(p, body)

Next == ExecutionNext \/ EvidenceNext \/ CompletionNext \/ MoveNext

Spec == Init /\ [][Next]_vars

-----------------------------------------------------------------------------
(* Properties.                                                             *)

\* Every state is one the program knows, and of a Work's executions only the
\* last one can be without a result: whoever starts another one, after deaths
\* and switches, has given up the one before.
RecordsSound ==
    /\ product \in [code : 0..1, unit : 0..1, policy : 0..1]
    /\ \A p \in Processes : runner[p] # Nothing => runner[p].stage \in {"admitted", "owning", "closing"}
    /\ \A w \in Works :
        /\ work[w].status \in {"active", "suspended", "completed"} /\ work[w].contract \in 1..2
        /\ \A i \in 1..Len(journal[w]) :
               journal[w][i].state \in {"prepared", "committed", "rollback_prepared", "rolled_back"}
        /\ \A i \in 1..Len(work[w].rows) :
               /\ work[w].rows[i].status \in {"running", "passed", "failed", "stale", "abandoned", "unavailable"}
               /\ ~work[w].rows[i].host /\ work[w].rows[i].status = "running" =>
                      work[w].rows[i] = LastExecution(w)

\* An execution of this very material had it as its output.
Executed(w, r) ==
    \E i \in 1..Len(work[w].rows) :
        LET row == work[w].rows[i] IN row.status = "passed" /\ row.on = MaterialOf(w) /\ r \in row.refs
\* A result of what is there: it was executed, or it names the Work and the code
\* as it is; and if it grants a gate, then because of a log that was executed.
Backed(w, r) ==
    /\ file[r.path] = r.was
    /\ Executed(w, r) \/ (Names(r.was) /\ r.was.work = w /\ r.was.code = product.code)
    /\ r.was.kind = "cited" => Executed(w, [path |-> "log", was |-> r.was.log])

\* Evidence about what is there.
OfNow(w, i) == LET e == work[w].evidence[i] IN e.on = InputsOf(w) /\ ~e.old

\* w is completed only on results of what is there at that moment, verified, and with
\* no attached result of it that did not pass and nobody answered.
ClosesOnEvidence(w) ==
    work[w].status # "completed" /\ work'[w].status = "completed" =>
        /\ work[w].bound # Nothing /\ \A r \in work[w].bound.refs : Backed(w, r)
        /\ Verified(w)
        /\ \A j \in Attached(w) : OfNow(w, j) /\ ~work[w].evidence[j].ok =>
               \E i \in Attached(w) : OfNow(w, i) /\ work[w].evidence[i].ok /\ work[w].evidence[i].supersedes = j

\* A Work is completed only on evidence of that moment: edits, switches, repairs
\* and the provider's own transition come at any time before.
CompletedOnEvidence == [][\A w \in Works : ClosesOnEvidence(w)]_vars

\* An execution of w that was given up never passes, however late its process ends;
\* and none of them passes twice.
NeverPassesLate(w) ==
    \A i \in 1..Len(work[w].rows) : work[w].rows[i].status # "running" =>
        \A j \in 1..Len(work'[w].rows) :
            (work'[w].rows[j].id = work[w].rows[i].id /\ work'[w].rows[j].status = "passed") =>
                work[w].rows[i].status = "passed"

\* No two Works rest on the same result.
OneClaimPerResult ==
    \A v, w \in Works : v # w /\ work[v].bound # Nothing /\ work[w].bound # Nothing =>
        work[v].bound.refs \cap work[w].bound.refs = {}

\* A result comes in time or not at all: an execution that a retry, an abandon or a newer
\* generation has given up is not made good by its process, which still runs.
ResultsAreEarned == [][\A w \in Works : NeverPassesLate(w)]_vars

\* A product repair ends with the bound output of an execution after it
\* (references/native-lifecycle.md, and the advice of NATIVE_PRODUCT_REPAIR_REQUIRED in
\* lifecycle_contract.py): fails, because a statement of acceptance that names Work and
\* code, whenever it was written, ends the repair alone.
RepairNeedsExecution ==
    [][\A w \in Works : (Repairing(w) /\ work'[w].repair = Nothing) =>
           \E r \in work'[w].bound.refs : \E i \in 1..Len(work[w].rows) :
               /\ work[w].rows[i].id \notin work[w].repair.boundary
               /\ work[w].rows[i].status = "passed" /\ r \in work[w].rows[i].refs]_vars

\* A move of w between the contracts loses nothing the Work has.
KeepsProgress(w) ==
    /\ work'[w].gen >= work[w].gen
    /\ work'[w].contract # work[w].contract =>
           [work'[w] EXCEPT !.contract = 0, !.gen = 0] = [work[w] EXCEPT !.contract = 0, !.gen = 0]

\* Moving between the contracts loses nothing the Works have, and their generations
\* never go back, so that what was admitted before stays late.
MigrationKeepsProgress == [][\A w \in Works : KeepsProgress(w)]_vars

=============================================================================
