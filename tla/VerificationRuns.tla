-------------------------- MODULE VerificationRuns --------------------------
(***************************************************************************)
(* The verifications of one Work (lifecycle contract 2): prepared without  *)
(* the lock, admitted under it, executed outside it, and committed, late   *)
(* or never.  What an executor leaves behind when it dies is a handful of  *)
(* files; finalize and abandon decide from them and from the Work what to  *)
(* make of the run, while other commands move the Work on.                 *)
(***************************************************************************)
EXTENDS Naturals

CONSTANTS
    Runs,       \* run identities, each with the executor that made it
    Inputs,     \* values of everything a verification depends on
    Nobody,     \* no run, no process
    Nothing,    \* no inputs, no outcome
    MaxGen,     \* bound: commands that raise the generation
    MaxEdits    \* bound: changes of the inputs, and saves of other commands

ASSUME RunsAssumption ==
    /\ Nobody \notin Runs /\ Nothing \notin Inputs
    /\ MaxGen \in Nat /\ MaxEdits \in Nat

VARIABLES
    status,     \* the Work's status
    gen,        \* its execution_generation
    seq,        \* its verification_sequence
    ver,        \* its official verification
    said,       \* per run, the last finished event recorded for it
    inputs,     \* the inputs as they are now
    fresh,      \* executors preparing from what is still the current Work
    lock,       \* executor in the middle of its admission transaction
    run,        \* what each executor is doing, and has read
    files,      \* run records on disk
    outcome,    \* what the executed commands came to
    finalizer,  \* a finalize command between its load and its transaction
    edits

work == <<status, gen, seq, ver, said>>
disk == <<files, outcome>>
vars == <<status, gen, seq, ver, said, inputs, fresh, lock, run, files, outcome, finalizer, edits>>

NoVerification == [run |-> Nobody, state |-> "none"]
Unused == [at |-> "unused", inputs |-> Nothing, gen |-> 0, seq |-> 0]
NoFinalizer == [run |-> Nobody, ver |-> NoVerification, gen |-> 0]

Stages == {"unused", "observed", "measured", "starting", "admitted", "owning", "executed",
           "sealed", "receipted", "committed", "done", "refused", "dead"}
\* The executor holds the lock of its run's owner file; before that, and
\* without the file, its owner is unknown.
Owned(r) == run[r].at \in {"owning", "executed", "sealed", "receipted", "committed"}

Free == lock = Nobody
Verdicts == {"passed", "failed", "stale"}
Terminal == Verdicts \cup {"blocked", "superseded"}

\* Every save changes the Work that preparations compare with.
Saves == fresh' = {}

Init ==
    /\ status = "active" /\ gen = 0 /\ seq = 0
    /\ ver = NoVerification
    /\ said = [r \in Runs |-> "none"]
    /\ inputs \in Inputs
    /\ fresh = {} /\ lock = Nobody
    /\ run = [r \in Runs |-> Unused]
    /\ files = [r \in Runs |-> {}] /\ outcome = [r \in Runs |-> Nothing]
    /\ finalizer = NoFinalizer
    /\ edits = 0

-----------------------------------------------------------------------------
(* Reading a run from its records and the Work.                            *)

\* Recovery statuses that ask nobody for anything: a terminal result is
\* recorded, or another run or generation has taken this one's place.
Superseded(r) ==
    /\ said[r] \notin Terminal
    /\ ver.run # Nobody /\ (ver.run # r \/ run[r].gen # gen)
Unresolved(r) ==
    /\ "start" \in files[r] /\ said[r] \notin Terminal
    /\ Owned(r) \/ ~Superseded(r)

\* Mutant: the generation the run was made for is not compared.
EligibleByName(r, v, g) == v.run = r /\ v.state = "running"
\* The run is still the one the Work is waiting for.
Eligible(r, v, g) == v.run = r /\ v.state = "running" /\ run[r].gen = g

\* Mutant: a run of which anything was recorded cannot be abandoned.
CanAbandonUnheard(r) ==
    "start" \in files[r] /\ ~Owned(r) /\ said[r] = "none" /\ ver.run = r /\ ver.state = "running"
CanAbandon(r) == "start" \in files[r] /\ ~Owned(r) /\ ver.run = r /\ ver.state = "running"

\* Mutant: neither the recorded verdict nor the records are looked at.
CanFinalizeUnheard(r, v, g) ==
    /\ ~Owned(r)
    /\ "start" \in files[r]
    /\ Eligible(r, v, g)
    /\ inputs = run[r].inputs

\* Mutant: the receipt is not asked for.
CanFinalizeUnreceipted(r, v, g) ==
    /\ said[r] \notin Verdicts \cup {"blocked"} /\ ~Owned(r)
    /\ {"start", "admission"} \subseteq files[r]
    /\ Eligible(r, v, g) /\ inputs = run[r].inputs

\* Mutant: a live owner is not noticed.
CanFinalizeOwned(r, v, g) ==
    /\ said[r] \notin Verdicts \cup {"blocked"}
    /\ {"start", "admission", "receipt"} \subseteq files[r]
    /\ Eligible(r, v, g) /\ inputs = run[r].inputs

CanFinalize(r, v, g) ==
    /\ said[r] \notin Verdicts \cup {"blocked"}
    /\ ~Owned(r)
    /\ {"start", "admission", "receipt"} \subseteq files[r]
    /\ Eligible(r, v, g)
    /\ inputs = run[r].inputs

-----------------------------------------------------------------------------
(* cao verify.                                                             *)

Goes(r, at) == run' = [run EXCEPT ![r].at = at]

\* The Work is read and found ready for a verification.
Observe(r) ==
    /\ Free /\ run[r].at = "unused"
    /\ status = "active" /\ ver.state # "running"
    /\ run' = [run EXCEPT ![r] = [at |-> "observed", inputs |-> Nothing, gen |-> gen, seq |-> seq + 1]]
    /\ fresh' = fresh \cup {r}
    /\ UNCHANGED <<work, inputs, lock, disk, finalizer, edits>>

\* The inputs are read with no lock held.
Measure(r) ==
    /\ run[r].at = "observed"
    /\ run' = [run EXCEPT ![r].at = "measured", ![r].inputs = inputs]
    /\ UNCHANGED <<work, inputs, fresh, lock, disk, finalizer, edits>>

\* Mutant: the Work is not compared with the one that was read.
AdmitUnchecked(r) ==
    /\ Free /\ run[r].at = "measured"
    /\ Goes(r, "starting")
    /\ lock' = r
    /\ files' = [files EXCEPT ![r] = @ \cup {"start"}]
    /\ UNCHANGED <<work, inputs, fresh, outcome, finalizer, edits>>

\* Under the lock a changed Work ends the preparation; otherwise the start
\* record is written, before the Work is saved.
Admit(r) ==
    /\ Free /\ run[r].at = "measured"
    /\ IF r \in fresh
       THEN /\ Goes(r, "starting")
            /\ lock' = r
            /\ files' = [files EXCEPT ![r] = @ \cup {"start"}]
       ELSE Goes(r, "refused") /\ UNCHANGED <<lock, files>>
    /\ UNCHANGED <<work, inputs, fresh, outcome, finalizer, edits>>

AdmitSave(r) ==
    /\ run[r].at = "starting"
    /\ ver' = [run |-> r, state |-> "running"]
    /\ seq' = run[r].seq
    /\ Saves
    /\ Goes(r, "admitted")
    /\ lock' = Nobody
    /\ UNCHANGED <<status, gen, said, inputs, disk, finalizer, edits>>

\* The save is refused: somebody left a switch journal open.
AdmitRefused(r) ==
    /\ run[r].at = "starting"
    /\ Goes(r, "refused")
    /\ lock' = Nobody
    /\ UNCHANGED <<work, inputs, fresh, disk, finalizer, edits>>

TakeOwner(r) ==
    /\ run[r].at = "admitted"
    /\ Goes(r, "owning")
    /\ UNCHANGED <<work, inputs, fresh, lock, disk, finalizer, edits>>

\* The commands run; a cancellation makes them fail.
Execute(r, result) ==
    /\ Free /\ run[r].at = "owning"
    /\ outcome' = [outcome EXCEPT ![r] = result]
    /\ Goes(r, "executed")
    /\ UNCHANGED <<work, inputs, fresh, lock, files, finalizer, edits>>

\* admission.json first, then the receipt that carries its digest.
WriteAdmission(r) ==
    /\ run[r].at = "executed"
    /\ files' = [files EXCEPT ![r] = @ \cup {"admission"}]
    /\ Goes(r, "sealed")
    /\ UNCHANGED <<work, inputs, fresh, lock, outcome, finalizer, edits>>

WriteReceipt(r) ==
    /\ Free /\ run[r].at = "sealed"
    /\ files' = [files EXCEPT ![r] = @ \cup {"receipt"}]
    /\ Goes(r, "receipted")
    /\ UNCHANGED <<work, inputs, fresh, lock, outcome, finalizer, edits>>

\* commit_verification, for the executor and for finalize: the run that the
\* Work waits for gets its verdict, stale if the inputs are not those it
\* started from; any other is noted as superseded, unless the Work is closed.
CommitVerification(r) ==
    IF status = "active" /\ Eligible(r, ver, gen)
    THEN LET verdict == IF inputs = run[r].inputs THEN outcome[r] ELSE "stale" IN
         /\ ver' = [run |-> r, state |-> verdict]
         /\ said' = [said EXCEPT ![r] = verdict]
         /\ Saves
    ELSE IF status # "completed"
    THEN /\ said' = [said EXCEPT ![r] = "superseded"]
         /\ Saves
         /\ UNCHANGED ver
    ELSE UNCHANGED <<ver, said, fresh>>

Commit(r) ==
    /\ Free /\ run[r].at = "receipted"
    /\ CommitVerification(r)
    /\ Goes(r, "committed")
    /\ UNCHANGED <<status, gen, seq, inputs, lock, disk, finalizer, edits>>

\* The owner lock is given back.
Finish(r) ==
    /\ run[r].at = "committed"
    /\ Goes(r, "done")
    /\ UNCHANGED <<work, inputs, fresh, lock, disk, finalizer, edits>>

Crash(r) ==
    /\ run[r].at \notin {"unused", "done", "refused", "dead"}
    /\ Goes(r, "dead")
    /\ lock' = IF lock = r THEN Nobody ELSE lock
    /\ UNCHANGED <<work, inputs, fresh, disk, finalizer, edits>>

-----------------------------------------------------------------------------
(* cao runtime.                                                            *)

\* The Work is loaded in one transaction and judged in another.
FinalizeLoad(r) ==
    /\ Free /\ finalizer = NoFinalizer
    /\ "start" \in files[r]
    /\ finalizer' = [run |-> r, ver |-> ver, gen |-> gen]
    /\ UNCHANGED <<work, inputs, fresh, lock, run, disk, edits>>

Finalize ==
    /\ Free /\ finalizer # NoFinalizer
    /\ IF CanFinalize(finalizer.run, finalizer.ver, finalizer.gen)
       THEN CommitVerification(finalizer.run)
       ELSE UNCHANGED <<ver, said, fresh>>
    /\ finalizer' = NoFinalizer
    /\ UNCHANGED <<status, gen, seq, inputs, lock, run, disk, edits>>

\* Mutant: the run is given up in the log, the Work goes on waiting for it.
AbandonInTheLogOnly(r) ==
    /\ Free /\ CanAbandon(r)
    /\ said' = [said EXCEPT ![r] = "blocked"]
    /\ Saves
    /\ UNCHANGED <<status, gen, seq, ver, inputs, lock, run, disk, finalizer, edits>>

Abandon(r) ==
    /\ Free /\ gen < MaxGen
    /\ CanAbandon(r)
    /\ ver' = [ver EXCEPT !.state = "blocked"]
    /\ said' = [said EXCEPT ![r] = "blocked"]
    /\ gen' = gen + 1
    /\ Saves
    /\ UNCHANGED <<status, seq, inputs, lock, run, disk, finalizer, edits>>

-----------------------------------------------------------------------------
(* What other commands do to the Work meanwhile.                           *)

Command ==
    /\ Free /\ Saves
    /\ UNCHANGED <<seq, said, lock, run, disk, finalizer>>

\* checkpoint, decision, gate reports: a save that leaves all this alone.
Touch ==
    /\ edits < MaxEdits /\ fresh # {}
    /\ Command
    /\ edits' = edits + 1
    /\ UNCHANGED <<status, gen, ver, inputs>>

\* block --suspend
Suspend ==
    /\ Command
    /\ status # "suspended" /\ status' = "suspended"
    /\ UNCHANGED <<gen, ver, inputs, edits>>

\* start again without --replace: the generation stays.
Restart ==
    /\ Command
    /\ status = "suspended" /\ status' = "active"
    /\ UNCHANGED <<gen, ver, inputs, edits>>

\* switch to the Work
SwitchTo ==
    /\ Command
    /\ status = "suspended" /\ status' = "active"
    /\ gen < MaxGen /\ gen' = gen + 1
    /\ UNCHANGED <<ver, inputs, edits>>

\* switch to another Work: refused while a run is unresolved.
SwitchAway ==
    /\ Command
    /\ \A r \in Runs : ~Unresolved(r)
    /\ status = "active" /\ status' = "suspended"
    /\ gen < MaxGen /\ gen' = gen + 1
    /\ UNCHANGED <<ver, inputs, edits>>

Reopen(reanchor) ==
    /\ Command
    /\ status \in IF reanchor THEN {"active", "completed"} ELSE {"completed"}
    /\ status' = "active"
    /\ gen < MaxGen /\ gen' = gen + 1
    /\ ver' = NoVerification
    /\ UNCHANGED <<inputs, edits>>

\* amend: the requirement, one of the inputs, is replaced.
Amend(i) ==
    /\ Command
    /\ status \in {"active", "suspended"} /\ i # inputs
    /\ gen < MaxGen /\ gen' = gen + 1
    /\ ver' = NoVerification
    /\ inputs' = i
    /\ UNCHANGED <<status, edits>>

Done ==
    /\ Command
    /\ status = "active" /\ ver.state = "passed" /\ run[ver.run].inputs = inputs
    /\ status' = "completed"
    /\ UNCHANGED <<gen, ver, inputs, edits>>

\* Somebody edits the product, the configuration or the requirement.
Edit(i) ==
    /\ edits < MaxEdits /\ i # inputs
    /\ inputs' = i /\ edits' = edits + 1
    /\ UNCHANGED <<work, fresh, lock, run, disk, finalizer>>

-----------------------------------------------------------------------------
Executor(r) ==
    \/ Measure(r) \/ Admit(r) \/ AdmitSave(r) \/ AdmitRefused(r) \/ TakeOwner(r)
    \/ \E result \in {"passed", "failed"} : Execute(r, result)
    \/ WriteAdmission(r) \/ WriteReceipt(r) \/ Commit(r) \/ Finish(r)

Runtime == Finalize \/ \E r \in Runs : Observe(r) \/ Crash(r) \/ FinalizeLoad(r) \/ Abandon(r)

Others ==
    \/ Touch \/ Suspend \/ Restart \/ SwitchTo \/ SwitchAway \/ Done
    \/ \E b \in BOOLEAN : Reopen(b)
    \/ \E i \in Inputs : Amend(i) \/ Edit(i)

Next == Runtime \/ Others \/ \E r \in Runs : Executor(r)

Spec == Init /\ [][Next]_vars

\* An executor that is alive goes on; somebody inspects a run that the Work
\* waits for in vain, and abandons it.
Fairness == \A r \in Runs : WF_vars(Executor(r)) /\ SF_vars(Abandon(r))
FairSpec == Spec /\ Fairness

-----------------------------------------------------------------------------
(* Properties.                                                             *)

TypeOK ==
    /\ status \in {"active", "suspended", "completed"}
    /\ gen \in 0..MaxGen /\ seq \in Nat
    /\ ver \in [run : Runs \cup {Nobody}, state : {"none", "running", "blocked"} \cup Verdicts]
    /\ said \in [Runs -> {"none"} \cup Terminal]
    /\ inputs \in Inputs /\ fresh \subseteq Runs
    /\ lock \in Runs \cup {Nobody}
    /\ run \in [Runs -> [at : Stages, inputs : Inputs \cup {Nothing}, gen : 0..MaxGen, seq : Nat]]
    /\ files \in [Runs -> SUBSET {"start", "admission", "receipt"}]
    /\ outcome \in [Runs -> {"passed", "failed", Nothing}]

\* The step gives run r a passing official verdict.
Accepts(r) == ver' = [run |-> r, state |-> "passed"] /\ ver' # ver

\* A pass becomes official only for the newest admission of the Work, and
\* only if the generation has stood since then: whoever commits, and however
\* late, nothing that moved the Work on is overwritten.
AcceptsOnlyNewest ==
    [][\A r \in Runs : Accepts(r) => run[r].seq = seq /\ run[r].gen = gen /\ status = "active"]_vars

\* An official pass has a complete trail of records of commands that passed.
PassedIsBacked ==
    ver.state = "passed" =>
        /\ outcome[ver.run] = "passed"
        /\ files[ver.run] = {"start", "admission", "receipt"}

\* Two admissions never get the same place in the sequence.
SequenceIsUnique ==
    \A q, r \in Runs :
        /\ q # r /\ {"admission"} \subseteq files[q] \cap files[r]
        => run[q].seq # run[r].seq

\* A verdict once recorded for a run is never replaced, whichever of its
\* executor and finalize comes second.
VerdictIsFinal == [][\A r \in Runs : said[r] \in Verdicts => said'[r] = said[r]]_vars

\* An abandoned run never becomes an official verdict.
AbandonedStaysOut ==
    [][\A r \in Runs : said[r] = "blocked" => said'[r] \notin Verdicts]_vars

\* A run recorded as superseded never overwrites the official verification.
SupersededStaysOut ==
    [][\A r \in Runs : said[r] = "superseded" => said'[r] \notin Verdicts]_vars

\* A Work that waits for a verification gets an answer, be it that the run
\* was abandoned.
VerdictReached == ver.state = "running" /\ gen < MaxGen ~> ver.state # "running" \/ gen = MaxGen

(* Every record has the shape its writer gives it, and no two runs share a *)
(* place in the verification sequence.                                     *)
WellFormed == TypeOK /\ SequenceIsUnique

(* A verdict, or the decision to abandon a run, stands: no later answer of *)
(* the executor or of finalize replaces it.                                *)
VerdictStands == VerdictIsFinal /\ AbandonedStaysOut
=============================================================================
