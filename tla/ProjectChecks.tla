--------------------------- MODULE ProjectChecks ---------------------------
(***************************************************************************)
(* What a project must show before a Work starts: a scope set up by a plan *)
(* whose scaffold was checked (project setup plan, apply, check), and the  *)
(* project's own verification entries, kept as managed scripts, that have  *)
(* passed (verification materialize, verification check --project).        *)
(*                                                                         *)
(* A check reads its inputs and says it is running under the lock, runs    *)
(* its commands without it, and takes the lock again for the result; in    *)
(* between, other commands run, files are edited and the process may die.  *)
(***************************************************************************)
EXTENDS ContextChange

CONSTANT Processes

Outcomes == {"passed", "failed", "blocked"}  \* an error counts as blocked
Statuses == Outcomes \cup {"stale"}
\* What a verification file holds: what a plan wrote, or something else.
File == Identities \cup {"edited", Nothing}
Stamps == UNION {[S -> Scope] : S \in SUBSET Scopes}  \* what a check records of the background
Entry == [of : Identities, wrapped : BOOLEAN]

SetupPlan == [context : Stamps, identity : Identities]
SetupInput == [plan : SetupPlan, context : Stamps, entries : Entry \cup {Nothing}, file : File,
               wrapper : Identities \cup {Nothing}, code : Nat]
SetupRun == [id : Nat \ {0}, inputs : SetupInput]
SetupResult == [status : Statuses, inputs : SetupInput, initialization : SetupPlan \X File]
Setup == [plan : SetupPlan, applied : BOOLEAN, running : SetupRun \cup {Nothing}, result : SetupResult \cup {Nothing}]

ProjectStandard == [context : Stamps, entries : Entry \cup {Nothing}, file : File, wrapper : Identities \cup {Nothing}]
Check == [status : Statuses \cup {"none"}, standard : ProjectStandard \cup {Nothing}, run : Nat, asserted : BOOLEAN,
          certified : ProjectStandard \cup {Nothing}, running : Nat]
Run == [id : Nat \ {0}, scope : Scopes, standard : ProjectStandard, status : Statuses]
Baseline == [entries : [Scopes -> Entry \cup {Nothing}], bound : [Scopes -> Stamps \cup {Nothing}],
             files : [Scopes -> File], wrappers : [Scopes -> Identities \cup {Nothing}],
             checks : [Scopes -> Check], runs : Seq(Run)]

Process == [kind : {"setup"}, scope : Scopes, id : Nat \ {0}, before : SetupInput] \cup
           [kind : {"baseline"}, scope : Scopes, id : Nat \ {0},
            before : [standard : ProjectStandard, code : Nat], certified : ProjectStandard \cup {Nothing}]

ASSUME ChecksAssumption ==
    /\ Nothing \notin Processes \cup Entry \cup Setup \cup SetupRun \cup SetupResult \cup ProjectStandard \cup Process
    /\ \A l \in Limits : l.gated \in BOOLEAN  \* whether the baseline matters in this behaviour

VARIABLES
    baseline,  \* the configuration, the verification files, and what checks of the project left
    code,      \* the product's code in each scope, as a count of its edits
    process    \* checks that run

projectVars == <<disk, product, setup, limits, used, baseline, code, process>>

NoCheck == [status |-> "none", standard |-> Nothing, run |-> 0, asserted |-> FALSE, certified |-> Nothing, running |-> 0]

ProjectTypeOK ==
    /\ ContextTypeOK
    /\ setup \in [Scopes -> Setup \cup {Nothing}]
    /\ baseline \in Baseline
    /\ code \in [Scopes -> 0..limits.edits]
    /\ process \in [Processes -> Process \cup {Nothing}]

ProjectInit ==
    /\ ContextInit
    /\ baseline = [entries |-> [s \in Scopes |-> Nothing], bound |-> [s \in Scopes |-> Nothing],
                   files |-> [s \in Scopes |-> Nothing], wrappers |-> [s \in Scopes |-> Nothing],
                   checks |-> [s \in Scopes |-> NoCheck], runs |-> <<>>]
    /\ code = [s \in Scopes |-> 0]
    /\ process = [p \in Processes |-> Nothing]

\* A command leaves the last of the states its writes lead through, or is cut
\* short at an earlier one.
Leaves(states) ==
    LET At(i) == disk' = states[i].disk /\ setup' = states[i].setup /\ baseline' = states[i].baseline
    IN \/ At(Len(states)) /\ UNCHANGED used
       \/ /\ used.deaths < limits.deaths
          /\ used' = [used EXCEPT !.deaths = @ + 1]
          /\ \E i \in 1..(Len(states) - 1) : At(i)
Here == [disk |-> disk, setup |-> setup, baseline |-> baseline]

Stamp(s) == Fingerprint(Current, {s})  \* the scope's background, as a check records it
Alive(id) == \E p \in Processes : process[p] # Nothing /\ process[p].id = id

-----------------------------------------------------------------------------
(* Set-up of a scope.                                                      *)

\* Mutant: what was found of the plan before is kept with the new one.
RecordKeptResult(s, plan) ==
    [plan |-> plan, applied |-> FALSE, running |-> Nothing, result |-> IF setup[s] = Nothing THEN Nothing ELSE setup[s].result]
Record(s, plan) == [plan |-> plan, applied |-> FALSE, running |-> Nothing, result |-> Nothing]

NotRunning(s) == setup[s] # Nothing => setup[s].running = Nothing

\* project setup plan: no file is there with other content; the identity becomes
\* part of the context, then the plan is kept, and with it goes what was found of
\* the one before. The same plan again keeps its record.
PlanSetup(s, identity) ==
    LET changes == Current.scopes[s].identity # identity
        commit  == IF changes THEN Commit(disk, [Current EXCEPT !.scopes[s].identity = identity]) ELSE <<disk>>
        after   == Last(Last(commit).context)
        plan    == [context |-> Fingerprint(after, {s}), identity |-> identity]
        record  == IF setup[s] # Nothing /\ setup[s].plan = plan THEN setup[s] ELSE Record(s, plan)
    IN /\ Known /\ s \in Present /\ ~Stops({s}, Nothing)
       /\ baseline.files[s] \in {identity, Nothing}
       /\ NotRunning(s)
       /\ changes => MayCommit
       /\ changes \/ record # setup[s]
       /\ Leaves([i \in 1..Len(commit) |-> [Here EXCEPT !.disk = commit[i]]]
                 \o <<[Here EXCEPT !.disk = Last(commit), !.setup[s] = record]>>)
       /\ UNCHANGED <<product, limits, code, process>>

\* project setup apply: files are created and never overwritten, then the
\* entries are configured for the present background, then the record says so.
ApplySetup(s) ==
    LET identity == setup[s].plan.identity
        created  == [Here EXCEPT !.baseline.files[s] = identity]
        entered  == [created EXCEPT !.baseline.entries[s] = [of |-> identity, wrapped |-> FALSE],
                                    !.baseline.bound = [t \in Scopes |-> IF t \in Present THEN Stamp(t) ELSE Nothing]]
    IN /\ setup[s] # Nothing /\ setup[s].running = Nothing
       /\ Stamp(s) = setup[s].plan.context
       /\ baseline.files[s] \in {identity, Nothing}
       /\ Leaves(<<created, entered, [entered EXCEPT !.setup[s].applied = TRUE]>>)
       /\ UNCHANGED <<product, limits, code, process>>

\* current_inputs
SetupInputs(s) ==
    [plan |-> setup[s].plan, context |-> Stamp(s), entries |-> baseline.entries[s], file |-> baseline.files[s],
     wrapper |-> baseline.wrappers[s], code |-> code[s]]
\* initialization_snapshot: the plan and its verification files, not the code.
Initialization(s) == <<setup[s].plan, baseline.files[s]>>

\* Mutant: a run is recovered while its owner is alive.
RecoverAny(id) == TRUE
OwnerExited(id) == ~Alive(id)

NextRun == used.runs + 1

\* project setup check, to the point where its commands run; the run that was
\* left running is named by whoever recovers it.
BeginSetupCheck(p, s) ==
    LET running == [id |-> NextRun, inputs |-> SetupInputs(s)]
    IN /\ process[p] = Nothing /\ used.runs < limits.runs
       /\ setup[s] # Nothing /\ setup[s].applied
       /\ setup[s].running # Nothing => OwnerExited(setup[s].running.id)
       /\ Stamp(s) = setup[s].plan.context
       /\ setup' = [setup EXCEPT ![s].running = running]
       /\ process' = [process EXCEPT ![p] = [kind |-> "setup", scope |-> s, id |-> NextRun, before |-> running.inputs]]
       /\ used' = [used EXCEPT !.runs = NextRun]
       /\ UNCHANGED <<disk, product, limits, baseline, code>>

\* Mutant: a status of its own, which no reader of results knows.
JudgedOtherwise(before, after, outcome) == IF before = after THEN outcome ELSE "changed"
\* Mutant: inputs that moved under the check are not noticed.
JudgedAnyway(before, after, outcome) == outcome
Judged(before, after, outcome) == IF before = after THEN outcome ELSE "stale"

\* The result is written unless another run took the scope over.
EndSetupCheck(p, outcome) ==
    LET run == process[p]
        s   == run.scope
        own == setup[s].running # Nothing /\ setup[s].running.id = run.id
        result == [status |-> Judged(run.before, SetupInputs(s), outcome), inputs |-> run.before,
                   initialization |-> Initialization(s)]
    IN /\ run # Nothing /\ run.kind = "setup"
       /\ process' = [process EXCEPT ![p] = Nothing]
       /\ setup' = IF own THEN [setup EXCEPT ![s].result = result, ![s].running = Nothing] ELSE setup
       /\ UNCHANGED <<disk, product, limits, used, baseline, code>>

\* project setup status
SetupReady(s) ==
    /\ ~Stops({s}, Nothing)
    /\ setup[s] # Nothing /\ setup[s].plan.context = Stamp(s)
    /\ setup[s].result # Nothing /\ setup[s].result.status = "passed"
    /\ setup[s].result.initialization = Initialization(s)

-----------------------------------------------------------------------------
(* The project's baseline.                                                 *)

\* verification materialize: the commands become managed scripts, then the
\* entries call them.
Materialize(s) ==
    LET entry   == baseline.entries[s]
        written == [Here EXCEPT !.baseline.wrappers[s] = entry.of]
        bound   == [t \in Scopes |-> IF t \in Present THEN Stamp(t) ELSE Nothing]
    IN /\ Known /\ Ready({s} \cap Present, ActiveWork)
       /\ entry # Nothing
       /\ IF entry.wrapped
          THEN /\ baseline.bound # bound \* readiness of the entry it keeps
               /\ baseline.wrappers[s] # Nothing
               /\ Leaves(<<[Here EXCEPT !.baseline.bound = bound]>>)
          ELSE /\ baseline.wrappers[s] \in {entry.of, Nothing}
               /\ Leaves(<<written, [written EXCEPT !.baseline.entries[s].wrapped = TRUE, !.baseline.bound = bound]>>)
       /\ UNCHANGED <<product, limits, code, process>>

\* project_standard
Standard(s) == [context |-> Stamp(s), entries |-> baseline.entries[s], file |-> baseline.files[s],
                wrapper |-> baseline.wrappers[s]]
Held(s) == IF baseline.checks[s].status = "passed" THEN baseline.checks[s].standard ELSE baseline.checks[s].certified
PassedRun(s, standard) ==
    \E i \in DOMAIN baseline.runs : /\ baseline.runs[i].scope = s /\ baseline.runs[i].status = "passed"
                                    /\ baseline.runs[i].standard = standard
\* certification: the latest result, what it carries, or a run of the past.
Certification(s) ==
    IF Held(s) # Nothing THEN Held(s) ELSE IF PassedRun(s, Standard(s)) THEN Standard(s) ELSE Nothing

Inputs(s) == [standard |-> Standard(s), code |-> code[s]]

\* Mutant: a check that starts forgets what was certified.
StartedAfresh(s, id) == [NoCheck EXCEPT !.running = id]
Started(s, id) == [NoCheck EXCEPT !.certified = Certification(s), !.running = id]

\* verification check --project, to the point where its commands run
BeginCheck(p, s) ==
    LET id == NextRun
        told == [baseline EXCEPT !.checks[s] = Started(s, id)]
    IN /\ process[p] = Nothing /\ used.runs < limits.runs
       /\ Known /\ Ready({s} \cap Present, ActiveWork)
       /\ baseline.entries[s] # Nothing /\ baseline.files[s] # Nothing
       /\ baseline.entries[s].wrapped => baseline.wrappers[s] # Nothing
       /\ baseline.checks[s].running # 0 => OwnerExited(baseline.checks[s].running)
       /\ baseline' = told
       /\ process' = [process EXCEPT ![p] = [kind |-> "baseline", scope |-> s, id |-> id, before |-> Inputs(s),
                                             certified |-> told.checks[s].certified]]
       /\ used' = [used EXCEPT !.runs = id]
       /\ UNCHANGED <<disk, product, setup, limits, code>>

Ran(run, status) == [id |-> run.id, scope |-> run.scope, standard |-> run.before.standard, status |-> status]
Result(run, status, asserted) ==
    [status |-> status, standard |-> Standard(run.scope), run |-> run.id, asserted |-> asserted /\ status = "failed",
     certified |-> run.certified, running |-> 0]

\* Mutant: the scope's result is written before the run it comes from.
RecordedResultFirst(run, status, asserted) ==
    LET told == [Here EXCEPT !.baseline.checks[run.scope] = Result(run, status, asserted)]
    IN <<told, [told EXCEPT !.baseline.runs = Append(@, Ran(run, status))]>>
\* The run, then the scope's result.
Recorded(run, status, asserted) ==
    LET kept == [Here EXCEPT !.baseline.runs = Append(@, Ran(run, status))]
    IN <<kept, [kept EXCEPT !.baseline.checks[run.scope] = Result(run, status, asserted)]>>

\* The second half; asserted: every failure was an assertion of the tests.
EndCheck(p, outcome, asserted) ==
    LET run == process[p]
        status == Judged(run.before, Inputs(run.scope), outcome)
    IN /\ run # Nothing /\ run.kind = "baseline"
       /\ Leaves(Recorded(run, status, asserted))
       /\ process' = [process EXCEPT ![p] = Nothing]
       /\ UNCHANGED <<product, limits, code>>

-----------------------------------------------------------------------------
(* What a Work needs of the project.                                       *)

\* declaration_state
Declared(scopes) ==
    /\ \A s \in scopes : baseline.bound[s] = Stamp(s)
    /\ \E s \in scopes \cup {"root"} : baseline.entries[s] # Nothing
    /\ \A s \in scopes \cup {"root"} : baseline.entries[s] # Nothing =>
         baseline.entries[s].wrapped /\ baseline.wrappers[s] # Nothing

\* project_state: the last check passed, or the product alone fails a baseline
\* that is certified as it stands, while its Work is active.
Passed(s, w) ==
    LET check == baseline.checks[s]
        product_failure == /\ w # Nothing /\ disk.works[w].status = "active"
                           /\ check.status = "failed" /\ check.asserted
                           /\ Certification(s) = Standard(s)
    IN check.standard = Standard(s) /\ (check.status = "passed" \/ product_failure)

\* Mutant: an empty product needs no set-up.
PrerequisiteNoSetup(scopes, w) == Declared(scopes) /\ \A s \in scopes : Passed(s, w)
\* project_prerequisite; a Work that exists is not sent back to the set-up.
Prerequisite(scopes, w) ==
    /\ w = Nothing => \A s \in scopes : (setup[s] = Nothing /\ product[s] # Nothing) \/ SetupReady(s)
    /\ Declared(scopes)
    /\ \A s \in scopes : Passed(s, w)

CheckedStart(w, requested) ==
    /\ Known
    /\ limits.gated => Prerequisite(Selected(requested, Nothing), Nothing)
    /\ StartWork(w, requested)
CheckedReactivate(w) ==
    /\ Known
    /\ disk.works[w] # Nothing
    /\ limits.gated => Prerequisite(Selected({}, w), w)
    /\ Reactivate(w)

-----------------------------------------------------------------------------
(* The rest of the world.                                                  *)

Dies(p) ==
    /\ process[p] # Nothing /\ used.deaths < limits.deaths
    /\ process' = [process EXCEPT ![p] = Nothing]
    /\ used' = [used EXCEPT !.deaths = @ + 1]
    /\ UNCHANGED <<disk, product, setup, limits, baseline, code>>

Edit(s) ==
    /\ limits.gated /\ used.edits < limits.edits
    /\ used' = [used EXCEPT !.edits = @ + 1]
    /\ \/ code' = [code EXCEPT ![s] = @ + 1] /\ UNCHANGED baseline
       \/ /\ baseline.files[s] # Nothing
          /\ \E to \in {"edited", Nothing} \ {baseline.files[s]} : baseline' = [baseline EXCEPT !.files[s] = to]
          /\ UNCHANGED code
    /\ UNCHANGED <<disk, product, setup, limits, process>>

CheckSteps ==
    \/ \E s \in limits.scopes, identity \in Identities : PlanSetup(s, identity)
    \/ \E s \in limits.scopes : ApplySetup(s) \/ Materialize(s) \/ Edit(s)
    \/ \E p \in Processes, s \in limits.scopes : BeginSetupCheck(p, s) \/ BeginCheck(p, s)
    \/ \E p \in Processes, outcome \in Outcomes :
         EndSetupCheck(p, outcome) \/ \E asserted \in {FALSE, outcome = "failed"} : EndCheck(p, outcome, asserted)
    \/ \E p \in Processes : Dies(p)

WorkSteps ==
    \/ \E w \in limits.works, requested \in SUBSET limits.scopes : CheckedStart(w, requested)
    \/ \E w \in limits.works : CheckedReactivate(w)

ProjectNext ==
    \/ (ContextSteps \/ WorkSteps) /\ UNCHANGED <<baseline, code, process>>
    \/ limits.gated /\ CheckSteps

ProjectSpec == ProjectInit /\ [][ProjectNext]_projectVars

-----------------------------------------------------------------------------
(* What should hold.                                                       *)

\* A set-up result is of the plan on record: no plan is replaced while its
\* check runs, and no check writes over another's (dispatch plan, check).
ResultIsOfThePlan ==
    \A s \in Scopes : setup[s] # Nothing /\ setup[s].result # Nothing => setup[s].result.inputs.plan = setup[s].plan

\* A scope counts as set up only as it was checked: same background, same
\* verification files as when its commands began (check, state).
ReadyAsChecked ==
    \A s \in Scopes : Known /\ SetupReady(s) =>
        /\ setup[s].result.inputs.context = Stamp(s)
        /\ setup[s].result.inputs.file = baseline.files[s]

\* At most one check of a kind runs for a scope, whoever dies or recovers.
OneCheckPerScope ==
    \A p, q \in Processes :
        process[p] # Nothing /\ process[q] # Nothing /\ process[p].kind = process[q].kind
            /\ process[p].scope = process[q].scope => p = q

\* What a scope is certified for is what some run of its entries passed with,
\* whatever died between the run's record and the scope's (command, certification).
CertifiedByARun ==
    \A s \in Scopes :
        /\ baseline.checks[s].status = "passed" => PassedRun(s, baseline.checks[s].standard)
        /\ baseline.checks[s].certified # Nothing => PassedRun(s, baseline.checks[s].certified)

\* A check that fails, or is cut short, takes no certification away.
CertificationKept ==
    [][\A s \in Scopes : Held(s) # Nothing => Held(s)' # Nothing]_projectVars

\* A Work starts only where the project has shown it works as it stands: a
\* run passed with today's entries and files, and what cao set up was checked.
StartsOnAPassedBaseline ==
    [][limits.gated =>
         \A w \in Works : disk.works[w] = Nothing /\ disk'.works[w] # Nothing =>
            \A s \in disk'.works[w].binding.scopes :
               /\ PassedRun(s, Standard(s))
               /\ product[s] = Nothing => /\ setup[s] # Nothing /\ setup[s].result # Nothing
                                          /\ setup[s].result.inputs.file = baseline.files[s]]_projectVars

\* What the files of background, changes and checks say of each other.
FilesAgree == ProjectTypeOK /\ HistoryKept /\ ActiveChangeStands /\ CompletedWasAccepted

\* What a set-up or a check leaves on record was found by one run, of the plan,
\* background and files that are there.
ChecksSound == ResultIsOfThePlan /\ ReadyAsChecked /\ OneCheckPerScope /\ CertifiedByARun

\* A baseline, once shown, stays shown, and no Work starts without one.
BaselineHolds == CertificationKept /\ StartsOnAPassedBaseline

\* A check whose owner has exited can be recovered: "after that owner has
\* exited, recover only that run with cao project setup check --recover-run"
\* (references/project-initialization.md:100-101).
InterruptedCheckRecovers ==
    \A s \in Scopes : setup[s] # Nothing /\ setup[s].running # Nothing /\ ~Alive(setup[s].running.id) =>
        Stamp(s) = setup[s].plan.context

=============================================================================
