----------------------------- MODULE ContractOne -----------------------------
(***************************************************************************)
(* A project-bound Work under the first lifecycle contract: the judgement  *)
(* over plan, workflow, SPEC, gates and both acceptances, cao done with    *)
(* the provider's transition command between its two judgements, and       *)
(* reopen with or without a new standard; people and tools edit the files  *)
(* all the while.                                                          *)
(***************************************************************************)
EXTENDS Acceptance

Current == [decl |-> [req |-> file.req, spec |-> file.spec], config |-> file.config]
FirstWork ==
    [status |-> "active", gen |-> 0, req |-> 0, assess |-> Nothing, gate |-> Nothing, base |-> 0, flow |-> NoFlow,
     scope |-> NoScope, known |-> {}, route |-> Nothing, ref |-> FALSE, spec |-> Nothing, ver |-> Nothing,
     acc |-> Nothing, rows |-> <<>>]

\* The Work after its workflow ran and its acceptance was declared and agreed to.
PreparedWork ==
    LET w == [FirstWork EXCEPT
        !.gen = 1, !.assess = [profile |-> limits.profile, rev |-> 1, req |-> 0, clear |-> TRUE],
        !.gate = IF limits.profile = "light" THEN Nothing ELSE [req |-> 0, rev |-> 1],
        !.flow = [NoFlow EXCEPT !.status = "completed", !.req = 0, !.exec = "ok", !.art = 0],
        !.ref = TRUE, !.spec = [req |-> 0, ver |-> 0],
        !.scope = IF Kind = "sprint" THEN [Scope("bound", Present, FALSE) EXCEPT !.req = 0]
                  ELSE IF plan = Nothing THEN Scope("none", {}, FALSE) ELSE @,
        !.route = IF Kind = "spec" THEN 0 ELSE Nothing,
        !.acc = [decl |-> [req |-> 0, spec |-> 0], anchor |-> [decl |-> [req |-> 0, spec |-> 0], src |-> 0],
                 run |-> Nothing, owned |-> 0]]
    IN Reconciled(w)

TypeOK ==
    /\ PlanTypeOK /\ RunsTypeOK
    /\ work.status \in {"active", "completed"} /\ work.gen \in 0..limits.gens
    /\ work.req \in 0..1 /\ work.base \in 0..1 /\ work.ref \in BOOLEAN /\ work.route \in {Nothing, 0, 1}
    /\ \A k \in DOMAIN work.rows : work.rows[k].gen \in 0..work.gen /\ work.rows[k].status \in {"running", "unknown", "passed", "not_applied"}
    /\ \A c \in Closers : closing[c].at \in {"out", "judged", "running", "ran"} /\ closing[c].row \in 0..Len(work.rows)
    /\ past.seen \subseteq Items /\ past.ran \subseteq 0..1
    /\ past.agreed \in {Nothing} \cup [decl : {Nothing} \cup Declaration, config : 0..1]

Init ==
    /\ limits \in Limits
    /\ file = [req |-> 0, code |-> 0, spec |-> 0, config |-> 0, out |-> 0]
    /\ plan = limits.plan
    /\ work = IF limits.prepared THEN PreparedWork ELSE FirstWork
    /\ jobs = {}
    /\ closing = [c \in Closers |-> [at |-> "out", row |-> 0]]
    /\ past = [seen |-> IF limits.prepared THEN Told(work) ELSE {}, ran |-> IF limits.prepared THEN {0} ELSE {},
               agreed |-> IF limits.prepared THEN Current ELSE Nothing, runs |-> 0]

-----------------------------------------------------------------------------
(* The judgement.                                                          *)

\* plan_scope and native_plan_complete
PlanComplete(w) == PlanReady(w) /\ (Profile(w) = "light" \/ w.scope.mode \in {"none", "bound"})

\* lifecycle_status: every obligation but the acceptances
LifecycleReady(w) ==
    /\ w.status = "active" /\ file.req = w.req /\ AssessReady(w) /\ w.base = file.config /\ RouteReady(w)
    /\ PlanComplete(w) /\ GateReady(w)
    /\ IF Profile(w) = "light" THEN SpecReady(w) ELSE FlowReady(w)

\* summarize: the technical and the task acceptance, and what the latter has to cover
Accepted(w) == VerFresh(w) /\ AccReady(w) /\ Covered(w)

\* completion_status
Ready(w) == LifecycleReady(w) /\ Accepted(w)

-----------------------------------------------------------------------------
(* Closing.                                                                *)

Seen(w) == IF w.status = "active" THEN Saved(w) ELSE w
LockFree == \A c \in Closers : closing[c].at # "running"
Goes(c, at, row) == closing' = [closing EXCEPT ![c] = [at |-> at, row |-> row]]

\* cao done, first judgement
Judge(c) ==
    /\ c \in limits.closers /\ closing[c].at = "out" /\ Ready(Saved(work))
    /\ work' = Saved(work) /\ Saw(work') /\ Goes(c, "judged", 0)
    /\ UNCHANGED <<file, plan, jobs, limits>>

Unresolved(w) == {k \in DOMAIN w.rows : w.rows[k].status \in {"running", "unknown"}}
OfGeneration(w) == {k \in DOMAIN w.rows : w.rows[k].gen = w.gen}

\* Mutant: a command whose end nobody saw is taken for one that did nothing.
BlockedNever(w) == FALSE

\* _transition: nothing is launched past a command whose effects are not known.
LaunchBlocked(w) == Unresolved(w) # {}

\* transition: the owner's lock, then the journal.  A command that passed in this
\* generation is not run again.
Launch(c) ==
    /\ closing[c].at = "judged"
    /\ IF ~LockFree \/ work.status # "active" \/ LaunchBlocked(work) \/ ~Readable(work)
       THEN Goes(c, "out", 0) /\ UNCHANGED work
       ELSE IF ~limits.command \/ (\E k \in OfGeneration(work) : work.rows[k].status = "passed")
       THEN Goes(c, "ran", 0) /\ UNCHANGED work
       ELSE /\ Len(work.rows) < limits.launches
            /\ work' = [work EXCEPT !.rows = Append(@, [gen |-> work.gen, status |-> "running"])]
            /\ Goes(c, "running", Len(work.rows) + 1)
    /\ UNCHANGED <<file, plan, jobs, past, limits>>

\* The command ends; even a failed one may have had effects.  Its end cannot be recorded
\* when the Work's inputs cannot be read.
Ends(c, ok) ==
    LET status == IF ~Readable(work) THEN "running" ELSE IF ok THEN "passed" ELSE "unknown"
    IN /\ closing[c].at = "running"
       /\ work' = [work EXCEPT !.rows[closing[c].row].status = status]
       /\ Goes(c, IF status = "passed" THEN "ran" ELSE "out", 0)
       /\ UNCHANGED <<file, plan, jobs, past, limits>>

\* cao sdd transition resolve
Resolve(k, applied) ==
    /\ LockFree /\ k \in Unresolved(work)
    /\ work' = [work EXCEPT !.rows[k].status = IF applied THEN "passed" ELSE "not_applied"]
    /\ UNCHANGED <<file, plan, jobs, closing, past, limits>>

\* Mutant: what held before the command is not looked at again.
ClosableJudged(w) == w.status = "active"

Closable(w) == Ready(w)

\* cao done, second judgement
Close(c) ==
    LET w == Seen(work)
    IN /\ closing[c].at = "ran" /\ Goes(c, "out", 0)
       /\ work' = IF Closable(w) THEN [w EXCEPT !.status = "completed"] ELSE w
       /\ past' = IF w.status = "active" THEN [past EXCEPT !.seen = @ \cup Told(w)] ELSE past
       /\ UNCHANGED <<file, plan, jobs, limits>>

\* The process of cao done dies.
DiesClosing(c) ==
    /\ closing[c].at # "out" /\ limits.dies /\ Goes(c, "out", 0)
    /\ UNCHANGED <<file, plan, work, jobs, past, limits>>

-----------------------------------------------------------------------------
(* Reopening.                                                              *)

\* reset_requirement, when the file is not the one recorded
Reset(w) ==
    IF file.req = w.req THEN w
    ELSE [w EXCEPT !.req = file.req, !.assess = Nothing, !.spec = Nothing, !.acc = Nothing, !.scope = NoScope,
                   !.known = {}, !.ref = FALSE,
                   !.flow = IF @.status = "none" THEN @ ELSE [NoFlow EXCEPT !.status = "selected"]]

\* anchor_verification, and reanchor_record of a declared acceptance
Reanchored(w) ==
    [Reset(w) EXCEPT !.base = file.config,
                     !.acc = IF @ = Nothing THEN @ ELSE [@ EXCEPT !.anchor = [decl |-> Reset(w).acc.decl, src |-> file.spec]]]

\* Mutant: what was earned is kept.
ClearedKeeping(w) == [w EXCEPT !.gen = @ + 1, !.status = "active", !.ver = IF @ = Nothing THEN @ ELSE [@ EXCEPT !.gen = w.gen + 1]]

\* What was earned is cleared, and a new generation begins.
Cleared(w) ==
    [w EXCEPT !.gen = @ + 1, !.status = "active", !.gate = Nothing, !.ver = Nothing,
              !.acc = IF @ = Nothing THEN @ ELSE [@ EXCEPT !.run = Nothing]]

\* cao reopen, --reanchor
Reopen(reanchor) ==
    LET w == Reconciled(Cleared(IF reanchor THEN Reanchored(work) ELSE work))
    IN /\ work.status = "completed" \/ reanchor
       /\ work.gen < limits.gens
       /\ work' = w
       /\ past' = [past EXCEPT !.seen = IF w.req # work.req THEN Told(w) ELSE @ \cup Told(w),
                               !.agreed = IF reanchor THEN [decl |-> IF w.acc = Nothing THEN Nothing ELSE w.acc.decl, config |-> file.config] ELSE @]
       /\ UNCHANGED <<file, plan, jobs, closing, limits>>

-----------------------------------------------------------------------------
(* Whoever edits the files, and puts them back.                            *)

Edit(f) ==
    /\ f \in limits.edits
    /\ file' = [file EXCEPT ![f] = 1 - @]
    /\ UNCHANGED <<plan, work, jobs, closing, past, limits>>

\* The plan becomes another one; limits.plans bounds how many there are.
EditPlan(p) ==
    /\ p \in limits.plans /\ p # plan
    /\ plan' = p
    /\ UNCHANGED <<file, work, jobs, closing, past, limits>>

\* The output is removed by hand.
RemoveOutput ==
    /\ "out" \in limits.edits /\ file.out # 0
    /\ file' = [file EXCEPT !.out = 0]
    /\ UNCHANGED <<plan, work, jobs, closing, past, limits>>

Asks == {"named", "none", "found"}

\* Only a shared plan leaves a choice of items.
Selections == IF Kind = "sprint" THEN (SUBSET Items) \X BOOLEAN ELSE {<<{}, FALSE>>}

Next ==
    \/ \E unver \in limits.unver : Select(unver)
    \/ \E unver \in limits.unver, exec \in limits.execs : Execute(exec, unver)
    \/ \E unver \in limits.unver, ask \in Asks, sel \in Selections : CompleteFlow(unver, ask, sel[1], sel[2])
    \/ \E ask \in {"named", "none"}, sel \in Selections : PlanBind(ask, sel[1], sel[2])
    \/ \E profile \in limits.profiles, clear \in limits.clear : Assess(profile, clear)
    \/ Look \/ SpecBind \/ ProposeRoute \/ Gate \/ Configure
    \/ VerifyStart \/ AcceptStart \/ \E o \in limits.outcomes : AcceptReuse(o)
    \/ \E j \in jobs : WriteOutput(j) \/ Dies(j)
    \/ \E j \in jobs, o \in limits.outcomes : VerifyFinish(j, o) \/ AcceptFinish(j, o)
    \/ \E c \in Closers : Judge(c) \/ Launch(c) \/ Close(c) \/ DiesClosing(c)
    \/ \E c \in Closers, ok \in BOOLEAN : Ends(c, ok)
    \/ \E k \in 1..Len(work.rows), applied \in BOOLEAN : Resolve(k, applied)
    \/ \E reanchor \in BOOLEAN : Reopen(reanchor)
    \/ \E f \in {"req", "code", "spec", "config"} : Edit(f)
    \/ \E p \in limits.plans : EditPlan(p)
    \/ RemoveOutput

Spec == Init /\ [][Next]_vars

-----------------------------------------------------------------------------
(* Properties.                                                             *)

\* A finished run is its generation's and its declaration's: what was looked at before a
\* reopen or for another standard answers for nothing; the journal has one operation whose
\* effects are not known at most, the last one.
EvidenceSound ==
    /\ TypeOK
    /\ work.ver # Nothing => work.ver.saw.gen = work.gen
    /\ work.acc # Nothing /\ work.acc.run # Nothing =>
          /\ work.acc.run.saw.gen = work.gen
          /\ work.acc.run.saw.decl = work.acc.decl /\ work.acc.anchor # Nothing /\ work.acc.anchor.decl = work.acc.decl
    /\ Unresolved(work) \subseteq {Len(work.rows)}

RunOf(w) == IF w.acc = Nothing THEN Nothing ELSE w.acc.run
Completes == work.status = "active" /\ work'.status = "completed"

\* A Work is completed only when the executor of the accepted run began, after the last
\* reopen, on the code, requirement and SPEC as they are now, under the declaration and
\* configuration that were agreed to by reanchoring, and the native workflow ran for this
\* requirement (light: its SPEC is bound as it is).  One exception: when a verification is
\* reused, its command may have begun on another requirement or SPEC, put back since.
CompletedIsEarned ==
    [][Completes =>
          /\ RunOf(work') # Nothing
          /\ LET run == work'.acc.run IN
                /\ run.saw.code = file.code /\ run.saw.decl = work'.acc.decl /\ run.saw.gen = work'.gen
                /\ run.reused \/ (run.saw.req = file.req /\ run.saw.spec = file.spec)
          /\ past.agreed = Current
          /\ IF Profile(work') = "light" THEN work'.spec = [req |-> file.req, ver |-> file.spec] ELSE file.req \in past.ran]_vars

\* Every task that was once seen in the requirement's plan is there and done when its Work
\* is completed, however the plan was edited, bound or rebound since.
NothingUnfinished ==
    [][Completes => past'.seen = {} \/ (plan # Nothing /\ \A i \in past'.seen : plan[i] = "done")]_vars

\* The provider's command is never started twice at a time, nor again in a generation unless
\* a person found that the earlier one did nothing.
TransitionOnce ==
    /\ Cardinality({c \in Closers : closing[c].at = "running"}) <= 1
    /\ \A k, l \in DOMAIN work.rows :
          k < l /\ work.rows[k].gen = work.rows[l].gen => work.rows[k].status = "not_applied"

\* What the Work's own records say of runs and of commands.
RecordsSound == EvidenceSound /\ TransitionOnce

Over(run) == run # Nothing /\ run.status # "running"

\* A verdict stands until its run is replaced or cleared, and an executor that comes back
\* after its run was replaced changes neither verdict.
LateResultsChangeNothing ==
    [][/\ (Over(work.ver) /\ work'.ver # Nothing /\ work'.ver.id = work.ver.id) => work'.ver = work.ver
       /\ (Over(RunOf(work)) /\ RunOf(work') # Nothing /\ RunOf(work').id = RunOf(work).id) => RunOf(work') = RunOf(work)
       /\ \A j \in jobs \ jobs' :
             /\ (j.kind = "verify" /\ work.ver # Nothing /\ work.ver.id # j.id) => work'.ver = work.ver
             /\ (j.kind = "accept" /\ RunOf(work) # Nothing /\ RunOf(work).id # j.id) => work'.acc = work.acc]_vars

=============================================================================
