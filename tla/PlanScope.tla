------------------------------- MODULE PlanScope -------------------------------
(***************************************************************************)
(* A Work under the first lifecycle contract, bound to a project: which    *)
(* native plan belongs to its requirement, the native workflow record, the *)
(* binding of its SPEC, its path assessment and the manual gate.           *)
(* Acceptance adds the runs, ContractOne the judgement and the closing.    *)
(*                                                                         *)
(* A file is its content's version.  A plan is Nothing (no file) or the    *)
(* state of every item.  limits.kind says where the provider keeps it:     *)
(* "tasks" (tasks.md of OpenSpec and Spec Kit), "sprint" and "stories"     *)
(* (shared by, or written for, one requirement of BMAD), "spec" (the tasks *)
(* in a Direct Build's SPEC).  Every task carries an identity.             *)
(***************************************************************************)
EXTENDS Integers, FiniteSets, Sequences

CONSTANTS
    Items,      \* tasks or stories
    Closers,    \* processes of cao done
    Nothing,
    Limits      \* what one behaviour bounds

\* A plan is no file, or the state of every item.
Plans == {Nothing} \cup [Items -> {"absent", "open", "done"}]

\* What a bound may be: every behaviour has at least one generation and one assessment.
ASSUME PlanAssumption ==
    Limits \subseteq [kind : {"tasks", "sprint", "stories", "spec"}, plan : Plans, plans : SUBSET Plans,
                      prepared : BOOLEAN, profile : {"light", "standard"}, profiles : SUBSET {"light", "standard"},
                      clear : SUBSET BOOLEAN, unver : SUBSET BOOLEAN, execs : SUBSET {"ok", "failed"},
                      edits : SUBSET {"req", "code", "spec", "config", "out"}, outputs : BOOLEAN, shared : BOOLEAN,
                      outcomes : SUBSET {"passed", "failed", "blocked"}, command : BOOLEAN, closers : SUBSET Closers,
                      dies : BOOLEAN, runs : Nat, launches : Nat, gens : Nat \ {0}, revs : Nat \ {0}]

VARIABLES
    file,       \* contents on disk: req, code, spec, config; out is the run that wrote the output, or 0
    plan,
    work,       \* the Work as saved
    jobs,       \* living executors
    closing,    \* where each cao done is
    past,       \* what really happened: items seen, what was agreed to, requirements a workflow ran for
    limits

vars == <<file, plan, work, jobs, closing, past, limits>>

Kind == limits.kind
Profile(w) == IF w.assess = Nothing THEN Nothing ELSE w.assess.profile
Present == IF plan = Nothing THEN {} ELSE {i \in Items : plan[i] # "absent"}

NoScope == [mode |-> "unset", ids |-> {}, epic |-> FALSE, req |-> Nothing]
NoFlow == [status |-> "none", req |-> Nothing, exec |-> Nothing, unver |-> FALSE, excuse |-> FALSE, art |-> Nothing]

PlanTypeOK ==
    /\ file \in [req : 0..1, code : 0..1, spec : 0..1, config : 0..1, out : 0..limits.runs]
    /\ plan \in Plans
    /\ work.scope \in [mode : {"unset", "none", "bound", "unresolved"}, ids : SUBSET Items, epic : BOOLEAN, req : {Nothing, 0, 1}]
    /\ work.known \subseteq Items
    /\ work.flow \in [status : {"none", "selected", "executed", "completed"}, req : {Nothing, 0, 1},
                      exec : {Nothing, "ok", "failed"}, unver : BOOLEAN, excuse : BOOLEAN, art : {Nothing, 0, 1}]
    /\ work.spec \in {Nothing} \cup [req : 0..1, ver : 0..1]
    /\ work.assess \in {Nothing} \cup [profile : {"light", "standard"}, rev : 1..limits.revs, req : 0..1, clear : BOOLEAN]
    /\ work.gate \in {Nothing} \cup [req : 0..1, rev : 1..limits.revs]

-----------------------------------------------------------------------------
(* Observing the plan.  A result is a state and the scope it would save.   *)

Result(state, w, scope, known) ==
    [state |-> state, scope |-> scope, known |-> known,
     items |-> IF state \in {"pending", "done"} THEN [i \in scope.ids \cup known |-> plan[i]] ELSE Nothing]

Unchanged(state, w) == Result(state, w, w.scope, w.known)
Shown(w, scope, known) ==
    Result(IF \E i \in scope.ids \cup known : plan[i] = "open" THEN "pending" ELSE "done", w, scope, known)

OtherRequirement(w) == w.scope.req \notin {Nothing, w.req}

\* Mutant: a task that is gone is not missed.
TasksForgetful(w) ==
    IF OtherRequirement(w) THEN Unchanged("blocked", w)
    ELSE IF w.scope.mode # "bound" /\ ~(w.ref /\ plan # Nothing) THEN Unchanged("none", w)
    ELSE IF Present = {} THEN Unchanged("blocked", w)
    ELSE Shown(w, [mode |-> "bound", ids |-> Present, epic |-> FALSE, req |-> w.req], w.known)

\* provider_verification_plan_state: the tasks of a bound file, or of one beside an artifact.
Tasks(w) ==
    IF OtherRequirement(w) THEN Unchanged("blocked", w)
    ELSE IF w.scope.mode # "bound" /\ ~(w.ref /\ plan # Nothing) THEN Unchanged("none", w)
    ELSE IF Present = {} \/ ~(w.scope.ids \subseteq Present) THEN Unchanged("blocked", w)
    ELSE Shown(w, [mode |-> "bound", ids |-> Present, epic |-> FALSE, req |-> w.req], w.known)

\* bmad_verification_plan_state: a shared sprint counts once items of it are bound; the
\* stories an epic gains are kept even in a blocked answer.
Sprint(w) ==
    LET grown == [w.scope EXCEPT !.ids = @ \cup (IF w.scope.epic THEN Present ELSE {})]
    IN IF w.scope.mode # "bound" THEN Unchanged(IF plan = Nothing THEN "none" ELSE "blocked", w)
       ELSE IF OtherRequirement(w) \/ plan = Nothing THEN Unchanged("blocked", w)
       ELSE IF ~(grown.ids \subseteq Present) \/ Present = {} THEN Result("blocked", w, grown, w.known)
       ELSE Shown(w, grown, w.known)

\* bmad_stories.state: the inventory is found by the route, all of it belongs to the requirement.
Stories(w) ==
    IF plan = Nothing /\ w.scope.mode # "bound" THEN Unchanged("none", w)
    ELSE IF Present = {} \/ ~(w.scope.ids \subseteq Present) THEN Unchanged("blocked", w)
    ELSE Shown(w, [w.scope EXCEPT !.mode = "bound", !.ids = Present], w.known)

\* spec_task_state, once a route of this requirement names the SPEC.
SpecTasks(w) ==
    IF w.route # w.req THEN Unchanged("none", w)
    ELSE IF plan = Nothing \/ ~(w.known \subseteq Present) THEN Unchanged("blocked", w)
    ELSE IF Present = {} THEN Unchanged("none", w)
    ELSE Shown(w, w.scope, Present)

Observe(w) ==
    CASE Kind = "tasks" -> Tasks(w) [] Kind = "sprint" -> Sprint(w)
      [] Kind = "stories" -> Stories(w) [] Kind = "spec" -> SpecTasks(w)

\* Mutant: what a blocked observation found is not saved.
SavedUnlessBlocked(w) ==
    IF Observe(w).state = "blocked" THEN w ELSE [w EXCEPT !.scope = Observe(w).scope, !.known = Observe(w).known]

\* observe_plan_scope
Saved(w) == [w EXCEPT !.scope = Observe(w).scope, !.known = Observe(w).known]

PlanReady(w) == Observe(w).state \in {"none", "done"}

\* establish: a direct build's own SPEC carries its plan.
Established(w) ==
    IF Kind = "spec" /\ w.route # Nothing /\ w.scope.mode # "bound"
    THEN [w EXCEPT !.scope = [NoScope EXCEPT !.mode = "none", !.req = w.req]] ELSE w

\* The part of reconcile_native_sdd_state that a judgement depends on.
Reconciled(w) == Saved(Established(w))

\* The items of the plan that belong to the requirement, as a reader of the file sees them.
Belonging(w) ==
    CASE Kind = "tasks" -> IF w.scope.mode = "bound" \/ w.ref THEN Present ELSE {}
      [] Kind = "sprint" -> IF w.scope.epic THEN Present ELSE Present \cap w.scope.ids
      [] Kind = "stories" -> Present
      [] Kind = "spec" -> IF w.route = w.req THEN Present ELSE {}

\* A blocked answer tells nothing of the rest of the plan, but for the stories of a sprint's epic.
Told(w) == IF Kind # "sprint" /\ Observe(w).state = "blocked" THEN {} ELSE Belonging(w)
Saw(w) == past' = [past EXCEPT !.seen = @ \cup Told(w)]

-----------------------------------------------------------------------------
(* Binding the plan.                                                       *)

Scope(mode, ids, epic) == [mode |-> mode, ids |-> ids, epic |-> epic, req |-> Nothing]
Found(w) == plan # Nothing /\ w.ref /\ Kind # "spec"

\* What the plan's file makes of a selection, Nothing when it refuses it.
BoundTo(w, ids, epic) ==
    CASE Kind = "tasks" -> IF plan = Nothing THEN Nothing ELSE Scope("bound", w.scope.ids, FALSE)
      [] Kind = "sprint" -> IF Present = {} \/ ~(ids \subseteq Present) \/ (ids = {} /\ ~epic) THEN Nothing
                            ELSE Scope("bound", ids \cup (IF epic THEN Present ELSE {}), epic)
      [] Kind = "stories" -> IF Present = {} \/ ~(ids \subseteq Present) THEN Nothing ELSE Scope("bound", Present, FALSE)
      [] OTHER -> Nothing

\* Mutant: the items bound before are replaced by those selected now.
BoundAnew(w, sel, epic) == BoundTo(w, sel, epic)

\* What was bound stays bound.
Bound(w, sel, epic) == BoundTo(w, w.scope.ids \cup sel, w.scope.epic \/ epic)

\* bind_plan_scope, with a plan named, with none claimed, or with what is found.
NewScope(w, ask, sel, epic) ==
    IF ask = "none" THEN IF Found(w) \/ w.scope.mode = "bound" \/ Kind = "stories" THEN Nothing ELSE Scope("none", {}, FALSE)
    ELSE IF ask = "named" \/ w.scope.mode = "bound" THEN Bound(w, sel, epic)
    ELSE IF Found(w) THEN IF Kind = "sprint" THEN Nothing ELSE Bound(w, {}, FALSE)
    ELSE IF w.scope.mode = "none" /\ ~OtherRequirement(w) THEN w.scope ELSE Scope("unresolved", {}, FALSE)

\* cao sdd plan bind
PlanBind(ask, sel, epic) ==
    LET scope == NewScope(work, ask, sel, epic)
        bound == Reconciled([work EXCEPT !.scope = [scope EXCEPT !.req = work.req]])
    IN /\ work.status = "active" /\ scope # Nothing
       /\ work' = bound /\ Saw(bound)
       /\ UNCHANGED <<file, plan, jobs, closing, limits>>

\* Any command that only looks: verify or done refused, sdd sync.
Look ==
    /\ Saved(work) # work
    /\ work' = Saved(work) /\ Saw(work')
    /\ UNCHANGED <<file, plan, jobs, closing, limits>>

-----------------------------------------------------------------------------
(* The native workflow, the SPEC, the assessment and the gate.             *)

OnlyWork == UNCHANGED <<file, plan, jobs, closing, limits>>

\* cao sdd workflow select, execute, complete
Select(unver) ==
    /\ work' = [work EXCEPT !.flow = [NoFlow EXCEPT !.status = "selected", !.req = work.req, !.unver = unver]]
    /\ past' = past /\ OnlyWork

Execute(exec, unver) ==
    /\ work.flow.status # "none"
    /\ work' = [work EXCEPT !.flow = [NoFlow EXCEPT !.status = "executed", !.req = work.req, !.exec = exec,
                                                    !.unver = unver \/ work.flow.unver]]
    /\ past' = [past EXCEPT !.ran = @ \cup {work.req}] /\ OnlyWork

CompleteFlow(unver, ask, sel, epic) ==
    LET flow == work.flow
        scope == NewScope([work EXCEPT !.ref = TRUE], ask, sel, epic)
    IN /\ flow.status # "none" /\ (flow.exec = Nothing => unver)
       /\ (flow.exec # Nothing => flow.req = work.req) /\ (flow.exec = "failed" => unver)
       /\ scope # Nothing /\ scope.mode # "unresolved"
       /\ work' = [work EXCEPT !.scope = scope, !.ref = TRUE,
                      !.flow = [flow EXCEPT !.status = "completed", !.req = work.req, !.art = file.spec,
                                            !.excuse = flow.exec = "failed",
                                            !.unver = @ \/ (unver /\ flow.exec # "failed")]]
       /\ past' = [past EXCEPT !.ran = IF unver THEN @ \cup {work.req} ELSE @]
       /\ OnlyWork

\* workflow_ready
FlowReady(w) ==
    /\ w.flow.status = "completed" /\ w.flow.req = w.req
    /\ w.flow.exec = Nothing => w.flow.unver
    /\ w.flow.exec = "failed" => w.flow.excuse
    /\ w.flow.art = file.spec

\* make_binding
SpecBinding == [req |-> work.req, ver |-> file.spec]

\* cao sdd spec bind, with --replace when it differs
SpecBind ==
    LET bound == Reconciled([work EXCEPT !.spec = SpecBinding, !.ref = TRUE])
    IN /\ work.status = "active" /\ bound # work
       /\ work' = bound /\ Saw(bound) /\ OnlyWork

\* light_spec_state
SpecReady(w) == w.spec = [req |-> w.req, ver |-> file.spec]

\* cao sdd route propose (SpecApproval): only which requirement the route is for matters here.
ProposeRoute ==
    /\ Kind = "spec" /\ work.status = "active" /\ work.route # work.req /\ file.req = work.req /\ plan # Nothing
    /\ work' = Reconciled([work EXCEPT !.route = work.req]) /\ Saw(work') /\ OnlyWork

RouteReady(w) == Kind = "spec" => w.route = w.req /\ plan # Nothing

\* build_path_assessment: the profile is the one its risk flags end in.
Assessment(profile, clear) ==
    [profile |-> profile, rev |-> IF work.assess = Nothing THEN 1 ELSE work.assess.rev + 1, req |-> file.req, clear |-> clear]

\* cao path assess
Assess(profile, clear) ==
    LET new == Assessment(profile, clear)
    IN /\ work.status = "active" /\ file.req = work.req /\ new.rev <= limits.revs
       /\ work' = [work EXCEPT !.assess = new]
       /\ past' = past /\ OnlyWork

\* path_assessment_state
AssessReady(w) ==
    w.assess # Nothing /\ file.req = w.req /\ w.assess.req = w.req /\ w.assess.clear

\* cao gate satisfy, of a manual gate the profile requires
Gate ==
    /\ work.assess # Nothing /\ work.assess.profile # "light"
    /\ work' = [work EXCEPT !.gate = [req |-> work.req, rev |-> work.assess.rev]]
    /\ past' = past /\ OnlyWork

\* gate_state, evidence_matches
GateReady(w) ==
    Profile(w) = "light" \/ (w.assess # Nothing /\ w.gate = [req |-> w.req, rev |-> w.assess.rev])

=============================================================================
