-------------------------- MODULE ContractOneProofs --------------------------
(***************************************************************************)
(* Proofs about a Work under the first contract, for any plans, edits,     *)
(* closers and bounds: whatever is edited, whichever runs die, are         *)
(* replaced or come back late, and however often the Work is reopened, its *)
(* records say what its runs began on, and cao done completes nothing     *)
(* that was not earned or is not finished.                                 *)
(*                                                                         *)
(* The invariant says of every record which inputs it was made from; the   *)
(* completion theorems follow from it and from what Ready asks of the      *)
(* files at the moment of closing.                                         *)
(***************************************************************************)
EXTENDS ContractOne, FiniteSetTheorems, TLAPS

-----------------------------------------------------------------------------
(* The inductive invariant.                                                *)

(* The fields of a Work.                                                   *)
WorkFields == {"status", "gen", "req", "assess", "gate", "base", "flow", "scope", "known", "route", "ref", "spec",
               "ver", "acc", "rows"}

(* What a run's status may be.                                             *)
RunStatuses == Outcomes \cup {"running", "stale"}

(* A row of the completion journal.                                        *)
RowRecord == [gen : Nat, status : {"running", "unknown", "passed", "not_applied"}]

(* Where a cao done is, and the row it launched.                           *)
ClosingRecord == [at : {"out", "judged", "running", "ran"}, row : Nat]

(* What a Work's plan scope may be.                                        *)
Scopes == [mode : {"unset", "none", "bound", "unresolved"}, ids : SUBSET Items, epic : BOOLEAN, req : {Nothing, 0, 1}]

(* What a Work's native workflow may be.                                   *)
Flows == [status : {"none", "selected", "executed", "completed"}, req : {Nothing, 0, 1},
          exec : {Nothing, "ok", "failed"}, unver : BOOLEAN, excuse : BOOLEAN, art : {Nothing, 0, 1}]

(* The files, within the bounds of a run.                                  *)
Files(lim) == [req : 0..1, code : 0..1, spec : 0..1, config : 0..1, out : 0..lim.runs]

(* What a run may have begun on, within the bounds of a run.                *)
Sights(lim) == [code : 0..1, req : 0..1, spec : 0..1, decl : {Nothing} \cup Declaration, gen : 0..lim.gens]

(* The Work has an acceptance.                                             *)
HasAcc(w) == w.acc # Nothing

(* The fields of a Work other than its runs are of their types.            *)
WorkOK(w, lim) ==
    /\ DOMAIN w = WorkFields
    /\ w.status \in {"active", "completed"} /\ w.gen \in 0..lim.gens /\ w.req \in 0..1 /\ w.base \in 0..1
    /\ w.ref \in BOOLEAN /\ w.route \in {Nothing, 0, 1}
    /\ w.scope \in Scopes /\ w.known \subseteq Items /\ w.flow \in Flows
    /\ w.spec \in {Nothing} \cup [req : 0..1, ver : 0..1]
    /\ w.assess \in {Nothing} \cup [profile : {"light", "standard"}, rev : 1..lim.revs, req : 0..1, clear : BOOLEAN]
    /\ w.gate \in {Nothing} \cup [req : 0..1, rev : 1..lim.revs]

(* A verification is of its type, and of the generation it stands beside.  *)
VerShape(v, gen, lim) ==
    /\ DOMAIN v = {"id", "gen", "status", "on", "saw"}
    /\ v.id \in 1..lim.runs /\ v.status \in RunStatuses /\ v.saw \in Sights(lim) /\ v.gen = gen

(* A verification began in the generation it stands for and on the code    *)
(* that is recorded with it; it is numbered, and where the acceptance is   *)
(* anchored it began under the declaration the anchor was made for.        *)
VerOK(w, p, lim) ==
    w.ver # Nothing =>
        /\ VerShape(w.ver, w.gen, lim)
        /\ w.ver.saw.gen = w.gen /\ w.ver.saw.code = w.ver.on.code
        /\ w.ver.id <= p.runs
        /\ HasAcc(w) /\ w.acc.anchor # Nothing =>
              w.ver.saw.decl = w.acc.decl

(* The run of an acceptance is of its type.                                *)
RunShape(r, lim) ==
    /\ DOMAIN r = {"id", "status", "on", "saw", "out", "reused"} /\ r.reused \in BOOLEAN
    /\ r.id \in 1..lim.runs /\ r.status \in RunStatuses /\ r.saw \in Sights(lim) /\ r.out \in 0..lim.runs

(* An acceptance is of its type.                                           *)
AccShape(acc, lim) ==
    /\ DOMAIN acc = {"decl", "anchor", "run", "owned"}
    /\ acc.decl \in Declaration /\ acc.owned \in 0..lim.runs /\ acc.anchor \in {Nothing} \cup Anchors
    /\ acc.run # Nothing => RunShape(acc.run, lim)

(* The run of an acceptance has an anchor under it, is numbered, and began *)
(* in the generation, under the declaration and on the code recorded with  *)
(* it; unless a verification was reused, on its requirement and SPEC too.  *)
RunOK(acc, gen, p) ==
    /\ acc.anchor # Nothing /\ acc.run.id <= p.runs
    /\ acc.run.saw.gen = gen /\ acc.run.saw.decl = acc.decl
    /\ acc.run.saw.code = acc.run.on.tech.code
    /\ acc.run.reused \/ (acc.run.saw.req = acc.run.on.req /\ acc.run.saw.spec = acc.run.on.src)

(* An anchor stands for the acceptance's declaration and for what was last *)
(* agreed; a run stands as RunOK says.                                     *)
AccOK(w, p, lim) ==
    HasAcc(w) =>
        /\ AccShape(w.acc, lim)
        /\ w.acc.anchor # Nothing =>
              /\ w.acc.anchor.decl = w.acc.decl
              /\ p.agreed = [decl |-> w.acc.decl, config |-> w.base]
        /\ w.acc.run # Nothing => RunOK(w.acc, w.gen, p)

(* Of the rows of the journal only the last may be unresolved, and of one  *)
(* generation only the last may have been applied; the row of a cao done   *)
(* exists, it is the last while the command runs, and only one command     *)
(* runs.                                                                   *)
RowsOK(w, cl) ==
    /\ w.rows \in Seq(RowRecord) /\ cl \in [Closers -> ClosingRecord]
    /\ \A k \in DOMAIN w.rows : w.rows[k].gen <= w.gen
    /\ \A k \in DOMAIN w.rows : w.rows[k].status \in {"running", "unknown"} => k = Len(w.rows)
    /\ \A k, l \in DOMAIN w.rows : k < l /\ w.rows[k].gen = w.rows[l].gen => w.rows[k].status = "not_applied"
    /\ \A c \in Closers : cl[c].row <= Len(w.rows)
    /\ \A c \in Closers : cl[c].at = "running" => cl[c].row = Len(w.rows) /\ Len(w.rows) > 0
    /\ \A c, d \in Closers : cl[c].at = "running" /\ cl[d].at = "running" => c = d

(* The plan scope was bound for the Work's requirement, or for none, and   *)
(* names items only where it is bound.                                     *)
Scoped(w) ==
    /\ w.scope.req \in {Nothing, w.req}
    /\ w.scope.mode # "bound" => w.scope.ids = {} /\ ~w.scope.epic

(* The Work still knows the items in seen: they are in its scope or, of a  *)
(* Direct Build, among the tasks it saw in the SPEC that is its route.     *)
Tracks(w, seen, lim) ==
    IF lim.kind = "spec" THEN seen \subseteq w.known /\ (seen = {} \/ w.route = w.req) ELSE seen \subseteq w.scope.ids

(* The Work still knows every item an observation told of.                 *)
PlanOK(w, p, lim) == Scoped(w) /\ Tracks(w, p.seen, lim)

(* A workflow that was executed or completed was so for a requirement that *)
(* was executed.                                                           *)
FlowOK(w, p) == (w.flow.status = "completed" \/ w.flow.exec # Nothing) => w.flow.req \in p.ran

(* Executors run runs that were numbered, of generations that have been.   *)
JobsOK(js, w, p) == \A j \in js : j.kind \in {"verify", "accept"} /\ j.id \in 1..p.runs /\ j.gen \in 0..w.gen

(* What the model remembers is of its type.                                *)
PastOK(p, lim) ==
    p \in [seen : SUBSET Items, ran : SUBSET (0..1), runs : 0..lim.runs,
           agreed : {Nothing} \cup [decl : {Nothing} \cup Declaration, config : 0..1]]

(* The bounds, the files and the plan are of their types.                  *)
FileOK(f, pl, lim) == lim \in Limits /\ f \in Files(lim) /\ pl \in Plans

(* The inductive invariant: types, what each record says about the inputs  *)
(* it was made from, and what the Work still knows of the plan.            *)
IInv ==
    /\ FileOK(file, plan, limits) /\ PastOK(past, limits)
    /\ WorkOK(work, limits) /\ VerOK(work, past, limits) /\ AccOK(work, past, limits)
    /\ RowsOK(work, closing) /\ PlanOK(work, past, limits) /\ FlowOK(work, past) /\ JobsOK(jobs, work, past)

(* e is w but for the fields in F.                                         *)
Same(w, e, F) == DOMAIN e = DOMAIN w /\ \A g \in DOMAIN w \ F : e[g] = w[g]

-----------------------------------------------------------------------------
(* What the bounds and the invariant say.                                  *)

(* What PlanAssumption says of the bounds of a run, field by field.        *)
LEMMA LimitsTyped ==
    ASSUME NEW lim \in Limits
    PROVE  /\ lim.runs \in Nat /\ lim.gens \in Nat \ {0} /\ lim.revs \in Nat \ {0} /\ lim.plan \in Plans /\ lim.plans \subseteq Plans
           /\ lim.kind \in {"tasks", "sprint", "stories", "spec"} /\ lim.profile \in {"light", "standard"}
           /\ lim.prepared \in BOOLEAN /\ lim.outputs \in BOOLEAN /\ lim.unver \subseteq BOOLEAN /\ lim.execs \subseteq {"ok", "failed"}
           /\ lim.outcomes \subseteq Outcomes /\ lim.profiles \subseteq {"light", "standard"} /\ lim.clear \subseteq BOOLEAN
  BY PlanAssumption DEF Outcomes

(* The inductive invariant gives the two invariants that the run checks:   *)
(* the evidence of a Work is of its generation, its declaration and its    *)
(* anchor, and at most one completion command runs, of the only row that   *)
(* is unresolved.                                                          *)
LEMMA InvariantMeans == ASSUME IInv PROVE EvidenceSound /\ TransitionOnce
<1>1. PlanTypeOK
  BY DEF IInv, FileOK, Files, WorkOK, PlanTypeOK, Scopes, Flows
<1>2. RunsTypeOK
  <2>1. work.ver # Nothing =>
          /\ work.ver.id \in 1..limits.runs /\ work.ver.status \in Outcomes \cup {"running", "stale"}
          /\ work.ver.saw \in Sight /\ work.ver.gen = work.gen
    BY DEF IInv, VerOK, VerShape, Sights, Sight, RunStatuses
  <2>2. work.acc # Nothing =>
          /\ work.acc.decl \in Declaration /\ work.acc.owned \in 0..limits.runs
          /\ work.acc.anchor \in {Nothing} \cup Anchors
          /\ work.acc.run # Nothing =>
                /\ work.acc.run.id \in 1..limits.runs /\ work.acc.run.status \in Outcomes \cup {"running", "stale"}
                /\ work.acc.run.saw \in Sight /\ work.acc.run.out \in 0..limits.runs /\ work.acc.run.reused \in BOOLEAN
    BY DEF IInv, AccOK, AccShape, RunShape, HasAcc, Sights, Sight, RunStatuses
  <2> QED
    BY <2>1, <2>2 DEF RunsTypeOK, IInv, PastOK, JobsOK
<1>3. TypeOK
  <2>1. \A k \in DOMAIN work.rows : work.rows[k].gen \in 0..work.gen /\ work.rows[k].status \in {"running", "unknown", "passed", "not_applied"}
    <3> TAKE k \in DOMAIN work.rows
    <3>1. work.rows[k] \in RowRecord /\ work.rows[k].gen <= work.gen /\ work.gen \in Nat
      BY LimitsTyped DEF IInv, RowsOK, WorkOK, FileOK
    <3> QED
      BY <3>1 DEF RowRecord
  <2>2. \A c \in Closers : closing[c].at \in {"out", "judged", "running", "ran"} /\ closing[c].row \in 0..Len(work.rows)
    BY DEF IInv, RowsOK, ClosingRecord
  <2>3. /\ past.seen \subseteq Items /\ past.ran \subseteq 0..1
        /\ past.agreed \in {Nothing} \cup [decl : {Nothing} \cup Declaration, config : 0..1]
    BY DEF IInv, PastOK
  <2> QED
    BY <1>1, <1>2, <2>1, <2>2, <2>3 DEF TypeOK, IInv, WorkOK
<1>4. EvidenceSound
  <2>1. work.ver # Nothing => work.ver.saw.gen = work.gen
    BY DEF IInv, VerOK
  <2>2. work.acc # Nothing /\ work.acc.run # Nothing =>
          /\ work.acc.run.saw.gen = work.gen
          /\ work.acc.run.saw.decl = work.acc.decl /\ work.acc.anchor # Nothing /\ work.acc.anchor.decl = work.acc.decl
    BY DEF IInv, AccOK, RunOK, HasAcc
  <2>3. Unresolved(work) \subseteq {Len(work.rows)}
    BY DEF IInv, RowsOK, Unresolved
  <2> QED
    BY <1>3, <2>1, <2>2, <2>3 DEF EvidenceSound
<1>5. TransitionOnce
  <2> DEFINE Runs == {c \in Closers : closing[c].at = "running"}
  <2>1. Cardinality(Runs) <= 1
    <3>1. CASE Runs = {}
      BY <3>1, FS_EmptySet
    <3>2. ASSUME NEW c \in Runs PROVE Cardinality(Runs) <= 1
      <4>1. Runs = {c}
        BY <3>2 DEF IInv, RowsOK
      <4>2. Cardinality({c}) = 1
        BY FS_Singleton
      <4> QED
        BY <4>1, <4>2
    <3> QED
      BY <3>1, <3>2
  <2> QED
    BY <2>1 DEF TransitionOnce, IInv, RowsOK
<1> QED
  BY <1>4, <1>5

-----------------------------------------------------------------------------
(* Observing the plan.                                                     *)

(* What an observation of w's plan must say, r its result.                 *)
ObservedOK(w, r) ==
    /\ r.scope \in Scopes /\ r.known \subseteq Items
    /\ r.scope.req \in {Nothing, w.req}
    /\ r.scope.mode # "bound" => r.scope.ids = {} /\ ~r.scope.epic
    /\ w.scope.ids \subseteq r.scope.ids /\ w.known \subseteq r.known

(* The items present in the plan are items, and none is present where      *)
(* there is no plan.                                                       *)
LEMMA PresentTyped == ASSUME plan \in Plans PROVE Present \subseteq Items /\ (plan = Nothing => Present = {})
  BY DEF Present

(* The parts of what an observation finds.                                 *)
LEMMA ResultFields ==
    ASSUME NEW w, NEW state, NEW scope, NEW known
    PROVE  /\ Result(state, w, scope, known).state = state
           /\ Result(state, w, scope, known).scope = scope
           /\ Result(state, w, scope, known).known = known
  BY DEF Result

(* Observing the tasks of OpenSpec and Spec Kit: the scope and the known   *)
(* items only grow, what is told is in the scope, a ready plan has every   *)
(* item of the scope done, and observing again changes nothing.            *)
LEMMA TasksObserved ==
    ASSUME plan \in Plans, Kind = "tasks", NEW w, WorkOK(w, limits), Scoped(w)
    PROVE  /\ ObservedOK(w, Tasks(w))
           /\ Told(w) \subseteq Tasks(w).scope.ids
           /\ \A seen : PlanReady(w) /\ seen \subseteq w.scope.ids =>
                  seen = {} \/ (plan # Nothing /\ \A i \in seen : plan[i] = "done")
           /\ \A s : Same(w, s, {"scope", "known"}) /\ s.scope = Tasks(w).scope /\ s.known = Tasks(w).known =>
                  Tasks(s).scope = s.scope /\ Tasks(s).known = s.known
<1>1. Observe(w) = Tasks(w)
  BY DEF Observe
<1>2. ~OtherRequirement(w)
  BY DEF OtherRequirement, Scoped
<1>3. /\ w.scope \in Scopes /\ w.known \subseteq Items /\ w.req \in 0..1 /\ w.ref \in BOOLEAN /\ DOMAIN w = WorkFields
  BY DEF WorkOK
<1> DEFINE grown == [mode |-> "bound", ids |-> Present, epic |-> FALSE, req |-> w.req]
           none == w.scope.mode # "bound" /\ ~(w.ref /\ plan # Nothing)
           blocked == Present = {} \/ ~(w.scope.ids \subseteq Present)
<1>4. CASE none
  <2>1. Tasks(w).state = "none" /\ Tasks(w).scope = w.scope /\ Tasks(w).known = w.known
    BY <1>2, <1>4, ResultFields DEF Tasks, Unchanged
  <2>2. w.scope.ids = {} /\ Told(w) = {}
    BY <1>1, <1>3, <1>4, <2>1, PresentTyped DEF Scoped, Told, Belonging
  <2>3. ASSUME NEW s, Same(w, s, {"scope", "known"}), s.scope = Tasks(w).scope, s.known = Tasks(w).known
        PROVE  Tasks(s).scope = s.scope /\ Tasks(s).known = s.known
    <3>1. s.scope = w.scope /\ s.ref = w.ref /\ s.req = w.req
      BY <1>3, <2>1, <2>3 DEF Same, WorkFields
    <3> QED
      BY <1>2, <1>4, <3>1, ResultFields DEF Tasks, Unchanged, OtherRequirement
  <2> QED
    BY <1>3, <2>1, <2>2, <2>3 DEF ObservedOK, Scoped
<1>5. CASE ~none /\ blocked
  <2>1. Tasks(w).state = "blocked" /\ Tasks(w).scope = w.scope /\ Tasks(w).known = w.known
    BY <1>2, <1>5, ResultFields DEF Tasks, Unchanged
  <2>2. Told(w) = {} /\ ~PlanReady(w)
    BY <1>1, <2>1 DEF Told, PlanReady
  <2>3. ASSUME NEW s, Same(w, s, {"scope", "known"}), s.scope = Tasks(w).scope, s.known = Tasks(w).known
        PROVE  Tasks(s).scope = s.scope /\ Tasks(s).known = s.known
    <3>1. s.scope = w.scope /\ s.ref = w.ref /\ s.req = w.req
      BY <1>3, <2>1, <2>3 DEF Same, WorkFields
    <3> QED
      BY <1>2, <1>5, <3>1, ResultFields DEF Tasks, Unchanged, OtherRequirement
  <2> QED
    BY <1>3, <2>1, <2>2, <2>3 DEF ObservedOK, Scoped
<1>6. CASE ~none /\ ~blocked
  <2>1. Tasks(w) = Shown(w, grown, w.known)
    BY <1>2, <1>6 DEF Tasks
  <2>2. Tasks(w).scope = grown /\ Tasks(w).known = w.known
    BY <2>1, ResultFields DEF Shown
  <2>3. grown \in Scopes
    BY <1>3, PresentTyped DEF Scopes
  <2>4. ObservedOK(w, Tasks(w))
    BY <1>3, <1>6, <2>2, <2>3 DEF ObservedOK
  <2>5. Told(w) \subseteq Present
    BY DEF Told, Belonging
  <2>6. ASSUME NEW seen, PlanReady(w), seen \subseteq w.scope.ids
        PROVE  plan # Nothing /\ \A i \in seen : plan[i] = "done"
    <3>1. \A i \in Present : plan[i] # "open"
      <4>1. Tasks(w).state # "pending"
        BY <1>1, <2>6 DEF PlanReady
      <4>2. Tasks(w).state = IF \E i \in grown.ids \cup w.known : plan[i] = "open" THEN "pending" ELSE "done"
        BY <2>1, ResultFields DEF Shown
      <4> QED
        BY <4>1, <4>2
    <3>2. plan # Nothing
      BY <1>6, PresentTyped
    <3> QED
      BY <1>6, <2>6, <3>1, <3>2 DEF Present, Plans
  <2>7. ASSUME NEW s, Same(w, s, {"scope", "known"}), s.scope = Tasks(w).scope, s.known = Tasks(w).known
        PROVE  Tasks(s).scope = s.scope /\ Tasks(s).known = s.known
    <3>1. s.scope = grown /\ s.known = w.known /\ s.ref = w.ref /\ s.req = w.req
      BY <1>3, <2>2, <2>7 DEF Same, WorkFields
    <3>2. Tasks(s) = Shown(s, grown, s.known)
      BY <1>6, <3>1 DEF Tasks, OtherRequirement
    <3> QED
      BY <3>1, <3>2, ResultFields DEF Shown
  <2>8. Told(w) \subseteq Tasks(w).scope.ids
    BY <2>2, <2>5
  <2> HIDE DEF grown
  <2> QED
    BY <2>4, <2>6, <2>7, <2>8
<1> QED
  BY <1>4, <1>5, <1>6

(* The same of the stories of a shared BMAD sprint.                        *)
LEMMA SprintObserved ==
    ASSUME plan \in Plans, Kind = "sprint", NEW w, WorkOK(w, limits), Scoped(w)
    PROVE  /\ ObservedOK(w, Sprint(w))
           /\ Told(w) \subseteq Sprint(w).scope.ids
           /\ \A seen : PlanReady(w) /\ seen \subseteq w.scope.ids =>
                  seen = {} \/ (plan # Nothing /\ \A i \in seen : plan[i] = "done")
           /\ \A s : Same(w, s, {"scope", "known"}) /\ s.scope = Sprint(w).scope /\ s.known = Sprint(w).known =>
                  Sprint(s).scope = s.scope /\ Sprint(s).known = s.known
<1>1. Observe(w) = Sprint(w)
  BY DEF Observe
<1>2. ~OtherRequirement(w)
  BY DEF OtherRequirement, Scoped
<1>3. /\ w.scope \in Scopes /\ w.known \subseteq Items /\ w.req \in 0..1 /\ w.ref \in BOOLEAN /\ DOMAIN w = WorkFields
  BY DEF WorkOK
<1> DEFINE grown == [w.scope EXCEPT !.ids = @ \cup (IF w.scope.epic THEN Present ELSE {})]
           missing == ~(grown.ids \subseteq Present) \/ Present = {}
<1>4. /\ grown.mode = w.scope.mode /\ grown.epic = w.scope.epic /\ grown.req = w.scope.req
      /\ grown.ids = w.scope.ids \cup (IF w.scope.epic THEN Present ELSE {})
  BY <1>3 DEF Scopes
<1>5. grown \in Scopes
  BY <1>3, PresentTyped DEF Scopes
<1>6. Told(w) \subseteq (IF w.scope.epic THEN Present ELSE w.scope.ids)
  BY DEF Told, Belonging
<1> HIDE DEF grown
<1>7. CASE w.scope.mode # "bound"
  <2>1. Sprint(w).scope = w.scope /\ Sprint(w).known = w.known
    BY <1>7, ResultFields DEF Sprint, Unchanged
  <2>2. w.scope.ids = {} /\ Told(w) = {}
    BY <1>6, <1>7 DEF Scoped
  <2>3. ASSUME NEW s, Same(w, s, {"scope", "known"}), s.scope = Sprint(w).scope, s.known = Sprint(w).known
        PROVE  Sprint(s).scope = s.scope /\ Sprint(s).known = s.known
    BY <1>7, <2>1, <2>3, ResultFields DEF Sprint, Unchanged
  <2> QED
    BY <1>3, <2>1, <2>2, <2>3 DEF ObservedOK, Scoped
<1>8. CASE w.scope.mode = "bound" /\ plan = Nothing
  <2>1. Sprint(w).state = "blocked" /\ Sprint(w).scope = w.scope /\ Sprint(w).known = w.known
    BY <1>8, ResultFields DEF Sprint, Unchanged
  <2>2. Told(w) \subseteq w.scope.ids /\ ~PlanReady(w)
    BY <1>1, <1>6, <1>8, <2>1, PresentTyped DEF PlanReady
  <2>3. ASSUME NEW s, Same(w, s, {"scope", "known"}), s.scope = Sprint(w).scope, s.known = Sprint(w).known
        PROVE  Sprint(s).scope = s.scope /\ Sprint(s).known = s.known
    BY <1>8, <2>1, <2>3, ResultFields DEF Sprint, Unchanged
  <2> QED
    BY <1>3, <1>8, <2>1, <2>2, <2>3 DEF ObservedOK, Scoped
<1>9. CASE w.scope.mode = "bound" /\ plan # Nothing
  <2>1. Sprint(w) = IF missing THEN Result("blocked", w, grown, w.known) ELSE Shown(w, grown, w.known)
    BY <1>2, <1>9 DEF Sprint, grown
  <2>2. Sprint(w).scope = grown /\ Sprint(w).known = w.known
    BY <2>1, ResultFields DEF Shown
  <2>3. ObservedOK(w, Sprint(w))
    BY <1>3, <1>4, <1>5, <1>9, <2>2 DEF ObservedOK, Scoped
  <2>4. Told(w) \subseteq Sprint(w).scope.ids
    BY <1>4, <1>6, <2>2
  <2>5. ASSUME NEW seen, PlanReady(w), seen \subseteq w.scope.ids
        PROVE  plan # Nothing /\ \A i \in seen : plan[i] = "done"
    <3>1. Sprint(w).state \in {"none", "done"}
      BY <1>1, <2>5 DEF PlanReady
    <3>2. ~missing
      BY <2>1, <3>1, ResultFields
    <3>3. \A i \in grown.ids : plan[i] # "open"
      <4>1. Sprint(w).state = IF \E i \in grown.ids \cup w.known : plan[i] = "open" THEN "pending" ELSE "done"
        BY <2>1, <3>2, ResultFields DEF Shown
      <4> QED
        BY <3>1, <4>1
    <3> QED
      BY <1>4, <1>9, <2>5, <3>2, <3>3 DEF Present, Plans
  <2>6. ASSUME NEW s, Same(w, s, {"scope", "known"}), s.scope = Sprint(w).scope, s.known = Sprint(w).known
        PROVE  Sprint(s).scope = s.scope /\ Sprint(s).known = s.known
    <3>1. s.scope = grown /\ s.known = w.known /\ s.req = w.req
      BY <1>3, <2>2, <2>6 DEF Same, WorkFields
    <3>2. [s.scope EXCEPT !.ids = @ \cup (IF s.scope.epic THEN Present ELSE {})] = grown
      BY <1>3, <1>4, <1>5, <3>1 DEF Scopes
    <3>3. ~OtherRequirement(s)
      BY <1>2, <1>4, <3>1 DEF OtherRequirement
    <3>4. Sprint(s) = IF missing THEN Result("blocked", s, grown, s.known) ELSE Shown(s, grown, s.known)
      BY <1>4, <1>9, <3>1, <3>2, <3>3 DEF Sprint
    <3> QED
      BY <3>1, <3>4, ResultFields DEF Shown
  <2> QED
    BY <2>3, <2>4, <2>5, <2>6
<1> QED
  BY <1>7, <1>8, <1>9

(* The same of the stories BMAD wrote for one requirement.                 *)
LEMMA StoriesObserved ==
    ASSUME plan \in Plans, Kind = "stories", NEW w, WorkOK(w, limits), Scoped(w)
    PROVE  /\ ObservedOK(w, Stories(w))
           /\ Told(w) \subseteq Stories(w).scope.ids
           /\ \A seen : PlanReady(w) /\ seen \subseteq w.scope.ids =>
                  seen = {} \/ (plan # Nothing /\ \A i \in seen : plan[i] = "done")
           /\ \A s : Same(w, s, {"scope", "known"}) /\ s.scope = Stories(w).scope /\ s.known = Stories(w).known =>
                  Stories(s).scope = s.scope /\ Stories(s).known = s.known
<1>1. Observe(w) = Stories(w)
  BY DEF Observe
<1>2. /\ w.scope \in Scopes /\ w.known \subseteq Items /\ w.req \in 0..1 /\ DOMAIN w = WorkFields
  BY DEF WorkOK
<1> DEFINE grown == [w.scope EXCEPT !.mode = "bound", !.ids = Present]
           none == plan = Nothing /\ w.scope.mode # "bound"
           blocked == Present = {} \/ ~(w.scope.ids \subseteq Present)
<1>3. /\ grown.mode = "bound" /\ grown.epic = w.scope.epic /\ grown.req = w.scope.req /\ grown.ids = Present
      /\ grown \in Scopes
  BY <1>2, PresentTyped DEF Scopes
<1>4. Told(w) \subseteq Present
  BY DEF Told, Belonging
<1>5. Stories(w) = IF none THEN Unchanged("none", w) ELSE IF blocked THEN Unchanged("blocked", w) ELSE Shown(w, grown, w.known)
  BY DEF Stories
<1>6. ASSUME NEW s, s.scope = w.scope \/ s.scope = grown
      PROVE  Stories(s) = IF plan = Nothing /\ s.scope.mode # "bound" THEN Unchanged("none", s)
                          ELSE IF Present = {} \/ ~(s.scope.ids \subseteq Present) THEN Unchanged("blocked", s)
                          ELSE Shown(s, grown, s.known)
  <2>1. [s.scope EXCEPT !.mode = "bound", !.ids = Present] = grown
    BY <1>2, <1>3, <1>6 DEF Scopes
  <2> QED
    BY <2>1 DEF Stories
<1> HIDE DEF grown
<1>7. CASE none \/ blocked
  <2>1. /\ Stories(w).state \in {"none", "blocked"} /\ (Stories(w).state = "none" => none)
        /\ Stories(w).scope = w.scope /\ Stories(w).known = w.known
    BY <1>5, <1>7, ResultFields DEF Unchanged
  <2>2. Told(w) = {}
    BY <1>1, <1>4, <2>1, PresentTyped DEF Told
  <2>3. PlanReady(w) => w.scope.ids = {}
    BY <1>1, <2>1 DEF Scoped, PlanReady
  <2>4. ASSUME NEW s, Same(w, s, {"scope", "known"}), s.scope = Stories(w).scope, s.known = Stories(w).known
        PROVE  Stories(s).scope = s.scope /\ Stories(s).known = s.known
    BY <1>6, <1>7, <2>1, <2>4, ResultFields DEF Unchanged
  <2> QED
    BY <1>2, <2>1, <2>2, <2>3, <2>4 DEF ObservedOK, Scoped
<1>8. CASE ~none /\ ~blocked
  <2>1. Stories(w).scope = grown /\ Stories(w).known = w.known
    BY <1>5, <1>8, ResultFields DEF Shown
  <2>2. ObservedOK(w, Stories(w))
    BY <1>2, <1>3, <1>8, <2>1 DEF ObservedOK, Scoped
  <2>3. Told(w) \subseteq Stories(w).scope.ids
    BY <1>3, <1>4, <2>1
  <2>4. ASSUME NEW seen, PlanReady(w), seen \subseteq w.scope.ids
        PROVE  plan # Nothing /\ \A i \in seen : plan[i] = "done"
    <3>1. Stories(w).state = IF \E i \in grown.ids \cup w.known : plan[i] = "open" THEN "pending" ELSE "done"
      BY <1>5, <1>8, ResultFields DEF Shown
    <3>2. \A i \in Present : plan[i] # "open"
      BY <1>1, <1>3, <2>4, <3>1 DEF PlanReady
    <3>3. plan # Nothing
      BY <1>8, PresentTyped
    <3> QED
      BY <1>8, <2>4, <3>2, <3>3 DEF Present, Plans
  <2>5. ASSUME NEW s, Same(w, s, {"scope", "known"}), s.scope = Stories(w).scope, s.known = Stories(w).known
        PROVE  Stories(s).scope = s.scope /\ Stories(s).known = s.known
    <3>1. Stories(s) = Shown(s, grown, s.known)
      BY <1>3, <1>6, <1>8, <2>1, <2>5
    <3> QED
      BY <2>1, <2>5, <3>1, ResultFields DEF Shown
  <2> QED
    BY <2>2, <2>3, <2>4, <2>5
<1> QED
  BY <1>7, <1>8

(* The same of the tasks in a Direct Build's SPEC, where the known items   *)
(* take the place of the scope.                                            *)
LEMMA SpecObserved ==
    ASSUME plan \in Plans, Kind = "spec", NEW w, WorkOK(w, limits), Scoped(w)
    PROVE  /\ ObservedOK(w, SpecTasks(w))
           /\ Told(w) \subseteq SpecTasks(w).known /\ (Told(w) = {} \/ w.route = w.req)
           /\ \A seen : PlanReady(w) /\ seen \subseteq w.known /\ (seen = {} \/ w.route = w.req) =>
                  seen = {} \/ (plan # Nothing /\ \A i \in seen : plan[i] = "done")
           /\ \A s : Same(w, s, {"scope", "known"}) /\ s.scope = SpecTasks(w).scope /\ s.known = SpecTasks(w).known =>
                  SpecTasks(s).scope = s.scope /\ SpecTasks(s).known = s.known
<1>1. Observe(w) = SpecTasks(w)
  BY DEF Observe
<1>2. /\ w.scope \in Scopes /\ w.known \subseteq Items /\ DOMAIN w = WorkFields
  BY DEF WorkOK
<1> DEFINE none == w.route # w.req
           blocked == plan = Nothing \/ ~(w.known \subseteq Present)
<1>3. Told(w) \subseteq Present /\ (Told(w) = {} \/ w.route = w.req)
  BY DEF Told, Belonging
<1>4. ASSUME NEW s, Same(w, s, {"scope", "known"})
      PROVE  s.route = w.route /\ s.req = w.req
  BY <1>2, <1>4 DEF Same, WorkFields
<1>5. CASE none \/ blocked
  <2>1. /\ SpecTasks(w).state \in {"none", "blocked"} /\ (SpecTasks(w).state = "none" => none)
        /\ SpecTasks(w).scope = w.scope /\ SpecTasks(w).known = w.known
    BY <1>5, ResultFields DEF SpecTasks, Unchanged
  <2>2. Told(w) = {}
    BY <1>1, <1>3, <2>1 DEF Told
  <2>3. ASSUME NEW s, Same(w, s, {"scope", "known"}), s.scope = SpecTasks(w).scope, s.known = SpecTasks(w).known
        PROVE  SpecTasks(s).scope = s.scope /\ SpecTasks(s).known = s.known
    BY <1>4, <1>5, <2>1, <2>3, ResultFields DEF SpecTasks, Unchanged
  <2> QED
    BY <1>1, <1>2, <2>1, <2>2, <2>3 DEF ObservedOK, Scoped, PlanReady
<1>6. CASE ~none /\ ~blocked /\ Present = {}
  <2>1. SpecTasks(w).scope = w.scope /\ SpecTasks(w).known = w.known
    BY <1>6, ResultFields DEF SpecTasks, Unchanged
  <2>2. Told(w) = {} /\ w.known = {}
    BY <1>3, <1>6
  <2>3. ASSUME NEW s, Same(w, s, {"scope", "known"}), s.scope = SpecTasks(w).scope, s.known = SpecTasks(w).known
        PROVE  SpecTasks(s).scope = s.scope /\ SpecTasks(s).known = s.known
    BY <1>4, <1>6, <2>1, <2>3, ResultFields DEF SpecTasks, Unchanged
  <2> QED
    BY <1>2, <2>1, <2>2, <2>3 DEF ObservedOK, Scoped
<1>7. CASE ~none /\ ~blocked /\ Present # {}
  <2>1. SpecTasks(w) = Shown(w, w.scope, Present)
    BY <1>7 DEF SpecTasks
  <2>2. SpecTasks(w).scope = w.scope /\ SpecTasks(w).known = Present
    BY <2>1, ResultFields DEF Shown
  <2>3. ObservedOK(w, SpecTasks(w))
    BY <1>2, <1>7, <2>2, PresentTyped DEF ObservedOK, Scoped
  <2>4. ASSUME NEW seen, PlanReady(w), seen \subseteq w.known
        PROVE  plan # Nothing /\ \A i \in seen : plan[i] = "done"
    <3>1. SpecTasks(w).state = IF \E i \in w.scope.ids \cup Present : plan[i] = "open" THEN "pending" ELSE "done"
      BY <2>1, ResultFields DEF Shown
    <3>2. \A i \in Present : plan[i] # "open"
      BY <1>1, <2>4, <3>1 DEF PlanReady
    <3> QED
      BY <1>7, <2>4, <3>2 DEF Present, Plans
  <2>5. ASSUME NEW s, Same(w, s, {"scope", "known"}), s.scope = SpecTasks(w).scope, s.known = SpecTasks(w).known
        PROVE  SpecTasks(s).scope = s.scope /\ SpecTasks(s).known = s.known
    <3>1. SpecTasks(s) = Shown(s, s.scope, Present)
      BY <1>4, <1>7, <2>2, <2>5 DEF SpecTasks
    <3> QED
      BY <2>2, <2>5, <3>1, ResultFields DEF Shown
  <2> QED
    BY <1>3, <2>2, <2>3, <2>4, <2>5
<1> QED
  BY <1>5, <1>6, <1>7

(* The same of every kind of plan.                                         *)
LEMMA Watched ==
    ASSUME FileOK(file, plan, limits), NEW w, WorkOK(w, limits), Scoped(w)
    PROVE  /\ ObservedOK(w, Observe(w))
           /\ IF limits.kind = "spec" THEN Told(w) \subseteq Observe(w).known /\ (Told(w) = {} \/ w.route = w.req)
              ELSE Told(w) \subseteq Observe(w).scope.ids
           /\ \A seen : PlanReady(w) /\ Tracks(w, seen, limits) =>
                  seen = {} \/ (plan # Nothing /\ \A i \in seen : plan[i] = "done")
           /\ \A s : Same(w, s, {"scope", "known"}) /\ s.scope = Observe(w).scope /\ s.known = Observe(w).known =>
                  Observe(s).scope = s.scope /\ Observe(s).known = s.known
<1>1. plan \in Plans /\ limits.kind \in {"tasks", "sprint", "stories", "spec"}
  BY LimitsTyped DEF FileOK
<1>2. CASE limits.kind = "tasks"
  BY <1>1, <1>2, TasksObserved DEF Observe, Kind, Tracks
<1>3. CASE limits.kind = "sprint"
  BY <1>1, <1>3, SprintObserved DEF Observe, Kind, Tracks
<1>4. CASE limits.kind = "stories"
  BY <1>1, <1>4, StoriesObserved DEF Observe, Kind, Tracks
<1>5. CASE limits.kind = "spec"
  BY <1>1, <1>5, SpecObserved DEF Observe, Kind, Tracks
<1> QED
  BY <1>1, <1>2, <1>3, <1>4, <1>5

(* A Work that knows two sets of items knows their union.                  *)
LEMMA TracksBoth ==
    ASSUME NEW w, NEW lim, NEW one, NEW two, Tracks(w, one, lim), Tracks(w, two, lim)
    PROVE  Tracks(w, one \cup two, lim)
  BY DEF Tracks

(* A Work with an observation saved is of its type, and knows what it      *)
(* knew.                                                                   *)
LEMMA ObservedSaved ==
    ASSUME NEW w, NEW r, NEW s, NEW seen, NEW lim, WorkOK(w, lim), ObservedOK(w, r), Same(w, s, {"scope", "known"}),
           s.scope = r.scope, s.known = r.known
    PROVE  /\ WorkOK(s, lim) /\ Scoped(s)
           /\ Tracks(w, seen, lim) => Tracks(s, seen, lim)
<1>1. /\ DOMAIN s = WorkFields /\ s.status = w.status /\ s.gen = w.gen /\ s.req = w.req /\ s.base = w.base /\ s.ref = w.ref
      /\ s.route = w.route /\ s.flow = w.flow /\ s.spec = w.spec /\ s.assess = w.assess /\ s.gate = w.gate
  BY DEF Same, WorkOK, WorkFields
<1>2. WorkOK(s, lim)
  BY <1>1 DEF WorkOK, ObservedOK
<1>3. Scoped(s)
  BY <1>1 DEF Scoped, ObservedOK
<1>4. Tracks(w, seen, lim) => Tracks(s, seen, lim)
  BY <1>1 DEF Tracks, ObservedOK
<1> QED
  BY <1>2, <1>3, <1>4

(* Saving its own observation, a Work changes in its scope and known items *)
(* alone, knows what it knew, knows what the observation tells, and would  *)
(* find the same again.                                                    *)
LEMMA SavedWork ==
    ASSUME FileOK(file, plan, limits), NEW w, WorkOK(w, limits), Scoped(w)
    PROVE  /\ Same(w, Saved(w), {"scope", "known"})
           /\ WorkOK(Saved(w), limits) /\ Scoped(Saved(w))
           /\ \A seen : Tracks(w, seen, limits) => Tracks(Saved(w), seen, limits)
           /\ Tracks(Saved(w), Told(w), limits) /\ Told(w) \subseteq Items
           /\ Tracks(Saved(w), Told(Saved(w)), limits) /\ Told(Saved(w)) \subseteq Items
<1> DEFINE s == Saved(w)
<1>1. /\ Same(w, s, {"scope", "known"}) /\ s.scope = Observe(w).scope /\ s.known = Observe(w).known
      /\ s.route = w.route /\ s.req = w.req
  BY DEF Saved, Same, WorkOK, WorkFields
<1> HIDE DEF s
<1>2. ObservedOK(w, Observe(w))
  BY Watched
<1>3. /\ WorkOK(s, limits) /\ Scoped(s)
      /\ \A seen : Tracks(w, seen, limits) => Tracks(s, seen, limits)
  BY <1>1, <1>2, ObservedSaved
<1>4. Tracks(s, Told(w), limits)
  <2>1. IF limits.kind = "spec" THEN Told(w) \subseteq Observe(w).known /\ (Told(w) = {} \/ w.route = w.req)
        ELSE Told(w) \subseteq Observe(w).scope.ids
    BY Watched
  <2> QED
    BY <1>1, <2>1 DEF Tracks
<1>5. Observe(s).scope = s.scope /\ Observe(s).known = s.known
  BY <1>1, Watched
<1>6. Tracks(s, Told(s), limits)
  <2>1. IF limits.kind = "spec" THEN Told(s) \subseteq Observe(s).known /\ (Told(s) = {} \/ s.route = s.req)
        ELSE Told(s) \subseteq Observe(s).scope.ids
    BY <1>3, Watched
  <2> QED
    BY <1>5, <2>1 DEF Tracks
<1>7. Told(w) \subseteq Items /\ Told(s) \subseteq Items
  BY <1>3, <1>4, <1>6 DEF Tracks, WorkOK, Scopes
<1> QED
  BY <1>1, <1>3, <1>4, <1>6, <1>7 DEF s

(* Establishing that a Direct Build has no plan to bind changes the scope  *)
(* alone.                                                                  *)
LEMMA EstablishedWork ==
    ASSUME NEW w, WorkOK(w, limits), Scoped(w)
    PROVE  /\ Same(w, Established(w), {"scope"})
           /\ WorkOK(Established(w), limits) /\ Scoped(Established(w))
           /\ \A seen : Tracks(w, seen, limits) => Tracks(Established(w), seen, limits)
<1> DEFINE scope == [NoScope EXCEPT !.mode = "none", !.req = w.req]
           e == [w EXCEPT !.scope = scope]
<1>1. scope.mode = "none" /\ scope.ids = {} /\ scope.epic = FALSE /\ scope.req = w.req
  BY DEF NoScope
<1>2. scope \in Scopes
  <2>1. w.req \in {Nothing, 0, 1}
    BY DEF WorkOK
  <2>2. NoScope \in Scopes
    BY DEF NoScope, Scopes
  <2> QED
    BY <2>1, <2>2 DEF Scopes
<1>3. /\ Same(w, e, {"scope"}) /\ e.scope = scope /\ DOMAIN e = WorkFields /\ e.status = w.status /\ e.gen = w.gen
      /\ e.req = w.req /\ e.base = w.base /\ e.ref = w.ref /\ e.known = w.known
      /\ e.route = w.route /\ e.flow = w.flow /\ e.spec = w.spec /\ e.assess = w.assess /\ e.gate = w.gate
  BY DEF Same, WorkOK, WorkFields
<1> HIDE DEF e
<1>4. WorkOK(e, limits) /\ Scoped(e)
  BY <1>1, <1>2, <1>3 DEF WorkOK, Scoped
<1>5. Kind = "spec" => \A seen : Tracks(w, seen, limits) => Tracks(e, seen, limits)
  BY <1>3 DEF Tracks, Kind
<1>6. (Established(w) = e /\ Kind = "spec") \/ Established(w) = w
  BY DEF Established, e
<1> QED
  BY <1>3, <1>4, <1>5, <1>6 DEF Same

(* Reconciling a Work with its plan is like saving an observation.         *)
LEMMA ReconciledWork ==
    ASSUME FileOK(file, plan, limits), NEW w, WorkOK(w, limits), Scoped(w)
    PROVE  /\ Same(w, Reconciled(w), {"scope", "known"})
           /\ WorkOK(Reconciled(w), limits) /\ Scoped(Reconciled(w))
           /\ \A seen : Tracks(w, seen, limits) => Tracks(Reconciled(w), seen, limits)
           /\ Tracks(Reconciled(w), Told(Reconciled(w)), limits) /\ Told(Reconciled(w)) \subseteq Items
<1> DEFINE e == Established(w)
<1>1. WorkOK(e, limits) /\ Scoped(e) /\ Same(w, e, {"scope"})
  BY EstablishedWork
<1>2. \A seen : Tracks(w, seen, limits) => Tracks(e, seen, limits)
  BY EstablishedWork
<1> HIDE DEF e
<1>3. Same(e, Saved(e), {"scope", "known"})
  BY <1>1, SavedWork
<1>4. Same(w, Saved(e), {"scope", "known"})
  BY <1>1, <1>3 DEF Same
<1>5. /\ WorkOK(Saved(e), limits) /\ Scoped(Saved(e))
      /\ \A seen : Tracks(w, seen, limits) => Tracks(Saved(e), seen, limits)
      /\ Tracks(Saved(e), Told(Saved(e)), limits) /\ Told(Saved(e)) \subseteq Items
  BY <1>1, <1>2, SavedWork
<1> QED
  BY <1>4, <1>5 DEF Reconciled, e

(* What a new scope must be, beside w.                                     *)
ScopeOK(w, scope) ==
    /\ scope \in Scopes /\ scope.req \in {Nothing, w.req}
    /\ scope.mode # "bound" => scope.ids = {} /\ ~scope.epic
    /\ Kind # "spec" => w.scope.ids \subseteq scope.ids

(* cao sdd plan bind gives a scope of the Work's requirement that drops no *)
(* item bound before.                                                      *)
LEMMA NewScopeOK ==
    ASSUME FileOK(file, plan, limits), NEW w, WorkOK(w, limits), Scoped(w),
           NEW ask, NEW sel \in SUBSET Items, NEW epic \in BOOLEAN, NewScope(w, ask, sel, epic) # Nothing
    PROVE  ScopeOK(w, NewScope(w, ask, sel, epic))
<1>1. Present \subseteq Items
  BY PresentTyped DEF FileOK
<1>2. w.scope \in Scopes
  BY DEF WorkOK
<1>3. ASSUME NEW mode \in {"none", "bound", "unresolved"}, NEW ids \in SUBSET Items, NEW whole \in BOOLEAN,
             mode # "bound" => ids = {} /\ ~whole, Kind # "spec" => w.scope.ids \subseteq ids
      PROVE  ScopeOK(w, Scope(mode, ids, whole))
  BY <1>3 DEF ScopeOK, Scope, Scopes
<1>4. ASSUME NEW s \in SUBSET Items, NEW whole \in BOOLEAN, Bound(w, s, whole) # Nothing
      PROVE  ScopeOK(w, Bound(w, s, whole))
  <2>1. w.scope.ids \in SUBSET Items /\ (w.scope.ids \cup s) \in SUBSET Items
    BY <1>2 DEF Scopes
  <2>2. CASE Kind = "tasks"
    <3>1. Bound(w, s, whole) = Scope("bound", w.scope.ids, FALSE)
      BY <1>4, <2>2 DEF Bound, BoundTo
    <3> QED
      BY <1>3, <2>1, <3>1
  <2>3. CASE Kind = "sprint"
    <3> DEFINE all == (w.scope.ids \cup s) \cup (IF w.scope.epic \/ whole THEN Present ELSE {})
    <3>1. Bound(w, s, whole) = Scope("bound", all, w.scope.epic \/ whole)
      BY <1>4, <2>3 DEF Bound, BoundTo
    <3>2. all \in SUBSET Items /\ w.scope.ids \subseteq all /\ (w.scope.epic \/ whole) \in BOOLEAN
      BY <1>1, <1>2, <2>1 DEF Scopes
    <3> HIDE DEF all
    <3> QED
      BY <1>3, <3>1, <3>2
  <2>4. CASE Kind = "stories"
    <3>1. Bound(w, s, whole) = Scope("bound", Present, FALSE) /\ w.scope.ids \subseteq Present
      BY <1>4, <2>4 DEF Bound, BoundTo
    <3> QED
      BY <1>1, <1>3, <3>1
  <2>5. Kind \in {"tasks", "sprint", "stories"}
    BY <1>4, LimitsTyped DEF Bound, BoundTo, FileOK, Kind
  <2> QED
    BY <2>2, <2>3, <2>4, <2>5
<1>5. w.scope.mode # "bound" => w.scope.ids = {}
  BY DEF Scoped
<1>6. CASE ask = "none"
  <2>1. NewScope(w, ask, sel, epic) = Scope("none", {}, FALSE) /\ w.scope.mode # "bound"
    BY <1>6 DEF NewScope
  <2> QED
    BY <1>3, <1>5, <2>1
<1>7. CASE ask # "none" /\ (ask = "named" \/ w.scope.mode = "bound")
  <2>1. NewScope(w, ask, sel, epic) = Bound(w, sel, epic)
    BY <1>7 DEF NewScope
  <2> QED
    BY <1>4, <2>1
<1>8. CASE ask # "none" /\ ~(ask = "named" \/ w.scope.mode = "bound")
  <2>1. \/ NewScope(w, ask, sel, epic) = Bound(w, {}, FALSE)
        \/ NewScope(w, ask, sel, epic) = w.scope
        \/ NewScope(w, ask, sel, epic) = Scope("unresolved", {}, FALSE)
    BY <1>8 DEF NewScope
  <2>2. ScopeOK(w, w.scope)
    BY <1>2 DEF ScopeOK, Scoped
  <2>3. ScopeOK(w, Scope("unresolved", {}, FALSE))
    BY <1>3, <1>5, <1>8
  <2> QED
    BY <1>4, <2>1, <2>2, <2>3
<1> QED
  BY <1>6, <1>7, <1>8

(* A Work given such a scope knows what it knew.                           *)
LEMMA Rescoped ==
    ASSUME NEW w, NEW e, NEW scope, WorkOK(w, limits), ScopeOK(w, scope), e.scope = scope,
           e.req = w.req, e.known = w.known, e.route = w.route
    PROVE  Scoped(e) /\ \A seen : Tracks(w, seen, limits) => Tracks(e, seen, limits)
  BY DEF ScopeOK, Scoped, Tracks, Kind

-----------------------------------------------------------------------------
(* Frames.                                                                 *)

(* The fields that the plan, the workflow, the assessment and the gate     *)
(* use.                                                                    *)
Outer == {"status", "assess", "gate", "flow", "scope", "known", "route", "ref", "spec"}

(* A change of those fields disturbs neither the runs, nor the journal,    *)
(* nor the executors.                                                      *)
LEMMA Outside ==
    ASSUME IInv, NEW e, NEW q, Same(work, e, Outer), q.runs = past.runs, q.agreed = past.agreed
    PROVE  /\ VerOK(e, q, limits) /\ AccOK(e, q, limits) /\ RowsOK(e, closing) /\ JobsOK(jobs, e, q)
<1>1. DOMAIN work = WorkFields
  BY DEF IInv, WorkOK
<1>2. /\ e.gen = work.gen /\ e.req = work.req /\ e.base = work.base /\ e.ver = work.ver /\ e.acc = work.acc /\ e.rows = work.rows
  BY <1>1 DEF Same, Outer, WorkFields
<1>3. VerOK(e, q, limits)
  BY <1>2 DEF IInv, VerOK, HasAcc
<1>4. AccOK(e, q, limits)
  BY <1>2 DEF IInv, AccOK, RunOK, HasAcc
<1>5. RowsOK(e, closing)
  BY <1>2 DEF IInv, RowsOK
<1>6. JobsOK(jobs, e, q)
  BY <1>2 DEF IInv, JobsOK
<1> QED
  BY <1>3, <1>4, <1>5, <1>6

(* A cao done that leaves its place without launching disturbs no row.     *)
LEMMA NoneRuns ==
    ASSUME NEW w, NEW cl, NEW c \in Closers, NEW at \in {"out", "judged", "ran"}, RowsOK(w, cl)
    PROVE  RowsOK(w, [cl EXCEPT ![c] = [at |-> at, row |-> 0]])
<1> DEFINE new == [cl EXCEPT ![c] = [at |-> at, row |-> 0]]
<1>1. w.rows \in Seq(RowRecord) /\ cl \in [Closers -> ClosingRecord] /\ [at |-> at, row |-> 0] \in ClosingRecord
  BY DEF RowsOK, ClosingRecord
<1>2. /\ new \in [Closers -> ClosingRecord] /\ new[c].at = at /\ new[c].row = 0
      /\ \A d \in Closers \ {c} : new[d] = cl[d]
  BY <1>1
<1> HIDE DEF new
<1>3. \A d \in Closers : new[d].row <= Len(w.rows) /\ (new[d].at = "running" => d # c /\ new[d] = cl[d])
  BY <1>1, <1>2 DEF RowsOK
<1> QED
  BY <1>1, <1>2, <1>3 DEF RowsOK, new

(* A step that changes only those fields keeps the invariant, if the plan  *)
(* is still known and the workflow was executed.                           *)
LEMMA OuterStep ==
    ASSUME IInv, NEW e, Same(work, e, Outer), WorkOK(e, limits), Scoped(e), PastOK(past', limits),
           past'.runs = past.runs, past'.agreed = past.agreed, Tracks(e, past'.seen, limits), FlowOK(e, past'),
           work' = e, UNCHANGED <<file, plan, jobs, limits>>, RowsOK(e, closing')
    PROVE  IInv'
<1>1. VerOK(e, past', limits) /\ AccOK(e, past', limits) /\ JobsOK(jobs, e, past')
  BY Outside
<1>2. PlanOK(e, past', limits)
  BY DEF PlanOK
<1> QED
  BY <1>1, <1>2 DEF IInv

(* So does a step whose observation told of more items.                    *)
LEMMA SeenStep ==
    ASSUME IInv, NEW e, NEW told \in SUBSET Items, Same(work, e, Outer), WorkOK(e, limits), Scoped(e),
           Tracks(e, past.seen, limits), Tracks(e, told, limits), e.flow = work.flow,
           work' = e, past' = [past EXCEPT !.seen = @ \cup told], UNCHANGED <<file, plan, jobs, limits>>, RowsOK(e, closing')
    PROVE  IInv'
<1>1. /\ PastOK(past', limits) /\ past'.seen = past.seen \cup told /\ past'.runs = past.runs /\ past'.agreed = past.agreed
      /\ past'.ran = past.ran
  BY DEF IInv, PastOK
<1>2. Tracks(e, past'.seen, limits)
  BY <1>1, TracksBoth
<1>3. FlowOK(e, past')
  BY <1>1 DEF FlowOK, IInv
<1> QED
  BY <1>1, <1>2, <1>3, OuterStep

(* Two changes in a row change the fields of both.                         *)
LEMMA WiderSame ==
    ASSUME NEW w, NEW e, NEW u, NEW F, NEW G, Same(w, e, F), Same(e, u, G)
    PROVE  Same(w, u, F \cup G)
  BY DEF Same

(* The parts of the invariant that most steps start from.                  *)
LEMMA InvariantFacts ==
    ASSUME IInv
    PROVE  /\ FileOK(file, plan, limits) /\ WorkOK(work, limits) /\ Scoped(work) /\ Tracks(work, past.seen, limits)
           /\ RowsOK(work, closing) /\ DOMAIN work = WorkFields
  BY DEF IInv, PlanOK, WorkOK

(* A step that saves the Work's observation keeps the invariant.           *)
LEMMA SavedStep ==
    ASSUME IInv, work' = Saved(work), past' = [past EXCEPT !.seen = @ \cup Told(Saved(work))],
           UNCHANGED <<file, plan, jobs, limits>>, RowsOK(Saved(work), closing')
    PROVE  IInv'
<1> DEFINE s == Saved(work)
           told == Told(s)
<1>1. /\ Same(work, s, {"scope", "known"}) /\ WorkOK(s, limits) /\ Scoped(s) /\ Tracks(s, past.seen, limits)
      /\ Tracks(s, told, limits) /\ told \in SUBSET Items
  BY InvariantFacts, SavedWork
<1> HIDE DEF s, told
<1>2. Same(work, s, Outer) /\ s.flow = work.flow
  BY <1>1, InvariantFacts DEF Same, Outer, WorkFields
<1> QED
  BY <1>1, <1>2, SeenStep DEF s, told

(* Saving an observation disturbs no row.                                  *)
LEMMA SavedRows == ASSUME IInv PROVE RowsOK(Saved(work), closing)
<1>1. Same(work, Saved(work), {"scope", "known"})
  BY InvariantFacts, SavedWork
<1>2. Same(work, Saved(work), Outer)
  BY <1>1 DEF Same, Outer
<1> QED
  BY <1>2, Outside

(* A step that changes the outer fields and then reconciles the Work with  *)
(* its plan keeps the invariant.                                           *)
LEMMA ReconciledStep ==
    ASSUME IInv, NEW e, Same(work, e, Outer), WorkOK(e, limits), Scoped(e), Tracks(e, past.seen, limits), e.flow = work.flow,
           work' = Reconciled(e), past' = [past EXCEPT !.seen = @ \cup Told(Reconciled(e))],
           UNCHANGED <<file, plan, jobs, closing, limits>>
    PROVE  IInv'
<1> DEFINE s == Reconciled(e)
           told == Told(s)
<1>1. /\ Same(e, s, {"scope", "known"}) /\ WorkOK(s, limits) /\ Scoped(s) /\ Tracks(s, past.seen, limits)
      /\ Tracks(s, told, limits) /\ told \in SUBSET Items
  BY InvariantFacts, ReconciledWork
<1> HIDE DEF s, told
<1>2. Same(work, s, Outer) /\ s.flow = work.flow
  BY <1>1, InvariantFacts DEF Same, Outer, WorkFields
<1>3. RowsOK(s, closing)
  BY <1>2, Outside
<1> QED
  BY <1>1, <1>2, <1>3, SeenStep DEF s, told

(* Assigning one field of a Work.                                          *)
LEMMA OneField ==
    ASSUME NEW w, DOMAIN w = WorkFields, NEW f \in WorkFields, NEW x
    PROVE  /\ Same(w, [w EXCEPT ![f] = x], {f}) /\ [w EXCEPT ![f] = x][f] = x
           /\ DOMAIN [w EXCEPT ![f] = x] = WorkFields
  BY DEF Same

-----------------------------------------------------------------------------
(* The actions on the plan, the workflow, the assessment and the gate.     *)

(* A command that only looks keeps the invariant.                          *)
LEMMA LookStep == ASSUME IInv, Look PROVE IInv'
  BY SavedRows, SavedStep DEF Look, Saw

(* cao sdd plan bind keeps the invariant.                                  *)
LEMMA PlanBindStep ==
    ASSUME IInv, NEW ask, NEW sel \in SUBSET Items, NEW epic \in BOOLEAN, PlanBind(ask, sel, epic)
    PROVE  IInv'
<1> DEFINE new == NewScope(work, ask, sel, epic)
           scope == [new EXCEPT !.req = work.req]
           e == [work EXCEPT !.scope = scope]
<1>1. ScopeOK(work, new) /\ work.req \in {Nothing, 0, 1}
  BY InvariantFacts, NewScopeOK DEF PlanBind, WorkOK
<1>2. work' = Reconciled(e) /\ past' = [past EXCEPT !.seen = @ \cup Told(Reconciled(e))]
      /\ UNCHANGED <<file, plan, jobs, closing, limits>>
  BY DEF PlanBind, Saw
<1> HIDE DEF new
<1>3. ScopeOK(work, scope)
  BY <1>1 DEF ScopeOK, Scopes
<1> HIDE DEF scope
<1>4. /\ Same(work, e, {"scope"}) /\ e.scope = scope /\ DOMAIN e = WorkFields /\ e.status = work.status /\ e.gen = work.gen
      /\ e.req = work.req /\ e.base = work.base /\ e.ref = work.ref /\ e.known = work.known
      /\ e.route = work.route /\ e.flow = work.flow /\ e.spec = work.spec /\ e.assess = work.assess /\ e.gate = work.gate
  BY InvariantFacts DEF Same, WorkFields
<1> HIDE DEF e
<1>5. WorkOK(e, limits) /\ Same(work, e, Outer)
  BY <1>3, <1>4, InvariantFacts DEF WorkOK, ScopeOK, Same, Outer
<1>6. Scoped(e) /\ Tracks(e, past.seen, limits)
  BY <1>3, <1>4, InvariantFacts, Rescoped
<1> QED
  BY <1>2, <1>4, <1>5, <1>6, ReconciledStep

(* cao sdd spec bind keeps the invariant.                                  *)
LEMMA SpecBindStep == ASSUME IInv, SpecBind PROVE IInv'
<1> DEFINE e == [work EXCEPT !.spec = SpecBinding, !.ref = TRUE]
<1>1. work' = Reconciled(e) /\ past' = [past EXCEPT !.seen = @ \cup Told(Reconciled(e))]
      /\ UNCHANGED <<file, plan, jobs, closing, limits>>
  BY DEF SpecBind, Saw, OnlyWork
<1>2. SpecBinding \in [req : 0..1, ver : 0..1]
  BY InvariantFacts DEF SpecBinding, WorkOK, FileOK, Files
<1> HIDE DEF SpecBinding
<1>3. /\ e.spec = SpecBinding /\ e.ref = TRUE /\ DOMAIN e = WorkFields /\ e.status = work.status /\ e.gen = work.gen
      /\ e.req = work.req /\ e.base = work.base /\ e.known = work.known /\ e.scope = work.scope
      /\ e.route = work.route /\ e.flow = work.flow /\ e.assess = work.assess /\ e.gate = work.gate
      /\ e.ver = work.ver /\ e.acc = work.acc /\ e.rows = work.rows
  BY InvariantFacts DEF WorkFields
<1> HIDE DEF e
<1>4. WorkOK(e, limits) /\ Same(work, e, Outer)
  BY <1>2, <1>3, InvariantFacts DEF WorkOK, Same, Outer, WorkFields
<1>5. Scoped(e) /\ Tracks(e, past.seen, limits)
  BY <1>3, InvariantFacts DEF Scoped, Tracks
<1> QED
  BY <1>1, <1>3, <1>4, <1>5, ReconciledStep

(* cao sdd route propose keeps the invariant: it tells of no items of      *)
(* another requirement's SPEC.                                             *)
LEMMA ProposeRouteStep == ASSUME IInv, ProposeRoute PROVE IInv'
<1> DEFINE e == [work EXCEPT !.route = work.req]
<1>1. work' = Reconciled(e) /\ past' = [past EXCEPT !.seen = @ \cup Told(Reconciled(e))]
      /\ UNCHANGED <<file, plan, jobs, closing, limits>> /\ limits.kind = "spec"
  BY DEF ProposeRoute, Saw, OnlyWork, Kind
<1>2. /\ e.route = work.req /\ DOMAIN e = WorkFields /\ e.status = work.status /\ e.gen = work.gen
      /\ e.req = work.req /\ e.base = work.base /\ e.known = work.known /\ e.scope = work.scope /\ e.ref = work.ref
      /\ e.spec = work.spec /\ e.flow = work.flow /\ e.assess = work.assess /\ e.gate = work.gate
      /\ e.ver = work.ver /\ e.acc = work.acc /\ e.rows = work.rows
  BY InvariantFacts DEF WorkFields
<1> HIDE DEF e
<1>3. WorkOK(e, limits) /\ Same(work, e, Outer)
  BY <1>2, InvariantFacts DEF WorkOK, Same, Outer, WorkFields
<1>4. Scoped(e) /\ Tracks(e, past.seen, limits)
  BY <1>1, <1>2, InvariantFacts DEF Scoped, Tracks
<1> QED
  BY <1>1, <1>2, <1>3, <1>4, ReconciledStep

(* A step that changes only the workflow keeps the invariant, if what was  *)
(* executed was so for a requirement that was executed.                    *)
LEMMA FlowStep ==
    ASSUME IInv, NEW f \in Flows, NEW ran \in SUBSET (0..1), work' = [work EXCEPT !.flow = f], past' = [past EXCEPT !.ran = ran],
           f.status = "completed" \/ f.exec # Nothing => f.req \in ran,
           UNCHANGED <<file, plan, jobs, closing, limits>>
    PROVE  IInv'
<1> DEFINE e == [work EXCEPT !.flow = f]
<1>1. /\ e.flow = f /\ DOMAIN e = WorkFields /\ e.status = work.status /\ e.gen = work.gen
      /\ e.req = work.req /\ e.base = work.base /\ e.known = work.known /\ e.scope = work.scope /\ e.ref = work.ref
      /\ e.route = work.route /\ e.spec = work.spec /\ e.assess = work.assess /\ e.gate = work.gate
      /\ e.ver = work.ver /\ e.acc = work.acc /\ e.rows = work.rows
  BY InvariantFacts DEF WorkFields
<1>2. work' = e
  OBVIOUS
<1> HIDE DEF e
<1>3. WorkOK(e, limits) /\ Same(work, e, Outer)
  BY <1>1, InvariantFacts DEF WorkOK, Same, Outer, WorkFields
<1>4. /\ PastOK(past', limits) /\ past'.seen = past.seen /\ past'.runs = past.runs /\ past'.agreed = past.agreed /\ past'.ran = ran
  BY DEF IInv, PastOK
<1>5. Scoped(e) /\ Tracks(e, past'.seen, limits) /\ FlowOK(e, past')
  BY <1>1, <1>4, InvariantFacts DEF Scoped, Tracks, FlowOK
<1>6. RowsOK(e, closing')
  BY <1>3, <1>4, Outside
<1> QED
  BY <1>2, <1>3, <1>4, <1>5, <1>6, OuterStep

(* Selecting a workflow keeps the invariant.                               *)
LEMMA SelectStep == ASSUME IInv, NEW unver \in BOOLEAN, Select(unver) PROVE IInv'
<1> DEFINE f == [NoFlow EXCEPT !.status = "selected", !.req = work.req, !.unver = unver]
<1>1. work.req \in {Nothing, 0, 1} /\ NoFlow \in Flows /\ past.ran \subseteq 0..1
  BY DEF IInv, WorkOK, PastOK, NoFlow, Flows
<1>2. f \in Flows
  BY <1>1 DEF Flows
<1>3. f.status = "selected" /\ f.exec = Nothing
  BY DEF NoFlow
<1>4. past' = [past EXCEPT !.ran = past.ran]
  BY DEF Select, IInv, PastOK
<1>5. work' = [work EXCEPT !.flow = f] /\ UNCHANGED <<file, plan, jobs, closing, limits>>
  BY DEF Select, OnlyWork
<1> HIDE DEF f
<1> QED
  BY <1>1, <1>2, <1>3, <1>4, <1>5, FlowStep

(* Executing a workflow keeps the invariant.                               *)
LEMMA ExecuteStep == ASSUME IInv, NEW exec \in {"ok", "failed"}, NEW unver \in BOOLEAN, Execute(exec, unver) PROVE IInv'
<1> DEFINE f == [NoFlow EXCEPT !.status = "executed", !.req = work.req, !.exec = exec, !.unver = unver \/ work.flow.unver]
           ran == past.ran \cup {work.req}
<1>1. work.req \in {Nothing, 0, 1} /\ work.req \in 0..1 /\ NoFlow \in Flows /\ ran \subseteq 0..1 /\ work.flow \in Flows
  BY DEF IInv, WorkOK, PastOK, NoFlow, Flows
<1>2. f \in Flows
  <2>1. (unver \/ work.flow.unver) \in BOOLEAN
    OBVIOUS
  <2> QED
    BY <1>1, <2>1 DEF Flows
<1>3. f.req \in ran
  BY DEF NoFlow
<1>4. past' = [past EXCEPT !.ran = ran]
  BY DEF Execute
<1>5. work' = [work EXCEPT !.flow = f] /\ UNCHANGED <<file, plan, jobs, closing, limits>>
  BY DEF Execute, OnlyWork
<1> HIDE DEF f, ran
<1> QED
  BY <1>1, <1>2, <1>3, <1>4, <1>5, FlowStep

(* Completing a workflow, with or without a plan scope, keeps the          *)
(* invariant.                                                              *)
LEMMA CompleteFlowStep ==
    ASSUME IInv, NEW unver \in BOOLEAN, NEW ask, NEW sel \in SUBSET Items, NEW epic \in BOOLEAN, CompleteFlow(unver, ask, sel, epic)
    PROVE  IInv'
<1> DEFINE named == [work EXCEPT !.ref = TRUE]
           new == NewScope(named, ask, sel, epic)
           f == [work.flow EXCEPT !.status = "completed", !.req = work.req, !.art = file.spec,
                                  !.excuse = work.flow.exec = "failed",
                                  !.unver = @ \/ (unver /\ work.flow.exec # "failed")]
           e == [work EXCEPT !.scope = new, !.ref = TRUE, !.flow = f]
           ran == IF unver THEN past.ran \cup {work.req} ELSE past.ran
<1>1. /\ work.req \in 0..1 /\ work.req \in {Nothing, 0, 1} /\ work.flow \in Flows /\ past.ran \subseteq 0..1
      /\ file.spec \in {Nothing, 0, 1}
  BY DEF IInv, WorkOK, PastOK, FileOK, Files
<1>2. /\ named.ref = TRUE /\ DOMAIN named = WorkFields /\ named.status = work.status /\ named.gen = work.gen
      /\ named.req = work.req /\ named.base = work.base /\ named.known = work.known /\ named.scope = work.scope
      /\ named.route = work.route /\ named.flow = work.flow /\ named.spec = work.spec /\ named.assess = work.assess
      /\ named.gate = work.gate
  BY InvariantFacts DEF WorkFields
<1>3. /\ new # Nothing /\ (work.flow.exec = Nothing => unver) /\ (work.flow.exec # Nothing => work.flow.req = work.req)
      /\ work' = e /\ past' = [past EXCEPT !.ran = ran] /\ UNCHANGED <<file, plan, jobs, closing, limits>>
  BY DEF CompleteFlow, OnlyWork
<1> HIDE DEF named
<1>4. WorkOK(named, limits) /\ Scoped(named)
  BY <1>2, InvariantFacts DEF WorkOK, Scoped
<1>5. ScopeOK(named, new)
  BY <1>3, <1>4, InvariantFacts, NewScopeOK
<1> HIDE DEF new
<1>6. ScopeOK(work, new)
  BY <1>2, <1>5 DEF ScopeOK
<1>7. f \in Flows /\ f.status = "completed" /\ f.req = work.req
  <2>1. (work.flow.unver \/ (unver /\ work.flow.exec # "failed")) \in BOOLEAN /\ (work.flow.exec = "failed") \in BOOLEAN
    BY <1>1 DEF Flows
  <2> QED
    BY <1>1, <2>1 DEF Flows
<1>8. work.req \in ran /\ ran \subseteq 0..1
  BY <1>1, <1>3, InvariantFacts DEF IInv, FlowOK
<1> HIDE DEF f, ran
<1>9. /\ e.scope = new /\ e.ref = TRUE /\ e.flow = f /\ DOMAIN e = WorkFields /\ e.status = work.status /\ e.gen = work.gen
      /\ e.req = work.req /\ e.base = work.base /\ e.known = work.known
      /\ e.route = work.route /\ e.spec = work.spec /\ e.assess = work.assess /\ e.gate = work.gate
      /\ e.ver = work.ver /\ e.acc = work.acc /\ e.rows = work.rows
  BY InvariantFacts DEF WorkFields
<1> HIDE DEF e
<1>10. WorkOK(e, limits) /\ Same(work, e, Outer)
  BY <1>6, <1>7, <1>9, InvariantFacts DEF WorkOK, ScopeOK, Same, Outer, WorkFields
<1>11. /\ PastOK(past', limits) /\ past'.seen = past.seen /\ past'.runs = past.runs /\ past'.agreed = past.agreed /\ past'.ran = ran
  BY <1>3, <1>8 DEF IInv, PastOK
<1>12. Scoped(e) /\ Tracks(e, past'.seen, limits)
  BY <1>6, <1>9, <1>11, InvariantFacts, Rescoped
<1>13. FlowOK(e, past')
  BY <1>7, <1>8, <1>9, <1>11 DEF FlowOK
<1>14. RowsOK(e, closing')
  BY <1>3, <1>10, <1>11, Outside
<1> QED
  BY <1>3, <1>10, <1>11, <1>12, <1>13, <1>14, OuterStep

(* Assessing a Work keeps the invariant.                                   *)
LEMMA AssessStep ==
    ASSUME IInv, NEW profile \in {"light", "standard"}, NEW clear \in BOOLEAN, Assess(profile, clear)
    PROVE  IInv'
<1> DEFINE new == Assessment(profile, clear)
           e == [work EXCEPT !.assess = new]
<1>1. work' = e /\ past' = past /\ UNCHANGED <<file, plan, jobs, closing, limits>> /\ new.rev <= limits.revs
  BY DEF Assess, OnlyWork
<1>2. new \in [profile : {"light", "standard"}, rev : 1..limits.revs, req : 0..1, clear : BOOLEAN]
  <2>1. file.req \in 0..1
    BY InvariantFacts DEF FileOK, Files
  <2>2. (IF work.assess = Nothing THEN 1 ELSE work.assess.rev + 1) \in 1..limits.revs
    BY <1>1, InvariantFacts, LimitsTyped DEF WorkOK, FileOK, Assessment
  <2> QED
    BY <2>1, <2>2 DEF Assessment
<1> HIDE DEF new
<1>3. /\ e.assess = new /\ DOMAIN e = WorkFields /\ e.status = work.status /\ e.gen = work.gen
      /\ e.req = work.req /\ e.base = work.base /\ e.known = work.known /\ e.scope = work.scope /\ e.ref = work.ref
      /\ e.route = work.route /\ e.spec = work.spec /\ e.flow = work.flow /\ e.gate = work.gate
      /\ e.ver = work.ver /\ e.acc = work.acc /\ e.rows = work.rows
  BY InvariantFacts DEF WorkFields
<1> HIDE DEF e
<1>4. WorkOK(e, limits) /\ Same(work, e, Outer)
  BY <1>2, <1>3, InvariantFacts DEF WorkOK, Same, Outer, WorkFields
<1>5. /\ PastOK(past', limits) /\ past'.runs = past.runs /\ past'.agreed = past.agreed
      /\ Scoped(e) /\ Tracks(e, past'.seen, limits) /\ FlowOK(e, past')
  BY <1>1, <1>3, InvariantFacts DEF IInv, Scoped, Tracks, FlowOK
<1>6. RowsOK(e, closing')
  BY <1>1, <1>4, <1>5, Outside
<1> QED
  BY <1>1, <1>4, <1>5, <1>6, OuterStep

(* Approving an assessment keeps the invariant.                            *)
LEMMA GateStep == ASSUME IInv, Gate PROVE IInv'
<1> DEFINE new == [req |-> work.req, rev |-> work.assess.rev]
           e == [work EXCEPT !.gate = new]
<1>1. work' = e /\ past' = past /\ UNCHANGED <<file, plan, jobs, closing, limits>>
  BY DEF Gate, OnlyWork
<1>2. new \in [req : 0..1, rev : 1..limits.revs]
  BY InvariantFacts DEF WorkOK, Gate
<1> HIDE DEF new
<1>3. /\ e.gate = new /\ DOMAIN e = WorkFields /\ e.status = work.status /\ e.gen = work.gen
      /\ e.req = work.req /\ e.base = work.base /\ e.known = work.known /\ e.scope = work.scope /\ e.ref = work.ref
      /\ e.route = work.route /\ e.spec = work.spec /\ e.flow = work.flow /\ e.assess = work.assess
      /\ e.ver = work.ver /\ e.acc = work.acc /\ e.rows = work.rows
  BY InvariantFacts DEF WorkFields
<1> HIDE DEF e
<1>4. WorkOK(e, limits) /\ Same(work, e, Outer)
  BY <1>2, <1>3, InvariantFacts DEF WorkOK, Same, Outer, WorkFields
<1>5. /\ PastOK(past', limits) /\ past'.runs = past.runs /\ past'.agreed = past.agreed
      /\ Scoped(e) /\ Tracks(e, past'.seen, limits) /\ FlowOK(e, past')
  BY <1>1, <1>3, InvariantFacts DEF IInv, Scoped, Tracks, FlowOK
<1>6. RowsOK(e, closing')
  BY <1>1, <1>4, <1>5, Outside
<1> QED
  BY <1>1, <1>4, <1>5, <1>6, OuterStep

-----------------------------------------------------------------------------
(* Steps that leave the Work alone.                                        *)

(* A step that leaves the Work and the bounds alone keeps the invariant,   *)
(* if the executors and commands that remain were there before.            *)
LEMMA WorkStays ==
    ASSUME IInv, UNCHANGED <<work, past, limits>>, FileOK(file', plan', limits), jobs' \subseteq jobs, RowsOK(work, closing')
    PROVE  IInv'
<1>1. JobsOK(jobs', work, past)
  BY DEF IInv, JobsOK
<1> QED
  BY <1>1 DEF IInv

(* An executor that writes its output keeps the invariant.                 *)
LEMMA WriteOutputStep == ASSUME IInv, NEW j \in jobs, WriteOutput(j) PROVE IInv'
<1>1. j.id \in 0..limits.runs
  <2>1. j.id \in 1..past.runs /\ past.runs \in 0..limits.runs /\ limits.runs \in Nat
    BY LimitsTyped DEF IInv, JobsOK, PastOK, FileOK
  <2> QED
    BY <2>1
<1>2. /\ file' = [file EXCEPT !.out = j.id] /\ UNCHANGED <<plan, work, jobs, closing, past, limits>>
      /\ file \in Files(limits) /\ RowsOK(work, closing)
  BY DEF WriteOutput, IInv, FileOK
<1>3. file' \in Files(limits)
  BY <1>1, <1>2 DEF Files
<1> QED
  BY <1>2, <1>3, InvariantFacts, WorkStays DEF FileOK

(* An executor that dies keeps the invariant.                              *)
LEMMA DiesStep == ASSUME IInv, NEW j \in jobs, Dies(j) PROVE IInv'
  BY InvariantFacts, WorkStays DEF Dies

(* An edit of a file, or putting it back, keeps the invariant.             *)
LEMMA EditStep == ASSUME IInv, NEW f \in {"req", "code", "spec", "config"}, Edit(f) PROVE IInv'
<1>1. /\ file' = [file EXCEPT ![f] = 1 - @] /\ UNCHANGED <<plan, work, jobs, closing, past, limits>>
      /\ file \in Files(limits)
  BY DEF Edit, IInv, FileOK
<1>2. file' \in Files(limits)
  BY <1>1 DEF Files
<1> QED
  BY <1>1, <1>2, InvariantFacts, WorkStays DEF FileOK

(* An edit of the plan keeps the invariant: the Work goes on knowing items *)
(* that the plan no longer has.                                            *)
LEMMA EditPlanStep == ASSUME IInv, NEW p \in limits.plans, EditPlan(p) PROVE IInv'
<1>1. p \in Plans
  BY InvariantFacts, LimitsTyped DEF FileOK
<1> QED
  BY <1>1, InvariantFacts, WorkStays DEF EditPlan, FileOK

(* Removing an output keeps the invariant.                                 *)
LEMMA RemoveOutputStep == ASSUME IInv, RemoveOutput PROVE IInv'
<1>1. limits.runs \in Nat
  BY LimitsTyped, InvariantFacts DEF FileOK
<1>2. /\ file' = [file EXCEPT !.out = 0] /\ UNCHANGED <<plan, work, jobs, closing, past, limits>>
      /\ file \in Files(limits)
  BY DEF RemoveOutput, IInv, FileOK
<1>3. file' \in Files(limits)
  BY <1>1, <1>2 DEF Files
<1> QED
  BY <1>2, <1>3, InvariantFacts, WorkStays DEF FileOK

(* A cao done that dies keeps the invariant; its row stays unresolved.     *)
LEMMA DiesClosingStep == ASSUME IInv, NEW c \in Closers, DiesClosing(c) PROVE IInv'
<1>1. RowsOK(work, closing')
  BY InvariantFacts, NoneRuns DEF DiesClosing, Goes
<1> QED
  BY <1>1, InvariantFacts, WorkStays DEF DiesClosing

-----------------------------------------------------------------------------
(* cao done.                                                               *)

(* A cao done that judges the Work keeps the invariant.                    *)
LEMMA JudgeStep == ASSUME IInv, NEW c \in Closers, Judge(c) PROVE IInv'
<1>1. RowsOK(Saved(work), closing')
  BY SavedRows, NoneRuns DEF Judge, Goes
<1> QED
  BY <1>1, SavedStep DEF Judge, Saw

(* A step that changes only the rows, and who runs the command, keeps the  *)
(* invariant if it keeps RowsOK.                                           *)
LEMMA RowsStep ==
    ASSUME IInv, NEW rows, work' = [work EXCEPT !.rows = rows], RowsOK(work', closing'), UNCHANGED <<file, plan, jobs, past, limits>>
    PROVE  IInv'
<1> DEFINE e == [work EXCEPT !.rows = rows]
<1>1. /\ DOMAIN e = WorkFields /\ e.status = work.status /\ e.gen = work.gen
      /\ e.req = work.req /\ e.base = work.base /\ e.known = work.known /\ e.scope = work.scope /\ e.ref = work.ref
      /\ e.route = work.route /\ e.spec = work.spec /\ e.flow = work.flow /\ e.assess = work.assess /\ e.gate = work.gate
      /\ e.ver = work.ver /\ e.acc = work.acc
  BY InvariantFacts DEF WorkFields
<1>2. work' = e
  OBVIOUS
<1> HIDE DEF e
<1>3. WorkOK(e, limits) /\ PlanOK(e, past, limits) /\ FlowOK(e, past)
  BY <1>1, InvariantFacts DEF IInv, WorkOK, PlanOK, Scoped, Tracks, FlowOK
<1>4. VerOK(e, past, limits)
  BY <1>1 DEF IInv, VerOK, HasAcc
<1>5. AccOK(e, past, limits) /\ JobsOK(jobs, e, past)
  BY <1>1 DEF IInv, AccOK, RunOK, HasAcc, JobsOK
<1> QED
  BY <1>2, <1>3, <1>4, <1>5 DEF IInv

(* Giving the last row another status keeps RowsOK.                        *)
LEMMA LastRow ==
    ASSUME NEW w, NEW e, NEW cl, RowsOK(w, cl), e.gen = w.gen, Len(w.rows) > 0,
           NEW status \in {"running", "unknown", "passed", "not_applied"},
           e.rows = [w.rows EXCEPT ![Len(w.rows)] = [w.rows[Len(w.rows)] EXCEPT !.status = status]]
    PROVE  RowsOK(e, cl)
<1> DEFINE n == Len(w.rows)
           last == [w.rows[n] EXCEPT !.status = status]
<1>1. w.rows \in Seq(RowRecord) /\ n \in Nat /\ n \in DOMAIN w.rows /\ DOMAIN w.rows = 1..n
  BY DEF RowsOK
<1>2. w.rows[n] \in RowRecord
  BY <1>1
<1>3. last \in RowRecord /\ last.gen = w.rows[n].gen /\ last.status = status
  BY <1>2 DEF RowRecord
<1> HIDE DEF last
<1>4. /\ e.rows \in Seq(RowRecord) /\ Len(e.rows) = n /\ DOMAIN e.rows = 1..n /\ e.rows[n] = last
      /\ \A k \in 1..n \ {n} : e.rows[k] = w.rows[k]
  BY <1>1, <1>3 DEF last
<1> HIDE DEF n
<1>5. \A k \in DOMAIN e.rows : e.rows[k].gen = w.rows[k].gen
  BY <1>1, <1>3, <1>4
<1>6. \A k \in DOMAIN e.rows : e.rows[k].status \in {"running", "unknown"} => k = n
  BY <1>1, <1>4 DEF RowsOK, n
<1>7. \A k, l \in DOMAIN e.rows : k < l /\ e.rows[k].gen = e.rows[l].gen => e.rows[k].status = "not_applied"
  <2>1. ASSUME NEW k \in DOMAIN e.rows, NEW l \in DOMAIN e.rows, k < l, e.rows[k].gen = e.rows[l].gen
        PROVE  e.rows[k].status = "not_applied"
    <3>1. k # n /\ k \in DOMAIN w.rows /\ l \in DOMAIN w.rows /\ w.rows[k].gen = w.rows[l].gen
      BY <1>1, <1>4, <1>5, <2>1
    <3>2. w.rows[k].status = "not_applied"
      BY <2>1, <3>1 DEF RowsOK
    <3> QED
      BY <1>4, <2>1, <3>1, <3>2
  <2> QED
    BY <2>1
<1>8. \A k \in DOMAIN e.rows : e.rows[k].gen <= e.gen
  BY <1>1, <1>4, <1>5 DEF RowsOK
<1> QED
  BY <1>4, <1>6, <1>7, <1>8 DEF RowsOK, n

(* Launching the completion command keeps the invariant: the new row is    *)
(* the last, no other is unresolved, and no other of its generation was    *)
(* applied.                                                                *)
LEMMA LaunchStep == ASSUME IInv, NEW c \in Closers, Launch(c) PROVE IInv'
<1>1. UNCHANGED <<file, plan, jobs, past, limits>>
  BY DEF Launch
<1>2. CASE (Goes(c, "out", 0) \/ Goes(c, "ran", 0)) /\ UNCHANGED work
  <2>1. RowsOK(work, closing')
    <3>1. ASSUME NEW at \in {"out", "judged", "ran"}, Goes(c, at, 0)
          PROVE  RowsOK(work, closing')
      BY <3>1, InvariantFacts, NoneRuns DEF Goes
    <3> QED
      BY <1>2, <3>1
  <2> QED
    BY <1>1, <1>2, <2>1, InvariantFacts, WorkStays
<1>3. CASE /\ LockFree /\ ~LaunchBlocked(work) /\ ~(\E k \in OfGeneration(work) : work.rows[k].status = "passed")
           /\ work' = [work EXCEPT !.rows = Append(@, [gen |-> work.gen, status |-> "running"])]
           /\ Goes(c, "running", Len(work.rows) + 1)
  <2> DEFINE n == Len(work.rows)
             new == [gen |-> work.gen, status |-> "running"]
             rows == Append(work.rows, new)
             cl == [closing EXCEPT ![c] = [at |-> "running", row |-> n + 1]]
  <2>1. /\ work.rows \in Seq(RowRecord) /\ n \in Nat /\ DOMAIN work.rows = 1..n /\ work.gen \in Nat
        /\ closing \in [Closers -> ClosingRecord]
    BY InvariantFacts, LimitsTyped DEF RowsOK, WorkOK, FileOK
  <2>2. new \in RowRecord /\ new.gen = work.gen /\ new.status = "running"
    BY <2>1 DEF RowRecord
  <2>3. work' = [work EXCEPT !.rows = rows] /\ closing' = cl
    BY <1>3 DEF Goes
  <2> HIDE DEF new
  <2>4. /\ rows \in Seq(RowRecord) /\ Len(rows) = n + 1 /\ DOMAIN rows = 1..(n + 1) /\ rows[n + 1] = new
        /\ \A k \in 1..n : rows[k] = work.rows[k]
    BY <2>1, <2>2
  <2> HIDE DEF rows
  <2>5. work'.rows = rows /\ work'.gen = work.gen
    BY <2>3, InvariantFacts DEF WorkFields
  <2>6. \A k \in 1..n : /\ work.rows[k].gen <= work.gen /\ work.rows[k].status \notin {"running", "unknown"}
                        /\ work.rows[k].gen = work.gen => work.rows[k].status = "not_applied"
    <3> TAKE k \in 1..n
    <3>1. work.rows[k] \in RowRecord
      BY <2>1
    <3>2. work.rows[k].status \notin {"running", "unknown"}
      BY <1>3, <2>1 DEF LaunchBlocked, Unresolved
    <3>3. work.rows[k].gen = work.gen => work.rows[k].status # "passed"
      BY <1>3, <2>1 DEF OfGeneration
    <3>4. work.rows[k].gen <= work.gen
      BY <2>1, InvariantFacts DEF RowsOK
    <3> QED
      BY <3>1, <3>2, <3>3, <3>4 DEF RowRecord
  <2>7. /\ cl \in [Closers -> ClosingRecord]
        /\ \A d \in Closers : /\ cl[d].row <= n + 1
                              /\ cl[d].at = "running" => d = c /\ cl[d].row = n + 1
    <3>1. [at |-> "running", row |-> n + 1] \in ClosingRecord
      BY <2>1 DEF ClosingRecord
    <3>2. \A d \in Closers : closing[d].at # "running" /\ closing[d].row <= n /\ closing[d].row \in Nat
      BY <1>3, <2>1, InvariantFacts DEF LockFree, RowsOK, ClosingRecord
    <3> QED
      BY <2>1, <3>1, <3>2
  <2> HIDE DEF cl, n
  <2>8. \A k \in DOMAIN rows : rows[k].gen <= work.gen
    BY <2>1, <2>2, <2>4, <2>6
  <2>9. \A k \in DOMAIN rows : rows[k].status \in {"running", "unknown"} => k = n + 1
    BY <2>1, <2>4, <2>6
  <2>10. \A k, l \in DOMAIN rows : k < l /\ rows[k].gen = rows[l].gen => rows[k].status = "not_applied"
    <3>1. ASSUME NEW k \in DOMAIN rows, NEW l \in DOMAIN rows, k < l, rows[k].gen = rows[l].gen
          PROVE  rows[k].status = "not_applied"
      <4>1. k \in 1..n
        BY <2>1, <2>4, <3>1
      <4>2. CASE l = n + 1
        BY <2>2, <2>4, <2>6, <3>1, <4>1, <4>2
      <4>3. CASE l \in 1..n
        BY <2>1, <2>4, <3>1, <4>1, <4>3, InvariantFacts DEF RowsOK
      <4> QED
        BY <2>1, <2>4, <4>2, <4>3
    <3> QED
      BY <3>1
  <2>11. RowsOK(work', closing')
    BY <2>1, <2>3, <2>4, <2>5, <2>7, <2>8, <2>9, <2>10 DEF RowsOK
  <2> QED
    BY <1>1, <2>3, <2>11, RowsStep
<1> QED
  BY <1>2, <1>3 DEF Launch

(* The end of the completion command keeps the invariant.                  *)
LEMMA EndsStep == ASSUME IInv, NEW c \in Closers, NEW ok \in BOOLEAN, Ends(c, ok) PROVE IInv'
<1> DEFINE status == IF ~Readable(work) THEN "running" ELSE IF ok THEN "passed" ELSE "unknown"
           n == Len(work.rows)
           rows == [work.rows EXCEPT ![n] = [work.rows[n] EXCEPT !.status = status]]
           at == IF status = "passed" THEN "ran" ELSE "out"
<1>1. closing[c].row = n /\ n > 0
  BY DEF Ends, IInv, RowsOK
<1>2. /\ work' = [work EXCEPT !.rows[closing[c].row].status = status] /\ Goes(c, at, 0)
      /\ UNCHANGED <<file, plan, jobs, past, limits>>
  BY DEF Ends
<1>3. status \in {"running", "unknown", "passed", "not_applied"} /\ at \in {"out", "judged", "ran"}
  OBVIOUS
<1> HIDE DEF status, at
<1>4. work' = [work EXCEPT !.rows = rows]
  BY <1>1, <1>2
<1>5. work'.rows = rows /\ work'.gen = work.gen
  BY <1>4, InvariantFacts DEF WorkFields
<1>6. RowsOK(work', closing)
  BY <1>1, <1>3, <1>5, InvariantFacts, LastRow
<1>7. RowsOK(work', closing')
  BY <1>2, <1>3, <1>6, NoneRuns DEF Goes
<1> QED
  BY <1>2, <1>4, <1>7, RowsStep

(* cao done --resolve keeps the invariant.                                 *)
LEMMA ResolveStep == ASSUME IInv, NEW k \in 1..Len(work.rows), NEW applied \in BOOLEAN, Resolve(k, applied) PROVE IInv'
<1> DEFINE status == IF applied THEN "passed" ELSE "not_applied"
           n == Len(work.rows)
           rows == [work.rows EXCEPT ![n] = [work.rows[n] EXCEPT !.status = status]]
<1>1. k = n /\ n > 0
  BY DEF Resolve, IInv, RowsOK, Unresolved
<1>2. /\ work' = [work EXCEPT !.rows[k].status = status] /\ UNCHANGED <<file, plan, jobs, closing, past, limits>>
  BY DEF Resolve
<1>3. status \in {"running", "unknown", "passed", "not_applied"}
  OBVIOUS
<1> HIDE DEF status
<1>4. work' = [work EXCEPT !.rows = rows]
  BY <1>1, <1>2
<1>5. work'.rows = rows /\ work'.gen = work.gen
  BY <1>4, InvariantFacts DEF WorkFields
<1>6. RowsOK(work', closing')
  BY <1>1, <1>2, <1>3, <1>5, InvariantFacts, LastRow
<1> QED
  BY <1>2, <1>4, <1>6, RowsStep

(* Closing the Work keeps the invariant.                                   *)
LEMMA CloseStep == ASSUME IInv, NEW c \in Closers, Close(c) PROVE IInv'
<1>1. Goes(c, "out", 0) /\ UNCHANGED <<file, plan, jobs, limits>>
  BY DEF Close
<1>2. CASE work.status # "active"
  <2>1. work' = work /\ past' = past
    BY <1>2 DEF Close, Seen, Closable, Ready, LifecycleReady
  <2>2. RowsOK(work, closing')
    BY <1>1, InvariantFacts, NoneRuns DEF Goes
  <2> QED
    BY <1>1, <2>1, <2>2, InvariantFacts, WorkStays
<1>3. CASE work.status = "active"
  <2> DEFINE s == Saved(work)
             told == Told(s)
  <2>1. /\ Same(work, s, {"scope", "known"}) /\ WorkOK(s, limits) /\ Scoped(s) /\ Tracks(s, past.seen, limits)
        /\ Tracks(s, told, limits) /\ told \in SUBSET Items
    BY InvariantFacts, SavedWork
  <2>2. RowsOK(s, closing')
    BY <1>1, SavedRows, NoneRuns DEF Goes
  <2>3. s.status = "active"
    BY <1>3, <2>1, InvariantFacts DEF Same, WorkFields
  <2>4. /\ work' = IF Closable(s) THEN [s EXCEPT !.status = "completed"] ELSE s
        /\ past' = [past EXCEPT !.seen = @ \cup told]
    BY <1>3, <2>3 DEF Close, Seen
  <2>5. CASE ~Closable(s)
    BY <1>1, <2>2, <2>4, <2>5, SavedStep
  <2>6. CASE Closable(s)
    <3> DEFINE e == [s EXCEPT !.status = "completed"]
    <3> HIDE DEF s, told
    <3>1. DOMAIN s = WorkFields
      BY <2>1 DEF WorkOK
    <3>2. /\ e.status = "completed" /\ DOMAIN e = WorkFields /\ e.gen = s.gen
          /\ e.req = s.req /\ e.base = s.base /\ e.known = s.known /\ e.scope = s.scope /\ e.ref = s.ref
          /\ e.route = s.route /\ e.spec = s.spec /\ e.flow = s.flow /\ e.assess = s.assess /\ e.gate = s.gate
          /\ e.ver = s.ver /\ e.acc = s.acc /\ e.rows = s.rows
      BY <3>1 DEF WorkFields
    <3>3. work' = e
      BY <2>4, <2>6
    <3> HIDE DEF e
    <3>4. Same(work, e, Outer) /\ e.flow = work.flow
      BY <2>1, <3>2, InvariantFacts DEF Same, Outer, WorkFields
    <3>5. WorkOK(e, limits)
      BY <2>1, <3>2 DEF WorkOK
    <3>6. Scoped(e) /\ Tracks(e, past.seen, limits) /\ Tracks(e, told, limits)
      BY <2>1, <3>2 DEF Scoped, Tracks
    <3>7. RowsOK(e, closing')
      BY <2>2, <3>2 DEF RowsOK
    <3> QED
      BY <1>1, <2>1, <2>4, <3>3, <3>4, <3>5, <3>6, <3>7, SeenStep
  <2> QED
    BY <2>5, <2>6
<1> QED
  BY <1>2, <1>3

-----------------------------------------------------------------------------
(* Runs.                                                                   *)

(* A Work with other runs is of its type, and knows what it knew.          *)
LEMMA FramedWork ==
    ASSUME NEW w, NEW e, WorkOK(w, limits), Same(w, e, {"ver", "acc"})
    PROVE  /\ WorkOK(e, limits) /\ e.gen = w.gen /\ e.req = w.req /\ e.base = w.base /\ e.flow = w.flow /\ e.rows = w.rows
           /\ e.status = w.status
           /\ (Scoped(w) => Scoped(e)) /\ (\A seen : Tracks(w, seen, limits) => Tracks(e, seen, limits))
<1>1. /\ DOMAIN e = WorkFields /\ e.status = w.status /\ e.gen = w.gen /\ e.req = w.req /\ e.base = w.base /\ e.ref = w.ref
      /\ e.route = w.route /\ e.flow = w.flow /\ e.spec = w.spec /\ e.assess = w.assess /\ e.gate = w.gate
      /\ e.scope = w.scope /\ e.known = w.known /\ e.rows = w.rows
  BY DEF Same, WorkOK, WorkFields
<1>2. WorkOK(e, limits)
  BY <1>1 DEF WorkOK
<1>3. (Scoped(w) => Scoped(e)) /\ (\A seen : Tracks(w, seen, limits) => Tracks(e, seen, limits))
  BY <1>1 DEF Scoped, Tracks
<1> QED
  BY <1>1, <1>2, <1>3

(* A step of the runs keeps the invariant, if VerOK, AccOK and JobsOK hold *)
(* of what it leaves; w is the Work as it was, or with its observation     *)
(* saved.                                                                  *)
LEMMA RunStep ==
    ASSUME IInv, NEW w, NEW e, w \in {work, Saved(work)}, Same(w, e, {"ver", "acc"}),
           work' = e, UNCHANGED <<file, plan, closing, limits>>,
           PastOK(past', limits), past'.ran = past.ran, past'.seen \in {past.seen, past.seen \cup Told(work), past.seen \cup Told(w)},
           past'.seen # past.seen => w = Saved(work),
           VerOK(e, past', limits), AccOK(e, past', limits), JobsOK(jobs', e, past')
    PROVE  IInv'
<1>1. /\ WorkOK(w, limits) /\ Scoped(w) /\ Tracks(w, past.seen, limits) /\ RowsOK(w, closing) /\ w.flow = work.flow
      /\ (past'.seen # past.seen => Tracks(w, Told(work), limits) /\ Tracks(w, Told(w), limits))
  <2>1. CASE w = work /\ past'.seen = past.seen
    BY <2>1, InvariantFacts
  <2>2. CASE w = Saved(work)
    <3>1. Same(work, w, {"scope", "known"})
      BY <2>2, InvariantFacts, SavedWork
    <3>2. w.flow = work.flow
      BY <3>1, InvariantFacts DEF Same, WorkFields
    <3> QED
      BY <2>2, <3>2, InvariantFacts, SavedWork, SavedRows
  <2> QED
    BY <2>1, <2>2
<1>2. Tracks(w, past'.seen, limits)
  BY <1>1, TracksBoth
<1>3. /\ WorkOK(e, limits) /\ Scoped(e) /\ Tracks(e, past'.seen, limits) /\ e.flow = w.flow /\ e.rows = w.rows /\ e.gen = w.gen
  BY <1>1, <1>2, FramedWork
<1>4. RowsOK(e, closing)
  BY <1>1, <1>3 DEF RowsOK
<1>5. FlowOK(e, past')
  BY <1>1, <1>3 DEF FlowOK, IInv
<1> QED
  BY <1>3, <1>4, <1>5 DEF IInv, PlanOK

(* More runs disturb nothing that is recorded.                             *)
LEMMA MoreRuns ==
    ASSUME IInv, NEW e, NEW q, e.gen = work.gen, e.base = work.base, e.req = work.req, q.agreed = past.agreed,
           q.runs \in 0..limits.runs, past.runs <= q.runs
    PROVE  /\ (e.ver = work.ver /\ e.acc = work.acc) => VerOK(e, q, limits)
           /\ e.acc = work.acc => AccOK(e, q, limits)
           /\ JobsOK(jobs, e, q)
<1>1. past.runs \in Nat /\ q.runs \in Nat /\ limits.runs \in Nat
  BY LimitsTyped DEF IInv, PastOK, FileOK
<1>2. work.ver # Nothing => work.ver.id \in Nat /\ work.ver.id <= past.runs
  BY <1>1 DEF IInv, VerOK, VerShape
<1>3. HasAcc(work) /\ work.acc.run # Nothing => work.acc.run.id \in Nat /\ work.acc.run.id <= past.runs
  BY <1>1 DEF IInv, AccOK, AccShape, RunShape, RunOK
<1>4. ASSUME e.ver = work.ver, e.acc = work.acc PROVE VerOK(e, q, limits)
  BY <1>1, <1>2, <1>4 DEF IInv, VerOK, HasAcc
<1>5. ASSUME e.acc = work.acc PROVE AccOK(e, q, limits)
  BY <1>1, <1>3, <1>5 DEF IInv, AccOK, RunOK, HasAcc
<1>6. JobsOK(jobs, e, q)
  BY <1>1 DEF IInv, JobsOK
<1> QED
  BY <1>4, <1>5, <1>6

(* What a run looks at when it starts: the files, the generation and the   *)
(* declaration of the Work.                                                *)
LEMMA SeesTyped ==
    ASSUME IInv, NEW w, w.gen = work.gen, w.acc = work.acc
    PROVE  /\ Sees(w) \in Sights(limits) /\ Sees(w).code = file.code /\ Sees(w).req = file.req /\ Sees(w).spec = file.spec
           /\ Sees(w).gen = work.gen /\ Sees(w).decl = IF work.acc = Nothing THEN Nothing ELSE work.acc.decl
<1>1. file \in Files(limits) /\ work.gen \in 0..limits.gens
  BY DEF IInv, FileOK, WorkOK
<1>2. work.acc # Nothing => work.acc.decl \in Declaration
  BY DEF IInv, AccOK, AccShape, HasAcc
<1> QED
  BY <1>1, <1>2 DEF Sees, Sights, Files

(* The next run has a number within the bounds.                            *)
LEMMA RunCount ==
    ASSUME IInv, MayRun
    PROVE  /\ past.runs \in Nat /\ limits.runs \in Nat /\ past.runs + 1 \in 1..limits.runs /\ past.runs + 1 \in 0..limits.runs
  BY LimitsTyped DEF IInv, PastOK, FileOK, MayRun

(* Starting a verification keeps the invariant: it looks at the files as   *)
(* they are.                                                               *)
LEMMA VerifyStartStep == ASSUME IInv, VerifyStart PROVE IInv'
<1> DEFINE w == Saved(work)
           id == past.runs + 1
           v == [id |-> id, gen |-> w.gen, status |-> "running", on |-> Technical(w), saw |-> Sees(w)]
           e == [w EXCEPT !.ver = v]
           told == Told(w)
           job == [kind |-> "verify", id |-> id, gen |-> w.gen]
<1>1. /\ work' = e /\ jobs' = jobs \cup {job} /\ past' = [past EXCEPT !.runs = id, !.seen = @ \cup told]
      /\ UNCHANGED <<file, plan, closing, limits>> /\ MayRun
  BY DEF VerifyStart
<1>2. /\ Same(work, w, {"scope", "known"}) /\ WorkOK(w, limits) /\ told \in SUBSET Items
  BY InvariantFacts, SavedWork
<1>3. w.gen = work.gen /\ w.acc = work.acc /\ w.req = work.req /\ w.base = work.base /\ DOMAIN w = WorkFields
  BY <1>2, InvariantFacts DEF Same, WorkFields
<1>4. /\ past.runs \in Nat /\ limits.runs \in Nat /\ id \in 1..limits.runs /\ id \in 0..limits.runs
  BY <1>1, RunCount
<1> DEFINE saw == Sees(w)
<1>5. /\ saw \in Sights(limits) /\ saw.code = file.code /\ saw.req = file.req /\ saw.spec = file.spec
      /\ saw.gen = work.gen /\ saw.decl = IF work.acc = Nothing THEN Nothing ELSE work.acc.decl
  BY <1>3, SeesTyped
<1>6. v.on.code = file.code
  BY DEF Technical
<1> HIDE DEF w, told, saw
<1>7. /\ v.id = id /\ v.gen = work.gen /\ v.status = "running" /\ v.saw = saw /\ DOMAIN v = {"id", "gen", "status", "on", "saw"}
  BY <1>3 DEF saw
<1>8. Same(w, e, {"ver", "acc"}) /\ e.ver = v /\ e.acc = work.acc /\ e.gen = work.gen /\ e.req = work.req /\ e.base = work.base
  BY <1>3 DEF Same, WorkFields
<1> HIDE DEF v, e
<1>9. /\ PastOK(past', limits) /\ past'.seen = past.seen \cup told /\ past'.runs = id /\ past'.agreed = past.agreed
      /\ past'.ran = past.ran
  BY <1>1, <1>2, <1>4 DEF IInv, PastOK
<1>10. VerOK(e, past', limits)
  <2>1. VerShape(v, e.gen, limits)
    BY <1>4, <1>5, <1>7, <1>8 DEF VerShape, RunStatuses
  <2>2. HasAcc(e) /\ e.acc.anchor # Nothing => v.saw.decl = e.acc.decl
    BY <1>5, <1>7, <1>8 DEF IInv, AccOK, HasAcc
  <2>3. v.id <= past'.runs
    BY <1>4, <1>7, <1>9
  <2> QED
    BY <1>5, <1>6, <1>7, <1>8, <2>1, <2>2, <2>3 DEF VerOK
<1>11. AccOK(e, past', limits) /\ JobsOK(jobs, e, past')
  BY <1>4, <1>8, <1>9, MoreRuns
<1>12. JobsOK(jobs', e, past')
  <2>1. work.gen \in Nat
    BY InvariantFacts, LimitsTyped DEF WorkOK, FileOK
  <2>2. job.kind = "verify" /\ job.id \in 1..past'.runs /\ job.gen \in 0..e.gen
    BY <1>3, <1>4, <1>8, <1>9, <2>1
  <2> HIDE DEF job
  <2> QED
    BY <1>1, <1>11, <2>2 DEF JobsOK
<1> QED
  BY <1>1, <1>8, <1>9, <1>10, <1>11, <1>12, RunStep DEF w, told

(* The end of a verification keeps the invariant, whether it comes in time *)
(* or late.                                                                *)
LEMMA VerifyFinishStep == ASSUME IInv, NEW j \in jobs, NEW outcome \in Outcomes, VerifyFinish(j, outcome) PROVE IInv'
<1>1. UNCHANGED <<file, plan, closing, limits>> /\ jobs' \subseteq jobs
  BY DEF VerifyFinish
<1>2. CASE ~VerEligible(j)
  BY <1>1, <1>2, InvariantFacts, WorkStays DEF VerifyFinish
<1>3. CASE VerEligible(j)
  <2> DEFINE w == Saved(work)
             told == Told(work)
             status == IF ~Readable(work) \/ Technical(work) # work.ver.on THEN "stale" ELSE outcome
             v == [work.ver EXCEPT !.status = status]
             e == [w EXCEPT !.ver = v]
  <2>1. /\ Same(work, w, {"scope", "known"}) /\ WorkOK(w, limits) /\ told \in SUBSET Items
    BY InvariantFacts, SavedWork
  <2>2. /\ w.gen = work.gen /\ w.acc = work.acc /\ w.req = work.req /\ w.base = work.base /\ w.ver = work.ver
        /\ DOMAIN w = WorkFields
    BY <2>1, InvariantFacts DEF Same, WorkFields
  <2>3. /\ work' = [w EXCEPT !.ver.status = status] /\ past' = [past EXCEPT !.seen = @ \cup told]
    BY <1>3 DEF VerifyFinish, Saw
  <2>4. status \in RunStatuses
    BY DEF RunStatuses
  <2> HIDE DEF w, told, status
  <2>5. work' = e
    BY <2>2, <2>3
  <2>6. VerShape(work.ver, work.gen, limits) /\ work.ver # Nothing
    BY <1>3 DEF IInv, VerOK, VerEligible
  <2>7. /\ v.id = work.ver.id /\ v.gen = work.ver.gen /\ v.status = status /\ v.on = work.ver.on /\ v.saw = work.ver.saw
        /\ DOMAIN v = {"id", "gen", "status", "on", "saw"}
    BY <2>6 DEF VerShape
  <2>8. Same(w, e, {"ver", "acc"}) /\ e.ver = v /\ e.acc = work.acc /\ e.gen = work.gen /\ e.req = work.req /\ e.base = work.base
    BY <2>2 DEF Same, WorkFields
  <2> HIDE DEF v, e
  <2>9. /\ PastOK(past', limits) /\ past'.seen = past.seen \cup told /\ past'.runs = past.runs /\ past'.agreed = past.agreed
        /\ past'.ran = past.ran
    BY <2>1, <2>3 DEF IInv, PastOK
  <2>10. VerOK(e, past', limits)
    <3>1. VerShape(v, e.gen, limits)
      BY <2>4, <2>6, <2>7, <2>8 DEF VerShape
    <3> QED
      BY <2>6, <2>7, <2>8, <2>9, <3>1 DEF IInv, VerOK, HasAcc
  <2>11. AccOK(e, past', limits) /\ JobsOK(jobs, e, past')
    <3>1. past.runs \in 0..limits.runs /\ past.runs <= past'.runs
      BY <2>9, InvariantFacts, LimitsTyped DEF IInv, PastOK, FileOK
    <3> QED
      BY <2>8, <2>9, <3>1, MoreRuns
  <2>12. JobsOK(jobs', e, past')
    BY <1>1, <2>11 DEF JobsOK
  <2> QED
    BY <1>1, <2>5, <2>8, <2>9, <2>10, <2>11, <2>12, RunStep DEF w, told
<1> QED
  BY <1>2, <1>3

(* The criteria of the requirement are a declaration.                      *)
LEMMA CriteriaTyped == ASSUME IInv PROVE Criteria \in Declaration
  BY DEF IInv, FileOK, Files, Criteria, Declaration

(* Declaring the acceptance keeps the invariant: the run goes with the     *)
(* declaration it ran for.                                                 *)
LEMMA ConfigureStep == ASSUME IInv, Configure PROVE IInv'
<1> DEFINE acc == Configured(work)
           e == [work EXCEPT !.acc = acc]
<1>1. work' = e /\ past' = past /\ UNCHANGED <<file, plan, jobs, closing, limits>>
  BY DEF Configure, OnlyWork
<1>2. Same(work, e, {"ver", "acc"}) /\ e.acc = acc /\ e.ver = work.ver /\ e.gen = work.gen /\ e.req = work.req /\ e.base = work.base
  BY InvariantFacts DEF Same, WorkFields
<1>3. /\ acc.anchor = Nothing /\ acc.run = Nothing /\ DOMAIN acc = {"decl", "anchor", "run", "owned"}
      /\ acc.decl \in Declaration
  BY CriteriaTyped DEF Configured
<1>4. acc.owned \in 0..limits.runs
  <2>1. 0 \in 0..limits.runs
    BY InvariantFacts, LimitsTyped DEF FileOK
  <2> QED
    BY <2>1 DEF Configured, IInv, AccOK, AccShape, HasAcc
<1> HIDE DEF acc, e
<1>5. AccOK(e, past', limits)
  BY <1>2, <1>3, <1>4 DEF AccOK, AccShape
<1>6. VerOK(e, past', limits)
  BY <1>1, <1>2, <1>3 DEF VerOK, IInv
<1>7. JobsOK(jobs', e, past') /\ PastOK(past', limits)
  BY <1>1, <1>2 DEF IInv, JobsOK
<1> QED
  BY <1>1, <1>2, <1>5, <1>6, <1>7, RunStep

(* An acceptance that is anchored stands for its own declaration and for   *)
(* the SPEC as it is.                                                      *)
LEMMA AnchoredFacts ==
    ASSUME IInv, HasAcc(work), Anchored(work)
    PROVE  work.acc.anchor # Nothing /\ work.acc.anchor.decl = work.acc.decl /\ work.acc.anchor.src = file.spec
<1>1. work.acc.decl \in Declaration /\ file.spec \in 0..1
  BY DEF IInv, AccOK, AccShape, FileOK, Files
<1>2. [decl |-> work.acc.decl, src |-> file.spec] \in Anchors
  BY <1>1 DEF Anchors
<1> QED
  BY <1>2, AnchorAssumption DEF Anchored

(* A Work whose acceptance has another run, and nothing else that is new.  *)
LEMMA NewRun ==
    ASSUME IInv, HasAcc(work), NEW e, NEW q, NEW acc, Same(work, e, {"acc"}), e.acc = acc,
           AccShape(acc, limits), acc.decl = work.acc.decl, acc.anchor = work.acc.anchor,
           acc.run # Nothing => RunOK(acc, work.gen, q),
           q.agreed = past.agreed, past.runs <= q.runs, q.runs \in 0..limits.runs
    PROVE  VerOK(e, q, limits) /\ AccOK(e, q, limits) /\ JobsOK(jobs, e, q)
<1>1. e.gen = work.gen /\ e.req = work.req /\ e.base = work.base /\ e.ver = work.ver
  BY InvariantFacts DEF Same, WorkFields
<1>2. past.runs \in Nat /\ q.runs \in Nat
  BY LimitsTyped DEF IInv, PastOK, FileOK
<1>3. VerOK(e, q, limits)
  <2>1. work.ver # Nothing => work.ver.id \in Nat /\ work.ver.id <= past.runs
    BY <1>2 DEF IInv, VerOK, VerShape
  <2> QED
    BY <1>1, <1>2, <2>1 DEF IInv, VerOK, HasAcc
<1>4. AccOK(e, q, limits)
  BY <1>1 DEF IInv, AccOK, RunOK
<1>5. JobsOK(jobs, e, q)
  BY <1>1, <1>2, MoreRuns
<1> QED
  BY <1>3, <1>4, <1>5

(* The inputs of an acceptance run are the files as they are.              *)
LEMMA TaskInputsFields ==
    ASSUME NEW w
    PROVE  TaskInputs(w).tech.code = file.code /\ TaskInputs(w).req = file.req /\ TaskInputs(w).src = file.spec
  BY DEF TaskInputs, Technical

(* Starting an acceptance run keeps the invariant.                         *)
LEMMA AcceptStartStep == ASSUME IInv, AcceptStart PROVE IInv'
<1> DEFINE id == past.runs + 1
           r == NewAcceptance(work, id, Sees(work), FALSE)
           acc == [work.acc EXCEPT !.run = r]
           e == [work EXCEPT !.acc = acc]
           job == [kind |-> "accept", id |-> id, gen |-> work.gen]
<1>1. /\ HasAcc(work) /\ Anchored(work) /\ MayRun /\ jobs' = jobs \cup {job} /\ past' = [past EXCEPT !.runs = id]
      /\ UNCHANGED <<file, plan, closing, limits>>
  BY DEF AcceptStart, MayAccept, HasAcc
<1>2. work' = e
  BY DEF AcceptStart
<1>3. /\ past.runs \in Nat /\ limits.runs \in Nat /\ id \in 1..limits.runs /\ id \in 0..limits.runs
  BY <1>1, RunCount
<1> DEFINE saw == Sees(work)
           on == TaskInputs(work)
<1>4. /\ saw \in Sights(limits) /\ saw.code = file.code /\ saw.req = file.req /\ saw.spec = file.spec
      /\ saw.gen = work.gen /\ saw.decl = work.acc.decl
  BY <1>1, SeesTyped DEF HasAcc
<1>5. on.tech.code = file.code /\ on.req = file.req /\ on.src = file.spec
  BY TaskInputsFields
<1>6. /\ r.id = id /\ r.status = "running" /\ r.on = on /\ r.saw = saw /\ r.out = 0
      /\ r.reused = FALSE /\ DOMAIN r = {"id", "status", "on", "saw", "out", "reused"}
  BY DEF NewAcceptance
<1> HIDE DEF saw, on, r
<1>7. AccShape(work.acc, limits)
  BY <1>1 DEF IInv, AccOK
<1>8. /\ acc.run = r /\ acc.decl = work.acc.decl /\ acc.anchor = work.acc.anchor /\ acc.owned = work.acc.owned
      /\ DOMAIN acc = {"decl", "anchor", "run", "owned"}
  BY <1>7 DEF AccShape
<1> HIDE DEF acc
<1>9. Same(work, e, {"acc"}) /\ e.acc = acc /\ e.gen = work.gen
  BY InvariantFacts DEF Same, WorkFields
<1> HIDE DEF e
<1>10. AccShape(acc, limits)
  <2>1. r.reused \in BOOLEAN
    BY <1>6, Zenon
  <2>2. RunShape(r, limits)
    BY <1>3, <1>4, <1>6, <2>1 DEF RunShape, RunStatuses
  <2> QED
    BY <1>7, <1>8, <2>2 DEF AccShape
<1>11. /\ PastOK(past', limits) /\ past'.seen = past.seen /\ past'.runs = id /\ past'.agreed = past.agreed /\ past'.ran = past.ran
  BY <1>1, <1>3 DEF IInv, PastOK
<1>12. RunOK(acc, work.gen, past')
  BY <1>1, <1>3, <1>4, <1>5, <1>6, <1>8, <1>11, AnchoredFacts DEF RunOK
<1>13. VerOK(e, past', limits) /\ AccOK(e, past', limits) /\ JobsOK(jobs, e, past')
  <2>1. past.runs <= past'.runs /\ past'.runs \in 0..limits.runs
    BY <1>3, <1>11
  <2> QED
    BY <1>1, <1>8, <1>9, <1>10, <1>11, <1>12, <2>1, NewRun
<1>14. JobsOK(jobs', e, past')
  <2>1. work.gen \in Nat
    BY InvariantFacts, LimitsTyped DEF WorkOK, FileOK
  <2>2. job.kind = "accept" /\ job.id \in 1..past'.runs /\ job.gen \in 0..e.gen
    BY <1>3, <1>9, <1>11, <2>1
  <2> HIDE DEF job
  <2> QED
    BY <1>1, <1>13, <2>2 DEF JobsOK
<1>15. Same(work, e, {"ver", "acc"})
  BY <1>9 DEF Same
<1> QED
  BY <1>1, <1>2, <1>11, <1>13, <1>14, <1>15, RunStep

(* What the end of a run makes of the acceptance: another status and the   *)
(* output of the moment, the rest as it was.                               *)
LEMMA FinishedFields ==
    ASSUME NEW w, DOMAIN w = WorkFields, AccShape(w.acc, limits), RunShape(w.acc.run, limits), FileOK(file, plan, limits),
           NEW outcome \in Outcomes
    PROVE  LET e == Finished(w, outcome)
           IN /\ Same(w, e, {"acc"}) /\ AccShape(e.acc, limits) /\ e.acc.decl = w.acc.decl /\ e.acc.anchor = w.acc.anchor
              /\ e.acc.run.id = w.acc.run.id /\ e.acc.run.on = w.acc.run.on /\ e.acc.run.saw = w.acc.run.saw
              /\ e.acc.run.reused = w.acc.run.reused
              /\ e.acc.run.status = Judged(w, outcome) /\ e.acc.run.out = file.out
<1> DEFINE s == Judged(w, outcome)
           o == IF limits.outputs /\ file.out # 0 THEN file.out ELSE w.acc.owned
           r1 == [w.acc.run EXCEPT !.status = s]
           a1 == [w.acc EXCEPT !.run = r1]
           w1 == [w EXCEPT !.acc = a1]
           r2 == [r1 EXCEPT !.out = file.out]
           a2 == [a1 EXCEPT !.run = r2]
           w2 == [w1 EXCEPT !.acc = a2]
           a3 == [a2 EXCEPT !.owned = o]
           e == [w2 EXCEPT !.acc = a3]
<1>1. s \in RunStatuses /\ file.out \in 0..limits.runs /\ o \in 0..limits.runs
  <2>1. s \in RunStatuses
    BY DEF Judged, RunStatuses, Outcomes
  <2>2. file.out \in 0..limits.runs /\ w.acc.owned \in 0..limits.runs
    BY DEF FileOK, Files, AccShape
  <2> QED
    BY <2>1, <2>2
<1>2. RunShape(w.acc.run, limits) /\ DOMAIN w.acc = {"decl", "anchor", "run", "owned"}
  BY DEF AccShape
<1> DEFINE f == Finished(w, outcome)
<1>3. f = [w EXCEPT !.acc.run.status = s, !.acc.run.out = file.out, !.acc.owned = o]
  BY DEF Finished
<1> HIDE DEF s, o, f
<1>4. w1 = [w EXCEPT !.acc.run.status = s] /\ w1.acc = a1 /\ a1.run = r1 /\ a1.owned = w.acc.owned
  BY <1>2 DEF WorkFields
<1>5. w2 = [w1 EXCEPT !.acc.run.out = file.out] /\ w2.acc = a2
  BY <1>2, <1>4 DEF WorkFields
<1>6. e = [w2 EXCEPT !.acc.owned = o] /\ e.acc = a3
  BY <1>2, <1>5 DEF WorkFields
<1>7. f = e
  BY <1>3, <1>4, <1>5, <1>6
<1>8. /\ r2.id = w.acc.run.id /\ r2.on = w.acc.run.on /\ r2.saw = w.acc.run.saw /\ r2.status = s /\ r2.out = file.out
      /\ r2.reused = w.acc.run.reused /\ DOMAIN r2 = {"id", "status", "on", "saw", "out", "reused"}
  BY <1>2 DEF RunShape
<1>9. /\ a3.decl = w.acc.decl /\ a3.anchor = w.acc.anchor /\ a3.run = r2 /\ a3.owned = o
      /\ DOMAIN a3 = {"decl", "anchor", "run", "owned"}
  BY <1>2
<1>10. Same(w, e, {"acc"})
  BY DEF Same, WorkFields
<1> HIDE DEF e, r2, a3
<1>11. RunShape(r2, limits)
  BY <1>1, <1>2, <1>8 DEF RunShape
<1>12. AccShape(a3, limits)
  BY <1>1, <1>9, <1>11 DEF AccShape
<1>13. /\ Same(w, f, {"acc"}) /\ AccShape(f.acc, limits) /\ f.acc.decl = w.acc.decl /\ f.acc.anchor = w.acc.anchor
       /\ f.acc.run.id = w.acc.run.id /\ f.acc.run.on = w.acc.run.on /\ f.acc.run.saw = w.acc.run.saw
       /\ f.acc.run.reused = w.acc.run.reused /\ f.acc.run.status = s /\ f.acc.run.out = file.out
  BY <1>6, <1>7, <1>8, <1>9, <1>10, <1>12
<1> QED
  BY <1>13 DEF f, s

(* The end of an acceptance run keeps the invariant, whether it comes in   *)
(* time or late.                                                           *)
LEMMA AcceptFinishStep == ASSUME IInv, NEW j \in jobs, NEW outcome \in Outcomes, AcceptFinish(j, outcome) PROVE IInv'
<1>1. UNCHANGED <<file, plan, closing, past, limits>> /\ jobs' \subseteq jobs
  BY DEF AcceptFinish
<1>2. CASE ~AccEligible(j)
  BY <1>1, <1>2, InvariantFacts, WorkStays DEF AcceptFinish
<1>3. CASE AccEligible(j)
  <2> DEFINE e == Finished(work, outcome)
  <2>1. work' = e
    BY <1>3 DEF AcceptFinish
  <2>2. HasAcc(work) /\ work.acc.run # Nothing /\ AccShape(work.acc, limits) /\ RunOK(work.acc, work.gen, past)
    BY <1>3 DEF AccEligible, Running, HasAcc, IInv, AccOK
  <2>3. /\ Same(work, e, {"acc"}) /\ AccShape(e.acc, limits) /\ e.acc.decl = work.acc.decl /\ e.acc.anchor = work.acc.anchor
        /\ e.acc.run.id = work.acc.run.id /\ e.acc.run.on = work.acc.run.on /\ e.acc.run.saw = work.acc.run.saw
        /\ e.acc.run.reused = work.acc.run.reused
    BY <2>2, InvariantFacts, FinishedFields DEF AccShape
  <2> HIDE DEF e
  <2>4. RunOK(e.acc, work.gen, past)
    BY <2>2, <2>3 DEF RunOK
  <2>5. past.runs <= past.runs /\ past.runs \in 0..limits.runs /\ PastOK(past, limits)
    BY InvariantFacts, LimitsTyped DEF IInv, PastOK, FileOK
  <2>6. VerOK(e, past, limits) /\ AccOK(e, past, limits) /\ JobsOK(jobs, e, past)
    BY <2>2, <2>3, <2>4, <2>5, NewRun
  <2>7. JobsOK(jobs', e, past)
    BY <1>1, <2>6 DEF JobsOK
  <2>8. Same(work, e, {"ver", "acc"})
    BY <2>3 DEF Same
  <2> QED
    BY <1>1, <2>1, <2>5, <2>6, <2>7, <2>8, RunStep
<1> QED
  BY <1>2, <1>3

(* Accepting on the strength of a verification keeps the invariant: the    *)
(* code that it began on is the code that is accepted.                     *)
LEMMA AcceptReuseStep == ASSUME IInv, NEW outcome \in Outcomes, AcceptReuse(outcome) PROVE IInv'
<1> DEFINE id == past.runs + 1
           r == NewAcceptance(work, id, work.ver.saw, TRUE)
           acc == [work.acc EXCEPT !.run = r]
           started == [work EXCEPT !.acc = acc]
           e == Finished(started, outcome)
           on == TaskInputs(work)
           saw == work.ver.saw
<1>1. /\ HasAcc(work) /\ Anchored(work) /\ MayRun /\ past' = [past EXCEPT !.runs = id] /\ VerFresh(work) /\ AssessReady(work)
      /\ UNCHANGED <<file, plan, jobs, closing, limits>>
  BY DEF AcceptReuse, MayAccept, HasAcc
<1>2. work' = e
  BY DEF AcceptReuse
<1>3. /\ past.runs \in Nat /\ limits.runs \in Nat /\ id \in 1..limits.runs /\ id \in 0..limits.runs
  BY <1>1, RunCount
<1>4. on.tech.code = file.code /\ on.req = file.req /\ on.src = file.spec
  BY TaskInputsFields
<1>5. work.acc.anchor # Nothing /\ work.acc.anchor.decl = work.acc.decl /\ work.acc.anchor.src = file.spec
  BY <1>1, AnchoredFacts
<1>6. saw \in Sights(limits) /\ saw.code = file.code /\ saw.gen = work.gen /\ saw.decl = work.acc.decl
  <2>1. work.ver # Nothing /\ work.ver.on.code = file.code
    BY <1>1 DEF VerFresh, Technical
  <2>2. VerShape(work.ver, work.gen, limits) /\ saw.gen = work.gen /\ saw.code = file.code /\ saw.decl = work.acc.decl
    BY <1>1, <1>5, <2>1 DEF IInv, VerOK
  <2> QED
    BY <2>2 DEF VerShape
<1>7. /\ r.id = id /\ r.status = "running" /\ r.on = on /\ r.saw = saw /\ r.out = 0
      /\ r.reused = TRUE /\ DOMAIN r = {"id", "status", "on", "saw", "out", "reused"}
  BY DEF NewAcceptance
<1>8. AccShape(work.acc, limits)
  BY <1>1 DEF IInv, AccOK
<1> HIDE DEF saw, on, r
<1>9. /\ acc.run = r /\ acc.decl = work.acc.decl /\ acc.anchor = work.acc.anchor /\ acc.owned = work.acc.owned
      /\ DOMAIN acc = {"decl", "anchor", "run", "owned"}
  BY <1>8 DEF AccShape
<1> HIDE DEF acc
<1>10. Same(work, started, {"acc"}) /\ started.acc = acc /\ DOMAIN started = WorkFields
  BY InvariantFacts DEF Same, WorkFields
<1> HIDE DEF started
<1>11. RunShape(r, limits) /\ AccShape(acc, limits)
  <2>1. r.reused \in BOOLEAN
    BY <1>7, Zenon
  <2>2. RunShape(r, limits)
    BY <1>3, <1>6, <1>7, <2>1 DEF RunShape, RunStatuses
  <2> QED
    BY <1>8, <1>9, <2>2 DEF AccShape
<1>12. /\ Same(started, e, {"acc"}) /\ AccShape(e.acc, limits) /\ e.acc.decl = acc.decl /\ e.acc.anchor = acc.anchor
       /\ e.acc.run.id = r.id /\ e.acc.run.on = r.on /\ e.acc.run.saw = r.saw /\ e.acc.run.reused = r.reused
  <2>1. RunShape(started.acc.run, limits)
    BY <1>9, <1>10, <1>11
  <2> QED
    BY <1>9, <1>10, <1>11, <2>1, InvariantFacts, FinishedFields
<1> HIDE DEF e
<1>13. Same(work, e, {"acc"})
  BY <1>10, <1>12 DEF Same
<1>14. /\ PastOK(past', limits) /\ past'.seen = past.seen /\ past'.runs = id /\ past'.agreed = past.agreed /\ past'.ran = past.ran
  BY <1>1, <1>3 DEF IInv, PastOK
<1>15. RunOK(e.acc, work.gen, past')
  BY <1>3, <1>4, <1>5, <1>6, <1>7, <1>9, <1>12, <1>14 DEF RunOK
<1>16. past.runs <= past'.runs /\ past'.runs \in 0..limits.runs
  BY <1>3, <1>14
<1>17. VerOK(e, past', limits) /\ AccOK(e, past', limits) /\ JobsOK(jobs, e, past')
  BY <1>1, <1>9, <1>12, <1>13, <1>14, <1>15, <1>16, NewRun
<1>18. Same(work, e, {"ver", "acc"})
  BY <1>13 DEF Same
<1> QED
  BY <1>1, <1>2, <1>14, <1>17, <1>18, RunStep

-----------------------------------------------------------------------------
(* Reopening.                                                              *)

(* An acceptance that stands for what was agreed, whatever its run.        *)
AccAgreed(acc, base, agreed) ==
    /\ AccShape(acc, limits)
    /\ acc.anchor # Nothing =>
          acc.anchor.decl = acc.decl /\ agreed = [decl |-> acc.decl, config |-> base]

(* What becomes of the Work on its way through a reopening, agreed being   *)
(* what is agreed to then.                                                 *)
Reopened(e, agreed) ==
    /\ WorkOK(e, limits) /\ Scoped(e) /\ FlowOK(e, past) /\ e.gen = work.gen /\ e.rows = work.rows
    /\ e.req = work.req => Tracks(e, past.seen, limits)
    /\ HasAcc(e) => AccAgreed(e.acc, e.base, agreed)

(* Resetting a Work to a changed requirement forgets the plan scope and    *)
(* the acceptance of the old one; of the same requirement it keeps         *)
(* everything.                                                             *)
LEMMA ResetWork ==
    ASSUME IInv
    PROVE  LET r == Reset(work)
           IN /\ WorkOK(r, limits) /\ Scoped(r) /\ FlowOK(r, past) /\ r.gen = work.gen /\ r.rows = work.rows /\ r.req = file.req
              /\ r.req = work.req => Tracks(r, past.seen, limits)
              /\ HasAcc(r) => r.acc = work.acc
<1> DEFINE r == Reset(work)
<1>1. CASE file.req = work.req
  <2>1. r = work
    BY <1>1 DEF Reset
  <2> HIDE DEF r
  <2>2. FlowOK(work, past)
    BY DEF IInv
  <2> QED
    BY <1>1, <2>1, <2>2, InvariantFacts DEF r
<1>2. CASE file.req # work.req
  <2> DEFINE flow == IF work.flow.status = "none" THEN work.flow ELSE [NoFlow EXCEPT !.status = "selected"]
             e == [work EXCEPT !.req = file.req, !.assess = Nothing, !.spec = Nothing, !.acc = Nothing, !.scope = NoScope,
                               !.known = {}, !.ref = FALSE, !.flow = flow]
  <2>1. r = e
    BY <1>2 DEF Reset
  <2>2. /\ file.req \in 0..1 /\ work.flow \in Flows /\ NoFlow \in Flows /\ NoScope \in Scopes
    BY InvariantFacts DEF FileOK, Files, WorkOK, NoFlow, Flows, NoScope, Scopes
  <2>3. flow \in Flows /\ (flow = work.flow \/ (flow.status = "selected" /\ flow.exec = Nothing))
    <3>1. [NoFlow EXCEPT !.status = "selected"] \in Flows
      BY <2>2 DEF Flows
    <3>2. [NoFlow EXCEPT !.status = "selected"].status = "selected" /\ [NoFlow EXCEPT !.status = "selected"].exec = Nothing
      BY DEF NoFlow
    <3> QED
      BY <2>2, <3>1, <3>2
  <2> HIDE DEF flow, r
  <2>4. /\ e.req = file.req /\ e.assess = Nothing /\ e.spec = Nothing /\ e.acc = Nothing /\ e.scope = NoScope
        /\ e.known = {} /\ e.ref = FALSE /\ e.flow = flow /\ DOMAIN e = WorkFields /\ e.status = work.status
        /\ e.gen = work.gen /\ e.base = work.base /\ e.route = work.route /\ e.gate = work.gate /\ e.rows = work.rows
    BY InvariantFacts DEF WorkFields
  <2> HIDE DEF e
  <2>5. WorkOK(e, limits)
    BY <2>2, <2>3, <2>4, InvariantFacts DEF WorkOK
  <2>6. Scoped(e)
    BY <2>4 DEF Scoped, NoScope
  <2>7. FlowOK(e, past)
    BY <2>3, <2>4 DEF FlowOK, IInv
  <2> QED
    BY <1>2, <2>1, <2>4, <2>5, <2>6, <2>7 DEF HasAcc, r
<1> QED
  BY <1>1, <1>2

(* Re-anchoring agrees to the declaration, the SPEC and the configuration  *)
(* as they are.                                                            *)
LEMMA ReanchoredWork ==
    ASSUME IInv
    PROVE  LET e == Reanchored(work)
           IN Reopened(e, [decl |-> IF e.acc = Nothing THEN Nothing ELSE e.acc.decl, config |-> file.config])
<1> DEFINE r == Reset(work)
           acc == IF r.acc = Nothing THEN r.acc ELSE [r.acc EXCEPT !.anchor = [decl |-> r.acc.decl, src |-> file.spec]]
           e == [r EXCEPT !.base = file.config, !.acc = acc]
           f == Reanchored(work)
<1>1. f = e
  BY DEF Reanchored
<1>2. /\ WorkOK(r, limits) /\ Scoped(r) /\ FlowOK(r, past) /\ r.gen = work.gen /\ r.rows = work.rows /\ r.req = file.req
      /\ r.req = work.req => Tracks(r, past.seen, limits)
      /\ HasAcc(r) => r.acc = work.acc
  BY ResetWork
<1>3. file.req \in 0..1 /\ file.config \in 0..1 /\ file.spec \in 0..1
  BY InvariantFacts DEF FileOK, Files
<1> HIDE DEF r, f
<1>4. /\ e.base = file.config /\ e.acc = acc /\ DOMAIN e = WorkFields /\ e.req = r.req /\ e.assess = r.assess /\ e.spec = r.spec
      /\ e.scope = r.scope /\ e.known = r.known /\ e.ref = r.ref /\ e.flow = r.flow /\ e.status = r.status
      /\ e.gen = r.gen /\ e.route = r.route /\ e.gate = r.gate /\ e.rows = r.rows
  BY <1>2 DEF WorkOK, WorkFields
<1>5. acc # Nothing =>
         /\ AccShape(acc, limits)
         /\ acc.anchor # Nothing => acc.anchor = [decl |-> acc.decl, src |-> file.spec]
  <2>1. CASE r.acc = Nothing
    BY <2>1
  <2>2. CASE r.acc # Nothing
    <3>1. AccShape(r.acc, limits)
      BY <1>2, <2>2 DEF HasAcc, IInv, AccOK
    <3> DEFINE anchor == [decl |-> r.acc.decl, src |-> file.spec]
    <3>2. anchor \in Anchors
      BY <1>3, <3>1 DEF AccShape, Anchors
    <3> HIDE DEF anchor
    <3>3. acc = [r.acc EXCEPT !.anchor = anchor]
      BY <2>2 DEF anchor
    <3> HIDE DEF acc
    <3>4. /\ acc.decl = r.acc.decl /\ acc.anchor = anchor /\ acc.run = r.acc.run /\ acc.owned = r.acc.owned
          /\ DOMAIN acc = {"decl", "anchor", "run", "owned"}
      BY <3>1, <3>3 DEF AccShape
    <3> QED
      BY <3>1, <3>2, <3>4 DEF AccShape, anchor
  <2> QED
    BY <2>1, <2>2
<1> HIDE DEF acc, e
<1>6. WorkOK(e, limits) /\ Scoped(e) /\ FlowOK(e, past) /\ (e.req = work.req => Tracks(e, past.seen, limits))
  BY <1>2, <1>3, <1>4 DEF WorkOK, Scoped, FlowOK, Tracks
<1>7. HasAcc(e) => AccAgreed(e.acc, e.base, [decl |-> IF e.acc = Nothing THEN Nothing ELSE e.acc.decl, config |-> file.config])
  BY <1>3, <1>4, <1>5 DEF HasAcc, AccAgreed
<1>8. e.gen = work.gen /\ e.rows = work.rows
  BY <1>2, <1>3, <1>4
<1>9. Reopened(e, [decl |-> IF e.acc = Nothing THEN Nothing ELSE e.acc.decl, config |-> file.config])
  BY <1>6, <1>7, <1>8 DEF Reopened
<1> QED
  BY <1>1, <1>9 DEF f

(* A Work reopened without re-anchoring stands for what was agreed.        *)
LEMMA UntouchedReopened == ASSUME IInv PROVE Reopened(work, past.agreed)
<1>1. FlowOK(work, past)
  BY DEF IInv
<1>2. HasAcc(work) => AccAgreed(work.acc, work.base, past.agreed)
  BY DEF IInv, AccOK, AccAgreed
<1> QED
  BY <1>1, <1>2, InvariantFacts DEF Reopened

(* Clearing a Work leaves no run of the generation before.                 *)
LEMMA ClearedWork ==
    ASSUME IInv, work.gen < limits.gens, NEW w, NEW agreed, Reopened(w, agreed)
    PROVE  LET e == Cleared(w)
           IN /\ WorkOK(e, limits) /\ Scoped(e) /\ FlowOK(e, past) /\ e.gen = work.gen + 1 /\ e.rows = work.rows /\ e.req = w.req
              /\ e.status = "active" /\ e.ver = Nothing
              /\ e.req = work.req => Tracks(e, past.seen, limits)
              /\ HasAcc(e) => AccAgreed(e.acc, e.base, agreed) /\ e.acc.run = Nothing
              /\ e.acc # Nothing => w.acc # Nothing /\ e.acc.decl = w.acc.decl
<1> DEFINE acc == IF w.acc = Nothing THEN w.acc ELSE [w.acc EXCEPT !.run = Nothing]
           e == [w EXCEPT !.gen = @ + 1, !.status = "active", !.gate = Nothing, !.ver = Nothing, !.acc = acc]
           f == Cleared(w)
<1>1. f = e
  BY DEF Cleared
<1> HIDE DEF f
<1>2. /\ e.gen = w.gen + 1 /\ e.status = "active" /\ e.gate = Nothing /\ e.ver = Nothing /\ e.acc = acc
      /\ DOMAIN e = WorkFields /\ e.req = w.req /\ e.assess = w.assess /\ e.spec = w.spec
      /\ e.scope = w.scope /\ e.known = w.known /\ e.ref = w.ref /\ e.flow = w.flow
      /\ e.base = w.base /\ e.route = w.route /\ e.rows = w.rows
  BY DEF Reopened, WorkOK, WorkFields
<1>3. acc # Nothing => AccAgreed(acc, w.base, agreed) /\ acc.run = Nothing /\ acc.decl = w.acc.decl /\ w.acc # Nothing
  <2>1. CASE w.acc = Nothing
    BY <2>1
  <2>2. CASE w.acc # Nothing
    <3>1. AccAgreed(w.acc, w.base, agreed)
      BY <2>2 DEF Reopened, HasAcc
    <3>2. acc = [w.acc EXCEPT !.run = Nothing]
      BY <2>2
    <3> HIDE DEF acc
    <3>3. /\ acc.decl = w.acc.decl /\ acc.anchor = w.acc.anchor /\ acc.run = Nothing /\ acc.owned = w.acc.owned
          /\ DOMAIN acc = {"decl", "anchor", "run", "owned"}
      BY <3>1, <3>2 DEF AccAgreed, AccShape
    <3> QED
      BY <2>2, <3>1, <3>3 DEF AccAgreed, AccShape
  <2> QED
    BY <2>1, <2>2
<1> HIDE DEF e, acc
<1>4. e.gen = work.gen + 1 /\ e.gen \in 0..limits.gens
  BY <1>2, InvariantFacts, LimitsTyped DEF Reopened, WorkOK, FileOK
<1>5. WorkOK(e, limits)
  BY <1>2, <1>4 DEF Reopened, WorkOK
<1>6. Scoped(e) /\ FlowOK(e, past) /\ (e.req = work.req => Tracks(e, past.seen, limits))
  BY <1>2 DEF Reopened, Scoped, FlowOK, Tracks
<1>7. HasAcc(e) => AccAgreed(e.acc, e.base, agreed) /\ e.acc.run = Nothing
  BY <1>2, <1>3 DEF HasAcc
<1>8. e.acc # Nothing => w.acc # Nothing /\ e.acc.decl = w.acc.decl
  BY <1>2, <1>3
<1>9. e.rows = work.rows /\ e.req = w.req /\ e.status = "active" /\ e.ver = Nothing
  BY <1>2 DEF Reopened
<1> QED
  BY <1>1, <1>4, <1>5, <1>6, <1>7, <1>8, <1>9 DEF f

(* Reopening a Work keeps the invariant.                                   *)
LEMMA ReopenStep == ASSUME IInv, NEW reanchor \in BOOLEAN, Reopen(reanchor) PROVE IInv'
<1> DEFINE b == IF reanchor THEN Reanchored(work) ELSE work
           c == Cleared(b)
           w == Reconciled(c)
           told == Told(w)
           agreed == IF reanchor THEN [decl |-> IF w.acc = Nothing THEN Nothing ELSE w.acc.decl, config |-> file.config]
                     ELSE past.agreed
           seen == IF w.req # work.req THEN told ELSE past.seen \cup told
<1>1. /\ work.gen < limits.gens /\ work' = w /\ past' = [past EXCEPT !.seen = seen, !.agreed = agreed]
      /\ UNCHANGED <<file, plan, jobs, closing, limits>>
  BY DEF Reopen
<1>2. PICK a2 : /\ Reopened(b, a2)
                /\ a2 = IF reanchor THEN [decl |-> IF b.acc = Nothing THEN Nothing ELSE b.acc.decl, config |-> file.config]
                        ELSE past.agreed
  BY ReanchoredWork, UntouchedReopened
<1> HIDE DEF b
<1>3. /\ WorkOK(c, limits) /\ Scoped(c) /\ FlowOK(c, past) /\ c.gen = work.gen + 1 /\ c.rows = work.rows /\ c.req = b.req
      /\ c.status = "active" /\ c.ver = Nothing
      /\ c.req = work.req => Tracks(c, past.seen, limits)
      /\ HasAcc(c) => AccAgreed(c.acc, c.base, a2) /\ c.acc.run = Nothing
      /\ c.acc # Nothing => b.acc # Nothing /\ c.acc.decl = b.acc.decl
  BY <1>1, <1>2, ClearedWork
<1> HIDE DEF c
<1>4. /\ Same(c, w, {"scope", "known"}) /\ WorkOK(w, limits) /\ Scoped(w)
      /\ \A s : Tracks(c, s, limits) => Tracks(w, s, limits)
      /\ Tracks(w, told, limits) /\ told \subseteq Items
  BY <1>3, InvariantFacts, ReconciledWork
<1> HIDE DEF w
<1>5. /\ w.gen = work.gen + 1 /\ w.rows = work.rows /\ w.req = c.req /\ w.ver = Nothing /\ w.acc = c.acc /\ w.base = c.base
      /\ w.flow = c.flow
  BY <1>3, <1>4 DEF Same, WorkOK, WorkFields
<1> HIDE DEF told
<1>6. Tracks(w, seen, limits) /\ seen \subseteq Items
  <2>1. CASE w.req # work.req
    BY <1>4, <2>1
  <2>2. CASE w.req = work.req
    <3>1. Tracks(w, past.seen, limits) /\ past.seen \subseteq Items
      BY <1>3, <1>4, <1>5, <2>2 DEF IInv, PastOK
    <3> QED
      BY <1>4, <2>2, <3>1, TracksBoth
  <2> QED
    BY <2>1, <2>2
<1>7. agreed = a2 \/ w.acc = Nothing
  BY <1>2, <1>3, <1>5
<1>8. agreed \in {Nothing} \cup [decl : {Nothing} \cup Declaration, config : 0..1]
  <2>1. CASE ~reanchor
    BY <2>1 DEF IInv, PastOK
  <2>2. CASE reanchor
    <3>1. w.acc # Nothing => w.acc.decl \in Declaration
      BY <1>3, <1>5 DEF HasAcc, AccAgreed, AccShape
    <3>2. file.config \in 0..1
      BY InvariantFacts DEF FileOK, Files
    <3> QED
      BY <2>2, <3>1, <3>2
  <2> QED
    BY <2>1, <2>2
<1> HIDE DEF agreed, seen
<1>9. PastOK(past', limits) /\ past'.seen = seen /\ past'.agreed = agreed /\ past'.runs = past.runs /\ past'.ran = past.ran
  BY <1>1, <1>6, <1>8 DEF IInv, PastOK
<1>10. VerOK(w, past', limits)
  BY <1>2, <1>3, <1>5 DEF VerOK, Reopened
<1>11. AccOK(w, past', limits)
  BY <1>3, <1>5, <1>7, <1>9 DEF AccOK, HasAcc, AccAgreed
<1>12. RowsOK(w, closing)
  <2>1. work.gen \in Nat /\ work.rows \in Seq(RowRecord)
    BY InvariantFacts, LimitsTyped DEF WorkOK, FileOK, RowsOK
  <2>2. \A k \in DOMAIN w.rows : w.rows[k].gen <= w.gen
    <3> TAKE k \in DOMAIN w.rows
    <3>1. work.rows[k] \in RowRecord /\ work.rows[k].gen <= work.gen
      BY <1>5, <2>1, InvariantFacts DEF RowsOK
    <3> QED
      BY <1>5, <2>1, <3>1 DEF RowRecord
  <2> QED
    BY <1>5, <2>2, InvariantFacts DEF RowsOK
<1>13. JobsOK(jobs, w, past')
  BY <1>5, <1>9, InvariantFacts, LimitsTyped DEF IInv, JobsOK, WorkOK, FileOK
<1>14. FlowOK(w, past') /\ PlanOK(w, past', limits)
  BY <1>3, <1>4, <1>5, <1>6, <1>9 DEF FlowOK, PlanOK
<1> QED
  BY <1>1, <1>4, <1>9, <1>10, <1>11, <1>12, <1>13, <1>14 DEF IInv

-----------------------------------------------------------------------------
(* The beginning.                                                          *)

(* A new Work is of its type.                                              *)
LEMMA FirstWorkOK ==
    ASSUME limits \in Limits
    PROVE  /\ WorkOK(FirstWork, limits) /\ Scoped(FirstWork) /\ FirstWork.acc = Nothing /\ FirstWork.ver = Nothing
           /\ FirstWork.rows = <<>> /\ FirstWork.gen = 0 /\ FirstWork.req = 0 /\ FirstWork.base = 0
           /\ FirstWork.flow.status = "none" /\ FirstWork.flow.exec = Nothing /\ FirstWork.known = {}
<1>1. NoFlow \in Flows /\ NoScope \in Scopes /\ NoScope.ids = {} /\ NoScope.epic = FALSE /\ NoScope.req = Nothing
      /\ NoFlow.status = "none" /\ NoFlow.exec = Nothing
  BY DEF NoFlow, Flows, NoScope, Scopes
<1>2. /\ DOMAIN FirstWork = WorkFields /\ FirstWork.status = "active" /\ FirstWork.gen = 0 /\ FirstWork.req = 0
      /\ FirstWork.assess = Nothing /\ FirstWork.gate = Nothing /\ FirstWork.base = 0 /\ FirstWork.flow = NoFlow
      /\ FirstWork.scope = NoScope /\ FirstWork.known = {} /\ FirstWork.route = Nothing /\ FirstWork.ref = FALSE
      /\ FirstWork.spec = Nothing /\ FirstWork.ver = Nothing /\ FirstWork.acc = Nothing /\ FirstWork.rows = <<>>
  BY DEF FirstWork, WorkFields
<1>3. 0 \in 0..limits.gens
  BY LimitsTyped
<1>4. WorkOK(FirstWork, limits)
  <2> DEFINE w == FirstWork
  <2>1. /\ DOMAIN w = WorkFields
        /\ w.status \in {"active", "completed"} /\ w.gen \in 0..limits.gens /\ w.req \in 0..1 /\ w.base \in 0..1
        /\ w.route \in {Nothing, 0, 1}
    BY <1>2, <1>3
  <2>5. w.ref \in BOOLEAN
    BY <1>2, Zenon
  <2>2. w.scope \in Scopes /\ w.known \subseteq Items /\ w.flow \in Flows
    BY <1>1, <1>2
  <2>3. w.spec = Nothing /\ w.assess = Nothing /\ w.gate = Nothing
    BY <1>2
  <2> HIDE DEF w
  <2>4. WorkOK(w, limits)
    BY <2>1, <2>2, <2>3, <2>5 DEF WorkOK
  <2> QED
    BY <2>4 DEF w
<1>5. Scoped(FirstWork)
  BY <1>1, <1>2 DEF Scoped
<1> QED
  BY <1>1, <1>2, <1>4, <1>5

(* So is one that was prepared up to its gate.                             *)
LEMMA PreparedWorkOK ==
    ASSUME FileOK(file, plan, limits), file.req = 0, file.spec = 0
    PROVE  LET w == PreparedWork
           IN /\ WorkOK(w, limits) /\ Scoped(w) /\ Tracks(w, Told(w), limits) /\ Told(w) \subseteq Items
              /\ w.req = 0 /\ w.gen = 1 /\ w.base = 0 /\ w.ver = Nothing /\ w.rows = <<>> /\ w.flow.req = 0
              /\ w.acc = [decl |-> [req |-> 0, spec |-> 0], anchor |-> [decl |-> [req |-> 0, spec |-> 0], src |-> 0],
                          run |-> Nothing, owned |-> 0]
<1> DEFINE assess == [profile |-> limits.profile, rev |-> 1, req |-> 0, clear |-> TRUE]
           gate == IF limits.profile = "light" THEN Nothing ELSE [req |-> 0, rev |-> 1]
           flow == [NoFlow EXCEPT !.status = "completed", !.req = 0, !.exec = "ok", !.art = 0]
           spec == [req |-> 0, ver |-> 0]
           scope == IF Kind = "sprint" THEN [Scope("bound", Present, FALSE) EXCEPT !.req = 0]
                    ELSE IF plan = Nothing THEN Scope("none", {}, FALSE) ELSE NoScope
           route == IF Kind = "spec" THEN 0 ELSE Nothing
           acc == [decl |-> [req |-> 0, spec |-> 0], anchor |-> [decl |-> [req |-> 0, spec |-> 0], src |-> 0],
                   run |-> Nothing, owned |-> 0]
           e == [FirstWork EXCEPT !.gen = 1, !.assess = assess, !.gate = gate, !.flow = flow, !.ref = TRUE, !.spec = spec,
                                  !.scope = scope, !.route = route, !.acc = acc]
<1>1. DOMAIN FirstWork = WorkFields /\ FirstWork.status = "active" /\ FirstWork.scope = NoScope
  BY DEF FirstWork, WorkFields
<1>2. limits.revs \in Nat \ {0} /\ limits.gens \in Nat \ {0} /\ limits.profile \in {"light", "standard"} /\ limits \in Limits
  BY LimitsTyped DEF FileOK
<1>3. assess \in [profile : {"light", "standard"}, rev : 1..limits.revs, req : 0..1, clear : BOOLEAN]
  <2>1. 1 \in 1..limits.revs /\ 0 \in 0..1 /\ TRUE \in BOOLEAN
    BY <1>2
  <2> QED
    BY <1>2, <2>1
<1>4. gate \in {Nothing} \cup [req : 0..1, rev : 1..limits.revs]
  BY <1>2
<1>5. flow \in Flows /\ flow.req = 0
  <2>1. NoFlow \in Flows
    BY DEF NoFlow, Flows
  <2> QED
    BY <2>1 DEF Flows
<1>6. scope \in Scopes /\ scope.req \in {Nothing, 0} /\ (scope.mode # "bound" => scope.ids = {} /\ ~scope.epic)
  <2>1. CASE Kind = "sprint"
    <3> DEFINE all == Scope("bound", Present, FALSE)
    <3>1. all \in Scopes /\ all.mode = "bound"
      BY PresentTyped DEF Scope, Scopes, FileOK
    <3> HIDE DEF all
    <3>2. scope = [all EXCEPT !.req = 0]
      BY <2>1 DEF all
    <3> HIDE DEF scope
    <3> QED
      BY <3>1, <3>2 DEF Scopes
  <2>2. CASE Kind # "sprint" /\ plan = Nothing
    <3>1. scope = Scope("none", {}, FALSE)
      BY <2>2
    <3> HIDE DEF scope
    <3> QED
      BY <3>1 DEF Scope, Scopes
  <2>3. CASE Kind # "sprint" /\ plan # Nothing
    <3>1. scope = NoScope
      BY <2>3
    <3> HIDE DEF scope
    <3> QED
      BY <3>1 DEF NoScope, Scopes
  <2> QED
    BY <2>1, <2>2, <2>3
<1>7. route \in {Nothing, 0, 1} /\ spec \in [req : 0..1, ver : 0..1]
  OBVIOUS
<1> DEFINE w == PreparedWork
<1>8. w = Reconciled(e)
  BY <1>1 DEF PreparedWork
<1> HIDE DEF assess, gate, flow, spec, scope, route, acc, w
<1>9. /\ e.gen = 1 /\ e.assess = assess /\ e.gate = gate /\ e.flow = flow /\ e.ref = TRUE /\ e.spec = spec /\ e.scope = scope
      /\ e.route = route /\ e.acc = acc /\ DOMAIN e = WorkFields /\ e.status = "active"
      /\ e.req = FirstWork.req /\ e.base = FirstWork.base /\ e.known = FirstWork.known /\ e.ver = FirstWork.ver
      /\ e.rows = FirstWork.rows
  BY <1>1 DEF WorkFields
<1> HIDE DEF e
<1>10. e.req = 0 /\ e.base = 0 /\ e.known = {} /\ e.ver = Nothing /\ e.rows = <<>>
  BY <1>2, <1>9, FirstWorkOK
<1>11. WorkOK(e, limits)
  <2>1. e.gen \in 0..limits.gens /\ e.req \in 0..1 /\ e.base \in 0..1 /\ e.known \subseteq Items /\ e.status \in {"active", "completed"}
    BY <1>2, <1>9, <1>10
  <2>2. e.ref \in BOOLEAN
    BY <1>9, Zenon
  <2> QED
    BY <1>3, <1>4, <1>5, <1>6, <1>7, <1>9, <2>1, <2>2 DEF WorkOK
<1>12. Scoped(e)
  BY <1>6, <1>9, <1>10 DEF Scoped
<1>13. /\ Same(e, w, {"scope", "known"}) /\ WorkOK(w, limits) /\ Scoped(w) /\ Tracks(w, Told(w), limits) /\ Told(w) \subseteq Items
  BY <1>8, <1>11, <1>12, ReconciledWork
<1>14. /\ w.req = 0 /\ w.gen = 1 /\ w.base = 0 /\ w.ver = Nothing /\ w.rows = <<>> /\ w.flow = flow /\ w.acc = acc
  BY <1>9, <1>10, <1>13 DEF Same, WorkFields
<1>15. w.flow.req = 0
  BY <1>5, <1>14
<1> QED
  BY <1>13, <1>14, <1>15 DEF w, acc

(* The invariant holds initially.                                          *)
LEMMA InitOK == ASSUME Init PROVE IInv
<1>1. /\ limits \in Limits /\ plan = limits.plan /\ jobs = {} /\ file.req = 0 /\ file.spec = 0 /\ file.config = 0
      /\ closing = [c \in Closers |-> [at |-> "out", row |-> 0]]
      /\ file = [req |-> 0, code |-> 0, spec |-> 0, config |-> 0, out |-> 0]
  BY DEF Init
<1>2. FileOK(file, plan, limits)
  <2>1. 0 \in 0..limits.runs /\ plan \in Plans
    BY <1>1, LimitsTyped
  <2> QED
    BY <1>1, <2>1 DEF FileOK, Files
<1>3. ASSUME NEW w, w.rows = <<>>
      PROVE  RowsOK(w, closing)
  <2>1. closing \in [Closers -> ClosingRecord] /\ \A c \in Closers : closing[c].at = "out" /\ closing[c].row = 0
    BY <1>1 DEF ClosingRecord
  <2>2. w.rows \in Seq(RowRecord) /\ Len(w.rows) = 0 /\ DOMAIN w.rows = {}
    BY <1>3
  <2> QED
    BY <2>1, <2>2 DEF RowsOK
<1>4. JobsOK(jobs, work, past)
  BY <1>1 DEF JobsOK
<1>5. 0 \in 0..limits.runs
  BY <1>1, LimitsTyped
<1>6. CASE ~limits.prepared
  <2>1. work = FirstWork /\ past = [seen |-> {}, ran |-> {}, agreed |-> Nothing, runs |-> 0]
    BY <1>6 DEF Init
  <2>2. PastOK(past, limits) /\ past.seen = {}
    BY <1>5, <2>1 DEF PastOK
  <2>3. /\ WorkOK(work, limits) /\ Scoped(work) /\ work.acc = Nothing /\ work.ver = Nothing /\ work.rows = <<>>
        /\ work.req = 0 /\ work.flow.status = "none" /\ work.flow.exec = Nothing
    BY <1>1, <2>1, FirstWorkOK
  <2>4. Tracks(work, {}, limits)
    BY DEF Tracks
  <2>5. VerOK(work, past, limits) /\ AccOK(work, past, limits) /\ FlowOK(work, past) /\ PlanOK(work, past, limits)
    BY <1>1, <2>2, <2>3, <2>4 DEF VerOK, AccOK, HasAcc, FlowOK, PlanOK
  <2> QED
    BY <1>2, <1>3, <1>4, <2>2, <2>3, <2>5 DEF IInv
<1>7. CASE limits.prepared
  <2> DEFINE decl == [req |-> 0, spec |-> 0]
             anchor == [decl |-> decl, src |-> 0]
             acc == [decl |-> decl, anchor |-> anchor, run |-> Nothing, owned |-> 0]
  <2>1. work = PreparedWork /\ past = [seen |-> Told(work), ran |-> {0}, agreed |-> Current, runs |-> 0]
    BY <1>7 DEF Init
  <2>2. /\ WorkOK(work, limits) /\ Scoped(work) /\ Tracks(work, Told(work), limits) /\ Told(work) \subseteq Items
        /\ work.req = 0 /\ work.gen = 1 /\ work.base = 0 /\ work.ver = Nothing /\ work.rows = <<>> /\ work.flow.req = 0
        /\ work.acc = acc
    BY <1>1, <1>2, <2>1, PreparedWorkOK
  <2>3. decl \in Declaration /\ anchor \in Anchors /\ anchor.decl = decl /\ anchor.src = 0
    BY DEF Declaration, Anchors
  <2>4. Current = [decl |-> decl, config |-> 0]
    BY <1>1 DEF Current
  <2> HIDE DEF decl, anchor
  <2>5. /\ acc.decl = decl /\ acc.anchor = anchor /\ acc.run = Nothing /\ acc.owned = 0
        /\ DOMAIN acc = {"decl", "anchor", "run", "owned"}
    OBVIOUS
  <2> HIDE DEF acc
  <2>6. PastOK(past, limits) /\ past.seen = Told(work) /\ past.ran = {0} /\ past.agreed = [decl |-> decl, config |-> 0]
    BY <1>5, <2>1, <2>2, <2>3, <2>4 DEF PastOK
  <2>7. AccShape(acc, limits)
    BY <1>5, <2>3, <2>5 DEF AccShape
  <2>8. AccOK(work, past, limits)
    BY <1>1, <2>2, <2>3, <2>5, <2>6, <2>7 DEF AccOK
  <2>9. VerOK(work, past, limits) /\ FlowOK(work, past) /\ PlanOK(work, past, limits)
    BY <1>1, <2>2, <2>6 DEF VerOK, FlowOK, PlanOK
  <2> QED
    BY <1>2, <1>3, <1>4, <2>2, <2>6, <2>8, <2>9 DEF IInv
<1> QED
  BY <1>6, <1>7

(* A selection is a set of items and whether it is an epic.                *)
LEMMA SelectionTyped == ASSUME NEW sel \in Selections PROVE sel[1] \in SUBSET Items /\ sel[2] \in BOOLEAN
<1>1. CASE Kind = "sprint"
  <2>1. sel \in (SUBSET Items) \X BOOLEAN
    BY <1>1 DEF Selections
  <2> QED
    BY <2>1
<1>2. CASE Kind # "sprint"
  <2>1. sel = <<{}, FALSE>>
    BY <1>2 DEF Selections
  <2>2. sel[1] = {} /\ sel[2] = FALSE
    BY <2>1
  <2> QED
    BY <2>2, Zenon
<1> QED
  BY <1>1, <1>2

(* Every step keeps the invariant.                                         *)
LEMMA NextKeeps == ASSUME IInv, Next PROVE IInv'
<1>0. /\ limits.unver \subseteq BOOLEAN /\ limits.execs \subseteq {"ok", "failed"} /\ limits.outcomes \subseteq Outcomes
      /\ limits.profiles \subseteq {"light", "standard"} /\ limits.clear \subseteq BOOLEAN
  BY InvariantFacts, LimitsTyped DEF FileOK
<1>1. ASSUME NEW unver \in limits.unver, Select(unver) PROVE IInv'
  BY <1>0, <1>1, SelectStep
<1>2. ASSUME NEW unver \in limits.unver, NEW exec \in limits.execs, Execute(exec, unver) PROVE IInv'
  BY <1>0, <1>2, ExecuteStep
<1>3. ASSUME NEW unver \in limits.unver, NEW ask \in Asks, NEW sel \in Selections, CompleteFlow(unver, ask, sel[1], sel[2])
      PROVE  IInv'
  BY <1>0, <1>3, CompleteFlowStep, SelectionTyped
<1>4. ASSUME NEW ask \in {"named", "none"}, NEW sel \in Selections, PlanBind(ask, sel[1], sel[2]) PROVE IInv'
  BY <1>4, PlanBindStep, SelectionTyped
<1>5. ASSUME NEW profile \in limits.profiles, NEW clear \in limits.clear, Assess(profile, clear) PROVE IInv'
  BY <1>0, <1>5, AssessStep
<1>6. ASSUME Look \/ SpecBind \/ ProposeRoute \/ Gate \/ Configure \/ VerifyStart \/ AcceptStart \/ RemoveOutput PROVE IInv'
  BY <1>6, LookStep, SpecBindStep, ProposeRouteStep, GateStep, ConfigureStep, VerifyStartStep, AcceptStartStep, RemoveOutputStep
<1>7. ASSUME NEW o \in limits.outcomes, AcceptReuse(o) PROVE IInv'
  BY <1>0, <1>7, AcceptReuseStep
<1>8. ASSUME NEW j \in jobs, WriteOutput(j) \/ Dies(j) PROVE IInv'
  BY <1>8, WriteOutputStep, DiesStep
<1>9. ASSUME NEW j \in jobs, NEW o \in limits.outcomes, VerifyFinish(j, o) \/ AcceptFinish(j, o) PROVE IInv'
  BY <1>0, <1>9, VerifyFinishStep, AcceptFinishStep
<1>10. ASSUME NEW c \in Closers, Judge(c) \/ Launch(c) \/ Close(c) \/ DiesClosing(c) PROVE IInv'
  BY <1>10, JudgeStep, LaunchStep, CloseStep, DiesClosingStep
<1>11. ASSUME NEW c \in Closers, NEW ok \in BOOLEAN, Ends(c, ok) PROVE IInv'
  BY <1>11, EndsStep
<1>12. ASSUME NEW k \in 1..Len(work.rows), NEW applied \in BOOLEAN, Resolve(k, applied) PROVE IInv'
  BY <1>12, ResolveStep
<1>13. ASSUME NEW reanchor \in BOOLEAN, Reopen(reanchor) PROVE IInv'
  BY <1>13, ReopenStep
<1>14. ASSUME NEW f \in {"req", "code", "spec", "config"}, Edit(f) PROVE IInv'
  BY <1>14, EditStep
<1>15. ASSUME NEW p \in limits.plans, EditPlan(p) PROVE IInv'
  BY <1>15, EditPlanStep
<1> QED
  BY <1>1, <1>2, <1>3, <1>4, <1>5, <1>6, <1>7, <1>8, <1>9, <1>10, <1>11, <1>12, <1>13, <1>14, <1>15 DEF Next

(* So does a step that changes nothing.                                    *)
LEMMA StutterKeeps == ASSUME IInv, UNCHANGED vars PROVE IInv'
  BY DEF IInv, vars

(* The inductive invariant holds whatever the edits, runs, deaths,         *)
(* observations, completions and reopenings.                               *)
THEOREM InvariantHolds == Spec => []IInv
<1>1. Init => IInv
  BY InitOK
<1>2. IInv /\ [Next]_vars => IInv'
  BY NextKeeps, StutterKeeps
<1> QED
  BY <1>1, <1>2, PTL DEF Spec

(* A Work's verification and acceptance are of its generation, its         *)
(* declaration and its anchor, only the last row of its journal may be     *)
(* unresolved, and at most one completion command runs at a time:          *)
(* work_verification.py, sdd_acceptance.py and work_completion.py keep     *)
(* their records sound, for every plan, every edit and every bound.        *)
THEOREM RecordsAreSound == Spec => []RecordsSound
<1>1. IInv => RecordsSound
  BY InvariantMeans DEF RecordsSound
<1> QED
  BY <1>1, InvariantHolds, PTL

-----------------------------------------------------------------------------
(* Completion, and late results.                                           *)

(* A step that touches neither the runs nor the status.                    *)
Quiet == work'.ver = work.ver /\ work'.acc = work.acc /\ work'.status = work.status

(* Saving and reconciling touch neither.                                   *)
LEMMA ReconciledQuiet ==
    ASSUME NEW w, DOMAIN w = WorkFields
    PROVE  /\ Reconciled(w).ver = w.ver /\ Reconciled(w).acc = w.acc /\ Reconciled(w).status = w.status
           /\ Saved(w).ver = w.ver /\ Saved(w).acc = w.acc /\ Saved(w).status = w.status
<1>1. ASSUME NEW v, DOMAIN v = WorkFields
      PROVE  Saved(v).ver = v.ver /\ Saved(v).acc = v.acc /\ Saved(v).status = v.status
  BY <1>1 DEF Saved, WorkFields
<1> DEFINE e == Established(w)
<1>2. DOMAIN e = WorkFields /\ e.ver = w.ver /\ e.acc = w.acc /\ e.status = w.status
  BY DEF Established, WorkFields
<1> HIDE DEF e
<1> QED
  BY <1>1, <1>2 DEF Reconciled, e

(* Nor do the steps of the workflow, the assessment and the gate.          *)
LEMMA FlowsAreQuiet ==
    ASSUME IInv,
           \/ \E unver \in limits.unver : Select(unver)
           \/ \E unver \in limits.unver, exec \in limits.execs : Execute(exec, unver)
           \/ \E unver \in limits.unver, ask \in Asks, sel \in Selections : CompleteFlow(unver, ask, sel[1], sel[2])
           \/ \E profile \in limits.profiles, clear \in limits.clear : Assess(profile, clear)
           \/ Gate
    PROVE  Quiet
<1>1. DOMAIN work = WorkFields
  BY InvariantFacts
<1>2. ASSUME NEW unver, Select(unver) PROVE Quiet
  BY <1>1, <1>2 DEF Select, Quiet, WorkFields
<1>3. ASSUME NEW unver, NEW exec, Execute(exec, unver) PROVE Quiet
  BY <1>1, <1>3 DEF Execute, Quiet, WorkFields
<1>4. ASSUME NEW unver, NEW ask, NEW sel, NEW epic, CompleteFlow(unver, ask, sel, epic) PROVE Quiet
  BY <1>1, <1>4 DEF CompleteFlow, Quiet, WorkFields
<1>5. ASSUME NEW profile, NEW clear, Assess(profile, clear) PROVE Quiet
  BY <1>1, <1>5 DEF Assess, Quiet, WorkFields
<1>6. ASSUME Gate PROVE Quiet
  BY <1>1, <1>6 DEF Gate, Quiet, WorkFields
<1> QED
  BY <1>2, <1>3, <1>4, <1>5, <1>6

(* Nor do the steps of the plan, the SPEC and the route.                   *)
LEMMA PlansAreQuiet ==
    ASSUME IInv,
           \/ \E ask \in {"named", "none"}, sel \in Selections : PlanBind(ask, sel[1], sel[2])
           \/ Look \/ SpecBind \/ ProposeRoute \/ \E c \in Closers : Judge(c)
    PROVE  Quiet
<1>1. DOMAIN work = WorkFields
  BY InvariantFacts
<1>2. ASSUME NEW ask, NEW sel, NEW epic, PlanBind(ask, sel, epic) PROVE Quiet
  <2> DEFINE e == [work EXCEPT !.scope = [NewScope(work, ask, sel, epic) EXCEPT !.req = work.req]]
  <2>1. work' = Reconciled(e)
    BY <1>2 DEF PlanBind
  <2>2. DOMAIN e = WorkFields /\ e.ver = work.ver /\ e.acc = work.acc /\ e.status = work.status
    BY <1>1 DEF WorkFields
  <2> HIDE DEF e
  <2> QED
    BY <2>1, <2>2, ReconciledQuiet DEF Quiet
<1>3. ASSUME Look \/ \E c \in Closers : Judge(c) PROVE Quiet
  BY <1>1, <1>3, ReconciledQuiet DEF Look, Judge, Quiet
<1>4. ASSUME SpecBind PROVE Quiet
  <2> DEFINE e == [work EXCEPT !.spec = SpecBinding, !.ref = TRUE]
  <2>1. work' = Reconciled(e)
    BY <1>4 DEF SpecBind
  <2>2. DOMAIN e = WorkFields /\ e.ver = work.ver /\ e.acc = work.acc /\ e.status = work.status
    BY <1>1 DEF WorkFields
  <2> HIDE DEF e
  <2> QED
    BY <2>1, <2>2, ReconciledQuiet DEF Quiet
<1>5. ASSUME ProposeRoute PROVE Quiet
  <2> DEFINE e == [work EXCEPT !.route = work.req]
  <2>1. work' = Reconciled(e)
    BY <1>5 DEF ProposeRoute
  <2>2. DOMAIN e = WorkFields /\ e.ver = work.ver /\ e.acc = work.acc /\ e.status = work.status
    BY <1>1 DEF WorkFields
  <2> HIDE DEF e
  <2> QED
    BY <2>1, <2>2, ReconciledQuiet DEF Quiet
<1> QED
  BY <1>2, <1>3, <1>4, <1>5

(* Nor do edits, outputs, deaths and the completion command.               *)
LEMMA OthersAreQuiet ==
    ASSUME IInv,
           \/ \E j \in jobs : WriteOutput(j) \/ Dies(j)
           \/ \E c \in Closers : Launch(c) \/ DiesClosing(c)
           \/ \E c \in Closers, ok \in BOOLEAN : Ends(c, ok)
           \/ \E k \in 1..Len(work.rows), applied \in BOOLEAN : Resolve(k, applied)
           \/ \E f \in {"req", "code", "spec", "config"} : Edit(f)
           \/ \E p \in limits.plans : EditPlan(p)
           \/ RemoveOutput \/ UNCHANGED vars
    PROVE  Quiet
<1>1. DOMAIN work = WorkFields
  BY InvariantFacts
<1>2. ASSUME NEW rows, work' = [work EXCEPT !.rows = rows] PROVE Quiet
  BY <1>1, <1>2 DEF Quiet, WorkFields
<1>3. ASSUME work' = work PROVE Quiet
  BY <1>3 DEF Quiet
<1>4. ASSUME NEW c \in Closers, Launch(c) PROVE Quiet
  BY <1>2, <1>3, <1>4 DEF Launch
<1>5. ASSUME NEW c \in Closers, NEW ok \in BOOLEAN, Ends(c, ok) PROVE Quiet
  BY <1>2, <1>5 DEF Ends
<1>6. ASSUME NEW k \in 1..Len(work.rows), NEW applied \in BOOLEAN, Resolve(k, applied) PROVE Quiet
  BY <1>2, <1>6 DEF Resolve
<1> QED
  BY <1>3, <1>4, <1>5, <1>6 DEF WriteOutput, Dies, DiesClosing, Edit, EditPlan, RemoveOutput, vars

(* The close of a Work keeps its runs.                                     *)
LEMMA CloseKeeps == ASSUME IInv, NEW c \in Closers, Close(c) PROVE work'.ver = work.ver /\ work'.acc = work.acc
<1> DEFINE w == Seen(work)
<1>1. DOMAIN work = WorkFields
  BY InvariantFacts
<1>2. w.ver = work.ver /\ w.acc = work.acc
  BY <1>1, ReconciledQuiet DEF Seen
<1>3. DOMAIN w = WorkFields
  BY <1>1 DEF Seen, Saved
<1>4. work' = w \/ work' = [w EXCEPT !.status = "completed"]
  BY DEF Close
<1> HIDE DEF w
<1> QED
  BY <1>2, <1>3, <1>4 DEF WorkFields

(* A step leaves a verdict that is over alone.                             *)
VerdictsStand ==
    /\ (Over(work.ver) /\ work'.ver # Nothing /\ work'.ver.id = work.ver.id) => work'.ver = work.ver
    /\ (Over(RunOf(work)) /\ RunOf(work') # Nothing /\ RunOf(work').id = RunOf(work).id) => RunOf(work') = RunOf(work)

(* An executor whose run was replaced changes nothing as it ends.          *)
LateIgnored ==
    \A j \in jobs \ jobs' :
        /\ (j.kind = "verify" /\ work.ver # Nothing /\ work.ver.id # j.id) => work'.ver = work.ver
        /\ (j.kind = "accept" /\ RunOf(work) # Nothing /\ RunOf(work).id # j.id) => work'.acc = work.acc

(* A step does both.                                                       *)
Calm == VerdictsStand /\ LateIgnored

(* A step that keeps the runs does.                                        *)
LEMMA QuietIsCalm == ASSUME work'.ver = work.ver, work'.acc = work.acc PROVE Calm
  BY DEF Calm, VerdictsStand, LateIgnored, RunOf

(* Every run so far has a smaller number than the next.                    *)
LEMMA RunsAreCounted ==
    ASSUME IInv
    PROVE  /\ Over(work.ver) => work.ver.id # past.runs + 1
           /\ RunOf(work) # Nothing => RunOf(work) = work.acc.run /\ HasAcc(work) /\ RunOf(work).id # past.runs + 1
<1>1. past.runs \in Nat
  BY LimitsTyped DEF IInv, PastOK, FileOK
<1>2. work.ver # Nothing => work.ver.id \in Nat /\ work.ver.id <= past.runs
  BY DEF IInv, VerOK, VerShape
<1>3. HasAcc(work) /\ work.acc.run # Nothing => work.acc.run.id \in Nat /\ work.acc.run.id <= past.runs
  BY DEF IInv, AccOK, AccShape, RunShape, RunOK
<1>4. RunOf(work) # Nothing => RunOf(work) = work.acc.run /\ HasAcc(work)
  BY DEF RunOf, HasAcc
<1> QED
  BY <1>1, <1>2, <1>3, <1>4 DEF Over

(* Declaring the acceptance leaves verdicts alone: the run is gone with    *)
(* them.                                                                   *)
LEMMA ConfigureCalm == ASSUME IInv, Configure PROVE Calm /\ work'.status = work.status
<1>1. DOMAIN work = WorkFields /\ work' = [work EXCEPT !.acc = Configured(work)] /\ jobs' = jobs
  BY InvariantFacts DEF Configure, OnlyWork
<1>2. work'.ver = work.ver /\ work'.acc = Configured(work) /\ work'.status = work.status
  BY <1>1 DEF WorkFields
<1>3. RunOf(work') = Nothing
  BY <1>2 DEF RunOf, Configured
<1> QED
  BY <1>1, <1>2, <1>3 DEF Calm, VerdictsStand, LateIgnored

(* So does starting a verification, which takes a new number.              *)
LEMMA VerifyStartCalm == ASSUME IInv, VerifyStart PROVE Calm /\ work'.status = work.status
<1> DEFINE w == Saved(work)
           v == [id |-> past.runs + 1, gen |-> w.gen, status |-> "running", on |-> Technical(w), saw |-> Sees(w)]
<1>1. work' = [w EXCEPT !.ver = v] /\ jobs \subseteq jobs'
  BY DEF VerifyStart
<1>2. DOMAIN w = WorkFields /\ w.acc = work.acc /\ w.status = work.status
  BY InvariantFacts, SavedWork, ReconciledQuiet DEF WorkOK
<1>3. v.id = past.runs + 1
  OBVIOUS
<1> HIDE DEF w, v
<1>4. work'.ver = v /\ work'.acc = work.acc /\ work'.status = work.status
  BY <1>1, <1>2 DEF WorkFields
<1>5. VerdictsStand
  BY <1>3, <1>4, RunsAreCounted DEF VerdictsStand, RunOf
<1>6. LateIgnored
  BY <1>1 DEF LateIgnored
<1> QED
  BY <1>4, <1>5, <1>6 DEF Calm

(* So does the end of a verification, which needs the run to be its own    *)
(* and to be running.                                                      *)
LEMMA VerifyFinishCalm == ASSUME IInv, NEW j \in jobs, NEW outcome, VerifyFinish(j, outcome) PROVE Calm /\ work'.status = work.status
<1>1. j.kind = "verify" /\ jobs' = jobs \ {j}
  BY DEF VerifyFinish
<1>2. CASE ~VerEligible(j)
  BY <1>2, QuietIsCalm DEF VerifyFinish
<1>3. CASE VerEligible(j)
  <2> DEFINE w == Saved(work)
             status == IF ~Readable(work) \/ Technical(work) # work.ver.on THEN "stale" ELSE outcome
  <2>1. work' = [w EXCEPT !.ver.status = status]
    BY <1>3 DEF VerifyFinish
  <2>2. DOMAIN w = WorkFields /\ w.acc = work.acc /\ w.status = work.status
    BY InvariantFacts, SavedWork, ReconciledQuiet DEF WorkOK
  <2> HIDE DEF w, status
  <2>3. work'.acc = work.acc /\ work'.status = work.status
    BY <2>1, <2>2 DEF WorkFields
  <2>4. ~Over(work.ver) /\ work.ver.id = j.id
    BY <1>3 DEF VerEligible, Over
  <2>5. VerdictsStand
    BY <2>3, <2>4 DEF VerdictsStand, RunOf
  <2>6. LateIgnored
    BY <1>1, <2>3, <2>4 DEF LateIgnored
  <2> QED
    BY <2>3, <2>5, <2>6 DEF Calm
<1> QED
  BY <1>2, <1>3

(* So does starting an acceptance run.                                     *)
LEMMA AcceptStartCalm == ASSUME IInv, AcceptStart PROVE Calm /\ work'.status = work.status
<1> DEFINE r == NewAcceptance(work, past.runs + 1, Sees(work), FALSE)
           acc == [work.acc EXCEPT !.run = r]
<1>1. work' = [work EXCEPT !.acc = acc] /\ jobs \subseteq jobs' /\ HasAcc(work)
  BY DEF AcceptStart, MayAccept, HasAcc
<1>2. DOMAIN work.acc = {"decl", "anchor", "run", "owned"} /\ DOMAIN work = WorkFields
  BY <1>1, InvariantFacts DEF IInv, AccOK, AccShape
<1>3. acc.run = r /\ r.id = past.runs + 1
  BY <1>2 DEF NewAcceptance
<1> HIDE DEF acc, r
<1>4. work'.ver = work.ver /\ work'.acc = acc /\ work'.status = work.status
  BY <1>1, <1>2 DEF WorkFields
<1>5. VerdictsStand
  <2>1. RunOf(work') # Nothing => RunOf(work') = r
    BY <1>3, <1>4 DEF RunOf
  <2> QED
    BY <1>3, <1>4, <2>1, RunsAreCounted DEF VerdictsStand, Over
<1>6. LateIgnored
  BY <1>1 DEF LateIgnored
<1> QED
  BY <1>4, <1>5, <1>6 DEF Calm

(* So does its end.                                                        *)
LEMMA AcceptFinishCalm ==
    ASSUME IInv, NEW j \in jobs, NEW outcome \in Outcomes, AcceptFinish(j, outcome)
    PROVE  Calm /\ work'.status = work.status
<1>1. j.kind = "accept" /\ jobs' = jobs \ {j}
  BY DEF AcceptFinish
<1>2. CASE ~AccEligible(j)
  BY <1>2, QuietIsCalm DEF AcceptFinish
<1>3. CASE AccEligible(j)
  <2> DEFINE e == Finished(work, outcome)
  <2>1. work' = e
    BY <1>3 DEF AcceptFinish
  <2>2. AccShape(work.acc, limits) /\ RunShape(work.acc.run, limits)
    BY <1>3 DEF AccEligible, Running, HasAcc, IInv, AccOK, AccShape
  <2>3. Same(work, e, {"acc"})
    BY <2>2, InvariantFacts, FinishedFields
  <2> HIDE DEF e
  <2>4. work'.ver = work.ver /\ work'.status = work.status
    BY <2>1, <2>3, InvariantFacts DEF Same, WorkFields
  <2>5. ~Over(RunOf(work)) /\ RunOf(work).id = j.id
    BY <1>3 DEF AccEligible, Running, Over, RunOf
  <2>6. VerdictsStand
    BY <2>4, <2>5 DEF VerdictsStand
  <2>7. LateIgnored
    BY <1>1, <2>4, <2>5 DEF LateIgnored
  <2> QED
    BY <2>4, <2>6, <2>7 DEF Calm
<1> QED
  BY <1>2, <1>3

(* So does accepting on the strength of a verification, under a new        *)
(* number.                                                                 *)
LEMMA AcceptReuseCalm == ASSUME IInv, NEW outcome \in Outcomes, AcceptReuse(outcome) PROVE Calm /\ work'.status = work.status
<1> DEFINE r == NewAcceptance(work, past.runs + 1, work.ver.saw, TRUE)
           acc == [work.acc EXCEPT !.run = r]
           started == [work EXCEPT !.acc = acc]
           e == Finished(started, outcome)
<1>1. work' = e /\ jobs' = jobs /\ HasAcc(work) /\ MayRun /\ VerFresh(work)
  BY DEF AcceptReuse, MayAccept, HasAcc
<1>2. AccShape(work.acc, limits) /\ DOMAIN work = WorkFields
  BY <1>1, InvariantFacts DEF IInv, AccOK
<1>3. r.id = past.runs + 1 /\ RunShape(r, limits)
  <2>1. work.ver.saw \in Sights(limits)
    BY <1>1 DEF VerFresh, IInv, VerOK, VerShape
  <2>2. 0 \in 0..limits.runs /\ past.runs + 1 \in 1..limits.runs
    BY <1>1, RunCount
  <2>3. /\ r.id = past.runs + 1 /\ r.status = "running" /\ r.saw = work.ver.saw /\ r.out = 0
        /\ r.reused = TRUE /\ DOMAIN r = {"id", "status", "on", "saw", "out", "reused"}
    BY DEF NewAcceptance
  <2> HIDE DEF r
  <2> QED
    BY <2>1, <2>2, <2>3 DEF RunShape, RunStatuses
<1> HIDE DEF r
<1>4. /\ acc.run = r /\ acc.decl = work.acc.decl /\ acc.anchor = work.acc.anchor /\ acc.owned = work.acc.owned
      /\ DOMAIN acc = {"decl", "anchor", "run", "owned"}
  BY <1>2 DEF AccShape
<1> HIDE DEF acc
<1>5. started.acc = acc /\ started.ver = work.ver /\ started.status = work.status /\ DOMAIN started = WorkFields
  BY <1>2 DEF WorkFields
<1> HIDE DEF started
<1>6. AccShape(acc, limits)
  BY <1>2, <1>3, <1>4 DEF AccShape
<1>7. Same(started, e, {"acc"}) /\ e.acc.run.id = r.id
  BY <1>3, <1>4, <1>5, <1>6, InvariantFacts, FinishedFields
<1> HIDE DEF e
<1>8. work'.ver = work.ver /\ work'.status = work.status /\ work'.acc.run.id = past.runs + 1
  BY <1>1, <1>3, <1>5, <1>7 DEF Same, WorkFields
<1>9. VerdictsStand
  <2>1. RunOf(work') # Nothing => RunOf(work').id = past.runs + 1
    BY <1>8 DEF RunOf
  <2> QED
    BY <1>8, <2>1, RunsAreCounted DEF VerdictsStand, Over
<1> QED
  BY <1>1, <1>8, <1>9 DEF Calm, LateIgnored

(* So does reopening, which drops them.                                    *)
LEMMA ReopenCalm == ASSUME IInv, NEW reanchor \in BOOLEAN, Reopen(reanchor) PROVE Calm /\ work'.status = "active"
<1> DEFINE b == IF reanchor THEN Reanchored(work) ELSE work
           c == Cleared(b)
<1>1. work.gen < limits.gens /\ work' = Reconciled(c) /\ jobs' = jobs
  BY DEF Reopen
<1>2. PICK a2 : Reopened(b, a2)
  BY ReanchoredWork, UntouchedReopened
<1> HIDE DEF b
<1>3. DOMAIN c = WorkFields /\ c.ver = Nothing /\ c.status = "active" /\ (HasAcc(c) => c.acc.run = Nothing)
  BY <1>1, <1>2, ClearedWork DEF WorkOK
<1> HIDE DEF c
<1>4. work'.ver = Nothing /\ work'.acc = c.acc /\ work'.status = "active"
  BY <1>1, <1>3, ReconciledQuiet
<1>5. RunOf(work') = Nothing
  BY <1>3, <1>4 DEF RunOf, HasAcc
<1> QED
  BY <1>1, <1>4, <1>5 DEF Calm, VerdictsStand, LateIgnored

(* Every step is calm, and only the close of cao done completes a Work.    *)
LEMMA StepIsCalm == ASSUME IInv, [Next]_vars PROVE Calm /\ (Completes => \E c \in Closers : Close(c))
<1>0. limits.outcomes \subseteq Outcomes
  BY InvariantFacts, LimitsTyped DEF FileOK
<1>1. ASSUME Quiet PROVE Calm /\ ~Completes
  BY <1>1, QuietIsCalm DEF Quiet, Completes
<1>2. ASSUME Calm, work'.status = work.status PROVE Calm /\ ~Completes
  BY <1>2 DEF Completes
<1>3. ASSUME \/ \E unver \in limits.unver : Select(unver)
             \/ \E unver \in limits.unver, exec \in limits.execs : Execute(exec, unver)
             \/ \E unver \in limits.unver, ask \in Asks, sel \in Selections : CompleteFlow(unver, ask, sel[1], sel[2])
             \/ \E profile \in limits.profiles, clear \in limits.clear : Assess(profile, clear)
             \/ Gate
      PROVE  Calm /\ ~Completes
  BY <1>1, <1>3, FlowsAreQuiet
<1>4. ASSUME \/ \E ask \in {"named", "none"}, sel \in Selections : PlanBind(ask, sel[1], sel[2])
             \/ Look \/ SpecBind \/ ProposeRoute \/ \E c \in Closers : Judge(c)
      PROVE  Calm /\ ~Completes
  BY <1>1, <1>4, PlansAreQuiet
<1>5. ASSUME \/ \E j \in jobs : WriteOutput(j) \/ Dies(j)
             \/ \E c \in Closers : Launch(c) \/ DiesClosing(c)
             \/ \E c \in Closers, ok \in BOOLEAN : Ends(c, ok)
             \/ \E k \in 1..Len(work.rows), applied \in BOOLEAN : Resolve(k, applied)
             \/ \E f \in {"req", "code", "spec", "config"} : Edit(f)
             \/ \E p \in limits.plans : EditPlan(p)
             \/ RemoveOutput \/ UNCHANGED vars
      PROVE  Calm /\ ~Completes
  BY <1>1, <1>5, OthersAreQuiet
<1>6. ASSUME Configure \/ VerifyStart \/ AcceptStart PROVE Calm /\ ~Completes
  BY <1>2, <1>6, ConfigureCalm, VerifyStartCalm, AcceptStartCalm
<1>7. ASSUME NEW o \in limits.outcomes, AcceptReuse(o) PROVE Calm /\ ~Completes
  BY <1>0, <1>2, <1>7, AcceptReuseCalm
<1>8. ASSUME NEW j \in jobs, NEW o \in limits.outcomes, VerifyFinish(j, o) \/ AcceptFinish(j, o) PROVE Calm /\ ~Completes
  BY <1>0, <1>2, <1>8, VerifyFinishCalm, AcceptFinishCalm
<1>9. ASSUME NEW c \in Closers, Close(c) PROVE Calm
  BY <1>9, CloseKeeps, QuietIsCalm
<1>10. ASSUME NEW reanchor \in BOOLEAN, Reopen(reanchor) PROVE Calm /\ ~Completes
  BY <1>10, ReopenCalm DEF Completes
<1> QED
  BY <1>3, <1>4, <1>5, <1>6, <1>7, <1>8, <1>9, <1>10 DEF Next

(* What a close that completes the Work found: the Work with its           *)
(* observation saved was ready.                                            *)
LEMMA CompletingClose ==
    ASSUME IInv, NEW c \in Closers, Close(c), Completes
    PROVE  LET w == Saved(work)
           IN /\ WorkOK(w, limits) /\ Scoped(w) /\ Same(work, w, {"scope", "known"}) /\ Ready(w)
              /\ Tracks(w, past'.seen, limits) /\ work' = [w EXCEPT !.status = "completed"]
              /\ file' = file /\ plan' = plan
<1> DEFINE w == Saved(work)
<1>1. /\ Same(work, w, {"scope", "known"}) /\ WorkOK(w, limits) /\ Scoped(w) /\ Tracks(w, past.seen, limits)
      /\ Tracks(w, Told(w), limits)
  BY InvariantFacts, SavedWork
<1>2. work.status = "active" /\ work'.status = "completed"
  BY DEF Completes
<1>3. w.status = "active"
  BY <1>1, <1>2, InvariantFacts DEF Same, WorkFields
<1>4. /\ work' = IF Closable(w) THEN [w EXCEPT !.status = "completed"] ELSE w
      /\ past' = [past EXCEPT !.seen = @ \cup Told(w)] /\ UNCHANGED <<file, plan>>
  BY <1>2, <1>3 DEF Close, Seen
<1> HIDE DEF w
<1>5. Closable(w)
  BY <1>2, <1>3, <1>4
<1>6. past'.seen = past.seen \cup Told(w)
  BY <1>4 DEF IInv, PastOK
<1>7. Tracks(w, past'.seen, limits)
  BY <1>1, <1>6, TracksBoth
<1> QED
  BY <1>1, <1>4, <1>5, <1>7 DEF Closable, w

(* The acceptance of a ready Work rests on a run that began on the files   *)
(* as they are, and what was agreed to is current: the inputs recorded     *)
(* with the run match the files, and it began on them, but for the         *)
(* requirement and the SPEC of a verification that is reused.              *)
LEMMA CompletionEarned ==
    ASSUME IInv, NEW c \in Closers, Close(c), Completes
    PROVE  /\ RunOf(work') # Nothing
           /\ LET run == work'.acc.run IN
                 /\ run.saw.code = file.code /\ run.saw.decl = work'.acc.decl /\ run.saw.gen = work'.gen
                 /\ run.reused \/ (run.saw.req = file.req /\ run.saw.spec = file.spec)
           /\ past.agreed = Current
           /\ IF Profile(work') = "light" THEN work'.spec = [req |-> file.req, ver |-> file.spec] ELSE file.req \in past.ran
<1> DEFINE w == Saved(work)
<1>1. /\ WorkOK(w, limits) /\ Same(work, w, {"scope", "known"}) /\ Ready(w) /\ work' = [w EXCEPT !.status = "completed"]
  BY CompletingClose
<1> HIDE DEF w
<1>2. /\ w.acc = work.acc /\ w.gen = work.gen /\ w.base = work.base /\ w.flow = work.flow /\ w.spec = work.spec /\ w.req = work.req
      /\ w.assess = work.assess /\ DOMAIN w = WorkFields
  BY <1>1, InvariantFacts DEF Same, WorkFields
<1>3. work'.acc = work.acc /\ work'.gen = work.gen /\ work'.spec = work.spec /\ work'.assess = w.assess
  BY <1>1, <1>2 DEF WorkFields
<1>4. /\ work.acc # Nothing /\ work.acc.run # Nothing /\ work.acc.run.on = TaskInputs(w)
      /\ work.acc.anchor = [decl |-> work.acc.decl, src |-> file.spec] /\ work.acc.decl = Criteria
      /\ file.req = work.req /\ work.base = file.config
  BY <1>1, <1>2 DEF Ready, LifecycleReady, Accepted, AccReady, Stands, Anchored, Covered
<1>5. work.acc.anchor # Nothing
  BY <1>4, AnchoredFacts DEF HasAcc, Anchored
<1>6. RunOK(work.acc, work.gen, past) /\ RunShape(work.acc.run, limits)
      /\ past.agreed = [decl |-> work.acc.decl, config |-> work.base]
  BY <1>4, <1>5 DEF IInv, AccOK, AccShape, HasAcc
<1>7. /\ work.acc.run.saw.code = file.code /\ work.acc.run.saw.decl = work.acc.decl /\ work.acc.run.saw.gen = work.gen
      /\ work.acc.run.reused \/ (work.acc.run.saw.req = file.req /\ work.acc.run.saw.spec = file.spec)
  BY <1>4, <1>6, TaskInputsFields DEF RunOK
<1>8. past.agreed = Current
  BY <1>4, <1>6 DEF Current, Criteria
<1>9. IF Profile(work') = "light" THEN work'.spec = [req |-> file.req, ver |-> file.spec] ELSE file.req \in past.ran
  <2>1. Profile(work') = Profile(w)
    BY <1>3 DEF Profile
  <2>2. CASE Profile(w) = "light"
    BY <1>1, <1>2, <1>3, <1>4, <2>1, <2>2 DEF Ready, LifecycleReady, SpecReady
  <2>3. CASE Profile(w) # "light"
    <3>1. work.flow.status = "completed" /\ work.flow.req = work.req
      BY <1>1, <1>2, <2>3 DEF Ready, LifecycleReady, FlowReady
    <3>2. FlowOK(work, past)
      BY DEF IInv
    <3> QED
      BY <1>4, <2>1, <2>3, <3>1, <3>2 DEF FlowOK
  <2> QED
    BY <2>2, <2>3
<1>10. RunOf(work') # Nothing
  BY <1>3, <1>4 DEF RunOf
<1> QED
  BY <1>3, <1>7, <1>8, <1>9, <1>10

(* A ready Work knows every item it was ever told of, and its plan has     *)
(* them done.                                                              *)
LEMMA CompletionFinished ==
    ASSUME IInv, NEW c \in Closers, Close(c), Completes
    PROVE  past'.seen = {} \/ (plan # Nothing /\ \A i \in past'.seen : plan[i] = "done")
<1> DEFINE w == Saved(work)
<1>1. WorkOK(w, limits) /\ Scoped(w) /\ Ready(w) /\ Tracks(w, past'.seen, limits)
  BY CompletingClose
<1> HIDE DEF w
<1>2. PlanReady(w)
  BY <1>1 DEF Ready, LifecycleReady, PlanComplete
<1>3. PICK seen : seen = past'.seen
  OBVIOUS
<1>4. seen = {} \/ (plan # Nothing /\ \A i \in seen : plan[i] = "done")
  BY <1>1, <1>2, <1>3, InvariantFacts, Watched
<1> QED
  BY <1>3, <1>4

(* When cao done completes a Work, the run that its acceptance rests on    *)
(* began on the code, under the declaration and in the generation of that  *)
(* moment and, unless it is a verification that was reused, on that        *)
(* requirement and SPEC; the declaration and the configuration are those   *)
(* agreed to by reanchoring; and a workflow ran for this requirement, or,  *)
(* of a light Work, its SPEC is bound as it is: whatever was edited and    *)
(* put back, came late, died or was reopened before.                       *)
THEOREM CompletionIsEarned == Spec => CompletedIsEarned
<1>1. IInv /\ [Next]_vars => (Completes =>
          /\ RunOf(work') # Nothing
          /\ LET run == work'.acc.run IN
                /\ run.saw.code = file.code /\ run.saw.decl = work'.acc.decl /\ run.saw.gen = work'.gen
                /\ run.reused \/ (run.saw.req = file.req /\ run.saw.spec = file.spec)
          /\ past.agreed = Current
          /\ IF Profile(work') = "light" THEN work'.spec = [req |-> file.req, ver |-> file.spec] ELSE file.req \in past.ran)
  BY StepIsCalm, CompletionEarned
<1> QED
  BY <1>1, InvariantHolds, PTL DEF Spec, CompletedIsEarned

(* When cao done completes a Work, every item of its plan that any         *)
(* observation ever told of, since the Work was last reset to a            *)
(* requirement, is in the plan and done: removing a task from a plan does  *)
(* not finish it.                                                          *)
THEOREM CompletionLeavesNothingOpen == Spec => NothingUnfinished
<1>1. IInv /\ [Next]_vars => (Completes => past'.seen = {} \/ (plan # Nothing /\ \A i \in past'.seen : plan[i] = "done"))
  BY StepIsCalm, CompletionFinished
<1> QED
  BY <1>1, InvariantHolds, PTL DEF Spec, NothingUnfinished

(* A verdict that is over never changes while its run stands, and the      *)
(* result of a run that was replaced by another changes nothing when it    *)
(* arrives.                                                                *)
THEOREM VerdictsAreFinal == Spec => LateResultsChangeNothing
<1>1. IInv /\ [Next]_vars =>
          /\ (Over(work.ver) /\ work'.ver # Nothing /\ work'.ver.id = work.ver.id) => work'.ver = work.ver
          /\ (Over(RunOf(work)) /\ RunOf(work') # Nothing /\ RunOf(work').id = RunOf(work).id) => RunOf(work') = RunOf(work)
          /\ \A j \in jobs \ jobs' :
                /\ (j.kind = "verify" /\ work.ver # Nothing /\ work.ver.id # j.id) => work'.ver = work.ver
                /\ (j.kind = "accept" /\ RunOf(work) # Nothing /\ RunOf(work).id # j.id) => work'.acc = work.acc
  BY StepIsCalm DEF Calm, VerdictsStand, LateIgnored
<1> QED
  BY <1>1, InvariantHolds, PTL DEF Spec, LateResultsChangeNothing

=============================================================================
