------------------------------ MODULE Acceptance ------------------------------
(***************************************************************************)
(* The runs of a project-bound Work: technical verification, and the       *)
(* independent acceptance that a declaration of criteria asks for.  An     *)
(* executor starts under the repository lock, works without it, and comes  *)
(* back under it; it may die, be replaced, or come back late.  The saw of  *)
(* a run is what the files were when its executor began.                   *)
(***************************************************************************)
EXTENDS PlanScope

Outcomes == {"passed", "failed", "blocked"}
Declaration == [req : 0..1, spec : 0..1]

\* What an acceptance was agreed to for: a declaration and a SPEC.
Anchors == [decl : Declaration, src : 0..1]

\* The absence of an anchor is no anchor.
ASSUME AnchorAssumption == Nothing \notin Anchors

Sight == [code : 0..1, req : 0..1, spec : 0..1, decl : {Nothing} \cup Declaration, gen : 0..limits.gens]

RunsTypeOK ==
    /\ work.ver # Nothing =>
          /\ work.ver.id \in 1..limits.runs /\ work.ver.status \in Outcomes \cup {"running", "stale"}
          /\ work.ver.saw \in Sight /\ work.ver.gen = work.gen
    /\ work.acc # Nothing =>
          /\ work.acc.decl \in Declaration /\ work.acc.owned \in 0..limits.runs
          /\ work.acc.anchor \in {Nothing} \cup Anchors
          /\ work.acc.run # Nothing =>
                /\ work.acc.run.id \in 1..limits.runs /\ work.acc.run.status \in Outcomes \cup {"running", "stale"}
                /\ work.acc.run.saw \in Sight /\ work.acc.run.out \in 0..limits.runs
                /\ work.acc.run.reused \in BOOLEAN
    /\ past.runs \in 0..limits.runs
    /\ \A j \in jobs : j.kind \in {"verify", "accept"} /\ j.id \in 1..past.runs /\ j.gen \in 0..work.gen

-----------------------------------------------------------------------------
(* Inputs.                                                                 *)

Running(w) == w.acc # Nothing /\ w.acc.run # Nothing /\ w.acc.run.status = "running"

\* output_paths: what stands where a declared output goes must be one the Work owns.
MayOwn(owned) == limits.outputs => file.out \in {0, owned}

\* sdd_acceptance_outputs: a run that is running owns what is there; otherwise nothing can be read.
Readable(w) == w.acc # Nothing /\ ~Running(w) => MayOwn(w.acc.owned)

\* technical_inputs; the technical gates follow from the profile.
Technical(w) == [code |-> file.code, config |-> file.config, profile |-> Profile(w)]

\* sdd_acceptance_inputs
TaskInputs(w) ==
    [tech |-> Technical(w), req |-> file.req, rev |-> IF w.assess = Nothing THEN 0 ELSE w.assess.rev,
     plan |-> <<Observe(w).state, Observe(w).scope, Observe(w).items>>, spec |-> w.spec, route |-> w.route,
     decl |-> w.acc.decl, src |-> file.spec]

Sees(w) == [code |-> file.code, req |-> file.req, spec |-> file.spec,
            decl |-> IF w.acc = Nothing THEN Nothing ELSE w.acc.decl, gen |-> w.gen]

\* verification_fresh
VerFresh(w) ==
    /\ w.ver # Nothing /\ w.ver.status = "passed" /\ Readable(w)
    /\ w.base = file.config /\ w.ver.on = Technical(w)

\* anchor_matches
Anchored(w) == w.acc.anchor = [decl |-> w.acc.decl, src |-> file.spec]

\* source_items, criteria: they are read from the requirement and the SPEC as they are.
Criteria == [req |-> file.req, spec |-> file.spec]

\* coverage: every criterion of the requirement and of the SPEC is declared, and no other.
Covered(w) == w.acc.decl = Criteria

\* acceptance_status
Stands(w) ==
    /\ Anchored(w) /\ w.acc.run # Nothing /\ w.acc.run.status = "passed" /\ w.acc.run.on = TaskInputs(w)
    /\ limits.outputs => file.out # 0 /\ file.out = w.acc.run.out

\* sdd_acceptance_state
AccReady(w) == w.acc # Nothing /\ Readable(w) /\ Stands(w)

-----------------------------------------------------------------------------
(* Verification (VerificationRuns has the run's own life in detail).       *)

MayRun == past.runs < limits.runs

\* _prepare_verification: the plan that was observed is saved, then the run admitted.
VerifyStart ==
    LET w == Saved(work)
        id == past.runs + 1
    IN /\ w.status = "active" /\ PlanReady(w) /\ w.base = file.config /\ RouteReady(w) /\ Readable(w) /\ MayRun
       /\ work' = [w EXCEPT !.ver = [id |-> id, gen |-> w.gen, status |-> "running", on |-> Technical(w), saw |-> Sees(w)]]
       /\ jobs' = jobs \cup {[kind |-> "verify", id |-> id, gen |-> w.gen]}
       /\ past' = [past EXCEPT !.runs = id, !.seen = @ \cup Told(w)]
       /\ UNCHANGED <<file, plan, closing, limits>>

\* Mutant: any running verification takes the result.
VerEligibleAny(j) == work.status = "active" /\ work.ver # Nothing /\ work.ver.status = "running"

VerEligible(j) ==
    /\ work.status = "active" /\ work.ver # Nothing
    /\ work.ver.id = j.id /\ work.ver.status = "running" /\ work.gen = j.gen

\* commit_verification; a result that is not the Work's own any more goes to the history only.
VerifyFinish(j, outcome) ==
    LET changed == ~Readable(work) \/ Technical(work) # work.ver.on
    IN /\ j.kind = "verify" /\ jobs' = jobs \ {j}
       /\ IF VerEligible(j)
          THEN /\ work' = [Saved(work) EXCEPT !.ver.status = IF changed THEN "stale" ELSE outcome]
               /\ Saw(work)
          ELSE UNCHANGED <<work, past>>
       /\ UNCHANGED <<file, plan, closing, limits>>

-----------------------------------------------------------------------------
(* Acceptance.                                                             *)

\* configure_record: a new declaration keeps what outputs are owned, and nothing else.
Configured(w) ==
    [decl |-> Criteria, anchor |-> Nothing, run |-> Nothing, owned |-> IF w.acc = Nothing THEN 0 ELSE w.acc.owned]

\* cao acceptance configure, with --replace when it differs, of the criteria as they are
Configure ==
    /\ work.status = "active" /\ MayOwn(Configured(work).owned)
    /\ ~(work.acc # Nothing /\ Covered(work))
    /\ work' = [work EXCEPT !.acc = Configured(work)]
    /\ UNCHANGED past /\ OnlyWork

\* _start
MayAccept(w) ==
    /\ w.status = "active" /\ AssessReady(w) /\ w.acc # Nothing /\ Covered(w)
    /\ Readable(w) /\ Anchored(w) /\ VerFresh(w)

NewAcceptance(w, id, saw, reused) ==
    [id |-> id, status |-> "running", on |-> TaskInputs(w), saw |-> saw, out |-> 0, reused |-> reused]

\* cao acceptance run, and begin: the executor is a command or the agent with a Skill.
AcceptStart ==
    LET id == past.runs + 1
    IN /\ MayAccept(work) /\ MayRun
       /\ work' = [work EXCEPT !.acc.run = NewAcceptance(work, id, Sees(work), FALSE)]
       /\ jobs' = jobs \cup {[kind |-> "accept", id |-> id, gen |-> work.gen]}
       /\ past' = [past EXCEPT !.runs = id]
       /\ UNCHANGED <<file, plan, closing, limits>>

\* The executor, replaced or not, writes the declared output.
WriteOutput(j) ==
    /\ limits.outputs /\ j.kind = "accept" /\ file.out # j.id
    /\ file' = [file EXCEPT !.out = j.id]
    /\ UNCHANGED <<plan, work, jobs, closing, past, limits>>

\* Mutant: any running acceptance takes the report.
AccEligibleAny(j) == Running(work)

AccEligible(j) == Running(work) /\ work.acc.run.id = j.id

\* finish_run: what the report is worth; without the declared output it is worth nothing.
Judged(w, outcome) ==
    IF w.acc.run.on # TaskInputs(w) THEN "stale"
    ELSE IF limits.outputs /\ file.out = 0 THEN "blocked" ELSE outcome

Finished(w, outcome) ==
    [w EXCEPT !.acc.run.status = Judged(w, outcome), !.acc.run.out = file.out,
              !.acc.owned = IF limits.outputs /\ file.out # 0 THEN file.out ELSE @]

\* _finish, and submit of a Skill's report: refused when the run is not the record's.
AcceptFinish(j, outcome) ==
    /\ j.kind = "accept" /\ jobs' = jobs \ {j}
    /\ work' = IF AccEligible(j) THEN Finished(work, outcome) ELSE work
    /\ UNCHANGED <<file, plan, closing, past, limits>>

\* cao acceptance reuse: the verification's own command also gave a result per criterion.
AcceptReuse(outcome) ==
    LET id == past.runs + 1
        started == [work EXCEPT !.acc.run = NewAcceptance(work, id, work.ver.saw, TRUE)]
    IN /\ limits.shared /\ MayAccept(work) /\ MayRun
       /\ work' = Finished(started, outcome)
       /\ past' = [past EXCEPT !.runs = id]
       /\ UNCHANGED <<file, plan, jobs, closing, limits>>

\* An executor is killed, or its machine stops.
Dies(j) == jobs' = jobs \ {j} /\ UNCHANGED <<file, plan, work, closing, past, limits>>

=============================================================================
