---------------------------- MODULE NativeEvidence -----------------------------
(***************************************************************************)
(* What a Work may rest its completion on (lifecycle_contract.py,          *)
(* implementation_evidence.py, evidence_archive.py, native_reports.py,     *)
(* completion_repairs.py): results are attached as evidence, reports are   *)
(* bound, and a failed baseline is classified as a product repair, which   *)
(* results of before it cannot close.  A binding is judged again at every  *)
(* use, against what is there then.                                        *)
(***************************************************************************)
EXTENDS NativeExecution, FiniteSetsExt

\* A refused bind that nothing has changed about is paused the second time.
Repeats == 2

-----------------------------------------------------------------------------
(* Reading reports.                                                        *)

Declares(body) == body.kind \in {"statement", "cited"}
Names(body) == body.kind \in {"result", "statement", "cited"}

\* A report that names a Work or code other than these is refused.
Readable(w, body) ==
    /\ body # Nothing /\ body.kind # "prose"
    /\ Names(body) => body.work = w /\ body.code = product.code

\* Mutant: what a check cites is only compared with the file.
CoversUnexecuted(w, refs, gates, binding) ==
    /\ \A r \in refs : r.was.kind = "cited" => file["log"] = r.was.log
    /\ \A r \in refs : Names(r.was) \/ ReceiptMatches(w, {r}, binding)
    /\ gates = {} \/ \E r \in refs : r.was.kind = "cited"

\* validate_references, then validate_coverage: a gate is granted by a check
\* that cites a log, and the log must be the output of an execution.
Covers(w, refs, gates, binding) ==
    /\ \A r \in refs : r.was.kind = "cited" =>
           /\ file["log"] = r.was.log
           /\ ReceiptMatches(w, {[path |-> "log", was |-> r.was.log]}, binding)
    /\ \A r \in refs : Names(r.was) \/ ReceiptMatches(w, {r}, binding)
    /\ gates = {} \/ \E r \in refs : r.was.kind = "cited"

-----------------------------------------------------------------------------
(* Evidence.                                                               *)

Attached(w) == 1..Len(work[w].evidence)

\* Evidence is of these inputs, its file unchanged, and no later result that
\* did not pass is hidden by choosing it.
Selectable(w, ids) ==
    \A i \in ids :
        LET e == work[w].evidence[i] IN
        /\ ~e.old /\ file[e.path] = e.was /\ e.on = InputsOf(w)
        /\ \A j \in Attached(w) : j > i /\ ~work[w].evidence[j].ok =>
               \E k \in ids : work[w].evidence[k].supersedes = j

\* For each report its last matching evidence, unless the caller chose.
Chosen(w, refs, ids) ==
    LET matching(r) == {i \in Attached(w) : /\ work[w].evidence[i].path = r.path
                                            /\ work[w].evidence[i].was = r.was
                                            /\ work[w].evidence[i].on = InputsOf(w)}
    IN IF ids # {} THEN ids ELSE {Max(matching(r)) : r \in {r \in refs : matching(r) # {}}}

\* Mutant: an attached result that did not pass is nobody's business.
ManifestOfChosen(w, refs, ids) == Selectable(w, Chosen(w, refs, ids))

\* A bound report does not get past a result that did not pass.
Manifest(w, refs, ids) ==
    LET chosen == Chosen(w, refs, ids)
        superseded == {work[w].evidence[i].supersedes : i \in {i \in chosen : work[w].evidence[i].ok}}
    IN /\ Selectable(w, chosen)
       /\ \A j \in Attached(w) :
              LET e == work[w].evidence[j] IN
              e.on = InputsOf(w) /\ ~e.old /\ ~e.ok => j \in superseded

\* evidence attach. The same record again changes nothing.
Attach(w, p, old, supersedes) ==
    LET e == [path |-> p, was |-> file[p], on |-> InputsOf(w), old |-> old, supersedes |-> supersedes,
              ok |-> Readable(w, file[p]) /\ file[p] # Output("bad")]
    IN
    /\ Active(w) \/ (work[w].status = "suspended" /\ old)
    /\ file[p] # Nothing /\ supersedes \in Attached(w) \cup {0}
    /\ e \notin Range(work[w].evidence) /\ Spend("attached")
    /\ work' = [work EXCEPT ![w].evidence = Append(@, e)]
    /\ UNCHANGED <<product, file, runner, aside>>

-----------------------------------------------------------------------------
(* lifecycle bind.                                                         *)

\* What a refused request was about: its reports as they are, and the inputs.
Considered(w, req) == req.paths \cup {work[w].evidence[i].path : i \in req.ids}
Signature(w, req) == [seen |-> [p \in Considered(w, req) |-> file[p]], on |-> InputsOf(w), request |-> req]

FailureCurrent(w) ==
    work[w].failure # Nothing /\ work[w].failure.signature = Signature(w, work[w].failure.signature.request)
Paused(w, req) ==
    FailureCurrent(w) /\ work[w].failure.attempts = Repeats /\ work[w].failure.signature.request = req

\* prerequisites: the native workflow is complete and its artifacts are as
\* they were then.
Prerequisites(w) == Active(w) /\ work[w].flow = product.unit

\* Mutant: another Work's binding is not looked at.
ClaimedNever(w, refs) == FALSE
\* Another Work rests on one of these very results.
Claimed(w, refs) == \E v \in Works \ {w} : work[v].bound # Nothing /\ refs \cap work[v].bound.refs # {}

\* Results are of an execution that counts now, when inputs changed since the
\* last binding, when there are executions at all, or in a product repair.
\* Statements of acceptance are not asked.
Fresh(w, refs) ==
    LET executed == {r \in refs : ~Declares(r.was)}
        bound == work[w].bound
    IN executed # {} /\ ((bound # Nothing /\ bound.on # MaterialOf(w)) \/ work[w].rows # <<>> \/ Repairing(w))
       => ReceiptMatches(w, executed, bound)

Usable(w, refs) == (\A r \in refs : Readable(w, r.was)) /\ ~Claimed(w, refs)
Admissible(w, refs, req) ==
    /\ Covers(w, refs, req.gates, work[w].bound)
    /\ Fresh(w, refs) /\ Manifest(w, refs, req.ids)

\* A request is refused and the refusal recorded, except when it only names
\* no report or an unknown gate: that is for the caller to correct.
BindFails(w, req) ==
    LET refs == {Ref(p) : p \in Considered(w, req)}
        selected == req.ids # {} => Selectable(w, req.ids)
        signature == Signature(w, req)
        again == work[w].failure # Nothing /\ work[w].failure.signature = signature
    IN
    /\ work[w].contract = 2 /\ Prerequisites(w) /\ req.ids \subseteq Attached(w) /\ ~Paused(w, req)
    /\ selected => /\ refs # {}
                   /\ ~(Usable(w, refs) /\ (req.gates \subseteq limits.gates => Admissible(w, refs, req)))
    /\ Spend("binds")
    /\ work' = [work EXCEPT ![w].failure = [signature |-> signature,
                                            attempts |-> IF again THEN Repeats ELSE 1]]
    /\ UNCHANGED <<product, file, runner, aside>>

Bind(w, req) ==
    LET refs == {Ref(p) : p \in Considered(w, req)} IN
    /\ work[w].contract = 2 /\ Prerequisites(w) /\ req.ids \subseteq Attached(w) /\ ~Paused(w, req)
    /\ req.ids # {} => Selectable(w, req.ids)
    /\ refs # {} /\ Usable(w, refs)
    /\ req.gates \subseteq limits.gates /\ Admissible(w, refs, req)
    /\ Spend("binds")
    /\ work' = [work EXCEPT
                   ![w].bound = [on |-> MaterialOf(w), refs |-> refs, gates |-> req.gates,
                                 ids |-> Chosen(w, refs, req.ids)],
                   ![w].failure = Nothing,
                   ![w].repair = IF Repairing(w) THEN Nothing ELSE @]
    /\ UNCHANGED <<product, file, runner, aside>>

\* Mutant: a binding stands whatever became of the material it was made on.
EvidenceReadyOnce(w) ==
    LET bound == work[w].bound IN
    /\ ~Repairing(w) /\ (work[w].rows # <<>> => LastPassed(w)) /\ bound # Nothing
    /\ ~FailureCurrent(w)
    /\ limits.gates \subseteq bound.gates

\* evidence_state: the binding judged anew.
EvidenceReady(w) ==
    LET bound == work[w].bound IN
    /\ ~Repairing(w)
    /\ work[w].rows # <<>> => LastPassed(w)
    /\ bound # Nothing /\ ~FailureCurrent(w)
    /\ bound.on = MaterialOf(w)
    /\ limits.gates \subseteq bound.gates
    /\ \A r \in bound.refs : file[r.path] = r.was /\ Readable(w, r.was)
    /\ Covers(w, bound.refs, bound.gates, bound)
    /\ Manifest(w, bound.refs, bound.ids)

-----------------------------------------------------------------------------
(* lifecycle repair, after a failed baseline.                              *)

Boundary(w) == {work[w].rows[i].id : i \in 1..Len(work[w].rows)}

Repair(w, kind) ==
    /\ Active(w)
    /\ work[w].verified # Nothing /\ work[w].verified.status = "failed"
    /\ Repairing(w) => kind = "product"
    /\ Spend("repairs")
    /\ work' = [work EXCEPT ![w].repair =
                   [kind |-> kind, boundary |-> IF kind = "product" THEN Boundary(w) ELSE {}]]
    /\ UNCHANGED <<product, file, runner, aside>>

EvidenceNext ==
    \/ \E w \in Works, p \in Paths, old \in BOOLEAN, i \in 0..limits.attached : Attach(w, p, old, i)
    \/ \E w \in Works, req \in limits.requests : BindFails(w, req)
    \/ \E w \in Works, req \in limits.requests : Bind(w, req)
    \/ \E w \in Works, kind \in {"product", "environment"} : Repair(w, kind)

=============================================================================
