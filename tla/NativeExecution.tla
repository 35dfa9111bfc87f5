-------------------------- MODULE NativeExecution ---------------------------
(***************************************************************************)
(* Results of native commands as a Work keeps them (native_execution.py,   *)
(* native_host_execution.py): `cao lifecycle execute` admits a run in one  *)
(* transaction, runs the command without the lock, and judges it in        *)
(* another; a Pi host reports its own bash calls before and after them.    *)
(* Meanwhile the product is edited, the Works take turns, processes die.   *)
(*                                                                         *)
(* Hashes are the values themselves.  Each write of a Work under the lock  *)
(* is one step (WorkStore has the writes inside it).                       *)
(***************************************************************************)
EXTENDS Naturals, FiniteSets, SequencesExt

CONSTANTS
    Works,      \* Work Items
    Runs,       \* identities of executions
    Calls,      \* bash calls of the Pi host
    Processes,  \* processes that run an execution
    Nothing,
    Limits      \* the bounded instances, of which a behaviour is in one

VARIABLES
    product,  \* what results are about: code, the native unit, the project's policy
    file,     \* the reports in the provider's directories
    work,     \* the Works
    runner,   \* what each process is doing
    journal,  \* migrations of each Work between the contracts (NativeCompletion)
    limits,   \* the instance: never changes
    used      \* how much of its bounds is used up

ASSUME NativeAssumption ==
    /\ Runs \cap Calls = {}
    /\ Nothing \notin [kind : {"product", "environment"}, boundary : SUBSET (Runs \cup Calls)]
    /\ \A l \in Limits : l.contract \in 1..2 /\ l.first \in Works /\ l.parts \subseteq {"code", "unit", "policy"}

\* What only a migration changes, and what nothing does.
aside == <<journal, limits>>

\* Where a result can be: the log that executions are asked to write, a
\* report somebody writes, and a log of its own for each host call.
Paths == {"log", "note"} \cup Calls
Ids == Runs \cup Calls

\* What a report says. A runner's output passed; a named result gives the
\* Work and the code it is of, and so does a statement of acceptance, which may
\* grant the gate because of a log; anything else is not recognised.
Output(n) == [kind |-> "output", text |-> n]
Named(w, c) == [kind |-> "result", work |-> w, code |-> c]
Statement(w, c) == [kind |-> "statement", work |-> w, code |-> c]
Cited(w, c, n) == [kind |-> "cited", work |-> w, code |-> c, log |-> Output(n)]
Prose == [kind |-> "prose"]

\* A reference to a report: its path and the bytes it had.
Ref(p) == [path |-> p, was |-> file[p]]

\* inputs and material_inputs: what a result is bound to. The policy is a
\* domain of its own, outside the inputs.
InputsOf(w) == [code |-> product.code, unit |-> product.unit, deps |-> work[w].deps]
MaterialOf(w) == [inputs |-> InputsOf(w), policy |-> product.policy]

NewWork == [status |-> "suspended", gen |-> 0, contract |-> limits.contract, deps |-> {},
            rows |-> <<>>, repair |-> Nothing, bound |-> Nothing, failure |-> Nothing,
            evidence |-> <<>>, verified |-> limits.verified, flow |-> limits.flow]

Init ==
    /\ limits \in Limits
    /\ used = [what \in {"edits", "notes", "turns", "deaths", "repairs", "binds", "attached", "moves"} |-> 0]
    /\ product = [code |-> 0, unit |-> 0, policy |-> 0]
    /\ file = [p \in Paths |-> Nothing]
    /\ work = [w \in Works |-> [NewWork EXCEPT !.status = IF w = limits.first THEN "active" ELSE @]]
    /\ runner = [p \in Processes |-> Nothing]
    /\ journal = [w \in Works |-> <<>>]

Spend(what) == used[what] < limits[what] /\ used' = [used EXCEPT ![what] = @ + 1]

-----------------------------------------------------------------------------
(* Receipts.                                                               *)

Active(w) == work[w].status = "active"
Row(w, id) == CHOOSE i \in 1..Len(work[w].rows) : work[w].rows[i].id = id
Taken == UNION {{work[w].rows[i].id : i \in 1..Len(work[w].rows)} : w \in Works}
\* The places of the Work's own executions, without what the host observed.
Executions(w) == {i \in 1..Len(work[w].rows) : ~work[w].rows[i].host}
LastExecution(w) == work[w].rows[Max(Executions(w))]
LastPassed(w) == work[w].rows # <<>> /\ Last(work[w].rows).status = "passed"
Repairing(w) == work[w].repair # Nothing /\ work[w].repair.kind = "product"
\* The executions of before an open product repair.
Before(w) == IF Repairing(w) THEN work[w].repair.boundary ELSE {}

\* An already bound result of the same inputs stands over a change of sessions.
BoundCurrent(w, refs, binding) ==
    /\ ~Repairing(w) /\ binding # Nothing
    /\ binding.on.inputs = InputsOf(w) /\ refs \subseteq binding.refs

\* Mutant: the policy a result was produced under does not matter.
CountsAnyPolicy(w, refs, binding) ==
    {i \in 1..Len(work[w].rows) :
        LET r == work[w].rows[i] IN
        r.id \notin Before(w) /\ (r.gen = work[w].gen \/ BoundCurrent(w, refs, binding))
        /\ r.on.inputs = InputsOf(w)}

\* Rows that count now, and of them the passed ones after the last that did not.
Counts(w, refs, binding) ==
    {i \in 1..Len(work[w].rows) :
        LET r == work[w].rows[i] IN
        /\ r.id \notin Before(w)
        /\ r.gen = work[w].gen \/ BoundCurrent(w, refs, binding)
        /\ r.on = MaterialOf(w)}

ReceiptMatches(w, refs, binding) ==
    LET counts == Counts(w, refs, binding)
        newest == {i \in counts : \A j \in counts : j >= i => work[w].rows[j].status = "passed"}
    IN /\ LastPassed(w)
       /\ \A r \in refs : r.was = file[r.path] /\ \E i \in newest : r \in work[w].rows[i].refs

-----------------------------------------------------------------------------
(* lifecycle execute.                                                      *)

\* The place right before the last one.
BeforeLast(s, e) == Append(Front(s), e) \o <<Last(s)>>

\* A row goes to its place by time. An execution notes whole seconds, the
\* host fractions: of one second, the execution comes first.
Placed(rows, row, sameSecond) ==
    IF sameSecond THEN BeforeLast(rows, row) ELSE Append(rows, row)

\* The owner of the last execution holds its lock.
Owned(w, id) == \E p \in Processes : runner[p] # Nothing /\ runner[p].id = id /\ runner[p].stage = "owning"

\* An execution that was never finished is abandoned only when asked for by
\* name, and not while somebody holds its lock.
MayRetry(w, retry) ==
    Executions(w) # {} /\ LastExecution(w).status = "running" =>
        retry = LastExecution(w).id /\ ~Owned(w, retry)

\* Mutant: what is retried stays as it was.
AbandonNothing(w, retry) == work[w].rows
Abandon(w, retry) ==
    [i \in 1..Len(work[w].rows) |->
        IF work[w].rows[i].id = retry /\ work[w].rows[i].status = "running"
        THEN [work[w].rows[i] EXCEPT !.status = "abandoned"] ELSE work[w].rows[i]]

\* A row without a result; reads are the helpers its command was seen to read.
NewRow(w, id, host, reads) ==
    [id |-> id, host |-> host, status |-> "running", gen |-> work[w].gen,
     on |-> [MaterialOf(w) EXCEPT !.inputs.deps = @ \cup reads], refs |-> {}]

\* The first transaction of execute. What the command reads becomes one of the
\* Work's dependencies, before the inputs of the run are taken.
Admit(p, w, id, retry, sameSecond, reads) ==
    /\ runner[p] = Nothing /\ Active(w) /\ work[w].contract = 2
    /\ id \in limits.runs \ Taken /\ MayRetry(w, retry)
    /\ sameSecond => work[w].rows # <<>> /\ Last(work[w].rows).host
    /\ work' = [work EXCEPT
                   ![w].rows = Placed(Abandon(w, retry), NewRow(w, id, FALSE, reads), sameSecond),
                   ![w].deps = @ \cup reads]
    /\ runner' = [runner EXCEPT ![p] = [work |-> w, id |-> id, stage |-> "admitted"]]
    /\ UNCHANGED <<product, file, aside, used>>

\* It takes the lock of its run and starts the command.
Own(p) ==
    /\ runner[p] # Nothing /\ runner[p].stage = "admitted"
    /\ runner' = [runner EXCEPT ![p].stage = "owning"]
    /\ UNCHANGED <<product, file, work, aside, used>>

\* Mutant: an execution that was superseded meanwhile may still pass.
StillValidLate(w, id) ==
    LET r == work[w].rows[Row(w, id)] IN Active(w) /\ work[w].gen = r.gen /\ MaterialOf(w) = r.on

\* The result is still about what is there.
StillValid(w, id) ==
    LET r == work[w].rows[Row(w, id)] IN
    /\ LastExecution(w).id = id /\ Active(w)
    /\ work[w].gen = r.gen /\ MaterialOf(w) = r.on

\* The second transaction: what the command printed becomes the report, also
\* when it says of itself that it failed ("bad"). A death between the report and
\* the Work leaves the row running.
Finish(p, exit, n, dies) ==
    LET w == runner[p].work
        id == runner[p].id
        i == Row(w, id)
        prints == StillValid(w, id) /\ exit = 0
        passes == prints /\ n # "bad"
        to == IF passes THEN "passed" ELSE IF StillValid(w, id) THEN "failed" ELSE "stale"
        refs == IF passes THEN {[path |-> "log", was |-> Output(n)]} ELSE work[w].rows[i].refs
    IN
    /\ runner[p] # Nothing /\ runner[p].stage = "owning"
    /\ runner' = [runner EXCEPT ![p] = Nothing]
    /\ file' = IF prints THEN [file EXCEPT !["log"] = Output(n)] ELSE file
    /\ dies => prints
    /\ IF dies THEN Spend("deaths") /\ UNCHANGED work
       ELSE /\ work' = [work EXCEPT
                          ![w].rows[i] = [@ EXCEPT !.status = to, !.refs = refs],
                          ![w].failure = IF passes THEN Nothing ELSE @]
            /\ UNCHANGED used
    /\ UNCHANGED <<product, aside>>

\* The process, or the machine, stops: the lock goes, the row stays.
Die(p) ==
    /\ runner[p] # Nothing /\ Spend("deaths")
    /\ runner' = [runner EXCEPT ![p] = Nothing]
    /\ UNCHANGED <<product, file, work, aside>>

-----------------------------------------------------------------------------
(* What a Pi host observes of its own bash calls.                          *)

HostStarts(w, c) ==
    /\ Active(w) /\ work[w].contract = 2 /\ c \in limits.calls \ Taken
    /\ work' = [work EXCEPT ![w].rows = Append(@, NewRow(w, c, TRUE, {}))]
    /\ UNCHANGED <<product, file, runner, aside, used>>

\* The end of a call reaches the Work that is active then; if that is another
\* one, or none, nothing is recorded. `whole` is a structured, untruncated result.
HostEnds(w, c, exit, whole, n) ==
    LET i == Row(w, c)
        r == work[w].rows[i]
        valid == r.gen = work[w].gen /\ r.on = MaterialOf(w)
        writes == whole /\ valid /\ file[c] = Nothing
        to == IF ~whole THEN "unavailable" ELSE IF ~valid THEN "stale"
              ELSE IF file[c] # Nothing THEN "unavailable"
              ELSE IF exit = 0 /\ n # "bad" THEN "passed" ELSE "failed"
        refs == IF writes THEN {[path |-> c, was |-> Output(n)]} ELSE r.refs
    IN
    /\ Active(w) /\ work[w].contract = 2
    /\ \E j \in 1..Len(work[w].rows) : work[w].rows[j].id = c
    /\ r.status = "running"
    /\ file' = IF writes THEN [file EXCEPT ![c] = Output(n)] ELSE file
    /\ work' = [work EXCEPT ![w].rows[i] = [@ EXCEPT !.status = to, !.refs = refs]]
    /\ UNCHANGED <<product, runner, aside, used>>

-----------------------------------------------------------------------------
(* Around them.                                                            *)

\* Somebody edits the product, its native unit or the project's policy, and
\* may take it back.
Edit(part, value) ==
    /\ product[part] # value /\ Spend("edits")
    /\ product' = [product EXCEPT ![part] = value]
    /\ UNCHANGED <<file, work, runner, aside>>

\* Somebody writes, copies or deletes a report by hand.
WriteReport(p, body) ==
    /\ file[p] # body /\ Spend("notes")
    /\ file' = [file EXCEPT ![p] = body]
    /\ UNCHANGED <<product, work, runner, aside>>

\* lifecycle dependencies: an input that commands read is declared.
DeclareDependency(w) ==
    /\ Active(w) /\ work[w].contract = 2 /\ work[w].deps = {} /\ Spend("notes")
    /\ work' = [work EXCEPT ![w].deps = {"helper"}]
    /\ UNCHANGED <<product, file, runner, aside>>

\* An execution of the Work's present generation has not said how it went.
Unfinished(w) ==
    Executions(w) # {} /\ LastExecution(w).status = "running" /\ LastExecution(w).gen = work[w].gen

\* A switch: the Work that is left and the one that is entered get a new
\* generation; results of the old one are late.
Turn(w) ==
    /\ work[w].status = "suspended" /\ Spend("turns")
    /\ \A v \in Works : Active(v) => ~Unfinished(v)
    /\ work' = [v \in Works |->
                  IF v = w THEN [work[v] EXCEPT !.status = "active", !.gen = @ + 1]
                  ELSE IF Active(v) THEN [work[v] EXCEPT !.status = "suspended", !.gen = @ + 1]
                  ELSE work[v]]
    /\ UNCHANGED <<product, file, runner, aside>>

\* block --suspend asks nobody, and leaves the generation as it is.
Suspend(w) ==
    /\ Active(w) /\ Spend("turns")
    /\ work' = [work EXCEPT ![w].status = "suspended"]
    /\ UNCHANGED <<product, file, runner, aside>>

\* runtime abandon: somebody looked at an execution nobody owns.
AbandonRun(w) ==
    LET i == Row(w, LastExecution(w).id) IN
    /\ Executions(w) # {} /\ LastExecution(w).status = "running"
    /\ ~Owned(w, LastExecution(w).id)
    /\ work' = [work EXCEPT ![w].rows[i] = [@ EXCEPT !.status = "abandoned"], ![w].gen = @ + 1]
    /\ UNCHANGED <<product, file, runner, aside, used>>

ExecutionNext ==
    \/ \E p \in Processes, w \in Works, id \in Runs, retry \in Runs \cup {Nothing}, same \in BOOLEAN,
          reads \in limits.reads : Admit(p, w, id, retry, same, reads)
    \/ \E p \in Processes : Own(p)
    \/ \E p \in Processes, exit \in 0..1, n \in limits.texts, dies \in BOOLEAN : Finish(p, exit, n, dies)
    \/ \E p \in Processes : Die(p)
    \/ \E w \in Works, c \in Calls : HostStarts(w, c)
    \/ \E w \in Works, c \in Calls, exit \in 0..1, whole \in BOOLEAN, n \in limits.texts :
           HostEnds(w, c, exit, whole, n)
    \/ \E part \in limits.parts, value \in 0..1 : Edit(part, value)
    \/ \E w \in Works : DeclareDependency(w)
    \/ \E w \in Works : Turn(w)
    \/ \E w \in Works : Suspend(w)
    \/ \E w \in Works : AbandonRun(w)

=============================================================================
