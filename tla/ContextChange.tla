--------------------------- MODULE ContextChange ---------------------------
(***************************************************************************)
(* The project's background: which stack each scope of the product uses,   *)
(* kept as immutable revisions behind one pointer, the Works bound to it,  *)
(* and a change of it from the proposal to the end of the migration.       *)
(*                                                                         *)
(* Every command runs under the repository lock and writes several files,  *)
(* one after the other: it is the sequence of disks those writes leave,    *)
(* and a death leaves one of the earlier ones.  A revision's identity is   *)
(* the digest of its content and of the identity of the one before it, so  *)
(* a revision is modelled as the sequence of all contents up to it.        *)
(* Evidence, paths, versions and the fields of a stack are left out: a     *)
(* scope's stack is one value, accepted with its evidence.                 *)
(***************************************************************************)
EXTENDS Naturals, Sequences, SequencesExt, FiniteSets, TLC

CONSTANTS
    Works,
    Scopes,      \* "root" covers the whole product; the others are modules
    Stacks,
    Identities,  \* what a set-up plan adds to a scope (package names, versions)
    Nothing,
    Limits       \* bounds: what a behaviour may use up, see limits

Scope == [stack : Stacks, identity : Identities \cup {Nothing}]
Content == [scopes : [Scopes -> Scope \cup {Nothing}], active : Nat]  \* active_changes: 0 is none
Revision == Seq(Content)  \* <<>> is no context
Change == [base : Revision, scope : Scopes, stack : Stacks, status : {"proposed", "applying", "completed"},
           owner : Works \cup {"project_initialization", Nothing}, applied : Revision]
Binding == [at : Revision, scopes : SUBSET Scopes]
Work == [status : {"active", "suspended", "completed"}, binding : Binding \cup {Nothing}, change : Nat]

ASSUME ContextAssumption ==
    /\ "root" \in Scopes
    /\ Nothing \notin Works \cup Scopes \cup Stacks \cup Identities \cup {"project_initialization"}
    /\ Nothing \notin Scope \cup Binding \cup Work
    /\ "project_initialization" \notin Works
    /\ \A l \in Limits : /\ l.works \subseteq Works /\ l.legacy \subseteq Works
                         /\ l.scopes \subseteq Scopes /\ l.made \subseteq Scopes /\ l.stacks \subseteq Stacks
                         /\ {l.revisions, l.proposals, l.edits, l.deaths, l.runs} \subseteq Nat

VARIABLES
    disk,     \* .orchestrator/project and the Works
    product,  \* the stack the manifests of each scope show, Nothing without a manifest
    setup,    \* the set-up record of each scope (ProjectChecks); here only whether there is one
    limits,   \* the bounds of this behaviour: Works, scopes and stacks that occur, Works from before
              \* bindings, scopes with a manifest at first, revisions, proposals, edits of manifests,
              \* commands cut short, checks begun (ProjectChecks)
    used      \* how much of them is used up

contextVars == <<disk, product, setup, limits, used>>

DiskType == [
    context   : Revision,         \* context.json: the revision pointed to
    revisions : SUBSET Revision,  \* revisions/*.json
    changes   : Seq(Change),      \* changes/*.json; a change is known by its place
    works     : [Works -> Work \cup {Nothing}]]

ContextTypeOK ==
    /\ disk \in DiskType
    /\ product \in [Scopes -> Stacks \cup {Nothing}]
    /\ limits \in Limits
    /\ used \in [edits : 0..limits.edits, deaths : 0..limits.deaths, runs : 0..limits.runs]

ContextInit ==
    /\ limits \in Limits
    /\ used = [edits |-> 0, deaths |-> 0, runs |-> 0]
    /\ disk = [context |-> <<>>, revisions |-> {}, changes |-> <<>>,
               works |-> [w \in Works |->
                   IF w \in limits.legacy THEN [status |-> "suspended", binding |-> Nothing, change |-> 0] ELSE Nothing]]
    /\ product \in [Scopes -> {Nothing} \cup limits.stacks]
    /\ \A s \in Scopes \ limits.made : product[s] = Nothing
    /\ setup = [s \in Scopes |-> Nothing]

\* A command leaves the last of the disks, or is cut short at an earlier one.
Writes(disks) ==
    \/ disk' = Last(disks) /\ UNCHANGED used
    \/ /\ used.deaths < limits.deaths
       /\ used' = [used EXCEPT !.deaths = @ + 1]
       /\ \E i \in 1..(Len(disks) - 1) : disk' = disks[i]
Commanded(disks) == Writes(disks) /\ UNCHANGED <<product, setup, limits>>

-----------------------------------------------------------------------------
(* Reading the context.                                                    *)

Known == disk.context # <<>>
Current == Last(disk.context)
Present == {s \in Scopes : Current.scopes[s] # Nothing}
StackOf(s) == Current.scopes[s].stack
Overlap(s, t) == s = t \/ "root" \in {s, t}

\* semantic and fingerprint: the root's constraints hold in every module.
Fingerprint(content, scopes) ==
    [s \in {t \in scopes \cup {"root"} : content.scopes[t] # Nothing} |-> content.scopes[s]]
FingerprintOf(binding) == Fingerprint(Last(binding.at), binding.scopes)

\* selected_scopes; the empty set is PROJECT_SCOPE_REQUIRED.
Selected(requested, w) ==
    LET bound   == IF w # Nothing /\ disk.works[w].binding # Nothing THEN disk.works[w].binding.scopes ELSE {}
        modules == Present \ {"root"}
        chosen  == CASE requested # {} -> requested
                     [] requested = {} /\ bound # {} -> bound
                     [] requested = {} /\ bound = {} /\ modules = {} -> {"root"}
                     [] OTHER -> IF Cardinality(modules) = 1 THEN modules ELSE {}
    IN IF chosen \subseteq Present THEN chosen ELSE {}

ActiveChange == disk.changes[Current.active]
\* A change stops everyone but its owner in the scopes it covers.
Stops(scopes, w) ==
    /\ Current.active # 0
    /\ ActiveChange.scope \in scopes \cup {"root"}
    /\ w = Nothing \/ ActiveChange.owner # w

\* drift: what the manifests show and nobody accepted.  The owner of a change
\* is on its way from one stack to the other.
Drift(scopes, w, allowMigration) ==
    IF allowMigration /\ Current.active # 0 /\ w # Nothing /\ ActiveChange.owner = w THEN {}
    ELSE {s \in Present \cap (scopes \cup {"root"}) : product[s] \notin {Nothing, StackOf(s)}}

\* context_state with its sources
Ready(scopes, w) == scopes # {} /\ ~Stops(scopes, w) /\ Drift(scopes, w, TRUE) = {}
BindingReady(w) ==
    LET b == disk.works[w].binding
    IN /\ Known /\ b # Nothing
       /\ Ready(Selected({}, w), w)
       /\ FingerprintOf(b) = Fingerprint(Current, b.scopes)

\* bootstrap_scope: nobody was ever bound to the scope, and there is nothing
\* in it but what cao put there.
Bootstrap(s) ==
    /\ Known /\ s \in Present /\ Current.active = 0
    /\ \A w \in Works : disk.works[w] # Nothing =>
         /\ disk.works[w].binding # Nothing
         /\ \A t \in disk.works[w].binding.scopes : ~Overlap(s, t)
    /\ setup[s] # Nothing \/ product[s] = Nothing

ActiveWork == IF \E w \in Works : disk.works[w] # Nothing /\ disk.works[w].status = "active"
              THEN CHOOSE w \in Works : disk.works[w] # Nothing /\ disk.works[w].status = "active"
              ELSE Nothing

-----------------------------------------------------------------------------
(* Commits.                                                                *)

\* Mutant: the pointer moves before the revision is there.
CommitPointerFirst(d, content) ==
    LET revision == Append(d.context, content)
    IN <<[d EXCEPT !.context = revision], [d EXCEPT !.context = revision, !.revisions = @ \cup {revision}]>>

\* commit_context: the revision, then the pointer.  The revision expected is
\* the one read under the same lock; any other is refused.
Commit(d, content) ==
    LET revision == Append(d.context, content)
    IN <<[d EXCEPT !.revisions = @ \cup {revision}], [d EXCEPT !.context = revision, !.revisions = @ \cup {revision}]>>
MayCommit == Len(disk.context) < limits.revisions

With(content, s, stack) ==
    [content EXCEPT !.scopes[s] = [stack |-> stack, identity |-> IF @ = Nothing THEN Nothing ELSE @.identity]]
Empty == [scopes |-> [s \in Scopes |-> Nothing], active |-> 0]
Base == IF Known THEN Current ELSE Empty

\* Mutant: an accepted stack is replaced whoever uses it.
SettleAnything(s, stack) == Base.scopes[s] # Nothing => StackOf(s) # stack
\* candidate_for without a change: a new scope, or a stack nobody depends on.
Settles(s, stack) == Base.scopes[s] # Nothing => StackOf(s) # stack /\ Bootstrap(s)

\* project context set, and sync_identity when an answer refines the stack
SetContext(s, stack) ==
    /\ MayCommit
    /\ Settles(s, stack)
    /\ Commanded(Commit(disk, With(Base, s, stack)))

\* project context change propose: the file is written anew each time.
Propose(s, stack) ==
    LET change == [base |-> disk.context, scope |-> s, stack |-> stack, status |-> "proposed", owner |-> Nothing,
                   applied |-> <<>>]
        same   == {i \in 1..Len(disk.changes) : <<disk.changes[i].base, disk.changes[i].scope, disk.changes[i].stack>>
                                                = <<disk.context, s, stack>>}
    IN /\ Known
       /\ With(Current, s, stack) # Current
       /\ IF same = {}
          THEN /\ Len(disk.changes) < limits.proposals
               /\ Commanded(<<[disk EXCEPT !.changes = Append(@, change)]>>)
          ELSE Commanded(<<[disk EXCEPT !.changes = [i \in DOMAIN @ |-> IF i \in same THEN change ELSE @[i]]]>>)

Target(change) == With(Last(change.base), change.scope, change.stack)

\* Mutant: the change is applied to whatever the context has become.
BasedOnAnything(change) == Known /\ change.base # <<>>
BasedOnCurrent(change) == change.base = disk.context

\* project context change apply where no Work is involved: commit, then record.
ApplyToInitialization(i) ==
    LET change == disk.changes[i]
        commit == Commit(disk, [Target(change) EXCEPT !.active = Current.active])
        applied == [change EXCEPT !.status = "completed", !.owner = "project_initialization", !.applied = Last(commit).context]
    IN /\ MayCommit
       /\ ~(change.owner = "project_initialization" /\ change.status = "completed")
       /\ ActiveWork = Nothing /\ Bootstrap(change.scope)
       /\ BasedOnCurrent(change)
       /\ Commanded(Append(commit, [Last(commit) EXCEPT !.changes[i] = applied]))

Bound(d, w, i) == [d EXCEPT !.works[w].binding.at = d.context, !.works[w].change = i]

\* Mutant: the context is committed before the change names its owner.
BeginOwnerLast(w, i) ==
    LET commit == Commit(disk, [Target(disk.changes[i]) EXCEPT !.active = i])
        owned  == [Last(commit) EXCEPT !.changes[i].status = "applying", !.changes[i].owner = w]
    IN commit \o <<owned, Bound(owned, w, i)>>
\* The change names its owner, the context is committed, the Work is bound.
Begin(w, i) ==
    LET owned  == [disk EXCEPT !.changes[i].status = "applying", !.changes[i].owner = w]
        commit == Commit(owned, [Target(disk.changes[i]) EXCEPT !.active = i])
    IN <<owned>> \o commit \o <<Bound(Last(commit), w, i)>>

\* Mutant: any active Work takes a change up again.
TakesUpAnyones(w, i) == TRUE
TakesUp(w, i) == disk.changes[i].owner = w

\* project context change apply by the migration's Work
Apply(w, i) ==
    /\ disk.works[w] # Nothing /\ disk.works[w].status = "active"
    /\ ~(disk.changes[i].owner = "project_initialization" /\ disk.changes[i].status = "completed")
    /\ IF Current.active = i
       THEN /\ TakesUp(w, i)
            /\ disk.works[w].binding # Nothing
            /\ Commanded(<<Bound(disk, w, i)>>)
       ELSE /\ MayCommit
            /\ BasedOnCurrent(disk.changes[i]) /\ Current.active = 0
            /\ BindingReady(w)
            /\ Commanded(Begin(w, i))

-----------------------------------------------------------------------------
(* Works.                                                                  *)

\* make_binding
Bind(scopes) == [at |-> disk.context, scopes |-> scopes]
Suspended(works) == [w \in Works |-> IF works[w] # Nothing /\ works[w].status = "active"
                                     THEN [works[w] EXCEPT !.status = "suspended"] ELSE works[w]]
Activated(works, w) == [Suspended(works) EXCEPT ![w].status = "active"]

\* project bind; --refresh accepts that the background has changed.
BindWork(w, requested, refresh) ==
    LET scopes == Selected(requested, w)
        old    == disk.works[w].binding
    IN /\ Known /\ disk.works[w] # Nothing /\ disk.works[w].status # "completed"
       /\ Ready(scopes, w)
       /\ (old # Nothing /\ FingerprintOf(old) # Fingerprint(Current, scopes)) => refresh
       /\ old # Bind(scopes)
       /\ Commanded(<<[disk EXCEPT !.works[w].binding = Bind(scopes)]>>)

\* start of a new Work, by the background alone
StartWork(w, requested) ==
    LET scopes == Selected(requested, Nothing)
    IN /\ w \in limits.works
       /\ Known /\ disk.works[w] = Nothing
       /\ Ready(scopes, Nothing)
       /\ Commanded(<<[disk EXCEPT !.works = [Suspended(@) EXCEPT ![w] =
                        [status |-> "active", binding |-> Bind(scopes), change |-> 0]]]>>)

\* start --reopen and resume --reactivate
Reactivate(w) ==
    /\ disk.works[w] # Nothing /\ disk.works[w].status # "active"
    /\ BindingReady(w)
    /\ Commanded(<<[disk EXCEPT !.works = Activated(@, w)]>>)

\* Mutant: the change is recorded as completed before the context lets go of it.
FinishRecordFirst(w) ==
    LET i == disk.works[w].change
        completed == [disk EXCEPT !.changes[i].status = "completed"]
    IN IF i = 0 \/ Current.active # i THEN <<>>
       ELSE <<completed>> \o Commit(completed, [Current EXCEPT !.active = 0])
\* finish_change: a Work that has no change, or one no longer active, ends nothing.
Finish(w) ==
    LET i == disk.works[w].change
        commit == Commit(disk, [Current EXCEPT !.active = 0])
    IN IF i = 0 \/ Current.active # i THEN <<>>
       ELSE Append(commit, [Last(commit) EXCEPT !.changes[i].status = "completed"])

\* done, as far as the background goes: the manifests show the target.
Done(w) ==
    LET finish == Finish(w)
    IN /\ disk.works[w] # Nothing /\ disk.works[w].status = "active"
       /\ BindingReady(w)
       /\ (disk.works[w].change # 0 => Drift(disk.works[w].binding.scopes, w, FALSE) = {})
       /\ (finish # <<>> => MayCommit /\ ActiveChange.owner = w)
       /\ LET before == IF finish = <<>> THEN disk ELSE Last(finish)
          IN Commanded(Append(finish, [before EXCEPT !.works[w].status = "completed"]))

\* Somebody edits a manifest.
EditManifest(s) ==
    /\ used.edits < limits.edits
    /\ \E stack \in limits.stacks \ {product[s]} : product' = [product EXCEPT ![s] = stack]
    /\ used' = [used EXCEPT !.edits = @ + 1]
    /\ UNCHANGED <<disk, setup, limits>>

ContextSteps ==
    \/ \E s \in limits.scopes, stack \in limits.stacks : SetContext(s, stack) \/ Propose(s, stack)
    \/ \E i \in 1..Len(disk.changes) : ApplyToInitialization(i) \/ \E w \in limits.works : Apply(w, i)
    \/ \E w \in limits.works, requested \in SUBSET limits.scopes, refresh \in BOOLEAN : BindWork(w, requested, refresh)
    \/ \E w \in limits.works : Done(w)
    \/ \E s \in limits.scopes : EditManifest(s)

-----------------------------------------------------------------------------
(* What should hold.                                                       *)

Grew == disk'.context # disk.context

\* The revision pointed to and every one before it are kept: a death between
\* the two writes of a commit never leaves a pointer to nothing
\* (commit_context, load_context).
HistoryKept == \A n \in 1..Len(disk.context) : SubSeq(disk.context, 1, n) \in disk.revisions

\* The background moves one revision at a time, and a revision settles one
\* scope: applying a change proposed earlier never takes back what was
\* accepted meanwhile (cmd_project apply, commit_context).
OneScopeAtATime ==
    [][Grew => /\ Front(disk'.context) = disk.context
               /\ Cardinality({s \in Scopes : Last(disk'.context).scopes[s] # Base.scopes[s]}) <= 1]_contextVars

\* While a change is being carried out its scope keeps the stack the change
\* asked for, and the change names the Work that carries it out.
ActiveChangeStands ==
    Known /\ Current.active # 0 =>
        /\ StackOf(ActiveChange.scope) = ActiveChange.stack
        /\ ActiveChange.owner \in Works /\ ActiveChange.status = "applying"

\* Only its owner carries a change: no other Work that is bound to the scope
\* gets the change, or a binding to the scope, while it is carried out
\* (cmd_project apply and bind, context_state).
OnlyTheOwner ==
    [][\A w \in Works :
         Known /\ Current.active # 0 /\ ActiveChange.owner # w /\ disk'.works[w] # disk.works[w] =>
            LET b == disk'.works[w].binding
            IN /\ disk'.works[w].change # Current.active
               /\ b = Nothing \/ b.at # disk.context \/ ~(ActiveChange.scope \in b.scopes \cup {"root"})]_contextVars

\* A change recorded as completed was accepted: a revision after its base has
\* its stack, and the context carries it out no more (finish_change, apply).
CompletedWasAccepted ==
    \A i \in 1..Len(disk.changes) :
        LET change == disk.changes[i]
        IN change.status = "completed" =>
             /\ Current.active # i
             /\ IsStrictPrefix(change.base, disk.context)
             /\ disk.context[Len(change.base) + 1].scopes[change.scope].stack = change.stack

\* A stack somebody's Work is bound to changes only by a change that Work, or
\* another in the scope, carries out (Settles, bootstrap_scope).
BoundStackStands ==
    [][\A s \in Scopes :
         Grew /\ Known /\ s \in Present /\ Last(disk'.context).scopes[s].stack # StackOf(s) =>
            \/ Last(disk'.context).active # 0
            \/ \A w \in Works : disk.works[w] # Nothing =>
                  disk.works[w].binding # Nothing /\ s \notin disk.works[w].binding.scopes]_contextVars

\* A change moves one scope, by one revision, for one Work, and a stack that Works are
\* bound to does not move otherwise.
ChangeContained == OneScopeAtATime /\ OnlyTheOwner /\ BoundStackStands

\* done ends the change its Work carried out: "done stabilizes a successfully
\* verified migration" (references/project-context.md:65-66).
DoneEndsTheChange ==
    Known /\ Current.active # 0 /\ ActiveChange.owner \in Works =>
        disk.works[ActiveChange.owner].status # "completed"
=============================================================================
