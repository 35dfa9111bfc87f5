---------------------------- MODULE MCContractOne ----------------------------
(***************************************************************************)
(* TLC instance of ContractOne.  One run covers several kinds of behaviour,*)
(* each bounded by a profile.                                              *)
(***************************************************************************)
EXTENDS ContractOne, TLC

CONSTANTS a, b, c1, c2

P(x, y) == (a :> x) @@ (b :> y)

Base == [kind |-> "tasks", plan |-> P("done", "absent"), plans |-> {}, prepared |-> TRUE, profile |-> "standard",
         edits |-> {}, runs |-> 2, gens |-> 1, revs |-> 1, command |-> FALSE, launches |-> 0, closers |-> {c1},
         dies |-> FALSE, outputs |-> FALSE, shared |-> FALSE, unver |-> {}, execs |-> {"ok"}, profiles |-> {}, clear |-> {TRUE},
         outcomes |-> {"passed"}]

Profiles == {
    \* tasks appear, disappear and get done around a plan that may be claimed away
    [Base EXCEPT !.prepared = FALSE, !.plan = Nothing, !.plans = {P("done", "absent"), P("done", "open"), P("done", "done")},
                 !.unver = {FALSE}, !.profiles = {"standard"}],
    \* a shared sprint, whose epic grows
    [Base EXCEPT !.kind = "sprint", !.plan = P("done", "absent"), !.unver = {FALSE}, !.profiles = {"standard"},
                 !.plans = {P("done", "absent"), P("done", "open"), P("done", "done"), P("absent", "done")}],
    \* BMAD stories, and the tasks of a SPEC
    [Base EXCEPT !.kind = "stories", !.unver = {FALSE}, !.plans = {P("done", "absent"), P("done", "open"), P("absent", "done")}],
    [Base EXCEPT !.kind = "spec", !.edits = {"req"}, !.gens = 2, !.unver = {FALSE},
                 !.plans = {P("done", "open"), P("absent", "done")}],
    \* edits against runs in flight
    [Base EXCEPT !.edits = {"code"}, !.runs = 3, !.gens = 2, !.outcomes = {"passed", "failed"}],
    [Base EXCEPT !.edits = {"code", "spec"}, !.gens = 2, !.outcomes = {"passed", "failed"}],
    [Base EXCEPT !.edits = {"spec"}, !.runs = 3, !.gens = 2, !.unver = {FALSE}],
    [Base EXCEPT !.edits = {"config"}, !.runs = 3, !.gens = 3],
    \* a light task, whose SPEC is the standard
    [Base EXCEPT !.profile = "light", !.edits = {"spec", "code"}, !.gens = 2],
    \* a declared output
    [Base EXCEPT !.outputs = TRUE, !.command = TRUE, !.launches = 2, !.edits = {"out"}, !.runs = 4, !.gens = 2],
    \* a shared command
    [Base EXCEPT !.shared = TRUE, !.edits = {"code", "config"}, !.runs = 3, !.gens = 2, !.outcomes = {"passed", "blocked"}],
    [Base EXCEPT !.shared = TRUE, !.edits = {"spec"}, !.runs = 3, !.gens = 2],
    \* a new requirement, and workflows that failed or ran unseen
    [Base EXCEPT !.edits = {"req"}, !.gens = 2, !.unver = {FALSE}, !.execs = {"ok", "failed"}, !.profiles = {"standard"}, !.plan = Nothing],
    [Base EXCEPT !.edits = {"req"}, !.unver = BOOLEAN, !.execs = {"ok", "failed"}, !.profiles = {"standard"}, !.plan = Nothing],
    \* a second assessment
    [Base EXCEPT !.revs = 2, !.profiles = {"light", "standard"}, !.clear = BOOLEAN, !.gens = 2],
    \* the transition command, its owner's death and two processes
    [Base EXCEPT !.command = TRUE, !.launches = 2, !.closers = Closers, !.dies = TRUE, !.gens = 2, !.runs = 4]
    }
=============================================================================
