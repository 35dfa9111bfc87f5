------------------------------- MODULE MCNative --------------------------------
(***************************************************************************)
(* Instances of NativeCompletion for TLC: two Works, two executions, one   *)
(* call of the host, and one process or two.                               *)
(***************************************************************************)
EXTENDS NativeCompletion

CONSTANTS w1, w2, r1, r2, c1, p1, p2

Request(paths, gates, ids) == [paths |-> paths, gates |-> gates, ids |-> ids]
Log == Request({"log"}, {}, {})
Note == Request({"note"}, {}, {})
Host == Request({c1}, {}, {})

Failed == [status |-> "failed", on |-> [code |-> 0, policy |-> 0]]

Bounds == [contract |-> 2, verified |-> Nothing, flow |-> 0, first |-> w1, gates |-> {},
           runs |-> {}, calls |-> {}, texts |-> {"ok"}, reads |-> {{}}, parts |-> {}, requests |-> {}, bodies |-> {},
           edits |-> 0, notes |-> 0, turns |-> 0, deaths |-> 0, repairs |-> 0, binds |-> 0,
           attached |-> 0, moves |-> 0]

Profiles == {
       \* Executions of two processes: retried, given up, dying, while Works take turns.
       [Bounds EXCEPT !.runs = {r1, r2}, !.texts = {"ok", "bad"}, !.parts = {"code"}, !.edits = 1,
                      !.turns = 2, !.deaths = 1],
       \* One result, bound, edited under, verified and completed; and the host's.
       [Bounds EXCEPT !.runs = {r1}, !.calls = {c1}, !.requests = {Log, Host}, !.parts = {"code", "policy"},
                      !.edits = 2, !.binds = 2],
       \* Completed, reopened, and completed again on what still stands; one command
       \* reads a helper that the other one does not.
       [Bounds EXCEPT !.runs = {r1, r2}, !.reads = {{}, {"helper"}}, !.requests = {Log}, !.flow = Nothing, !.parts = {"unit"}, !.edits = 1, !.binds = 2,
                      !.turns = 1],
       \* A failed baseline becomes a product repair; what was bound or written before it is
       \* offered again.
       [Bounds EXCEPT !.runs = {r1, r2}, !.requests = {Log, Note},
                      !.bodies = {Named(w1, 0), Statement(w1, 0)}, !.notes = 1,
                      !.verified = Failed, !.repairs = 1, !.binds = 2],
       \* Two Works and the same reports; a gate that a cited log grants.
       [Bounds EXCEPT !.first = w2, !.runs = {r1, r2}, !.requests = {Log, Request({"note"}, {"gate"}, {})}, !.gates = {"gate"},
                      !.bodies = {Cited(w1, 0, "ok"), Prose}, !.notes = 1, !.binds = 2, !.turns = 1],
       \* Evidence that passed, did not, is chosen, superseded, or old.
       [Bounds EXCEPT !.runs = {r1}, !.requests = {Log, Request({}, {}, {1}), Request({}, {}, {2})},
                      !.bodies = {Prose}, !.notes = 1, !.attached = 2, !.binds = 2, !.parts = {"code"}, !.edits = 1],
       \* The contract is moved, and moved back.
       [Bounds EXCEPT !.contract = 1, !.bodies = {Named(w1, 0)}, !.notes = 1, !.attached = 1, !.parts = {"code"},
                      !.edits = 1, !.deaths = 1, !.moves = 3] }

Alike == Permutations(Processes)

=============================================================================
