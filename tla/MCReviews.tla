------------------------------- MODULE MCReviews -------------------------------
(***************************************************************************)
(* Instances of NativeReviews for TLC: two sessions of the coordinator,    *)
(* a question, two reviewers and two layers at most.                       *)
(***************************************************************************)
EXTENDS NativeReviews

CONSTANTS p1, p2, q1, s1, s2

Bounds == [build |-> "dispatch", open |-> {p1}, questions |-> {}, reviewers |-> {s1}, words |-> {"go"},
           texts |-> {"findings"}, intents |-> 0, codes |-> 1, policies |-> 0, rules |-> 0, routes |-> 1,
           requests |-> 1, layers |-> 1, tickets |-> 0, flaws |-> {"patch"}, may |-> {}]

Profiles == {
       \* Who approved what: two sessions, a question, two routes.
       [Bounds EXCEPT !.open = {p1, p2}, !.questions = {q1}, !.reviewers = {}, !.words = Words, !.policies = 1,
                      !.routes = 2, !.requests = 3, !.codes = 0, !.may = {"close"}],
       \* A changed intent, a conflict with it, the loopback and the rounds after it.
       [Bounds EXCEPT !.intents = 1, !.routes = 2, !.requests = 2, !.tickets = 2, !.reviewers = {s1, s2},
                      !.flaws = {"spec", "conflict"}, !.may = {"read"}],
       \* Two layers and two reviewers: sessions of before a ticket, of another, of none.
       [Bounds EXCEPT !.layers = 2, !.reviewers = {s1, s2}, !.tickets = 2, !.codes = 2, !.may = {"read"}],
       \* A oneshot build.
       [Bounds EXCEPT !.build = "oneshot", !.layers = 2, !.reviewers = {s1, s2}, !.tickets = 3],
       \* Another rendering of the instructions, edits past the host.
       [Bounds EXCEPT !.build = "oneshot", !.reviewers = {s1, s2}, !.tickets = 2, !.rules = 1, !.routes = 2,
                      !.flaws = {"patch", "conflict"}, !.may = {"edit"}],
       \* What a reviewer said, wrote and what was collected of it.
       [Bounds EXCEPT !.build = "oneshot", !.texts = Texts, !.reviewers = {s1}, !.tickets = 2,
                      !.may = {"attach", "unobserved", "deliver", "recover", "end", "damage"}] }

Alike == Permutations(Reviewers) \cup Permutations(Primary)

=============================================================================
