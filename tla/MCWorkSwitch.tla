---------------------------- MODULE MCWorkSwitch ----------------------------
(* Small instances of WorkSwitch. *)
EXTENDS WorkSwitch

Symmetry ==
    Permutations(Procs) \cup Permutations(Works)
        \cup Permutations(Contents) \cup Permutations(Products)

\* What still matters: nothing reads the contents of a finished journal, the
\* failures recorded for it, or the history variable.
View ==
    LET live(id) == id \in DOMAIN ops /\ Open(id) IN
    <<work, files, stale, busy, lock, edits, crashes,
      [id \in DOMAIN ops |-> IF live(id) THEN <<ops[id], repairs[id]>> ELSE ops[id].status],
      [p \in Procs |-> IF live(proc[p].op) \/ proc[p].at = "switch" THEN proc[p] ELSE proc[p].at]>>

\* Which contents there are at first makes no difference: they are only ever
\* compared with one another, and a product never with a configuration.
OneStart ==
    /\ Init
    /\ product = CHOOSE d \in Products : TRUE
    /\ cfg = product
    /\ \E w \in Works : file[w] = CHOOSE c \in Contents : TRUE

\* For liveness the story leads up to its only operation, and leaves out the
\* executions, which recovery does not ask about.
Prologue(w) ==
    /\ ops = <<>>
    /\ Defer(w) \/ Start(w, FALSE) \/ \E b \in BOOLEAN : Block(w, b)
StoryNext ==
    \/ \E w \in Works : Prologue(w) \/ Rebind(w)
    \/ Operations \/ Outside
    \/ \E p \in Procs : RecoverySteps(p)
StorySpec == OneStart /\ [][StoryNext]_vars /\ Fairness
=============================================================================
