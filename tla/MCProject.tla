---- MODULE MCProject ----
EXTENDS ProjectChecks
CONSTANTS w1, w2, stackA, stackB, i1, i2, p1, p2
Bounds(ws, ss, st, legacy, made, r, p, e, d) ==
    [works |-> ws, scopes |-> ss, stacks |-> st, legacy |-> legacy, made |-> made, revisions |-> r, proposals |-> p,
     edits |-> e, deaths |-> d, runs |-> 0, gated |-> FALSE]
Checks(bounds, n) == [bounds EXCEPT !.gated = TRUE, !.runs = n]
Profiles == {Bounds({w1, w2}, {"root"}, {stackA, stackB}, {}, {"root"}, 4, 2, 1, 1),
             Bounds({w1}, {"root"}, {stackA, stackB}, {}, {}, 5, 2, 2, 2),
             Bounds({w1, w2}, {"root"}, {stackA, stackB}, {w2}, {"root"}, 4, 1, 1, 1),
             Bounds({w1}, {"app", "lib"}, {stackA, stackB}, {}, {}, 4, 1, 0, 1),
             Bounds({w1, w2}, {"app", "lib"}, {stackA}, {}, {}, 3, 1, 0, 1),
             Checks(Bounds({w1}, {"root"}, {stackA}, {}, {}, 2, 0, 1, 1), 2),
             Checks(Bounds({}, {"root"}, {stackA, stackB}, {}, {}, 3, 0, 0, 1), 2),
             Checks(Bounds({w1}, {"root"}, {stackA}, {}, {}, 2, 0, 0, 0), 3)}
AllScopes == {"root", "app", "lib"}
====
