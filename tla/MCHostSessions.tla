--------------------------- MODULE MCHostSessions ---------------------------
(* A coordinator and its subagent, one call each, and two Works.           *)
EXTENDS HostSessions

CONSTANTS w1, w2, lead, child, x, y
OneParent == child :> lead
OneCallEach == x :> lead @@ y :> child
Bounds(sessions, calls, body, handoffs, faults, installs, rekeys) ==
    [sessions |-> sessions, calls |-> calls, body |-> body, handoffs |-> handoffs,
     faults |-> faults, installs |-> installs, rekeys |-> rekeys]
(* Handoffs and names; calls and switches; calls and restarts.              *)
Profiles == {Bounds({lead}, {}, 1, 2, 1, 0, FALSE), Bounds({lead}, {}, 1, 1, 1, 0, TRUE),
             Bounds({lead, child}, {x, y}, 0, 0, 0, 0, FALSE),
             Bounds({lead}, {x}, 0, 0, 1, 0, FALSE),
             Bounds({lead, child}, {x}, 1, 0, 0, 1, FALSE)}
Symmetry == Permutations(Works)
=============================================================================
