----------------------------- MODULE WorkBoard -----------------------------
(***************************************************************************)
(* What moving between Works promises: a board of Works on which every     *)
(* operation is one step.  A single Work may change, and becomes active    *)
(* only when no other Work is; or the active Work is suspended and another *)
(* one activated in the same step.  There is never a moment at which the   *)
(* one has left and the other has not arrived because of the move: a Work  *)
(* that leaves the active place alone does so because it is blocked.       *)
(***************************************************************************)
EXTENDS FiniteSets

CONSTANTS Works, Records, Absent

VARIABLE board

Active(b) == {w \in Works : b[w].status = "active"}

BoardInit == board = [w \in Works |-> Absent]

Others(moved) == \A w \in Works \ moved : board'[w] = board[w]

\* One Work changes: it becomes active only beside nobody, and leaves the
\* active place for suspension only with a blocker to show for it.
Change(w) ==
    /\ board'[w].status = "active" => Active(board) \subseteq {w}
    /\ board[w].status = "active" /\ board'[w].status = "suspended" => board'[w].blocked
    /\ Others({w})

\* The active Work makes room for another one.
Move(s, t) ==
    /\ Active(board) = {s} /\ s # t
    /\ board[t].status \in {"todo", "suspended"}
    /\ board'[s].status = "suspended" /\ board'[t].status = "active"
    /\ Others({s, t})

BoardNext ==
    /\ board' \in [Works -> Records]
    /\ \/ \E w \in Works : Change(w)
       \/ \E s, t \in Works : Move(s, t)

BoardSpec == BoardInit /\ [][BoardNext]_board
=============================================================================
