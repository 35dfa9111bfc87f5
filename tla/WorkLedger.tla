----------------------------- MODULE WorkLedger -----------------------------
(***************************************************************************)
(* What the Work Item store promises to its callers, without files, locks  *)
(* or crashes: each Work is one value that changes by whole commits, and   *)
(* every event queued by a commit is published once, after it.             *)
(***************************************************************************)
EXTENDS Naturals, SequencesExt

CONSTANTS
    WorkIds,    \* the Work Items
    Absent      \* the value of a Work that was never created

VARIABLES
    work,       \* the authoritative record of each Work
    published   \* the lifecycle events readers can rely on

ledger == <<work, published>>

Revision(r) == IF r = Absent THEN 0 ELSE r.rev
Queue(r) == IF r = Absent THEN <<>> ELSE r.pend
IsActive(r) == r # Absent /\ r.status = "active"

Init ==
    /\ work = [w \in WorkIds |-> Absent]
    /\ published = <<>>

(* One caller's update: the next revision, nobody's contribution dropped,  *)
(* the generation never lowered and raised with the status, the events     *)
(* already queued kept, and no second active Work.                         *)
Commit(w) ==
    LET old == work[w]  new == work'[w]
    IN  /\ new # Absent
        /\ new.rev = Revision(old) + 1
        /\ IsStrictPrefix(Queue(old), new.pend)
        /\ old # Absent =>
             /\ old.notes \subseteq new.notes
             /\ new.gen >= old.gen
             /\ new.status # old.status => new.gen > old.gen
        /\ IsActive(new) /\ ~IsActive(old) =>
             \A v \in WorkIds \ {w} : ~IsActive(work[v])
        /\ \A v \in WorkIds \ {w} : work'[v] = work[v]
        /\ UNCHANGED published

(* Queued events become public; none of them was public before.            *)
Publish ==
    /\ IsStrictPrefix(published, published')
    /\ IsInjective(published')
    /\ Range(published') \subseteq
         Range(published) \cup UNION {Range(Queue(work[w])) : w \in WorkIds}
    /\ UNCHANGED work

(* The queue of a Work is emptied once all of it is public.                *)
Settle(w) ==
    /\ Queue(work[w]) # <<>>
    /\ Range(Queue(work[w])) \subseteq Range(published)
    /\ work' = [work EXCEPT ![w].pend = <<>>, ![w].rev = @ + 1]
    /\ UNCHANGED published

Next == Publish \/ \E w \in WorkIds : Commit(w) \/ Settle(w)

Spec == Init /\ [][Next]_ledger
=============================================================================
