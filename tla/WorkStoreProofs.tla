-------------------------- MODULE WorkStoreProofs ---------------------------
(***************************************************************************)
(* Proofs about the guarded store, for any number of Works, agents,        *)
(* revisions, crashes, power losses and foreign writes: no event is lost   *)
(* or doubled, readers only advance, one Work is active, a command that    *)
(* ends leaves the files in agreement, and the store implements WorkLedger. *)
(***************************************************************************)
EXTENDS WorkStore, WellFoundedInduction, TLAPS

-----------------------------------------------------------------------------
(* The inductive invariant.                                                *)

(* The revision of a record, 0 where there is none.                        *)
Rev(r) == IF r = Absent THEN 0 ELSE r.rev

(* What a Work is now: the authority of a committed guard, the previous    *)
(* record of a prepared one, and the file of a Work without guard.         *)
Now(g, f) ==
    IF g = None THEN f ELSE IF g.state = "committed" THEN g.authority ELSE g.previous

(* What verify accepts in the file of a Work with guard g and file f.      *)
Allowed(g, f) ==
    IF g = None THEN {f}
    ELSE IF g.state = "committed" THEN {g.authority} ELSE {g.previous, g.authority}

(* No write of the Work is between its guard and its file.                 *)
Calm(g) == g = None \/ g.state = "committed"

(* What the Work is now.                                                   *)
Cur(w) == Now(guard[w], file[w])

(* A record queues only events of its own Work.                            *)
Mine(w, r) == \A e \in Range(Pend(r)) : e[1] = w

(* The second of two versions of a Work is the first or a later one, which *)
(* lost no contribution.                                                   *)
Later(o, n) ==
    \/ o = n
    \/ /\ n # Absent
       /\ o # Absent => o.rev < n.rev /\ o.gen <= n.gen /\ o.notes \subseteq n.notes

(* The second of two versions is the next revision of the first and keeps  *)
(* its contributions.                                                      *)
Succ(o, n) ==
    /\ n.rev = Rev(o) + 1
    /\ o # Absent => o.gen <= n.gen /\ o.notes \subseteq n.notes

(* The second of two versions is an update of the first: the next revision, *)
(* with its contributions, more events in its queue, and a new generation  *)
(* when the status changed.                                                *)
Extends(o, n) ==
    /\ Succ(o, n)
    /\ IsStrictPrefix(Pend(o), n.pend)
    /\ o # Absent /\ n.status # o.status => n.gen > o.gen

(* A record an agent has read is the present one or of an earlier revision. *)
Older(r, c) == r.rev <= Rev(c) /\ (r.rev = Rev(c) => r = IF c = Absent THEN Blank("active") ELSE c)

(* An event has a line in the part of events.jsonl that survives.          *)
Durable(e) == \E i \in 1 .. synced : log[i] = e

(* A record of the Work w queues every event of w that is owed and not     *)
(* durable yet.                                                            *)
Kept(w, r) == \A e \in owed : e[1] = w => Durable(e) \/ e \in Range(Pend(r))

(* The Work is quiet and has events to append.                             *)
Queued(w) == Calm(guard[w]) /\ Cur(w) \in Records /\ Cur(w).pend # <<>>

(* A guard accepts one record and its successor only; a protected Work     *)
(* without guard has no file, an unprotected one no guard.                 *)
GuardOk(w, g, f) ==
    /\ w \in Guarded /\ g = None => f = Absent
    /\ w \notin Guarded => g = None /\ f # Unexpected
    /\ g # None /\ g.state = "prepared" => Succ(g.previous, g.authority)
    /\ \A r \in Allowed(g, f) : Mine(w, r)

(* Guards are sound, and what a Work is now is no older than what was read *)
(* of it.                                                                  *)
GuardInv == \A w \in WorkIds : GuardOk(w, guard[w], file[w]) /\ Later(seen[w], Cur(w))

(* No agent has read more than what a Work is now.                         *)
SnapInv ==
    \A a \in Agents : snap[a] # None =>
        Older(snap[a].work, Cur(snap[a].id)) /\ Mine(snap[a].id, snap[a].work)

(* The record a command is writing is the next revision of its Work, keeps *)
(* the events still owed, and stands in the guard where there is one.      *)
Writing(w, r) ==
    /\ r \in Records /\ Mine(w, r) /\ Kept(w, r)
    /\ IF w \in Guarded
       THEN guard[w] # None /\ guard[w].state = "prepared" /\ guard[w].authority = r
       ELSE Succ(file[w], r)

(* What each step of a command relies on: between the guard and the file   *)
(* the record to write is the guarded one; at a drain what is now of the   *)
(* Work queues the events being appended, and before it clears the queue   *)
(* they are durable.                                                       *)
StepInv(t) ==
    /\ t.step \in {"write", "seal"} => Writing(t.id, t.next)
    /\ t.step = "seal" => t.id \in Guarded
    /\ t.step = "restored" =>
          /\ guard[t.id] # None /\ guard[t.id].state = "committed" /\ guard[t.id].authority = t.next
          /\ ~t.scanning
    /\ t.step \in {"drain", "append", "clear"} => Calm(guard[t.id]) /\ Cur(t.id) \in Records
    /\ t.step = "drain" => Cur(t.id).pend # <<>>
    /\ t.step = "append" =>
          /\ t.todo # <<>>
          /\ \A e \in Range(Cur(t.id).pend) : Durable(e) \/ e \in Range(t.todo)
    /\ t.step = "clear" => \A e \in Range(Cur(t.id).pend) : Durable(e)
    /\ \A w \in t.rest : Queued(w)
    /\ t.step # "pick" => t.id \notin t.rest
    /\ t.step = "pick" => t.scanning

(* The command in progress finds what its step relies on.                  *)
TxnInv == txn # None => StepInv(txn)

(* An event that is owed is durable, or queued by every record the guard of *)
(* its Work could still make the present one.                              *)
OwedInv == \A e \in owed : Durable(e) \/ \A r \in Allowed(guard[e[1]], file[e[1]]) : e \in Range(Pend(r))

(* The queue of events keeps its promise.                                  *)
EventInv == OwedInv /\ EventsOnce

(* The inductive invariant: StoreSound says nothing of the guards and of   *)
(* the command in progress, which decide what the next write will keep.    *)
IInv == TypeOK /\ GuardInv /\ SnapInv /\ TxnInv /\ EventInv

-----------------------------------------------------------------------------
(* Lemmas about records, guards, snapshots and sequences.                  *)

(* The values of a prefix of a sequence, by their indices.                 *)
LEMMA LoggedAt ==
    ASSUME NEW S, NEW s \in Seq(S), NEW n \in 0 .. Len(s), NEW e
    PROVE  e \in Range(SubSeq(s, 1, n)) <=> \E i \in 1 .. n : s[i] = e
<1> DEFINE t == SubSeq(s, 1, n)
<1>1. DOMAIN t = 1 .. n /\ \A i \in 1 .. n : t[i] = s[i]
  OBVIOUS
<1> QED
  BY <1>1 DEF Range

(* Allowed is the set of records Authorised computes.                      *)
LEMMA AllowedIs ==
    ASSUME TypeOK, NEW w \in WorkIds
    PROVE  Authorised(w) = Allowed(guard[w], file[w])
BY StoreAssumption DEF TypeOK, Authorised, Allowed, Guards

(* Durable is membership in the durable part of the log.                   *)
LEMMA DurableIs ==
    ASSUME TypeOK, NEW e
    PROVE  e \in Range(DurableLog) <=> Durable(e)
BY LoggedAt DEF TypeOK, DurableLog, Durable

(* The invariant of the queue implies the two properties of the runs.      *)
LEMMA EventView == TypeOK /\ EventInv => NoEventLost /\ EventsOnce
<1> SUFFICES ASSUME TypeOK, EventInv PROVE NoEventLost /\ EventsOnce
  OBVIOUS
<1>1. \A e \in owed : e[1] \in WorkIds
  BY DEF TypeOK, Events
<1>2. NoEventLost
  BY <1>1, AllowedIs, DurableIs DEF EventInv, OwedInv, NoEventLost
<1> QED
  BY <1>2 DEF EventInv

(* A successor is later.                                                   *)
LEMMA SuccLater ==
    ASSUME NEW o \in Records \cup {Absent}, NEW n \in Records, Succ(o, n)
    PROVE  Later(o, n)
BY StoreAssumption DEF Later, Succ, Rev, Records

(* What a Work is now is a record; a file verify accepts is at most one    *)
(* revision ahead of it, and equal to it where the guard is committed.     *)
LEMMA CurIsRecord ==
    ASSUME TypeOK, GuardInv, NEW w \in WorkIds
    PROVE  /\ Cur(w) \in Records \cup {Absent}
           /\ Readable(w) => /\ file[w] \in Records \cup {Absent}
                             /\ Later(Cur(w), file[w]) /\ Mine(w, file[w])
                             /\ Calm(guard[w]) => Cur(w) = file[w]
<1>1. GuardOk(w, guard[w], file[w]) /\ Authorised(w) = Allowed(guard[w], file[w])
  BY AllowedIs DEF GuardInv
<1>2. file[w] \in Records \cup {Absent, Unexpected} /\ guard[w] \in Guards \cup {None}
  BY DEF TypeOK
<1>3. guard[w] # None => /\ guard[w].previous \in Records \cup {Absent}
                         /\ guard[w].authority \in Records
                         /\ guard[w].state \in {"prepared", "committed"}
  BY <1>2 DEF Guards
<1>4. Cur(w) \in Records \cup {Absent}
  BY <1>1, <1>2, <1>3, StoreAssumption DEF Cur, Now, GuardOk
<1>5. ASSUME Readable(w) PROVE file[w] \in Records \cup {Absent} /\ Later(Cur(w), file[w])
  <2>1. file[w] \in Records \cup {Absent}
    BY <1>2, <1>5 DEF Readable
  <2>2. CASE Calm(guard[w])
    <3>1. file[w] = Cur(w)
      BY <1>1, <1>3, <1>5, <2>2 DEF Readable, Allowed, Cur, Now, Calm
    <3> QED
      BY <3>1, <2>1 DEF Later
  <2>3. CASE ~Calm(guard[w])
    <3>1. Succ(guard[w].previous, guard[w].authority) /\ Cur(w) = guard[w].previous
          /\ file[w] \in {guard[w].previous, guard[w].authority}
      BY <1>1, <1>3, <1>5, <2>3 DEF Readable, Allowed, Cur, Now, Calm, GuardOk
    <3>2. Later(guard[w].previous, guard[w].authority)
      BY <3>1, <1>3, <2>3, SuccLater DEF Calm
    <3> QED
      BY <3>1, <3>2, <2>1 DEF Later
  <2> QED
    BY <2>2, <2>3, <2>1
<1>6. Readable(w) => Mine(w, file[w])
  BY <1>1 DEF Readable, GuardOk
<1>7. Readable(w) /\ Calm(guard[w]) => Cur(w) = file[w]
  BY <1>1, <1>3 DEF Readable, Allowed, Cur, Now, Calm
<1> QED
  BY <1>4, <1>5, <1>6, <1>7

(* Later is transitive.                                                    *)
LEMMA LaterTrans ==
    ASSUME NEW x \in Records \cup {Absent}, NEW y \in Records \cup {Absent},
           NEW z \in Records \cup {Absent}, Later(x, y), Later(y, z)
    PROVE  Later(x, z)
BY StoreAssumption DEF Later, Records

(* What was read of a version was read of every later one.                 *)
LEMMA OlderLater ==
    ASSUME NEW r \in Records \cup {Blank("active")}, NEW c \in Records \cup {Absent},
           NEW d \in Records \cup {Absent}, Older(r, c), Later(c, d)
    PROVE  Older(r, d)
BY StoreAssumption DEF Older, Later, Records, Rev, Blank

(* Reading a set of readable Works seals their guards on what was found in *)
(* the files: no guard accepts more than before, none goes back.           *)
LEMMA Reading ==
    ASSUME TypeOK, GuardInv, NEW S \in SUBSET WorkIds, \A w \in S : Readable(w)
    PROVE  /\ GuardsAfterReading(S) \in [WorkIds -> Guards \cup {None}]
           /\ \A w \in WorkIds : LET g == GuardsAfterReading(S)[w] IN
                 /\ GuardOk(w, g, file[w])
                 /\ Later(Cur(w), Now(g, file[w]))
                 /\ Allowed(g, file[w]) \subseteq Allowed(guard[w], file[w])
                 /\ Calm(guard[w]) => Calm(g) /\ Now(g, file[w]) = Cur(w)
                 /\ w \in S => Calm(g) /\ Now(g, file[w]) = file[w] /\ Allowed(g, file[w]) = {file[w]}
                 /\ w \notin S => g = guard[w]
<1> DEFINE G == GuardsAfterReading(S)
<1> SUFFICES ASSUME NEW w \in WorkIds
             PROVE  /\ G[w] \in Guards \cup {None}
                    /\ GuardOk(w, G[w], file[w])
                    /\ Later(Cur(w), Now(G[w], file[w]))
                    /\ Allowed(G[w], file[w]) \subseteq Allowed(guard[w], file[w])
                    /\ Calm(guard[w]) => Calm(G[w]) /\ Now(G[w], file[w]) = Cur(w)
                    /\ w \in S => Calm(G[w]) /\ Now(G[w], file[w]) = file[w] /\ Allowed(G[w], file[w]) = {file[w]}
                    /\ w \notin S => G[w] = guard[w]
  BY DEF GuardsAfterReading
<1>1. GuardOk(w, guard[w], file[w]) /\ Authorised(w) = Allowed(guard[w], file[w])
  BY AllowedIs DEF GuardInv
<1>2. file[w] \in Records \cup {Absent, Unexpected} /\ guard[w] \in Guards \cup {None}
  BY DEF TypeOK
<1>3. CASE ~(w \in S /\ guard[w] # None)
  <2>1. G[w] = guard[w]
    BY <1>3 DEF GuardsAfterReading
  <2>2. w \in S => guard[w] = None
    BY <1>3
  <2> HIDE DEF G
  <2> QED
    BY <1>1, <1>2, <2>1, <2>2 DEF Cur, Later, Calm, Now, Allowed
<1>4. CASE w \in S /\ guard[w] # None
  <2>1. Readable(w) /\ file[w] \in Records \cup {Absent} /\ Later(Cur(w), file[w])
        /\ file[w] \in Allowed(guard[w], file[w])
    BY <1>1, <1>4, CurIsRecord DEF Readable
  <2>2. G[w] = IF file[w] = Absent THEN None ELSE Committed(file[w])
    BY <1>4, <2>1 DEF GuardsAfterReading
  <2>3. /\ G[w] \in Guards \cup {None} /\ Calm(G[w])
        /\ Now(G[w], file[w]) = file[w] /\ Allowed(G[w], file[w]) = {file[w]}
        /\ G[w] = None => file[w] = Absent
    BY <2>1, <2>2, StoreAssumption DEF Committed, Guards, Calm, Now, Allowed
  <2>4. Mine(w, file[w])
    BY <2>1, <1>1 DEF GuardOk
  <2>5. w \in Guarded
    BY <1>1, <1>4 DEF GuardOk
  <2>6. G[w] # None => G[w].state # "prepared"
    BY <2>2 DEF Committed
  <2> HIDE DEF G
  <2>7. GuardOk(w, G[w], file[w])
    BY <2>3, <2>4, <2>5, <2>6 DEF GuardOk
  <2>8. Calm(guard[w]) => file[w] = Cur(w)
    BY <1>1, <1>4, <2>1 DEF Calm, Allowed, Cur, Now
  <2> QED
    BY <1>4, <2>1, <2>3, <2>7, <2>8
<1> QED
  BY <1>3, <1>4

-----------------------------------------------------------------------------
(* Steps that read, prepare and commit.                                    *)

(* A step that changes no guard, no file outside the guarded Works and no  *)
(* promise about events leaves the guards and the queue sound.             *)
LEMMA Undisturbed ==
    ASSUME TypeOK, GuardInv, OwedInv, UNCHANGED <<guard, seen, owed>>,
           \A w \in WorkIds : file'[w] = file[w] \/ guard[w] # None,
           \A e \in Events : Durable(e) => Durable(e)'
    PROVE  GuardInv' /\ OwedInv' /\ \A w \in WorkIds : Cur(w)' = Cur(w)
<1>1. \A w \in WorkIds : /\ Now(guard[w], file'[w]) = Now(guard[w], file[w])
                         /\ Allowed(guard[w], file'[w]) = Allowed(guard[w], file[w])
                         /\ GuardOk(w, guard[w], file[w]) => GuardOk(w, guard[w], file'[w])
  BY DEF Now, Allowed, GuardOk
<1>2. \A w \in WorkIds : Cur(w)' = Cur(w)
  BY <1>1 DEF Cur
<1>3. GuardInv'
  BY <1>1, <1>2 DEF GuardInv
<1>4. owed \subseteq Events /\ \A e \in owed : e[1] \in WorkIds
  BY DEF TypeOK, Events
<1>5. OwedInv'
  BY <1>1, <1>4 DEF OwedInv
<1> QED
  BY <1>2, <1>3, <1>5

(* A step that reads the Works of S keeps the guards and the queue sound   *)
(* and moves no Work back.                                                 *)
LEMMA ReadStep ==
    ASSUME TypeOK, GuardInv, OwedInv, NEW S \in SUBSET WorkIds, \A w \in S : Readable(w),
           guard' = GuardsAfterReading(S), Observe(S), UNCHANGED <<file, log, synced, owed>>
    PROVE  /\ guard' \in [WorkIds -> Guards \cup {None}]
           /\ seen' \in [WorkIds -> Records \cup {Absent}]
           /\ GuardInv' /\ OwedInv'
           /\ \A w \in WorkIds :
                 /\ Later(Cur(w), Cur(w)')
                 /\ Calm(guard[w]) => Calm(guard'[w]) /\ Cur(w)' = Cur(w)
                 /\ w \in S => Calm(guard'[w]) /\ Cur(w)' = file[w]
<1>1. /\ guard' \in [WorkIds -> Guards \cup {None}]
      /\ \A w \in WorkIds :
                 /\ GuardOk(w, guard'[w], file[w])
                 /\ Later(Cur(w), Now(guard'[w], file[w]))
                 /\ Allowed(guard'[w], file[w]) \subseteq Allowed(guard[w], file[w])
                 /\ Calm(guard[w]) => Calm(guard'[w]) /\ Now(guard'[w], file[w]) = Cur(w)
                 /\ w \in S => Calm(guard'[w]) /\ Now(guard'[w], file[w]) = file[w] /\ Allowed(guard'[w], file[w]) = {file[w]}
                 /\ w \notin S => guard'[w] = guard[w]
  BY Reading
<1>2. \A w \in WorkIds : Cur(w)' = Now(guard'[w], file[w])
  BY DEF Cur
<1>3. \A w \in WorkIds : file[w] \in Records \cup {Absent} \/ w \notin S
  BY CurIsRecord
<1>4. seen' \in [WorkIds -> Records \cup {Absent}] /\ \A w \in WorkIds : seen'[w] = IF w \in S THEN file[w] ELSE seen[w]
  BY <1>3 DEF Observe, TypeOK
<1>5. ASSUME NEW w \in WorkIds PROVE Later(seen'[w], Cur(w)')
  <2>1. CASE w \in S
    BY <2>1, <1>1, <1>2, <1>4 DEF Later
  <2>2. CASE w \notin S
    BY <2>2, <1>1, <1>2, <1>4 DEF GuardInv, Cur
  <2> QED
    BY <2>1, <2>2
<1>6. GuardInv'
  BY <1>1, <1>5 DEF GuardInv
<1>7. OwedInv'
  BY <1>1 DEF OwedInv, TypeOK, Events, Durable
<1> QED
  BY <1>1, <1>2, <1>4, <1>6, <1>7

(* The first half of _persist_work: the guard of the Work takes the next   *)
(* record while the file keeps the old one, and both still owe the same    *)
(* events.                                                                 *)
LEMMA PrepareStep ==
    ASSUME TypeOK, GuardInv, OwedInv, NEW S \in SUBSET WorkIds, \A w \in S : Readable(w),
           NEW t \in Transactions, t.id \in S, t.next \in Records,
           Succ(file[t.id], t.next), Mine(t.id, t.next), Kept(t.id, t.next),
           Prepare(GuardsAfterReading(S), t), Observe(S), UNCHANGED <<file, log, synced, owed>>
    PROVE  /\ guard' \in [WorkIds -> Guards \cup {None}]
           /\ seen' \in [WorkIds -> Records \cup {Absent}]
           /\ txn' \in Transactions
           /\ GuardInv' /\ OwedInv'
           /\ Writing(t.id, t.next)'
           /\ Cur(t.id)' = file[t.id]
           /\ \A w \in WorkIds :
                 /\ Later(Cur(w), Cur(w)')
                 /\ Calm(guard[w]) /\ w # t.id => Calm(guard'[w]) /\ Cur(w)' = Cur(w)
<1> DEFINE G == GuardsAfterReading(S)
<1>1. /\ G \in [WorkIds -> Guards \cup {None}]
      /\ \A w \in WorkIds :
                 /\ GuardOk(w, G[w], file[w])
                 /\ Later(Cur(w), Now(G[w], file[w]))
                 /\ Allowed(G[w], file[w]) \subseteq Allowed(guard[w], file[w])
                 /\ Calm(guard[w]) => Calm(G[w]) /\ Now(G[w], file[w]) = Cur(w)
                 /\ w \in S => Calm(G[w]) /\ Now(G[w], file[w]) = file[w] /\ Allowed(G[w], file[w]) = {file[w]}
                 /\ w \notin S => G[w] = guard[w]
  BY Reading
<1>2. /\ guard' = IF t.id \in Guarded THEN [G EXCEPT ![t.id] = Prepared(file[t.id], t.next)] ELSE G
      /\ txn' = [t EXCEPT !.step = "write"]
  BY DEF Prepare
<1> HIDE DEF G
<1>3. t.id \in WorkIds /\ txn' \in Transactions
  BY <1>2 DEF Transactions, Steps
<1>4. file[t.id] \in Records \cup {Absent} /\ \A w \in WorkIds : file[w] \in Records \cup {Absent} \/ w \notin S
  BY CurIsRecord
<1>5. /\ Prepared(file[t.id], t.next) \in Guards
      /\ Now(Prepared(file[t.id], t.next), file[t.id]) = file[t.id]
      /\ Allowed(Prepared(file[t.id], t.next), file[t.id]) = {file[t.id], t.next}
  BY <1>4, StoreAssumption DEF Prepared, Guards, Now, Allowed
<1>6. guard' \in [WorkIds -> Guards \cup {None}]
  BY <1>1, <1>2, <1>5
<1>7. \A w \in WorkIds : w # t.id => guard'[w] = G[w]
  BY <1>1, <1>2
<1>8. guard'[t.id] = IF t.id \in Guarded THEN Prepared(file[t.id], t.next) ELSE G[t.id]
  BY <1>1, <1>2, <1>3
<1>9. GuardOk(t.id, guard'[t.id], file[t.id])
  <2>1. GuardOk(t.id, G[t.id], file[t.id]) /\ Mine(t.id, file[t.id])
    BY <1>1, <1>3 DEF GuardOk
  <2>2. CASE t.id \in Guarded
    <3>1. \A r \in Allowed(guard'[t.id], file[t.id]) : Mine(t.id, r)
      BY <1>5, <1>8, <2>1, <2>2
    <3>2. guard'[t.id] # None /\ guard'[t.id].previous = file[t.id] /\ guard'[t.id].authority = t.next
      BY <1>5, <1>8, <2>2, StoreAssumption DEF Prepared
    <3> QED
      BY <3>1, <3>2, <2>2 DEF GuardOk
  <2>3. CASE t.id \notin Guarded
    BY <2>1, <2>3, <1>8
  <2> QED
    BY <2>2, <2>3
<1>10. \A w \in WorkIds : GuardOk(w, guard'[w], file[w])
  BY <1>1, <1>7, <1>9
<1>11. Cur(t.id)' = file[t.id]
  BY <1>1, <1>3, <1>5, <1>8 DEF Cur
<1>12. \A w \in WorkIds : Later(Cur(w), Cur(w)')
  <2>1. Later(Cur(t.id), file[t.id])
    BY <1>3, CurIsRecord
  <2>2. \A w \in WorkIds : w # t.id => Cur(w)' = Now(G[w], file[w])
    BY <1>7 DEF Cur
  <2> QED
    BY <2>1, <2>2, <1>1, <1>11
<1>13. seen' \in [WorkIds -> Records \cup {Absent}] /\ \A w \in WorkIds : seen'[w] = IF w \in S THEN file[w] ELSE seen[w]
  BY <1>4 DEF Observe, TypeOK
<1>14. ASSUME NEW w \in WorkIds PROVE Later(seen'[w], Cur(w)')
  <2>1. CASE w = t.id
    BY <2>1, <1>11, <1>13 DEF Later
  <2>2. CASE w \in S /\ w # t.id
    BY <2>2, <1>1, <1>7, <1>13 DEF Later, Cur
  <2>3. CASE w \notin S
    BY <2>3, <1>1, <1>7, <1>13 DEF GuardInv, Cur
  <2> QED
    BY <2>1, <2>2, <2>3
<1>15. GuardInv'
  BY <1>10, <1>14 DEF GuardInv
<1>16. \A w \in WorkIds : Calm(guard[w]) /\ w # t.id => Calm(guard'[w]) /\ Cur(w)' = Cur(w)
  BY <1>1, <1>7 DEF Cur
<1>17. OwedInv'
  <2>1. ASSUME NEW e \in owed, e[1] # t.id, ~Durable(e) PROVE \A r \in Allowed(guard'[e[1]], file[e[1]]) : e \in Range(Pend(r))
    BY <2>1, <1>1, <1>7 DEF OwedInv, TypeOK, Events
  <2>2. ASSUME NEW e \in owed, e[1] = t.id, ~Durable(e) PROVE \A r \in Allowed(guard'[e[1]], file[e[1]]) : e \in Range(Pend(r))
    <3>1. e \in Range(Pend(t.next))
      BY <2>2 DEF Kept
    <3>2. e \in Range(Pend(file[t.id]))
      BY <2>2, <1>1 DEF OwedInv
    <3>3. Allowed(guard'[t.id], file[t.id]) \subseteq {file[t.id], t.next}
      BY <1>1, <1>5, <1>8
    <3> QED
      BY <2>2, <3>1, <3>2, <3>3
  <2> QED
    BY <2>1, <2>2 DEF OwedInv, Durable
<1>18. Writing(t.id, t.next)'
  <2>1. Kept(t.id, t.next)' /\ Mine(t.id, t.next)
    BY DEF Kept, Durable
  <2>2. t.id \in Guarded => /\ guard'[t.id] # None /\ guard'[t.id].state = "prepared" /\ guard'[t.id].authority = t.next
    BY <1>5, <1>8, StoreAssumption DEF Prepared
  <2> QED
    BY <2>1, <2>2 DEF Writing, Kept, Durable
<1> QED
  BY <1>3, <1>6, <1>11, <1>12, <1>13, <1>15, <1>16, <1>17, <1>18

(* The second half of _persist_work, the guard's commit or the plain write *)
(* of an unprotected Work: the Work becomes the record written, and the    *)
(* events of that record are owed from now on.                             *)
LEMMA CommitStep ==
    ASSUME TypeOK, GuardInv, OwedInv, NEW w \in WorkIds, NEW r \in Records, Writing(w, r),
           \/ w \in Guarded /\ guard' = [guard EXCEPT ![w] = Committed(r)] /\ file' = file
           \/ w \notin Guarded /\ guard' = guard /\ file' = [file EXCEPT ![w] = r],
           owed' = owed \cup Range(r.pend), UNCHANGED <<log, synced, seen>>
    PROVE  /\ guard' \in [WorkIds -> Guards \cup {None}]
           /\ file' \in [WorkIds -> Records \cup {Absent, Unexpected}]
           /\ owed' \subseteq Events
           /\ GuardInv' /\ OwedInv'
           /\ Calm(guard'[w]) /\ Cur(w)' = r
           /\ \A v \in WorkIds :
                 /\ Later(Cur(v), Cur(v)')
                 /\ v # w => guard'[v] = guard[v] /\ Cur(v)' = Cur(v)
<1>1. /\ Committed(r) \in Guards /\ Calm(Committed(r)) /\ Committed(r) # None
      /\ \A f : Now(Committed(r), f) = r /\ Allowed(Committed(r), f) = {r}
      /\ Now(None, r) = r /\ Allowed(None, r) = {r} /\ Calm(None)
  BY StoreAssumption DEF Committed, Guards, Calm, Now, Allowed
<1>2. r # Absent /\ Mine(w, r) /\ Pend(r) = r.pend /\ r # Unexpected
  BY StoreAssumption DEF Writing, Pend
<1>3. GuardOk(w, guard[w], file[w]) /\ (w \notin Guarded => guard[w] = None)
  BY DEF GuardInv, GuardOk
<1>4. /\ guard' \in [WorkIds -> Guards \cup {None}]
      /\ file' \in [WorkIds -> Records \cup {Absent, Unexpected}]
      /\ \A v \in WorkIds : v # w => guard'[v] = guard[v] /\ file'[v] = file[v]
  BY <1>1 DEF TypeOK
<1>5. \/ w \in Guarded /\ guard'[w] = Committed(r) /\ file'[w] = file[w]
      \/ w \notin Guarded /\ guard'[w] = None /\ file'[w] = r
  BY <1>3 DEF TypeOK
<1>6. Calm(guard'[w]) /\ Cur(w)' = r /\ Allowed(guard'[w], file'[w]) = {r}
  BY <1>1, <1>5 DEF Cur
<1>7. \A v \in WorkIds : v # w => Cur(v)' = Cur(v)
  BY <1>4 DEF Cur
<1>8. Later(Cur(w), r)
  <2>1. Succ(Cur(w), r) /\ Cur(w) \in Records \cup {Absent}
    BY <1>3, CurIsRecord DEF Writing, GuardOk, Cur, Now
  <2> QED
    BY <2>1, SuccLater
<1>9. \A v \in WorkIds : Later(Cur(v), Cur(v)')
  BY <1>6, <1>7, <1>8 DEF Later
<1>10. GuardOk(w, guard'[w], file'[w])
  <2>1. guard'[w] # None => guard'[w].state = "committed"
    BY <1>5 DEF Committed
  <2> QED
    BY <1>1, <1>2, <1>5, <1>6, <2>1 DEF GuardOk
<1>11. GuardInv'
  <2>1. \A v \in WorkIds : GuardOk(v, guard'[v], file'[v])
    BY <1>4, <1>10 DEF GuardInv
  <2>2. ASSUME NEW v \in WorkIds PROVE Later(seen[v], Cur(v)')
    <3>1. seen[v] \in Records \cup {Absent} /\ Cur(v) \in Records \cup {Absent} /\ Cur(v)' \in Records \cup {Absent}
      BY <1>6, <1>7, CurIsRecord DEF TypeOK
    <3>2. Later(seen[v], Cur(v)) /\ Later(Cur(v), Cur(v)')
      BY <1>9 DEF GuardInv
    <3> QED
      BY <3>1, <3>2, LaterTrans
  <2> QED
    BY <2>1, <2>2 DEF GuardInv
<1>12. owed' \subseteq Events
  BY DEF TypeOK, Records, Range
<1>13. OwedInv'
  <2>1. ASSUME NEW e \in owed', ~Durable(e) PROVE \A x \in Allowed(guard'[e[1]], file'[e[1]]) : e \in Range(Pend(x))
    <3>1. e[1] \in WorkIds
      BY <1>12 DEF Events
    <3>2. CASE e[1] # w
      <4>1. e \in owed
        BY <3>2, <1>2 DEF Mine
      <4> QED
        BY <4>1, <3>1, <3>2, <2>1, <1>4 DEF OwedInv
    <3>3. CASE e[1] = w
      <4>1. e \in Range(Pend(r))
        BY <3>3, <2>1, <1>2 DEF Writing, Kept
      <4> QED
        BY <4>1, <3>3, <1>6
    <3> QED
      BY <3>2, <3>3
  <2> QED
    BY <2>1 DEF OwedInv, Durable
<1> QED
  BY <1>4, <1>6, <1>7, <1>9, <1>11, <1>12, <1>13

(* What a Work is now is a record or nothing.                              *)
LEMMA NowType ==
    ASSUME NEW w \in WorkIds, NEW g \in Guards \cup {None},
           NEW f \in Records \cup {Absent, Unexpected}, GuardOk(w, g, f)
    PROVE  Now(g, f) \in Records \cup {Absent}
BY StoreAssumption DEF Now, GuardOk, Guards

(* A step that moves no Work back leaves what the other agents have read   *)
(* valid.                                                                  *)
LEMMA SnapStep ==
    ASSUME TypeOK, TypeOK', GuardInv, GuardInv', SnapInv,
           \A w \in WorkIds : Later(Cur(w), Cur(w)'),
           \A a \in Agents :
              \/ snap'[a] \in {None, snap[a]}
              \/ \E w \in WorkIds, r \in Records \cup {Blank("active")} :
                    snap'[a] = [id |-> w, work |-> r] /\ Older(r, Cur(w)') /\ Mine(w, r)
    PROVE  SnapInv'
<1> SUFFICES ASSUME NEW a \in Agents, snap'[a] # None
             PROVE  /\ Older(snap'[a].work, Now(guard'[snap'[a].id], file'[snap'[a].id]))
                    /\ Mine(snap'[a].id, snap'[a].work)
  BY DEF SnapInv, Cur
<1>1. CASE snap'[a] = snap[a]
  <2>1. PICK w \in WorkIds, r \in Records \cup {Blank("active")} : snap[a].id = w /\ snap[a].work = r
    BY <1>1 DEF TypeOK, Snapshots
  <2>2. Now(guard[w], file[w]) \in Records \cup {Absent}
    BY <2>1, NowType DEF TypeOK, GuardInv
  <2>3. Now(guard'[w], file'[w]) \in Records \cup {Absent}
    BY <2>1, NowType DEF TypeOK, GuardInv
  <2>4. Older(r, Now(guard[w], file[w])) /\ Mine(w, r)
    BY <1>1, <2>1 DEF SnapInv, Cur
  <2>5. Later(Now(guard[w], file[w]), Now(guard'[w], file'[w]))
    BY DEF Cur
  <2> QED
    BY <2>1, <2>2, <2>3, <2>4, <2>5, <1>1, OlderLater
<1>2. CASE snap'[a] # snap[a]
  <2>1. PICK w \in WorkIds, r \in Records \cup {Blank("active")} :
           snap'[a] = [id |-> w, work |-> r] /\ Older(r, Cur(w)') /\ Mine(w, r)
    BY <1>2
  <2> QED
    BY <2>1 DEF Cur
<1> QED
  BY <1>1, <1>2

(* No complete line occurs twice.                                          *)
Once(s) == \A i, j \in 1 .. Len(s) : s[i] = s[j] /\ s[i] # Torn => i = j

(* Appending a torn line or a new event leaves every line single.          *)
LEMMA Extended ==
    ASSUME NEW s \in Seq(Events \cup {Torn}), Once(s), NEW x \in Events \cup {Torn},
           x = Torn \/ x \notin Range(s)
    PROVE  /\ Append(s, x) \in Seq(Events \cup {Torn}) /\ Once(Append(s, x))
           /\ Len(Append(s, x)) = Len(s) + 1 /\ Append(s, x)[Len(s) + 1] = x
           /\ \A i \in 1 .. Len(s) : Append(s, x)[i] = s[i]
BY DEF Once, Range

(* Losing the end of the log leaves every line single.                     *)
LEMMA Cut ==
    ASSUME NEW s \in Seq(Events \cup {Torn}), Once(s), NEW n \in 0 .. Len(s)
    PROVE  /\ SubSeq(s, 1, n) \in Seq(Events \cup {Torn}) /\ Once(SubSeq(s, 1, n))
           /\ Len(SubSeq(s, 1, n)) = n
           /\ \A i \in 1 .. n : SubSeq(s, 1, n)[i] = s[i]
BY DEF Once

(* append_event_if_absent leaves the event with one line, below every line *)
(* there was.                                                              *)
LEMMA Written ==
    ASSUME TypeOK, EventsOnce, NEW e \in Events
    PROVE  /\ WithEvent(e) \in Seq(Events \cup {Torn}) /\ Once(WithEvent(e))
           /\ Len(WithEvent(e)) \in Nat /\ Len(WithEvent(e)) >= Len(log)
           /\ \A i \in 1 .. Len(log) : WithEvent(e)[i] = log[i]
           /\ \E i \in 1 .. Len(WithEvent(e)) : WithEvent(e)[i] = e
<1>1. log \in Seq(Events \cup {Torn}) /\ Once(log)
  BY DEF TypeOK, EventsOnce, Once
<1>2. CASE e \in Range(log)
  BY <1>1, <1>2 DEF WithEvent, Range
<1>3. CASE e \notin Range(log)
  <2>1. WithEvent(e) = Append(log, e)
    BY <1>3 DEF WithEvent
  <2> QED
    BY <1>1, <1>3, <2>1, Extended
<1> QED
  BY <1>2, <1>3

(* A sequence whose tail is empty has one element.                         *)
LEMMA SingleTail ==
    ASSUME NEW S, NEW s \in Seq(S), s # <<>>, Tail(s) = <<>>
    PROVE  Len(s) = 1
<1>1. Len(Tail(s)) = Len(s) - 1 /\ Len(s) \in Nat
  OBVIOUS
<1>2. Len(<<>>) = 0
  OBVIOUS
<1>3. Len(Tail(s)) = 0
  BY <1>2, Zenon
<1> QED
  BY <1>1, <1>3

(* The values of a sequence after an append.                               *)
LEMMA AppendRange ==
    ASSUME NEW S, NEW s \in Seq(S), NEW x \in S
    PROVE  Range(Append(s, x)) = Range(s) \cup {x}
<1>1. DOMAIN Append(s, x) = 1 .. Len(s) + 1 /\ DOMAIN s = 1 .. Len(s) /\ Len(s) \in Nat
      /\ Append(s, x)[Len(s) + 1] = x /\ \A i \in 1 .. Len(s) : Append(s, x)[i] = s[i]
  OBVIOUS
<1>2. 1 .. Len(s) + 1 = 1 .. Len(s) \cup {Len(s) + 1}
  BY <1>1
<1> QED
  BY <1>1, <1>2 DEF Range

(* A sequence is a strict prefix of itself with one more element.          *)
LEMMA AppendPrefix ==
    ASSUME NEW S, NEW s \in Seq(S), NEW x \in S
    PROVE  IsStrictPrefix(s, Append(s, x))
<1> DEFINE t == Append(s, x)
<1>1. /\ t \in Seq(S) /\ Len(t) = Len(s) + 1 /\ Len(s) \in Nat
      /\ \A i \in 1 .. Len(s) : s[i] = t[i]
  OBVIOUS
<1> HIDE DEF t
<1> QED
  BY <1>1 DEF IsStrictPrefix, IsPrefix

(* The record ClearQueue writes.                                           *)
LEMMA Emptied ==
    ASSUME NEW r \in Records
    PROVE  LET n == [r EXCEPT !.pend = <<>>, !.rev = @ + 1] IN
           n \in Records /\ n.rev = r.rev + 1 /\ n.gen = r.gen /\ n.notes = r.notes /\ n.pend = <<>>
              /\ n.status = r.status
<1>1. r.rev + 1 \in Nat \ {0} /\ <<>> \in Seq(Events)
  BY DEF Records
<1> QED
  BY <1>1 DEF Records

(* The record lifecycle recover saves after it has put the authority back. *)
LEMMA Restored ==
    ASSUME NEW r \in Records, NEW e \in Events
    PROVE  LET n == [r EXCEPT !.rev = @ + 1, !.gen = @ + 1, !.pend = Append(@, e)] IN
           n \in Records /\ n.rev = r.rev + 1 /\ n.gen = r.gen + 1 /\ n.notes = r.notes
              /\ n.pend = Append(r.pend, e) /\ n.status = r.status
<1>1. r.rev + 1 \in Nat \ {0} /\ r.gen + 1 \in Nat /\ Append(r.pend, e) \in Seq(Events)
  BY DEF Records
<1> QED
  BY <1>1 DEF Records

(* A record with the generation a save gives it.                           *)
LEMMA WithGeneration ==
    ASSUME NEW r \in Records, NEW g \in Nat
    PROVE  LET n == [r EXCEPT !.gen = g] IN
           n \in Records /\ n.rev = r.rev /\ n.gen = g /\ n.notes = r.notes /\ n.pend = r.pend
              /\ n.status = r.status
BY DEF Records

(* The larger of two numbers.                                              *)
LEMMA MaxTwo ==
    ASSUME NEW x \in Nat, NEW y \in Nat
    PROVE  Max({x, y}) \in Nat /\ Max({x, y}) >= x /\ Max({x, y}) >= y
<1>1. \E m \in {x, y} : \A n \in {x, y} : m >= n
  OBVIOUS
<1> QED
  BY <1>1 DEF Max

(* A nonempty set of naturals has a least element.                         *)
LEMMA Least == ASSUME NEW T \in SUBSET Nat, T # {} PROVE \E m \in T : \A n \in T : m <= n
<1> DEFINE R == {p \in Nat \X Nat : p[1] < p[2]}
<1>1. IsWellFoundedOn(R, Nat)
  BY NatLessThanWellFounded DEF OpToRel
<1>2. \A x, y \in Nat : <<x, y>> \notin R => y <= x
  OBVIOUS
<1> HIDE DEF R
<1>3. \E m \in T : \A n \in T : ~ (<<n, m>> \in R)
  BY ONLY <1>1, WFMin, T \subseteq Nat, T # {}, Zenon
<1> QED
  BY <1>2, <1>3

(* So the scan of all Works takes one of them.                             *)
LEMMA MinIsElement == ASSUME NEW S, S \subseteq Nat, S # {} PROVE Min(S) \in S
BY Least DEF Min

-----------------------------------------------------------------------------
(* One lemma per step.                                                     *)

(* A command that starts has the fields Command gives it.                  *)
LEMMA CommandType ==
    ASSUME NEW a \in Agents, NEW w \in WorkIds, NEW goal \in {"load", "save", "index"},
           NEW step \in Steps, NEW next \in Records \cup {Absent}
    PROVE  LET t == Command(a, w, goal, step, next) IN
           /\ t \in Transactions /\ t # None
           /\ t.by = a /\ t.id = w /\ t.step = step /\ t.next = next /\ t.rest = {} /\ ~t.scanning
<1> DEFINE t == Command(a, w, goal, step, next)
<1>1. /\ t.by = a /\ t.id = w /\ t.step = step /\ t.next = next /\ t.rest = {} /\ ~t.scanning
  BY DEF Command
<1>2. <<>> \in Seq(Events) /\ [v \in WorkIds |-> "none"] \in [WorkIds -> Statuses \cup {"none"}]
  OBVIOUS
<1>3. t \in Transactions
  BY <1>2 DEF Command, Transactions
<1>4. t # None
  BY <1>3, StoreAssumption
<1> QED
  BY <1>1, <1>3, <1>4

(* Once a record is written its command drains the queue, goes on with the *)
(* scan, or ends; what its agent has read is then the record written.      *)
LEMMA Proceeding ==
    ASSUME TypeOK, txn \in Transactions, txn.next \in Records, Proceed
    PROVE  /\ txn' \in Transactions \cup {None}
           /\ snap' \in [Agents -> Snapshots \cup {None}]
           /\ txn' # None => /\ snap' = snap
                             /\ txn'.id = txn.id /\ txn'.rest = txn.rest /\ txn'.scanning = txn.scanning
                             /\ txn'.next = txn.next /\ txn'.shown = txn.shown
                             /\ \/ txn'.step = "drain" /\ txn.next.pend # <<>>
                                \/ txn'.step = "pick" /\ txn.next.pend = <<>> /\ txn.scanning
                                \/ txn'.step = "scan" /\ txn.next.pend = <<>> /\ ~txn.scanning
           /\ txn' = None => snap' = [snap EXCEPT ![txn.by] = [id |-> txn.id, work |-> txn.next]]
<1>1. Pend(txn.next) = txn.next.pend
  BY StoreAssumption DEF Pend
<1>2. \A st \in {"drain", "pick", "scan"} :
         /\ [txn EXCEPT !.step = st] \in Transactions
         /\ [txn EXCEPT !.step = st].id = txn.id /\ [txn EXCEPT !.step = st].rest = txn.rest
         /\ [txn EXCEPT !.step = st].scanning = txn.scanning /\ [txn EXCEPT !.step = st].next = txn.next
         /\ [txn EXCEPT !.step = st].shown = txn.shown /\ [txn EXCEPT !.step = st].step = st
  BY DEF Transactions, Steps
<1>3. \/ txn' = [txn EXCEPT !.step = "drain"] /\ txn.next.pend # <<>>
      \/ txn' = [txn EXCEPT !.step = "pick"] /\ txn.next.pend = <<>> /\ txn.scanning
      \/ txn' = [txn EXCEPT !.step = "scan"] /\ txn.next.pend = <<>> /\ ~txn.scanning
      \/ txn' = None /\ txn.next.pend = <<>>
  BY <1>1 DEF Proceed, Transactions
<1>4. snap' = IF txn' = None THEN [snap EXCEPT ![txn.by] = [id |-> txn.id, work |-> txn.next]] ELSE snap
  BY DEF Proceed
<1>5. [id |-> txn.id, work |-> txn.next] \in Snapshots
  BY DEF Snapshots, Transactions
<1>6. snap' \in [Agents -> Snapshots \cup {None}]
  BY <1>4, <1>5 DEF TypeOK
<1> QED
  BY <1>2, <1>3, <1>4, <1>6, StoreAssumption

-----------------------------------------------------------------------------
(* The operations.                                                         *)

(* load_work preserves the invariant: it seals the guard and starts a drain *)
(* of what it read.                                                        *)
LEMMA LoadKeeps == ASSUME IInv, NEW a \in Agents, NEW w \in WorkIds, Load(a, w) PROVE IInv'
<1> USE DEF IInv, EventInv
<1>1. /\ txn = None /\ file[w] # Absent /\ Readable(w)
      /\ guard' = GuardsAfterReading({w}) /\ Observe({w})
      /\ UNCHANGED <<file, log, synced, index, owed, faults, foreign>>
  BY DEF Load, Read
<1>2. file[w] \in Records /\ Mine(w, file[w])
  BY <1>1, CurIsRecord
<1>3. /\ guard' \in [WorkIds -> Guards \cup {None}]
      /\ seen' \in [WorkIds -> Records \cup {Absent}]
      /\ GuardInv' /\ OwedInv'
      /\ \A v \in WorkIds : Later(Cur(v), Cur(v)')
      /\ Calm(guard'[w]) /\ Cur(w)' = file[w]
  BY <1>1, ReadStep
<1>4. Older(file[w], file[w])
  BY <1>2, StoreAssumption DEF Older, Rev, Records
<1>5. CASE file[w].pend = <<>> /\ snap' = [snap EXCEPT ![a] = [id |-> w, work |-> file[w]]] /\ txn' = txn
  <2>1. TypeOK'
    BY <1>1, <1>2, <1>3, <1>5 DEF TypeOK, Snapshots
  <2>2. \A b \in Agents : snap'[b] = snap[b] \/ snap'[b] = [id |-> w, work |-> file[w]]
    BY <1>5 DEF TypeOK
  <2>3. SnapInv'
    BY <1>2, <1>3, <1>4, <2>1, <2>2, SnapStep
  <2> QED
    BY <1>1, <1>3, <1>5, <2>1, <2>3 DEF TxnInv, EventsOnce
<1>6. CASE file[w].pend # <<>> /\ txn' = Command(a, w, "load", "drain", file[w]) /\ snap' = snap
  <2>1. /\ txn' \in Transactions /\ txn' # None
        /\ txn'.id = w /\ txn'.step = "drain" /\ txn'.rest = {} /\ ~txn'.scanning
    BY <1>2, <1>6, CommandType DEF Steps
  <2>2. TypeOK'
    BY <1>1, <1>3, <1>6, <2>1 DEF TypeOK
  <2>3. SnapInv'
    BY <1>3, <1>6, <2>2, SnapStep
  <2>4. TxnInv'
    BY <1>2, <1>3, <1>6, <2>1 DEF TxnInv, StepInv, Cur
  <2> QED
    BY <1>1, <1>3, <2>2, <2>3, <2>4 DEF EventsOnce
<1> QED
  BY <1>5, <1>6 DEF Load

(* A new Work is in no file yet: an agent that begins one has read a blank *)
(* record.                                                                 *)
LEMMA BeginKeeps == ASSUME IInv, NEW a \in Agents, NEW w \in WorkIds, Begin(a, w) PROVE IInv'
<1> USE DEF IInv, EventInv
<1>1. /\ txn = None /\ file[w] = Absent /\ Readable(w)
      /\ guard' = GuardsAfterReading({w}) /\ Observe({w})
      /\ snap' = [snap EXCEPT ![a] = [id |-> w, work |-> Blank("active")]]
      /\ UNCHANGED <<file, log, synced, index, txn, owed, faults, foreign>>
  BY DEF Begin, Read
<1>2. /\ guard' \in [WorkIds -> Guards \cup {None}]
      /\ seen' \in [WorkIds -> Records \cup {Absent}]
      /\ GuardInv' /\ OwedInv'
      /\ \A v \in WorkIds : Later(Cur(v), Cur(v)')
      /\ Cur(w)' = Absent
  BY <1>1, ReadStep
<1>3. Older(Blank("active"), Absent) /\ Mine(w, Blank("active"))
  BY DEF Older, Rev, Blank, Mine, Pend, Range
<1>4. TypeOK'
  BY <1>1, <1>2 DEF TypeOK, Snapshots
<1>5. \A b \in Agents : snap'[b] = snap[b] \/ snap'[b] = [id |-> w, work |-> Blank("active")]
  BY <1>1 DEF TypeOK
<1>6. SnapInv'
  BY <1>2, <1>3, <1>4, <1>5, SnapStep
<1> QED
  BY <1>1, <1>2, <1>4, <1>6 DEF TxnInv, EventsOnce

(* A refused save preserves the invariant: it has only read.               *)
LEMMA RefuseKeeps == ASSUME IInv, NEW a \in Agents, NEW st \in Statuses, Refuse(a, st) PROVE IInv'
<1> USE DEF IInv, EventInv
<1>1. PICK S \in SUBSET WorkIds :
        (\A w \in S : Readable(w)) /\ guard' = GuardsAfterReading(S) /\ Observe(S)
  <2> DEFINE w == snap[a].id
             current == Readable(w) /\ UpToDate(snap[a].work, w)
             read == (IF Readable(w) THEN {w} ELSE {}) \cup (IF current THEN ReadBeforeFailure ELSE {})
  <2>1. guard' = GuardsAfterReading(read) /\ Observe(read)
    BY DEF Refuse
  <2>2. w \in WorkIds
    BY DEF Refuse, TypeOK, Snapshots
  <2>3. ReadBeforeFailure \subseteq WorkIds /\ \A v \in ReadBeforeFailure : Readable(v)
    <3>1. \A v \in WorkIds : v <= v
      BY StoreAssumption
    <3> QED
      BY <3>1 DEF ReadBeforeFailure, Existing
  <2>4. read \in SUBSET WorkIds /\ \A v \in read : Readable(v)
    BY <2>2, <2>3
  <2> QED
    BY <2>1, <2>4
<1>2. /\ txn = None /\ snap' = [snap EXCEPT ![a] = None]
      /\ UNCHANGED <<file, log, synced, index, txn, owed, faults, foreign>>
  BY DEF Refuse
<1>3. /\ guard' \in [WorkIds -> Guards \cup {None}]
      /\ seen' \in [WorkIds -> Records \cup {Absent}]
      /\ GuardInv' /\ OwedInv'
      /\ \A v \in WorkIds : Later(Cur(v), Cur(v)')
  BY <1>1, <1>2, ReadStep
<1>4. TypeOK' /\ \A b \in Agents : snap'[b] \in {None, snap[b]}
  BY <1>2, <1>3 DEF TypeOK
<1>5. SnapInv'
  BY <1>3, <1>4, SnapStep
<1> QED
  BY <1>2, <1>3, <1>4, <1>5 DEF TxnInv, EventsOnce

(* What save_work writes when it is not refused: the next revision of the  *)
(* file, which its agent has read, with the queue of the file and its own  *)
(* event.                                                                  *)
LEMMA Saving ==
    ASSUME IInv, NEW a \in Agents, NEW st \in Statuses, Save(a, st)
    PROVE  \E w \in WorkIds, t \in Transactions :
              /\ Readable(w) /\ MayActivate(w, st)
              /\ ReadForActivation(w, st) \in SUBSET WorkIds /\ w \in ReadForActivation(w, st)
              /\ \A v \in ReadForActivation(w, st) : Readable(v)
              /\ Prepare(GuardsAfterReading(ReadForActivation(w, st)), t)
              /\ Observe(ReadForActivation(w, st))
              /\ t.id = w /\ t.next \in Records /\ t.next.status = st /\ t.rest = {} /\ ~t.scanning
              /\ Succ(file[w], t.next) /\ Mine(w, t.next) /\ Kept(w, t.next)
              /\ Extends(file[w], t.next)
<1> USE DEF IInv, EventInv
<1>1. PICK w \in WorkIds, old \in Records \cup {Blank("active")} : snap[a].id = w /\ snap[a].work = old
  BY DEF Save, TypeOK, Snapshots
<1> DEFINE event == <<w, old.rev + 1>>
           gen == NextGen(file[w], Edited(a, old, st))
           next == [Edited(a, old, st) EXCEPT !.gen = gen]
           S == ReadForActivation(w, st)
<1>2. /\ txn = None /\ snap[a] # None
      /\ Readable(w) /\ UpToDate(old, w) /\ MayActivate(w, st)
      /\ Prepare(GuardsAfterReading(S), Command(a, w, "save", "write", next)) /\ Observe(S)
      /\ snap' = [snap EXCEPT ![a] = None]
      /\ UNCHANGED <<file, log, synced, index, owed, faults, foreign>>
  BY <1>1 DEF Save
<1>3. S \in SUBSET WorkIds /\ w \in S /\ \A v \in S : Readable(v)
  BY <1>1, <1>2 DEF ReadForActivation, MayActivate, Existing
<1>4. /\ file[w] \in Records \cup {Absent} /\ Mine(w, file[w]) /\ Later(Cur(w), file[w])
      /\ Cur(w) \in Records \cup {Absent}
  BY <1>2, CurIsRecord
<1>5. Older(old, file[w])
  BY <1>1, <1>2, <1>4, OlderLater DEF SnapInv
<1>6. old = (IF file[w] = Absent THEN Blank("active") ELSE file[w]) /\ old.rev = Rev(file[w])
  BY <1>2, <1>5 DEF Older, UpToDate, Rev
<1>7. old.rev \in Nat /\ old.gen \in Nat /\ old.notes \subseteq Agents /\ old.pend \in Seq(Events)
  <2>1. CASE old \in Records
    BY <2>1 DEF Records
  <2>2. CASE old = Blank("active")
    BY <2>2 DEF Blank
  <2> QED
    BY <2>1, <2>2
<1>8. old.pend = Pend(file[w])
  BY <1>6 DEF Blank, Pend
<1>9. event \in Events /\ event[1] = w
  BY <1>7 DEF Events
<1>10. /\ Edited(a, old, st) \in Records
       /\ Edited(a, old, st).status = st /\ Edited(a, old, st).rev = old.rev + 1
       /\ Edited(a, old, st).gen = old.gen /\ Edited(a, old, st).notes = old.notes \cup {a}
       /\ Edited(a, old, st).pend = Append(old.pend, event)
  BY <1>1, <1>7, <1>9 DEF Edited, Records
<1>11. /\ gen \in Nat /\ (file[w] # Absent => gen >= file[w].gen)
       /\ file[w] # Absent /\ file[w].status # st => gen > file[w].gen
  <2> DEFINE current == IF file[w] = Absent THEN 0
                        ELSE file[w].gen + (IF file[w].status # Edited(a, old, st).status THEN 1 ELSE 0)
  <2>1. current \in Nat
    BY <1>4 DEF Records
  <2>2. ASSUME file[w] # Absent
        PROVE  file[w].gen \in Nat /\ current >= file[w].gen /\ (file[w].status # st => current > file[w].gen)
    BY <1>4, <1>10, <2>2 DEF Records
  <2>3. gen = Max({current, old.gen})
    BY <1>10 DEF NextGen
  <2> HIDE DEF current, gen
  <2>4. gen \in Nat /\ gen >= current
    BY <2>1, <2>3, <1>7, MaxTwo
  <2>5. ASSUME file[w] # Absent PROVE gen >= file[w].gen /\ (file[w].status # st => gen > file[w].gen)
    BY <2>1, <2>2, <2>4, <2>5
  <2> QED
    BY <2>4, <2>5
<1> HIDE DEF gen
<1>12. /\ next \in Records /\ next.rev = old.rev + 1 /\ next.gen = gen
       /\ next.notes = old.notes \cup {a} /\ next.pend = Append(old.pend, event)
       /\ next.status = st
  BY <1>10, <1>11, WithGeneration
<1> HIDE DEF S, next
<1>13. Succ(file[w], next)
  BY <1>6, <1>11, <1>12 DEF Succ, Rev
<1> HIDE DEF event
<1>14. Pend(next) = next.pend /\ Range(next.pend) = Range(old.pend) \cup {event}
  <2>1. next # Absent
    BY <1>12, StoreAssumption
  <2>2. Range(Append(old.pend, event)) = Range(old.pend) \cup {event}
    BY <1>7, <1>9, AppendRange
  <2> QED
    BY <2>1, <2>2, <1>12 DEF Pend
<1>15. Mine(w, next)
  BY <1>4, <1>8, <1>9, <1>14 DEF Mine
<1>16. Kept(w, next)
  <2>1. file[w] \in Allowed(guard[w], file[w])
    BY <1>2, AllowedIs DEF Readable
  <2>2. ASSUME NEW e \in owed, e[1] = w, ~Durable(e) PROVE e \in Range(Pend(file[w]))
    BY <2>1, <2>2 DEF OwedInv
  <2> QED
    BY <2>2, <1>8, <1>14 DEF Kept
<1>17. Extends(file[w], next)
  <2>1. IsStrictPrefix(old.pend, Append(old.pend, event))
    BY <1>7, <1>9, AppendPrefix
  <2> QED
    BY <1>8, <1>11, <1>12, <1>13, <2>1 DEF Extends
<1>18. PICK t \in Transactions :
         /\ t = Command(a, w, "save", "write", next)
         /\ t.id = w /\ t.next = next /\ t.rest = {} /\ ~t.scanning
  BY <1>12, CommandType DEF Steps
<1> USE DEF S
<1> QED
  BY <1>2, <1>3, <1>12, <1>13, <1>15, <1>16, <1>17, <1>18

(* save_work preserves the invariant.                                      *)
LEMMA SaveKeeps == ASSUME IInv, NEW a \in Agents, NEW st \in Statuses, Save(a, st) PROVE IInv'
<1> USE DEF IInv, EventInv
<1>1. PICK w \in WorkIds, t \in Transactions :
              /\ Readable(w) /\ MayActivate(w, st)
              /\ ReadForActivation(w, st) \in SUBSET WorkIds /\ w \in ReadForActivation(w, st)
              /\ \A v \in ReadForActivation(w, st) : Readable(v)
              /\ Prepare(GuardsAfterReading(ReadForActivation(w, st)), t)
              /\ Observe(ReadForActivation(w, st))
              /\ t.id = w /\ t.next \in Records /\ t.next.status = st /\ t.rest = {} /\ ~t.scanning
              /\ Succ(file[w], t.next) /\ Mine(w, t.next) /\ Kept(w, t.next)
  BY Saving
<1>2. snap' = [snap EXCEPT ![a] = None] /\ UNCHANGED <<file, log, synced, index, owed, faults, foreign>>
  BY DEF Save
<1>3. /\ guard' \in [WorkIds -> Guards \cup {None}]
      /\ seen' \in [WorkIds -> Records \cup {Absent}]
      /\ txn' \in Transactions
      /\ GuardInv' /\ OwedInv'
      /\ Writing(t.id, t.next)'
      /\ \A v \in WorkIds : Later(Cur(v), Cur(v)')
  BY <1>1, <1>2, PrepareStep
<1>4. txn'.step = "write" /\ txn'.id = t.id /\ txn'.next = t.next /\ txn'.rest = {}
  BY <1>1 DEF Prepare, Transactions
<1>5. TypeOK' /\ \A b \in Agents : snap'[b] \in {None, snap[b]}
  BY <1>2, <1>3 DEF TypeOK
<1>6. SnapInv'
  BY <1>3, <1>5, SnapStep
<1>7. TxnInv'
  BY <1>3, <1>4 DEF TxnInv, StepInv
<1> QED
  BY <1>2, <1>3, <1>5, <1>6, <1>7 DEF EventsOnce

(* Putting the authority back into the file preserves the invariant: it is *)
(* what the Work was already (lifecycle recover).                          *)
LEMMA RecoverKeeps == ASSUME IInv, NEW a \in Agents, NEW w \in WorkIds, Recover(a, w) PROVE IInv'
<1> USE DEF IInv, EventInv
<1>1. /\ txn = None /\ guard[w] # None /\ guard[w].state = "committed"
      /\ file' = [file EXCEPT ![w] = guard[w].authority]
      /\ txn' = Command(a, w, "save", "restored", guard[w].authority)
      /\ UNCHANGED <<guard, log, synced, index, snap, seen, owed, faults, foreign>>
  BY DEF Recover
<1>2. guard[w].authority \in Records
  BY <1>1 DEF TypeOK, Guards
<1>3. /\ txn' \in Transactions /\ txn'.id = w /\ txn'.step = "restored"
      /\ txn'.next = guard[w].authority /\ txn'.rest = {} /\ ~txn'.scanning
  BY <1>1, <1>2, CommandType DEF Steps
<1>4. TypeOK'
  BY <1>1, <1>2, <1>3 DEF TypeOK
<1>5. GuardInv' /\ OwedInv' /\ \A v \in WorkIds : Cur(v)' = Cur(v)
  <2>1. \A v \in WorkIds : file'[v] = file[v] \/ guard[v] # None
    BY <1>1 DEF TypeOK
  <2> QED
    BY <1>1, <2>1, Undisturbed DEF Durable
<1>6. SnapInv'
  BY <1>1, <1>4, <1>5, SnapStep DEF Later
<1>7. TxnInv'
  BY <1>1, <1>3 DEF TxnInv, StepInv
<1> QED
  BY <1>1, <1>4, <1>5, <1>6, <1>7 DEF EventsOnce

(* A command that goes on to write its Work once more preserves the        *)
(* invariant.                                                              *)
LEMMA PersistKeeps ==
    ASSUME IInv, txn # None, txn.step # "pick", Usable(txn.id),
           NEW r \in Records, Succ(file[txn.id], r), Mine(txn.id, r), Kept(txn.id, r),
           Prepare(GuardsAfterReading({txn.id}), [txn EXCEPT !.next = r]), Observe({txn.id}),
           UNCHANGED <<file, log, synced, index, snap, owed, faults, foreign>>
    PROVE  IInv'
<1> USE DEF IInv, EventInv
<1>1. txn \in Transactions /\ txn.id \in WorkIds /\ Readable(txn.id)
  BY DEF TypeOK, Transactions, Usable
<1>2. PICK t \in Transactions :
         /\ t = [txn EXCEPT !.next = r]
         /\ t.id = txn.id /\ t.next = r /\ t.rest = txn.rest
  BY <1>1 DEF Transactions
<1>3. /\ guard' \in [WorkIds -> Guards \cup {None}]
      /\ seen' \in [WorkIds -> Records \cup {Absent}]
      /\ txn' \in Transactions
      /\ GuardInv' /\ OwedInv'
      /\ Writing(t.id, t.next)'
      /\ \A w \in WorkIds :
            /\ Later(Cur(w), Cur(w)')
            /\ Calm(guard[w]) /\ w # t.id => Calm(guard'[w]) /\ Cur(w)' = Cur(w)
  <2>1. /\ {t.id} \in SUBSET WorkIds /\ t.id \in {t.id} /\ \A w \in {t.id} : Readable(w)
        /\ Prepare(GuardsAfterReading({t.id}), t) /\ Observe({t.id})
        /\ t.next \in Records /\ Succ(file[t.id], t.next) /\ Mine(t.id, t.next) /\ Kept(t.id, t.next)
    BY <1>1, <1>2
  <2> QED
    BY <1>1, <2>1, PrepareStep
<1>4. txn'.step = "write" /\ txn'.id = t.id /\ txn'.next = t.next /\ txn'.rest = t.rest
  BY <1>2 DEF Prepare, Transactions
<1>5. TypeOK'
  BY <1>3 DEF TypeOK
<1>6. SnapInv'
  BY <1>3, <1>5, SnapStep
<1>7. ASSUME NEW w \in t.rest PROVE Queued(w)'
  <2>1. w \in WorkIds /\ w # t.id /\ Queued(w)
    BY <1>1, <1>2 DEF TxnInv, StepInv, Transactions
  <2> QED
    BY <2>1, <1>3 DEF Queued
<1>8. t.id \notin t.rest
  BY <1>2 DEF TxnInv, StepInv
<1>9. TxnInv'
  BY <1>3, <1>4, <1>7, <1>8 DEF TxnInv, StepInv
<1> QED
  BY <1>3, <1>5, <1>6, <1>9 DEF EventsOnce

(* The save that ends lifecycle recover preserves the invariant.           *)
LEMMA SaveRestoredKeeps == ASSUME IInv, SaveRestored PROVE IInv'
<1> DEFINE w == txn.id
           old == txn.next
           event == <<w, old.rev + 1>>
           new == [old EXCEPT !.rev = @ + 1, !.gen = @ + 1, !.pend = Append(@, event)]
<1>1. /\ txn # None /\ txn.step = "restored" /\ Usable(w)
      /\ Prepare(GuardsAfterReading({w}), [txn EXCEPT !.next = new]) /\ Observe({w})
      /\ UNCHANGED <<file, log, synced, index, snap, owed, faults, foreign>>
  BY DEF SaveRestored, At
<1>2. txn \in Transactions /\ w \in WorkIds
  BY <1>1 DEF IInv, TypeOK, Transactions
<1>3. file[w] = old /\ old \in Records /\ Mine(w, old) /\ old \in Allowed(guard[w], file[w])
  <2>1. guard[w] # None /\ guard[w].state = "committed" /\ guard[w].authority = old
    BY <1>1 DEF IInv, TxnInv, StepInv
  <2>2. file[w] \in Allowed(guard[w], file[w]) /\ file[w] # Absent /\ Readable(w)
    BY <1>1, <1>2, AllowedIs DEF Usable, Readable, IInv
  <2>3. file[w] = old
    BY <2>1, <2>2 DEF Allowed
  <2> QED
    BY <2>2, <2>3, <1>2, CurIsRecord DEF IInv
<1>4. event \in Events /\ event[1] = w /\ old.pend \in Seq(Events)
  BY <1>2, <1>3 DEF Events, Records
<1>5. /\ new \in Records /\ new.rev = old.rev + 1 /\ new.gen = old.gen + 1
      /\ new.notes = old.notes /\ new.pend = Append(old.pend, event)
  <2> HIDE DEF event, old
  <2> QED
    BY <1>3, <1>4, Restored
<1> HIDE DEF new
<1>6. Succ(file[w], new)
  BY <1>3, <1>5, StoreAssumption, SMTT(40) DEF Succ, Rev, Records
<1> HIDE DEF w, old, event
<1>7. Pend(new) = new.pend /\ Range(new.pend) = Range(old.pend) \cup {event} /\ Pend(old) = old.pend
  <2>1. Range(Append(old.pend, event)) = Range(old.pend) \cup {event}
    BY <1>4, AppendRange
  <2> QED
    BY <1>3, <1>5, <2>1, StoreAssumption DEF Pend
<1>8. Mine(w, new)
  BY <1>3, <1>4, <1>7 DEF Mine
<1>9. Kept(w, new)
  BY <1>3, <1>7 DEF Kept, IInv, EventInv, OwedInv
<1>10. PICK r \in Records : r = new
  BY <1>5
<1> USE DEF w
<1> QED
  BY <1>1, <1>6, <1>8, <1>9, <1>10, PersistKeeps

(* Clearing the queue preserves the invariant: every event in it is        *)
(* durable, so no owed event goes with it.                                 *)
LEMMA ClearQueueKeeps == ASSUME IInv, ClearQueue PROVE IInv'
<1> DEFINE w == txn.id
           new == [file[w] EXCEPT !.pend = <<>>, !.rev = @ + 1]
<1>1. /\ txn # None /\ txn.step = "clear" /\ Usable(w)
      /\ Prepare(GuardsAfterReading({w}), [txn EXCEPT !.next = new]) /\ Observe({w})
      /\ UNCHANGED <<file, log, synced, index, snap, owed, faults, foreign>>
  BY DEF ClearQueue, At
<1>2. txn \in Transactions /\ w \in WorkIds
  BY <1>1 DEF IInv, TypeOK, Transactions
<1>3. file[w] \in Records /\ Cur(w) = file[w] /\ file[w] \in Allowed(guard[w], file[w])
  BY <1>1, <1>2, CurIsRecord, AllowedIs DEF Usable, Readable, IInv, TxnInv, StepInv
<1>4. /\ new \in Records /\ new.rev = file[w].rev + 1 /\ new.gen = file[w].gen
      /\ new.notes = file[w].notes /\ new.pend = <<>>
  BY <1>3, Emptied
<1> HIDE DEF new
<1>5. Succ(file[w], new)
  BY <1>3, <1>4, StoreAssumption DEF Succ, Rev, Records
<1>6. Mine(w, new)
  BY <1>4 DEF Mine, Pend, Range
<1>7. Kept(w, new)
  <2>1. \A e \in Range(file[w].pend) : Durable(e)
    BY <1>1, <1>3 DEF IInv, TxnInv, StepInv
  <2>2. Pend(file[w]) = file[w].pend
    BY <1>3, StoreAssumption DEF Pend
  <2> QED
    BY <1>3, <2>1, <2>2 DEF Kept, IInv, EventInv, OwedInv
<1>8. PICK r \in Records : r = new
  BY <1>4
<1> QED
  BY <1>1, <1>5, <1>6, <1>7, <1>8, PersistKeeps

(* An index rebuild that starts preserves the invariant.                   *)
LEMMA RescanKeeps == ASSUME IInv, NEW a \in Agents, Rescan(a) PROVE IInv'
<1> USE DEF IInv, EventInv
<1>1. txn = None /\ txn' = Command(a, Min(WorkIds), "index", "scan", Absent)
      /\ UNCHANGED <<disk, snap, seen, owed, faults, foreign>>
  BY DEF Rescan
<1>2. Min(WorkIds) \in WorkIds
  BY StoreAssumption, MinIsElement
<1>3. /\ txn' \in Transactions /\ txn'.step = "scan" /\ txn'.rest = {} /\ ~txn'.scanning
  BY <1>1, <1>2, CommandType DEF Steps
<1>4. TypeOK'
  BY <1>1, <1>3 DEF TypeOK, disk
<1>5. GuardInv' /\ OwedInv' /\ \A v \in WorkIds : Cur(v)' = Cur(v)
  BY <1>1, Undisturbed DEF Durable, disk
<1>6. SnapInv'
  BY <1>1, <1>4, <1>5, SnapStep DEF Later
<1>7. TxnInv'
  BY <1>3 DEF TxnInv, StepInv
<1> QED
  BY <1>1, <1>4, <1>5, <1>6, <1>7 DEF EventsOnce, disk

(* The commit of a record preserves the invariant.                         *)
LEMMA CommitKeeps ==
    ASSUME IInv, txn # None, txn.step \in {"write", "seal"},
           \/ txn.id \in Guarded /\ guard' = [guard EXCEPT ![txn.id] = Committed(txn.next)] /\ file' = file
           \/ txn.id \notin Guarded /\ guard' = guard /\ file' = [file EXCEPT ![txn.id] = txn.next],
           Proceed, owed' = owed \cup Range(txn.next.pend),
           UNCHANGED <<log, synced, index, seen, faults, foreign>>
    PROVE  IInv'
<1> USE DEF IInv, EventInv
<1>1. PICK w \in WorkIds, r \in Records : txn.id = w /\ txn.next = r /\ Writing(w, r)
  BY DEF TypeOK, Transactions, TxnInv, StepInv, Writing
<1>2. txn \in Transactions /\ w \notin txn.rest /\ txn.rest \subseteq WorkIds /\ txn.by \in Agents
  BY <1>1 DEF TypeOK, TxnInv, StepInv, Transactions
<1>3. /\ guard' \in [WorkIds -> Guards \cup {None}]
      /\ file' \in [WorkIds -> Records \cup {Absent, Unexpected}]
      /\ owed' \subseteq Events
      /\ GuardInv' /\ OwedInv'
      /\ Calm(guard'[w]) /\ Cur(w)' = r
      /\ \A v \in WorkIds :
            /\ Later(Cur(v), Cur(v)')
            /\ v # w => guard'[v] = guard[v] /\ Cur(v)' = Cur(v)
  BY <1>1, CommitStep
<1>4. /\ txn' \in Transactions \cup {None}
      /\ snap' \in [Agents -> Snapshots \cup {None}]
      /\ txn' # None => /\ snap' = snap
                        /\ txn'.id = w /\ txn'.rest = txn.rest /\ txn'.scanning = txn.scanning
                        /\ \/ txn'.step = "drain" /\ r.pend # <<>>
                           \/ txn'.step = "pick" /\ r.pend = <<>> /\ txn.scanning
                           \/ txn'.step = "scan" /\ r.pend = <<>> /\ ~txn.scanning
      /\ txn' = None => snap' = [snap EXCEPT ![txn.by] = [id |-> w, work |-> r]]
  BY <1>1, <1>2, Proceeding
<1>5. TypeOK'
  BY <1>3, <1>4 DEF TypeOK
<1>6. SnapInv'
  <2>1. Older(r, Cur(w)') /\ Mine(w, r)
    BY <1>1, <1>3, StoreAssumption DEF Older, Rev, Records, Writing
  <2>2. \A b \in Agents : snap'[b] = snap[b] \/ snap'[b] = [id |-> w, work |-> r]
    BY <1>4 DEF TypeOK
  <2> QED
    BY <1>3, <1>5, <2>1, <2>2, SnapStep
<1>7. ASSUME NEW v \in txn.rest PROVE Queued(v)'
  <2>1. v \in WorkIds /\ v # w /\ Queued(v)
    BY <1>2 DEF TxnInv, StepInv
  <2> QED
    BY <1>3, <2>1 DEF Queued
<1>8. TxnInv'
  BY <1>2, <1>3, <1>4, <1>7 DEF TxnInv, StepInv
<1> QED
  BY <1>3, <1>5, <1>6, <1>8 DEF EventsOnce

(* The write of the Work file preserves the invariant, whether the guard   *)
(* still has to be committed or the Work has none.                         *)
LEMMA WriteWorkKeeps == ASSUME IInv, WriteWork PROVE IInv'
<1>1. txn # None /\ txn.step = "write" /\ txn \in Transactions
      /\ txn.id \in WorkIds /\ txn.next \in Records /\ Writing(txn.id, txn.next)
  BY DEF WriteWork, At, IInv, TypeOK, Transactions, TxnInv, StepInv, Writing
<1>2. CASE txn.id \in Guarded
  <2> USE DEF IInv, EventInv
  <2>1. /\ file' = [file EXCEPT ![txn.id] = txn.next] /\ txn' = [txn EXCEPT !.step = "seal"]
        /\ UNCHANGED <<guard, log, synced, index, snap, seen, owed, faults, foreign>>
    BY <1>2 DEF WriteWork
  <2>2. /\ txn' \in Transactions /\ txn'.step = "seal" /\ txn'.id = txn.id
        /\ txn'.next = txn.next /\ txn'.rest = txn.rest
    BY <1>1, <2>1 DEF Transactions, Steps
  <2>3. TypeOK'
    BY <1>1, <2>1, <2>2 DEF TypeOK
  <2>4. GuardInv' /\ OwedInv' /\ \A v \in WorkIds : Cur(v)' = Cur(v)
    <3>1. \A v \in WorkIds : file'[v] = file[v] \/ guard[v] # None
      BY <1>1, <1>2, <2>1 DEF TypeOK, Writing
    <3> QED
      BY <2>1, <3>1, Undisturbed DEF Durable
  <2>5. SnapInv'
    BY <2>1, <2>3, <2>4, SnapStep DEF Later
  <2>6. Writing(txn.id, txn.next) /\ txn.id \notin txn.rest /\ txn.rest \subseteq WorkIds
        /\ \A v \in txn.rest : Queued(v)
    BY <1>1 DEF TxnInv, StepInv, Transactions
  <2>7. PICK t : txn = t
    OBVIOUS
  <2>8. Writing(t.id, t.next)' /\ \A v \in t.rest : Queued(v)'
    BY <1>2, <2>1, <2>4, <2>6, <2>7 DEF Writing, Queued, Kept, Durable
  <2>9. TxnInv'
    BY <1>2, <2>2, <2>6, <2>7, <2>8 DEF TxnInv, StepInv
  <2> QED
    BY <2>1, <2>3, <2>4, <2>5, <2>9 DEF EventsOnce
<1>3. CASE txn.id \notin Guarded
  BY <1>1, <1>3, CommitKeeps DEF WriteWork
<1> QED
  BY <1>2, <1>3

(* Committing the guard preserves the invariant.                           *)
LEMMA SealGuardKeeps == ASSUME IInv, SealGuard PROVE IInv'
<1>1. txn # None /\ txn.step = "seal" /\ txn.id \in Guarded
  BY DEF SealGuard, At, IInv, TxnInv, StepInv
<1> QED
  BY <1>1, CommitKeeps DEF SealGuard

(* Starting to append the queue preserves the invariant.                   *)
LEMMA DrainKeeps == ASSUME IInv, Drain PROVE IInv'
<1> USE DEF IInv, EventInv
<1>1. PICK t \in Transactions : txn = t
  BY DEF Drain, At, TypeOK
<1>2. /\ t.step = "drain" /\ t.id \in WorkIds /\ t.rest \subseteq WorkIds /\ StepInv(t)
  BY <1>1, StoreAssumption DEF Drain, At, TxnInv, Transactions
<1>3. /\ Usable(t.id) /\ Readable(t.id) /\ guard' = GuardsAfterReading({t.id}) /\ Observe({t.id})
      /\ txn' = [t EXCEPT !.step = "append", !.todo = file[t.id].pend]
      /\ UNCHANGED <<file, log, synced, index, snap, owed, faults, foreign>>
  BY <1>1 DEF Drain, Read
<1>4. file[t.id] \in Records /\ Cur(t.id) = file[t.id] /\ file[t.id].pend # <<>> /\ file[t.id].pend \in Seq(Events)
  BY <1>2, <1>3, CurIsRecord DEF Usable, StepInv, Records
<1>5. /\ guard' \in [WorkIds -> Guards \cup {None}]
      /\ seen' \in [WorkIds -> Records \cup {Absent}]
      /\ GuardInv' /\ OwedInv'
      /\ \A v \in WorkIds : /\ Later(Cur(v), Cur(v)')
                            /\ Calm(guard[v]) => Calm(guard'[v]) /\ Cur(v)' = Cur(v)
      /\ Calm(guard'[t.id]) /\ Cur(t.id)' = file[t.id]
  BY <1>2, <1>3, ReadStep
<1>6. /\ txn' \in Transactions /\ txn'.step = "append" /\ txn'.id = t.id
      /\ txn'.todo = file[t.id].pend /\ txn'.rest = t.rest
  BY <1>3, <1>4 DEF Transactions, Steps
<1>7. TypeOK'
  BY <1>3, <1>5, <1>6 DEF TypeOK
<1>8. SnapInv'
  BY <1>3, <1>5, <1>7, SnapStep
<1>9. \A v \in t.rest : Queued(v)'
  BY <1>2, <1>5 DEF StepInv, Queued
<1>10. TxnInv'
  BY <1>2, <1>4, <1>5, <1>6, <1>9 DEF TxnInv, StepInv
<1> QED
  BY <1>3, <1>5, <1>7, <1>8, <1>10 DEF EventsOnce

(* Reading all Works for the index preserves the invariant: those with a   *)
(* queue are left to drain.                                                *)
LEMMA ScanKeeps == ASSUME IInv, Scan PROVE IInv'
<1> USE DEF IInv, EventInv
<1>1. PICK t \in Transactions : txn = t
  BY DEF Scan, At, TypeOK
<1>2. /\ AllReadable /\ guard' = GuardsAfterReading(Existing) /\ Observe(Existing)
      /\ txn' = [t EXCEPT !.step = "pick", !.scanning = TRUE,
                          !.rest = {w \in Existing : file[w].pend # <<>>},
                          !.shown = [w \in WorkIds |-> Status(file[w])]]
      /\ UNCHANGED <<file, log, synced, index, snap, owed, faults, foreign>>
  BY <1>1 DEF Scan
<1>3. Existing \subseteq WorkIds /\ \A w \in Existing : Readable(w) /\ file[w] \in Records
  BY <1>2, CurIsRecord DEF AllReadable, Existing
<1>4. /\ guard' \in [WorkIds -> Guards \cup {None}]
      /\ seen' \in [WorkIds -> Records \cup {Absent}]
      /\ GuardInv' /\ OwedInv'
      /\ \A v \in WorkIds : Later(Cur(v), Cur(v)')
      /\ \A v \in Existing : Calm(guard'[v]) /\ Cur(v)' = file[v]
  BY <1>2, <1>3, ReadStep
<1>5. [w \in WorkIds |-> Status(file[w])] \in [WorkIds -> Statuses \cup {"none"}]
  <2>1. \A w \in WorkIds : file[w] # Absent => file[w].status \in Statuses
    BY <1>3 DEF Existing, Records
  <2> QED
    BY <2>1 DEF Status
<1>6. PICK rest \in SUBSET WorkIds : rest = {w \in Existing : file[w].pend # <<>>}
  BY <1>3
<1>7. /\ txn' \in Transactions /\ txn'.step = "pick" /\ txn'.scanning /\ txn'.rest = rest
  <2> DEFINE sh == [w \in WorkIds |-> Status(file[w])]
  <2>1. sh \in [WorkIds -> Statuses \cup {"none"}]
    BY <1>5
  <2>2. txn' = [t EXCEPT !.step = "pick", !.scanning = TRUE, !.rest = rest, !.shown = sh]
    BY <1>2, <1>6
  <2> HIDE DEF sh
  <2> QED
    BY <2>1, <2>2 DEF Transactions, Steps
<1>8. TypeOK'
  BY <1>2, <1>4, <1>7 DEF TypeOK
<1>9. SnapInv'
  BY <1>2, <1>4, <1>8, SnapStep
<1>10. \A v \in rest : Queued(v)'
  BY <1>3, <1>4, <1>6 DEF Queued
<1>11. TxnInv'
  BY <1>7, <1>10 DEF TxnInv, StepInv
<1> QED
  BY <1>2, <1>4, <1>8, <1>9, <1>11 DEF EventsOnce

(* A command that ends without a write preserves the invariant as long as  *)
(* no durable event is lost.                                               *)
LEMMA EntryKeeps ==
    ASSUME IInv, UNCHANGED <<guard, seen, owed>>, TypeOK', EventsOnce',
           \A w \in WorkIds : file'[w] = file[w] \/ guard[w] # None,
           \A e \in Events : Durable(e) => Durable(e)',
           \A a \in Agents : snap'[a] \in {None, snap[a]},
           txn' = None
    PROVE  IInv'
<1>1. GuardInv' /\ OwedInv' /\ \A v \in WorkIds : Cur(v)' = Cur(v)
  BY Undisturbed DEF IInv, EventInv
<1>2. SnapInv'
  BY <1>1, SnapStep DEF Later, IInv
<1> QED
  BY <1>1, <1>2 DEF IInv, EventInv, TxnInv

(* Appending one event preserves the invariant, whether the event already  *)
(* had a line or not.                                                      *)
LEMMA AppendEventKeeps == ASSUME IInv, AppendEvent PROVE IInv'
<1> USE DEF IInv, EventInv
<1>1. PICK t \in Transactions : txn = t
  BY DEF AppendEvent, At, TypeOK
<1>2. /\ t.step = "append" /\ t.id \in WorkIds /\ t.rest \subseteq WorkIds /\ t.todo \in Seq(Events)
      /\ StepInv(t)
  BY <1>1, StoreAssumption DEF AppendEvent, At, TxnInv, Transactions
<1>3. /\ log' = WithEvent(Head(t.todo)) /\ synced' = Len(log')
      /\ txn' = [t EXCEPT !.todo = Tail(@), !.step = IF Len(t.todo) = 1 THEN "clear" ELSE "append"]
      /\ UNCHANGED <<file, guard, index, snap, seen, owed, faults, foreign>>
  BY <1>1 DEF AppendEvent
<1>4. t.todo # <<>>
  BY <1>2 DEF StepInv
<1>5. PICK e \in Events : e = Head(t.todo)
  BY <1>2, <1>4
<1>6. /\ Tail(t.todo) \in Seq(Events)
      /\ Range(t.todo) \subseteq {e} \cup Range(Tail(t.todo))
      /\ Len(t.todo) = 1 => Range(t.todo) = {e}
      /\ Len(t.todo) # 1 => Tail(t.todo) # <<>>
  <2>1. /\ Tail(t.todo) \in Seq(Events) /\ Len(Tail(t.todo)) = Len(t.todo) - 1
        /\ t.todo[1] = e /\ Len(t.todo) \in Nat \ {0}
        /\ \A i \in 2 .. Len(t.todo) : t.todo[i] = Tail(t.todo)[i - 1]
        /\ DOMAIN t.todo = 1 .. Len(t.todo) /\ DOMAIN Tail(t.todo) = 1 .. Len(t.todo) - 1
    BY <1>2, <1>4, <1>5
  <2>2. ASSUME NEW i \in 2 .. Len(t.todo) PROVE t.todo[i] \in Range(Tail(t.todo))
    <3>1. i - 1 \in DOMAIN Tail(t.todo) /\ Tail(t.todo)[i - 1] = t.todo[i]
      BY <2>1
    <3> QED
      BY <3>1 DEF Range
  <2>3. Range(t.todo) \subseteq {e} \cup Range(Tail(t.todo))
    <3>1. \A i \in DOMAIN t.todo : i = 1 \/ i \in 2 .. Len(t.todo)
      BY <2>1
    <3> QED
      BY <2>1, <2>2, <3>1 DEF Range
  <2>4. Len(t.todo) = 1 => Range(t.todo) = {e}
    BY <2>1 DEF Range
  <2>5. Len(t.todo) # 1 => Tail(t.todo) # <<>>
    BY <1>2, <1>4, SingleTail
  <2> QED
    BY <2>1, <2>3, <2>4, <2>5
<1>7. /\ log' \in Seq(Events \cup {Torn}) /\ Once(log')
      /\ Len(log') \in Nat /\ Len(log') >= Len(log)
      /\ \A i \in 1 .. Len(log) : log'[i] = log[i]
      /\ \E i \in 1 .. Len(log') : log'[i] = e
  BY <1>3, <1>5, Written
<1>8. synced' \in 0 .. Len(log') /\ synced' >= synced /\ synced \in 0 .. Len(log) /\ Len(log) \in Nat
  BY <1>3, <1>7 DEF TypeOK
<1>9. \A x \in Events : Durable(x) => Durable(x)'
  BY <1>7, <1>8 DEF Durable
<1>10. Durable(e)'
  BY <1>3, <1>7 DEF Durable
<1>11. /\ txn' \in Transactions /\ txn'.id = t.id /\ txn'.todo = Tail(t.todo) /\ txn'.rest = t.rest
       /\ txn'.step = IF Len(t.todo) = 1 THEN "clear" ELSE "append"
  BY <1>3, <1>6 DEF Transactions, Steps
<1>12. TypeOK'
  BY <1>3, <1>7, <1>8, <1>11 DEF TypeOK
<1>13. GuardInv' /\ OwedInv' /\ \A v \in WorkIds : Cur(v)' = Cur(v)
  BY <1>3, <1>9, Undisturbed
<1>14. SnapInv'
  BY <1>3, <1>12, <1>13, SnapStep DEF Later
<1>15. Cur(t.id)' = Cur(t.id) /\ Cur(t.id) \in Records /\ Calm(guard[t.id]) /\ t.id \notin t.rest
       /\ \A x \in Range(Cur(t.id).pend) : x \in Events /\ (Durable(x) \/ x \in Range(t.todo))
  BY <1>2, <1>13 DEF StepInv, Records, Range
<1>16. \A v \in t.rest : Queued(v)'
  BY <1>2, <1>3, <1>13 DEF StepInv, Queued
<1>17. \A x \in Range(Cur(t.id).pend) : Durable(x)' \/ (Len(t.todo) # 1 /\ x \in Range(Tail(t.todo)))
  BY <1>6, <1>9, <1>10, <1>15
<1>18. TxnInv'
  BY <1>3, <1>6, <1>11, <1>15, <1>16, <1>17 DEF TxnInv, StepInv
<1> QED
  BY <1>7, <1>12, <1>13, <1>14, <1>18 DEF EventsOnce, Once

(* A failed fsync preserves the invariant: the line may be there, but no   *)
(* event counts as durable for it.                                         *)
LEMMA FsyncFailsKeeps == ASSUME IInv, FsyncFails PROVE IInv'
<1>1. PICK e \in Events : e = Head(txn.todo)
  <2>1. txn \in Transactions /\ StepInv(txn) /\ txn.step = "append"
    BY DEF FsyncFails, At, IInv, TypeOK, TxnInv
  <2>2. txn.todo \in Seq(Events) /\ txn.todo # <<>>
    BY <2>1 DEF Transactions, StepInv
  <2> QED
    BY <2>2
<1>2. /\ faults < MaxFaults /\ log' = WithEvent(e) /\ txn' = None /\ faults' = faults + 1
      /\ UNCHANGED <<file, guard, synced, index, snap, seen, owed, foreign>>
  BY <1>1 DEF FsyncFails
<1>3. /\ log' \in Seq(Events \cup {Torn}) /\ Once(log')
      /\ Len(log') \in Nat /\ Len(log') >= Len(log)
      /\ \A i \in 1 .. Len(log) : log'[i] = log[i]
  BY <1>2, Written DEF IInv, EventInv
<1>4. synced' \in 0 .. Len(log') /\ synced \in 0 .. Len(log) /\ Len(log) \in Nat /\ faults' \in 0 .. MaxFaults
  BY <1>2, <1>3, StoreAssumption DEF IInv, TypeOK
<1>5. TypeOK'
  BY <1>2, <1>3, <1>4 DEF IInv, TypeOK
<1>6. EventsOnce'
  BY <1>3 DEF EventsOnce, Once
<1>7. \A x \in Events : Durable(x) => Durable(x)'
  BY <1>2, <1>3, <1>4 DEF Durable
<1> QED
  BY <1>2, <1>5, <1>6, <1>7, EntryKeeps

(* Taking the next Work of a scan preserves the invariant.                 *)
LEMMA PickWorkKeeps == ASSUME IInv, PickWork PROVE IInv'
<1> USE DEF IInv, EventInv
<1>1. PICK t \in Transactions : txn = t
  BY DEF PickWork, At, TypeOK
<1>2. /\ t.step = "pick" /\ t.rest \subseteq WorkIds /\ t.rest # {} /\ StepInv(t)
  BY <1>1, StoreAssumption DEF PickWork, At, TxnInv, Transactions
<1>3. PICK w \in t.rest : w = Min(t.rest)
  BY <1>2, StoreAssumption, MinIsElement
<1>4. /\ txn' = [t EXCEPT !.step = "drain", !.id = w, !.rest = @ \ {w}]
      /\ UNCHANGED <<disk, snap, seen, owed, faults, foreign>>
  BY <1>1, <1>3 DEF PickWork
<1>5. w \in WorkIds /\ t.rest \ {w} \in SUBSET WorkIds
  BY <1>2
<1>6. txn' \in Transactions /\ txn'.step = "drain" /\ txn'.id = w /\ txn'.rest = t.rest \ {w}
  BY <1>4, <1>5 DEF Transactions, Steps
<1>7. TypeOK'
  BY <1>4, <1>6 DEF TypeOK, disk
<1>8. GuardInv' /\ OwedInv' /\ \A v \in WorkIds : Cur(v)' = Cur(v)
  BY <1>4, Undisturbed DEF Durable, disk
<1>9. SnapInv'
  BY <1>4, <1>7, <1>8, SnapStep DEF Later
<1>10. \A v \in t.rest : v \in WorkIds /\ Queued(v) /\ Queued(v)'
  BY <1>2, <1>4, <1>8 DEF StepInv, Queued, disk
<1>11. Queued(w)' /\ \A v \in t.rest \ {w} : Queued(v)'
  BY <1>10
<1>12. TxnInv'
  <2>1. Calm(guard'[w]) /\ Cur(w)' \in Records /\ Cur(w)'.pend # <<>>
    BY <1>11 DEF Queued
  <2> QED
    BY <1>6, <1>11, <2>1 DEF TxnInv, StepInv
<1> QED
  BY <1>4, <1>7, <1>8, <1>9, <1>12 DEF EventsOnce, disk

(* Writing the index preserves the invariant, which does not read it.      *)
LEMMA WriteIndexKeeps == ASSUME IInv, WriteIndex PROVE IInv'
<1>1. /\ txn \in Transactions /\ index' = txn.shown /\ txn' = None
      /\ UNCHANGED <<file, guard, log, synced, snap, seen, owed, faults, foreign>>
  BY DEF WriteIndex, At, IInv, TypeOK
<1>2. TypeOK'
  BY <1>1 DEF IInv, TypeOK, Transactions
<1> QED
  BY <1>1, <1>2, EntryKeeps DEF IInv, EventInv, EventsOnce, Durable

(* A command that gives up preserves the invariant.                        *)
LEMMA GiveUpKeeps == ASSUME IInv, GiveUp PROVE IInv'
<1> USE DEF IInv, EventInv
<1>1. txn' = None /\ UNCHANGED <<file, log, synced, index, snap, owed, faults, foreign>>
  BY DEF GiveUp
<1>2. CASE UNCHANGED <<guard, seen>>
  <2>1. TypeOK'
    BY <1>1, <1>2 DEF TypeOK
  <2> QED
    BY <1>1, <1>2, <2>1, EntryKeeps DEF EventsOnce, Durable
<1>3. CASE guard' = GuardsAfterReading(ReadBeforeFailure) /\ Observe(ReadBeforeFailure)
  <2>1. ReadBeforeFailure \in SUBSET WorkIds /\ \A v \in ReadBeforeFailure : Readable(v)
    <3>1. \A v \in WorkIds : v <= v
      BY StoreAssumption
    <3> QED
      BY <3>1 DEF ReadBeforeFailure, Existing
  <2>2. /\ guard' \in [WorkIds -> Guards \cup {None}]
        /\ seen' \in [WorkIds -> Records \cup {Absent}]
        /\ GuardInv' /\ OwedInv'
        /\ \A v \in WorkIds : Later(Cur(v), Cur(v)')
    BY <1>1, <1>3, <2>1, ReadStep
  <2>3. TypeOK'
    BY <1>1, <2>2 DEF TypeOK
  <2>4. SnapInv'
    BY <1>1, <2>2, <2>3, SnapStep
  <2> QED
    BY <1>1, <2>2, <2>3, <2>4 DEF TxnInv, EventsOnce
<1> QED
  BY <1>2, <1>3 DEF GiveUp

(* The death of an agent between two steps preserves the invariant: what   *)
(* its command had promised is in the guards and the files.                *)
LEMMA CrashKeeps == ASSUME IInv, NEW a \in Agents, Crash(a) PROVE IInv'
<1>1. /\ faults < MaxFaults /\ snap' = [snap EXCEPT ![a] = None] /\ faults' = faults + 1
      /\ UNCHANGED <<file, guard, synced, index, seen, owed, foreign>>
  BY DEF Crash
<1>2. faults' \in 0 .. MaxFaults /\ snap' \in [Agents -> Snapshots \cup {None}]
      /\ \A b \in Agents : snap'[b] \in {None, snap[b]}
  BY <1>1, StoreAssumption DEF IInv, TypeOK
<1>3. CASE UNCHANGED <<txn, log>>
  <2> USE DEF IInv, EventInv
  <2>1. TypeOK'
    BY <1>1, <1>2, <1>3 DEF TypeOK
  <2>2. GuardInv' /\ OwedInv' /\ \A v \in WorkIds : Cur(v)' = Cur(v)
    BY <1>1, <1>3, Undisturbed DEF Durable
  <2>3. SnapInv'
    BY <1>2, <2>1, <2>2, SnapStep DEF Later
  <2>4. PICK t : t = txn
    OBVIOUS
  <2>5. t # None => \A v \in t.rest : v \in WorkIds /\ Queued(v)
    BY <2>4 DEF TxnInv, StepInv, TypeOK, Transactions
  <2>6. t # None => \A v \in t.rest : Queued(v)'
    BY <1>1, <2>2, <2>5 DEF Queued
  <2>7. t # None => t.id \in WorkIds /\ StepInv(t)
    BY <2>4 DEF TxnInv, TypeOK, Transactions
  <2>8. TxnInv'
    BY <1>1, <1>3, <2>2, <2>4, <2>6, <2>7 DEF TxnInv, StepInv, Writing, Kept, Durable
  <2> QED
    BY <1>3, <2>1, <2>2, <2>3, <2>8 DEF EventsOnce
<1>4. CASE /\ txn # None /\ txn' = None
           /\ log' \in IF txn.step = "append" THEN {log, Append(log, Torn), WithEvent(Head(txn.todo))} ELSE {log}
  <2>1. /\ log' \in Seq(Events \cup {Torn}) /\ Once(log')
        /\ Len(log') \in Nat /\ Len(log') >= Len(log)
        /\ \A i \in 1 .. Len(log) : log'[i] = log[i]
    <3>1. log \in Seq(Events \cup {Torn}) /\ Once(log)
      BY DEF IInv, TypeOK, EventInv, EventsOnce, Once
    <3>2. CASE log' = log
      BY <3>1, <3>2
    <3>3. CASE log' = Append(log, Torn)
      <4>1. /\ Append(log, Torn) \in Seq(Events \cup {Torn}) /\ Once(Append(log, Torn))
            /\ Len(Append(log, Torn)) = Len(log) + 1
            /\ \A i \in 1 .. Len(log) : Append(log, Torn)[i] = log[i]
        BY <3>1, Extended
      <4> QED
        BY <3>1, <3>3, <4>1
    <3>4. CASE txn.step = "append" /\ log' = WithEvent(Head(txn.todo))
      <4>1. txn \in Transactions /\ StepInv(txn)
        BY <1>4 DEF IInv, TypeOK, TxnInv
      <4>2. Head(txn.todo) \in Events
        BY <3>4, <4>1 DEF Transactions, StepInv
      <4> QED
        BY <3>4, <4>2, Written DEF IInv, EventInv
    <3> QED
      BY <1>4, <3>2, <3>3, <3>4
  <2>2. synced \in 0 .. Len(log) /\ Len(log) \in Nat
    BY DEF IInv, TypeOK
  <2>3. TypeOK'
    BY <1>1, <1>2, <1>4, <2>1, <2>2 DEF IInv, TypeOK
  <2>4. EventsOnce'
    BY <2>1 DEF EventsOnce, Once
  <2>5. \A x \in Events : Durable(x) => Durable(x)'
    BY <1>1, <2>1, <2>2 DEF Durable
  <2> QED
    BY <1>1, <1>2, <1>4, <2>3, <2>4, <2>5, EntryKeeps
<1> QED
  BY <1>3, <1>4 DEF Crash

(* A power loss preserves the invariant: it takes only lines that no event *)
(* relied on.                                                              *)
LEMMA PowerLossKeeps == ASSUME IInv, PowerLoss PROVE IInv'
<1>1. PICK n \in synced .. Len(log) :
        /\ log' \in {SubSeq(log, 1, n)} \cup
                    IF n < Len(log) THEN {Append(SubSeq(log, 1, n), Torn)} ELSE {}
        /\ synced' = Len(log')
  BY DEF PowerLoss
<1>2. /\ faults < MaxFaults /\ txn' = None /\ snap' = [b \in Agents |-> None] /\ faults' = faults + 1
      /\ UNCHANGED <<file, guard, index, seen, owed, foreign>>
  BY DEF PowerLoss
<1>3. /\ log \in Seq(Events \cup {Torn}) /\ Once(log) /\ synced \in 0 .. Len(log) /\ Len(log) \in Nat
      /\ n \in 0 .. Len(log) /\ synced <= n
  BY DEF IInv, TypeOK, EventInv, EventsOnce, Once
<1>4. PICK cut \in Seq(Events \cup {Torn}) :
         /\ cut = SubSeq(log, 1, n) /\ Once(cut) /\ Len(cut) = n
         /\ \A i \in 1 .. n : cut[i] = log[i]
  BY <1>3, Cut
<1>5. /\ Append(cut, Torn) \in Seq(Events \cup {Torn}) /\ Once(Append(cut, Torn))
      /\ Len(Append(cut, Torn)) = n + 1
      /\ \A i \in 1 .. n : Append(cut, Torn)[i] = log[i]
  <2>1. /\ Append(cut, Torn) \in Seq(Events \cup {Torn}) /\ Once(Append(cut, Torn))
        /\ Len(Append(cut, Torn)) = Len(cut) + 1
        /\ \A i \in 1 .. Len(cut) : Append(cut, Torn)[i] = cut[i]
    <3>1. Once(cut)
      BY <1>4
    <3> QED
      BY <3>1, Extended
  <2> QED
    BY <2>1, <1>4
<1>6. log' = cut \/ log' = Append(cut, Torn)
  BY <1>1, <1>4
<1>7. /\ log' \in Seq(Events \cup {Torn}) /\ Once(log') /\ Len(log') \in Nat /\ Len(log') >= n
      /\ \A i \in 1 .. n : log'[i] = log[i]
  <2>1. CASE log' = cut
    BY <1>3, <1>4, <2>1
  <2>2. CASE log' = Append(cut, Torn)
    <3>1. n \in Nat
      BY <1>3
    <3>2. Len(log') = n + 1
      BY <1>5, <2>2
    <3> QED
      BY <3>1, <3>2, <1>5, <2>2
  <2> QED
    BY <1>6, <2>1, <2>2
<1>8. synced' \in 0 .. Len(log') /\ faults' \in 0 .. MaxFaults
      /\ snap' \in [Agents -> Snapshots \cup {None}] /\ \A b \in Agents : snap'[b] = None
  BY <1>1, <1>2, <1>7, StoreAssumption DEF IInv, TypeOK
<1>9. TypeOK'
  BY <1>2, <1>7, <1>8 DEF IInv, TypeOK
<1>10. EventsOnce'
  BY <1>7 DEF EventsOnce, Once
<1>11. \A x \in Events : Durable(x) => Durable(x)'
  BY <1>1, <1>3, <1>7 DEF Durable
<1> QED
  BY <1>2, <1>8, <1>9, <1>10, <1>11, EntryKeeps

(* A foreign write preserves the invariant: the guard decides what the Work *)
(* is, whatever the file holds.                                            *)
LEMMA ForeignWriteKeeps == ASSUME IInv, NEW w \in Guarded, ForeignWrite(w) PROVE IInv'
<1> USE DEF IInv, EventInv
<1>1. /\ w \in WorkIds /\ guard[w] # None /\ foreign < MaxForeign /\ foreign' = foreign + 1
      /\ UNCHANGED <<guard, log, synced, index, snap, txn, seen, owed, faults>>
  BY StoreAssumption DEF ForeignWrite
<1>2. PICK f \in Records \cup {Absent, Unexpected} : file' = [file EXCEPT ![w] = f]
  BY <1>1 DEF ForeignWrite, TypeOK, Guards
<1>3. foreign' \in 0 .. MaxForeign
  BY <1>1, StoreAssumption DEF TypeOK
<1>4. TypeOK'
  BY <1>1, <1>2, <1>3 DEF TypeOK
<1>5. \A v \in WorkIds : file'[v] = file[v] \/ guard[v] # None
  BY <1>1, <1>2 DEF TypeOK
<1>6. GuardInv' /\ OwedInv' /\ \A v \in WorkIds : Cur(v)' = Cur(v)
  BY <1>1, <1>5, Undisturbed DEF Durable
<1>7. SnapInv'
  BY <1>1, <1>4, <1>6, SnapStep DEF Later
<1>8. PICK t : t = txn
  OBVIOUS
<1>9. t # None => \A v \in t.rest : v \in WorkIds /\ Queued(v)
  BY <1>8 DEF TxnInv, StepInv, TypeOK, Transactions
<1>10. t # None => \A v \in t.rest : Queued(v)'
  BY <1>1, <1>6, <1>9 DEF Queued
<1>11. t # None => t.id \in WorkIds /\ StepInv(t) /\ (t.id \in Guarded \/ file'[t.id] = file[t.id])
  BY <1>8, <1>2 DEF TxnInv, TypeOK, Transactions
<1>12. TxnInv'
  BY <1>1, <1>6, <1>8, <1>10, <1>11 DEF TxnInv, StepInv, Writing, Kept, Durable
<1> QED
  BY <1>1, <1>4, <1>6, <1>7, <1>12 DEF EventsOnce

(* The invariant holds of an empty workspace.                              *)
LEMMA InitHolds == ASSUME Init PROVE IInv
<1> USE DEF Init
<1>1. TypeOK
  BY StoreAssumption DEF TypeOK
<1>2. GuardInv
  <2> SUFFICES ASSUME NEW w \in WorkIds PROVE GuardOk(w, None, Absent) /\ Later(Absent, Now(None, Absent))
    BY DEF GuardInv, Cur
  <2>1. Mine(w, Absent)
    BY DEF Mine, Pend, Range
  <2> QED
    BY <2>1, StoreAssumption DEF GuardOk, Now, Allowed, Later
<1>3. SnapInv /\ TxnInv /\ OwedInv /\ EventsOnce
  BY DEF SnapInv, TxnInv, OwedInv, EventsOnce
<1> QED
  BY <1>1, <1>2, <1>3 DEF IInv, EventInv

(* Every step preserves the invariant.                                     *)
LEMMA NextKeeps == ASSUME IInv, Next PROVE IInv'
<1>1. ASSUME NEW a \in Agents, Rescan(a) PROVE IInv'
  BY <1>1, RescanKeeps
<1>2. ASSUME NEW a \in Agents, NEW w \in WorkIds, Load(a, w) \/ Begin(a, w) \/ Recover(a, w) PROVE IInv'
  BY <1>2, LoadKeeps, BeginKeeps, RecoverKeeps
<1>3. ASSUME NEW a \in Agents, NEW st \in Statuses, Save(a, st) \/ Refuse(a, st) PROVE IInv'
  BY <1>3, SaveKeeps, RefuseKeeps
<1>4. CASE Advance
  BY <1>4, SaveRestoredKeeps, WriteWorkKeeps, SealGuardKeeps, DrainKeeps, AppendEventKeeps,
     ClearQueueKeeps, ScanKeeps, PickWorkKeeps, WriteIndexKeeps, GiveUpKeeps DEF Advance
<1>5. CASE Environment
  BY <1>5, FsyncFailsKeeps, PowerLossKeeps, CrashKeeps, ForeignWriteKeeps DEF Environment
<1> QED
  BY <1>1, <1>2, <1>3, <1>4, <1>5 DEF Next, Start

(* A stuttering step preserves the invariant.                              *)
LEMMA StutterKeeps == ASSUME IInv, UNCHANGED vars PROVE IInv'
<1> USE DEF vars, disk
<1>1. TypeOK' /\ GuardInv' /\ EventInv' /\ SnapInv'
  BY DEF IInv, TypeOK, GuardInv, Cur, EventInv, OwedInv, Durable, EventsOnce, SnapInv
<1>2. PICK t : t = txn
  OBVIOUS
<1>3. TxnInv'
  BY <1>2 DEF IInv, TxnInv, StepInv, Writing, Kept, Durable, Queued, Cur
<1> QED
  BY <1>1, <1>3 DEF IInv

-----------------------------------------------------------------------------
(* What follows.                                                           *)

(* The strengthening of StoreSound is an invariant of Spec: guards,        *)
(* snapshots, the command in progress and the queue agree after every load, *)
(* save, drain, crash, power loss and foreign write (work_guard.py and     *)
(* persist, drain and save_work).                                          *)
THEOREM InvariantHolds == Spec => []IInv
<1>1. Init => IInv
  BY InitHolds
<1>2. IInv /\ [Next]_vars => IInv'
  BY NextKeeps, StutterKeeps
<1> QED
  BY <1>1, <1>2, PTL DEF Spec

(* The work store keeps its types: records, guards, snapshots and commands *)
(* have the shape load_work and _persist_work expect.                      *)
THEOREM TypeCorrect == Spec => []TypeOK
<1>1. IInv => TypeOK
  BY DEF IInv
<1> QED
  BY <1>1, InvariantHolds, PTL

(* For any number of Works, agents, revisions, faults and foreign writes,  *)
(* an event queued by a committed record is durable or still queued by     *)
(* whatever the guard can accept, and no drain, however often retried,     *)
(* writes it twice (drain and append_event_if_absent).                     *)
THEOREM QueueIsSound == Spec => []StoreSound
<1>1. IInv => StoreSound
  BY EventView DEF IInv, StoreSound
<1> QED
  BY <1>1, InvariantHolds, PTL

-----------------------------------------------------------------------------
(* Readers.                                                                *)

(* What is seen of the Works changes only where a command reads them.      *)
LEMMA Readings ==
    ASSUME IInv, Next
    PROVE  seen' = seen \/ \E S \in SUBSET WorkIds : (\A w \in S : Readable(w)) /\ Observe(S)
<1> DEFINE Goal == seen' = seen \/ \E S \in SUBSET WorkIds : (\A w \in S : Readable(w)) /\ Observe(S)
<1>1. ReadBeforeFailure \in SUBSET WorkIds /\ \A v \in ReadBeforeFailure : Readable(v)
  <2>1. \A v \in WorkIds : v <= v
    BY StoreAssumption
  <2> QED
    BY <2>1 DEF ReadBeforeFailure, Existing
<1>2. Existing \in SUBSET WorkIds
  BY DEF Existing
<1>3. ASSUME NEW w \in WorkIds, Readable(w), Observe({w}) PROVE Goal
  BY <1>3
<1>4. ASSUME NEW a \in Agents, snap[a] # None PROVE snap[a].id \in WorkIds
  BY <1>4 DEF IInv, TypeOK, Snapshots
<1>5. txn # None => txn.id \in WorkIds
  BY DEF IInv, TypeOK, Transactions
<1>6. ASSUME NEW a \in Agents, NEW w \in WorkIds, Load(a, w) \/ Begin(a, w) \/ Recover(a, w) PROVE Goal
  BY <1>3, <1>6 DEF Load, Begin, Recover, Read
<1>7. ASSUME NEW a \in Agents, NEW st \in Statuses, Save(a, st) PROVE Goal
  <2>1. /\ snap[a] # None /\ Readable(snap[a].id) /\ MayActivate(snap[a].id, st)
        /\ Observe(ReadForActivation(snap[a].id, st))
    BY <1>7 DEF Save
  <2>2. /\ ReadForActivation(snap[a].id, st) \in SUBSET WorkIds
        /\ \A v \in ReadForActivation(snap[a].id, st) : Readable(v)
    BY <2>1, <1>2, <1>4 DEF ReadForActivation, MayActivate
  <2> QED
    BY <2>1, <2>2
<1>8. ASSUME NEW a \in Agents, NEW st \in Statuses, Refuse(a, st) PROVE Goal
  <2> DEFINE w == snap[a].id
             current == Readable(w) /\ UpToDate(snap[a].work, w)
             read == (IF Readable(w) THEN {w} ELSE {}) \cup (IF current THEN ReadBeforeFailure ELSE {})
  <2>1. snap[a] # None /\ Observe(read)
    BY <1>8 DEF Refuse
  <2>2. read \in SUBSET WorkIds /\ \A v \in read : Readable(v)
    BY <1>1, <1>4, <2>1
  <2> HIDE DEF read
  <2> QED
    BY <2>1, <2>2
<1>9. CASE SaveRestored \/ Drain \/ ClearQueue
  BY <1>3, <1>5, <1>9 DEF SaveRestored, Drain, ClearQueue, At, Usable, Read
<1>10. CASE Scan
  BY <1>2, <1>10 DEF Scan, AllReadable
<1>11. CASE GiveUp
  BY <1>1, <1>11 DEF GiveUp
<1>12. CASE \/ WriteWork \/ SealGuard \/ AppendEvent \/ PickWork \/ WriteIndex \/ Environment
            \/ \E a \in Agents : Rescan(a)
  BY <1>12 DEF WriteWork, SealGuard, AppendEvent, PickWork, WriteIndex, Environment,
     FsyncFails, PowerLoss, Crash, ForeignWrite, Rescan
<1> QED
  BY <1>6, <1>7, <1>8, <1>9, <1>10, <1>11, <1>12 DEF Next, Start, Advance

(* What commands read of a protected Work only moves forward: a later      *)
(* revision, no smaller generation, and every contribution read before     *)
(* (verify, persist and the revision check of _persist_work).              *)
THEOREM ReadersOnlyAdvance == Spec => ObservedOnlyAdvances
<1>1. ASSUME IInv, [Next]_vars, NEW w \in Guarded, seen[w] # Absent, seen'[w] # seen[w]
      PROVE  /\ seen'[w] # Absent
             /\ seen'[w].rev > seen[w].rev
             /\ seen'[w].gen >= seen[w].gen
             /\ seen[w].notes \subseteq seen'[w].notes
  <2>1. w \in WorkIds
    BY StoreAssumption
  <2>2. seen'[w] = file[w] /\ Readable(w)
    BY <1>1, <2>1, Readings DEF vars, Observe
  <2>3. /\ Cur(w) \in Records \cup {Absent} /\ file[w] \in Records \cup {Absent}
        /\ Later(Cur(w), file[w])
    BY <1>1, <2>1, <2>2, CurIsRecord DEF IInv
  <2>4. Later(seen[w], Cur(w)) /\ seen[w] \in Records \cup {Absent}
    BY <1>1, <2>1 DEF IInv, GuardInv, TypeOK
  <2>5. Later(seen[w], file[w])
    BY <2>3, <2>4, LaterTrans
  <2>6. seen[w] \in Records /\ file[w] \in Records
    BY <1>1, <2>2, <2>3, <2>4, <2>5 DEF Later
  <2> QED
    BY <1>1, <2>2, <2>5, <2>6 DEF Later, Records
<1>2. IInv /\ [Next]_vars =>
        \A w \in Guarded :
          seen[w] # Absent /\ seen'[w] # seen[w] =>
            /\ seen'[w] # Absent
            /\ seen'[w].rev > seen[w].rev
            /\ seen'[w].gen >= seen[w].gen
            /\ seen[w].notes \subseteq seen'[w].notes
  BY <1>1
<1> QED
  BY <1>2, InvariantHolds, PTL DEF Spec, ObservedOnlyAdvances

-----------------------------------------------------------------------------
(* One active Work, and an index in agreement.                             *)

(* Foreign writers damage files but neither delete a guarded file nor put  *)
(* an old one back, the case the default of one active Work is stated for: *)
(* a Work whose file is gone cannot be seen by the check.                  *)
OverwriteOnly == ForeignKinds \subseteq {"overwrite"}

(* A file is one its guard accepts, or a foreign one.                      *)
FilesKnown ==
    /\ \A w \in WorkIds : file[w] = Unexpected \/ Readable(w)
    /\ At("seal") => file[txn.id] \in {txn.next, Unexpected}

(* The command t is writing the Work w as an active one.                   *)
Activates(t, w) ==
    t # None /\ t.id = w /\ t.step \in {"write", "seal"} /\ t.next.status = "active"

(* A Work that is active, that its guard would restore as active, or that a *)
(* command is making active.                                               *)
Contends(w) ==
    \/ file[w] \in Records /\ file[w].status = "active"
    \/ /\ file[w] = Unexpected /\ guard[w] # None /\ guard[w].state = "committed"
       /\ guard[w].authority.status = "active"
    \/ Activates(txn, w)

(* At most one Work is active or about to be.                              *)
OneContends == \A v, w \in WorkIds : Contends(v) /\ Contends(w) => v = w

(* What a scan remembers of a readable Work is what its file says, and the *)
(* queues it has not emptied are those it still has to drain.              *)
ScanAt(t, w) ==
    Readable(w) =>
        /\ t.shown[w] = Status(file[w])
        /\ Pend(file[w]) = <<>> \/ w \in t.rest \/ (w = t.id /\ t.step # "pick")

(* A scan in progress agrees with the files.                               *)
ScanInv ==
    txn # None /\ txn.scanning /\ txn.step # "scan" =>
        /\ \A w \in WorkIds : ScanAt(txn, w)
        /\ txn.step \in {"write", "seal"} =>
              txn.next.pend = <<>> /\ txn.shown[txn.id] = txn.next.status

(* The strengthening of SingleActive and of AcknowledgedMeansSettled: the  *)
(* check before an activation reads every Work, so the Work being activated *)
(* counts before its file says so.                                         *)
AInv == FilesKnown /\ OneContends /\ ScanInv

(* A step that changes no file and no verdict about one.                   *)
SameFiles ==
    /\ file' = file
    /\ \A w \in WorkIds : /\ Readable(w)' <=> Readable(w)
                          /\ file[w] = Unexpected => guard'[w] = guard[w]

(* Readable, of the state after a step.                                    *)
LEMMA ReadableNext ==
    ASSUME TypeOK', NEW w \in WorkIds
    PROVE  Readable(w)' <=> file'[w] # Unexpected /\ file'[w] \in Allowed(guard'[w], file'[w])
<1>1. guard'[w] \in Guards \cup {None}
  BY DEF TypeOK
<1>2. Authorised(w)' = Allowed(guard'[w], file'[w])
  BY <1>1, StoreAssumption DEF Authorised, Allowed, Guards
<1> QED
  BY <1>2 DEF Readable

(* Readable, by what the guard accepts.                                    *)
LEMMA ReadableIs ==
    ASSUME TypeOK, NEW w \in WorkIds
    PROVE  Readable(w) <=> file[w] # Unexpected /\ file[w] \in Allowed(guard[w], file[w])
BY AllowedIs DEF Readable

(* Sealing the guards of readable Works changes no verdict.                *)
LEMMA SealedFiles ==
    ASSUME IInv, IInv', NEW S \in SUBSET WorkIds, \A w \in S : Readable(w),
           guard' = GuardsAfterReading(S), file' = file
    PROVE  SameFiles
<1> SUFFICES ASSUME NEW w \in WorkIds
             PROVE  /\ Readable(w)' <=> Readable(w)
                    /\ file[w] = Unexpected => guard'[w] = guard[w]
  BY DEF SameFiles
<1>1. /\ Allowed(guard'[w], file[w]) \subseteq Allowed(guard[w], file[w])
      /\ w \in S => Allowed(guard'[w], file[w]) = {file[w]}
      /\ w \notin S => guard'[w] = guard[w]
  BY Reading DEF IInv
<1>2. w \in S => Readable(w) /\ file[w] # Unexpected
  BY DEF Readable
<1> QED
  BY <1>1, <1>2, ReadableIs, ReadableNext DEF IInv

(* Preparing a guard changes no verdict: the guard still accepts the file  *)
(* as it is.                                                               *)
LEMMA PreparedFiles ==
    ASSUME IInv, IInv', NEW S \in SUBSET WorkIds, \A w \in S : Readable(w),
           NEW t \in Transactions, t.id \in S, Prepare(GuardsAfterReading(S), t), file' = file
    PROVE  SameFiles
<1> SUFFICES ASSUME NEW w \in WorkIds
             PROVE  /\ Readable(w)' <=> Readable(w)
                    /\ file[w] = Unexpected => guard'[w] = guard[w]
  BY DEF SameFiles
<1> DEFINE G == GuardsAfterReading(S)
<1>1. /\ G \in [WorkIds -> Guards \cup {None}]
      /\ Allowed(G[w], file[w]) \subseteq Allowed(guard[w], file[w])
      /\ w \in S => Allowed(G[w], file[w]) = {file[w]}
      /\ w \notin S => G[w] = guard[w]
  BY Reading DEF IInv
<1>2. guard' = IF t.id \in Guarded THEN [G EXCEPT ![t.id] = Prepared(file[t.id], t.next)] ELSE G
  BY DEF Prepare
<1> HIDE DEF G
<1>3. w \in S => Readable(w) /\ file[w] # Unexpected
  BY DEF Readable
<1>4. guard'[w] = G[w] \/ (w = t.id /\ guard'[w] = Prepared(file[w], t.next))
  BY <1>1, <1>2
<1>5. CASE guard'[w] = G[w]
  BY <1>1, <1>3, <1>5, ReadableIs, ReadableNext DEF IInv
<1>6. CASE w = t.id /\ guard'[w] = Prepared(file[w], t.next)
  <2>1. file[w] \in Allowed(guard'[w], file[w])
    BY <1>6 DEF Prepared, Allowed
  <2> QED
    BY <1>3, <1>6, <2>1, ReadableNext DEF IInv
<1> QED
  BY <1>4, <1>5, <1>6

(* A step that changes no file and ends or starts a command that neither   *)
(* scans nor writes keeps AInv.                                            *)
LEMMA QuietStep ==
    ASSUME AInv, SameFiles, txn' = None \/ ~(txn'.scanning /\ txn'.step # "scan"),
           ~At("seal")', \A w \in WorkIds : ~Activates(txn', w)
    PROVE  AInv'
<1>1. FilesKnown'
  BY DEF FilesKnown, AInv, SameFiles
<1>2. \A w \in WorkIds : Contends(w)' => Contends(w)
  BY DEF Contends, SameFiles
<1>3. OneContends'
  BY <1>2 DEF OneContends, AInv
<1>4. ScanInv'
  BY DEF ScanInv
<1> QED
  BY <1>1, <1>3, <1>4 DEF AInv

(* The end of a command that changed no file keeps AInv.                   *)
LEMMA EndedStep ==
    ASSUME AInv, SameFiles, txn' = None
    PROVE  AInv'
BY QuietStep DEF At, Activates

(* The start of a command that does not write yet keeps AInv.              *)
LEMMA BegunStep ==
    ASSUME AInv, SameFiles, NEW a \in Agents, NEW w \in WorkIds,
           NEW goal \in {"load", "save", "index"}, NEW step \in Steps \ {"write", "seal"},
           NEW next \in Records \cup {Absent}, txn' = Command(a, w, goal, step, next)
    PROVE  AInv'
<1>1. txn'.step = step /\ ~txn'.scanning
  BY CommandType
<1> QED
  BY <1>1, QuietStep DEF At, Activates

(* A command that goes on without writing a file keeps AInv, as long as it *)
(* drops no Work it has still to drain and writes no new status.           *)
LEMMA ScanningStep ==
    ASSUME IInv, AInv, SameFiles, NEW t, txn = t, NEW u, txn' = u, t # None,
           u.scanning => t.scanning, t.step # "scan", u.step # "seal",
           u.step = "write" => u.next.status = file[u.id].status
                                 /\ (u.scanning => u.next.pend = <<>>)
                                 /\ file[u.id] \in Records /\ Readable(u.id) /\ u.id \in WorkIds,
           u.shown = t.shown,
           u.rest \cup (IF u.step = "pick" THEN {} ELSE {u.id}) = t.rest \cup (IF t.step = "pick" THEN {} ELSE {t.id})
    PROVE  AInv'
<1> SUFFICES ASSUME u # None PROVE AInv'
  BY EndedStep
<1>1. FilesKnown'
  BY DEF FilesKnown, AInv, SameFiles, At
<1>2. \A w \in WorkIds : Contends(w)' => Contends(w)
  BY DEF Contends, SameFiles, Activates
<1>3. OneContends'
  BY <1>2 DEF OneContends, AInv
<1>4. ASSUME u.scanning PROVE ScanInv'
  <2>1. t.scanning /\ \A w \in WorkIds : ScanAt(t, w)
    BY <1>4 DEF AInv, ScanInv
  <2>2. \A w \in WorkIds : ScanAt(u, w)
    BY <2>1 DEF ScanAt
  <2>3. \A w \in WorkIds : ScanAt(u, w)'
    BY <2>2 DEF ScanAt, SameFiles
  <2>4. u.step = "write" => u.shown[u.id] = u.next.status
    BY <2>2, StoreAssumption DEF ScanAt, Status
  <2> QED
    BY <1>4, <2>3, <2>4 DEF ScanInv
<1>5. ScanInv'
  BY <1>4 DEF ScanInv
<1> QED
  BY <1>1, <1>3, <1>5 DEF AInv

(* Files and guards that stay keep their verdicts.                         *)
LEMMA UnchangedFiles == ASSUME UNCHANGED <<file, guard>> PROVE SameFiles
BY DEF SameFiles, Readable, Authorised

(* A load, a new Work and a rescan keep AInv.                              *)
LEMMA StartSettles ==
    ASSUME IInv, IInv', AInv, NEW a \in Agents, NEW w \in WorkIds,
           Load(a, w) \/ Begin(a, w) \/ Rescan(a)
    PROVE  AInv'
<1>1. CASE Load(a, w)
  <2>1. Readable(w) /\ guard' = GuardsAfterReading({w}) /\ file' = file /\ txn = None /\ file[w] # Absent
    BY <1>1 DEF Load, Read
  <2>2. file[w] \in Records
    BY <2>1, CurIsRecord DEF IInv
  <2>3. SameFiles
    BY <2>1, SealedFiles
  <2>4. txn' = txn \/ txn' = Command(a, w, "load", "drain", file[w])
    BY <1>1 DEF Load
  <2>5. PICK r \in Records : r = file[w]
    BY <2>2
  <2> QED
    BY <2>1, <2>3, <2>4, <2>5, EndedStep, BegunStep DEF Steps
<1>2. CASE Begin(a, w)
  BY <1>2, SealedFiles, EndedStep DEF Begin, Read
<1>3. CASE Rescan(a)
  <2>1. Min(WorkIds) \in WorkIds
    BY StoreAssumption, MinIsElement
  <2>2. SameFiles /\ txn' = Command(a, Min(WorkIds), "index", "scan", Absent)
    BY <1>3, UnchangedFiles DEF Rescan, disk
  <2> QED
    BY <2>1, <2>2, BegunStep DEF Steps
<1> QED
  BY <1>1, <1>2, <1>3

(* A refused save keeps AInv.                                              *)
LEMMA RefuseSettles ==
    ASSUME IInv, IInv', AInv, NEW a \in Agents, NEW st \in Statuses, Refuse(a, st)
    PROVE  AInv'
<1> DEFINE w == snap[a].id
           current == Readable(w) /\ UpToDate(snap[a].work, w)
           read == (IF Readable(w) THEN {w} ELSE {}) \cup (IF current THEN ReadBeforeFailure ELSE {})
<1>1. guard' = GuardsAfterReading(read) /\ file' = file /\ txn = None /\ txn' = txn
  BY DEF Refuse
<1>2. w \in WorkIds
  BY DEF Refuse, IInv, TypeOK, Snapshots
<1>3. \A v \in WorkIds : v <= v
  BY StoreAssumption
<1>4. read \in SUBSET WorkIds /\ \A v \in read : Readable(v)
  BY <1>2, <1>3 DEF ReadBeforeFailure, Existing
<1> HIDE DEF read
<1> QED
  BY <1>1, <1>4, SealedFiles, EndedStep

(* Putting an authority back keeps AInv: without deletions it counted      *)
(* already, while the file was unreadable.                                 *)
LEMMA RecoverSettles ==
    ASSUME IInv, IInv', AInv, NEW a \in Agents, NEW w \in WorkIds, Recover(a, w)
    PROVE  AInv'
<1>1. /\ txn = None /\ guard[w] # None /\ guard[w].state = "committed" /\ file[w] # guard[w].authority
      /\ file' = [file EXCEPT ![w] = guard[w].authority]
      /\ txn' = Command(a, w, "save", "restored", guard[w].authority) /\ guard' = guard
  BY DEF Recover
<1>2. guard[w].authority \in Records /\ guard[w].authority # Unexpected
  BY <1>1, StoreAssumption DEF IInv, TypeOK, Guards
<1>3. txn'.step = "restored" /\ ~txn'.scanning /\ txn' # None
  BY <1>1, <1>2, CommandType DEF Steps
<1>4. /\ file'[w] = guard[w].authority /\ \A v \in WorkIds : v # w => file'[v] = file[v]
  BY <1>1 DEF IInv, TypeOK
<1>5. file[w] = Unexpected
  BY <1>1, ReadableIs DEF IInv, AInv, FilesKnown, Allowed
<1>6. ASSUME NEW v \in WorkIds PROVE file'[v] = Unexpected \/ Readable(v)'
  <2>1. CASE v = w
    <3>1. guard'[w] = guard[w] /\ Allowed(guard'[w], file'[w]) = {guard[w].authority}
      BY <1>1 DEF Allowed
    <3> QED
      BY <2>1, <3>1, <1>2, <1>4, ReadableNext DEF IInv
  <2>2. CASE v # w
    <3>1. file'[v] = file[v] /\ guard'[v] = guard[v] /\ (file[v] = Unexpected \/ Readable(v))
      BY <2>2, <1>1, <1>4 DEF AInv, FilesKnown
    <3> QED
      BY <3>1, ReadableNext, ReadableIs DEF IInv
  <2> QED
    BY <2>1, <2>2
<1>7. FilesKnown'
  BY <1>3, <1>6 DEF FilesKnown, At
<1>8. \A v \in WorkIds : Contends(v)' => Contends(v)
  BY <1>1, <1>2, <1>3, <1>4, <1>5 DEF Contends, Activates
<1>9. OneContends'
  BY <1>8 DEF OneContends, AInv
<1> QED
  BY <1>3, <1>7, <1>9 DEF AInv, ScanInv

(* A save keeps AInv: MayActivate has read every Work, and found none      *)
(* active.                                                                 *)
LEMMA SaveSettles ==
    ASSUME IInv, IInv', AInv, NEW a \in Agents, NEW st \in Statuses, Save(a, st)
    PROVE  AInv'
<1>1. PICK w \in WorkIds, t \in Transactions :
              /\ Readable(w) /\ MayActivate(w, st)
              /\ ReadForActivation(w, st) \in SUBSET WorkIds /\ w \in ReadForActivation(w, st)
              /\ \A v \in ReadForActivation(w, st) : Readable(v)
              /\ Prepare(GuardsAfterReading(ReadForActivation(w, st)), t)
              /\ t.id = w /\ t.next.status = st /\ ~t.scanning
  BY Saving
<1>2. txn = None /\ file' = file
  BY DEF Save
<1>3. SameFiles
  BY <1>1, <1>2, PreparedFiles
<1>4. txn'.step = "write" /\ txn'.id = w /\ txn'.next.status = st /\ ~txn'.scanning
  BY <1>1 DEF Prepare, Transactions
<1>5. FilesKnown'
  BY <1>3, <1>4 DEF FilesKnown, AInv, SameFiles, At
<1>6. \A v \in WorkIds : Contends(v)' => Contends(v) \/ (v = w /\ st = "active")
  BY <1>3, <1>4 DEF Contends, SameFiles, Activates
<1>7. ASSUME st = "active" PROVE Contends(w) \/ \A v \in WorkIds \ {w} : ~Contends(v)
  <2>1. CASE Status(file[w]) = "active"
    <3>1. file[w] \in Records
      BY <1>1, <2>1, CurIsRecord, StoreAssumption DEF Status, IInv
    <3> QED
      BY <2>1, <3>1, StoreAssumption DEF Contends, Status
  <2>2. CASE Status(file[w]) # "active"
    <3>1. \A v \in Existing \ {w} : Readable(v) /\ file[v].status # "active"
      BY <1>1, <1>7, <2>2 DEF MayActivate
    <3>2. ASSUME NEW v \in WorkIds \ {w} PROVE ~Contends(v)
      <4>1. file[v] = Absent \/ (file[v] # Unexpected /\ file[v].status # "active")
        BY <3>1 DEF Existing, Readable
      <4>2. Absent \notin Records /\ Absent # Unexpected
        BY StoreAssumption
      <4> QED
        BY <4>1, <4>2, <1>2 DEF Contends, Activates
    <3> QED
      BY <3>2
  <2> QED
    BY <2>1, <2>2
<1>8. OneContends'
  BY <1>6, <1>7 DEF OneContends, AInv
<1> QED
  BY <1>4, <1>5, <1>8 DEF AInv, ScanInv

(* What the two persists of a drained and of a recovered Work write: the   *)
(* status stays.                                                           *)
LEMMA Persisting ==
    ASSUME IInv, SaveRestored \/ ClearQueue
    PROVE  \E t \in Transactions, u \in Transactions :
              /\ txn = t /\ t # None /\ t.step \in {"restored", "clear"} /\ t.id \in WorkIds
              /\ Readable(t.id) /\ file[t.id] \in Records /\ file' = file
              /\ u.id = t.id /\ u.scanning = t.scanning /\ u.rest = t.rest /\ u.shown = t.shown
              /\ Prepare(GuardsAfterReading({t.id}), u)
              /\ u.next \in Records /\ u.next.status = file[t.id].status
              /\ t.scanning => u.next.pend = <<>>
              /\ t.step = "restored" => Extends(file[t.id], u.next)
              /\ t.step = "clear" => u.next = [file[t.id] EXCEPT !.pend = <<>>, !.rev = @ + 1]
<1>1. PICK t \in Transactions : txn = t
  BY DEF SaveRestored, ClearQueue, At, IInv, TypeOK
<1>2. /\ t # None /\ t.step \in {"restored", "clear"} /\ t.id \in WorkIds /\ StepInv(t)
      /\ Usable(t.id) /\ Readable(t.id) /\ file' = file
  BY <1>1, StoreAssumption DEF SaveRestored, ClearQueue, At, IInv, TxnInv, Transactions, Usable
<1>3. file[t.id] \in Records
  BY <1>2, CurIsRecord DEF IInv, Usable
<1>4. \E r \in Records : /\ Prepare(GuardsAfterReading({t.id}), [t EXCEPT !.next = r])
                         /\ r.status = file[t.id].status
                         /\ t.scanning => r.pend = <<>>
                         /\ t.step = "restored" => Extends(file[t.id], r)
                         /\ t.step = "clear" => r = [file[t.id] EXCEPT !.pend = <<>>, !.rev = @ + 1]
  <2>1. CASE t.step = "clear"
    <3> DEFINE r == [file[t.id] EXCEPT !.pend = <<>>, !.rev = @ + 1]
    <3>1. r \in Records /\ r.pend = <<>> /\ r.status = file[t.id].status
      BY <1>3, Emptied
    <3>2. Prepare(GuardsAfterReading({t.id}), [t EXCEPT !.next = r])
      BY <1>1, <2>1 DEF SaveRestored, ClearQueue, At
    <3> QED
      BY <2>1, <3>1, <3>2
  <2>2. CASE t.step = "restored"
    <3> DEFINE old == t.next
               event == <<t.id, old.rev + 1>>
               r == [old EXCEPT !.rev = @ + 1, !.gen = @ + 1, !.pend = Append(@, event)]
    <3>1. guard[t.id] # None /\ guard[t.id].state = "committed" /\ guard[t.id].authority = old /\ ~t.scanning
      BY <1>2, <2>2 DEF StepInv
    <3>2. file[t.id] = old /\ old \in Records
      BY <1>2, <1>3, <3>1, ReadableIs DEF Allowed, IInv
    <3>3. event \in Events /\ old.pend \in Seq(Events) /\ old.gen \in Nat
      BY <1>2, <3>2 DEF Events, Records
    <3>4. Prepare(GuardsAfterReading({t.id}), [t EXCEPT !.next = r])
      BY <1>1, <2>2 DEF SaveRestored, ClearQueue, At
    <3> HIDE DEF event, old
    <3>5. /\ r \in Records /\ r.rev = old.rev + 1 /\ r.gen = old.gen + 1
          /\ r.notes = old.notes /\ r.pend = Append(old.pend, event) /\ r.status = old.status
      <4>1. old \in Records /\ event \in Events
        BY <3>2, <3>3
      <4> QED
        BY ONLY <4>1, Restored
    <3> HIDE DEF r
    <3>6. Succ(old, r) /\ Pend(old) = old.pend
      BY <3>2, <3>3, <3>5, StoreAssumption DEF Succ, Rev, Pend
    <3>7. IsStrictPrefix(old.pend, Append(old.pend, event))
      BY <3>3, AppendPrefix
    <3>8. Extends(old, r)
      BY <3>5, <3>6, <3>7 DEF Extends
    <3> QED
      BY <2>2, <3>1, <3>2, <3>4, <3>5, <3>8
  <2> QED
    BY <1>2, <2>1, <2>2
<1>5. PICK r \in Records : /\ Prepare(GuardsAfterReading({t.id}), [t EXCEPT !.next = r])
                           /\ r.status = file[t.id].status
                           /\ t.scanning => r.pend = <<>>
                           /\ t.step = "restored" => Extends(file[t.id], r)
                           /\ t.step = "clear" => r = [file[t.id] EXCEPT !.pend = <<>>, !.rev = @ + 1]
  BY <1>4
<1>6. PICK u \in Transactions :
         /\ u = [t EXCEPT !.next = r] /\ u.id = t.id /\ u.next = r /\ u.scanning = t.scanning
         /\ u.rest = t.rest /\ u.shown = t.shown
  <2>1. [t EXCEPT !.next = r] \in Transactions
    BY DEF Transactions
  <2> QED
    BY <2>1 DEF Transactions
<1>7. Prepare(GuardsAfterReading({t.id}), u)
  BY <1>5, <1>6
<1>8. /\ u.next \in Records /\ u.next.status = file[t.id].status
      /\ t.scanning => u.next.pend = <<>>
      /\ t.step = "restored" => Extends(file[t.id], u.next)
      /\ t.step = "clear" => u.next = [file[t.id] EXCEPT !.pend = <<>>, !.rev = @ + 1]
  BY <1>5, <1>6
<1> QED
  BY <1>1, <1>2, <1>3, <1>6, <1>7, <1>8

(* Clearing a queue and the save that ends lifecycle recover keep the      *)
(* status and with it AInv.                                                *)
LEMMA PersistSettles ==
    ASSUME IInv, IInv', AInv, SaveRestored \/ ClearQueue
    PROVE  AInv'
<1>1. PICK t \in Transactions, u \in Transactions :
              /\ txn = t /\ t # None /\ t.step \in {"restored", "clear"} /\ t.id \in WorkIds
              /\ Readable(t.id) /\ file[t.id] \in Records /\ file' = file
              /\ u.id = t.id /\ u.scanning = t.scanning /\ u.rest = t.rest /\ u.shown = t.shown
              /\ Prepare(GuardsAfterReading({t.id}), u)
              /\ u.next.status = file[t.id].status
              /\ t.scanning => u.next.pend = <<>>
  BY Persisting
<1>2. SameFiles
  BY <1>1, PreparedFiles
<1>3. PICK n : n = txn'
  OBVIOUS
<1>4. n = [u EXCEPT !.step = "write"]
  BY <1>1, <1>3 DEF Prepare
<1>5. /\ n.step = "write" /\ n.id = t.id /\ n.next = u.next /\ n.scanning = t.scanning
      /\ n.rest = t.rest /\ n.shown = t.shown
  BY <1>1, <1>4 DEF Transactions
<1> QED
  BY <1>1, <1>2, <1>3, <1>5, ScanningStep

(* Draining, appending and taking the next Work of a scan keep AInv.       *)
LEMMA ReadingSettles ==
    ASSUME IInv, IInv', AInv, Drain \/ AppendEvent \/ PickWork
    PROVE  AInv'
<1>1. PICK t \in Transactions : txn = t
  BY DEF Drain, AppendEvent, PickWork, At, IInv, TypeOK
<1>2. t # None
  BY StoreAssumption
<1>3. CASE Drain
  <2>1. /\ t.step = "drain" /\ t.id \in WorkIds /\ Readable(t.id)
        /\ guard' = GuardsAfterReading({t.id}) /\ file' = file
        /\ txn' = [t EXCEPT !.step = "append", !.todo = file[t.id].pend]
    BY <1>1, <1>3 DEF Drain, At, Read, Transactions
  <2>2. SameFiles
    BY <2>1, SealedFiles
  <2>3. PICK n : txn' = n
    OBVIOUS
  <2>4. /\ n.step = "append" /\ n.id = t.id /\ n.scanning = t.scanning
        /\ n.rest = t.rest /\ n.shown = t.shown
    BY <2>1, <2>3 DEF Transactions
  <2>5. /\ n.step \notin {"write", "seal"} /\ (n.scanning => t.scanning) /\ t.step # "scan" /\ n.shown = t.shown
        /\ n.rest \cup (IF n.step = "pick" THEN {} ELSE {n.id})
             = t.rest \cup (IF t.step = "pick" THEN {} ELSE {t.id})
    BY <2>1, <2>4
  <2> QED
    BY <1>1, <1>2, <2>1, <2>2, <2>3, <2>5, ScanningStep
<1>4. CASE AppendEvent
  <2>1. /\ t.step = "append" /\ UNCHANGED <<file, guard>>
        /\ txn' = [t EXCEPT !.todo = Tail(@), !.step = IF Len(t.todo) = 1 THEN "clear" ELSE "append"]
    BY <1>1, <1>4 DEF AppendEvent, At
  <2>2. SameFiles
    BY <2>1, UnchangedFiles
  <2>3. PICK n : txn' = n
    OBVIOUS
  <2>4. /\ n.step \in {"clear", "append"} /\ n.id = t.id /\ n.scanning = t.scanning
        /\ n.rest = t.rest /\ n.shown = t.shown
    <3>1. PICK s \in {"clear", "append"} : n = [t EXCEPT !.todo = Tail(t.todo), !.step = s]
      BY <2>1, <2>3
    <3> QED
      BY <3>1 DEF Transactions
  <2>5. /\ n.step \notin {"write", "seal"} /\ (n.scanning => t.scanning) /\ t.step # "scan" /\ n.shown = t.shown
        /\ n.rest \cup (IF n.step = "pick" THEN {} ELSE {n.id})
             = t.rest \cup (IF t.step = "pick" THEN {} ELSE {t.id})
    BY <2>1, <2>4
  <2> QED
    BY <1>1, <1>2, <2>1, <2>2, <2>3, <2>5, ScanningStep
<1>5. CASE PickWork
  <2>1. PICK w \in t.rest : w = Min(t.rest)
    BY <1>1, <1>5, StoreAssumption, MinIsElement DEF PickWork, Transactions
  <2>2. /\ t.step = "pick" /\ UNCHANGED <<file, guard>>
        /\ txn' = [t EXCEPT !.step = "drain", !.id = w, !.rest = @ \ {w}]
    BY <1>1, <1>5, <2>1 DEF PickWork, At, disk
  <2>3. SameFiles
    BY <2>2, UnchangedFiles
  <2>4. PICK n : txn' = n
    OBVIOUS
  <2>5. /\ n.step = "drain" /\ n.id = w /\ n.scanning = t.scanning
        /\ n.rest = t.rest \ {w} /\ n.shown = t.shown
    BY <2>2, <2>4 DEF Transactions
  <2>6. /\ n.step \notin {"write", "seal"} /\ (n.scanning => t.scanning) /\ t.step # "scan" /\ n.shown = t.shown
        /\ n.rest \cup (IF n.step = "pick" THEN {} ELSE {n.id})
             = t.rest \cup (IF t.step = "pick" THEN {} ELSE {t.id})
    BY <2>1, <2>2, <2>5
  <2> QED
    BY <1>1, <1>2, <2>2, <2>3, <2>4, <2>6, ScanningStep
<1> QED
  BY <1>3, <1>4, <1>5

(* The scan of all Works starts from what the files say.                   *)
LEMMA ScanSettles == ASSUME IInv, IInv', AInv, Scan PROVE AInv'
<1>1. PICK t \in Transactions : txn = t
  BY DEF Scan, At, IInv, TypeOK
<1>2. /\ AllReadable /\ guard' = GuardsAfterReading(Existing) /\ file' = file
      /\ txn' = [t EXCEPT !.step = "pick", !.scanning = TRUE,
                          !.rest = {w \in Existing : file[w].pend # <<>>},
                          !.shown = [w \in WorkIds |-> Status(file[w])]]
  BY <1>1 DEF Scan
<1>3. SameFiles
  BY <1>2, SealedFiles DEF AllReadable, Existing
<1>4. PICK n : txn' = n
  OBVIOUS
<1>5. /\ n.step = "pick" /\ n.shown = [w \in WorkIds |-> Status(file[w])]
      /\ n.rest = {w \in Existing : file[w].pend # <<>>}
  BY <1>2, <1>4 DEF Transactions
<1>6. \A w \in WorkIds : ScanAt(n, w)
  BY <1>5 DEF ScanAt, Existing, Pend
<1>7. ScanInv'
  BY <1>3, <1>4, <1>5, <1>6 DEF ScanInv, ScanAt, SameFiles
<1>8. FilesKnown'
  BY <1>3, <1>4, <1>5 DEF FilesKnown, AInv, SameFiles, At
<1>9. \A w \in WorkIds : Contends(w)' => Contends(w)
  BY <1>3, <1>4, <1>5 DEF Contends, SameFiles, Activates
<1>10. OneContends'
  BY <1>9 DEF OneContends, AInv
<1> QED
  BY <1>7, <1>8, <1>10 DEF AInv

(* Writing a file and committing its guard keep AInv: the status was       *)
(* counted before.                                                         *)
LEMMA WritingSettles == ASSUME IInv, IInv', AInv, WriteWork \/ SealGuard PROVE AInv'
<1>1. PICK t \in Transactions : txn = t
  BY DEF WriteWork, SealGuard, At, IInv, TypeOK
<1>2. /\ t # None /\ t.step \in {"write", "seal"} /\ t.id \in WorkIds /\ t.next \in Records
      /\ Writing(t.id, t.next) /\ (t.step = "seal" => t.id \in Guarded)
  BY <1>1, StoreAssumption DEF WriteWork, SealGuard, At, IInv, TxnInv, StepInv, Transactions, Writing
<1>3. t.next # Unexpected /\ t.next # Absent
  BY <1>2, StoreAssumption
<1>4. t.scanning => /\ t.next.pend = <<>> /\ t.shown[t.id] = t.next.status
                    /\ \A w \in WorkIds : ScanAt(t, w)
  BY <1>1, <1>2 DEF AInv, ScanInv
<1>5. GuardOk(t.id, guard[t.id], file[t.id])
  BY <1>2 DEF IInv, GuardInv
<1>6. PICK n : n = txn'
  OBVIOUS
<1>7. \/ /\ t.step = "write" /\ t.id \in Guarded
         /\ n.step = "seal" /\ n.id = t.id /\ n.next = t.next /\ n.rest = t.rest /\ n.shown = t.shown
         /\ n.scanning = t.scanning
      \/ n = None \/ /\ n.step \in {"drain", "pick", "scan"} /\ n.id = t.id /\ n.rest = t.rest
                     /\ n.shown = t.shown /\ n.scanning = t.scanning
                     /\ t.scanning => n.step # "scan"
  <2>1. CASE WriteWork /\ t.id \in Guarded
    <3>1. n = [t EXCEPT !.step = "seal"] /\ t.step = "write"
      BY <1>1, <1>6, <2>1 DEF WriteWork, At
    <3> QED
      BY <2>1, <3>1 DEF Transactions
  <2>2. CASE (WriteWork /\ t.id \notin Guarded) \/ SealGuard
    <3>1. Proceed
      BY <1>1, <2>2 DEF WriteWork, SealGuard
    <3> QED
      BY <1>1, <1>2, <1>6, <2>2, <3>1, Proceeding DEF IInv
  <2> QED
    BY <2>1, <2>2
<1>8. /\ \A v \in WorkIds : v # t.id => file'[v] = file[v] /\ guard'[v] = guard[v]
      /\ \/ t.step = "write" /\ file'[t.id] = t.next /\ guard'[t.id] = guard[t.id]
         \/ t.step = "seal" /\ file'[t.id] = file[t.id] /\ guard'[t.id] = Committed(t.next)
  BY <1>1, <1>2 DEF WriteWork, SealGuard, At, IInv, TypeOK
<1>9. t.step = "seal" => file[t.id] \in {t.next, Unexpected}
  BY <1>1, <1>2 DEF At, AInv, FilesKnown
<1>10. file'[t.id] \in {t.next, Unexpected} /\ (t.step = "write" => file'[t.id] = t.next)
  BY <1>8, <1>9
<1>11. \A v \in WorkIds : v # t.id => (Readable(v)' <=> Readable(v))
  BY <1>8, ReadableIs, ReadableNext DEF IInv
<1>12. file'[t.id] # Unexpected => Readable(t.id)'
  <2>1. Committed(t.next) # None /\ Allowed(Committed(t.next), file'[t.id]) = {t.next}
    <3>1. Committed(t.next) \in Guards
      BY <1>2 DEF Committed, Guards
    <3> QED
      BY <3>1, StoreAssumption DEF Allowed, Committed
  <2>2. t.id \in Guarded => t.next \in Allowed(guard[t.id], file'[t.id])
    BY <1>2 DEF Writing, Allowed
  <2>3. t.id \notin Guarded => Allowed(guard[t.id], file'[t.id]) = {file'[t.id]}
    BY <1>5 DEF GuardOk, Allowed
  <2> QED
    BY <1>2, <1>8, <1>10, <2>1, <2>2, <2>3, ReadableNext DEF IInv
<1>13. FilesKnown'
  <2>1. \A v \in WorkIds : file'[v] = Unexpected \/ Readable(v)'
    BY <1>8, <1>11, <1>12 DEF AInv, FilesKnown
  <2>2. ASSUME At("seal")' PROVE file'[n.id] \in {n.next, Unexpected}
    BY <1>6, <1>7, <1>10, <2>2 DEF At
  <2> QED
    BY <1>6, <2>1, <2>2 DEF FilesKnown
<1>14. \A v \in WorkIds : Contends(v)' => Contends(v)
  <2>1. ASSUME NEW v \in WorkIds, v # t.id, Contends(v)' PROVE Contends(v)
    BY <1>6, <1>7, <1>8, <2>1 DEF Contends, Activates
  <2>2. ASSUME Contends(t.id)' PROVE t.next.status = "active"
    <3>1. t.step = "write" => file'[t.id] = t.next /\ (Activates(n, t.id) => t.next.status = "active")
      BY <1>7, <1>10 DEF Activates
    <3>2. t.step = "seal" => ~Activates(n, t.id) /\ guard'[t.id].authority = t.next
      BY <1>7, <1>8 DEF Activates, Committed
    <3> QED
      BY <1>2, <1>3, <1>6, <1>10, <2>2, <3>1, <3>2, StoreAssumption DEF Contends
  <2>3. t.next.status = "active" => Contends(t.id)
    BY <1>1, <1>2 DEF Contends, Activates
  <2> QED
    BY <2>1, <2>2, <2>3
<1>15. OneContends'
  BY <1>14 DEF OneContends, AInv
<1>16. ASSUME n # None, n.scanning, n.step # "scan" PROVE ScanInv'
  <2>1. t.scanning /\ n.id = t.id /\ n.shown = t.shown /\ n.rest = t.rest
    BY <1>7, <1>16
  <2>2. ASSUME NEW v \in WorkIds, v # t.id PROVE ScanAt(n, v)'
    BY <1>4, <1>8, <1>11, <2>1, <2>2 DEF ScanAt
  <2>3. ScanAt(n, t.id)'
    <3>1. Readable(t.id)' => file'[t.id] = t.next
      BY <1>10 DEF Readable
    <3> QED
      BY <1>3, <1>4, <2>1, <3>1 DEF ScanAt, Status, Pend
  <2>4. n.step \in {"write", "seal"} => n.next = t.next
    BY <1>7, <1>16
  <2> QED
    BY <1>4, <1>6, <2>1, <2>2, <2>3, <2>4 DEF ScanInv
<1>17. ScanInv'
  BY <1>6, <1>16 DEF ScanInv
<1> QED
  BY <1>13, <1>15, <1>17 DEF AInv

(* A command that ends keeps AInv.                                         *)
LEMMA EndSettles ==
    ASSUME IInv, IInv', AInv, WriteIndex \/ GiveUp \/ FsyncFails \/ PowerLoss
    PROVE  AInv'
<1>1. CASE GiveUp
  <2>1. txn' = None /\ file' = file
    BY <1>1 DEF GiveUp
  <2>2. \A v \in WorkIds : v <= v
    BY StoreAssumption
  <2>3. ReadBeforeFailure \in SUBSET WorkIds /\ \A v \in ReadBeforeFailure : Readable(v)
    BY <2>2 DEF ReadBeforeFailure, Existing
  <2>4. SameFiles
    BY <1>1, <2>1, <2>3, SealedFiles, UnchangedFiles DEF GiveUp
  <2> QED
    BY <2>1, <2>4, EndedStep
<1>2. CASE WriteIndex \/ FsyncFails \/ PowerLoss
  BY <1>2, UnchangedFiles, EndedStep DEF WriteIndex, FsyncFails, PowerLoss
<1> QED
  BY <1>1, <1>2

(* AInv reads only the files, the guards and the command.                  *)
LEMMA SameSettles == ASSUME AInv, UNCHANGED <<file, guard, txn>> PROVE AInv'
<1>1. SameFiles
  BY UnchangedFiles
<1>2. PICK t : t = txn
  OBVIOUS
<1>3. FilesKnown'
  BY DEF AInv, FilesKnown, Readable, Authorised, At
<1>4. OneContends'
  BY <1>1 DEF AInv, OneContends, Contends, SameFiles, Activates
<1>5. ScanInv'
  <2>1. \A w \in WorkIds : ScanAt(t, w)' <=> ScanAt(t, w)
    BY <1>1 DEF ScanAt, SameFiles
  <2> QED
    BY <1>2, <2>1 DEF AInv, ScanInv
<1> QED
  BY <1>3, <1>4, <1>5 DEF AInv

(* The death of an agent keeps AInv: it ends a command, if any.            *)
LEMMA CrashSettles == ASSUME AInv, NEW a \in Agents, Crash(a) PROVE AInv'
<1>1. CASE txn' = txn
  BY <1>1, SameSettles DEF Crash
<1>2. CASE txn' = None
  BY <1>2, UnchangedFiles, EndedStep DEF Crash
<1> QED
  BY <1>1, <1>2 DEF Crash

(* A foreign overwrite keeps AInv: the file becomes unreadable and its     *)
(* guard still counts.                                                     *)
LEMMA ForeignSettles ==
    ASSUME IInv, IInv', AInv, OverwriteOnly, NEW w \in Guarded, ForeignWrite(w)
    PROVE  AInv'
<1>1. /\ w \in WorkIds /\ guard[w] # None /\ file[w] # Unexpected
      /\ file' = [file EXCEPT ![w] = Unexpected] /\ UNCHANGED <<guard, txn>>
  BY StoreAssumption DEF ForeignWrite, OverwriteOnly
<1>2. file'[w] = Unexpected /\ \A v \in WorkIds : v # w => file'[v] = file[v]
  BY <1>1 DEF IInv, TypeOK
<1>3. \A v \in WorkIds : v # w => (Readable(v)' <=> Readable(v))
  BY <1>1, <1>2, ReadableIs, ReadableNext DEF IInv
<1>4. ~Readable(w)'
  BY <1>2 DEF Readable
<1>5. PICK t : t = txn
  OBVIOUS
<1>6. t # None => t.id \in WorkIds
  BY <1>5 DEF IInv, TypeOK, Transactions
<1>7. FilesKnown'
  <2>1. \A v \in WorkIds : file'[v] = Unexpected \/ Readable(v)'
    BY <1>2, <1>3 DEF AInv, FilesKnown
  <2>2. At("seal")' => file'[t.id] \in {t.next, Unexpected}
    BY <1>1, <1>2, <1>5, <1>6 DEF AInv, FilesKnown, At
  <2> QED
    BY <1>1, <1>5, <2>1, <2>2 DEF FilesKnown
<1>8. ASSUME NEW v \in WorkIds, Contends(v)' PROVE Contends(v)
  <2>1. CASE v # w
    BY <1>1, <1>2, <1>8, <2>1 DEF Contends, Activates
  <2>2. CASE v = w
    <3>1. CASE guard[w].state = "committed" /\ guard[w].authority.status = "active"
      <4>1. file[w] = guard[w].authority
        BY <1>1, <3>1, ReadableIs DEF IInv, AInv, FilesKnown, Allowed
      <4>2. guard[w].authority \in Records
        BY <1>1 DEF IInv, TypeOK, Guards
      <4> QED
        BY <2>2, <3>1, <4>1, <4>2 DEF Contends
    <3>2. CASE ~(guard[w].state = "committed" /\ guard[w].authority.status = "active")
      <4>1. Unexpected \notin Records
        BY StoreAssumption
      <4>2. Activates(txn, w)
        BY <1>1, <1>2, <1>8, <2>2, <3>2, <4>1 DEF Contends, Activates
      <4> QED
        BY <2>2, <4>2 DEF Contends
    <3> QED
      BY <3>1, <3>2
  <2> QED
    BY <2>1, <2>2
<1>9. OneContends'
  BY <1>8 DEF OneContends, AInv
<1>10. ScanInv'
  <2>1. ASSUME NEW v \in WorkIds, ScanAt(t, v) PROVE ScanAt(t, v)'
    BY <1>2, <1>3, <1>4, <2>1 DEF ScanAt
  <2> QED
    BY <1>1, <1>5, <2>1 DEF AInv, ScanInv
<1> QED
  BY <1>7, <1>9, <1>10 DEF AInv

(* Every step keeps AInv.                                                  *)
LEMMA ActiveStep == ASSUME OverwriteOnly, IInv, IInv', AInv, [Next]_vars PROVE AInv'
<1>1. ASSUME NEW a \in Agents, Rescan(a) PROVE AInv'
  <2>1. PICK w : w \in WorkIds
    BY StoreAssumption
  <2> QED
    BY <1>1, <2>1, StartSettles
<1>2. ASSUME NEW a \in Agents, NEW w \in WorkIds, Load(a, w) \/ Begin(a, w) \/ Recover(a, w) PROVE AInv'
  BY <1>2, StartSettles, RecoverSettles
<1>3. ASSUME NEW a \in Agents, NEW st \in Statuses, Save(a, st) \/ Refuse(a, st) PROVE AInv'
  BY <1>3, SaveSettles, RefuseSettles
<1>4. CASE Advance
  BY <1>4, PersistSettles, WritingSettles, ReadingSettles, ScanSettles, EndSettles DEF Advance
<1>5. CASE Environment
  BY <1>5, EndSettles, CrashSettles, ForeignSettles DEF Environment
<1>6. CASE UNCHANGED vars
  BY <1>6, SameSettles DEF vars, disk
<1> QED
  BY <1>1, <1>2, <1>3, <1>4, <1>5, <1>6 DEF Next, Start

(* AInv holds of an empty workspace.                                       *)
LEMMA ActiveInit == ASSUME Init PROVE AInv
<1>1. \A w \in WorkIds : file[w] = Absent /\ guard[w] = None /\ txn = None
  BY DEF Init
<1>2. FilesKnown /\ ScanInv
  BY <1>1, StoreAssumption DEF FilesKnown, ScanInv, Readable, Authorised, At, Init
<1>3. \A w \in WorkIds : ~Contends(w)
  BY <1>1, StoreAssumption DEF Contends, Activates
<1> QED
  BY <1>2, <1>3 DEF AInv, OneContends

(* For any number of Works and agents, whatever commands die and whatever  *)
(* files are overwritten, at most one Work is active: the check of         *)
(* save_work reads all the Works themselves and never the index            *)
(* (MayActivate).                                                          *)
THEOREM OneActiveWork == ASSUME OverwriteOnly PROVE Spec => []SingleActive
<1>1. Init => IInv /\ AInv
  BY InitHolds, ActiveInit
<1>2. (IInv /\ AInv) /\ [Next]_vars => (IInv /\ AInv)'
  BY NextKeeps, StutterKeeps, ActiveStep
<1>3. IInv /\ AInv => SingleActive
  BY DEF AInv, OneContends, Contends, SingleActive
<1> QED
  BY <1>1, <1>2, <1>3, PTL DEF Spec

(* A command that ends by writing the index leaves no readable Work with a *)
(* queued event and shows each as its file says (rebuild_index).           *)
THEOREM IndexIsSettled == ASSUME OverwriteOnly PROVE Spec => AcknowledgedMeansSettled
<1>1. Init => IInv /\ AInv
  BY InitHolds, ActiveInit
<1>2. (IInv /\ AInv) /\ [Next]_vars => (IInv /\ AInv)'
  BY NextKeeps, StutterKeeps, ActiveStep
<1>3. ASSUME [Next]_vars, index' # index PROVE WriteIndex
  BY <1>3 DEF Next, Start, Advance, Environment, vars, disk, Rescan, Load, Begin, Recover, Save, Refuse,
     SaveRestored, WriteWork, SealGuard, Drain, AppendEvent, ClearQueue, Scan, PickWork, GiveUp,
     FsyncFails, PowerLoss, Crash, ForeignWrite
<1>4. ASSUME IInv, AInv, WriteIndex, NEW w \in WorkIds, Readable(w)
      PROVE  index'[w] = Status(file[w]) /\ Pend(file[w]) = <<>>
  <2>1. txn # None /\ txn.step = "pick" /\ txn.rest = {} /\ index' = txn.shown
    BY <1>4 DEF WriteIndex, At
  <2>2. txn.scanning
    BY <1>4, <2>1 DEF IInv, TxnInv, StepInv
  <2> QED
    BY <1>4, <2>1, <2>2 DEF AInv, ScanInv, ScanAt
<1>5. (IInv /\ AInv) /\ [Next]_vars =>
        (index' # index \/ WriteIndex =>
           \A w \in WorkIds : Readable(w) => index'[w] = Status(file[w]) /\ Pend(file[w]) = <<>>)
  BY <1>3, <1>4
<1> QED
  BY <1>1, <1>2, <1>5, PTL DEF Spec, AcknowledgedMeansSettled

-----------------------------------------------------------------------------
(* The store implements the ledger.                                        *)

(* Induction over the naturals, stated of a set: of a set that holds 0 and *)
(* the successor of each member, every natural is a member.                *)
LEMMA SetInduction == ASSUME NEW S \in SUBSET Nat, 0 \in S, \A n \in S : n + 1 \in S PROVE \A n \in Nat : n \in S
<1>1. SUFFICES ASSUME Nat \ S # {} PROVE FALSE
  OBVIOUS
<1>2. PICK m \in Nat \ S : \A n \in Nat \ S : m <= n
  BY <1>1, Least
<1>3. m # 0 /\ m - 1 \in Nat
  BY <1>2
<1>4. m - 1 \in S
  BY <1>2, <1>3
<1> QED
  BY <1>2, <1>4

(* One more line for the complete ones collected so far.                   *)
With(x, line) == IF line = Torn THEN x ELSE Append(x, line)

(* f[n] holds the complete lines among the first n lines of s.             *)
Collects(f, s, k) == f[0] = <<>> /\ \A n \in 1 .. k : f[n] = With(f[n - 1], s[n])

(* The complete lines of any prefix can be collected.                      *)
LEMMA CollectionExists ==
    ASSUME NEW s
    PROVE  \A k \in Nat : \E f : f = [n \in 0 .. k |-> f[n]] /\ Collects(f, s, k)
<1> DEFINE Has(k) == \E f : f = [n \in 0 .. k |-> f[n]] /\ Collects(f, s, k)
           S == {k \in Nat : Has(k)}
<1>1. 0 \in S
  <2> DEFINE f == [n \in 0 .. 0 |-> <<>>]
  <2>1. f = [n \in 0 .. 0 |-> f[n]] /\ f[0] = <<>> /\ 1 .. 0 = {}
    OBVIOUS
  <2> QED
    BY <2>1 DEF Collects
<1>2. ASSUME NEW k \in S PROVE k + 1 \in S
  <2>1. PICK f : f = [n \in 0 .. k |-> f[n]] /\ Collects(f, s, k)
    BY <1>2
  <2> DEFINE g == [n \in 0 .. k + 1 |-> IF n <= k THEN f[n] ELSE With(f[k], s[k + 1])]
  <2>2. k \in Nat /\ 0 .. k + 1 = 0 .. k \cup {k + 1}
    OBVIOUS
  <2>3. \A n \in 0 .. k : g[n] = f[n]
    OBVIOUS
  <2>4. g[k + 1] = With(f[k], s[k + 1])
    OBVIOUS
  <2>5. g = [n \in 0 .. k + 1 |-> g[n]]
    OBVIOUS
  <2> HIDE DEF g
  <2>6. ASSUME NEW n \in 1 .. k + 1 PROVE g[n] = With(g[n - 1], s[n])
    <3>1. CASE n = k + 1
      <4>1. n - 1 = k /\ k \in 0 .. k
        BY <3>1
      <4> QED
        BY <2>3, <2>4, <3>1, <4>1
    <3>2. CASE n \in 1 .. k
      <4>1. n \in 0 .. k /\ n - 1 \in 0 .. k
        BY <3>2
      <4> QED
        BY <2>1, <2>3, <3>2, <4>1 DEF Collects
    <3> QED
      BY <3>1, <3>2
  <2>7. g[0] = <<>>
    BY <2>1, <2>2, <2>3 DEF Collects
  <2>8. Collects(g, s, k + 1)
    BY <2>6, <2>7 DEF Collects
  <2>9. Has(k + 1)
    BY <2>5, <2>8
  <2> QED
    BY <2>2, <2>9
<1> HIDE DEF Has
<1>3. \A k \in Nat : k \in S
  BY <1>1, <1>2, SetInduction
<1> QED
  BY <1>3 DEF Has

(* Complete is the last of these collections.                              *)
LEMMA CompleteIs ==
    ASSUME NEW s, Len(s) \in Nat
    PROVE  \E f : Collects(f, s, Len(s)) /\ Complete(s) = f[Len(s)]
<1> DEFINE Body(f) == [n \in 0 .. Len(s) |->
                         IF n = 0 THEN <<>>
                         ELSE IF s[n] = Torn THEN f[n - 1] ELSE Append(f[n - 1], s[n])]
           upto == CHOOSE f : f = Body(f)
<1>1. PICK f : f = [n \in 0 .. Len(s) |-> f[n]] /\ Collects(f, s, Len(s))
  BY CollectionExists
<1>2. ASSUME NEW h PROVE /\ Body(h) = [n \in 0 .. Len(s) |-> Body(h)[n]]
                         /\ Body(h)[0] = <<>>
                         /\ \A n \in 1 .. Len(s) : Body(h)[n] = With(h[n - 1], s[n])
  <2>1. 0 \in 0 .. Len(s) /\ \A n \in 1 .. Len(s) : n \in 0 .. Len(s) /\ n # 0
    OBVIOUS
  <2> QED
    BY <2>1, Zenon DEF With
<1>3. Complete(s) = upto[Len(s)]
  BY DEF Complete
<1> HIDE DEF Body
<1>4. f = Body(f)
  <2>1. \A n \in 0 .. Len(s) : f[n] = Body(f)[n]
    <3>1. \A n \in 0 .. Len(s) : n = 0 \/ n \in 1 .. Len(s)
      OBVIOUS
    <3> QED
      BY <1>1, <1>2, <3>1 DEF Collects
  <2>2. [n \in 0 .. Len(s) |-> f[n]] = [n \in 0 .. Len(s) |-> Body(f)[n]]
    BY <2>1, Zenon
  <2> QED
    BY <1>1, <1>2, <2>2, Zenon
<1>5. upto = Body(upto)
  BY <1>4, Zenon
<1> HIDE DEF upto
<1>6. Collects(upto, s, Len(s))
  BY <1>2, <1>5, Zenon DEF Collects
<1> QED
  BY <1>3, <1>6

(* Two logs that agree on their first k lines collect the same.            *)
LEMMA CollectionsAgree ==
    ASSUME NEW s, NEW t, NEW k \in Nat, \A i \in 1 .. k : s[i] = t[i],
           NEW f, Collects(f, s, k), NEW g, Collects(g, t, k)
    PROVE  f[k] = g[k]
<1> DEFINE S == {n \in Nat : n <= k => f[n] = g[n]}
<1>1. 0 \in S
  BY DEF Collects
<1>2. ASSUME NEW n \in S PROVE n + 1 \in S
  <2>1. ASSUME n + 1 <= k PROVE f[n + 1] = g[n + 1]
    <3>1. n + 1 \in 1 .. k /\ (n + 1) - 1 = n /\ n <= k
      BY <2>1
    <3> QED
      BY <1>2, <3>1 DEF Collects
  <2> QED
    BY <1>2, <2>1
<1>3. k \in S
  BY <1>1, <1>2, SetInduction
<1> QED
  BY <1>3

(* What is collected: the events of the lines seen so far, each once.      *)
LEMMA Collection ==
    ASSUME NEW s \in Seq(Events \cup {Torn}), Once(s), NEW f, Collects(f, s, Len(s)),
           NEW k \in 0 .. Len(s)
    PROVE  /\ f[k] \in Seq(Events)
           /\ IsInjective(f[k])
           /\ Range(f[k]) = {s[i] : i \in 1 .. k} \ {Torn}
<1> DEFINE Good(n) == /\ f[n] \in Seq(Events) /\ IsInjective(f[n])
                      /\ Range(f[n]) = {s[i] : i \in 1 .. n} \ {Torn}
           S == {n \in Nat : n <= Len(s) => Good(n)}
<1>1. 0 \in S
  <2>1. f[0] = <<>> /\ 1 .. 0 = {}
    BY DEF Collects
  <2>2. <<>> \in Seq(Events) /\ DOMAIN <<>> = {}
    OBVIOUS
  <2> QED
    BY <2>1, <2>2 DEF IsInjective, Range
<1>2. ASSUME NEW n \in S PROVE n + 1 \in S
  <2>1. ASSUME n + 1 <= Len(s) PROVE Good(n + 1)
    <3>1. n + 1 \in 1 .. Len(s) /\ (n + 1) - 1 = n /\ n <= Len(s)
      BY <2>1
    <3>2. Good(n) /\ f[n + 1] = With(f[n], s[n + 1])
      BY <1>2, <3>1 DEF Collects
    <3>3. 1 .. n + 1 = 1 .. n \cup {n + 1}
      OBVIOUS
    <3>4. {s[i] : i \in 1 .. n + 1} = {s[i] : i \in 1 .. n} \cup {s[n + 1]}
      BY <3>3
    <3>5. CASE s[n + 1] = Torn
      <4>1. f[n + 1] = f[n]
        BY <3>2, <3>5 DEF With
      <4> QED
        BY <3>2, <3>4, <3>5, <4>1
    <3>6. CASE s[n + 1] # Torn
      <4>1. f[n + 1] = Append(f[n], s[n + 1]) /\ s[n + 1] \in Events
        BY <3>1, <3>2, <3>6 DEF With
      <4>2. s[n + 1] \notin Range(f[n])
        BY <3>1, <3>2, <3>6 DEF Once
      <4>3. Range(f[n + 1]) = Range(f[n]) \cup {s[n + 1]} /\ f[n + 1] \in Seq(Events)
        BY <3>2, <4>1, AppendRange
      <4>4. IsInjective(f[n + 1])
        BY <3>2, <4>1, <4>2 DEF IsInjective, Range
      <4> QED
        BY <3>2, <3>4, <3>6, <4>3, <4>4
    <3> QED
      BY <3>5, <3>6
  <2> QED
    BY <1>2, <2>1
<1> HIDE DEF Good
<1>3. S \in SUBSET Nat
  OBVIOUS
<1> HIDE DEF S
<1>4. k \in S
  BY <1>1, <1>2, <1>3, SetInduction
<1> USE DEF S, Good
<1> QED
  BY <1>4

(* A longer prefix only adds at the end.                                   *)
LEMMA CollectionGrows ==
    ASSUME NEW s \in Seq(Events \cup {Torn}), Once(s), NEW f, Collects(f, s, Len(s)),
           NEW j \in 0 .. Len(s), NEW k \in j .. Len(s)
    PROVE  Len(f[j]) <= Len(f[k]) /\ \A i \in 1 .. Len(f[j]) : f[j][i] = f[k][i]
<1> DEFINE Good(n) == Len(f[j]) <= Len(f[n]) /\ \A i \in 1 .. Len(f[j]) : f[j][i] = f[n][i]
           S == {n \in Nat : j <= n /\ n <= Len(s) => Good(n)}
<1>1. \A n \in 0 .. Len(s) : f[n] \in Seq(Events)
  BY Collection
<1>2. Good(j)
  BY <1>1
<1>3. 0 \in S
  <2>1. j <= 0 => j = 0
    OBVIOUS
  <2> QED
    BY <1>2, <2>1
<1>4. ASSUME NEW n \in S PROVE n + 1 \in S
  <2>1. ASSUME j <= n + 1, n + 1 <= Len(s), j # n + 1 PROVE Good(n + 1)
    <3>1. n + 1 \in 1 .. Len(s) /\ (n + 1) - 1 = n /\ n <= Len(s) /\ j <= n /\ n \in 0 .. Len(s)
      BY <2>1
    <3>2. Good(n) /\ f[n + 1] = With(f[n], s[n + 1]) /\ f[n] \in Seq(Events) /\ f[j] \in Seq(Events)
      BY <1>1, <1>4, <3>1 DEF Collects
    <3>3. s[n + 1] = Torn \/ s[n + 1] \in Events
      BY <3>1
    <3>4. PICK x, y : x = f[n] /\ y = f[j]
      OBVIOUS
    <3>5. Len(x) <= Len(With(x, s[n + 1])) /\ \A i \in 1 .. Len(x) : x[i] = With(x, s[n + 1])[i]
      BY <3>2, <3>3, <3>4 DEF With
    <3>6. Len(With(x, s[n + 1])) \in Nat
      BY <3>2, <3>3, <3>4 DEF With
    <3> QED
      BY <3>2, <3>4, <3>5, <3>6
  <2> QED
    BY <1>2, <1>4, <2>1
<1> HIDE DEF Good
<1>5. S \in SUBSET Nat
  OBVIOUS
<1> HIDE DEF S
<1>6. k \in S
  BY <1>3, <1>4, <1>5, SetInduction
<1> USE DEF S, Good
<1> QED
  BY <1>6

(* What the complete lines of a log are, and of the log before it grew.    *)
LEMMA CompletePrefix ==
    ASSUME NEW t \in Seq(Events \cup {Torn}), Once(t), NEW n \in 0 .. Len(t),
           NEW s \in Seq(Events \cup {Torn}), Len(s) = n, \A i \in 1 .. n : s[i] = t[i]
    PROVE  /\ IsPrefix(Complete(s), Complete(t))
           /\ IsInjective(Complete(t))
           /\ Range(Complete(s)) = {t[i] : i \in 1 .. n} \ {Torn}
           /\ Range(Complete(t)) = {t[i] : i \in 1 .. Len(t)} \ {Torn}
<1>1. PICK f : Collects(f, t, Len(t)) /\ Complete(t) = f[Len(t)]
  BY CompleteIs
<1>2. PICK g : Collects(g, s, n) /\ Complete(s) = g[n]
  BY CompleteIs
<1>3. Collects(f, t, n) /\ n \in Nat /\ n \in 0 .. Len(t) /\ Len(t) \in n .. Len(t) /\ Len(t) \in 0 .. Len(t)
  BY <1>1 DEF Collects
<1>4. g[n] = f[n]
  BY <1>2, <1>3, CollectionsAgree
<1>5. /\ f[n] \in Seq(Events) /\ Range(f[n]) = {t[i] : i \in 1 .. n} \ {Torn}
      /\ f[Len(t)] \in Seq(Events) /\ IsInjective(f[Len(t)])
      /\ Range(f[Len(t)]) = {t[i] : i \in 1 .. Len(t)} \ {Torn}
  BY <1>1, <1>3, Collection
<1>6. Len(f[n]) <= Len(f[Len(t)]) /\ \A i \in 1 .. Len(f[n]) : f[n][i] = f[Len(t)][i]
  BY <1>1, <1>3, CollectionGrows
<1>7. ASSUME NEW x \in Seq(Events), NEW y \in Seq(Events), Len(x) <= Len(y), \A i \in 1 .. Len(x) : x[i] = y[i]
      PROVE  IsPrefix(x, y)
  BY <1>7 DEF IsPrefix
<1> QED
  BY <1>1, <1>2, <1>4, <1>5, <1>6, <1>7

(* The record a Work holds in the eyes of the ledger: its file, or what its *)
(* guard remembers where a foreign writer has damaged the file.            *)
Holds(w) == IF file[w] = Unexpected THEN guard[w].authority ELSE file[w]

(* The queue of some Work holds the event.                                 *)
Waiting(e) == \E w \in WorkIds : e \in Range(Pend(Holds(w)))

(* Foreign writers keep out of the moment between the two guard writes.    *)
OutsideWindow == ForeignInWindow = FALSE

(* Only the file of a sealed Work is damaged.                              *)
DamageSealed == \A w \in WorkIds : file[w] = Unexpected => guard[w] # None /\ guard[w].state = "committed"

(* The second of two versions is the first with an empty queue, once all   *)
(* of the queue is durable.                                                *)
Empties(o, n) ==
    /\ o \in Records /\ o.pend # <<>> /\ \A e \in Range(o.pend) : Durable(e)
    /\ n = [o EXCEPT !.pend = <<>>, !.rev = @ + 1]

(* What the ledger needs to know of the command t: it writes an update or  *)
(* empties a published queue, and it publishes only what its Work queues.  *)
LedgerStep(t) ==
    /\ t.step = "write" => Extends(file[t.id], t.next) \/ Empties(file[t.id], t.next)
    /\ t.step \in {"append", "clear"} => Pend(Holds(t.id)) # <<>>
    /\ t.step = "append" => Range(t.todo) \subseteq Range(Pend(Holds(t.id)))

(* A line that is not durable yet is torn or stands for a queued event.    *)
Unsynced == \A i \in synced + 1 .. Len(log) : log[i] = Torn \/ Waiting(log[i])

(* The strengthening of the refinement.                                    *)
LInv == DamageSealed /\ (txn # None => LedgerStep(txn)) /\ Unsynced

(* What a Work holds is what the refinement says of it.                    *)
LEMMA HoldsAuthority ==
    ASSUME IInv, AInv, LInv, NEW w \in WorkIds
    PROVE  /\ Authority(w) = Holds(w)
           /\ Holds(w) \in Records \cup {Absent}
<1>1. /\ file[w] \in Records \cup {Absent, Unexpected} /\ guard[w] \in Guards \cup {None}
      /\ guard[w] # None => /\ guard[w].authority \in Records
                            /\ guard[w].state \in {"prepared", "committed"}
  BY DEF IInv, TypeOK, Guards
<1>2. file[w] = Unexpected => guard[w] # None /\ guard[w].state = "committed"
  BY DEF LInv, DamageSealed
<1>3. file[w] # Unexpected => file[w] \in Allowed(guard[w], file[w])
  BY ReadableIs DEF IInv, AInv, FilesKnown
<1> QED
  BY <1>1, <1>2, <1>3 DEF Holds, Authority, Allowed

(* A step that changes no file keeps what every Work holds.                *)
LEMMA SameHolds ==
    ASSUME DamageSealed, SameFiles
    PROVE  DamageSealed' /\ \A w \in WorkIds : Holds(w)' = Holds(w)
BY DEF SameFiles, DamageSealed, Holds

(* The steps that change no file.                                          *)
LEMMA FilesStay ==
    ASSUME IInv, IInv', Next, file' = file, ~SealGuard
    PROVE  SameFiles
<1>1. \A v \in WorkIds : v <= v
  BY StoreAssumption
<1>2. txn # None => txn \in Transactions /\ txn.id \in WorkIds
  BY DEF IInv, TypeOK, Transactions
<1>3. ASSUME NEW a \in Agents, NEW w \in WorkIds, Load(a, w) \/ Begin(a, w) PROVE SameFiles
  BY <1>3, SealedFiles DEF Load, Begin, Read
<1>4. ASSUME NEW a \in Agents, NEW st \in Statuses, Refuse(a, st) PROVE SameFiles
  <2> DEFINE w == snap[a].id
             current == Readable(w) /\ UpToDate(snap[a].work, w)
             read == (IF Readable(w) THEN {w} ELSE {}) \cup (IF current THEN ReadBeforeFailure ELSE {})
  <2>1. guard' = GuardsAfterReading(read)
    BY <1>4 DEF Refuse
  <2>2. w \in WorkIds
    BY <1>4 DEF Refuse, IInv, TypeOK, Snapshots
  <2>3. read \in SUBSET WorkIds /\ \A v \in read : Readable(v)
    BY <1>1, <2>2 DEF ReadBeforeFailure, Existing
  <2> HIDE DEF read
  <2> QED
    BY <2>1, <2>3, SealedFiles
<1>5. ASSUME NEW a \in Agents, NEW st \in Statuses, Save(a, st) PROVE SameFiles
  BY <1>5, Saving, PreparedFiles
<1>6. CASE SaveRestored \/ ClearQueue
  BY <1>6, Persisting, PreparedFiles
<1>7. CASE Drain
  BY <1>2, <1>7, SealedFiles DEF Drain, Read, At
<1>8. CASE Scan \/ (GiveUp /\ At("scan"))
  <2>1. PICK S \in SUBSET WorkIds : (\A v \in S : Readable(v)) /\ guard' = GuardsAfterReading(S)
    BY <1>1, <1>8 DEF Scan, GiveUp, AllReadable, Existing, ReadBeforeFailure, At
  <2> QED
    BY <2>1, SealedFiles
<1>9. CASE guard' = guard
  BY <1>9, UnchangedFiles
<1> QED
  BY <1>3, <1>4, <1>5, <1>6, <1>7, <1>8, <1>9
     DEF Next, Start, Advance, Environment, Rescan, Recover, WriteWork, AppendEvent, PickWork, WriteIndex,
         GiveUp, FsyncFails, PowerLoss, Crash, ForeignWrite, disk

(* Every Work holds what it held.                                          *)
SameHeld == DamageSealed' /\ \A w \in WorkIds : Holds(w)' = Holds(w)

(* The log keeps its durable lines, and the others stand for queued events. *)
LogGrows ==
    /\ synced <= synced' /\ synced' <= Len(log')
    /\ \A i \in 1 .. synced : log'[i] = log[i]
    /\ \A i \in synced + 1 .. Len(log') : log'[i] = Torn \/ Waiting(log'[i])

(* A log that stays grows by nothing.                                      *)
LEMMA LogStays == ASSUME IInv, LInv, UNCHANGED <<log, synced>> PROVE LogGrows
BY DEF IInv, TypeOK, LInv, Unsynced, LogGrows

(* A step that keeps what the Works hold keeps LInv.                       *)
LEMMA LedgerKept ==
    ASSUME IInv, IInv', LInv, SameHeld, LogGrows, txn' # None => LedgerStep(txn)'
    PROVE  LInv'
<1>1. \A e : Waiting(e) => Waiting(e)'
  BY DEF Waiting, SameHeld
<1>2. synced \in Nat /\ synced' \in Nat /\ Len(log') \in Nat /\ synced <= synced'
  BY DEF IInv, TypeOK, LogGrows
<1>3. ASSUME NEW i \in synced' + 1 .. Len(log') PROVE log'[i] = Torn \/ Waiting(log[i])'
  <2>1. PICK e : e = log'[i]
    OBVIOUS
  <2>2. i \in synced + 1 .. Len(log')
    <3>1. \A x, y, z \in Nat : \A k \in y + 1 .. z : x <= y => k \in x + 1 .. z
      OBVIOUS
    <3> QED
      BY <1>2, <3>1
  <2>3. e = Torn \/ Waiting(e)'
    BY <1>1, <2>1, <2>2 DEF LogGrows
  <2> QED
    BY <2>1, <2>3 DEF Waiting
<1>4. Unsynced'
  BY <1>3 DEF Unsynced
<1> QED
  BY <1>4 DEF LInv, SameHeld

(* A prefix has no value the whole has not.                                *)
LEMMA PrefixRange ==
    ASSUME NEW S, NEW s \in Seq(S), NEW t \in Seq(S), IsStrictPrefix(s, t)
    PROVE  Range(s) \subseteq Range(t)
<1>1. Len(s) \in Nat /\ Len(t) \in Nat /\ Len(s) <= Len(t) /\ SubSeq(s, 1, Len(s)) = SubSeq(t, 1, Len(s))
  BY DEF IsStrictPrefix, IsPrefix
<1>2. \A i \in 1 .. Len(s) : SubSeq(s, 1, Len(s))[i] = s[i] /\ SubSeq(t, 1, Len(s))[i] = t[i]
  BY <1>1
<1>3. \A i \in 1 .. Len(s) : s[i] = t[i] /\ i \in 1 .. Len(t)
  BY <1>1, <1>2
<1> QED
  BY <1>3 DEF Range

(* What is left to append after the next event.                            *)
LEMMA TodoParts ==
    ASSUME NEW S, NEW s \in Seq(S), s # <<>>
    PROVE  Head(s) \in S /\ Head(s) \in Range(s) /\ Range(Tail(s)) \subseteq Range(s)
<1>1. /\ Head(s) = s[1] /\ Len(s) \in Nat \ {0} /\ DOMAIN s = 1 .. Len(s)
      /\ DOMAIN Tail(s) = 1 .. Len(s) - 1 /\ \A i \in 1 .. Len(s) - 1 : Tail(s)[i] = s[i + 1]
  OBVIOUS
<1>2. \A i \in 1 .. Len(s) - 1 : i + 1 \in 1 .. Len(s)
  BY <1>1
<1> QED
  BY <1>1, <1>2 DEF Range

(* Writing a queued event, torn or whole, grows the log.                   *)
LEMMA WrittenGrows ==
    ASSUME IInv, LInv, NEW w \in WorkIds, NEW e \in Events, e \in Range(Pend(Holds(w))),
           log' \in {log, Append(log, Torn), WithEvent(e)}, synced' \in {synced, Len(log')}
    PROVE  LogGrows
<1>1. log \in Seq(Events \cup {Torn}) /\ Len(log) \in Nat /\ synced \in 0 .. Len(log)
  BY DEF IInv, TypeOK
<1>2. /\ log' = log \/ (Len(log') = Len(log) + 1 /\ log'[Len(log) + 1] \in {Torn, e})
      /\ \A i \in 1 .. Len(log) : log'[i] = log[i]
  <2>1. CASE log' = log
    BY <2>1
  <2>2. CASE log' = Append(log, Torn) \/ log' = Append(log, e)
    BY <1>1, <2>2
  <2> QED
    BY <2>1, <2>2 DEF WithEvent
<1>3. Waiting(e)
  BY DEF Waiting
<1>4. \A i \in synced + 1 .. Len(log) : log[i] = Torn \/ Waiting(log[i])
  BY DEF LInv, Unsynced
<1>5. \A i \in synced + 1 .. Len(log') : i \in synced + 1 .. Len(log) \/ (log' # log /\ i = Len(log) + 1)
  BY <1>1, <1>2
<1>6. \A i \in synced + 1 .. Len(log') : log'[i] = Torn \/ Waiting(log'[i])
  <2>1. ASSUME NEW i \in synced + 1 .. Len(log') PROVE log'[i] = Torn \/ Waiting(log'[i])
    <3>1. CASE i \in synced + 1 .. Len(log)
      <4>1. i \in 1 .. Len(log)
        BY <1>1, <3>1
      <4> QED
        BY <1>2, <1>4, <3>1, <4>1
    <3>2. CASE log' # log /\ i = Len(log) + 1
      BY <1>2, <1>3, <3>2
    <3> QED
      BY <1>5, <3>1, <3>2
  <2> QED
    BY <2>1
<1> QED
  BY <1>1, <1>2, <1>6 DEF LogGrows

(* A command whose next step is none of the ledger's business.             *)
LEMMA OtherStep ==
    ASSUME txn' # None => txn'.step \notin {"write", "append", "clear"}
    PROVE  txn' # None => LedgerStep(txn)'
BY DEF LedgerStep

(* The steps that read only.                                               *)
LEMMA ReadsKeepLedger ==
    ASSUME IInv, IInv', LInv, UNCHANGED <<file, log, synced>>, Next,
           txn' # None => txn'.step \notin {"write", "append", "clear"}
    PROVE  LInv' /\ SameHeld /\ LogGrows
<1>1. CASE SealGuard
  <2>1. PICK t \in Transactions : txn = t
    BY <1>1 DEF SealGuard, At, IInv, TypeOK
  <2>2. t # None /\ t.id \in WorkIds /\ t.step = "seal" /\ StepInv(t) /\ guard' = [guard EXCEPT ![t.id] = Committed(t.next)]
    BY <1>1, <2>1, StoreAssumption DEF SealGuard, At, IInv, TxnInv, Transactions
  <2>3. file[t.id] # Unexpected
    BY <2>2 DEF StepInv, Writing, LInv, DamageSealed
  <2>4. \A w \in WorkIds : file[w] = Unexpected => guard'[w] = guard[w]
    BY <2>2, <2>3 DEF IInv, TypeOK
  <2>5. SameHeld
    BY <2>4 DEF SameHeld, Holds, LInv, DamageSealed
  <2> QED
    BY <2>5, LogStays, LedgerKept, OtherStep
<1>2. CASE ~SealGuard
  <2>1. SameHeld
    BY <1>2, FilesStay, SameHolds DEF LInv, SameHeld
  <2> QED
    BY <2>1, LogStays, LedgerKept, OtherStep
<1> QED
  BY <1>1, <1>2

(* What a save writes is an update.                                        *)
LEMMA SaveKeepsLedger ==
    ASSUME IInv, IInv', LInv, NEW a \in Agents, NEW st \in Statuses, Save(a, st)
    PROVE  LInv' /\ SameHeld /\ LogGrows
<1>1. PICK w \in WorkIds, t \in Transactions :
              /\ Prepare(GuardsAfterReading(ReadForActivation(w, st)), t)
              /\ t.id = w /\ Extends(file[w], t.next)
  BY Saving
<1>2. file' = file /\ UNCHANGED <<log, synced>>
  BY DEF Save
<1>3. txn'.step = "write" /\ txn'.id = w /\ txn'.next = t.next
  BY <1>1 DEF Prepare, Transactions
<1>4. LedgerStep(txn)'
  BY <1>1, <1>2, <1>3 DEF LedgerStep
<1>5. SameHeld
  <2>1. Next
    BY DEF Next, Start
  <2>2. ~SealGuard
    BY <1>3 DEF Save, SealGuard, At
  <2> QED
    BY <1>2, <2>1, <2>2, FilesStay, SameHolds DEF LInv, SameHeld
<1> QED
  BY <1>2, <1>4, <1>5, LogStays, LedgerKept

(* What recover saves is an update, and a queue is emptied once all of it  *)
(* is durable.                                                             *)
LEMMA PersistKeepsLedger ==
    ASSUME IInv, IInv', LInv, SaveRestored \/ ClearQueue
    PROVE  LInv' /\ SameHeld /\ LogGrows
<1>1. PICK t \in Transactions, u \in Transactions :
              /\ txn = t /\ t # None /\ t.step \in {"restored", "clear"} /\ t.id \in WorkIds
              /\ Readable(t.id) /\ file[t.id] \in Records /\ file' = file
              /\ u.id = t.id
              /\ Prepare(GuardsAfterReading({t.id}), u)
              /\ t.step = "restored" => Extends(file[t.id], u.next)
              /\ t.step = "clear" => u.next = [file[t.id] EXCEPT !.pend = <<>>, !.rev = @ + 1]
  BY Persisting
<1>2. UNCHANGED <<log, synced>>
  BY DEF SaveRestored, ClearQueue
<1>3. PICK n : n = txn'
  OBVIOUS
<1>4. n.step = "write" /\ n.id = t.id /\ n.next = u.next
  BY <1>1, <1>3 DEF Prepare, Transactions
<1>5. SameHeld
  BY <1>1, PreparedFiles, SameHolds DEF LInv, SameHeld
<1>6. ASSUME t.step = "clear" PROVE Empties(file[t.id], u.next)
  <2>1. Holds(t.id) = file[t.id] /\ Cur(t.id) = file[t.id]
    BY <1>1, <1>6, CurIsRecord DEF Holds, Readable, IInv, TxnInv, StepInv
  <2>2. Pend(file[t.id]) # <<>> /\ Pend(file[t.id]) = file[t.id].pend
    BY <1>1, <1>6, <2>1, StoreAssumption DEF LInv, LedgerStep, Pend
  <2>3. \A e \in Range(file[t.id].pend) : Durable(e)
    BY <1>1, <1>6, <2>1 DEF IInv, TxnInv, StepInv
  <2> QED
    BY <1>1, <1>6, <2>2, <2>3 DEF Empties
<1>7. \A e : Durable(e) <=> Durable(e)'
  BY <1>2 DEF Durable
<1>8. Extends(file[t.id], u.next) \/ Empties(file[t.id], u.next)'
  BY <1>1, <1>6, <1>7 DEF Empties
<1>9. LedgerStep(txn)'
  BY <1>1, <1>3, <1>4, <1>8 DEF LedgerStep
<1> QED
  BY <1>2, <1>5, <1>9, LogStays, LedgerKept

(* A drain takes up the queue of its Work.                                 *)
LEMMA DrainKeepsLedger == ASSUME IInv, IInv', LInv, Drain PROVE LInv' /\ SameHeld /\ LogGrows
<1>1. PICK t \in Transactions : txn = t
  BY DEF Drain, At, IInv, TypeOK
<1>2. /\ t # None /\ t.id \in WorkIds /\ StepInv(t) /\ t.step = "drain"
      /\ Usable(t.id) /\ Readable(t.id) /\ guard' = GuardsAfterReading({t.id}) /\ file' = file
      /\ txn' = [t EXCEPT !.step = "append", !.todo = file[t.id].pend]
      /\ UNCHANGED <<log, synced>>
  BY <1>1, StoreAssumption DEF Drain, Read, At, IInv, TxnInv, Transactions
<1>3. SameHeld
  BY <1>2, SealedFiles, SameHolds DEF LInv, SameHeld
<1>4. /\ Holds(t.id) = file[t.id] /\ file[t.id].pend # <<>> /\ Pend(file[t.id]) = file[t.id].pend
  BY <1>2, CurIsRecord DEF Holds, Readable, Usable, IInv, StepInv, Pend
<1>5. PICK n : n = txn'
  OBVIOUS
<1>6. n.step = "append" /\ n.id = t.id /\ n.todo = file[t.id].pend
  BY <1>2, <1>5 DEF Transactions
<1>7. Holds(t.id)' = file[t.id]
  BY <1>2, <1>3, <1>4 DEF SameHeld
<1>8. LedgerStep(txn)'
  BY <1>4, <1>5, <1>6, <1>7 DEF LedgerStep
<1> QED
  BY <1>2, <1>3, <1>8, LogStays, LedgerKept

(* Putting an authority back changes nothing of what the Work holds.       *)
LEMMA RecoverKeepsLedger ==
    ASSUME IInv, IInv', AInv, LInv, NEW a \in Agents, NEW w \in WorkIds, Recover(a, w)
    PROVE  LInv' /\ SameHeld /\ LogGrows
<1>1. /\ guard[w] # None /\ guard[w].state = "committed" /\ file[w] # guard[w].authority
      /\ file' = [file EXCEPT ![w] = guard[w].authority]
      /\ txn' = Command(a, w, "save", "restored", guard[w].authority) /\ UNCHANGED <<guard, log, synced>>
  BY DEF Recover
<1>2. guard[w].authority \in Records /\ guard[w].authority # Unexpected
  BY <1>1, StoreAssumption DEF IInv, TypeOK, Guards
<1>3. txn'.step = "restored"
  BY <1>1, <1>2, CommandType DEF Steps
<1>4. file'[w] = guard[w].authority /\ \A v \in WorkIds : v # w => file'[v] = file[v]
  BY <1>1 DEF IInv, TypeOK
<1>5. file[w] = Unexpected
  BY <1>1, ReadableIs DEF IInv, AInv, FilesKnown, Allowed
<1>6. SameHeld
  BY <1>1, <1>2, <1>4, <1>5 DEF SameHeld, Holds, LInv, DamageSealed
<1> QED
  BY <1>1, <1>3, <1>6, LogStays, LedgerKept, OtherStep

(* A step that leaves the command as it is.                                *)
LEMMA CommandStays ==
    ASSUME IInv, LInv, SameHeld, UNCHANGED <<txn, log, synced>>,
           txn # None /\ txn.step = "write" => file'[txn.id] = file[txn.id]
    PROVE  txn' # None => LedgerStep(txn)'
<1>1. PICK t : t = txn
  OBVIOUS
<1>2. t # None => t.id \in WorkIds
  BY <1>1 DEF IInv, TypeOK, Transactions
<1>3. \A e : Durable(e) <=> Durable(e)'
  BY DEF Durable
<1>4. \A o, n : Empties(o, n) => Empties(o, n)'
  BY <1>3 DEF Empties
<1>5. t # None => Holds(t.id)' = Holds(t.id)
  BY <1>2 DEF SameHeld
<1> QED
  BY <1>1, <1>4, <1>5 DEF LInv, LedgerStep

(* Damage to a sealed file changes nothing of what the Work holds.         *)
LEMMA ForeignKeepsLedger ==
    ASSUME OverwriteOnly, OutsideWindow, IInv, IInv', AInv, LInv, NEW w \in Guarded, ForeignWrite(w)
    PROVE  LInv' /\ SameHeld /\ LogGrows
<1>1. /\ w \in WorkIds /\ guard[w] # None /\ file[w] # Unexpected
      /\ file' = [file EXCEPT ![w] = Unexpected] /\ UNCHANGED <<guard, txn, log, synced>>
      /\ guard[w].state = "committed"
  BY StoreAssumption DEF ForeignWrite, OverwriteOnly, OutsideWindow
<1>2. file'[w] = Unexpected /\ \A v \in WorkIds : v # w => file'[v] = file[v]
  BY <1>1 DEF IInv, TypeOK
<1>3. file[w] = guard[w].authority
  BY <1>1, ReadableIs DEF IInv, AInv, FilesKnown, Allowed
<1>4. SameHeld
  BY <1>1, <1>2, <1>3 DEF SameHeld, Holds, LInv, DamageSealed
<1>5. ASSUME txn # None, txn.step = "write" PROVE file'[txn.id] = file[txn.id]
  <2>1. txn.id \in WorkIds /\ Writing(txn.id, txn.next)
    BY <1>5 DEF IInv, TypeOK, Transactions, TxnInv, StepInv
  <2>2. txn.id # w
    BY <1>1, <2>1 DEF Writing
  <2> QED
    BY <1>2, <2>1, <2>2
<1> QED
  BY <1>1, <1>4, <1>5, LogStays, LedgerKept, CommandStays

(* An event is appended.                                                   *)
LEMMA AppendKeepsLedger == ASSUME IInv, IInv', LInv, AppendEvent PROVE LInv' /\ SameHeld /\ LogGrows
<1>1. PICK t \in Transactions : txn = t
  BY DEF AppendEvent, At, IInv, TypeOK
<1>2. /\ t # None /\ t.id \in WorkIds /\ t.step = "append" /\ t.todo \in Seq(Events) /\ t.todo # <<>>
      /\ UNCHANGED <<file, guard>> /\ log' = WithEvent(Head(t.todo)) /\ synced' = Len(log')
      /\ txn' = [t EXCEPT !.todo = Tail(@), !.step = IF Len(t.todo) = 1 THEN "clear" ELSE "append"]
  BY <1>1, StoreAssumption DEF AppendEvent, At, IInv, TxnInv, StepInv, Transactions
<1>3. SameHeld
  BY <1>2, UnchangedFiles, SameHolds DEF LInv, SameHeld
<1>4. Head(t.todo) \in Events /\ Head(t.todo) \in Range(t.todo) /\ Range(Tail(t.todo)) \subseteq Range(t.todo)
  BY <1>2, TodoParts
<1>5. LogGrows
  BY <1>1, <1>2, <1>4, WrittenGrows DEF LInv, LedgerStep, IInv, TypeOK
<1>6. PICK n : n = txn'
  OBVIOUS
<1>7. n.step \in {"append", "clear"} /\ n.id = t.id /\ n.todo = Tail(t.todo)
  BY <1>2, <1>6 DEF Transactions
<1>8. Holds(t.id)' = Holds(t.id)
  BY <1>2, <1>3 DEF SameHeld
<1>9. LedgerStep(txn)'
  BY <1>1, <1>2, <1>4, <1>6, <1>7, <1>8 DEF LInv, LedgerStep
<1> QED
  BY <1>3, <1>5, <1>9, LedgerKept

(* A failed fsync, the death of an agent and a power loss leave at most    *)
(* queued events behind.                                                   *)
LEMMA FsyncKeepsLedger == ASSUME IInv, IInv', LInv, FsyncFails PROVE LInv' /\ SameHeld /\ LogGrows
<1>1. PICK t \in Transactions : txn = t
  BY DEF FsyncFails, At, IInv, TypeOK
<1>2. /\ t # None /\ t.id \in WorkIds /\ t.step = "append" /\ t.todo \in Seq(Events) /\ t.todo # <<>>
      /\ UNCHANGED <<file, guard, synced>> /\ log' = WithEvent(Head(t.todo)) /\ txn' = None
  BY <1>1, StoreAssumption DEF FsyncFails, At, IInv, TxnInv, StepInv, Transactions
<1>3. SameHeld
  BY <1>2, UnchangedFiles, SameHolds DEF LInv, SameHeld
<1>4. Head(t.todo) \in Events /\ Head(t.todo) \in Range(t.todo)
  BY <1>2, TodoParts
<1>5. LogGrows
  BY <1>1, <1>2, <1>4, WrittenGrows DEF LInv, LedgerStep
<1> QED
  BY <1>2, <1>3, <1>5, LedgerKept

(* A process that dies leaves a log with at most one more line.            *)
LEMMA CrashKeepsLedger ==
    ASSUME IInv, IInv', LInv, NEW a \in Agents, Crash(a) PROVE LInv' /\ SameHeld /\ LogGrows
<1>1. UNCHANGED <<file, guard, synced>>
  BY DEF Crash
<1>2. SameHeld
  BY <1>1, UnchangedFiles, SameHolds DEF LInv, SameHeld
<1>3. CASE UNCHANGED <<txn, log>>
  BY <1>1, <1>2, <1>3, LogStays, LedgerKept, CommandStays
<1>4. CASE txn # None /\ txn' = None /\ log' = log
  BY <1>1, <1>2, <1>4, LogStays, LedgerKept
<1>5. CASE txn # None /\ txn' = None /\ log' # log
  <2>1. PICK t \in Transactions : txn = t
    BY <1>5 DEF IInv, TypeOK
  <2>2. /\ t.id \in WorkIds /\ t.step = "append" /\ t.todo \in Seq(Events) /\ t.todo # <<>>
        /\ log' \in {log, Append(log, Torn), WithEvent(Head(t.todo))}
    BY <1>5, <2>1, StoreAssumption DEF Crash, IInv, TxnInv, StepInv, Transactions
  <2>3. Head(t.todo) \in Events /\ Head(t.todo) \in Range(t.todo)
    BY <2>2, TodoParts
  <2>4. LogGrows
    BY <1>1, <1>5, <2>1, <2>2, <2>3, WrittenGrows DEF LInv, LedgerStep
  <2> QED
    BY <1>2, <1>5, <2>4, LedgerKept
<1> QED
  BY <1>3, <1>4, <1>5 DEF Crash

(* Lost power takes lines that were not durable, and may tear one.         *)
LEMMA PowerKeepsLedger == ASSUME IInv, IInv', LInv, PowerLoss PROVE LInv' /\ SameHeld /\ LogGrows
<1>1. PICK n \in synced .. Len(log) :
        /\ log' \in {SubSeq(log, 1, n)} \cup
                    IF n < Len(log) THEN {Append(SubSeq(log, 1, n), Torn)} ELSE {}
        /\ synced' = Len(log')
  BY DEF PowerLoss
<1>2. UNCHANGED <<file, guard>> /\ txn' = None
  BY DEF PowerLoss
<1>3. SameHeld
  BY <1>2, UnchangedFiles, SameHolds DEF LInv, SameHeld
<1>4. log \in Seq(Events \cup {Torn}) /\ synced \in 0 .. Len(log) /\ Len(log) \in Nat /\ n \in 0 .. Len(log)
      /\ synced <= n
  BY DEF IInv, TypeOK
<1>5. PICK cut \in Seq(Events \cup {Torn}) :
         cut = SubSeq(log, 1, n) /\ Len(cut) = n /\ \A i \in 1 .. n : cut[i] = log[i]
  <2>1. SubSeq(log, 1, n) \in Seq(Events \cup {Torn}) /\ Len(SubSeq(log, 1, n)) = n
        /\ \A i \in 1 .. n : SubSeq(log, 1, n)[i] = log[i]
    BY <1>4
  <2> QED
    BY <2>1
<1>6. log' = cut \/ log' = Append(cut, Torn)
  BY <1>1, <1>5
<1>7. /\ Len(log') = n \/ (Len(log') = n + 1 /\ log'[n + 1] = Torn)
      /\ \A i \in 1 .. n : log'[i] = log[i]
  <2>1. CASE log' = cut
    BY <1>5, <2>1
  <2>2. CASE log' = Append(cut, Torn)
    BY <1>4, <1>5, <2>2
  <2> QED
    BY <1>6, <2>1, <2>2
<1>8. ASSUME NEW i \in synced + 1 .. Len(log') PROVE log'[i] = Torn \/ Waiting(log'[i])
  <2>1. i \in 1 .. n \/ (i = n + 1 /\ log'[i] = Torn)
    BY <1>4, <1>7
  <2>2. i \in 1 .. n => i \in synced + 1 .. Len(log)
    BY <1>4
  <2> QED
    BY <1>7, <2>1, <2>2 DEF LInv, Unsynced
<1>9. synced <= synced' /\ synced' <= Len(log') /\ \A i \in 1 .. synced : log'[i] = log[i]
  BY <1>1, <1>4, <1>7
<1>10. LogGrows
  BY <1>8, <1>9 DEF LogGrows
<1> QED
  BY <1>2, <1>3, <1>10, LedgerKept

(* The write of the record moves its Work, and no other, by one update or  *)
(* by the end of a published queue.                                        *)
LEMMA WriteMoves ==
    ASSUME IInv, IInv', LInv, WriteWork
    PROVE  \E w \in WorkIds :
              /\ Holds(w) \in Records \cup {Absent} /\ Holds(w)' \in Records
              /\ Extends(Holds(w), Holds(w)') \/ Empties(Holds(w), Holds(w)')
              /\ Holds(w)'.status = "active" => Activates(txn, w)
              /\ \A v \in WorkIds : v # w => Holds(v)' = Holds(v)
              /\ LInv'
<1>1. PICK t \in Transactions : txn = t
  BY DEF WriteWork, At, IInv, TypeOK
<1>2. /\ t # None /\ t.id \in WorkIds /\ t.step = "write" /\ StepInv(t) /\ LedgerStep(t)
      /\ t.next \in Records /\ Writing(t.id, t.next)
      /\ file' = [file EXCEPT ![t.id] = t.next] /\ UNCHANGED <<guard, log, synced>>
  BY <1>1, StoreAssumption DEF WriteWork, At, IInv, TxnInv, StepInv, Writing, Transactions, LInv
<1>3. /\ file'[t.id] = t.next /\ t.next # Unexpected /\ t.next # Absent
      /\ \A v \in WorkIds : v # t.id => file'[v] = file[v]
  BY <1>2, StoreAssumption DEF IInv, TypeOK
<1>4. file[t.id] # Unexpected /\ file[t.id] \in Records \cup {Absent}
  <2>1. file[t.id] # Unexpected
    BY <1>2 DEF Writing, LInv, DamageSealed, IInv, GuardInv, GuardOk
  <2> QED
    BY <1>2, <2>1 DEF IInv, TypeOK
<1>5. /\ Holds(t.id) = file[t.id] /\ Holds(t.id)' = t.next
      /\ \A v \in WorkIds : v # t.id => Holds(v)' = Holds(v)
  BY <1>2, <1>3, <1>4 DEF Holds
<1>6. Extends(file[t.id], t.next) \/ Empties(file[t.id], t.next)
  BY <1>2 DEF LedgerStep
<1>7. t.next.status = "active" => Activates(txn, t.id)
  BY <1>1, <1>2 DEF Activates
<1>8. DamageSealed'
  BY <1>2, <1>3 DEF LInv, DamageSealed
<1>9. txn' # None => LedgerStep(txn)'
  <2>1. CASE t.id \in Guarded
    <3>1. txn'.step = "seal"
      BY <1>1, <2>1 DEF WriteWork, Transactions
    <3> QED
      BY <3>1, OtherStep
  <2>2. CASE t.id \notin Guarded
    <3>1. Proceed
      BY <1>1, <2>2 DEF WriteWork
    <3>2. txn' # None => txn'.step \in {"drain", "pick", "scan"}
      BY <1>1, <1>2, <3>1, Proceeding DEF IInv
    <3> QED
      BY <3>2, OtherStep
  <2> QED
    BY <2>1, <2>2
<1>10. ASSUME NEW i \in synced + 1 .. Len(log), log[i] # Torn PROVE Waiting(log[i])'
  <2>1. PICK w \in WorkIds : log[i] \in Range(Pend(Holds(w)))
    BY <1>10 DEF LInv, Unsynced, Waiting
  <2>2. CASE w # t.id
    BY <1>2, <1>5, <2>1, <2>2 DEF Waiting
  <2>3. CASE w = t.id
    <3>1. ~Durable(log[i])
      <4>1. i \in 1 .. Len(log) /\ synced \in Nat /\ synced <= Len(log) /\ Len(log) \in Nat
        BY DEF IInv, TypeOK
      <4>2. ASSUME NEW j \in 1 .. synced, log[j] = log[i] PROVE FALSE
        <5>1. j \in 1 .. Len(log) /\ j # i
          BY <4>1
        <5> QED
          BY <1>10, <4>1, <4>2, <5>1 DEF IInv, EventInv, EventsOnce
      <4> QED
        BY <4>2 DEF Durable
    <3>2. ~Empties(file[t.id], t.next)
      BY <1>4, <1>5, <2>1, <2>3, <3>1, StoreAssumption DEF Empties, Pend
    <3>3. Extends(file[t.id], t.next) /\ Pend(t.next) = t.next.pend
      BY <1>3, <1>6, <3>2 DEF Pend
    <3>4. Pend(file[t.id]) \in Seq(Events) /\ t.next.pend \in Seq(Events)
      BY <1>2, <1>4 DEF Pend, Records
    <3>5. Range(Pend(file[t.id])) \subseteq Range(t.next.pend)
      BY <3>3, <3>4, PrefixRange DEF Extends
    <3> QED
      BY <1>2, <1>5, <2>1, <2>3, <3>3, <3>5 DEF Waiting
  <2> QED
    BY <2>2, <2>3
<1>11. Unsynced'
  BY <1>2, <1>10 DEF Unsynced
<1>12. LInv'
  BY <1>8, <1>9, <1>11 DEF LInv
<1> QED
  BY <1>2, <1>4, <1>5, <1>6, <1>7, <1>12

(* Every step keeps LInv; all but the write of a record keep what the      *)
(* Works hold and at most add to the log.                                  *)
LEMMA LedgerSteps ==
    ASSUME OverwriteOnly, OutsideWindow, IInv, IInv', AInv, LInv, [Next]_vars
    PROVE  LInv' /\ (WriteWork \/ (SameHeld /\ LogGrows))
<1>1. ASSUME NEW a \in Agents, Rescan(a) PROVE LInv' /\ SameHeld /\ LogGrows
  <2>1. Min(WorkIds) \in WorkIds
    BY StoreAssumption, MinIsElement
  <2>2. txn'.step = "scan"
    BY <1>1, <2>1, CommandType DEF Rescan, Steps
  <2> QED
    BY <1>1, <2>2, ReadsKeepLedger DEF Rescan, disk, Next, Start
<1>2. ASSUME NEW a \in Agents, NEW w \in WorkIds, Load(a, w) \/ Begin(a, w) PROVE LInv' /\ SameHeld /\ LogGrows
  <2>1. CASE txn' = None
    BY <1>2, <2>1, ReadsKeepLedger DEF Load, Begin, Next, Start
  <2>2. CASE txn' # None
    <3>1. Load(a, w) /\ file[w] \in Records \cup {Absent} /\ txn' = Command(a, w, "load", "drain", file[w])
      BY <1>2, <2>2, CurIsRecord DEF Load, Begin, Read, IInv
    <3>2. txn'.step = "drain"
      BY <3>1, CommandType DEF Steps
    <3> QED
      BY <3>1, <3>2, ReadsKeepLedger DEF Load, Next, Start
  <2> QED
    BY <2>1, <2>2
<1>3. ASSUME NEW a \in Agents, NEW st \in Statuses, Refuse(a, st) PROVE LInv' /\ SameHeld /\ LogGrows
  BY <1>3, ReadsKeepLedger DEF Refuse, Next, Start
<1>4. CASE SealGuard
  <2>1. PICK t \in Transactions : txn = t
    BY <1>4 DEF SealGuard, At, IInv, TypeOK
  <2>2. Proceed /\ t.next \in Records
    BY <1>4, <2>1 DEF SealGuard, At, IInv, TxnInv, StepInv, Writing
  <2>3. txn' # None => txn'.step \in {"drain", "pick", "scan"}
    BY <2>1, <2>2, Proceeding DEF IInv
  <2> QED
    BY <1>4, <2>3, ReadsKeepLedger DEF SealGuard, Next, Advance
<1>5. CASE Scan \/ PickWork
  <2>1. PICK t \in Transactions : txn = t
    BY <1>5 DEF Scan, PickWork, At, IInv, TypeOK
  <2>2. txn'.step \in {"pick", "drain"}
    BY <1>5, <2>1 DEF Scan, PickWork, Transactions
  <2> QED
    BY <1>5, <2>2, ReadsKeepLedger DEF Scan, PickWork, disk, Next, Advance
<1>6. CASE WriteIndex \/ GiveUp
  BY <1>6, ReadsKeepLedger DEF WriteIndex, GiveUp, Next, Advance
<1>7. CASE UNCHANGED vars
  <2>1. SameHeld
    BY <1>7, UnchangedFiles, SameHolds DEF LInv, SameHeld, vars, disk
  <2> QED
    BY <1>7, <2>1, LogStays, LedgerKept, CommandStays DEF vars, disk
<1>8. CASE Start
  BY <1>1, <1>2, <1>3, <1>8, RecoverKeepsLedger, SaveKeepsLedger DEF Start
<1>9. CASE Advance
  BY <1>4, <1>5, <1>6, <1>9, PersistKeepsLedger, DrainKeepsLedger, AppendKeepsLedger, WriteMoves DEF Advance
<1>10. CASE Environment
  BY <1>10, FsyncKeepsLedger, PowerKeepsLedger, CrashKeepsLedger, ForeignKeepsLedger DEF Environment
<1> QED
  BY <1>7, <1>8, <1>9, <1>10 DEF Next

(* LInv holds of an empty workspace.                                       *)
LEMMA LedgerInit == ASSUME Init PROVE LInv
<1>1. \A w \in WorkIds : file[w] = Absent
  BY DEF Init
<1>2. synced + 1 .. Len(log) = {}
  BY DEF Init
<1> QED
  BY <1>1, <1>2, StoreAssumption DEF LInv, DamageSealed, Unsynced, Init

(* A log that grows publishes queued events, each for the first time.      *)
LEMMA Publishing ==
    ASSUME IInv, IInv', LInv, LogGrows
    PROVE  /\ IsPrefix(Published, Published')
           /\ IsInjective(Published')
           /\ \A e \in Range(Published') : e \in Range(Published) \/ Waiting(e)
<1>1. /\ log \in Seq(Events \cup {Torn}) /\ Once(log) /\ synced \in 0 .. Len(log) /\ Len(log) \in Nat
      /\ log' \in Seq(Events \cup {Torn}) /\ Once(log') /\ synced' \in 0 .. Len(log') /\ Len(log') \in Nat
  BY DEF IInv, TypeOK, EventInv, EventsOnce, Once
<1>2. /\ synced <= synced' /\ \A i \in 1 .. synced : log'[i] = log[i]
      /\ \A i \in synced + 1 .. Len(log') : log'[i] = Torn \/ Waiting(log'[i])
  BY DEF LogGrows
<1>3. PICK s \in Seq(Events \cup {Torn}) :
         s = DurableLog /\ Len(s) = synced /\ \A i \in 1 .. synced : s[i] = log[i]
  BY <1>1, Cut DEF DurableLog
<1>4. PICK t \in Seq(Events \cup {Torn}) :
         t = DurableLog' /\ Once(t) /\ Len(t) = synced' /\ \A i \in 1 .. synced' : t[i] = log'[i]
  BY <1>1, Cut DEF DurableLog
<1>5. synced \in 0 .. Len(t) /\ \A i \in 1 .. synced : s[i] = t[i]
  <2>1. synced \in Nat /\ synced' \in Nat /\ Len(t) = synced' /\ synced <= synced'
    BY <1>1, <1>2, <1>4
  <2>2. synced \in 0 .. Len(t) /\ \A i \in 1 .. synced : i \in 1 .. synced'
    <3>1. \A x, y \in Nat : x <= y => x \in 0 .. y /\ \A i \in 1 .. x : i \in 1 .. y
      OBVIOUS
    <3> QED
      BY <2>1, <3>1
  <2> QED
    BY <1>2, <1>3, <1>4, <2>2
<1>6. /\ IsPrefix(Complete(s), Complete(t)) /\ IsInjective(Complete(t))
      /\ Range(Complete(s)) = {t[i] : i \in 1 .. synced} \ {Torn}
      /\ Range(Complete(t)) = {t[i] : i \in 1 .. Len(t)} \ {Torn}
  BY <1>3, <1>4, <1>5, CompletePrefix
<1>7. Published = Complete(s) /\ Published' = Complete(t)
  BY <1>3, <1>4 DEF Published
<1>8. ASSUME NEW e \in Range(Complete(t)) PROVE e \in Range(Complete(s)) \/ Waiting(e)
  <2>1. PICK i \in 1 .. synced' : e = log'[i] /\ e = t[i] /\ e # Torn
    BY <1>4, <1>6
  <2>2. CASE i \in 1 .. synced
    BY <1>6, <2>1, <2>2
  <2>3. CASE i \notin 1 .. synced
    <3>1. i \in synced + 1 .. Len(log')
      BY <1>1, <2>3
    <3> QED
      BY <1>2, <2>1, <3>1
  <2> QED
    BY <2>2, <2>3
<1> QED
  BY <1>6, <1>7, <1>8

(* What is durable of the queues is published.                             *)
LEMMA PublishedIs == ASSUME IInv, NEW e \in Events, Durable(e) PROVE e \in Range(Published)
<1>1. log \in Seq(Events \cup {Torn}) /\ Once(log) /\ synced \in 0 .. Len(log)
  BY DEF IInv, TypeOK, EventInv, EventsOnce, Once
<1>2. PICK s \in Seq(Events \cup {Torn}) :
         s = DurableLog /\ Once(s) /\ Len(s) = synced /\ \A i \in 1 .. synced : s[i] = log[i]
  BY <1>1, Cut DEF DurableLog
<1>3. Len(s) \in 0 .. Len(s) /\ Len(s) = Len(s) /\ \A i \in 1 .. Len(s) : s[i] = s[i]
  BY <1>1, <1>2
<1>4. Range(Complete(s)) = {s[i] : i \in 1 .. Len(s)} \ {Torn}
  BY <1>2, <1>3, CompletePrefix
<1>5. e # Torn
  BY StoreAssumption
<1> QED
  BY <1>2, <1>4, <1>5 DEF Published, Durable

(* The refinement mapping, in terms of Holds.                              *)
View == \A w \in WorkIds : Authority(w) = Holds(w) /\ Holds(w) \in Records \cup {Absent}

(* A step of the log publishes queued events, or is none of the ledger's   *)
(* business.                                                               *)
LEMMA LedgerPublishes ==
    ASSUME IInv, IInv', LInv, View, View', SameHeld, LogGrows
    PROVE  [Ledger!Next]_(Ledger!ledger)
<1>1. [w \in WorkIds |-> Authority(w)]' = [w \in WorkIds |-> Authority(w)]
  <2>1. \A w \in WorkIds : Authority(w)' = Authority(w)
    BY DEF View, SameHeld
  <2> QED
    BY <2>1
<1>2. CASE Published' = Published
  BY <1>1, <1>2 DEF Ledger!ledger
<1>3. CASE Published' # Published
  <2>1. /\ Ledger!IsStrictPrefix(Published, Published') /\ Ledger!IsInjective(Published')
        /\ \A e \in Range(Published') : e \in Range(Published) \/ Waiting(e)
    BY <1>3, Publishing DEF Ledger!IsStrictPrefix, Ledger!IsPrefix, IsPrefix, Ledger!IsInjective, IsInjective
  <2>2. \A e : Waiting(e) => \E w \in WorkIds : e \in Ledger!Range(Ledger!Queue(Authority(w)))
    BY DEF Waiting, View, Pend, Ledger!Queue, Ledger!Range, Range
  <2>3. Ledger!Range(Published) = Range(Published) /\ Ledger!Range(Published') = Range(Published')
    BY DEF Ledger!Range, Range
  <2>4. Ledger!Publish
    BY <1>1, <2>1, <2>2, <2>3 DEF Ledger!Publish
  <2> QED
    BY <2>4 DEF Ledger!Next
<1> QED
  BY <1>2, <1>3

(* The write of a record commits an update or settles a published queue.   *)
LEMMA LedgerMoves ==
    ASSUME IInv, IInv', AInv, LInv, View, View', WriteWork
    PROVE  Ledger!Next
<1>1. PICK w \in WorkIds :
         /\ Holds(w) \in Records \cup {Absent} /\ Holds(w)' \in Records
         /\ Extends(Holds(w), Holds(w)') \/ Empties(Holds(w), Holds(w)')
         /\ Holds(w)'.status = "active" => Activates(txn, w)
         /\ \A v \in WorkIds : v # w => Holds(v)' = Holds(v)
  BY WriteMoves
<1>2. Published' = Published
  BY DEF WriteWork, Published, DurableLog
<1>3. PICK before : before = [v \in WorkIds |-> Authority(v)]
  OBVIOUS
<1>4. PICK after : after = [v \in WorkIds |-> Authority(v)]'
  OBVIOUS
<1>5. PICK o, n : o = Holds(w) /\ n = Holds(w)'
  OBVIOUS
<1>6. /\ before[w] = o /\ after[w] = n /\ o \in Records \cup {Absent} /\ n \in Records
      /\ \A v \in WorkIds : v # w => after[v] = before[v]
      /\ before = [v \in WorkIds |-> before[v]] /\ after = [v \in WorkIds |-> after[v]]
      /\ \A v \in WorkIds : before[v] = Holds(v)
  BY <1>1, <1>3, <1>4, <1>5 DEF View
<1>7. n # Absent
  BY <1>6, StoreAssumption
<1>8. n.status = "active" => \A v \in WorkIds \ {w} : ~Ledger!IsActive(before[v])
  <2>1. ASSUME n.status = "active", NEW v \in WorkIds, v # w, Ledger!IsActive(before[v]) PROVE FALSE
    <3>1. Contends(w)
      BY <1>1, <1>5, <2>1 DEF Contends
    <3>2. Holds(v) \in Records /\ Holds(v).status = "active"
      BY <1>6, <2>1 DEF View, Ledger!IsActive
    <3>3. Contends(v)
      BY <3>2 DEF Holds, Contends, LInv, DamageSealed
    <3> QED
      BY <2>1, <3>1, <3>3 DEF AInv, OneContends
  <2> QED
    BY <2>1
<1>9. CASE Extends(o, n)
  <2>1. /\ n.rev = Ledger!Revision(o) + 1
        /\ Ledger!IsStrictPrefix(Ledger!Queue(o), n.pend)
        /\ o # Absent => o.notes \subseteq n.notes /\ n.gen >= o.gen /\ (n.status # o.status => n.gen > o.gen)
    BY <1>6, <1>9 DEF Extends, Succ, Rev, Pend, Records, Ledger!Revision, Ledger!Queue, IsStrictPrefix, IsPrefix,
          Ledger!IsStrictPrefix, Ledger!IsPrefix
  <2>2. Ledger!Commit(w)
    BY <1>2, <1>3, <1>4, <1>6, <1>7, <1>8, <2>1 DEF Ledger!Commit, Ledger!IsActive
  <2> QED
    BY <2>2 DEF Ledger!Next
<1>10. CASE Empties(o, n)
  <2>1. Ledger!Queue(o) = o.pend /\ o.pend # <<>> /\ o \in Records
    BY <1>10, StoreAssumption DEF Empties, Ledger!Queue
  <2>2. \A e \in Range(o.pend) : e \in Events /\ e \in Range(Published)
    BY <1>10, <2>1, PublishedIs DEF Empties, Records, Range
  <2>3. Ledger!Range(Ledger!Queue(o)) \subseteq Ledger!Range(Published)
    BY <2>1, <2>2 DEF Ledger!Range, Range
  <2>4. after = [before EXCEPT ![w].pend = <<>>, ![w].rev = @ + 1]
    BY <1>6, <1>10, <2>1 DEF Empties, Records
  <2>5. Ledger!Settle(w)
    BY <1>2, <1>3, <1>4, <1>6, <2>1, <2>3, <2>4 DEF Ledger!Settle
  <2> QED
    BY <2>5 DEF Ledger!Next
<1> QED
  BY <1>1, <1>5, <1>9, <1>10

(* For any number of Works, agents, crashes, power losses, failed fsyncs   *)
(* and overwritten files, the store is a ledger: a Work changes by whole   *)
(* commits, each of the revision before, and every event is published once,*)
(* after the commit that queued it.  Foreign writers that delete or restore *)
(* a guarded file, or write between its two guard writes, are outside the  *)
(* theorem, as they are outside the run.                                   *)
THEOREM StoreImplementsLedger == ASSUME OverwriteOnly, OutsideWindow PROVE Spec => ImplementsLedger
<1>1. Init => IInv /\ AInv /\ LInv
  BY InitHolds, ActiveInit, LedgerInit
<1>2. (IInv /\ AInv /\ LInv) /\ [Next]_vars => (IInv /\ AInv /\ LInv)'
  BY NextKeeps, StutterKeeps, ActiveStep, LedgerSteps
<1>3. IInv /\ AInv /\ LInv => View
  BY HoldsAuthority DEF View
<1>4. Init => Ledger!Init
  <2> SUFFICES ASSUME Init PROVE Ledger!Init
    OBVIOUS
  <2>1. [w \in WorkIds |-> Authority(w)] = [w \in WorkIds |-> Absent]
    BY DEF Init, Authority
  <2>2. Published = <<>>
    <3>1. PICK s : s = DurableLog /\ Len(s) = 0
      <4>1. log \in Seq(Events \cup {Torn}) /\ Once(log) /\ synced = 0 /\ synced \in 0 .. Len(log)
        BY InitHolds DEF IInv, TypeOK, EventInv, EventsOnce, Once, Init
      <4> QED
        BY <4>1, Cut DEF DurableLog
    <3>2. Complete(s) = <<>>
      BY <3>1, CompleteIs DEF Collects
    <3> QED
      BY <3>1, <3>2 DEF Published
  <2> QED
    BY <2>1, <2>2 DEF Ledger!Init
<1>5. IInv /\ IInv' /\ AInv /\ LInv /\ View /\ View' /\ [Next]_vars => [Ledger!Next]_(Ledger!ledger)
  BY LedgerSteps, LedgerPublishes, LedgerMoves
<1> QED
  BY <1>1, <1>2, <1>3, <1>4, <1>5, PTL DEF Spec, ImplementsLedger, Ledger!Spec
=============================================================================
