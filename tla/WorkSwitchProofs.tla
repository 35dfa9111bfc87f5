-------------------------- MODULE WorkSwitchProofs --------------------------
(***************************************************************************)
(* Proofs about switching and amending, for any number of Works,           *)
(* processes, operations, edits and crashes: one Work is active, the       *)
(* journal is kept, and a move is one step of the abstract board.          *)
(***************************************************************************)
EXTENDS WorkSwitch, FiniteSetTheorems, TLAPS

-----------------------------------------------------------------------------
(* The inductive invariant.                                                *)

(* The Works a journal or a signature holds, each with its record.         *)
Maps == UNION {[S -> WorkRecord] : S \in SUBSET Works}

(* Snapshots of the product tree, or none.                                 *)
Trees == [product : Products, docs : [Tracked -> Contents]] \cup {Nothing}

(* The inputs a recovery was made from, or none.                           *)
Signatures == [works : Maps, cfg : Products, tree : Trees] \cup {Nothing}

(* The failures recorded against an operation.                             *)
Repairs == [seen : Signatures, attempts : 0..2]

(* Journals as they are written: every field, whatever the operation.      *)
JournalRecords ==
           [kind : {"switch", "amend"}, status : {"prepared", "applying", "committed", "aborted"},
            order : Seq(Works), before : Maps, after : Maps, tree : Trees,
            cfg : Products \cup {Nothing}, old : Contents \cup {Nothing}, new : Contents \cup {Nothing}]

(* Where a process can be.                                                 *)
Stages == {"idle", "switch", "look", "enter", "file", "mark", "apply", "note"}

(* What a process remembers.                                               *)
Process == [at : Stages, op : Nat, held : BOOLEAN, seen : Signatures, prev : Repairs, left : Seq(Works)]

(* The type invariant, with the shape of the journals and the processes.   *)
ShapeInv ==
    /\ TypeOK
    /\ ops \in Seq(JournalRecords) /\ repairs \in Seq(Repairs) /\ Len(repairs) = Len(ops)
    /\ proc \in [Procs -> Process]

(* A process holds the lock from its entry to its last write; the switch   *)
(* inside unblock runs with no journal open; a recovery has its journal.   *)
LockAt(p) ==
    /\ proc[p].at = "idle" => lock # p
    /\ proc[p].at \in {"switch", "file", "mark", "apply"} => lock = p
    /\ proc[p].at = "switch" => ~Pending /\ proc[p].left # <<>>
    /\ proc[p].at \in Stages \ {"idle", "switch"} => proc[p].op \in DOMAIN ops

(* The lock discipline of every process.                                   *)
LockInv == \A p \in Procs : LockAt(p)

(* What an open switch says of the board: its target waits, the only other *)
(* Work it may name is the active one, and no Work outside it is active.   *)
Switches(op) ==
    \E t \in ToSet(op.order) :
        /\ op.before[t].status \in {"todo", "suspended"} /\ op.after[t].status = "active"
        /\ \A s \in ToSet(op.order) \ {t} :
               /\ op.before[s].status = "active" /\ op.after[s].status = "suspended"
               /\ ToSet(op.order) = {s, t}
        /\ \A w \in Works \ ToSet(op.order) : work[w].status # "active"

(* What an open amendment says of the board: its only Work keeps its       *)
(* status, and where that is active no other Work is.                      *)
Amends(op) ==
    /\ op.order = <<Head(op.order)>>
    /\ op.old \in Contents /\ op.new \in Contents
    /\ op.after[Head(op.order)].status = op.before[Head(op.order)].status
    /\ op.before[Head(op.order)].status = "active" =>
          \A w \in Works \ ToSet(op.order) : work[w].status # "active"

(* A Work that a journal suspends is not executing, or it is behind the    *)
(* project context; neither changes while the journal is open, but that    *)
(* more Works may fall behind.                                             *)
NotExecuting(op) ==
    \A w \in ToSet(op.order) :
        op.before[w].status = "active" /\ op.after[w].status = "suspended" => w \notin Busy \ stale

(* At most one journal is open, and what it says of the board stays true   *)
(* until it is over.                                                       *)
OpenInv ==
    /\ \A i, j \in DOMAIN ops : Open(i) /\ Open(j) => i = j
    /\ \A id \in DOMAIN ops : Open(id) =>
          /\ ops[id].kind = "switch" => Switches(ops[id])
          /\ ops[id].kind = "amend" => Amends(ops[id])
          /\ NotExecuting(ops[id])

(* The part of a journal a recovery has applied: all but what is left.     *)
Writes(op, left) ==
    /\ op.status = "applying"
    /\ ToSet(left) \subseteq ToSet(op.order)
    /\ \A w \in ToSet(op.order) \ ToSet(left) : work[w] = op.after[w]

(* A process between its validation and its commit writes an open journal, *)
(* and finds the Works and the requirement file where that journal takes   *)
(* them.                                                                   *)
WriterAt(p) ==
    proc[p].at \in {"file", "mark", "apply"} =>
        LET op == ops[proc[p].op] IN
        /\ Open(proc[p].op)
        /\ \A w \in ToSet(op.order) : work[w] \in {op.before[w], op.after[w]}
        /\ proc[p].at = "file" => op.kind = "amend" /\ file[Head(op.order)] \in {op.old, op.new}
        /\ proc[p].at \in {"mark", "apply"} /\ op.kind = "amend" => file[Head(op.order)] = op.new
        /\ proc[p].at = "apply" => Writes(op, proc[p].left)

(* What every writing process relies on.                                   *)
WriterInv == \A p \in Procs : WriterAt(p)

(* The inductive invariant.                                                *)
IInv == ShapeInv /\ SingleActive /\ LockInv /\ OpenInv /\ WriterInv

-----------------------------------------------------------------------------
(* Sequences, sets and the shapes of records.                              *)

(* A non-empty sequence is its head and its tail.                          *)
LEMMA HeadAndTail ==
    ASSUME NEW S, NEW s \in Seq(S), s # <<>>
    PROVE  /\ Head(s) \in S /\ Tail(s) \in Seq(S)
           /\ Head(s) \in ToSet(s)
           /\ ToSet(Tail(s)) \subseteq ToSet(s)
           /\ ToSet(s) \subseteq ToSet(Tail(s)) \cup {Head(s)}
<1>1. Head(s) \in S /\ Tail(s) \in Seq(S) /\ Head(s) \in ToSet(s) /\ ToSet(Tail(s)) \subseteq ToSet(s)
  BY DEF ToSet
<1>2. ASSUME NEW i \in DOMAIN s, i # 1 PROVE s[i] \in ToSet(Tail(s))
  <2>1. i - 1 \in DOMAIN Tail(s) /\ Tail(s)[i - 1] = s[i]
    BY <1>2
  <2> QED
    BY <2>1 DEF ToSet
<1> QED
  BY <1>1, <1>2 DEF ToSet

(* The sequence of a singleton.                                            *)
LEMMA SetOfSingle == ASSUME NEW S, NEW s, S = {s} PROVE SetToSeq(S) = <<s>>
<1>1. Cardinality(S) = 1
  BY FS_Singleton
<1>2. \A f \in [1..1 -> S] : f = <<s>>
  OBVIOUS
<1>3. <<s>> \in [1..1 -> S] /\ IsInjective(<<s>>)
  BY DEF IsInjective
<1>4. SetToSeq(S) \in [1..1 -> S]
  BY <1>1, <1>3 DEF SetToSeq
<1> QED
  BY <1>2, <1>4

(* The sequence of the empty set.                                          *)
LEMMA SetOfNone == SetToSeq({}) = <<>>
<1>1. Cardinality({}) = 0
  BY FS_EmptySet
<1>2. \A f \in [1..0 -> {}] : f = <<>>
  OBVIOUS
<1>3. <<>> \in [1..0 -> {}] /\ IsInjective(<<>>)
  BY DEF IsInjective
<1>4. SetToSeq({}) \in [1..0 -> {}]
  BY <1>1, <1>3 DEF SetToSeq
<1> QED
  BY <1>2, <1>4

-----------------------------------------------------------------------------
(* Every step keeps the invariant.                                         *)

(* Every command that writes one Work is a save of a record, and one that  *)
(* suspends the active Work leaves a blocker on it.                        *)
LEMMA CommandIsSave ==
    ASSUME ShapeInv, Commands
    PROVE  \E w \in Works, r \in WorkRecord :
              /\ Save(w, r)
              /\ work[w].status = "active" /\ r.status = "suspended" => r.blocked
              /\ stale' \subseteq stale /\ closed' \subseteq Works
              /\ busy' \in [Works -> Products \cup {Nothing, "other"}]
<1> USE DEF ShapeInv, TypeOK
<1> PICK w \in Works :
        \/ Defer(w)
        \/ \E b \in BOOLEAN : Start(w, b) \/ Block(w, b) \/ Reopen(w, b) \/ RunEnds(w, b)
        \/ Done(w) \/ Rebind(w) \/ RunStarts(w) \/ Abandon(w)
  BY DEF Commands
<1>0. Anchored(w) \in WorkRecord /\ work[w] \in WorkRecord /\ Anchored(w).status = work[w].status
  BY DEF Anchored, WorkRecord
<1>1. CASE Defer(w)
  BY <1>0, <1>1 DEF Defer, WorkRecord, Statuses, Absent
<1> DEFINE Goal == \E v \in Works, r \in WorkRecord :
              /\ Save(v, r)
              /\ work[v].status = "active" /\ r.status = "suspended" => r.blocked
              /\ stale' \subseteq stale /\ closed' \subseteq Works
              /\ busy' \in [Works -> Products \cup {Nothing, "other"}]
<1>2. ASSUME NEW b \in BOOLEAN, Start(w, b) PROVE Goal
  BY <1>0, <1>2 DEF Start, WorkRecord, Statuses
<1>3. ASSUME NEW b \in BOOLEAN, Block(w, b) PROVE Goal
  BY <1>0, <1>3 DEF Block, WorkRecord, Statuses
<1>4. ASSUME NEW b \in BOOLEAN, Reopen(w, b) PROVE Goal
  BY <1>0, <1>4 DEF Reopen, WorkRecord, Statuses
<1>5. ASSUME NEW b \in BOOLEAN, RunEnds(w, b) PROVE Goal
  BY <1>0, <1>5 DEF RunEnds, WorkRecord, Statuses
<1>6. CASE Done(w)
  BY <1>0, <1>6 DEF Done, WorkRecord, Statuses
<1>7. CASE Rebind(w)
  BY <1>0, <1>7 DEF Rebind, WorkRecord, Statuses
<1>8. CASE RunStarts(w)
  BY <1>0, <1>8 DEF RunStarts, WorkRecord, Statuses
<1>9. CASE Abandon(w)
  BY <1>0, <1>9 DEF Abandon, WorkRecord, Statuses
<1> QED
  BY <1>1, <1>2, <1>3, <1>4, <1>5, <1>6, <1>7, <1>8, <1>9

(* The elements of a sequence.                                             *)
LEMMA SetOfSeq == ASSUME NEW S, NEW s \in Seq(S) PROVE ToSet(s) \subseteq S
BY DEF ToSet

(* A signature read for a journal has the shape of one.                    *)
LEMMA SignatureShape ==
    ASSUME ShapeInv, NEW id \in DOMAIN ops
    PROVE  Tree \in Trees /\ Signature(id) \in Signatures
<1> USE DEF ShapeInv, TypeOK
<1>1. ops[id] \in JournalRecords
  OBVIOUS
<1>2. ToSet(ops[id].order) \subseteq Works
  BY <1>1, SetOfSeq DEF JournalRecords
<1>3. [w \in Tracked |-> file[w]] \in [Tracked -> Contents]
  BY WorkSwitchAssumption
<1>4. Tree \in Trees
  BY <1>3 DEF Tree, Trees
<1>5. [w \in ToSet(ops[id].order) |-> work[w]] \in [ToSet(ops[id].order) -> WorkRecord]
  BY <1>2
<1>6. [w \in ToSet(ops[id].order) |-> work[w]] \in Maps
  BY <1>2, <1>5 DEF Maps
<1> QED
  BY <1>4, <1>6 DEF Signature, Signatures

(* An idle process has the shape of a process.                             *)
LEMMA IdleShape == Idle \in Process /\ Idle.at = "idle" /\ Idle.left = <<>>
BY DEF Idle, NoRepair, Process, Stages, Repairs, Signatures

(* What the steps of a process change keeps its shape.                     *)
LEMMA ProcessShape ==
    ASSUME NEW r \in Process, NEW at \in Stages
    PROVE  /\ [r EXCEPT !.at = at] \in Process
           /\ \A n \in Nat : [r EXCEPT !.at = at, !.op = n] \in Process
           /\ \A n \in Nat : [r EXCEPT !.at = at, !.op = n, !.held = TRUE] \in Process
           /\ \A seq \in Seq(Works) : [r EXCEPT !.at = at, !.left = seq] \in Process
           /\ \A seq \in Seq(Works) : [r EXCEPT !.left = seq] \in Process
           /\ \A seen \in Signatures, prev \in Repairs :
                 [r EXCEPT !.at = at, !.seen = seen, !.prev = prev] \in Process
BY DEF Process

(* The invariant holds at first.                                           *)
LEMMA InitInv == Init => IInv
<1> SUFFICES ASSUME Init PROVE IInv
  OBVIOUS
<1> USE WorkSwitchAssumption DEF Init
<1>1. Absent \in WorkRecord /\ Absent.status = "none"
  BY DEF Absent, WorkRecord, Statuses
<1>2. Idle \in Process /\ Idle.at = "idle"
  BY IdleShape
<1>3. ShapeInv
  BY <1>1, <1>2 DEF ShapeInv, TypeOK
<1> QED
  BY <1>1, <1>2, <1>3 DEF IInv, SingleActive, LockInv, OpenInv, WriterInv, Open, LockAt, WriterAt

(* Leaving the repository makes one process idle and gives its lock back.  *)
LEMMA LeavesShape ==
    ASSUME ShapeInv, LockInv, NEW p \in Procs, Leaves(p)
    PROVE  /\ proc' \in [Procs -> Process] /\ lock' \in Procs \cup {Nothing}
           /\ \A q \in Procs : proc'[q] = IF q = p THEN Idle ELSE proc[q]
           /\ lock' # p /\ \A q \in Procs \ {p} : lock' = q <=> lock = q
<1> USE WorkSwitchAssumption DEF ShapeInv, TypeOK, Leaves
<1> QED
  BY IdleShape

(* Writing a journal appends one and sends its process to recover it.      *)
LEMMA JournalsShape ==
    ASSUME ShapeInv, NEW p \in Procs, NEW op \in JournalRecords, Operation(op), Journals(p, op)
    PROVE  /\ ShapeInv'
           /\ DOMAIN ops' = DOMAIN ops \cup {Len(ops) + 1}
           /\ ops'[Len(ops) + 1] = op
           /\ \A id \in DOMAIN ops : ops'[id] = ops[id] /\ id # Len(ops) + 1
           /\ proc'[p].at = "look" /\ proc'[p].op = Len(ops) + 1
           /\ \A q \in Procs \ {p} : proc'[q] = proc[q]
<1> USE WorkSwitchAssumption DEF ShapeInv, TypeOK, Journals, files
<1>1. NoRepair \in Repairs
  BY DEF NoRepair, Repairs, Signatures
<1>2. Len(ops) + 1 \in Nat
  OBVIOUS
<1> DEFINE next == [Idle EXCEPT !.at = "look", !.op = Len(ops) + 1, !.held = TRUE]
<1>7. next \in Process
  <2>1. "look" \in Stages
    BY DEF Stages
  <2> HIDE DEF ShapeInv, TypeOK, Journals
  <2> QED
    BY <1>2, <2>1, IdleShape, ProcessShape
<1>3. proc' \in [Procs -> Process] /\ proc'[p].at = "look" /\ proc'[p].op = Len(ops) + 1
  BY <1>7, IdleShape DEF Process
<1>4. ops' \in Seq(JournalRecords) /\ repairs' \in Seq(Repairs) /\ Len(repairs') = Len(ops')
      /\ DOMAIN ops' = DOMAIN ops \cup {Len(ops) + 1}
      /\ ops'[Len(ops) + 1] = op
      /\ \A id \in DOMAIN ops : ops'[id] = ops[id] /\ id # Len(ops) + 1
  BY <1>1
<1>5. DOMAIN repairs' = DOMAIN ops'
  BY <1>4
<1>6. \A id \in DOMAIN ops' : Operation(ops'[id])
  BY <1>4
<1>8. lock' = p /\ lock' \in Procs
  OBVIOUS
<1> QED
  BY <1>3, <1>4, <1>5, <1>6, <1>8

(* A step that changes no Work, file or journal keeps the invariant when   *)
(* its own process obeys it.                                               *)
LEMMA LocalStep ==
    ASSUME IInv, ShapeInv', NEW p \in Procs,
           UNCHANGED <<work, file, stale, busy, ops>>,
           \A q \in Procs \ {p} : proc'[q] = proc[q] /\ (lock' = q <=> lock = q),
           LockAt(p)', WriterAt(p)'
    PROVE  IInv'
<1>1. SingleActive'
  BY DEF IInv, SingleActive
<1>2. OpenInv'
  <2>1. \A id \in DOMAIN ops : Open(id)' <=> Open(id)
    BY DEF Open
  <2>2. ASSUME NEW id \in DOMAIN ops
        PROVE  /\ Switches(ops[id]) => Switches(ops[id])'
               /\ Amends(ops[id]) => Amends(ops[id])'
               /\ NotExecuting(ops[id]) => NotExecuting(ops[id])'
    BY DEF Switches, Amends, NotExecuting, Busy
  <2> QED
    BY <2>1, <2>2 DEF IInv, OpenInv
<1>3. LockInv'
  BY DEF IInv, LockInv, LockAt, Pending, Open
<1>4. WriterInv'
  <2>1. ASSUME NEW q \in Procs \ {p}, WriterAt(q)
        PROVE  WriterAt(q)'
    <3>1. proc'[q] = proc[q]
      OBVIOUS
    <3>2. \A left : Writes(ops[proc[q].op], left) => Writes(ops[proc[q].op], left)'
      BY <3>1 DEF Writes
    <3> QED
      BY <2>1, <3>1, <3>2 DEF WriterAt, Open
  <2> QED
    BY <2>1 DEF IInv, WriterInv
<1> QED
  BY <1>1, <1>2, <1>3, <1>4 DEF IInv

(* So does a step that changes Works or inputs while the lock is free: with*)
(* a journal open it may change no status and no execution, and bring no   *)
(* Work up to date with the project context.                               *)
LEMMA BoardStep ==
    ASSUME IInv, ShapeInv', SingleActive', Free,
           UNCHANGED <<ops, lock, proc>>,
           Pending => busy' = busy /\ \A w \in Works : work'[w].status = work[w].status,
           Pending => stale \subseteq stale'
    PROVE  IInv'
<1>1. ASSUME NEW p \in Procs PROVE proc[p].at \notin {"switch", "file", "mark", "apply"}
  BY WorkSwitchAssumption DEF IInv, LockInv, LockAt, Free
<1>2. LockInv'
  BY <1>1 DEF IInv, LockInv, LockAt
<1>3. WriterInv'
  BY <1>1 DEF IInv, WriterInv, WriterAt
<1>4. OpenInv'
  <2>1. CASE ~Pending
    BY <2>1 DEF IInv, OpenInv, Pending, Open
  <2>2. CASE Pending
    <3>1. \A id \in DOMAIN ops : Open(id)' <=> Open(id)
      BY DEF Open
    <3>2. ASSUME NEW id \in DOMAIN ops, Switches(ops[id]) PROVE Switches(ops[id])'
      BY <2>2, <3>2 DEF Switches
    <3>3. ASSUME NEW id \in DOMAIN ops, Amends(ops[id]) PROVE Amends(ops[id])'
      BY <2>2, <3>3 DEF Amends
    <3>4. ASSUME NEW id \in DOMAIN ops, NotExecuting(ops[id]) PROVE NotExecuting(ops[id])'
      BY <2>2, <3>4 DEF NotExecuting, Busy
    <3> QED
      BY <3>1, <3>2, <3>3, <3>4 DEF IInv, OpenInv
  <2> QED
    BY <2>1, <2>2
<1> QED
  BY <1>2, <1>3, <1>4 DEF IInv

(* So does writing a journal that fits the board, when none is open.       *)
LEMMA JournalsStep ==
    ASSUME IInv, NEW p \in Procs, NEW op \in JournalRecords, Operation(op), Journals(p, op),
           lock \in {Nothing, p}, ~Pending, op.status = "prepared",
           op.kind = "switch" => Switches(op),
           op.kind = "amend" => Amends(op),
           NotExecuting(op)
    PROVE  IInv'
<1> DEFINE n == Len(ops) + 1
<1>1. /\ ShapeInv'
      /\ DOMAIN ops' = DOMAIN ops \cup {n}
      /\ ops'[n] = op
      /\ \A id \in DOMAIN ops : ops'[id] = ops[id] /\ id # n
      /\ proc'[p].at = "look" /\ proc'[p].op = n
      /\ \A q \in Procs \ {p} : proc'[q] = proc[q]
  BY JournalsShape DEF IInv
<1>2. UNCHANGED <<work, file, stale, busy>> /\ lock' = p
  BY DEF Journals, files
<1> HIDE DEF n
<1>3. ASSUME NEW q \in Procs, q # p
      PROVE  proc[q].at \notin {"switch", "file", "mark", "apply"} /\ lock' # q
  BY <1>2, <1>3, WorkSwitchAssumption DEF IInv, LockInv, LockAt
<1>4. LockInv'
  <2>1. LockAt(p)'
    BY <1>1, <1>2 DEF LockAt
  <2>2. ASSUME NEW q \in Procs, q # p PROVE LockAt(q)'
    BY <1>1, <1>2, <1>3, <2>2 DEF IInv, LockInv, LockAt
  <2> QED
    BY <2>1, <2>2 DEF LockInv
<1>5. WriterInv'
  BY <1>1, <1>3 DEF WriterInv, WriterAt
<1>6. OpenInv'
  <2>1. \A id \in DOMAIN ops' : Open(id)' => id = n
    BY <1>1 DEF Pending, Open
  <2>2. (op.kind = "switch" => Switches(op)') /\ (op.kind = "amend" => Amends(op)') /\ NotExecuting(op)'
    BY <1>2 DEF Switches, Amends, NotExecuting, Busy
  <2> QED
    BY <1>1, <1>2, <2>1, <2>2 DEF IInv, OpenInv
<1>7. SingleActive'
  BY <1>2 DEF IInv, SingleActive
<1> QED
  BY <1>1, <1>4, <1>5, <1>6, <1>7 DEF IInv

(* The check every save makes keeps one Work active.                       *)
LEMMA SaveKeepsOne ==
    ASSUME ShapeInv, SingleActive, NEW w \in Works, NEW r \in WorkRecord,
           MayActivate(w, r), work' = [work EXCEPT ![w] = r]
    PROVE  SingleActive'
BY DEF ShapeInv, TypeOK, SingleActive, MayActivate, Active

(* Commands that write one Work keep the invariant.                        *)
LEMMA CommandsStep == ASSUME IInv, Commands PROVE IInv'
<1> PICK w \in Works, r \in WorkRecord :
          /\ Save(w, r)
          /\ stale' \subseteq stale /\ closed' \subseteq Works
          /\ busy' \in [Works -> Products \cup {Nothing, "other"}]
  BY CommandIsSave DEF IInv
<1>1. SingleActive'
  BY SaveKeepsOne DEF Save, IInv
<1>2. ShapeInv'
  BY DEF Save, IInv, ShapeInv, TypeOK, files, journal, Operation
<1>3. ~Pending
  BY DEF Save, Barrier
<1> QED
  BY <1>1, <1>2, <1>3, BoardStep DEF Save, journal

(* So does clearing a blocker, with the lock kept for a switch or not.     *)
LEMMA UnblockStep ==
    ASSUME IInv, NEW p \in Procs, NEW w \in Works, Unblock(p, w)
    PROVE  IInv'
<1> USE DEF Unblock, files, journal
<1>1. SingleActive'
  BY DEF IInv, ShapeInv, TypeOK, WorkRecord, SingleActive
<1>2. work' \in [Works -> WorkRecord]
  BY ZenonT(40) DEF IInv, ShapeInv, TypeOK, WorkRecord
<1>3. ~Pending /\ ~Pending'
  BY DEF Barrier, Pending, Open
<1>4. proc' \in [Procs -> Process] /\ lock' \in Procs \cup {Nothing} /\ (lock' # Nothing => proc'[lock'].at # "idle")
  <2>1. <<w>> \in Seq(Works) /\ "switch" \in Stages
    BY DEF Stages
  <2>2. [Idle EXCEPT !.at = "switch", !.left = <<w>>] \in Process
    BY <2>1, IdleShape, ProcessShape
  <2>3. [Idle EXCEPT !.at = "switch", !.left = <<w>>].at = "switch"
    BY IdleShape DEF Process
  <2>4. CASE proc' = proc /\ lock' = lock
    BY <2>4 DEF IInv, ShapeInv, TypeOK
  <2>5. CASE lock' = p /\ proc' = [proc EXCEPT ![p] = [Idle EXCEPT !.at = "switch", !.left = <<w>>]]
    BY <2>2, <2>3, <2>5 DEF IInv, ShapeInv, TypeOK
  <2> QED
    BY <2>4, <2>5
<1>5. ShapeInv'
  BY <1>2, <1>4 DEF IInv, ShapeInv, TypeOK, Operation
<1>6. OpenInv'
  BY <1>3 DEF IInv, OpenInv, Pending
<1>7. ASSUME NEW q \in Procs PROVE LockAt(q)' /\ WriterAt(q)'
  <2>1. proc[q].at \notin {"switch", "file", "mark", "apply"}
    BY WorkSwitchAssumption DEF IInv, LockInv, LockAt, Free
  <2>2. CASE proc' = proc /\ lock' = lock
    BY <1>3, <2>1, <2>2 DEF IInv, LockInv, LockAt, WriterAt
  <2>3. CASE lock' = p /\ proc' = [proc EXCEPT ![p] = [Idle EXCEPT !.at = "switch", !.left = <<w>>]]
    <3>1. proc'[p].at = "switch" /\ proc'[p].left # <<>>
      BY <2>3, IdleShape DEF IInv, ShapeInv, Process
    <3>2. q # p => proc'[q] = proc[q]
      BY <2>3 DEF IInv, ShapeInv
    <3> QED
      BY <1>3, <2>1, <2>3, <3>1, <3>2 DEF IInv, LockInv, LockAt, WriterAt
  <2> QED
    BY <2>2, <2>3
<1> QED
  BY <1>1, <1>5, <1>6, <1>7 DEF IInv, LockInv, WriterInv

(* Appending to a sequence adds one element.                               *)
LEMMA SetOfAppended ==
    ASSUME NEW S, NEW s \in Seq(S), NEW t \in S
    PROVE  s \o <<t>> \in Seq(S) /\ s \o <<t>> # <<>> /\ ToSet(s \o <<t>>) = ToSet(s) \cup {t}
<1>1. s \o <<t>> \in Seq(S) /\ s \o <<t>> # <<>>
  OBVIOUS
<1>2. DOMAIN (s \o <<t>>) = DOMAIN s \cup {Len(s) + 1}
  OBVIOUS
<1>3. (s \o <<t>>)[Len(s) + 1] = t /\ \A i \in DOMAIN s : (s \o <<t>>)[i] = s[i]
  OBVIOUS
<1> QED
  BY <1>1, <1>2, <1>3 DEF ToSet

(* The order of a switch is the Works active before it and its target.     *)
LEMMA SwitchOrder ==
    ASSUME ShapeInv, SingleActive, NEW t \in Works, work[t].status # "active"
    PROVE  LET order == SetToSeq(Active) \o <<t>> IN
           /\ order \in Seq(Works) /\ order # <<>> /\ ToSet(order) = Active \cup {t}
           /\ t \notin Active
           /\ \A s \in Active : Active = {s}
<1>1. t \notin Active /\ Active \subseteq Works /\ \A s \in Active : Active = {s}
  BY DEF Active, SingleActive
<1>2. SetToSeq(Active) \in Seq(Works) /\ ToSet(SetToSeq(Active)) = Active
  <2>1. CASE Active = {}
    <3>1. SetToSeq(Active) = <<>>
      BY <2>1, SetOfNone
    <3>2. <<>> \in Seq(Works) /\ DOMAIN <<>> = {}
      OBVIOUS
    <3>3. ToSet(SetToSeq(Active)) = {}
      BY <3>1, <3>2 DEF ToSet
    <3> QED
      BY <2>1, <3>1, <3>2, <3>3
  <2>2. ASSUME NEW s \in Active PROVE SetToSeq(Active) \in Seq(Works) /\ ToSet(SetToSeq(Active)) = Active
    <3>1. SetToSeq(Active) = <<s>>
      BY <1>1, SetOfSingle
    <3> QED
      BY <1>1, <3>1 DEF ToSet
  <2> QED
    BY <2>1, <2>2
<1> QED
  BY <1>1, <1>2, SetOfAppended

(* A switch that is allowed writes a journal that fits the board.          *)
LEMMA SwitchJournalFits ==
    ASSUME IInv, NEW t \in Works, MaySwitch(t)
    PROVE  LET op == SwitchJournal(t) IN
           /\ op \in JournalRecords /\ Operation(op) /\ op.kind = "switch" /\ op.status = "prepared"
           /\ Switches(op) /\ NotExecuting(op)
<1> DEFINE order == SetToSeq(Active) \o <<t>>
           op == SwitchJournal(t)
           after(w) == [Outrun(work[w]) EXCEPT !.status = IF w = t THEN "active" ELSE "suspended"]
<1>1. work[t].status \in {"todo", "suspended"} /\ work[t].status # "active"
  BY DEF MaySwitch
<1>2. /\ order \in Seq(Works) /\ order # <<>> /\ ToSet(order) = Active \cup {t}
      /\ t \notin Active /\ \A s \in Active : Active = {s}
  BY <1>1, SwitchOrder DEF IInv
<1>3. \A w \in Works : /\ after(w) \in WorkRecord
                       /\ after(w).status = IF w = t THEN "active" ELSE "suspended"
  BY ZenonT(40) DEF IInv, ShapeInv, TypeOK, Outrun, WorkRecord, Statuses
<1> HIDE DEF order, after
<1>4. /\ op.kind = "switch" /\ op.status = "prepared" /\ op.order = order /\ op.cfg = cfg
      /\ op.before = [w \in ToSet(order) |-> work[w]]
      /\ op.after = [w \in ToSet(order) |-> after(w)]
      /\ op.old = Nothing /\ op.new = Nothing /\ op.tree \in {Nothing, Tree}
  BY DEF SwitchJournal, order, after
<1>5. ToSet(order) \subseteq Works
  BY <1>2 DEF Active
<1>6. op.before \in [ToSet(order) -> WorkRecord] /\ op.after \in [ToSet(order) -> WorkRecord]
  BY <1>3, <1>4, <1>5 DEF IInv, ShapeInv, TypeOK
<1>7. op.before \in Maps /\ op.after \in Maps
  BY <1>5, <1>6 DEF Maps
<1>8. Tree \in Trees
  <2>1. [w \in Tracked |-> file[w]] \in [Tracked -> Contents]
    BY WorkSwitchAssumption DEF IInv, ShapeInv, TypeOK
  <2> QED
    BY <2>1 DEF Tree, Trees, IInv, ShapeInv, TypeOK
<1>9. op \in JournalRecords
  BY <1>2, <1>4, <1>7, <1>8 DEF SwitchJournal, JournalRecords, Trees, IInv, ShapeInv, TypeOK, order
<1>10. Operation(op)
  BY <1>2, <1>4, <1>6 DEF Operation
<1>11. Switches(op)
  <2>1. op.before[t].status \in {"todo", "suspended"} /\ op.after[t].status = "active" /\ t \in ToSet(op.order)
    BY <1>1, <1>2, <1>3, <1>4
  <2>2. ASSUME NEW s \in ToSet(op.order) \ {t}
        PROVE  /\ op.before[s].status = "active" /\ op.after[s].status = "suspended"
               /\ ToSet(op.order) = {s, t}
    BY <1>2, <1>3, <1>4, <1>5 DEF Active
  <2>3. \A w \in Works \ ToSet(op.order) : work[w].status # "active"
    BY <1>2, <1>4 DEF Active
  <2> QED
    BY <2>1, <2>2, <2>3 DEF Switches
<1>12. NotExecuting(op)
  <2>1. \A s \in Active : s \notin Busy \/ s \in stale
    BY DEF MaySwitch, SourceUnresolved
  <2> QED
    BY <1>2, <1>4, <1>5, <2>1 DEF NotExecuting, Active
<1> QED
  BY <1>4, <1>9, <1>10, <1>11, <1>12

(* The switch command keeps the invariant.                                 *)
LEMMA SwitchStep ==
    ASSUME IInv, NEW p \in Procs, NEW t \in Works, Switch(p, t) PROVE IInv'
BY SwitchJournalFits, JournalsStep DEF Switch, Free, Barrier, SwitchJournal

(* A process that changes nothing but itself and leaves keeps it.          *)
LEMMA LeavingStep ==
    ASSUME IInv, NEW p \in Procs, Leaves(p), UNCHANGED <<work, file, stale, busy, ops>>,
           repairs' \in Seq(Repairs), Len(repairs') = Len(ops), DOMAIN repairs' = DOMAIN ops,
           product' \in Products, cfg' \in Products, closed' \subseteq Works
    PROVE  IInv'
<1>1. /\ proc' \in [Procs -> Process] /\ lock' \in Procs \cup {Nothing}
      /\ \A q \in Procs : proc'[q] = IF q = p THEN Idle ELSE proc[q]
      /\ lock' # p /\ \A q \in Procs \ {p} : lock' = q <=> lock = q
  BY LeavesShape DEF IInv
<1>2. lock' # Nothing => proc'[lock'].at # "idle"
  BY <1>1 DEF IInv, LockInv, LockAt
<1>3. ShapeInv'
  BY <1>1, <1>2 DEF IInv, ShapeInv, TypeOK, Operation
<1>4. LockAt(p)' /\ WriterAt(p)'
  BY <1>1, IdleShape DEF LockAt, WriterAt
<1> QED
  BY <1>1, <1>3, <1>4, LocalStep

(* The switch inside unblock and resume keeps it, refused or not.          *)
LEMMA SwitchInsideStep == ASSUME IInv, NEW p \in Procs, SwitchInside(p) PROVE IInv'
<1> DEFINE t == Head(proc[p].left)
<1>1. t \in Works /\ lock = p /\ ~Pending
  <2>1. proc[p].left \in Seq(Works) /\ proc[p].left # <<>>
    BY DEF SwitchInside, IInv, ShapeInv, Process, LockInv, LockAt
  <2> QED
    BY <2>1 DEF SwitchInside, IInv, LockInv, LockAt
<1>2. CASE MaySwitch(t) /\ Journals(p, SwitchJournal(t))
  BY <1>1, <1>2, SwitchJournalFits, JournalsStep DEF SwitchJournal
<1>3. CASE Leaves(p) /\ UNCHANGED <<work, files, stale, busy, journal, edits, crashes, closed>>
  BY <1>3, LeavingStep DEF IInv, ShapeInv, TypeOK, files, journal
<1> QED
  BY <1>2, <1>3 DEF SwitchInside

(* An amendment keeps it.                                                  *)
LEMMA AmendStep ==
    ASSUME IInv, NEW p \in Procs, NEW w \in Works, NEW c \in Contents, Amend(p, w, c)
    PROVE  IInv'
<1> DEFINE after(v) == [work[v] EXCEPT !.req = c, !.earned = Nothing]
           op == [kind |-> "amend", status |-> "prepared", order |-> <<w>>,
                  before |-> [v \in {w} |-> work[v]], after |-> [v \in {w} |-> after(v)],
                  tree |-> Nothing, cfg |-> Nothing, old |-> file[w], new |-> c]
<1>1. work[w] \in WorkRecord /\ after(w) \in WorkRecord /\ after(w).status = work[w].status /\ file[w] \in Contents
  BY DEF IInv, ShapeInv, TypeOK, WorkRecord
<1> HIDE DEF after
<1>2. op.before \in [{w} -> WorkRecord] /\ op.after \in [{w} -> WorkRecord]
      /\ op.before[w] = work[w] /\ op.after[w] = after(w)
  BY <1>1
<1>3. op.order \in Seq(Works) /\ op.order # <<>> /\ Head(op.order) = w /\ ToSet(op.order) = {w}
  BY DEF ToSet
<1>4. /\ op.kind = "amend" /\ op.status = "prepared" /\ op.order = <<w>> /\ op.tree = Nothing
      /\ op.cfg = Nothing /\ op.old = file[w] /\ op.new = c
  OBVIOUS
<1>5. op.before \in Maps /\ op.after \in Maps
  BY <1>2 DEF Maps
<1>6. op \in JournalRecords
  BY <1>1, <1>3, <1>4, <1>5 DEF JournalRecords, Trees
<1>7. Operation(op)
  BY <1>1, <1>2, <1>3, <1>4 DEF Operation
<1>8. Amends(op)
  BY <1>1, <1>2, <1>3, <1>4 DEF Amends, IInv, SingleActive
<1>9. NotExecuting(op)
  BY <1>1, <1>2, <1>3 DEF NotExecuting
<1>10. Journals(p, op)
  BY DEF Amend, after
<1> HIDE DEF op
<1> QED
  BY <1>4, <1>6, <1>7, <1>8, <1>9, <1>10, JournalsStep DEF Amend, Free, Barrier

(* Reading the journal and its inputs without the lock keeps it.           *)
LEMMA LookStep == ASSUME IInv, NEW p \in Procs, Look(p) PROVE IInv'
<1> DEFINE id == proc[p].op
<1>1. id \in DOMAIN ops /\ id \in DOMAIN repairs /\ proc[p] \in Process
  BY DEF Look, IInv, ShapeInv, TypeOK, LockInv, LockAt, Stages
<1>2. CASE Leaves(p)
  BY <1>2, LeavingStep DEF Look, IInv, ShapeInv, TypeOK, files, journal
<1>3. CASE /\ proc' = [proc EXCEPT ![p].at = "enter", ![p].seen = Signature(id), ![p].prev = repairs[id]]
           /\ UNCHANGED lock
  <2>1. Signature(id) \in Signatures /\ repairs[id] \in Repairs
    BY <1>1, SignatureShape DEF IInv, ShapeInv
  <2>2. proc' = [proc EXCEPT ![p] = [proc[p] EXCEPT !.at = "enter", !.seen = Signature(id), !.prev = repairs[id]]]
    BY <1>1, <1>3 DEF IInv, ShapeInv
  <2>3. [proc[p] EXCEPT !.at = "enter", !.seen = Signature(id), !.prev = repairs[id]] \in Process
    BY <1>1, <2>1, ProcessShape DEF Stages
  <2>4. proc' \in [Procs -> Process] /\ proc'[p].at = "enter" /\ proc'[p].op = id
        /\ \A q \in Procs \ {p} : proc'[q] = proc[q]
    BY <1>1, <2>2, <2>3 DEF IInv, ShapeInv, Process
  <2>5. ShapeInv'
    BY <1>3, <2>4 DEF Look, IInv, ShapeInv, TypeOK, files, journal, Operation
  <2>6. LockAt(p)' /\ WriterAt(p)'
    BY <1>1, <1>3, <2>4 DEF Look, journal, LockAt, WriterAt
  <2> QED
    BY <1>3, <2>4, <2>5, <2>6, LocalStep DEF Look, files, journal
<1> QED
  BY <1>2, <1>3 DEF Look

(* Starting a recovery keeps it.                                           *)
LEMMA RecoverCommandStep ==
    ASSUME IInv, NEW p \in Procs, NEW id \in DOMAIN ops, RecoverCommand(p, id)
    PROVE  IInv'
<1> USE DEF RecoverCommand, files, journal
<1>1. id \in Nat /\ "look" \in Stages
  BY DEF IInv, ShapeInv, Stages
<1>2. [Idle EXCEPT !.at = "look", !.op = id] \in Process
  BY <1>1, IdleShape, ProcessShape
<1>3. proc' \in [Procs -> Process] /\ proc'[p].at = "look" /\ proc'[p].op = id
      /\ \A q \in Procs \ {p} : proc'[q] = proc[q]
  BY <1>2, IdleShape DEF IInv, ShapeInv, Process
<1>4. ShapeInv'
  BY <1>3 DEF IInv, ShapeInv, TypeOK, Operation
<1>5. LockAt(p)' /\ WriterAt(p)'
  BY <1>3 DEF LockAt, WriterAt
<1> QED
  BY <1>3, <1>4, <1>5, LocalStep

(* Going to another stage changes nothing else of a process.               *)
LEMMA GoesShape ==
    ASSUME ShapeInv, NEW p \in Procs, NEW at \in Stages, proc' = [proc EXCEPT ![p].at = at]
    PROVE  /\ proc' \in [Procs -> Process] /\ proc'[p].at = at
           /\ proc'[p].op = proc[p].op /\ proc'[p].left = proc[p].left
           /\ \A q \in Procs \ {p} : proc'[q] = proc[q]
<1>1. proc[p] \in Process /\ proc' = [proc EXCEPT ![p] = [proc[p] EXCEPT !.at = at]]
  BY DEF ShapeInv
<1>2. [proc[p] EXCEPT !.at = at] \in Process
  BY <1>1, ProcessShape
<1> QED
  BY <1>1, <1>2 DEF ShapeInv, Process

(* Validating under the lock keeps it: what passes is what a writer relies *)
(* on.                                                                     *)
LEMMA EnterStep == ASSUME IInv, NEW p \in Procs, Enter(p) PROVE IInv'
<1> DEFINE id == proc[p].op
           at == IF ops[id].kind = "amend" THEN "file" ELSE "mark"
<1> USE DEF Enter, files, journal
<1>1. id \in DOMAIN ops /\ id \in DOMAIN repairs /\ proc[p] \in Process /\ ops[id] \in JournalRecords
  BY DEF IInv, ShapeInv, TypeOK, LockInv, LockAt, Stages
<1>2. CASE Leaves(p)
  BY <1>2, LeavingStep DEF IInv, ShapeInv, TypeOK
<1>3. CASE /\ ops[id].status # "committed" /\ Recoverable(id)
           /\ proc' = [proc EXCEPT ![p].at = at] /\ lock' = p
  <2>1. at \in Stages /\ at \in {"file", "mark"}
    BY DEF Stages
  <2>2. proc' \in [Procs -> Process] /\ proc'[p].at = at /\ proc'[p].op = id
        /\ \A q \in Procs \ {p} : proc'[q] = proc[q]
    BY <1>3, <2>1, GoesShape DEF IInv
  <2>3. ShapeInv'
    BY <1>3, <2>1, <2>2 DEF IInv, ShapeInv, TypeOK, Operation
  <2>4. LockAt(p)'
    BY <1>1, <1>3, <2>1, <2>2 DEF LockAt
  <2>5. WriterAt(p)'
    BY <1>1, <1>3, <2>1, <2>2 DEF WriterAt, Recoverable, Open, JournalRecords
  <2>6. \A q \in Procs \ {p} : lock' = q <=> lock = q
    BY <1>3, WorkSwitchAssumption
  <2> HIDE DEF at
  <2> QED
    BY <2>2, <2>3, <2>4, <2>5, <2>6, LocalStep
<1>4. CASE proc' = [proc EXCEPT ![p].at = "note"] /\ UNCHANGED lock
  <2>1. "note" \in Stages
    BY DEF Stages
  <2>2. proc' \in [Procs -> Process] /\ proc'[p].at = "note" /\ proc'[p].op = id
        /\ \A q \in Procs \ {p} : proc'[q] = proc[q]
    BY <1>4, <2>1, GoesShape DEF IInv
  <2>3. ShapeInv'
    BY <1>4, <2>2 DEF IInv, ShapeInv, TypeOK, Operation
  <2>4. LockAt(p)' /\ WriterAt(p)'
    BY <1>1, <1>4, <2>2 DEF LockAt, WriterAt
  <2> QED
    BY <1>4, <2>2, <2>3, <2>4, LocalStep
<1> QED
  BY <1>2, <1>3, <1>4

(* Recording a failed recovery keeps it.                                   *)
LEMMA NoteStep == ASSUME IInv, NEW p \in Procs, Note(p) PROVE IInv'
<1> DEFINE n == Counted(proc[p].prev, proc[p].seen)
<1> USE DEF Note, files
<1>1. proc[p].op \in DOMAIN repairs /\ proc[p] \in Process
  BY DEF IInv, ShapeInv, TypeOK, LockInv, LockAt, Stages
<1>2. n \in Repairs
  <2>1. proc[p].prev \in Repairs /\ proc[p].seen \in Signatures
    BY <1>1 DEF Process
  <2> QED
    BY <2>1 DEF Counted, Repairs
<1> HIDE DEF n
<1>3. repairs' \in Seq(Repairs) /\ Len(repairs') = Len(ops) /\ DOMAIN repairs' = DOMAIN ops
  BY <1>1, <1>2 DEF IInv, ShapeInv, TypeOK, n
<1> QED
  BY <1>3, LeavingStep DEF IInv, ShapeInv, TypeOK

(* A process that dies keeps it, wherever it was.                          *)
LEMMA CrashStep == ASSUME IInv, NEW p \in Procs, Crash(p) PROVE IInv'
BY LeavingStep DEF Crash, files, journal, IInv, ShapeInv, TypeOK

(* A step of the process that holds the lock keeps it when its own part    *)
(* does: nobody else is writing.                                           *)
LEMMA HolderStep ==
    ASSUME IInv, ShapeInv', SingleActive', OpenInv', NEW p \in Procs, lock = p,
           lock' \in {p, Nothing}, DOMAIN ops' = DOMAIN ops,
           \A q \in Procs \ {p} : proc'[q] = proc[q],
           LockAt(p)', WriterAt(p)'
    PROVE  IInv'
<1>1. ASSUME NEW q \in Procs, q # p PROVE LockAt(q)' /\ WriterAt(q)'
  BY <1>1, WorkSwitchAssumption DEF IInv, LockInv, LockAt, WriterAt
<1> QED
  BY <1>1 DEF IInv, LockInv, WriterInv

(* A new status changes nothing else of a journal.                         *)
LEMMA StatusChange ==
    ASSUME ShapeInv, NEW id \in DOMAIN ops,
           NEW st \in {"prepared", "applying", "committed", "aborted"},
           ops' = [ops EXCEPT ![id].status = st]
    PROVE  /\ ops' \in Seq(JournalRecords) /\ DOMAIN ops' = DOMAIN ops /\ Len(ops') = Len(ops)
           /\ \A j \in DOMAIN ops : /\ ops'[j] = [ops[j] EXCEPT !.status = IF j = id THEN st ELSE @]
                                    /\ Operation(ops'[j])
<1>1. \A j \in DOMAIN ops : ops[j] \in JournalRecords /\ Operation(ops[j])
  BY DEF ShapeInv, TypeOK
<1>2. \A j \in DOMAIN ops : ops'[j] = [ops[j] EXCEPT !.status = IF j = id THEN st ELSE @]
  BY <1>1 DEF ShapeInv, JournalRecords
<1>3. \A j \in DOMAIN ops : Operation(ops'[j]) /\ ops'[j] \in JournalRecords
  BY <1>1, <1>2, ZenonT(40) DEF JournalRecords, Operation
<1>4. DOMAIN ops' = DOMAIN ops /\ Len(ops') = Len(ops)
  BY DEF ShapeInv
<1>5. ops' \in Seq(JournalRecords)
  BY <1>3, <1>4 DEF ShapeInv
<1> QED
  BY <1>2, <1>3, <1>4, <1>5

(* A status that opens no journal keeps what open ones say.                *)
LEMMA StatusKeepsOpenInv ==
    ASSUME IInv, NEW id \in DOMAIN ops, Open(id),
           NEW st \in {"applying", "committed", "aborted"},
           ops' = [ops EXCEPT ![id].status = st], UNCHANGED <<work, stale, busy>>
    PROVE  OpenInv' /\ SingleActive'
<1>1. /\ DOMAIN ops' = DOMAIN ops
      /\ \A j \in DOMAIN ops : /\ ops[j] \in JournalRecords
                               /\ ops'[j] = [ops[j] EXCEPT !.status = IF j = id THEN st ELSE @]
  <2>1. st \in {"prepared", "applying", "committed", "aborted"} /\ ShapeInv
    BY DEF IInv
  <2>2. \A j \in DOMAIN ops : ops[j] \in JournalRecords
    BY <2>1 DEF ShapeInv
  <2> QED
    BY <2>1, <2>2, StatusChange
<1>2. \A j \in DOMAIN ops : Open(j)' => Open(j)
  BY <1>1 DEF Open, JournalRecords
<1>3. \A j \in DOMAIN ops : /\ ops'[j].kind = ops[j].kind /\ ops'[j].order = ops[j].order
                           /\ ops'[j].before = ops[j].before /\ ops'[j].after = ops[j].after
                           /\ ops'[j].old = ops[j].old /\ ops'[j].new = ops[j].new
  BY <1>1 DEF JournalRecords
<1>4. ASSUME NEW j \in DOMAIN ops
      PROVE  /\ Switches(ops[j]) => Switches(ops[j])'
             /\ Amends(ops[j]) => Amends(ops[j])'
             /\ NotExecuting(ops[j]) => NotExecuting(ops[j])'
  <2>1. Switches(ops[j]) => Switches(ops[j])'
    BY <1>3 DEF Switches
  <2>2. Amends(ops[j]) => Amends(ops[j])'
    BY <1>3 DEF Amends
  <2>3. NotExecuting(ops[j]) => NotExecuting(ops[j])'
    BY <1>3 DEF NotExecuting, Busy
  <2> QED
    BY <2>1, <2>2, <2>3
<1> QED
  BY <1>1, <1>2, <1>3, <1>4 DEF IInv, OpenInv, SingleActive

(* Replacing the requirement file keeps it.                                *)
LEMMA PutFileStep == ASSUME IInv, NEW p \in Procs, PutFile(p) PROVE IInv'
<1> DEFINE id == proc[p].op
<1> USE DEF PutFile, Goes, journal
<1>1. /\ id \in DOMAIN ops /\ ops[id] \in JournalRecords /\ Operation(ops[id])
      /\ lock = p /\ Open(id) /\ ops[id].kind = "amend" /\ Amends(ops[id])
  BY DEF IInv, ShapeInv, TypeOK, LockInv, LockAt, WriterInv, WriterAt, Stages, OpenInv
<1>2. Head(ops[id].order) \in Works /\ ops[id].new \in Contents
  BY <1>1, HeadAndTail DEF Operation, Amends
<1>3. proc' \in [Procs -> Process] /\ proc'[p].at = "mark" /\ proc'[p].op = id
      /\ \A q \in Procs \ {p} : proc'[q] = proc[q]
  BY GoesShape DEF IInv, Stages
<1>4. file' \in [Works -> Contents] /\ file'[Head(ops[id].order)] = ops[id].new
  BY <1>2 DEF IInv, ShapeInv, TypeOK
<1>5. ShapeInv'
  BY <1>1, <1>3, <1>4 DEF IInv, ShapeInv, TypeOK, Operation
<1>6. SingleActive'
  BY DEF IInv, SingleActive
<1>7. OpenInv'
  <2>1. \A j \in DOMAIN ops : Open(j)' <=> Open(j)
    BY DEF Open
  <2>2. ASSUME NEW j \in DOMAIN ops
        PROVE  /\ Switches(ops[j]) => Switches(ops[j])'
               /\ Amends(ops[j]) => Amends(ops[j])'
               /\ NotExecuting(ops[j]) => NotExecuting(ops[j])'
    BY DEF Switches, Amends, NotExecuting, Busy
  <2> QED
    BY <2>1, <2>2 DEF IInv, OpenInv
<1>8. LockAt(p)'
  BY <1>1, <1>3 DEF LockAt
<1>9. WriterAt(p)'
  BY <1>1, <1>3, <1>4 DEF IInv, WriterInv, WriterAt, Open
<1> QED
  BY <1>1, <1>3, <1>5, <1>6, <1>7, <1>8, <1>9, HolderStep

(* Marking the journal as being applied keeps it.                          *)
LEMMA MarkStep == ASSUME IInv, NEW p \in Procs, Mark(p) PROVE IInv'
<1> DEFINE id == proc[p].op
<1> USE DEF Mark, files
<1>1. /\ id \in DOMAIN ops /\ ops[id] \in JournalRecords /\ Operation(ops[id])
      /\ lock = p /\ Open(id) /\ proc[p] \in Process
  BY DEF IInv, ShapeInv, TypeOK, LockInv, LockAt, WriterInv, WriterAt, Stages
<1>2. /\ ops' \in Seq(JournalRecords) /\ DOMAIN ops' = DOMAIN ops /\ Len(ops') = Len(ops)
      /\ \A j \in DOMAIN ops : /\ ops'[j] = [ops[j] EXCEPT !.status = IF j = id THEN "applying" ELSE @]
                               /\ Operation(ops'[j])
  BY <1>1, StatusChange DEF IInv
<1>3. /\ ops'[id].status = "applying" /\ ops'[id].order = ops[id].order /\ ops'[id].kind = ops[id].kind
      /\ ops'[id].before = ops[id].before /\ ops'[id].after = ops[id].after
      /\ ops'[id].new = ops[id].new
  BY <1>1, <1>2 DEF JournalRecords
<1>4. proc' \in [Procs -> Process] /\ proc'[p].at = "apply" /\ proc'[p].op = id /\ proc'[p].left = ops[id].order
      /\ \A q \in Procs \ {p} : proc'[q] = proc[q]
  <2>1. proc' = [proc EXCEPT ![p] = [proc[p] EXCEPT !.at = "apply", !.left = ops[id].order]]
    BY <1>1 DEF IInv, ShapeInv
  <2>2. [proc[p] EXCEPT !.at = "apply", !.left = ops[id].order] \in Process
    BY <1>1, ProcessShape DEF Operation, Stages
  <2> QED
    BY <1>1, <2>1, <2>2 DEF IInv, ShapeInv, Process
<1>5. ShapeInv'
  BY <1>1, <1>2, <1>4 DEF IInv, ShapeInv, TypeOK
<1>6. OpenInv' /\ SingleActive'
  BY <1>1, StatusKeepsOpenInv
<1>7. LockAt(p)'
  BY <1>1, <1>2, <1>4 DEF LockAt
<1>8. WriterAt(p)'
  <2>1. /\ \A w \in ToSet(ops[id].order) : work[w] \in {ops[id].before[w], ops[id].after[w]}
        /\ ops[id].kind = "amend" => file[Head(ops[id].order)] = ops[id].new
    BY DEF IInv, WriterInv, WriterAt
  <2>2. UNCHANGED <<work, file>>
    OBVIOUS
  <2>3. ToSet(proc'[p].left) = ToSet(ops'[id].order)
    BY <1>3, <1>4
  <2> HIDE DEF Mark
  <2>4. Writes(ops[id], proc[p].left)'
    BY <1>3, <1>4, <2>2, <2>3 DEF Writes
  <2> QED
    BY <1>3, <1>4, <2>1, <2>2, <2>4 DEF WriterAt, Open
<1> QED
  BY <1>1, <1>2, <1>4, <1>5, <1>6, <1>7, <1>8, HolderStep

(* Committing keeps it.                                                    *)
LEMMA CommitStep == ASSUME IInv, NEW p \in Procs, Commit(p) PROVE IInv'
<1> DEFINE id == proc[p].op
<1> USE DEF Commit, files
<1>1. id \in DOMAIN ops /\ lock = p /\ Open(id)
  BY DEF IInv, LockInv, LockAt, WriterInv, WriterAt, Stages
<1>2. /\ ops' \in Seq(JournalRecords) /\ DOMAIN ops' = DOMAIN ops /\ Len(ops') = Len(ops)
      /\ \A j \in DOMAIN ops : Operation(ops'[j])
  BY <1>1, StatusChange DEF IInv
<1>3. /\ proc' \in [Procs -> Process] /\ lock' \in {p, Nothing}
      /\ proc'[p].at = "idle" /\ lock' # p
      /\ \A q \in Procs \ {p} : proc'[q] = proc[q]
  BY <1>1, LeavesShape, IdleShape, WorkSwitchAssumption DEF IInv, Leaves
<1>4. ShapeInv'
  BY <1>1, <1>2, <1>3 DEF IInv, ShapeInv, TypeOK
<1>5. OpenInv' /\ SingleActive'
  BY <1>1, StatusKeepsOpenInv
<1>6. LockAt(p)' /\ WriterAt(p)'
  BY <1>3 DEF LockAt, WriterAt
<1> QED
  BY <1>1, <1>2, <1>3, <1>4, <1>5, <1>6, HolderStep

(* Applying the next Work of the journal keeps it, skipped or refused.     *)
LEMMA ApplyStep == ASSUME IInv, NEW p \in Procs, Apply(p) PROVE IInv'
<1> DEFINE id == proc[p].op
           w == Head(proc[p].left)
           r == ops[id].after[w]
<1> USE DEF Apply, files, journal
<1>1. /\ id \in DOMAIN ops /\ ops[id] \in JournalRecords /\ Operation(ops[id])
      /\ lock = p /\ Open(id) /\ proc[p] \in Process
  <2>1. LockAt(p) /\ WriterAt(p) /\ proc[p].at = "apply"
    BY DEF IInv, LockInv, WriterInv
  <2>2. id \in DOMAIN ops /\ lock = p /\ Open(id)
    BY <2>1 DEF LockAt, WriterAt, Stages
  <2>3. ops[id] \in JournalRecords /\ Operation(ops[id])
    BY <2>2 DEF IInv, ShapeInv, TypeOK
  <2>4. proc[p] \in Process
    BY DEF IInv, ShapeInv
  <2> QED
    BY <2>2, <2>3, <2>4
<1>2. /\ ToSet(proc[p].left) \subseteq ToSet(ops[id].order)
      /\ \A v \in ToSet(ops[id].order) : work[v] \in {ops[id].before[v], ops[id].after[v]}
      /\ \A v \in ToSet(ops[id].order) \ ToSet(proc[p].left) : work[v] = ops[id].after[v]
      /\ ops[id].status = "applying"
      /\ ops[id].kind = "amend" => file[Head(ops[id].order)] = ops[id].new
  BY DEF IInv, WriterInv, WriterAt, Writes
<1>3. /\ proc[p].left \in Seq(Works) /\ Tail(proc[p].left) \in Seq(Works)
      /\ w \in ToSet(ops[id].order) /\ w \in Works
      /\ ToSet(Tail(proc[p].left)) \subseteq ToSet(proc[p].left)
      /\ ToSet(proc[p].left) \subseteq ToSet(Tail(proc[p].left)) \cup {w}
  <2>1. proc[p].left \in Seq(Works) /\ proc[p].left # <<>>
    BY <1>1 DEF Process
  <2> QED
    BY <1>2, <2>1, HeadAndTail
<1>4. r \in WorkRecord
  BY <1>1, <1>3 DEF Operation
<1>5. CASE Leaves(p) /\ UNCHANGED <<work, stale>>
  BY <1>5, LeavingStep DEF IInv, ShapeInv, TypeOK
<1>6. CASE /\ work[w] = r \/ MayActivate(w, r)
           /\ work' = [work EXCEPT ![w] = r]
           /\ stale' = IF work[w].status = "todo" THEN stale \ {w} ELSE stale
           /\ proc' = [proc EXCEPT ![p].left = Tail(@)]
           /\ UNCHANGED lock
  <2>1. /\ work' \in [Works -> WorkRecord] /\ work'[w] = r
        /\ \A v \in Works \ {w} : work'[v] = work[v]
    BY <1>3, <1>4, <1>6 DEF IInv, ShapeInv, TypeOK
  <2>2. SingleActive'
    <3>1. CASE work[w] = r
      BY <1>3, <1>6, <2>1, <3>1, ZenonT(40) DEF IInv, SingleActive
    <3>2. CASE MayActivate(w, r)
      BY <1>3, <1>4, <1>6, <3>2, SaveKeepsOne DEF IInv
    <3> QED
      BY <1>6, <3>1, <3>2
  <2>3. /\ proc' \in [Procs -> Process] /\ proc'[p].at = "apply" /\ proc'[p].op = id
        /\ proc'[p].left = Tail(proc[p].left)
        /\ \A q \in Procs \ {p} : proc'[q] = proc[q]
    <3>1. proc' = [proc EXCEPT ![p] = [proc[p] EXCEPT !.left = Tail(proc[p].left)]]
      BY <1>1, <1>6 DEF IInv, ShapeInv
    <3>2. [proc[p] EXCEPT !.left = Tail(proc[p].left)] \in Process
      BY <1>1, <1>3, ProcessShape DEF Stages
    <3> QED
      BY <1>1, <3>1, <3>2 DEF IInv, ShapeInv, Process
  <2>4. ShapeInv'
    BY <1>1, <1>6, <2>1, <2>3 DEF IInv, ShapeInv, TypeOK, Operation
  <2>5. OpenInv'
    <3>0. UNCHANGED <<ops, busy>>
      OBVIOUS
    <3>1. \A j \in DOMAIN ops : (Open(j)' <=> Open(j)) /\ (Open(j) => j = id)
      BY <1>1 DEF Open, IInv, OpenInv
    <3>2. ASSUME NEW j \in DOMAIN ops, Open(j)
          PROVE  /\ Switches(ops[j]) => Switches(ops[j])'
                 /\ Amends(ops[j]) => Amends(ops[j])'
                 /\ NotExecuting(ops[j]) => NotExecuting(ops[j])'
      <4>0. w \in ToSet(ops[j].order)
        BY <1>3, <3>1, <3>2
      <4> HIDE DEF w, r, Apply
      <4>1. Switches(ops[j]) => Switches(ops[j])'
        BY <4>0, <2>1, <3>0 DEF Switches
      <4>2. Amends(ops[j]) => Amends(ops[j])'
        BY <4>0, <2>1, <3>0 DEF Amends
      <4>3. NotExecuting(ops[j]) => NotExecuting(ops[j])'
        <5>1. \A v \in ToSet(ops[j].order) :
                  ops[j].before[v].status = "active" /\ ops[j].after[v].status = "suspended" =>
                      (v \in stale => v \in stale')
          BY <1>2, <1>6, <3>1, <3>2
        <5> QED
          BY <3>0, <5>1 DEF NotExecuting, Busy
      <4> QED
        BY <4>1, <4>2, <4>3
    <3> QED
      BY <1>1, <3>0, <3>1, <3>2 DEF IInv, OpenInv
  <2>6. LockAt(p)'
    BY <1>1, <1>6, <2>3 DEF LockAt
  <2>7. WriterAt(p)'
    <3>1. \A v \in ToSet(ops[id].order) : v \in Works
      BY <1>1, SetOfSeq DEF Operation
    <3> QED
      BY <1>1, <1>2, <1>3, <2>1, <2>3, <3>1 DEF WriterAt, Writes, Open
  <2> QED
    BY <1>1, <1>6, <2>2, <2>3, <2>4, <2>5, <2>6, <2>7, HolderStep
<1> QED
  BY <1>5, <1>6

(* Aborting keeps it.                                                      *)
LEMMA AbortStep == ASSUME IInv, NEW id \in DOMAIN ops, Abort(id) PROVE IInv'
<1> USE DEF Abort, files
<1>1. Open(id)
  BY DEF Abortable, Open
<1>2. /\ ops' \in Seq(JournalRecords) /\ DOMAIN ops' = DOMAIN ops /\ Len(ops') = Len(ops)
      /\ \A j \in DOMAIN ops : Operation(ops'[j])
  BY StatusChange DEF IInv
<1>3. ShapeInv'
  BY <1>2 DEF IInv, ShapeInv, TypeOK
<1>4. OpenInv' /\ SingleActive'
  BY <1>1, StatusKeepsOpenInv
<1>5. ASSUME NEW p \in Procs PROVE proc[p].at \notin {"switch", "file", "mark", "apply"}
  BY WorkSwitchAssumption DEF IInv, LockInv, LockAt, Free
<1>6. LockInv'
  BY <1>2, <1>5 DEF IInv, LockInv, LockAt
<1>7. WriterInv'
  BY <1>5 DEF WriterInv, WriterAt
<1> QED
  BY <1>3, <1>4, <1>6, <1>7 DEF IInv

(* Putting the inspected inputs back keeps it.                             *)
LEMMA RestoreStep == ASSUME IInv, NEW id \in DOMAIN ops, Restore(id) PROVE IInv'
<1> DEFINE op == ops[id]
<1> USE DEF Restore, journal
<1>1. op \in JournalRecords /\ Operation(op) /\ Open(id)
  BY DEF IInv, ShapeInv, TypeOK
<1>2. /\ work' \in [Works -> WorkRecord]
      /\ \A w \in Works : work'[w].status = work[w].status
  BY DEF IInv, ShapeInv, TypeOK, WorkRecord
<1>3. cfg' \in Products
  BY <1>1 DEF JournalRecords, IInv, ShapeInv, TypeOK
<1>4. op.tree # Nothing => op.tree.product \in Products /\ op.tree.docs \in [Tracked -> Contents]
  BY <1>1 DEF JournalRecords, Trees
<1>5. product' \in Products
  BY <1>4 DEF IInv, ShapeInv, TypeOK
<1>6. op.kind = "amend" => op.old \in Contents
  BY <1>1 DEF IInv, OpenInv, Amends
<1>7. file' \in [Works -> Contents]
  BY <1>4, <1>6, WorkSwitchAssumption DEF IInv, ShapeInv, TypeOK
<1>8. ShapeInv'
  BY <1>2, <1>3, <1>5, <1>7 DEF IInv, ShapeInv, TypeOK, Operation
<1>9. SingleActive'
  BY <1>2 DEF IInv, SingleActive
<1> QED
  BY <1>2, <1>8, <1>9, BoardStep DEF IInv, OpenInv

(* Edits, context changes and crashes keep it.                             *)
LEMMA OutsideStep == ASSUME IInv, Outside PROVE IInv'
<1> USE DEF Edits, files, journal
<1>1. ASSUME NEW p \in Procs, Crash(p) PROVE IInv'
  BY <1>1, CrashStep
<1>2. ASSUME NEW w \in Works, EditWork(w) PROVE IInv'
  <2>1. work' \in [Works -> WorkRecord] /\ \A v \in Works : work'[v].status = work[v].status
    BY <1>2, ZenonT(40) DEF EditWork, IInv, ShapeInv, TypeOK, WorkRecord
  <2>2. SingleActive'
    BY <2>1 DEF IInv, SingleActive
  <2>3. ShapeInv'
    BY <1>2, <2>1 DEF EditWork, IInv, ShapeInv, TypeOK, Operation
  <2> QED
    BY <1>2, <2>1, <2>2, <2>3, BoardStep DEF EditWork
<1>3. ASSUME NEW w \in Works, NEW c \in Contents, EditFile(w, c) PROVE IInv'
  <2>1. ShapeInv' /\ SingleActive'
    BY <1>3 DEF EditFile, IInv, ShapeInv, TypeOK, Operation, SingleActive
  <2> QED
    BY <1>3, <2>1, BoardStep DEF EditFile
<1>4. ASSUME NEW v \in Products, EditProduct(v) \/ EditConfig(v) PROVE IInv'
  <2>1. ShapeInv' /\ SingleActive'
    BY <1>4 DEF EditProduct, EditConfig, IInv, ShapeInv, TypeOK, Operation, SingleActive
  <2> QED
    BY <1>4, <2>1, BoardStep DEF EditProduct, EditConfig
<1>5. CASE ContextChanges
  <2>1. ShapeInv' /\ SingleActive'
    BY <1>5 DEF ContextChanges, IInv, ShapeInv, TypeOK, Operation, SingleActive
  <2> QED
    BY <1>5, <2>1, BoardStep DEF ContextChanges
<1>6. ASSUME NEW id \in DOMAIN ops, Restore(id) PROVE IInv'
  BY <1>6, RestoreStep
<1> QED
  BY <1>1, <1>2, <1>3, <1>4, <1>5, <1>6 DEF Outside

(* Standing still keeps it.                                                *)
LEMMA StutterStep == ASSUME IInv, UNCHANGED vars PROVE IInv'
<1> USE DEF vars, files, journal
<1>1. ShapeInv' /\ SingleActive'
  BY DEF IInv, ShapeInv, TypeOK, Operation, SingleActive
<1>2. OpenInv'
  <2>1. \A j \in DOMAIN ops : Open(j)' <=> Open(j)
    BY DEF Open
  <2>2. ASSUME NEW j \in DOMAIN ops
        PROVE  /\ Switches(ops[j]) => Switches(ops[j])'
               /\ Amends(ops[j]) => Amends(ops[j])'
               /\ NotExecuting(ops[j]) => NotExecuting(ops[j])'
    BY DEF Switches, Amends, NotExecuting, Busy
  <2> QED
    BY <2>1, <2>2 DEF IInv, OpenInv
<1>3. LockInv'
  BY DEF IInv, LockInv, LockAt, Pending, Open
<1>4. WriterInv'
  BY DEF IInv, WriterInv, WriterAt, Writes, Open
<1> QED
  BY <1>1, <1>2, <1>3, <1>4 DEF IInv

(* Every step keeps the invariant.                                         *)
LEMMA NextInv == IInv /\ [Next]_vars => IInv'
<1> SUFFICES ASSUME IInv, [Next]_vars PROVE IInv'
  OBVIOUS
<1>1. CASE Commands
  BY <1>1, CommandsStep
<1>2. CASE Operations
  BY <1>2, UnblockStep, SwitchStep, AmendStep, AbortStep, RecoverCommandStep DEF Operations
<1>3. CASE Outside
  BY <1>3, OutsideStep
<1>4. ASSUME NEW p \in Procs, RecoverySteps(p) PROVE IInv'
  BY <1>4, SwitchInsideStep, LookStep, EnterStep, PutFileStep, MarkStep, ApplyStep,
     CommitStep, NoteStep DEF RecoverySteps
<1>5. CASE UNCHANGED vars
  BY <1>5, StutterStep
<1> QED
  BY <1>1, <1>2, <1>3, <1>4, <1>5 DEF Next

-----------------------------------------------------------------------------
(* What follows from it.                                                   *)

(* The inductive invariant holds in every reachable state.                 *)
THEOREM InvariantHolds == Spec => []IInv
BY InitInv, NextInv, PTL DEF Spec

(* Variables keep their shape, and the lock is only ever held by a process *)
(* in the middle of a command.                                             *)
THEOREM TypeCorrect == Spec => []TypeOK
<1>1. IInv => TypeOK
  BY DEF IInv, ShapeInv
<1> QED
  BY <1>1, InvariantHolds, PTL

(* Wherever an operation was interrupted, and whoever recovers it, no two  *)
(* Works are ever active at once.                                          *)
THEOREM BoardIsSound == Spec => []BoardSound
<1>1. IInv => BoardSound
  BY DEF IInv, ShapeInv, BoardSound
<1> QED
  BY <1>1, InvariantHolds, PTL

-----------------------------------------------------------------------------
(* The promise of the journal, step by step.                               *)

(* A step leaves a Work alone, its blocker apart.                          *)
Untouched(w) == [work'[w] EXCEPT !.blocked = work[w].blocked] = work[w]

(* What a step may do to a journal and what the journal covers.            *)
Kept(id) ==
    /\ Open(id) =>
          /\ \A w \in Works : ~Untouched(w) =>
                /\ w \in ToSet(ops[id].order)
                /\ work[w] = ops[id].before[w] /\ work'[w] = ops[id].after[w]
          /\ \A w \in Works : file'[w] # file[w] /\ ~Free =>
                file[w] = ops[id].old /\ file'[w] = ops[id].new
          /\ ops'[id].status = "committed" =>
                /\ \A w \in ToSet(ops[id].order) : work[w] = ops[id].after[w]
                /\ ops[id].kind = "amend" => file[Head(ops[id].order)] = ops[id].new
    /\ ~Open(id) => ops'[id].status = ops[id].status

(* A step that writes no Work, file or status keeps the promise.           *)
LEMMA NothingKept ==
    ASSUME ShapeInv, NEW id \in DOMAIN ops, ops'[id].status = ops[id].status,
           \A w \in Works : work'[w] = [work[w] EXCEPT !.blocked = work'[w].blocked],
           file' = file \/ Free
    PROVE  Kept(id)
<1>1. \A w \in Works : work[w] \in WorkRecord
  BY DEF ShapeInv, TypeOK
<1>2. \A w \in Works : Untouched(w)
  BY <1>1 DEF Untouched, WorkRecord
<1> QED
  BY <1>2 DEF Kept, Open

(* So does one made while no journal is open.                              *)
LEMMA BarrierKept ==
    ASSUME ~Pending, NEW id \in DOMAIN ops, ops'[id].status = ops[id].status PROVE Kept(id)
BY DEF Pending, Kept

(* So does writing a journal.                                              *)
LEMMA JournalsKept ==
    ASSUME IInv, NEW p \in Procs, NEW op, Journals(p, op), ~Pending, NEW id \in DOMAIN ops
    PROVE  Kept(id)
<1>1. ops'[id] = ops[id]
  BY DEF Journals, IInv, ShapeInv
<1> QED
  BY <1>1, BarrierKept

(* A flipped blocker is all that changed.                                  *)
LEMMA UnblockedRecord ==
    ASSUME ShapeInv, NEW w \in Works, work' = [work EXCEPT ![w].blocked = ~@]
    PROVE  \A v \in Works : work'[v] = [work[v] EXCEPT !.blocked = work'[v].blocked]
BY DEF ShapeInv, TypeOK, WorkRecord

(* Works nobody writes stay as they are.                                   *)
LEMMA StandsStill ==
    ASSUME ShapeInv, UNCHANGED work
    PROVE  \A w \in Works : work'[w] = [work[w] EXCEPT !.blocked = work'[w].blocked]
BY DEF ShapeInv, TypeOK, WorkRecord

(* The file is replaced only where it holds what the journal recorded.     *)
LEMMA PutFileKept == ASSUME IInv, NEW p \in Procs, PutFile(p), NEW id \in DOMAIN ops PROVE Kept(id)
<1>1. /\ proc[p].op \in DOMAIN ops /\ Open(proc[p].op) /\ (Open(id) => id = proc[p].op)
      /\ file[Head(ops[proc[p].op].order)] \in {ops[proc[p].op].old, ops[proc[p].op].new}
  BY DEF PutFile, IInv, LockInv, LockAt, WriterInv, WriterAt, Stages, OpenInv
<1>2. \A w \in Works : Untouched(w)
  BY DEF PutFile, Untouched, IInv, ShapeInv, TypeOK, WorkRecord
<1>3. ops' = ops
  BY DEF PutFile, journal
<1>4. \A w \in Works : file'[w] # file[w] =>
          w = Head(ops[proc[p].op].order) /\ file'[w] = ops[proc[p].op].new
  BY DEF PutFile, IInv, ShapeInv, TypeOK
<1> QED
  BY <1>1, <1>2, <1>3, <1>4 DEF Kept, Open

(* Marking changes the status of an open journal only.                     *)
LEMMA MarkKept == ASSUME IInv, NEW p \in Procs, Mark(p), NEW id \in DOMAIN ops PROVE Kept(id)
<1>1. proc[p].op \in DOMAIN ops /\ Open(proc[p].op) /\ ops[proc[p].op] \in JournalRecords
  BY DEF Mark, IInv, ShapeInv, LockInv, LockAt, WriterInv, WriterAt, Stages
<1>2. \A w \in Works : Untouched(w)
  BY DEF Mark, Untouched, IInv, ShapeInv, TypeOK, WorkRecord
<1>3. UNCHANGED file
  BY DEF Mark, files
<1>4. IF id = proc[p].op THEN ops'[id].status = "applying" ELSE ops'[id] = ops[id]
  BY <1>1 DEF Mark, IInv, ShapeInv, JournalRecords
<1> QED
  BY <1>1, <1>2, <1>3, <1>4 DEF Kept, Open

(* A journal is committed with all of it in place.                         *)
LEMMA CommitKept == ASSUME IInv, NEW p \in Procs, Commit(p), NEW id \in DOMAIN ops PROVE Kept(id)
<1>1. /\ proc[p].op \in DOMAIN ops /\ Open(proc[p].op) /\ ops[proc[p].op] \in JournalRecords
      /\ Writes(ops[proc[p].op], <<>>)
      /\ ops[proc[p].op].kind = "amend" => file[Head(ops[proc[p].op].order)] = ops[proc[p].op].new
  BY DEF Commit, IInv, ShapeInv, LockInv, LockAt, WriterInv, WriterAt, Stages
<1>2. \A w \in Works : Untouched(w)
  BY DEF Commit, Untouched, IInv, ShapeInv, TypeOK, WorkRecord
<1>3. UNCHANGED file
  BY DEF Commit, files
<1>4. id # proc[p].op => ops'[id] = ops[id]
  BY <1>1 DEF Commit, IInv, ShapeInv, JournalRecords
<1>5. \A w \in ToSet(ops[proc[p].op].order) : work[w] = ops[proc[p].op].after[w]
  <2>1. ToSet(<<>>) = {}
    BY DEF ToSet
  <2> QED
    BY <1>1, <2>1 DEF Writes
<1> QED
  BY <1>1, <1>2, <1>3, <1>4, <1>5 DEF Kept, Open, IInv, OpenInv

(* Only an open journal is aborted.                                        *)
LEMMA AbortKept ==
    ASSUME IInv, NEW a \in DOMAIN ops, Abort(a), NEW id \in DOMAIN ops PROVE Kept(id)
<1>1. Open(a) /\ ops[a] \in JournalRecords
  BY DEF Abort, Abortable, Open, IInv, ShapeInv
<1>2. \A w \in Works : Untouched(w)
  BY DEF Abort, Untouched, IInv, ShapeInv, TypeOK, WorkRecord
<1>3. UNCHANGED file
  BY DEF Abort, files
<1>4. IF id = a THEN ops'[id].status = "aborted" ELSE ops'[id] = ops[id]
  BY <1>1 DEF Abort, IInv, ShapeInv, JournalRecords
<1> QED
  BY <1>1, <1>2, <1>3, <1>4 DEF Kept, Open

(* Applying changes a Work of the journal, from before to after.           *)
LEMMA ApplyMoves ==
    ASSUME IInv, NEW p \in Procs, Apply(p), NEW v \in Works, work'[v] # work[v]
    PROVE  /\ proc[p].op \in DOMAIN ops /\ Open(proc[p].op)
           /\ v \in ToSet(ops[proc[p].op].order)
           /\ work[v] = ops[proc[p].op].before[v] /\ work'[v] = ops[proc[p].op].after[v]
<1> DEFINE id == proc[p].op
           w == Head(proc[p].left)
<1>1. /\ id \in DOMAIN ops /\ Open(id)
      /\ ToSet(proc[p].left) \subseteq ToSet(ops[id].order)
      /\ \A x \in ToSet(ops[id].order) : work[x] \in {ops[id].before[x], ops[id].after[x]}
  BY DEF Apply, IInv, LockInv, LockAt, WriterInv, WriterAt, Writes, Stages
<1>2. w \in ToSet(ops[id].order)
  <2>1. proc[p].left \in Seq(Works) /\ proc[p].left # <<>>
    BY DEF Apply, IInv, ShapeInv, Process
  <2> QED
    BY <1>1, <2>1, HeadAndTail
<1>3. v = w /\ work'[v] = ops[id].after[v]
  BY DEF Apply, IInv, ShapeInv, TypeOK
<1> QED
  BY <1>1, <1>2, <1>3

(* Applying keeps the promise.                                             *)
LEMMA ApplyKept == ASSUME IInv, NEW p \in Procs, Apply(p), NEW id \in DOMAIN ops PROVE Kept(id)
<1>1. UNCHANGED <<file, ops>>
  BY DEF Apply, files, journal
<1>2. \A w \in Works : ~Untouched(w) => work'[w] # work[w]
  BY DEF Untouched, IInv, ShapeInv, TypeOK, WorkRecord
<1>3. ASSUME NEW w \in Works, ~Untouched(w), Open(id)
      PROVE  w \in ToSet(ops[id].order) /\ work[w] = ops[id].before[w] /\ work'[w] = ops[id].after[w]
  BY <1>2, <1>3, ApplyMoves DEF IInv, OpenInv
<1> QED
  BY <1>1, <1>3 DEF Kept, Open

(* Every step keeps the promise of every journal.                          *)
LEMMA StepKept == ASSUME IInv, [Next]_vars, NEW id \in DOMAIN ops PROVE Kept(id)
<1> USE DEF IInv
<1>1. CASE Commands
  BY <1>1, CommandIsSave, BarrierKept DEF Save, Barrier, journal
<1>2. ASSUME NEW p \in Procs, NEW w \in Works, Unblock(p, w) PROVE Kept(id)
  BY <1>2, BarrierKept DEF Unblock, Barrier, journal
<1>3. ASSUME NEW p \in Procs, NEW t \in Works, Switch(p, t) PROVE Kept(id)
  BY <1>3, JournalsKept DEF Switch, Barrier
<1>4. ASSUME NEW p \in Procs, NEW w \in Works, NEW c \in Contents, Amend(p, w, c) PROVE Kept(id)
  <2>1. PICK op : Journals(p, op)
    BY <1>4 DEF Amend
  <2> QED
    BY <1>4, <2>1, JournalsKept DEF Amend, Barrier
<1>5. ASSUME NEW a \in DOMAIN ops, Abort(a) PROVE Kept(id)
  BY <1>5, AbortKept
<1>6. ASSUME NEW p \in Procs,
             SwitchInside(p) \/ Look(p) \/ Enter(p) \/ Note(p) \/ Crash(p)
                \/ \E a \in DOMAIN ops : RecoverCommand(p, a)
      PROVE  Kept(id)
  <2>1. CASE UNCHANGED <<work, file, ops>>
    BY <2>1, StandsStill, NothingKept
  <2>2. CASE SwitchInside(p)
    <3>1. ~Pending
      BY <2>2 DEF SwitchInside, LockInv, LockAt
    <3> QED
      BY <2>1, <2>2, <3>1, JournalsKept DEF SwitchInside, files, journal
  <2> QED
    BY <1>6, <2>1, <2>2 DEF Look, Enter, Note, Crash, RecoverCommand, files, journal
<1>7. ASSUME NEW p \in Procs, PutFile(p) \/ Mark(p) \/ Apply(p) \/ Commit(p) PROVE Kept(id)
  BY <1>7, PutFileKept, MarkKept, ApplyKept, CommitKept
<1>8. CASE \/ \E w \in Works, c \in Contents : EditFile(w, c)
           \/ \E v \in Products : EditProduct(v) \/ EditConfig(v)
           \/ ContextChanges
  BY <1>8, StandsStill, NothingKept DEF EditFile, EditProduct, EditConfig, ContextChanges, Edits, files, journal
<1>9. ASSUME NEW w \in Works, EditWork(w) PROVE Kept(id)
  BY <1>9, UnblockedRecord, NothingKept DEF EditWork, Edits, journal
<1>10. ASSUME NEW a \in DOMAIN ops, Restore(a) PROVE Kept(id)
  <2>1. \A w \in Works : work'[w] = [work[w] EXCEPT !.blocked = work'[w].blocked]
    BY <1>10 DEF Restore, ShapeInv, TypeOK, WorkRecord
  <2> QED
    BY <1>10, <2>1, NothingKept DEF Restore, journal
<1>11. CASE UNCHANGED vars
  BY <1>11, StandsStill, NothingKept DEF vars, files, journal
<1> QED
  BY <1>1, <1>2, <1>3, <1>4, <1>5, <1>6, <1>7, <1>8, <1>9, <1>10, <1>11
     DEF Next, Operations, Outside, RecoverySteps

(* While a journal is open a Work is suspended only by it, and it was not  *)
(* executing, or it is behind the project context.                         *)
LEMMA StepAtRest ==
    ASSUME IInv, [Next]_vars, NEW w \in Works,
           Pending, work[w].status = "active", work'[w].status = "suspended"
    PROVE  w \notin Busy \ stale
<1> PICK id \in DOMAIN ops : Open(id)
  BY DEF Pending
<1>1. ~Untouched(w)
  BY DEF Untouched, IInv, ShapeInv, TypeOK, WorkRecord
<1>2. /\ w \in ToSet(ops[id].order)
      /\ work[w] = ops[id].before[w] /\ work'[w] = ops[id].after[w]
  BY <1>1, StepKept DEF Kept
<1> QED
  BY <1>2 DEF IInv, OpenInv, NotExecuting

(* The promise of a journal.  While it is open, only what it records is    *)
(* written and only from before to after; a Work it suspends has no live   *)
(* or unknown execution, unless it is behind the project context; it is    *)
(* committed with all of it in place; and once committed or aborted it     *)
(* stays that.  For any number of Works, processes, operations and         *)
(* crashes, and a project context that changes at any time.                *)
THEOREM JournalIsKept == Spec => JournalKept
<1>1. IInv /\ [Next]_vars =>
        \A id \in DOMAIN ops : Open(id) =>
          \A w \in Works :
              /\ [work'[w] EXCEPT !.blocked = work[w].blocked] # work[w] =>
                    /\ w \in ToSet(ops[id].order)
                    /\ work[w] = ops[id].before[w] /\ work'[w] = ops[id].after[w]
              /\ file'[w] # file[w] /\ ~Free =>
                    file[w] = ops[id].old /\ file'[w] = ops[id].new
  BY StepKept DEF Kept, Untouched
<1>2. IInv /\ [Next]_vars =>
        \A id \in DOMAIN ops : Open(id) /\ ops'[id].status = "committed" =>
          /\ \A w \in ToSet(ops[id].order) : work[w] = ops[id].after[w]
          /\ ops[id].kind = "amend" => file[Head(ops[id].order)] = ops[id].new
  BY StepKept DEF Kept
<1>3. IInv /\ [Next]_vars => \A id \in DOMAIN ops : ~Open(id) => ops'[id].status = ops[id].status
  BY StepKept DEF Kept
<1>4. IInv /\ [Next]_vars =>
        \A w \in Works :
          Pending /\ work[w].status = "active" /\ work'[w].status = "suspended" =>
              w \notin Busy \ stale
  BY StepAtRest
<1> QED
  BY <1>1, <1>2, <1>3, <1>4, InvariantHolds, PTL
     DEF Spec, JournalKept, OnlyTheJournal, CommittedInFull, FinalIsFinal, SourceAtRest

-----------------------------------------------------------------------------
(* The refinement of the abstract board.                                   *)

(* The board as a reader sees it who waits for a journal.                  *)
ViewOf(id) ==
    [w \in Works |-> IF w \in ToSet(ops[id].order) THEN ops[id].before[w] ELSE work[w]]

(* What the abstract board is in every state.                              *)
ViewInv ==
    /\ BoardView \in [Works -> WorkRecord]
    /\ ~Pending => BoardView = work
    /\ \A id \in DOMAIN ops : Open(id) => BoardView = ViewOf(id)

(* The view of the board is the journal's start, where one is open, and the*)
(* Works themselves elsewhere.                                             *)
LEMMA ViewHolds == IInv => ViewInv
<1> SUFFICES ASSUME IInv PROVE ViewInv
  OBVIOUS
<1> DEFINE mine(w) == {id \in DOMAIN ops : Open(id) /\ w \in ToSet(ops[id].order)}
<1>1. work \in [Works -> WorkRecord]
  BY DEF IInv, ShapeInv, TypeOK
<1>2. BoardView = [w \in Works |-> IF mine(w) = {} THEN work[w] ELSE ops[CHOOSE id \in mine(w) : TRUE].before[w]]
  BY DEF BoardView
<1>3. ~Pending => BoardView = work
  <2> SUFFICES ASSUME ~Pending PROVE BoardView = work
    OBVIOUS
  <2>1. \A w \in Works : mine(w) = {}
    BY DEF Pending
  <2> HIDE DEF mine
  <2> QED
    BY <1>1, <1>2, <2>1
<1>4. ASSUME NEW id \in DOMAIN ops, Open(id) PROVE BoardView = ViewOf(id)
  <2>1. \A w \in Works : mine(w) = IF w \in ToSet(ops[id].order) THEN {id} ELSE {}
    BY <1>4 DEF IInv, OpenInv
  <2> HIDE DEF mine
  <2> QED
    BY <1>2, <2>1 DEF ViewOf
<1>5. BoardView \in [Works -> WorkRecord]
  <2>1. ASSUME NEW id \in DOMAIN ops, Open(id) PROVE ViewOf(id) \in [Works -> WorkRecord]
    BY <1>1 DEF ViewOf, IInv, ShapeInv, TypeOK, Operation
  <2> QED
    BY <1>1, <1>3, <1>4, <2>1 DEF Pending
<1> QED
  BY <1>3, <1>4, <1>5 DEF ViewInv

(* When one Work changes that no open journal names, or in its blocker     *)
(* only, the board makes one legal change or stands still.                 *)
LEMMA WorkChanges ==
    ASSUME IInv, ViewInv, ViewInv', UNCHANGED ops, NEW w \in Works,
           \A v \in Works \ {w} : work'[v] = work[v],
           \A id \in DOMAIN ops : Open(id) =>
                w \in ToSet(ops[id].order) \/ work'[w].status = work[w].status,
           work'[w].status = "active" => work[w].status = "active" \/ Active \subseteq {w},
           work[w].status = "active" /\ work'[w].status = "suspended" => work'[w].blocked
    PROVE  Board!BoardNext \/ BoardView' = BoardView
<1>2. CASE ~Pending
  <2>1. BoardView = work /\ BoardView' = work'
    BY <1>2 DEF ViewInv, Pending, Open
  <2>2. Board!Change(w)
    BY <2>1 DEF Board!Change, Board!Others, Board!Active, Active, IInv, SingleActive
  <2> QED
    BY <2>2 DEF Board!BoardNext, ViewInv
<1>3. ASSUME NEW id \in DOMAIN ops, Open(id) PROVE Board!Change(w) \/ BoardView' = BoardView
  <2>1. BoardView = ViewOf(id) /\ BoardView' = ViewOf(id)'
    BY <1>3 DEF ViewInv, Open
  <2>2. CASE w \in ToSet(ops[id].order)
    BY <2>1, <2>2 DEF ViewOf
  <2>3. CASE w \notin ToSet(ops[id].order)
    <3>1. BoardView[w] = work[w] /\ BoardView'[w] = work'[w] /\ \A v \in Works \ {w} : BoardView'[v] = BoardView[v]
      BY <2>1, <2>3 DEF ViewOf
    <3>2. work[w].status = "active" => Board!Active(BoardView) \subseteq {w}
      <4> SUFFICES ASSUME work[w].status = "active", NEW v \in Works \ {w}, BoardView[v].status = "active"
                   PROVE  FALSE
        BY DEF Board!Active
      <4>1. v \in ToSet(ops[id].order) /\ BoardView[v] = ops[id].before[v]
        BY <2>1 DEF ViewOf, IInv, SingleActive
      <4>2. ops[id].kind \in {"switch", "amend"}
        BY DEF IInv, ShapeInv, TypeOK, Operation
      <4>3. CASE Switches(ops[id])
        BY <2>3, <4>3 DEF Switches
      <4>4. CASE Amends(ops[id])
        <5>1. ToSet(ops[id].order) = {Head(ops[id].order)}
          BY <4>4 DEF Amends, ToSet
        <5> QED
          BY <2>3, <4>1, <4>4, <5>1 DEF Amends
      <4> QED
        BY <1>3, <4>2, <4>3, <4>4 DEF IInv, OpenInv
    <3> QED
      BY <1>3, <2>3, <3>1, <3>2 DEF Board!Change, Board!Others
  <2> QED
    BY <2>2, <2>3
<1> QED
  BY <1>2, <1>3 DEF Pending, Board!BoardNext, ViewInv

(* The board stands still when neither Works nor journals change.          *)
LEMMA BoardStands ==
    ASSUME ViewInv, ViewInv', UNCHANGED <<work, ops>> PROVE BoardView' = BoardView
BY DEF ViewInv, ViewOf, Pending, Open

(* A command is one change of the board.                                   *)
LEMMA CommandsOnBoard ==
    ASSUME IInv, ViewInv, ViewInv', Commands PROVE Board!BoardNext \/ BoardView' = BoardView
<1> PICK w \in Works, r \in WorkRecord :
          Save(w, r) /\ (work[w].status = "active" /\ r.status = "suspended" => r.blocked)
  BY CommandIsSave DEF IInv
<1>1. work'[w] = r /\ \A v \in Works \ {w} : work'[v] = work[v]
  BY DEF Save, IInv, ShapeInv, TypeOK
<1>2. ~Pending /\ UNCHANGED ops
  BY DEF Save, Barrier, journal
<1> QED
  BY <1>1, <1>2, WorkChanges DEF Save, MayActivate, Pending

(* So is a blocker that comes or goes.                                     *)
LEMMA BlockerOnBoard ==
    ASSUME IInv, ViewInv, ViewInv', UNCHANGED ops, NEW w \in Works, work' = [work EXCEPT ![w].blocked = ~@]
    PROVE  Board!BoardNext \/ BoardView' = BoardView
<1>1. work'[w].status = work[w].status /\ \A v \in Works \ {w} : work'[v] = work[v]
  BY DEF IInv, ShapeInv, TypeOK, WorkRecord
<1> QED
  BY <1>1, WorkChanges

(* Putting inputs back is invisible on the board.                          *)
LEMMA RestoreOnBoard ==
    ASSUME IInv, ViewInv, ViewInv', NEW id \in DOMAIN ops, Restore(id) PROVE BoardView' = BoardView
<1>1. UNCHANGED ops /\ Open(id) /\ Open(id)'
  BY DEF Restore, journal, Open
<1>2. \A w \in Works \ ToSet(ops[id].order) : work'[w] = work[w]
  BY DEF Restore
<1> QED
  BY <1>1, <1>2 DEF ViewInv, ViewOf

(* So is applying a journal.                                               *)
LEMMA ApplyOnBoard ==
    ASSUME IInv, ViewInv, ViewInv', NEW p \in Procs, Apply(p) PROVE BoardView' = BoardView
<1>1. UNCHANGED ops
  BY DEF Apply, journal
<1>2. CASE \A v \in Works : work'[v] = work[v]
  <2>1. work' = work
    BY <1>2 DEF Apply, IInv, ShapeInv, TypeOK
  <2> QED
    BY <1>1, <2>1, BoardStands
<1>3. ASSUME NEW v \in Works, work'[v] # work[v] PROVE BoardView' = BoardView
  <2>1. PICK id \in DOMAIN ops : id = proc[p].op /\ Open(id)
    BY <1>3, ApplyMoves
  <2>2. \A x \in Works \ ToSet(ops[id].order) : work'[x] = work[x]
    BY <2>1, ApplyMoves
  <2>3. Open(id)'
    BY <1>1, <2>1 DEF Open
  <2> QED
    BY <1>1, <2>1, <2>2, <2>3 DEF ViewInv, ViewOf
<1> QED
  BY <1>2, <1>3

(* So is marking it.                                                       *)
LEMMA MarkOnBoard ==
    ASSUME IInv, ViewInv, ViewInv', NEW p \in Procs, Mark(p) PROVE BoardView' = BoardView
<1>1. PICK id \in DOMAIN ops : id = proc[p].op /\ Open(id) /\ ops[id] \in JournalRecords
  BY DEF Mark, IInv, ShapeInv, LockInv, LockAt, WriterInv, WriterAt, Stages
<1>2. /\ ops'[id].status = "applying" /\ ops'[id].order = ops[id].order
      /\ ops'[id].before = ops[id].before /\ DOMAIN ops' = DOMAIN ops
  BY <1>1 DEF Mark, IInv, ShapeInv, JournalRecords
<1>3. UNCHANGED work /\ Open(id)'
  BY <1>2 DEF Mark, Open
<1> QED
  BY <1>1, <1>2, <1>3 DEF ViewInv, ViewOf

(* So is aborting it: nothing of it had been written.                      *)
LEMMA AbortOnBoard ==
    ASSUME IInv, ViewInv, IInv', ViewInv', NEW id \in DOMAIN ops, Abort(id) PROVE BoardView' = BoardView
<1>1. Open(id) /\ ops[id] \in JournalRecords /\ \A w \in ToSet(ops[id].order) : work[w] = ops[id].before[w]
  BY DEF Abort, Abortable, Open, IInv, ShapeInv
<1>2. ~Pending'
  BY <1>1 DEF Abort, Pending, Open, IInv, ShapeInv, OpenInv, JournalRecords
<1>3. UNCHANGED work
  BY DEF Abort
<1>4. ViewOf(id) = work
  BY <1>1 DEF ViewOf, IInv, ShapeInv, TypeOK
<1> QED
  BY <1>1, <1>2, <1>3, <1>4 DEF ViewInv

(* So is writing it.                                                       *)
LEMMA JournalsOnBoard ==
    ASSUME IInv, ViewInv, ViewInv', NEW p \in Procs, NEW op, Journals(p, op), ~Pending,
           op.status = "prepared", \A w \in ToSet(op.order) : op.before[w] = work[w]
    PROVE  BoardView' = BoardView
<1>1. PICK n : n \in DOMAIN ops' /\ ops'[n] = op
  BY DEF Journals, IInv, ShapeInv
<1>2. Open(n)'
  BY <1>1 DEF Open
<1>3. BoardView' = ViewOf(n)'
  BY <1>1, <1>2 DEF ViewInv
<1>4. BoardView = work
  BY DEF ViewInv
<1> QED
  BY <1>1, <1>3, <1>4 DEF Journals, ViewOf, IInv, ShapeInv, TypeOK

(* Committing makes the whole move in one step.                            *)
LEMMA CommitOnBoard ==
    ASSUME IInv, ViewInv, ViewInv', NEW p \in Procs, Commit(p) PROVE Board!BoardNext
<1>1. PICK id \in DOMAIN ops :
          /\ id = proc[p].op /\ Open(id) /\ ops[id] \in JournalRecords /\ Operation(ops[id])
          /\ Writes(ops[id], <<>>)
  BY DEF Commit, IInv, ShapeInv, TypeOK, LockInv, LockAt, WriterInv, WriterAt, Stages
<1>2. \A w \in ToSet(ops[id].order) : work[w] = ops[id].after[w]
  <2>1. ToSet(<<>>) = {}
    BY DEF ToSet
  <2> QED
    BY <1>1, <2>1 DEF Writes
<1>3. ~Pending'
  BY <1>1 DEF Commit, Pending, Open, IInv, ShapeInv, OpenInv, JournalRecords
<1>4. BoardView = ViewOf(id) /\ BoardView' = work
  BY <1>1, <1>3 DEF Commit, ViewInv
<1>5. /\ \A w \in Works : w \in ToSet(ops[id].order) =>
            BoardView[w] = ops[id].before[w] /\ BoardView'[w] = ops[id].after[w]
      /\ \A w \in Works \ ToSet(ops[id].order) : BoardView'[w] = BoardView[w] /\ BoardView[w] = work[w]
  BY <1>2, <1>4 DEF ViewOf
<1>6. ToSet(ops[id].order) \subseteq Works
  BY <1>1, SetOfSeq DEF Operation
<1>7. CASE Switches(ops[id])
  <2> PICK t \in ToSet(ops[id].order) :
          /\ ops[id].before[t].status \in {"todo", "suspended"} /\ ops[id].after[t].status = "active"
          /\ \A s \in ToSet(ops[id].order) \ {t} :
                 /\ ops[id].before[s].status = "active" /\ ops[id].after[s].status = "suspended"
                 /\ ToSet(ops[id].order) = {s, t}
          /\ \A w \in Works \ ToSet(ops[id].order) : work[w].status # "active"
    BY <1>7 DEF Switches
  <2>1. CASE ToSet(ops[id].order) = {t}
    <3>1. Board!Active(BoardView) \subseteq {t}
      BY <1>5, <2>1 DEF Board!Active
    <3>2. Board!Change(t)
      BY <1>5, <1>6, <2>1, <3>1 DEF Board!Change, Board!Others
    <3> QED
      BY <1>6, <3>2 DEF Board!BoardNext, ViewInv
  <2>2. ASSUME NEW s \in ToSet(ops[id].order) \ {t} PROVE Board!BoardNext
    <3>1. ToSet(ops[id].order) = {s, t} /\ s \in Works /\ t \in Works
      BY <1>6
    <3>2. Board!Active(BoardView) = {s}
      BY <1>5, <1>6, <3>1 DEF Board!Active
    <3>3. Board!Move(s, t)
      BY <1>5, <1>6, <3>1, <3>2 DEF Board!Move, Board!Others
    <3> QED
      BY <3>1, <3>3 DEF Board!BoardNext, ViewInv
  <2> QED
    BY <2>1, <2>2
<1>8. CASE Amends(ops[id])
  <2> DEFINE h == Head(ops[id].order)
  <2>1. ToSet(ops[id].order) = {h}
    BY <1>8 DEF Amends, ToSet
  <2>2. /\ ops[id].after[h].status = ops[id].before[h].status
        /\ ops[id].before[h].status = "active" => \A w \in Works \ {h} : work[w].status # "active"
    BY <1>8, <2>1 DEF Amends
  <2> HIDE DEF h
  <2>3. ops[id].before[h].status = "active" => Board!Active(BoardView) \subseteq {h}
    BY <1>5, <2>1, <2>2 DEF Board!Active
  <2>4. Board!Change(h)
    BY <1>5, <1>6, <2>1, <2>2, <2>3 DEF Board!Change, Board!Others
  <2> QED
    BY <1>6, <2>1, <2>4 DEF Board!BoardNext, ViewInv
<1> QED
  BY <1>1, <1>7, <1>8 DEF IInv, OpenInv, Operation

(* A switch starts from the Works as they are.                             *)
LEMMA SwitchJournalStarts ==
    ASSUME IInv, NEW t \in Works, MaySwitch(t)
    PROVE  \A w \in ToSet(SwitchJournal(t).order) : SwitchJournal(t).before[w] = work[w]
BY DEF SwitchJournal

(* Every step is a step of the board or leaves it as it is.                *)
LEMMA BoardSteps ==
    ASSUME IInv, IInv', ViewInv, ViewInv', [Next]_vars
    PROVE  Board!BoardNext \/ BoardView' = BoardView
<1>1. CASE Commands
  BY <1>1, CommandsOnBoard
<1>2. ASSUME NEW p \in Procs, NEW w \in Works, Unblock(p, w) PROVE Board!BoardNext \/ BoardView' = BoardView
  BY <1>2, BlockerOnBoard DEF Unblock, journal
<1>3. ASSUME NEW p \in Procs, NEW t \in Works, Switch(p, t) PROVE BoardView' = BoardView
  BY <1>3, SwitchJournalStarts, SwitchJournalFits, JournalsOnBoard DEF Switch, Barrier
<1>4. ASSUME NEW p \in Procs, NEW w \in Works, NEW c \in Contents, Amend(p, w, c) PROVE BoardView' = BoardView
  <2>1. PICK op : /\ Journals(p, op) /\ op.status = "prepared" /\ op.order = <<w>>
                  /\ op.before = [v \in {w} |-> work[v]]
    BY <1>4, SMTT(40) DEF Amend
  <2>2. \A v \in ToSet(op.order) : op.before[v] = work[v]
    BY <2>1 DEF ToSet
  <2> QED
    BY <1>4, <2>1, <2>2, JournalsOnBoard DEF Amend, Barrier
<1>5. ASSUME NEW a \in DOMAIN ops, Abort(a) PROVE BoardView' = BoardView
  BY <1>5, AbortOnBoard
<1>6. ASSUME NEW p \in Procs,
             SwitchInside(p) \/ Look(p) \/ Enter(p) \/ Note(p) \/ Crash(p) \/ PutFile(p)
                \/ \E a \in DOMAIN ops : RecoverCommand(p, a)
      PROVE  BoardView' = BoardView
  <2>1. CASE UNCHANGED <<work, ops>>
    BY <2>1, BoardStands
  <2>2. CASE SwitchInside(p)
    <3>1. ~Pending /\ proc[p].left \in Seq(Works) /\ proc[p].left # <<>>
      BY <2>2 DEF SwitchInside, IInv, ShapeInv, Process, LockInv, LockAt
    <3>2. Head(proc[p].left) \in Works
      BY <3>1
    <3> QED
      BY <2>1, <2>2, <3>1, <3>2, SwitchJournalStarts, SwitchJournalFits, JournalsOnBoard
         DEF SwitchInside, journal
  <2> QED
    BY <1>6, <2>1, <2>2 DEF Look, Enter, Note, Crash, PutFile, RecoverCommand, journal
<1>7. ASSUME NEW p \in Procs, Mark(p) \/ Apply(p) \/ Commit(p) PROVE Board!BoardNext \/ BoardView' = BoardView
  BY <1>7, MarkOnBoard, ApplyOnBoard, CommitOnBoard
<1>8. CASE \/ \E w \in Works, c \in Contents : EditFile(w, c)
           \/ \E v \in Products : EditProduct(v) \/ EditConfig(v)
           \/ ContextChanges
  BY <1>8, BoardStands DEF EditFile, EditProduct, EditConfig, ContextChanges, Edits, journal
<1>9. ASSUME NEW w \in Works, EditWork(w) PROVE Board!BoardNext \/ BoardView' = BoardView
  BY <1>9, BlockerOnBoard DEF EditWork, Edits, journal
<1>10. ASSUME NEW a \in DOMAIN ops, Restore(a) PROVE BoardView' = BoardView
  BY <1>10, RestoreOnBoard
<1>11. CASE UNCHANGED vars
  BY <1>11, BoardStands DEF vars, journal
<1> QED
  BY <1>1, <1>2, <1>3, <1>4, <1>5, <1>6, <1>7, <1>8, <1>9, <1>10, <1>11
     DEF Next, Operations, Outside, RecoverySteps

(* The board starts empty.                                                 *)
LEMMA BoardStarts == Init => Board!BoardInit
<1> SUFFICES ASSUME Init PROVE Board!BoardInit
  OBVIOUS
<1>1. IInv /\ ViewInv
  BY InitInv, ViewHolds
<1>2. ~Pending
  BY DEF Init, Pending
<1> QED
  BY <1>1, <1>2 DEF ViewInv, Board!BoardInit, Init

(* Refinement: to a reader who waits for the journal, a switch or an       *)
(* amendment that takes many durable writes, crashes and recoveries is one *)
(* step of the abstract board.                                             *)
THEOREM MoveIsOneStep == Spec => ImplementsBoard
<1>1. IInv /\ IInv' /\ ViewInv /\ ViewInv' /\ [Next]_vars => [Board!BoardNext]_BoardView
  BY BoardSteps
<1> QED
  BY <1>1, BoardStarts, ViewHolds, InvariantHolds, PTL
     DEF Spec, ImplementsBoard, Board!BoardSpec
=============================================================================
