------------------------ MODULE LockAndProjectProofs ------------------------
(* Proofs about the repository transaction, for any number of threads,     *)
(* processes and nested transactions, and about the project's background,  *)
(* set-up and baseline checks, whose commands run inside it, for any       *)
(* number of Works, scopes, stacks and processes.                          *)
EXTENDS RepoLock, ProjectChecks, FiniteSetTheorems, TLAPS

-----------------------------------------------------------------------------
(* The repository transaction.                                             *)

(* The mutex of a process is held exactly by the thread that is past its   *)
(* acquisition, and is counted once more than that thread's depth while    *)
(* the thread is outside a body.                                           *)
MutexInv ==
    \A t \in Threads :
        /\ pc[t] \in {"os", "in", "unlock", "release"} <=> mutex[ProcOf[t]] = t
        /\ pc[t] \in {"os", "unlock", "release"} => count[ProcOf[t]] = 1
        /\ pc[t] = "in" => count[ProcOf[t]] = depth[t]

(* Depth is positive exactly inside a body.                                *)
DepthInv == \A t \in Threads : depth[t] > 0 <=> pc[t] = "in"

(* The lock on state.lock is held exactly by the thread in a body or about *)
(* to close its descriptor.                                                *)
OsInv == \A t \in Threads : pc[t] \in {"in", "unlock"} <=> oslock = t

IInv == TypeOK /\ MutexInv /\ DepthInv /\ OsInv

-----------------------------------------------------------------------------
(* The invariant holds initially.                                          *)
LEMMA InitIInv == Init => IInv
BY LockAssumption DEF Init, IInv, TypeOK, MutexInv, DepthInv, OsInv, Points

(* Every step of a thread and every crash preserves it.                    *)
LEMMA NextIInv == IInv /\ [Next]_vars => IInv'
<1> SUFFICES ASSUME IInv, [Next]_vars PROVE IInv'
  OBVIOUS
<1> USE LockAssumption DEF IInv, TypeOK, MutexInv, DepthInv, OsInv, Points, Goto
<1>1. ASSUME NEW t \in Threads, Call(t) PROVE IInv'
  BY <1>1 DEF Call
<1>2. ASSUME NEW t \in Threads, AcquireMutex(t) PROVE IInv'
  BY <1>2 DEF AcquireMutex
<1>3. ASSUME NEW t \in Threads, MutexTimeout(t) PROVE IInv'
  BY <1>3 DEF MutexTimeout
<1>4. ASSUME NEW t \in Threads, TakeLock(t) PROVE IInv'
  BY <1>4 DEF TakeLock
<1>5. ASSUME NEW t \in Threads, LockFails(t) PROVE IInv'
  BY <1>5 DEF LockFails
<1>6. ASSUME NEW t \in Threads, Reenter(t) PROVE IInv'
  BY <1>6 DEF Reenter
<1>7. ASSUME NEW t \in Threads, LeaveNested(t) PROVE IInv'
  BY <1>7 DEF LeaveNested
<1>8. ASSUME NEW t \in Threads, Leave(t) PROVE IInv'
  BY <1>8 DEF Leave
<1>9. ASSUME NEW t \in Threads, Unlock(t) PROVE IInv'
  BY <1>9 DEF Unlock
<1>10. ASSUME NEW t \in Threads, ReleaseMutex(t) PROVE IInv'
  BY <1>10 DEF ReleaseMutex
<1>11. ASSUME NEW p \in Procs, Crash(p) PROVE IInv'
  BY <1>11 DEF Crash
<1>12. CASE UNCHANGED vars
  BY <1>12 DEF vars
<1> QED
  BY <1>1, <1>2, <1>3, <1>4, <1>5, <1>6, <1>7, <1>8, <1>9, <1>10, <1>11, <1>12
     DEF Next, Step

(* The strengthened invariant holds in every reachable state.              *)
THEOREM Inductive == Spec => []IInv
<1>1. Init => IInv
  BY InitIInv
<1>2. IInv /\ [Next]_vars => IInv'
  BY NextIInv
<1> QED
  BY <1>1, <1>2, PTL DEF Spec

(* Type correctness of repo_transaction's bookkeeping: no counter of the   *)
(* re-entrant mutex or of the thread-local depth ever goes below zero.     *)
THEOREM TypeCorrect == Spec => []TypeOK
<1>1. IInv => TypeOK
  BY DEF IInv
<1> QED
  BY <1>1, Inductive, PTL

(* No two threads are inside a transaction together, for any number of     *)
(* processes, threads and nesting levels.                                  *)
THEOREM Exclusive == Spec => []MutualExclusion
<1>1. IInv => MutualExclusion
  BY DEF IInv, OsInv, MutualExclusion
<1> QED
  BY <1>1, Inductive, PTL

(* A thread outside its transaction holds neither lock.                    *)
THEOREM NoLeak == Spec => []NothingLeaks
<1>1. IInv => NothingLeaks
  BY DEF IInv, TypeOK, MutexInv, DepthInv, OsInv, NothingLeaks
<1> QED
  BY <1>1, Inductive, PTL

(* The mutex count and the nesting depth of the owner agree.               *)
THEOREM Agreement == Spec => []LevelsAgree
<1>1. IInv => LevelsAgree
  BY DEF IInv, MutexInv, OsInv, LevelsAgree
<1> QED
  BY <1>1, Inductive, PTL

(* The bookkeeping of the locks as a whole, as the run checks it.          *)
THEOREM Consistent == Spec => []WellFormed
BY TypeCorrect, Agreement, PTL DEF WellFormed

-----------------------------------------------------------------------------
(* What the project's files and checks say of each other.                  *)

(* The context of the disk d, and the change in progress there.            *)
HasContext(d) == d.context # <<>>
Active(d) == Last(d.context).active
ChangeOf(d) == d.changes[Active(d)]
Busy(d) == HasContext(d) /\ Active(d) # 0

(* The scope has the change's stack in the content c.                      *)
Shows(c, change) == c.scopes[change.scope] # Nothing /\ c.scopes[change.scope].stack = change.stack

(* The revision r comes after the change was applied to its base.          *)
Begun(change, r) ==
    /\ Len(change.base) < Len(r) /\ \A k \in 1..Len(change.base) : change.base[k] = r[k]
    /\ Shows(r[Len(change.base) + 1], change)

(* Every revision up to the one pointed to is kept.                        *)
Kept(d) == \A n \in 1..Len(d.context) : SubSeq(d.context, 1, n) \in d.revisions

(* A change in progress was begun, names its owner, and its scope shows it. *)
ActiveOK(d) ==
    Busy(d) =>
        /\ Active(d) \in 1..Len(d.changes)
        /\ ChangeOf(d).status = "applying" /\ ChangeOf(d).owner \in Works
        /\ Begun(ChangeOf(d), d.context) /\ Shows(Last(d.context), ChangeOf(d))

(* A completed change was begun and is no longer in progress.              *)
CompletedOK(d) ==
    \A i \in 1..Len(d.changes) : d.changes[i].status = "completed" => Begun(d.changes[i], d.context) /\ Active(d) # i

(* What the record k of the Work w may say, the rest being as in d: it is  *)
(* bound to a revision there was, its change was begun and is its own, and *)
(* it is not bound to the present revision in a scope that the change of   *)
(* another covers.                                                         *)
Right(d, w, k) ==
    k # Nothing =>
        /\ k.binding # Nothing => Len(k.binding.at) <= Len(d.context)
        /\ k.change # 0 => /\ k.change \in 1..Len(d.changes)
                           /\ Begun(d.changes[k.change], d.context) /\ d.changes[k.change].owner = w
        /\ Busy(d) /\ ChangeOf(d).owner # w =>
              k.binding = Nothing \/ k.binding.at # d.context \/ ChangeOf(d).scope \notin k.binding.scopes \cup {"root"}

(* The files of the background agree.                                      *)
Fine(d) ==
    /\ d \in DiskType
    /\ Kept(d) /\ ActiveOK(d) /\ CompletedOK(d)
    /\ d.changes # <<>> => HasContext(d)
    /\ \A w \in Works : Right(d, w, d.works[w])

(* A scope that is set up has a background, and a result on record is of   *)
(* the plan on record: one that passed was found of the plan's background, *)
(* with the files it began with.                                           *)
SetupOK ==
    \A s \in Scopes : setup[s] # Nothing =>
        /\ HasContext(disk)
        /\ setup[s].result # Nothing =>
             /\ setup[s].result.inputs.plan = setup[s].plan
             /\ setup[s].result.status = "passed" =>
                  /\ setup[s].result.inputs.context = setup[s].plan.context
                  /\ setup[s].result.initialization = <<setup[s].plan, setup[s].result.inputs.file>>

(* A check in progress is the one its scope names, and has seen the plan,  *)
(* or took over the certificate, that is there.                            *)
OnRecord(run) ==
    /\ run.id <= used.runs
    /\ run.kind = "setup" =>
         /\ setup[run.scope] # Nothing /\ setup[run.scope].running # Nothing
         /\ setup[run.scope].running.id = run.id
         /\ run.before.plan = setup[run.scope].plan /\ run.before.context = setup[run.scope].plan.context
    /\ run.kind = "baseline" =>
         /\ HasContext(disk)
         /\ baseline.checks[run.scope].running = run.id /\ baseline.checks[run.scope].status = "none"
         /\ baseline.checks[run.scope].certified = run.certified

(* Every check in progress is on record, and no two have one identity.     *)
ProcessOK ==
    /\ \A p \in Processes : process[p] # Nothing => OnRecord(process[p])
    /\ \A p, q \in Processes : process[p] # Nothing /\ process[q] # Nothing /\ process[p].id = process[q].id => p = q

(* The inductive invariant of the project's files and checks.              *)
ProjectInv ==
    /\ ProjectTypeOK /\ Fine(disk) /\ SetupOK /\ ProcessOK /\ CertifiedByARun
    /\ \A s \in Scopes : code[s] <= used.edits

-----------------------------------------------------------------------------
(* The background's files.                                                 *)

(* The revision x is r with one more content.                              *)
Grown(r, c, x) ==
    /\ x = Append(r, c) /\ x # <<>> /\ x # r
    /\ Len(r) \in Nat /\ Len(x) = Len(r) + 1 /\ Last(x) = c /\ Front(x) = r
    /\ x[Len(r) + 1] = c /\ \A k \in 1..Len(r) : x[k] = r[k]
    /\ SubSeq(x, 1, Len(r) + 1) = x
    /\ \A n \in 1..Len(r) : SubSeq(x, 1, n) = SubSeq(r, 1, n)

(* Every revision may grow.                                                *)
LEMMA Longer == ASSUME NEW r \in Revision, NEW c \in Content PROVE \E x \in Revision : Grown(r, c, x)
<1>1. PICK x : x = Append(r, c)
  OBVIOUS
<1>2. /\ x \in Seq(Content) /\ Len(r) \in Nat /\ Len(x) = Len(r) + 1
      /\ x[Len(r) + 1] = c /\ \A k \in 1..Len(r) : x[k] = r[k]
  BY <1>1 DEF Revision
<1>3. SubSeq(x, 1, Len(r) + 1) = x
  BY <1>2
<1>4. \A n \in 1..Len(r) : SubSeq(x, 1, n) = SubSeq(r, 1, n)
  BY <1>2 DEF Revision
<1>5. Front(x) = r
  BY <1>2 DEF Front, Revision
<1>6. x \in Revision /\ x # <<>> /\ x # r /\ Last(x) = c
  BY <1>2 DEF Last, Revision
<1>7. Grown(r, c, x)
  BY <1>1, <1>2, <1>3, <1>4, <1>5, <1>6 DEF Grown
<1> QED
  BY <1>6, <1>7

(* What was begun stays begun.                                             *)
LEMMA BegunStays ==
    ASSUME NEW r \in Revision, NEW c \in Content, NEW change \in Change, Begun(change, r)
    PROVE  Begun(change, Append(r, c))
<1>1. PICK x \in Revision : /\ x = Append(r, c) /\ Len(r) \in Nat /\ Len(x) = Len(r) + 1
                            /\ \A k \in 1..Len(r) : x[k] = r[k]
  <2>1. PICK x \in Revision : Grown(r, c, x)
    BY Longer
  <2> QED
    BY <2>1 DEF Grown
<1>2. PICK b : b = change.base /\ Len(b) \in Nat
  BY DEF Change, Revision
<1>3. /\ Len(b) < Len(r) /\ \A k \in 1..Len(b) : b[k] = r[k]
      /\ Shows(r[Len(b) + 1], change)
  BY <1>2 DEF Begun
<1>4. Len(b) + 1 \in 1..Len(r) /\ \A k \in 1..Len(b) : k \in 1..Len(r)
  BY <1>1, <1>2, <1>3
<1> QED
  BY <1>1, <1>2, <1>3, <1>4 DEF Begun

(* A change is begun by the content that shows it.                         *)
LEMMA BegunNow ==
    ASSUME NEW r \in Revision, NEW c \in Content, NEW change, change.base = r, Shows(c, change)
    PROVE  Begun(change, Append(r, c))
<1>1. PICK x \in Revision : Grown(r, c, x)
  BY Longer
<1>2. /\ x = Append(r, c) /\ Len(r) < Len(x) /\ x[Len(r) + 1] = c
      /\ \A k \in 1..Len(r) : r[k] = x[k]
  BY <1>1 DEF Grown
<1> QED
  BY <1>2 DEF Begun

(* No change that is still to begin has begun.                             *)
LEMMA NotBegun == ASSUME NEW r \in Revision, NEW change, change.base = r PROVE ~Begun(change, r)
BY DEF Begun, Revision

(* The content c may follow in o: the change it carries names its owner,   *)
(* is begun by now, and is shown.                                          *)
Carries(o, c) ==
    c.active # 0 =>
        /\ c.active \in 1..Len(o.changes)
        /\ o.changes[c.active].status = "applying" /\ o.changes[c.active].owner \in Works
        /\ Shows(c, o.changes[c.active])
        /\ o.changes[c.active].base = o.context \/ Begun(o.changes[c.active], o.context)

(* A commit leaves the files in agreement.                                 *)
LEMMA CommitFine ==
    ASSUME NEW o, Fine(o), NEW c \in Content, Carries(o, c), NEW d \in DiskType,
           d.context = Append(o.context, c), d.revisions = o.revisions \cup {d.context},
           d.changes = o.changes, d.works = o.works
    PROVE  Fine(d)
<1>1. o \in DiskType /\ o.context \in Revision /\ o.changes \in Seq(Change) /\ o.works \in [Works -> Work \cup {Nothing}]
  BY DEF Fine, DiskType
<1>2. PICK r, x \in Revision :
         /\ r = o.context /\ x = Append(r, c) /\ x # <<>>
         /\ Len(r) \in Nat /\ Len(x) = Len(r) + 1 /\ Last(x) = c
         /\ SubSeq(x, 1, Len(r) + 1) = x
         /\ \A n \in 1..Len(r) : SubSeq(x, 1, n) = SubSeq(r, 1, n)
  <2>1. PICK r \in Revision : r = o.context
    BY <1>1
  <2>2. PICK x \in Revision : Grown(r, c, x)
    BY Longer
  <2> QED
    BY <2>1, <2>2 DEF Grown
<1>3. d.context = x /\ o.context = r /\ HasContext(d) /\ Active(d) = c.active
  BY <1>2 DEF HasContext, Active
<1>4. \A change \in Change : Begun(change, r) => Begun(change, x)
  BY <1>2, BegunStays
<1>5. \A i \in 1..Len(o.changes) : o.changes[i] \in Change
  BY <1>1
<1>6. Kept(d)
  <2>1. ASSUME NEW n \in 1..Len(x) PROVE SubSeq(x, 1, n) \in d.revisions
    <3>1. CASE n = Len(x)
      BY <1>2, <1>3, <3>1
    <3>2. CASE n # Len(x)
      <4>1. n \in 1..Len(r)
        BY <1>2, <3>2
      <4> QED
        BY <1>2, <4>1 DEF Fine, Kept
    <3> QED
      BY <3>1, <3>2
  <2> QED
    BY <1>3, <2>1 DEF Kept
<1>7. ActiveOK(d)
  <2>1. ASSUME c.active # 0
        PROVE  Begun(o.changes[c.active], x)
    BY <1>2, <1>4, <1>5, <2>1, BegunNow DEF Carries
  <2> QED
    BY <1>2, <1>3, <2>1 DEF ActiveOK, Busy, ChangeOf, Carries
<1>8. CompletedOK(d)
  <2>1. ASSUME NEW i \in 1..Len(o.changes), o.changes[i].status = "completed"
        PROVE  Begun(o.changes[i], x) /\ c.active # i
    BY <1>2, <1>4, <1>5, <2>1 DEF Fine, CompletedOK, Carries
  <2> QED
    BY <1>3, <2>1 DEF CompletedOK
<1>9. ASSUME NEW w \in Works PROVE Right(d, w, d.works[w])
  <2>1. PICK k \in Work \cup {Nothing} : k = o.works[w] /\ k = d.works[w] /\ Right(o, w, k)
    BY <1>1 DEF Fine
  <2>2. SUFFICES ASSUME k # Nothing PROVE Right(d, w, k)
    BY <2>1 DEF Right
  <2>3. k.binding # Nothing => Len(k.binding.at) \in Nat
    BY <2>2 DEF Work, Binding, Revision
  <2>4. k.binding # Nothing => Len(k.binding.at) <= Len(r)
    BY <1>2, <2>1, <2>2 DEF Right
  <2>5. k.binding # Nothing => Len(k.binding.at) <= Len(x) /\ k.binding.at # x
    BY <1>2, <2>3, <2>4
  <2>6. k.change # 0 => /\ k.change \in 1..Len(o.changes)
                        /\ Begun(o.changes[k.change], x) /\ o.changes[k.change].owner = w
    BY <1>2, <1>4, <1>5, <2>1, <2>2 DEF Right
  <2> QED
    BY <1>3, <2>5, <2>6 DEF Right
<1> QED
  BY <1>3, <1>6, <1>7, <1>8, <1>9 DEF Fine

(* A revision that is written before the pointer moves.                    *)
LEMMA RevisionFine ==
    ASSUME NEW o, Fine(o), NEW d \in DiskType, d.context = o.context, o.revisions \subseteq d.revisions,
           d.changes = o.changes, d.works = o.works
    PROVE  Fine(d)
<1>1. Kept(d) /\ ActiveOK(d) /\ CompletedOK(d)
  BY DEF Fine, Kept, ActiveOK, CompletedOK, Busy, HasContext, Active, ChangeOf
<1>2. \A w \in Works : Right(d, w, d.works[w])
  BY DEF Fine, Right, Busy, HasContext, Active, ChangeOf
<1> QED
  BY <1>1, <1>2 DEF Fine, HasContext

(* Changes that are written anew: the one in progress and those a Work     *)
(* carries stay what they are to their Work.                               *)
LEMMA ChangesFine ==
    ASSUME NEW o, Fine(o), HasContext(o), NEW d \in DiskType,
           d.context = o.context, d.revisions = o.revisions, d.works = o.works, Len(d.changes) >= Len(o.changes),
           Busy(o) => d.changes[Active(o)] = o.changes[Active(o)],
           \A i \in 1..Len(d.changes) : d.changes[i].status = "completed" => Begun(d.changes[i], o.context) /\ Active(o) # i,
           \A w \in Works : o.works[w] # Nothing /\ o.works[w].change # 0 =>
              LET i == o.works[w].change
              IN d.changes[i].owner = w /\ Begun(d.changes[i], o.context)
    PROVE  Fine(d)
<1>1. Len(d.changes) \in Nat /\ Len(o.changes) \in Nat
  BY DEF Fine, DiskType
<1>2. HasContext(d) /\ Active(d) = Active(o) /\ (Busy(d) <=> Busy(o))
  BY DEF HasContext, Active, Busy
<1>3. Busy(o) => ChangeOf(d) = ChangeOf(o)
  BY <1>2 DEF ChangeOf
<1>4. Kept(d) /\ CompletedOK(d)
  BY <1>2 DEF Fine, Kept, CompletedOK
<1>5. ActiveOK(d)
  BY <1>1, <1>2, <1>3 DEF Fine, ActiveOK
<1>6. ASSUME NEW w \in Works PROVE Right(d, w, d.works[w])
  <2>1. PICK k : k = o.works[w] /\ k = d.works[w] /\ Right(o, w, k)
    BY DEF Fine
  <2>2. SUFFICES ASSUME k # Nothing PROVE Right(d, w, k)
    BY <2>1 DEF Right
  <2>3. k.change # 0 => /\ k.change \in 1..Len(d.changes)
                        /\ Begun(d.changes[k.change], o.context) /\ d.changes[k.change].owner = w
    BY <1>1, <2>1, <2>2 DEF Right
  <2> QED
    BY <1>2, <1>3, <2>1, <2>2, <2>3 DEF Right
<1> QED
  BY <1>2, <1>4, <1>5, <1>6 DEF Fine

(* Works that are written.                                                 *)
LEMMA WorksFine ==
    ASSUME NEW o, Fine(o), NEW d \in DiskType, d.context = o.context, d.revisions = o.revisions,
           d.changes = o.changes, \A w \in Works : Right(o, w, d.works[w])
    PROVE  Fine(d)
<1>1. Kept(d) /\ ActiveOK(d) /\ CompletedOK(d)
  BY DEF Fine, Kept, ActiveOK, CompletedOK, Busy, HasContext, Active, ChangeOf
<1>2. \A w \in Works : Right(d, w, d.works[w])
  BY DEF Right, Busy, HasContext, Active, ChangeOf
<1> QED
  BY <1>1, <1>2 DEF Fine, HasContext

-----------------------------------------------------------------------------
(* What a command may leave.                                               *)

(* What the context accepts of each scope.                                 *)
ScopesOf(d) == IF HasContext(d) THEN Last(d.context).scopes ELSE [s \in Scopes |-> Nothing]

(* No Work is bound to the scope, and none is without binding.             *)
Free(d, s) == \A w \in Works : d.works[w] # Nothing => d.works[w].binding # Nothing /\ s \notin d.works[w].binding.scopes

(* The content c differs from what is there in the scope s only, and gives *)
(* it another stack only for a change or where no Work is bound.           *)
Settled(d, c, s) ==
    /\ \A t \in Scopes : t # s => c.scopes[t] = ScopesOf(d)[t]
    /\ HasContext(d) /\ ScopesOf(d)[s] # Nothing /\ c.scopes[s].stack # ScopesOf(d)[s].stack => c.active # 0 \/ Free(d, s)

(* The Works that d leaves otherwise than o are the owner's of the change  *)
(* in progress, or say nothing that is not right.                          *)
WorksFollow(o, d) ==
    \A w \in Works : d.works[w] # o.works[w] =>
        d.works[w] # Nothing /\ (Right(o, w, d.works[w]) \/ ~Busy(o) \/ ChangeOf(o).owner = w)

(* A command that began with o may leave d.                                *)
Follows(o, d) ==
    /\ \/ d.context = o.context
       \/ \E c \in Content, s \in Scopes : d.context = Append(o.context, c) /\ Settled(o, c, s)
    /\ WorksFollow(o, d)

(* Nothing of the Works changed, but perhaps who is active.                *)
NoNewWork(o, d) == \A w \in Works : o.works[w] = Nothing => d.works[w] = Nothing

(* A command leaves one of its disks.                                      *)
LEMMA Written == ASSUME NEW s, Len(s) \in Nat \ {0}, Writes(s) PROVE \E i \in 1..Len(s) : disk' = s[i]
<1>1. Len(s) \in 1..Len(s) /\ \A i \in 1..(Len(s) - 1) : i \in 1..Len(s)
  OBVIOUS
<1> QED
  BY <1>1 DEF Writes, Last

(* Commands of one, two, three and four writes.                            *)
LEMMA WrittenOne == ASSUME NEW a, Writes(<<a>>) PROVE disk' = a
<1>1. PICK s : s = <<a>> /\ Len(s) = 1 /\ s[1] = a
  OBVIOUS
<1> QED
  BY <1>1, Written

(* A command of two writes.                                                *)
LEMMA WrittenTwo == ASSUME NEW a, NEW b, Writes(<<a, b>>) PROVE disk' \in {a, b}
<1>1. PICK s : s = <<a, b>> /\ Len(s) = 2 /\ s[1] = a /\ s[2] = b
  OBVIOUS
<1> QED
  BY <1>1, Written

(* A command of three writes.                                              *)
LEMMA WrittenThree == ASSUME NEW a, NEW b, NEW c, Writes(<<a, b, c>>) PROVE disk' \in {a, b, c}
<1>1. PICK s : s = <<a, b, c>> /\ Len(s) = 3 /\ s[1] = a /\ s[2] = b /\ s[3] = c
  OBVIOUS
<1> QED
  BY <1>1, Written

(* A command of four writes.                                               *)
LEMMA WrittenFour == ASSUME NEW a, NEW b, NEW c, NEW d, Writes(<<a, b, c, d>>) PROVE disk' \in {a, b, c, d}
<1>1. PICK s : s = <<a, b, c, d>> /\ Len(s) = 4 /\ s[1] = a /\ s[2] = b /\ s[3] = c /\ s[4] = d
  OBVIOUS
<1> QED
  BY <1>1, Written

(* The two disks of a commit.                                              *)
LEMMA Committing ==
    ASSUME NEW o, Fine(o), NEW c \in Content, Carries(o, c)
    PROVE  \E e, d \in DiskType :
              /\ Commit(o, c) = <<e, d>> /\ Fine(e) /\ Fine(d)
              /\ e.context = o.context /\ d.context = Append(o.context, c)
              /\ e.changes = o.changes /\ d.changes = o.changes
              /\ e.works = o.works /\ d.works = o.works
<1>1. PICK x \in Revision : x = Append(o.context, c)
  <2>1. PICK r \in Revision : r = o.context
    BY DEF Fine, DiskType
  <2>2. PICK x \in Revision : Grown(r, c, x)
    BY Longer
  <2> QED
    BY <2>1, <2>2 DEF Grown
<1> DEFINE e == [o EXCEPT !.revisions = @ \cup {x}]
           d == [o EXCEPT !.context = x, !.revisions = @ \cup {x}]
<1>2. /\ e \in DiskType /\ d \in DiskType
      /\ e.context = o.context /\ d.context = x /\ d.revisions = o.revisions \cup {x} /\ o.revisions \subseteq e.revisions
      /\ e.changes = o.changes /\ d.changes = o.changes /\ e.works = o.works /\ d.works = o.works
  BY DEF Fine, DiskType
<1>3. Commit(o, c) = <<e, d>>
  BY <1>1 DEF Commit
<1> HIDE DEF e, d
<1>4. Fine(e)
  BY <1>2, RevisionFine
<1>5. Fine(d)
  BY <1>1, <1>2, CommitFine
<1> QED
  BY <1>1, <1>2, <1>3, <1>4, <1>5

(* What With gives.                                                        *)
LEMMA WithIs ==
    ASSUME NEW content \in Content, NEW s \in Scopes, NEW stack \in Stacks
    PROVE  /\ With(content, s, stack) \in Content
           /\ With(content, s, stack).active = content.active
           /\ With(content, s, stack).scopes[s] # Nothing /\ With(content, s, stack).scopes[s].stack = stack
           /\ \A t \in Scopes : t # s => With(content, s, stack).scopes[t] = content.scopes[t]
<1>1. PICK k \in Scope : k = [stack |-> stack, identity |-> IF content.scopes[s] = Nothing THEN Nothing ELSE content.scopes[s].identity]
  <2>1. content.scopes[s] \in Scope \cup {Nothing}
    BY DEF Content
  <2>2. (IF content.scopes[s] = Nothing THEN Nothing ELSE content.scopes[s].identity) \in Identities \cup {Nothing}
    BY <2>1 DEF Scope
  <2> QED
    BY <2>2 DEF Scope
<1>2. With(content, s, stack) = [content EXCEPT !.scopes = [content.scopes EXCEPT ![s] = k]]
  BY <1>1 DEF With, Content
<1>3. k # Nothing /\ k.stack = stack
  BY <1>1, ContextAssumption
<1> QED
  BY <1>2, <1>3 DEF Content

(* The content that is there, or the empty one.                            *)
LEMMA BaseIs ==
    ASSUME Fine(disk)
    PROVE  /\ Base \in Content /\ Base.scopes = ScopesOf(disk)
           /\ Known <=> HasContext(disk)
           /\ Known => Base = Current /\ Current = Last(disk.context) /\ Current.active = Active(disk)
           /\ ~Known => Base.active = 0
<1>1. disk.context \in Seq(Content) /\ (disk.context # <<>> => Last(disk.context) \in Content)
  BY DEF Fine, DiskType, Revision, Last
<1>2. Empty \in Content
  BY DEF Empty, Content
<1> QED
  BY <1>1, <1>2 DEF Base, Known, Current, HasContext, ScopesOf, Active, Empty

(* A commit that settles a scope and nothing else.                         *)
LEMMA CommitFollows ==
    ASSUME Fine(disk), NEW c \in Content, Carries(disk, c), NEW s \in Scopes, Settled(disk, c, s)
    PROVE  \E e, d \in DiskType :
              /\ Commit(disk, c) = <<e, d>> /\ Fine(e) /\ Fine(d) /\ Follows(disk, e) /\ Follows(disk, d)
              /\ e.context = disk.context /\ d.context = Append(disk.context, c)
              /\ e.changes = disk.changes /\ d.changes = disk.changes
              /\ e.works = disk.works /\ d.works = disk.works
<1>1. PICK e, d \in DiskType :
         /\ Commit(disk, c) = <<e, d>> /\ Fine(e) /\ Fine(d)
         /\ e.context = disk.context /\ d.context = Append(disk.context, c)
         /\ e.changes = disk.changes /\ d.changes = disk.changes
         /\ e.works = disk.works /\ d.works = disk.works
  BY Committing
<1> QED
  BY <1>1 DEF Follows, WorksFollow

(* The change in progress goes on with a content that keeps its scope.     *)
LEMMA GoesOn ==
    ASSUME Fine(disk), NEW c \in Content, c.active # 0 => Busy(disk) /\ c.active = Active(disk) /\ Shows(c, ChangeOf(disk))
    PROVE  Carries(disk, c)
BY DEF Fine, ActiveOK, Carries, ChangeOf, Busy

(* project context set                                                     *)
LEMMA SetContextFine ==
    ASSUME Fine(disk), NEW s \in Scopes, NEW stack \in Stacks, SetContext(s, stack)
    PROVE  Fine(disk') /\ Follows(disk, disk') /\ disk'.works = disk.works
<1>1. PICK c \in Content :
         /\ c = With(Base, s, stack) /\ c.active = Base.active /\ c.scopes[s] # Nothing /\ c.scopes[s].stack = stack
         /\ \A t \in Scopes : t # s => c.scopes[t] = Base.scopes[t]
  BY BaseIs, WithIs
<1>2. Settles(s, stack) /\ Writes(Commit(disk, c))
  BY <1>1 DEF SetContext, Commanded
<1>3. Base.scopes[s] # Nothing => /\ Known /\ Current.active = 0
                                  /\ \A w \in Works : disk.works[w] # Nothing => disk.works[w].binding # Nothing /\ s \notin disk.works[w].binding.scopes
  BY <1>2 DEF Settles, Bootstrap, Overlap
<1>4. Carries(disk, c)
  <2>1. ASSUME c.active # 0 PROVE Busy(disk) /\ c.active = Active(disk) /\ Shows(c, ChangeOf(disk))
    <3>1. Known /\ Busy(disk) /\ c.active = Active(disk) /\ Base.scopes[s] = Nothing
      BY <1>1, <1>3, <2>1, BaseIs DEF Busy
    <3>2. ChangeOf(disk).scope # s /\ ChangeOf(disk).scope \in Scopes /\ Base.scopes = Last(disk.context).scopes
      <4>1. ChangeOf(disk) \in Change /\ Shows(Last(disk.context), ChangeOf(disk))
        BY <3>1 DEF Fine, ActiveOK, ChangeOf, DiskType
      <4> QED
        BY <3>1, <4>1, BaseIs DEF Shows, Change
    <3> QED
      BY <1>1, <3>1, <3>2 DEF Fine, ActiveOK, Shows
  <2> QED
    BY <2>1, GoesOn
<1>5. Settled(disk, c, s)
  BY <1>1, <1>3, BaseIs DEF Settled, Free
<1>6. PICK e, d \in DiskType :
         /\ Commit(disk, c) = <<e, d>> /\ Fine(e) /\ Fine(d) /\ Follows(disk, e) /\ Follows(disk, d)
         /\ e.works = disk.works /\ d.works = disk.works
  BY <1>4, <1>5, CommitFollows
<1>7. disk' \in {e, d}
  BY <1>2, <1>6, WrittenTwo
<1> QED
  BY <1>6, <1>7

(* Changes that were not begun may be written anew, as long as they are not *)
(* completed by it.                                                        *)
LEMMA UnbegunFine ==
    ASSUME Fine(disk), HasContext(disk), NEW d \in DiskType,
           d.context = disk.context, d.revisions = disk.revisions, d.works = disk.works,
           Len(d.changes) >= Len(disk.changes),
           \A i \in 1..Len(d.changes) :
              \/ i \in 1..Len(disk.changes) /\ d.changes[i] = disk.changes[i]
              \/ /\ d.changes[i].status # "completed"
                 /\ i \in 1..Len(disk.changes) => disk.changes[i].base = disk.context
    PROVE  Fine(d)
<1>1. Len(d.changes) \in Nat /\ Len(disk.changes) \in Nat /\ disk.context \in Revision
  BY DEF Fine, DiskType
<1>2. \A i \in 1..Len(disk.changes) : i \in 1..Len(d.changes)
  BY <1>1
<1>3. \A i \in 1..Len(disk.changes) : Begun(disk.changes[i], disk.context) => d.changes[i] = disk.changes[i]
  BY <1>1, <1>2, NotBegun
<1>4. Busy(disk) => d.changes[Active(disk)] = disk.changes[Active(disk)]
  BY <1>3 DEF Fine, ActiveOK, ChangeOf
<1>5. \A i \in 1..Len(d.changes) : d.changes[i].status = "completed" => Begun(d.changes[i], disk.context) /\ Active(disk) # i
  BY DEF Fine, CompletedOK
<1>6. \A w \in Works : disk.works[w] # Nothing /\ disk.works[w].change # 0 =>
        LET i == disk.works[w].change
        IN d.changes[i].owner = w /\ Begun(d.changes[i], disk.context)
  BY <1>3 DEF Fine, Right
<1> QED
  BY <1>4, <1>5, <1>6, ChangesFine

(* A change is proposed after the context is known.                        *)
LEMMA ContextFirst == ASSUME Fine(disk), NEW i \in 1..Len(disk.changes) PROVE HasContext(disk) /\ disk.changes[i] \in Change
<1>1. disk.changes \in Seq(Change) /\ disk.changes # <<>>
  BY DEF Fine, DiskType
<1> QED
  BY <1>1 DEF Fine

(* The last element of a sequence is one of its elements.                  *)
LEMMA LastOne == ASSUME NEW S, NEW q \in Seq(S), q # <<>> PROVE Last(q) \in S
<1>1. Len(q) \in 1..Len(q)
  OBVIOUS
<1> QED
  BY <1>1 DEF Last

(* The sequence X is q with one more element.                              *)
OneMore(q, e, X) ==
    /\ X = Append(q, e) /\ Len(X) = Len(q) + 1
    /\ (\A i \in 1..Len(q) : X[i] = q[i]) /\ X[Len(q) + 1] = e

(* There is always one more.                                               *)
LEMMA AddedOne == ASSUME NEW S, NEW q \in Seq(S), NEW e \in S PROVE \E X \in Seq(S) : OneMore(q, e, X)
<1>1. PICK X : X = Append(q, e)
  OBVIOUS
<1>2. /\ X \in Seq(S) /\ Len(X) = Len(q) + 1
      /\ (\A i \in 1..Len(q) : X[i] = q[i]) /\ X[Len(q) + 1] = e
  BY <1>1
<1> QED
  BY <1>1, <1>2 DEF OneMore

(* project context change propose                                          *)
LEMMA ProposeFine ==
    ASSUME Fine(disk), NEW s \in Scopes, NEW stack \in Stacks, Propose(s, stack)
    PROVE  Fine(disk') /\ Follows(disk, disk') /\ disk'.works = disk.works
<1> DEFINE same == {i \in 1..Len(disk.changes) : <<disk.changes[i].base, disk.changes[i].scope, disk.changes[i].stack>>
                                                = <<disk.context, s, stack>>}
<1>1. disk \in DiskType /\ disk.context \in Revision /\ disk.changes \in Seq(Change) /\ Len(disk.changes) \in Nat
  BY DEF Fine, DiskType
<1>2. PICK change \in Change :
         /\ change = [base |-> disk.context, scope |-> s, stack |-> stack, status |-> "proposed", owner |-> Nothing, applied |-> <<>>]
         /\ change.status = "proposed"
  <2>1. <<>> \in Revision /\ Nothing \in Works \cup {"project_initialization", Nothing}
    BY DEF Revision
  <2>2. PICK r : r = [base |-> disk.context, scope |-> s, stack |-> stack, status |-> "proposed", owner |-> Nothing, applied |-> <<>>]
    OBVIOUS
  <2>3. r \in Change /\ r.status = "proposed"
    BY <1>1, <2>1, <2>2 DEF Change
  <2> QED
    BY <2>2, <2>3
<1>3. HasContext(disk)
  BY DEF Propose, Known, HasContext
<1>4. CASE same = {}
  <2>1. PICK d : d = [disk EXCEPT !.changes = Append(@, change)]
    OBVIOUS
  <2>2. Writes(<<d>>)
    BY <1>2, <1>4, <2>1 DEF Propose, Commanded
  <2>3. PICK X \in Seq(Change) : /\ X = Append(disk.changes, change) /\ Len(X) = Len(disk.changes) + 1
                                 /\ \A i \in 1..Len(disk.changes) : X[i] = disk.changes[i]
                                 /\ X[Len(disk.changes) + 1] = change
    <3>1. PICK X \in Seq(Change) : OneMore(disk.changes, change, X)
      BY <1>1, AddedOne
    <3> QED
      BY <3>1 DEF OneMore
  <2>4. /\ d \in DiskType /\ d.changes = X
        /\ d.context = disk.context /\ d.revisions = disk.revisions /\ d.works = disk.works
    BY <1>1, <2>1, <2>3 DEF DiskType
  <2>5. \A i \in 1..Len(X) : i \in 1..Len(disk.changes) \/ (i = Len(disk.changes) + 1 /\ i \notin 1..Len(disk.changes))
    BY <1>1, <2>3
  <2>6. \A i \in 1..Len(d.changes) :
           \/ i \in 1..Len(disk.changes) /\ d.changes[i] = disk.changes[i]
           \/ /\ d.changes[i].status # "completed"
              /\ i \in 1..Len(disk.changes) => disk.changes[i].base = disk.context
    BY <1>2, <2>3, <2>4, <2>5
  <2>7. Fine(d)
    BY <1>1, <1>3, <2>3, <2>4, <2>6, UnbegunFine
  <2>8. disk' = d
    BY <2>2, WrittenOne
  <2> QED
    BY <2>4, <2>7, <2>8 DEF Follows, WorksFollow
<1>5. CASE same # {}
  <2>1. PICK X : X = [i \in DOMAIN disk.changes |-> IF i \in same THEN change ELSE disk.changes[i]]
    OBVIOUS
  <2>2. PICK d : d = [disk EXCEPT !.changes = X]
    OBVIOUS
  <2>3. Writes(<<d>>)
    BY <1>2, <1>5, <2>1, <2>2 DEF Propose, Commanded
  <2>4. /\ DOMAIN disk.changes = 1..Len(disk.changes)
        /\ \A i \in 1..Len(disk.changes) : X[i] \in Change /\ (X[i] = disk.changes[i] \/ (X[i] = change /\ i \in same))
    BY <1>1, <1>2, <2>1
  <2>5. X \in Seq(Change) /\ Len(X) = Len(disk.changes)
    BY <1>1, <2>1, <2>4
  <2>6. /\ d \in DiskType /\ d.changes = X
        /\ d.context = disk.context /\ d.revisions = disk.revisions /\ d.works = disk.works
    BY <1>1, <2>2, <2>5 DEF DiskType
  <2>7. \A i \in same : disk.changes[i].base = disk.context
    OBVIOUS
  <2>8. Fine(d)
    BY <1>1, <1>2, <1>3, <2>4, <2>5, <2>6, <2>7, UnbegunFine
  <2>9. disk' = d
    BY <2>3, WrittenOne
  <2> QED
    BY <2>6, <2>8, <2>9 DEF Follows, WorksFollow
<1> QED
  BY <1>4, <1>5

(* The content a change based on the present one leads to.                 *)
LEMMA TargetIs ==
    ASSUME Fine(disk), NEW i \in 1..Len(disk.changes), disk.changes[i].base = disk.context, NEW n \in Nat
    PROVE  \E c \in Content :
              /\ c = [Target(disk.changes[i]) EXCEPT !.active = n] /\ c.active = n /\ Shows(c, disk.changes[i])
              /\ disk.changes[i].scope \in Scopes
              /\ \A t \in Scopes : t # disk.changes[i].scope => c.scopes[t] = ScopesOf(disk)[t]
<1>1. PICK change \in Change : change = disk.changes[i] /\ change.scope \in Scopes /\ change.stack \in Stacks
  BY ContextFirst DEF Change
<1>2. HasContext(disk) /\ Base = Last(change.base) /\ Base \in Content /\ Base.scopes = ScopesOf(disk)
  BY <1>1, ContextFirst, BaseIs
<1>3. PICK k \in Content :
         /\ k = Target(change) /\ k.scopes[change.scope] # Nothing /\ k.scopes[change.scope].stack = change.stack
         /\ \A t \in Scopes : t # change.scope => k.scopes[t] = Base.scopes[t]
  BY <1>1, <1>2, WithIs DEF Target
<1>4. PICK c : c = [k EXCEPT !.active = n] /\ c = [Target(disk.changes[i]) EXCEPT !.active = n]
  BY <1>1, <1>3
<1>5. c \in Content /\ c.active = n /\ c.scopes = k.scopes
  BY <1>4 DEF Content
<1>6. /\ Shows(c, disk.changes[i]) /\ disk.changes[i].scope \in Scopes
      /\ \A t \in Scopes : t # disk.changes[i].scope => c.scopes[t] = ScopesOf(disk)[t]
  BY <1>1, <1>2, <1>3, <1>5 DEF Shows
<1> QED
  BY <1>4, <1>5, <1>6

(* What Append gives, by its length and its places.                        *)
LEMMA AppendIs ==
    ASSUME NEW S, NEW p \in Seq(S), NEW q \in Seq(S), NEW c \in S,
           Len(q) = Len(p) + 1, q[Len(p) + 1] = c, \A k \in 1..Len(p) : q[k] = p[k]
    PROVE  Append(p, c) = q
<1>1. PICK r : r = Append(p, c)
  OBVIOUS
<1>2. r \in Seq(S) /\ Len(r) = Len(p) + 1 /\ r[Len(p) + 1] = c /\ \A k \in 1..Len(p) : r[k] = p[k]
  BY <1>1
<1>3. \A k \in 1..Len(r) : r[k] = q[k]
  BY <1>2
<1>4. r = q
  BY <1>2, <1>3
<1> QED
  BY <1>1, <1>4

(* The last of two writes, and a third after them.                         *)
LEMMA AfterTwo ==
    ASSUME NEW S, NEW a \in S, NEW b \in S, NEW c \in S
    PROVE  Last(<<a, b>>) = b /\ Append(<<a, b>>, c) = <<a, b, c>>
<1>1. PICK p : p = <<a, b>>
  OBVIOUS
<1>2. PICK q : q = <<a, b, c>>
  OBVIOUS
<1>3. p \in Seq(S) /\ Len(p) = 2 /\ p[1] = a /\ p[2] = b
  BY <1>1
<1>4. q \in Seq(S) /\ Len(q) = 3 /\ q[1] = a /\ q[2] = b /\ q[3] = c
  BY <1>2
<1>5. Len(q) = Len(p) + 1 /\ q[Len(p) + 1] = c /\ \A k \in 1..Len(p) : q[k] = p[k]
  BY <1>3, <1>4
<1>6. Append(p, c) = q
  <2>1. p \in Seq(S) /\ q \in Seq(S)
    BY <1>3, <1>4
  <2> QED
    BY <1>5, <2>1, AppendIs
<1>7. Last(p) = b
  BY <1>3 DEF Last
<1> QED
  BY <1>1, <1>2, <1>6, <1>7

(* project context change apply where no Work is involved                  *)
LEMMA ApplyToInitializationFine ==
    ASSUME Fine(disk), NEW i \in 1..Len(disk.changes), ApplyToInitialization(i)
    PROVE  Fine(disk') /\ Follows(disk, disk') /\ disk'.works = disk.works
<1>1. /\ HasContext(disk) /\ disk.changes[i] \in Change
      /\ disk.context \in Revision /\ disk.changes \in Seq(Change)
      /\ \A j \in 1..Len(disk.changes) : disk.changes[j] \in Change
  BY ContextFirst DEF Fine, DiskType
<1>2. PICK change \in Change : change = disk.changes[i]
  BY <1>1
<1>3. /\ change.base = disk.context /\ Bootstrap(change.scope) /\ Current.active = 0
  BY <1>2 DEF ApplyToInitialization, BasedOnCurrent, Bootstrap
<1>4. PICK c \in Content :
         /\ c = [Target(change) EXCEPT !.active = 0] /\ c.active = 0 /\ Shows(c, change) /\ change.scope \in Scopes
         /\ \A t \in Scopes : t # change.scope => c.scopes[t] = ScopesOf(disk)[t]
  <2>1. PICK n \in Nat : n = 0
    OBVIOUS
  <2>2. PICK c \in Content :
           /\ c = [Target(disk.changes[i]) EXCEPT !.active = n] /\ c.active = n /\ Shows(c, disk.changes[i])
           /\ disk.changes[i].scope \in Scopes
           /\ \A t \in Scopes : t # disk.changes[i].scope => c.scopes[t] = ScopesOf(disk)[t]
    BY <1>2, <1>3, TargetIs
  <2> QED
    BY <1>2, <2>1, <2>2
<1>5. Carries(disk, c) /\ Settled(disk, c, change.scope)
  BY <1>3, <1>4 DEF Carries, Settled, Bootstrap, Free, Overlap
<1>6. PICK e, d \in DiskType :
         /\ Commit(disk, c) = <<e, d>> /\ Fine(e) /\ Fine(d) /\ Follows(disk, e) /\ Follows(disk, d)
         /\ d.context = Append(disk.context, c)
         /\ d.changes = disk.changes
         /\ e.works = disk.works /\ d.works = disk.works
  BY <1>4, <1>5, CommitFollows
<1>8. d.context \in Revision /\ d.context # <<>> /\ Last(d.context) = c
  <2>1. PICK x \in Revision : x = Append(disk.context, c) /\ x # <<>> /\ Last(x) = c
    <3>1. PICK r \in Revision : r = disk.context
      BY <1>1
    <3>2. PICK x \in Revision : Grown(r, c, x)
      BY Longer
    <3> QED
      BY <3>1, <3>2 DEF Grown
  <2> QED
    BY <1>6, <2>1
<1>9. PICK applied \in Change :
         /\ applied = [change EXCEPT !.status = "completed", !.owner = "project_initialization", !.applied = d.context]
         /\ applied.base = disk.context /\ applied.scope = change.scope /\ applied.stack = change.stack
         /\ applied.status = "completed"
  <2>1. PICK r \in Revision : r = d.context
    BY <1>8
  <2>2. PICK a : a = [change EXCEPT !.status = "completed", !.owner = "project_initialization", !.applied = r]
    OBVIOUS
  <2>3. /\ a \in Change /\ a.base = change.base /\ a.scope = change.scope /\ a.stack = change.stack
        /\ a.status = "completed"
    BY <2>2 DEF Change
  <2> QED
    BY <1>3, <2>1, <2>2, <2>3
<1>10. PICK f : f = [d EXCEPT !.changes[i] = applied]
  OBVIOUS
<1>11. /\ f \in DiskType /\ f.context = d.context /\ f.revisions = d.revisions /\ f.works = disk.works
       /\ Len(f.changes) = Len(disk.changes) /\ f.changes[i] = applied
       /\ \A j \in 1..Len(disk.changes) : j # i => f.changes[j] = disk.changes[j]
  <2>1. PICK X : X = [disk.changes EXCEPT ![i] = applied]
    OBVIOUS
  <2>2. /\ X \in Seq(Change) /\ Len(X) = Len(disk.changes) /\ X[i] = applied
        /\ \A j \in 1..Len(disk.changes) : j # i => X[j] = disk.changes[j]
    BY <1>1, <1>9, <2>1
  <2>3. f = [d EXCEPT !.changes = X]
    BY <1>6, <1>10, <2>1 DEF DiskType
  <2> QED
    BY <1>6, <2>2, <2>3 DEF DiskType
<1>12. Begun(applied, d.context)
  <2>1. Shows(c, applied)
    BY <1>4, <1>9 DEF Shows
  <2> QED
    BY <1>1, <1>4, <1>6, <1>9, <2>1, BegunNow
<1>13. Fine(f)
  <2>1. HasContext(d) /\ ~Busy(d) /\ Active(d) = 0
    BY <1>4, <1>8 DEF HasContext, Busy, Active
  <2>2. \A j \in 1..Len(f.changes) : f.changes[j].status = "completed" => Begun(f.changes[j], d.context) /\ Active(d) # j
    <3>1. CompletedOK(d)
      BY <1>6 DEF Fine
    <3> QED
      BY <1>6, <1>11, <1>12, <2>1, <3>1 DEF CompletedOK
  <2>3. \A w \in Works : d.works[w] # Nothing /\ d.works[w].change # 0 =>
          LET j == d.works[w].change
          IN f.changes[j].owner = w /\ Begun(f.changes[j], d.context)
    <3>1. ASSUME NEW w \in Works, d.works[w] # Nothing, d.works[w].change # 0
          PROVE  f.changes[d.works[w].change].owner = w /\ Begun(f.changes[d.works[w].change], d.context)
      <4>1. Right(disk, w, disk.works[w]) /\ Right(d, w, d.works[w])
        BY <1>6 DEF Fine
      <4>2. PICK j : j = d.works[w].change /\ j = disk.works[w].change
        BY <1>6
      <4>3. /\ j \in 1..Len(disk.changes) /\ Begun(disk.changes[j], disk.context)
            /\ Begun(disk.changes[j], d.context) /\ disk.changes[j].owner = w
        BY <1>6, <3>1, <4>1, <4>2 DEF Right
      <4>4. j # i
        BY <1>1, <1>2, <1>3, <4>3, NotBegun
      <4> QED
        BY <1>11, <4>2, <4>3, <4>4
    <3> QED
      BY <3>1
  <2>4. Len(f.changes) >= Len(d.changes)
    BY <1>1, <1>6, <1>11
  <2> QED
    BY <1>6, <1>11, <2>1, <2>2, <2>3, <2>4, ChangesFine
<1>14. Follows(disk, f)
  BY <1>4, <1>5, <1>6, <1>11 DEF Follows, WorksFollow
<1>15. disk' \in {e, d, f}
  <2>1. Last(Commit(disk, c)) = d /\ Append(Commit(disk, c), f) = <<e, d, f>>
    BY <1>6, <1>11, AfterTwo
  <2>2. /\ c = [Target(disk.changes[i]) EXCEPT !.active = Current.active]
        /\ applied = [disk.changes[i] EXCEPT !.status = "completed", !.owner = "project_initialization",
                                             !.applied = Last(Commit(disk, c)).context]
    BY <1>2, <1>3, <1>4, <1>9, <2>1
  <2>3. Writes(Append(Commit(disk, c), f))
    BY <1>10, <2>1, <2>2 DEF ApplyToInitialization, Commanded
  <2> QED
    BY <2>1, <2>3, WrittenThree
<1> QED
  BY <1>6, <1>11, <1>13, <1>14, <1>15

(* A Work is bound to the present revision, for a change.                  *)
LEMMA BoundIs ==
    ASSUME NEW d \in DiskType, NEW w \in Works, NEW i \in Nat, d.works[w] # Nothing, d.works[w].binding # Nothing
    PROVE  \E f \in DiskType :
              /\ f = Bound(d, w, i)
              /\ f.context = d.context /\ f.revisions = d.revisions /\ f.changes = d.changes
              /\ f.works[w] # Nothing /\ f.works[w].binding.at = d.context /\ f.works[w].change = i
              /\ f.works[w].binding # Nothing
              /\ \A v \in Works : v # w => f.works[v] = d.works[v]
<1>1. d.context \in Revision /\ d.works \in [Works -> Work \cup {Nothing}]
  BY DEF DiskType
<1>2. PICK k \in Work : k = d.works[w] /\ k.binding \in Binding
  <2>1. PICK k \in Work : k = d.works[w]
    BY <1>1
  <2> QED
    BY <2>1 DEF Work
<1>3. PICK b \in Binding : b = [k.binding EXCEPT !.at = d.context] /\ b.at = d.context
  <2>1. PICK o \in Binding, r \in Revision : o = k.binding /\ r = d.context
    BY <1>1, <1>2
  <2>2. PICK b : b = [o EXCEPT !.at = r]
    OBVIOUS
  <2>3. b \in Binding /\ b.at = r
    BY <2>2 DEF Binding
  <2> QED
    BY <2>1, <2>2, <2>3
<1>4. PICK n : n = [k EXCEPT !.binding = b, !.change = i]
  OBVIOUS
<1>5. n \in Work /\ n.binding = b /\ n.change = i
  BY <1>2, <1>3, <1>4 DEF Work
<1>6. PICK X : X = [d.works EXCEPT ![w] = n]
  OBVIOUS
<1>7. X \in [Works -> Work \cup {Nothing}] /\ X[w] = n /\ \A v \in Works : v # w => X[v] = d.works[v]
  BY <1>1, <1>5, <1>6
<1>8. PICK f : f = [d EXCEPT !.works = X]
  OBVIOUS
<1>9. /\ f \in DiskType /\ f.works = X
      /\ f.context = d.context /\ f.revisions = d.revisions /\ f.changes = d.changes
  BY <1>7, <1>8 DEF DiskType
<1>10. f = Bound(d, w, i)
  <2>1. [k EXCEPT !.binding.at = d.context] = [k EXCEPT !.binding = b]
    BY <1>2, <1>3 DEF Work
  <2>2. [d EXCEPT !.works[w].binding.at = d.context] = [d EXCEPT !.works = [d.works EXCEPT ![w] = [k EXCEPT !.binding = b]]]
    BY <1>2, <2>1
  <2>3. [[d EXCEPT !.works[w].binding.at = d.context] EXCEPT !.works[w].change = i]
        = [d EXCEPT !.works = [d.works EXCEPT ![w] = [[k EXCEPT !.binding = b] EXCEPT !.change = i]]]
    BY <1>1, <2>2 DEF DiskType
  <2> QED
    BY <1>4, <1>6, <1>8, <2>3 DEF Bound
<1> QED
  BY <1>3, <1>5, <1>7, <1>9, <1>10, ContextAssumption

(* The owner of the change in progress is bound to the present revision.   *)
LEMMA BoundFine ==
    ASSUME NEW d, Fine(d), Busy(d), NEW w \in Works, ChangeOf(d).owner = w,
           d.works[w] # Nothing, d.works[w].binding # Nothing
    PROVE  \E f \in DiskType :
              /\ f = Bound(d, w, Active(d)) /\ Fine(f)
              /\ f.context = d.context /\ f.works[w] # Nothing
              /\ \A v \in Works : v # w => f.works[v] = d.works[v]
<1>1. /\ d \in DiskType /\ d.changes \in Seq(Change) /\ Len(d.changes) \in Nat /\ d.context \in Revision
      /\ Active(d) \in 1..Len(d.changes) /\ Begun(ChangeOf(d), d.context)
  BY DEF Fine, DiskType, ActiveOK
<1>2. Active(d) \in Nat
  BY <1>1
<1>3. PICK f \in DiskType :
         /\ f = Bound(d, w, Active(d))
         /\ f.context = d.context /\ f.revisions = d.revisions /\ f.changes = d.changes
         /\ f.works[w] # Nothing /\ f.works[w].binding.at = d.context /\ f.works[w].change = Active(d)
         /\ \A v \in Works : v # w => f.works[v] = d.works[v]
  BY <1>1, <1>2, BoundIs
<1>4. Right(d, w, f.works[w])
  <2>1. Len(d.context) <= Len(d.context)
    BY <1>1 DEF Revision
  <2> QED
    BY <1>1, <1>3, <2>1 DEF Right, ChangeOf
<1>5. \A v \in Works : Right(d, v, f.works[v])
  BY <1>3, <1>4 DEF Fine
<1>6. Fine(f)
  BY <1>3, <1>5, WorksFine
<1> QED
  BY <1>3, <1>6

(* A change is applied again by its owner.                                 *)
LEMMA ApplyAgainFine ==
    ASSUME Fine(disk), NEW i \in 1..Len(disk.changes), NEW w \in Works, Apply(w, i), Current.active = i
    PROVE  Fine(disk') /\ Follows(disk, disk') /\ NoNewWork(disk, disk')
<1>1. HasContext(disk) /\ Busy(disk) /\ Active(disk) = i
  BY ContextFirst, BaseIs DEF Busy
<1>2. /\ ChangeOf(disk).owner = w /\ disk.works[w] # Nothing /\ disk.works[w].binding # Nothing
      /\ Writes(<<Bound(disk, w, i)>>)
  BY <1>1 DEF Apply, TakesUp, ChangeOf, Commanded
<1>3. PICK f \in DiskType :
         /\ f = Bound(disk, w, Active(disk)) /\ Fine(f)
         /\ f.context = disk.context /\ f.works[w] # Nothing
         /\ \A v \in Works : v # w => f.works[v] = disk.works[v]
  BY <1>1, <1>2, BoundFine
<1>4. disk' = f
  BY <1>1, <1>2, <1>3, WrittenOne
<1>5. Follows(disk, f)
  BY <1>2, <1>3 DEF Follows, WorksFollow
<1> QED
  BY <1>2, <1>3, <1>4, <1>5 DEF NoNewWork

(* The change that a Work begins to apply names it first.                  *)
LEMMA OwnedIs ==
    ASSUME Fine(disk), NEW i \in 1..Len(disk.changes), NEW w \in Works, BasedOnCurrent(disk.changes[i])
    PROVE  \E o \in DiskType :
              /\ o = [disk EXCEPT !.changes[i].status = "applying", !.changes[i].owner = w]
              /\ Fine(o) /\ o.context = disk.context /\ o.works = disk.works
              /\ i \in 1..Len(o.changes) /\ o.changes[i].status = "applying" /\ o.changes[i].owner = w
              /\ o.changes[i].base = disk.context
              /\ o.changes[i].scope = disk.changes[i].scope /\ o.changes[i].stack = disk.changes[i].stack
<1>1. disk \in DiskType /\ disk.changes \in Seq(Change) /\ HasContext(disk) /\ disk.changes[i].base = disk.context
  BY ContextFirst DEF Fine, DiskType, BasedOnCurrent
<1>2. PICK change \in Change : change = disk.changes[i]
  BY <1>1
<1>3. PICK n : n = [change EXCEPT !.status = "applying", !.owner = w]
  OBVIOUS
<1>4. /\ n \in Change /\ n.status = "applying" /\ n.owner = w /\ n.base = change.base
      /\ n.scope = change.scope /\ n.stack = change.stack
  BY <1>3 DEF Change
<1>5. PICK X : X = [disk.changes EXCEPT ![i] = n]
  OBVIOUS
<1>6. /\ X \in Seq(Change) /\ Len(X) = Len(disk.changes) /\ X[i] = n
      /\ \A j \in 1..Len(disk.changes) : j # i => X[j] = disk.changes[j]
  BY <1>1, <1>4, <1>5
<1>7. PICK o : o = [disk EXCEPT !.changes = X]
  OBVIOUS
<1>8. /\ o \in DiskType /\ o.changes = X
      /\ o.context = disk.context /\ o.revisions = disk.revisions /\ o.works = disk.works
  BY <1>1, <1>6, <1>7 DEF DiskType
<1>9. o = [disk EXCEPT !.changes[i].status = "applying", !.changes[i].owner = w]
  <2>1. [disk EXCEPT !.changes[i].status = "applying"]
        = [disk EXCEPT !.changes = [disk.changes EXCEPT ![i] = [change EXCEPT !.status = "applying"]]]
    BY <1>2
  <2>2. PICK m, Y, z : /\ m = [change EXCEPT !.status = "applying"] /\ Y = [disk.changes EXCEPT ![i] = m]
                       /\ z = [disk EXCEPT !.changes = Y]
    OBVIOUS
  <2>3. z = [disk EXCEPT !.changes[i].status = "applying"]
    BY <2>1, <2>2
  <2>4. n = [m EXCEPT !.owner = w]
    BY <1>3, <2>2
  <2>5. z.changes = Y /\ Y[i] = m
    BY <1>1, <2>2 DEF DiskType
  <2>6. [z EXCEPT !.changes[i].owner = w] = [z EXCEPT !.changes = [Y EXCEPT ![i] = n]]
    BY <2>4, <2>5
  <2>7. [Y EXCEPT ![i] = n] = X
    BY <1>5, <2>2
  <2>8. [z EXCEPT !.changes = X] = o
    BY <1>7, <2>2
  <2> QED
    BY <2>3, <2>6, <2>7, <2>8
<1>10. \A j \in 1..Len(o.changes) :
          \/ j \in 1..Len(disk.changes) /\ o.changes[j] = disk.changes[j]
          \/ /\ o.changes[j].status # "completed"
             /\ j \in 1..Len(disk.changes) => disk.changes[j].base = disk.context
  BY <1>1, <1>4, <1>6, <1>8
<1>11. Len(o.changes) >= Len(disk.changes)
  BY <1>1, <1>6, <1>8
<1>12. Fine(o)
  BY <1>1, <1>8, <1>10, <1>11, UnbegunFine
<1> QED
  BY <1>1, <1>2, <1>4, <1>6, <1>8, <1>9, <1>12

(* What concatenation gives, by its length and its places.                 *)
LEMMA ConcatIs ==
    ASSUME NEW S, NEW p \in Seq(S), NEW q \in Seq(S), NEW r \in Seq(S),
           Len(r) = Len(p) + Len(q), \A k \in 1..Len(r) : r[k] = IF k <= Len(p) THEN p[k] ELSE q[k - Len(p)]
    PROVE  p \o q = r
<1>1. PICK t : t = p \o q
  OBVIOUS
<1>2. t \in Seq(S) /\ Len(t) = Len(p) + Len(q)
  BY <1>1
<1>3. \A k \in 1..Len(t) : t[k] = IF k <= Len(p) THEN p[k] ELSE q[k - Len(p)]
  BY <1>1
<1>4. \A k \in 1..Len(t) : t[k] = r[k]
  BY <1>2, <1>3
<1>5. t = r
  BY <1>2, <1>4
<1> QED
  BY <1>1, <1>5

(* Four writes, the two in the middle of a commit.                         *)
LEMMA FourWrites ==
    ASSUME NEW S, NEW a \in S, NEW b \in S, NEW c \in S, NEW d \in S
    PROVE  <<a>> \o <<b, c>> \o <<d>> = <<a, b, c, d>>
<1>1. PICK p : p = <<a>>
  OBVIOUS
<1>2. PICK q : q = <<b, c>>
  OBVIOUS
<1>3. PICK r : r = <<a, b, c>>
  OBVIOUS
<1>4. PICK s : s = <<d>>
  OBVIOUS
<1>5. PICK t : t = <<a, b, c, d>>
  OBVIOUS
<1>6. p \in Seq(S) /\ Len(p) = 1 /\ p[1] = a
  BY <1>1
<1>7. q \in Seq(S) /\ Len(q) = 2 /\ q[1] = b /\ q[2] = c
  BY <1>2
<1>8. r \in Seq(S) /\ Len(r) = 3 /\ r[1] = a /\ r[2] = b /\ r[3] = c
  BY <1>3
<1>9. s \in Seq(S) /\ Len(s) = 1 /\ s[1] = d
  BY <1>4
<1>10. t \in Seq(S) /\ Len(t) = 4 /\ t[1] = a /\ t[2] = b /\ t[3] = c /\ t[4] = d
  BY <1>5
<1>11. p \o q = r
  <2>1. Len(r) = Len(p) + Len(q) /\ \A k \in 1..Len(r) : r[k] = IF k <= Len(p) THEN p[k] ELSE q[k - Len(p)]
    BY <1>6, <1>7, <1>8
  <2> QED
    BY <1>6, <1>7, <1>8, <2>1, ConcatIs
<1>12. r \o s = t
  <2>1. Len(t) = Len(r) + Len(s) /\ \A k \in 1..Len(t) : t[k] = IF k <= Len(r) THEN r[k] ELSE s[k - Len(r)]
    BY <1>8, <1>9, <1>10
  <2> QED
    BY <1>8, <1>9, <1>10, <2>1, ConcatIs
<1> QED
  BY <1>1, <1>2, <1>3, <1>4, <1>5, <1>11, <1>12

(* A Work begins to apply a change.                                        *)
LEMMA BeginFine ==
    ASSUME Fine(disk), NEW i \in 1..Len(disk.changes), NEW w \in Works, Apply(w, i), Current.active # i
    PROVE  Fine(disk') /\ Follows(disk, disk') /\ NoNewWork(disk, disk')
<1>1. /\ BasedOnCurrent(disk.changes[i]) /\ disk.changes[i].base = disk.context
      /\ Current.active = 0 /\ disk.works[w] # Nothing /\ disk.works[w].binding # Nothing
      /\ Writes(Begin(w, i))
  BY DEF Apply, BindingReady, Commanded, BasedOnCurrent
<1>2. HasContext(disk) /\ ~Busy(disk)
  BY <1>1, ContextFirst, BaseIs DEF Busy
<1>3. PICK o \in DiskType :
         /\ o = [disk EXCEPT !.changes[i].status = "applying", !.changes[i].owner = w]
         /\ Fine(o) /\ o.context = disk.context /\ o.works = disk.works
         /\ i \in 1..Len(o.changes) /\ o.changes[i].status = "applying" /\ o.changes[i].owner = w
         /\ o.changes[i].base = disk.context
         /\ o.changes[i].scope = disk.changes[i].scope /\ o.changes[i].stack = disk.changes[i].stack
  BY <1>1, OwnedIs
<1>4. PICK n \in Nat : n = i /\ n # 0
  BY DEF Fine, DiskType
<1>5. PICK c \in Content :
         /\ c = [Target(disk.changes[i]) EXCEPT !.active = n] /\ c.active = n /\ Shows(c, disk.changes[i])
         /\ disk.changes[i].scope \in Scopes
         /\ \A t \in Scopes : t # disk.changes[i].scope => c.scopes[t] = ScopesOf(disk)[t]
  BY <1>1, TargetIs
<1>6. Carries(o, c)
  BY <1>3, <1>4, <1>5 DEF Carries, Shows
<1>7. PICK e, d \in DiskType :
         /\ Commit(o, c) = <<e, d>> /\ Fine(e) /\ Fine(d)
         /\ e.context = o.context /\ d.context = Append(o.context, c)
         /\ d.changes = o.changes
         /\ e.works = o.works /\ d.works = o.works
  BY <1>3, <1>6, Committing
<1>8. d.context # <<>> /\ Last(d.context) = c
  <2>1. PICK r \in Revision : r = disk.context
    BY DEF Fine, DiskType
  <2>2. \E x \in Revision : x = Append(r, c) /\ x # <<>> /\ Last(x) = c
    <3>1. PICK x \in Revision : Grown(r, c, x)
      BY Longer
    <3> QED
      BY <3>1 DEF Grown
  <2> QED
    BY <1>3, <1>7, <2>1, <2>2
<1>9. Busy(d) /\ Active(d) = i /\ ChangeOf(d).owner = w
  BY <1>3, <1>4, <1>5, <1>7, <1>8 DEF Busy, HasContext, Active, ChangeOf
<1>10. PICK f \in DiskType :
         /\ f = Bound(d, w, Active(d)) /\ Fine(f)
         /\ f.context = d.context /\ f.works[w] # Nothing
         /\ \A v \in Works : v # w => f.works[v] = d.works[v]
  <2>1. d.works[w] # Nothing /\ d.works[w].binding # Nothing
    BY <1>1, <1>3, <1>7
  <2> QED
    BY <1>7, <1>9, <2>1, BoundFine
<1>11. Settled(disk, c, disk.changes[i].scope)
  BY <1>4, <1>5 DEF Settled
<1>12. WorksFollow(disk, o) /\ WorksFollow(disk, e) /\ WorksFollow(disk, d) /\ WorksFollow(disk, f)
  BY <1>2, <1>3, <1>7, <1>10 DEF WorksFollow
<1>13. Follows(disk, o) /\ Follows(disk, e)
  BY <1>3, <1>7, <1>12 DEF Follows
<1>14. Follows(disk, d) /\ Follows(disk, f)
  BY <1>3, <1>5, <1>7, <1>10, <1>11, <1>12 DEF Follows
<1>15. disk' \in {o, e, d, f}
  <2>1. Last(Commit(o, c)) = d
    BY <1>3, <1>7, AfterTwo
  <2>2. Begin(w, i) = <<o>> \o <<e, d>> \o <<f>>
    BY <1>3, <1>4, <1>5, <1>7, <1>9, <1>10, <2>1 DEF Begin
  <2>3. <<o>> \o <<e, d>> \o <<f>> = <<o, e, d, f>>
    BY <1>3, FourWrites
  <2> QED
    BY <1>1, <2>2, <2>3, WrittenFour
<1>16. o.works = disk.works /\ e.works = disk.works /\ d.works = disk.works
  BY <1>3, <1>7
<1>17. NoNewWork(disk, o) /\ NoNewWork(disk, e) /\ NoNewWork(disk, d)
  BY <1>16 DEF NoNewWork
<1>18. NoNewWork(disk, f)
  BY <1>1, <1>10, <1>16 DEF NoNewWork
<1>19. Fine(o) /\ Fine(e) /\ Fine(d) /\ Fine(f)
  BY <1>3, <1>7, <1>10
<1> QED
  BY <1>13, <1>14, <1>15, <1>17, <1>18, <1>19

(* The scopes a command selects are scopes.                                *)
LEMMA SelectedIs == ASSUME NEW requested, NEW w PROVE Selected(requested, w) \in SUBSET Scopes
BY DEF Selected, Present

(* What is right of a Work does not depend on its status.                  *)
LEMMA SameIsRight ==
    ASSUME NEW d, NEW w, NEW k, Right(d, w, k), NEW n, k = Nothing => n = Nothing,
           k # Nothing => n.binding = k.binding /\ n.change = k.change
    PROVE  Right(d, w, n)
BY DEF Right

(* A binding to the present revision is right where no change of another   *)
(* stops the Work.                                                         *)
LEMMA BindIsRight ==
    ASSUME Fine(disk), Known, NEW w \in Works, NEW by, by \in {w, Nothing}, NEW scopes \in SUBSET Scopes, ~Stops(scopes, by),
           NEW n, n.binding = Bind(scopes),
           n.change # 0 => /\ n.change \in 1..Len(disk.changes) /\ disk.changes[n.change].owner = w
                           /\ Begun(disk.changes[n.change], disk.context)
    PROVE  Bind(scopes) \in Binding /\ Right(disk, w, n)
<1>1. disk.context \in Revision /\ Len(disk.context) <= Len(disk.context)
  BY DEF Fine, DiskType, Revision
<1>2. PICK b : b = [at |-> disk.context, scopes |-> scopes]
  OBVIOUS
<1>3. b = Bind(scopes) /\ b.at = disk.context /\ b.scopes = scopes /\ b \in Binding
  BY <1>1, <1>2 DEF Bind, Binding
<1>4. Busy(disk) /\ ChangeOf(disk).owner # w => ChangeOf(disk).scope \notin scopes \cup {"root"}
  BY BaseIs DEF Stops, ActiveChange, ChangeOf, Busy
<1> QED
  BY <1>1, <1>3, <1>4 DEF Right

(* A disk on which the Works are written.                                  *)
LEMMA WorksWritten ==
    ASSUME Fine(disk), NEW X \in [Works -> Work \cup {Nothing}], \A w \in Works : Right(disk, w, X[w]),
           \A w \in Works : disk.works[w] # Nothing => X[w] # Nothing
    PROVE  \E d \in DiskType : d = [disk EXCEPT !.works = X] /\ d.works = X /\ Fine(d) /\ Follows(disk, d)
<1>1. disk \in DiskType
  BY DEF Fine
<1>2. PICK d : d = [disk EXCEPT !.works = X]
  OBVIOUS
<1>3. /\ d \in DiskType /\ d.works = X
      /\ d.context = disk.context /\ d.revisions = disk.revisions /\ d.changes = disk.changes
  BY <1>1, <1>2 DEF DiskType
<1>4. Fine(d)
  BY <1>3, WorksFine
<1>5. \A w \in Works : X[w] # disk.works[w] => X[w] # Nothing
  OBVIOUS
<1> QED
  BY <1>2, <1>3, <1>4, <1>5 DEF Follows, WorksFollow

(* A Work that is written.                                                 *)
LEMMA WorkWritten ==
    ASSUME Fine(disk), NEW w \in Works, NEW n \in Work, Right(disk, w, n)
    PROVE  \E d \in DiskType :
              /\ d = [disk EXCEPT !.works = [disk.works EXCEPT ![w] = n]] /\ Fine(d) /\ Follows(disk, d)
              /\ \A v \in Works : v # w => d.works[v] = disk.works[v]
<1>1. disk.works \in [Works -> Work \cup {Nothing}] /\ \A v \in Works : Right(disk, v, disk.works[v])
  BY DEF Fine, DiskType
<1>2. PICK X : X = [disk.works EXCEPT ![w] = n]
  OBVIOUS
<1>3. /\ X \in [Works -> Work \cup {Nothing}] /\ X[w] = n
      /\ \A v \in Works : v # w => X[v] = disk.works[v]
  BY <1>1, <1>2
<1>4. \A v \in Works : Right(disk, v, X[v])
  BY <1>1, <1>3
<1>5. \A v \in Works : disk.works[v] # Nothing => X[v] # Nothing
  BY <1>3, ContextAssumption
<1>6. PICK d \in DiskType : d = [disk EXCEPT !.works = X] /\ d.works = X /\ Fine(d) /\ Follows(disk, d)
  BY <1>3, <1>4, <1>5, WorksWritten
<1> QED
  BY <1>2, <1>3, <1>6

(* project bind                                                            *)
LEMMA BindWorkFine ==
    ASSUME Fine(disk), NEW w \in Works, NEW requested, NEW refresh, BindWork(w, requested, refresh)
    PROVE  Fine(disk') /\ Follows(disk, disk') /\ NoNewWork(disk, disk')
<1>1. PICK scopes \in SUBSET Scopes : scopes = Selected(requested, w)
  BY SelectedIs
<1>2. /\ Known /\ disk.works[w] # Nothing /\ ~Stops(scopes, w)
      /\ Writes(<<[disk EXCEPT !.works[w].binding = Bind(scopes)]>>)
  BY <1>1 DEF BindWork, Ready, Commanded
<1>3. PICK k \in Work : k = disk.works[w] /\ Right(disk, w, k)
  BY <1>2 DEF Fine, DiskType
<1>4. PICK n : n = [k EXCEPT !.binding = Bind(scopes)]
  OBVIOUS
<1>5. n.binding = Bind(scopes) /\ n.change = k.change
  BY <1>4 DEF Work
<1>6. Bind(scopes) \in Binding /\ Right(disk, w, n)
  <2>1. n.change # 0 => /\ n.change \in 1..Len(disk.changes) /\ disk.changes[n.change].owner = w
                        /\ Begun(disk.changes[n.change], disk.context)
    BY <1>2, <1>3, <1>5 DEF Right
  <2> QED
    BY <1>2, <1>5, <2>1, BindIsRight
<1>7. n \in Work
  BY <1>4, <1>6 DEF Work
<1>8. PICK d \in DiskType :
         /\ d = [disk EXCEPT !.works = [disk.works EXCEPT ![w] = n]] /\ Fine(d) /\ Follows(disk, d)
         /\ \A v \in Works : v # w => d.works[v] = disk.works[v]
  BY <1>6, <1>7, WorkWritten
<1>9. d = [disk EXCEPT !.works[w].binding = Bind(scopes)]
  BY <1>3, <1>4, <1>8
<1>10. disk' = d
  BY <1>2, <1>9, WrittenOne
<1> QED
  BY <1>2, <1>8, <1>10 DEF NoNewWork

(* The Works after every one of them is suspended.                         *)
LEMMA SuspendedIs ==
    ASSUME Fine(disk)
    PROVE  /\ Suspended(disk.works) \in [Works -> Work \cup {Nothing}]
           /\ \A w \in Works : LET k == Suspended(disk.works)[w]
                               IN /\ Right(disk, w, k)
                                  /\ k = Nothing <=> disk.works[w] = Nothing
                                  /\ k # Nothing => k.binding = disk.works[w].binding /\ k.change = disk.works[w].change
<1>1. disk.works \in [Works -> Work \cup {Nothing}]
  BY DEF Fine, DiskType
<1>2. PICK X : X = Suspended(disk.works)
  OBVIOUS
<1>3. X = [w \in Works |-> IF disk.works[w] # Nothing /\ disk.works[w].status = "active"
                            THEN [disk.works[w] EXCEPT !.status = "suspended"] ELSE disk.works[w]]
  BY <1>2 DEF Suspended
<1>4. ASSUME NEW w \in Works
      PROVE  /\ X[w] \in Work \cup {Nothing} /\ Right(disk, w, X[w])
             /\ X[w] = Nothing <=> disk.works[w] = Nothing
             /\ X[w] # Nothing => X[w].binding = disk.works[w].binding /\ X[w].change = disk.works[w].change
  <2>1. PICK k \in Work \cup {Nothing} : k = disk.works[w] /\ Right(disk, w, k)
    BY <1>1 DEF Fine
  <2>2. CASE k = Nothing
    BY <1>3, <2>1, <2>2
  <2>3. CASE k # Nothing /\ k.status # "active"
    BY <1>3, <2>1, <2>3
  <2>4. CASE k # Nothing /\ k.status = "active"
    <3>1. PICK n : n = [k EXCEPT !.status = "suspended"]
      OBVIOUS
    <3>2. n \in Work /\ n.binding = k.binding /\ n.change = k.change
      BY <2>4, <3>1 DEF Work
    <3>3. X[w] = n
      BY <1>3, <2>1, <2>4, <3>1
    <3>4. Right(disk, w, n)
      BY <2>1, <2>4, <3>2, SameIsRight
    <3> QED
      BY <2>1, <2>4, <3>2, <3>3, <3>4, ContextAssumption
  <2> QED
    BY <2>2, <2>3, <2>4
<1>5. X \in [Works -> Work \cup {Nothing}]
  BY <1>3, <1>4
<1> QED
  BY <1>2, <1>4, <1>5

(* start of a new Work                                                     *)
LEMMA StartWorkFine ==
    ASSUME Fine(disk), limits \in Limits, NEW w, NEW requested, StartWork(w, requested)
    PROVE  /\ Fine(disk') /\ Follows(disk, disk') /\ w \in Works
           /\ disk'.works[w].binding.scopes = Selected(requested, Nothing)
           /\ \A v \in Works : v # w /\ disk.works[v] = Nothing => disk'.works[v] = Nothing
<1>0. w \in Works
  BY ContextAssumption DEF StartWork
<1>1. PICK scopes \in SUBSET Scopes : scopes = Selected(requested, Nothing)
  BY SelectedIs
<1>2. PICK n : n = [status |-> "active", binding |-> Bind(scopes), change |-> 0]
  OBVIOUS
<1>3. PICK S : S = Suspended(disk.works)
  OBVIOUS
<1>4. PICK X : X = [S EXCEPT ![w] = n]
  OBVIOUS
<1>5. /\ Known /\ disk.works[w] = Nothing /\ ~Stops(scopes, Nothing)
      /\ Writes(<<[disk EXCEPT !.works = X]>>)
  BY <1>1, <1>2, <1>3, <1>4 DEF StartWork, Ready, Commanded
<1>6. n.binding = Bind(scopes) /\ n.change = 0
  BY <1>2
<1>7. Bind(scopes) \in Binding /\ Right(disk, w, n)
  <2>1. Nothing \in {w, Nothing}
    OBVIOUS
  <2>2. n.change # 0 => /\ n.change \in 1..Len(disk.changes) /\ disk.changes[n.change].owner = w
                        /\ Begun(disk.changes[n.change], disk.context)
    BY <1>6
  <2> QED
    BY <1>0, <1>5, <1>6, <2>1, <2>2, BindIsRight
<1>8. n \in Work /\ n # Nothing
  <2>1. n \in Work
    BY <1>2, <1>7 DEF Work
  <2> QED
    BY <2>1, ContextAssumption
<1>9. /\ S \in [Works -> Work \cup {Nothing}]
      /\ \A v \in Works : Right(disk, v, S[v]) /\ (S[v] = Nothing <=> disk.works[v] = Nothing)
  BY <1>3, SuspendedIs
<1>10. X \in [Works -> Work \cup {Nothing}] /\ X[w] = n /\ \A v \in Works : v # w => X[v] = S[v]
  BY <1>0, <1>4, <1>8, <1>9
<1>11. \A v \in Works : Right(disk, v, X[v]) /\ (disk.works[v] # Nothing => X[v] # Nothing)
  BY <1>7, <1>8, <1>9, <1>10
<1>12. PICK d \in DiskType : d = [disk EXCEPT !.works = X] /\ d.works = X /\ Fine(d) /\ Follows(disk, d)
  BY <1>10, <1>11, WorksWritten
<1>13. disk' = d
  BY <1>5, <1>12, WrittenOne
<1>14. X[w].binding.scopes = scopes
  BY <1>6, <1>10 DEF Bind
<1> QED
  BY <1>0, <1>1, <1>9, <1>10, <1>12, <1>13, <1>14

(* start --reopen and resume --reactivate                                  *)
LEMMA ReactivateFine ==
    ASSUME Fine(disk), NEW w \in Works, Reactivate(w)
    PROVE  Fine(disk') /\ Follows(disk, disk') /\ NoNewWork(disk, disk')
<1>1. PICK S : S = Suspended(disk.works)
  OBVIOUS
<1>2. PICK X : X = [S EXCEPT ![w].status = "active"]
  OBVIOUS
<1>3. disk.works[w] # Nothing /\ Writes(<<[disk EXCEPT !.works = X]>>)
  BY <1>1, <1>2 DEF Reactivate, Commanded, Activated
<1>4. /\ S \in [Works -> Work \cup {Nothing}]
      /\ \A v \in Works : Right(disk, v, S[v]) /\ (S[v] = Nothing <=> disk.works[v] = Nothing)
  BY <1>1, SuspendedIs
<1>5. PICK k \in Work : k = S[w] /\ Right(disk, w, k)
  BY <1>3, <1>4
<1>6. PICK n : n = [k EXCEPT !.status = "active"]
  OBVIOUS
<1>7. n \in Work /\ n.binding = k.binding /\ n.change = k.change
  BY <1>6 DEF Work
<1>8. Right(disk, w, n) /\ n # Nothing
  BY <1>5, <1>7, SameIsRight, ContextAssumption
<1>9. X \in [Works -> Work \cup {Nothing}] /\ X[w] = n /\ \A v \in Works : v # w => X[v] = S[v]
  BY <1>2, <1>4, <1>5, <1>6, <1>7
<1>10. \A v \in Works : Right(disk, v, X[v]) /\ (disk.works[v] # Nothing => X[v] # Nothing)
  BY <1>4, <1>8, <1>9
<1>11. PICK d \in DiskType : d = [disk EXCEPT !.works = X] /\ d.works = X /\ Fine(d) /\ Follows(disk, d)
  BY <1>9, <1>10, WorksWritten
<1>12. disk' = d
  BY <1>3, <1>11, WrittenOne
<1> QED
  BY <1>3, <1>4, <1>9, <1>11, <1>12 DEF NoNewWork

(* done of a Work that ends no change                                      *)
LEMMA DoneAloneFine ==
    ASSUME Fine(disk), NEW w \in Works, Done(w), Finish(w) = <<>>
    PROVE  Fine(disk') /\ Follows(disk, disk') /\ NoNewWork(disk, disk')
<1>1. disk.works[w] # Nothing /\ Writes(<<[disk EXCEPT !.works[w].status = "completed"]>>)
  BY DEF Done, Commanded
<1>2. PICK k \in Work : k = disk.works[w] /\ Right(disk, w, k)
  BY <1>1 DEF Fine, DiskType
<1>3. PICK n : n = [k EXCEPT !.status = "completed"]
  OBVIOUS
<1>4. n \in Work /\ n.binding = k.binding /\ n.change = k.change
  BY <1>3 DEF Work
<1>5. Right(disk, w, n)
  BY <1>2, <1>4, SameIsRight, ContextAssumption
<1>6. PICK d \in DiskType :
         /\ d = [disk EXCEPT !.works = [disk.works EXCEPT ![w] = n]] /\ Fine(d) /\ Follows(disk, d)
         /\ \A v \in Works : v # w => d.works[v] = disk.works[v]
  BY <1>4, <1>5, WorkWritten
<1>7. d = [disk EXCEPT !.works[w].status = "completed"]
  BY <1>2, <1>3, <1>6
<1>8. disk' = d
  BY <1>1, <1>7, WrittenOne
<1> QED
  BY <1>1, <1>6, <1>8 DEF NoNewWork

(* The last of three writes, and a fourth after them.                      *)
LEMMA AfterThree ==
    ASSUME NEW S, NEW a \in S, NEW b \in S, NEW c \in S, NEW d \in S
    PROVE  Last(<<a, b, c>>) = c /\ Append(<<a, b, c>>, d) = <<a, b, c, d>> /\ <<a, b, c>> # <<>>
<1>1. PICK p : p = <<a, b, c>>
  OBVIOUS
<1>2. PICK q : q = <<a, b, c, d>>
  OBVIOUS
<1>3. p \in Seq(S) /\ Len(p) = 3 /\ p[1] = a /\ p[2] = b /\ p[3] = c
  BY <1>1
<1>4. q \in Seq(S) /\ Len(q) = 4 /\ q[1] = a /\ q[2] = b /\ q[3] = c /\ q[4] = d
  BY <1>2
<1>5. Len(q) = Len(p) + 1 /\ q[Len(p) + 1] = d /\ \A k \in 1..Len(p) : q[k] = p[k]
  BY <1>3, <1>4
<1>6. Append(p, d) = q
  <2>1. p \in Seq(S) /\ q \in Seq(S)
    BY <1>3, <1>4
  <2> QED
    BY <1>5, <2>1, AppendIs
<1>7. Last(p) = c
  BY <1>3 DEF Last
<1>8. p # <<>>
  <2>1. p \in Seq(S) /\ Len(p) > 0
    BY <1>3
  <2> QED
    BY <2>1
<1> QED
  BY <1>1, <1>2, <1>6, <1>7, <1>8

(* A change that the context let go of is recorded as completed.           *)
LEMMA CompletedIs ==
    ASSUME NEW d, Fine(d), HasContext(d), Active(d) = 0, NEW i \in 1..Len(d.changes), Begun(d.changes[i], d.context)
    PROVE  \E f \in DiskType :
              /\ f = [d EXCEPT !.changes[i].status = "completed"] /\ Fine(f)
              /\ f.context = d.context /\ f.works = d.works
<1>1. d \in DiskType /\ d.changes \in Seq(Change) /\ CompletedOK(d) /\ ~Busy(d)
  BY DEF Fine, DiskType, Busy
<1>2. PICK change \in Change : change = d.changes[i]
  BY <1>1
<1>3. PICK n : n = [change EXCEPT !.status = "completed"]
  OBVIOUS
<1>4. /\ n \in Change /\ n.status = "completed" /\ n.base = change.base /\ n.scope = change.scope /\ n.stack = change.stack
      /\ n.owner = change.owner
  BY <1>3 DEF Change
<1>5. PICK X : X = [d.changes EXCEPT ![i] = n]
  OBVIOUS
<1>6. /\ X \in Seq(Change) /\ Len(X) = Len(d.changes) /\ X[i] = n
      /\ \A j \in 1..Len(d.changes) : j # i => X[j] = d.changes[j]
  BY <1>1, <1>4, <1>5
<1>7. PICK f : f = [d EXCEPT !.changes = X]
  OBVIOUS
<1>8. /\ f \in DiskType /\ f.changes = X
      /\ f.context = d.context /\ f.revisions = d.revisions /\ f.works = d.works
  BY <1>1, <1>6, <1>7 DEF DiskType
<1>9. f = [d EXCEPT !.changes[i].status = "completed"]
  BY <1>2, <1>3, <1>5, <1>7
<1>10. \A j \in 1..Len(d.changes) : /\ X[j].owner = d.changes[j].owner
                                    /\ Begun(d.changes[j], d.context) => Begun(X[j], d.context)
  <2>1. n.owner = change.owner /\ (Begun(change, d.context) => Begun(n, d.context))
    BY <1>4 DEF Begun, Shows
  <2> QED
    BY <1>2, <1>6, <2>1
<1>11. \A j \in 1..Len(f.changes) : f.changes[j].status = "completed" => Begun(f.changes[j], d.context) /\ Active(d) # j
  BY <1>1, <1>6, <1>8, <1>10 DEF CompletedOK
<1>12. \A w \in Works : d.works[w] # Nothing /\ d.works[w].change # 0 =>
          LET j == d.works[w].change
          IN f.changes[j].owner = w /\ Begun(f.changes[j], d.context)
  BY <1>8, <1>10 DEF Fine, Right
<1>13. Len(f.changes) >= Len(d.changes)
  BY <1>1, <1>6, <1>8
<1>14. Fine(f)
  BY <1>1, <1>8, <1>11, <1>12, <1>13, ChangesFine
<1> QED
  BY <1>8, <1>9, <1>14

(* done of the Work that carries the change in progress                    *)
LEMMA DoneEndsFine ==
    ASSUME Fine(disk), NEW w \in Works, Done(w), Finish(w) # <<>>
    PROVE  Fine(disk') /\ Follows(disk, disk') /\ NoNewWork(disk, disk')
<1>1. PICK k \in Work : k = disk.works[w] /\ Right(disk, w, k)
  BY DEF Fine, DiskType, Done
<1>2. PICK i : i = k.change /\ i # 0 /\ Current.active = i
  BY <1>1 DEF Finish
<1>3. /\ Known /\ Busy(disk) /\ Active(disk) = i /\ i \in 1..Len(disk.changes)
      /\ Begun(disk.changes[i], disk.context) /\ ChangeOf(disk).owner = w
  BY <1>1, <1>2, BaseIs DEF Done, BindingReady, Busy, Right, ChangeOf
<1>4. PICK c : c = [Current EXCEPT !.active = 0]
  OBVIOUS
<1>5. c \in Content /\ c.active = 0 /\ c.scopes = ScopesOf(disk)
  BY <1>3, <1>4, BaseIs DEF Content
<1>6. PICK s \in Scopes : TRUE
  BY ContextAssumption
<1>7. Carries(disk, c) /\ Settled(disk, c, s)
  BY <1>5 DEF Carries, Settled
<1>8. PICK e, d \in DiskType :
         /\ Commit(disk, c) = <<e, d>> /\ Fine(e) /\ Fine(d) /\ Follows(disk, e) /\ Follows(disk, d)
         /\ d.context = Append(disk.context, c)
         /\ d.changes = disk.changes
         /\ e.works = disk.works /\ d.works = disk.works
  BY <1>5, <1>7, CommitFollows
<1>9. HasContext(d) /\ Active(d) = 0
  <2>1. PICK r \in Revision : r = disk.context
    BY DEF Fine, DiskType
  <2>2. \E x \in Revision : x = Append(r, c) /\ x # <<>> /\ Last(x) = c
    <3>1. PICK x \in Revision : Grown(r, c, x)
      BY <1>5, Longer
    <3> QED
      BY <3>1 DEF Grown
  <2> QED
    BY <1>5, <1>8, <2>1, <2>2 DEF HasContext, Active
<1>10. i \in 1..Len(d.changes) /\ Begun(d.changes[i], d.context)
  <2>1. Right(d, w, k)
    BY <1>1, <1>8 DEF Fine
  <2> QED
    BY <1>2, <2>1, ContextAssumption DEF Right
<1>11. PICK f \in DiskType :
          /\ f = [d EXCEPT !.changes[i].status = "completed"] /\ Fine(f)
          /\ f.context = d.context /\ f.works = d.works
  BY <1>8, <1>9, <1>10, CompletedIs
<1>12. PICK n : n = [k EXCEPT !.status = "completed"]
  OBVIOUS
<1>13. n \in Work /\ n # Nothing /\ n.binding = k.binding /\ n.change = k.change
  <2>1. n \in Work /\ n.binding = k.binding /\ n.change = k.change
    BY <1>12 DEF Work
  <2> QED
    BY <2>1, ContextAssumption
<1>14. PICK g \in DiskType :
          /\ g = [f EXCEPT !.works[w].status = "completed"] /\ Fine(g) /\ g.context = f.context
          /\ g.works[w] # Nothing /\ \A v \in Works : v # w => g.works[v] = f.works[v]
  <2>1. f.works \in [Works -> Work \cup {Nothing}] /\ f.works[w] = k
    BY <1>1, <1>8, <1>11 DEF DiskType
  <2>2. PICK X : X = [f.works EXCEPT ![w] = n]
    OBVIOUS
  <2>3. X \in [Works -> Work \cup {Nothing}] /\ X[w] = n /\ \A v \in Works : v # w => X[v] = f.works[v]
    BY <1>13, <2>1, <2>2
  <2>4. PICK g : g = [f EXCEPT !.works = X]
    OBVIOUS
  <2>5. /\ g \in DiskType /\ g.works = X
        /\ g.context = f.context /\ g.revisions = f.revisions /\ g.changes = f.changes
    BY <1>11, <2>3, <2>4 DEF DiskType
  <2>6. Right(f, w, n)
    <3>1. Right(f, w, k)
      BY <1>11, <2>1 DEF Fine
    <3> QED
      BY <1>13, <3>1, SameIsRight, ContextAssumption
  <2>7. \A v \in Works : Right(f, v, g.works[v])
    BY <1>11, <2>3, <2>5, <2>6 DEF Fine
  <2>8. Fine(g)
    BY <1>11, <2>5, <2>7, WorksFine
  <2>9. g = [f EXCEPT !.works[w].status = "completed"]
    BY <1>12, <2>1, <2>2, <2>4
  <2> QED
    BY <1>13, <2>3, <2>5, <2>8, <2>9
<1>15. Follows(disk, f)
  BY <1>8, <1>11 DEF Follows, WorksFollow
<1>16. Follows(disk, g)
  BY <1>3, <1>8, <1>11, <1>14 DEF Follows, WorksFollow
<1>17. disk' \in {e, d, f, g}
  <2>1. Last(Commit(disk, c)) = d /\ Append(Commit(disk, c), f) = <<e, d, f>>
    BY <1>8, <1>11, AfterTwo
  <2>2. Finish(w) = <<e, d, f>>
    BY <1>1, <1>2, <1>4, <1>11, <2>1 DEF Finish
  <2>3. Last(<<e, d, f>>) = f /\ Append(<<e, d, f>>, g) = <<e, d, f, g>>
    BY AfterThree
  <2>4. Last(Finish(w)) = f
    BY <2>2, <2>3
  <2>5. Writes(Append(Finish(w), [Last(Finish(w)) EXCEPT !.works[w].status = "completed"]))
    BY DEF Done, Commanded
  <2>6. Writes(Append(Finish(w), g))
    BY <1>14, <2>4, <2>5
  <2> QED
    BY <2>2, <2>3, <2>6, WrittenFour
<1>18. NoNewWork(disk, e) /\ NoNewWork(disk, d) /\ NoNewWork(disk, f)
  BY <1>8, <1>11 DEF NoNewWork
<1>19. NoNewWork(disk, g)
  BY <1>1, <1>8, <1>11, <1>14, ContextAssumption DEF NoNewWork
<1> QED
  BY <1>8, <1>11, <1>14, <1>15, <1>16, <1>17, <1>18, <1>19

(* A command or an event uses up some of the bounds.                       *)
Used == [edits : 0..limits.edits, deaths : 0..limits.deaths, runs : 0..limits.runs]
(* A step uses up no less than before, within the bounds.                  *)
MoreUsed == used' \in Used /\ used.edits <= used'.edits /\ used.runs <= used'.runs

(* Deaths, edits and runs are counted up to their bounds.                  *)
LEMMA UsesMore ==
    ASSUME ContextTypeOK,
           \/ UNCHANGED used
           \/ used.deaths < limits.deaths /\ used' = [used EXCEPT !.deaths = @ + 1]
           \/ used.edits < limits.edits /\ used' = [used EXCEPT !.edits = @ + 1]
           \/ used.runs < limits.runs /\ used' = [used EXCEPT !.runs = used.runs + 1]
    PROVE  MoreUsed
<1>1. limits.edits \in Nat /\ limits.deaths \in Nat /\ limits.runs \in Nat
  BY ContextAssumption DEF ContextTypeOK
<1>2. /\ used \in Used /\ used.edits \in 0..limits.edits /\ used.deaths \in 0..limits.deaths /\ used.runs \in 0..limits.runs
  BY DEF ContextTypeOK, Used
<1>3. CASE UNCHANGED used
  BY <1>2, <1>3 DEF MoreUsed
<1>4. CASE used.deaths < limits.deaths /\ used' = [used EXCEPT !.deaths = @ + 1]
  BY <1>1, <1>2, <1>4 DEF MoreUsed, Used
<1>5. CASE used.edits < limits.edits /\ used' = [used EXCEPT !.edits = @ + 1]
  BY <1>1, <1>2, <1>5 DEF MoreUsed, Used
<1>6. CASE used.runs < limits.runs /\ used' = [used EXCEPT !.runs = used.runs + 1]
  BY <1>1, <1>2, <1>6 DEF MoreUsed, Used
<1> QED
  BY <1>3, <1>4, <1>5, <1>6

(* A command about the background uses up no more than a death.            *)
LEMMA WritesUses == ASSUME ContextTypeOK, NEW disks, Writes(disks) PROVE MoreUsed
BY UsesMore DEF Writes

(* So does a command about set-up and baseline.                            *)
LEMMA LeavesUses == ASSUME ContextTypeOK, NEW states, Leaves(states) PROVE MoreUsed
BY UsesMore DEF Leaves

(* What a command leaves of disk, set-up and baseline together.            *)
Left(state) == disk' = state.disk /\ setup' = state.setup /\ baseline' = state.baseline

(* A command that leads through one state leaves that one.                 *)
LEMMA LeftOne == ASSUME NEW a, Leaves(<<a>>) PROVE Left(a)
<1>1. PICK s : s = <<a>>
  OBVIOUS
<1>2. Len(s) = 1 /\ s[1] = a
  BY <1>1
<1> QED
  BY <1>1, <1>2 DEF Leaves, Left

(* A command that leads through two states leaves one of them.             *)
LEMMA LeftTwo == ASSUME NEW a, NEW b, Leaves(<<a, b>>) PROVE Left(a) \/ Left(b)
<1>1. PICK s : s = <<a, b>>
  OBVIOUS
<1>2. Len(s) = 2 /\ s[1] = a /\ s[2] = b
  BY <1>1
<1>3. \A i \in 1..(Len(s) - 1) : i = 1
  BY <1>2
<1> QED
  BY <1>1, <1>2, <1>3 DEF Leaves, Left

(* A command that leads through three states leaves one of them.           *)
LEMMA LeftThree == ASSUME NEW a, NEW b, NEW c, Leaves(<<a, b, c>>) PROVE Left(a) \/ Left(b) \/ Left(c)
<1>1. PICK s : s = <<a, b, c>>
  OBVIOUS
<1>2. Len(s) = 3 /\ s[1] = a /\ s[2] = b /\ s[3] = c
  BY <1>1
<1>3. \A i \in 1..(Len(s) - 1) : i = 1 \/ i = 2
  BY <1>2
<1> QED
  BY <1>1, <1>2, <1>3 DEF Leaves, Left

(* What a check records of the background.                                 *)
LEMMA FingerprintIs == ASSUME NEW content \in Content, NEW s \in Scopes PROVE Fingerprint(content, {s}) \in Stamps
<1>1. PICK S \in SUBSET Scopes : S = {t \in {s} \cup {"root"} : content.scopes[t] # Nothing}
  BY ContextAssumption
<1>2. \A t \in S : content.scopes[t] \in Scope
  BY <1>1 DEF Content
<1>3. Fingerprint(content, {s}) = [t \in S |-> content.scopes[t]]
  BY <1>1 DEF Fingerprint
<1>4. [t \in S |-> content.scopes[t]] \in [S -> Scope]
  BY <1>2
<1> QED
  BY <1>3, <1>4 DEF Stamps

(* The background of a scope, as checks record it, is a stamp.             *)
LEMMA StampIs == ASSUME Fine(disk), HasContext(disk), NEW s \in Scopes PROVE Stamp(s) \in Stamps
BY BaseIs, FingerprintIs DEF Stamp

(* The parts of the baseline.                                              *)
LEMMA BaselineIs ==
    ASSUME baseline \in Baseline, NEW s \in Scopes
    PROVE  /\ baseline.entries[s] \in Entry \cup {Nothing} /\ baseline.files[s] \in File
           /\ baseline.wrappers[s] \in Identities \cup {Nothing} /\ baseline.checks[s] \in Check
           /\ baseline.runs \in Seq(Run)
BY DEF Baseline

(* What a check of the baseline is measured by is a standard.              *)
LEMMA StandardIs ==
    ASSUME ProjectTypeOK, Fine(disk), HasContext(disk), NEW s \in Scopes
    PROVE  Standard(s) \in ProjectStandard
<1>1. Stamp(s) \in Stamps
  BY StampIs
<1>2. /\ baseline.entries[s] \in Entry \cup {Nothing} /\ baseline.files[s] \in File
      /\ baseline.wrappers[s] \in Identities \cup {Nothing}
  BY BaselineIs DEF ProjectTypeOK
<1> QED
  BY <1>1, <1>2 DEF Standard, ProjectStandard

(* What a check of the set-up looks at is an input.                        *)
LEMMA SetupInputsIs ==
    ASSUME ProjectTypeOK, Fine(disk), HasContext(disk), NEW s \in Scopes, setup[s] # Nothing
    PROVE  SetupInputs(s) \in SetupInput
<1>1. Stamp(s) \in Stamps
  BY StampIs
<1>2. /\ baseline.entries[s] \in Entry \cup {Nothing} /\ baseline.files[s] \in File
      /\ baseline.wrappers[s] \in Identities \cup {Nothing}
  BY BaselineIs DEF ProjectTypeOK
<1>3. setup[s].plan \in SetupPlan
  <2>1. setup[s] \in Setup
    BY DEF ProjectTypeOK
  <2> QED
    BY <2>1 DEF Setup
<1>4. code[s] \in Nat
  BY ContextAssumption DEF ProjectTypeOK, ContextTypeOK
<1> QED
  BY <1>1, <1>2, <1>3, <1>4 DEF SetupInputs, SetupInput

(* The context is never lost.                                              *)
LEMMA ContextStays == ASSUME Fine(disk), NEW d, Follows(disk, d) PROVE HasContext(disk) => HasContext(d)
<1>1. PICK r \in Revision : r = disk.context
  BY DEF Fine, DiskType
<1>2. ASSUME NEW c \in Content PROVE \E x \in Revision : x = Append(r, c) /\ x # <<>>
  <2>1. PICK x \in Revision : Grown(r, c, x)
    BY Longer
  <2> QED
    BY <2>1 DEF Grown
<1> QED
  BY <1>1, <1>2 DEF Follows, HasContext

(* A check's identity is a number, and so are the bounds.                  *)
LEMMA Numbers ==
    ASSUME ProjectInv
    PROVE  /\ used.runs \in Nat /\ used.edits \in Nat /\ limits.runs \in Nat /\ limits.edits \in Nat /\ limits.deaths \in Nat
           /\ \A p \in Processes : process[p] # Nothing =>
                process[p].id \in Nat /\ process[p].id # 0 /\ process[p].id <= used.runs
           /\ \A s \in Scopes : code[s] \in Nat /\ code[s] <= used.edits
<1>1. limits.edits \in Nat /\ limits.deaths \in Nat /\ limits.runs \in Nat
  BY ContextAssumption DEF ProjectInv, ProjectTypeOK, ContextTypeOK
<1>2. used.runs \in Nat /\ used.edits \in Nat
  BY <1>1 DEF ProjectInv, ProjectTypeOK, ContextTypeOK
<1>3. ASSUME NEW p \in Processes, process[p] # Nothing PROVE process[p].id \in Nat /\ process[p].id # 0 /\ process[p].id <= used.runs
  <2>1. process[p] \in Process
    BY <1>3 DEF ProjectInv, ProjectTypeOK
  <2>2. process[p].id \in Nat /\ process[p].id # 0
    BY <2>1 DEF Process
  <2> QED
    BY <1>3, <2>2 DEF ProjectInv, ProcessOK, OnRecord
<1>4. \A s \in Scopes : code[s] \in Nat /\ code[s] <= used.edits
  BY <1>1 DEF ProjectInv, ProjectTypeOK
<1> QED
  BY <1>1, <1>2, <1>3, <1>4

(* A step in which no check begins, and those that go on have the record   *)
(* they had.                                                               *)
LEMMA NoNewCheck ==
    ASSUME ProjectInv, HasContext(disk) => HasContext(disk'), MoreUsed,
           \A p \in Processes : process'[p] \in {process[p], Nothing},
           \A p \in Processes : process'[p] # Nothing =>
              LET s == process[p].scope
              IN /\ process[p].kind = "setup" =>
                      setup'[s] # Nothing /\ setup'[s].running = setup[s].running /\ setup'[s].plan = setup[s].plan
                 /\ process[p].kind = "baseline" => baseline'.checks[s] = baseline.checks[s]
    PROVE  ProcessOK'
<1>1. ASSUME NEW p \in Processes, process'[p] # Nothing PROVE OnRecord(process[p])'
  <2>1. PICK run : run = process[p] /\ process'[p] = run /\ run # Nothing /\ OnRecord(run)
    BY <1>1 DEF ProjectInv, ProcessOK
  <2>2. run.id <= used'.runs
    <3>1. run.id \in Nat /\ run.id <= used.runs /\ used.runs <= used'.runs /\ used.runs \in Nat
      BY <2>1, Numbers DEF MoreUsed
    <3>2. used'.runs \in 0..limits.runs /\ limits.runs \in Nat
      BY Numbers DEF MoreUsed, Used
    <3> QED
      BY <3>1, <3>2
  <2>3. run.kind = "setup" =>
          /\ setup'[run.scope] # Nothing /\ setup'[run.scope].running = setup[run.scope].running
          /\ setup'[run.scope].plan = setup[run.scope].plan
    BY <1>1, <2>1
  <2>4. run.kind = "baseline" => baseline'.checks[run.scope] = baseline.checks[run.scope]
    BY <1>1, <2>1
  <2>5. OnRecord(run)'
    BY <2>1, <2>2, <2>3, <2>4 DEF OnRecord
  <2> QED
    BY <2>1, <2>5
<1>2. ASSUME NEW p \in Processes, NEW q \in Processes, process'[p] # Nothing, process'[q] # Nothing, process'[p].id = process'[q].id
      PROVE  p = q
  <2>1. process'[p] = process[p] /\ process'[q] = process[q]
    BY <1>2
  <2> QED
    BY <1>2, <2>1 DEF ProjectInv, ProcessOK
<1> QED
  BY <1>1, <1>2 DEF ProcessOK

(* Types, where disk and product stay what they are.                       *)
LEMMA TypesKept ==
    ASSUME ProjectInv, UNCHANGED <<product, limits>>, disk' \in DiskType, MoreUsed,
           setup' \in [Scopes -> Setup \cup {Nothing}], baseline' \in Baseline,
           code' \in [Scopes -> 0..limits.edits], process' \in [Processes -> Process \cup {Nothing}]
    PROVE  ProjectTypeOK'
BY DEF ProjectInv, ProjectTypeOK, ContextTypeOK, MoreUsed, Used

(* The code is edited no more often than edits are used up.                *)
LEMMA CodeKept ==
    ASSUME ProjectInv, MoreUsed, UNCHANGED code
    PROVE  \A s \in Scopes : code'[s] <= used'.edits
<1>1. ASSUME NEW s \in Scopes PROVE code[s] <= used'.edits
  <2>1. code[s] \in Nat /\ code[s] <= used.edits /\ used.edits \in Nat /\ used.edits <= used'.edits
    BY Numbers DEF MoreUsed
  <2>2. used'.edits \in 0..limits.edits /\ limits.edits \in Nat
    BY Numbers DEF MoreUsed, Used
  <2> QED
    BY <2>1, <2>2
<1> QED
  BY <1>1

(* A command that writes nothing but the background's files.               *)
LEMMA DiskStep ==
    ASSUME ProjectInv, Fine(disk'), Follows(disk, disk'), MoreUsed,
           UNCHANGED <<product, setup, limits, baseline, code, process>>
    PROVE  ProjectInv'
<1>1. HasContext(disk) => HasContext(disk')
  BY ContextStays DEF ProjectInv
<1>2. ProjectTypeOK'
  <2>1. /\ setup \in [Scopes -> Setup \cup {Nothing}] /\ baseline \in Baseline
        /\ code \in [Scopes -> 0..limits.edits] /\ process \in [Processes -> Process \cup {Nothing}]
    BY DEF ProjectInv, ProjectTypeOK
  <2>2. disk' \in DiskType
    BY DEF Fine
  <2> QED
    BY <2>1, <2>2, TypesKept
<1>3. SetupOK'
  BY <1>1 DEF ProjectInv, SetupOK
<1>4. ProcessOK'
  <2>1. \A p \in Processes : process'[p] \in {process[p], Nothing}
    OBVIOUS
  <2>2. \A p \in Processes : process'[p] # Nothing =>
          LET s == process[p].scope
          IN /\ process[p].kind = "setup" =>
                  setup'[s] # Nothing /\ setup'[s].running = setup[s].running /\ setup'[s].plan = setup[s].plan
             /\ process[p].kind = "baseline" => baseline'.checks[s] = baseline.checks[s]
    BY DEF ProjectInv, ProcessOK, OnRecord
  <2> QED
    BY <1>1, <2>1, <2>2, NoNewCheck
<1>5. CertifiedByARun'
  BY DEF ProjectInv, CertifiedByARun, PassedRun
<1>6. \A s \in Scopes : code'[s] <= used'.edits
  BY CodeKept
<1> QED
  BY <1>2, <1>3, <1>4, <1>5, <1>6 DEF ProjectInv

(* Sequences of one and two elements, and those a function gives.          *)
LEMMA OneIs == ASSUME NEW S, NEW a \in S, NEW p, p = <<a>> PROVE p \in Seq(S) /\ Len(p) = 1 /\ p[1] = a
OBVIOUS

(* A pair as a sequence.                                                   *)
LEMMA TwoIs ==
    ASSUME NEW S, NEW a \in S, NEW b \in S, NEW p, p = <<a, b>>
    PROVE  p \in Seq(S) /\ Len(p) = 2 /\ p[1] = a /\ p[2] = b
OBVIOUS

(* A function on 1..n is a sequence.                                       *)
LEMMA FunctionIs ==
    ASSUME NEW S, NEW n \in Nat, NEW F, F = [i \in 1..n |-> F[i]], \A i \in 1..n : F[i] \in S
    PROVE  F \in Seq(S) /\ Len(F) = n
OBVIOUS

(* Two sequences, one after the other.                                     *)
LEMMA Concatenated ==
    ASSUME NEW S, NEW p \in Seq(S), NEW q \in Seq(S)
    PROVE  /\ p \o q \in Seq(S) /\ Len(p \o q) = Len(p) + Len(q)
           /\ \A k \in 1..(Len(p) + Len(q)) : (p \o q)[k] = IF k <= Len(p) THEN p[k] ELSE q[k - Len(p)]
<1>1. p \o q \in Seq(S) /\ Len(p \o q) = Len(p) + Len(q)
  OBVIOUS
<1>2. \A k \in 1..(Len(p) + Len(q)) : (p \o q)[k] = IF k <= Len(p) THEN p[k] ELSE q[k - Len(p)]
  OBVIOUS
<1> QED
  BY <1>1, <1>2

(* A sequence and one more element.                                        *)
LEMMA ThenOne ==
    ASSUME NEW S, NEW F \in Seq(S), NEW b \in S
    PROVE  /\ Len(F) \in Nat /\ Len(F \o <<b>>) = Len(F) + 1
           /\ \A k \in 1..Len(F) : (F \o <<b>>)[k] = F[k]
           /\ (F \o <<b>>)[Len(F) + 1] = b
<1>1. PICK q : q = <<b>>
  OBVIOUS
<1>2. q \in Seq(S) /\ Len(q) = 1 /\ q[1] = b
  BY <1>1, OneIs
<1>3. F \o q \in Seq(S) /\ Len(F \o q) = Len(F) + Len(q)
  BY <1>2, Concatenated
<1>4. \A k \in 1..(Len(F) + Len(q)) : (F \o q)[k] = IF k <= Len(F) THEN F[k] ELSE q[k - Len(F)]
  BY <1>2, Concatenated
<1>5. PICK t \in Seq(S) : t = F \o q
  BY <1>3
<1>6. t[Len(F) + 1] = b /\ \A k \in 1..Len(F) : t[k] = F[k]
  <2>1. \A k \in 1..(Len(F) + Len(q)) : t[k] = IF k <= Len(F) THEN F[k] ELSE q[k - Len(F)]
    BY <1>4, <1>5
  <2> QED
    BY <1>2, <2>1
<1> QED
  BY <1>1, <1>2, <1>3, <1>5, <1>6

(* A command's last write after others.                                    *)
LEMMA LeftAfter ==
    ASSUME NEW S, NEW F \in Seq(S), NEW b \in S, Leaves(F \o <<b>>)
    PROVE  Left(b) \/ \E i \in 1..Len(F) : Left(F[i])
<1>1. PICK t : t = F \o <<b>>
  OBVIOUS
<1>2. /\ Len(F) \in Nat /\ Len(t) = Len(F) + 1
      /\ \A k \in 1..Len(F) : t[k] = F[k]
      /\ t[Len(F) + 1] = b
  BY <1>1, ThenOne
<1>3. Leaves(t)
  BY <1>1
<1>4. \A i \in 1..(Len(t) - 1) : i \in 1..Len(F)
  BY <1>2
<1> QED
  BY <1>2, <1>3, <1>4 DEF Leaves, Left

(* The writes of project setup plan to the background: none or a commit    *)
(* that keeps the stacks.                                                  *)
LEMMA IdentityCommits ==
    ASSUME Fine(disk), NEW s \in Scopes, NEW identity \in Identities, Known, s \in Present,
           NEW commit,
           Current.scopes[s].identity = identity => commit = <<disk>>,
           Current.scopes[s].identity # identity =>
              commit = Commit(disk, [Current EXCEPT !.scopes[s].identity = identity])
    PROVE  /\ commit \in Seq(DiskType) /\ Len(commit) \in Nat \ {0}
           /\ \A i \in 1..Len(commit) :
                 Fine(commit[i]) /\ Follows(disk, commit[i]) /\ commit[i].works = disk.works /\ HasContext(commit[i])
<1>0. disk \in DiskType /\ HasContext(disk) /\ Current \in Content /\ Current.scopes = ScopesOf(disk)
  BY BaseIs DEF Fine
<1>1. CASE Current.scopes[s].identity = identity
  <2>1. commit = <<disk>>
    BY <1>1
  <2>2. commit \in Seq(DiskType) /\ Len(commit) = 1 /\ commit[1] = disk
    BY <1>0, <2>1, OneIs
  <2>3. \A i \in 1..Len(commit) : commit[i] = disk
    BY <2>2
  <2> QED
    BY <1>0, <2>2, <2>3 DEF Follows, WorksFollow
<1>2. CASE Current.scopes[s].identity # identity
  <2>1. PICK k \in Scope : k = Current.scopes[s]
    BY <1>0 DEF Present, Content
  <2>2. PICK n : n = [k EXCEPT !.identity = identity]
    OBVIOUS
  <2>3. n \in Scope /\ n.stack = k.stack /\ n # Nothing
    <3>1. n \in Scope /\ n.stack = k.stack
      BY <2>2 DEF Scope
    <3> QED
      BY <3>1, ContextAssumption
  <2>4. PICK X : X = [Current.scopes EXCEPT ![s] = n]
    OBVIOUS
  <2>5. PICK c : c = [Current EXCEPT !.scopes = X]
    OBVIOUS
  <2>6. X[s] = n /\ \A t \in Scopes : t # s => X[t] = Current.scopes[t]
    BY <1>0, <2>4 DEF Content
  <2>7. c \in Content /\ c.scopes = X /\ c.active = Current.active
    <3>1. X \in [Scopes -> Scope \cup {Nothing}]
      BY <1>0, <2>3, <2>4 DEF Content
    <3> QED
      BY <1>0, <2>5, <3>1 DEF Content
  <2>8. c = [Current EXCEPT !.scopes[s].identity = identity]
    BY <2>1, <2>2, <2>4, <2>5
  <2>9. Carries(disk, c)
    <3>1. ASSUME c.active # 0 PROVE Busy(disk) /\ c.active = Active(disk) /\ Shows(c, ChangeOf(disk))
      <4>1. Busy(disk) /\ c.active = Active(disk)
        BY <1>0, <2>7, <3>1, BaseIs DEF Busy
      <4>2. Shows(Current, ChangeOf(disk)) /\ ChangeOf(disk) \in Change
        BY <1>0, <4>1, BaseIs DEF Fine, ActiveOK, ChangeOf, DiskType
      <4>3. ChangeOf(disk).scope \in Scopes
        BY <4>2 DEF Change
      <4> QED
        BY <2>1, <2>3, <2>6, <2>7, <4>1, <4>2, <4>3 DEF Shows
    <3> QED
      BY <2>7, <3>1, GoesOn
  <2>10. Settled(disk, c, s)
    BY <1>0, <2>1, <2>3, <2>6, <2>7 DEF Settled
  <2>11. PICK e, d \in DiskType :
           /\ Commit(disk, c) = <<e, d>> /\ Fine(e) /\ Fine(d) /\ Follows(disk, e) /\ Follows(disk, d)
           /\ e.works = disk.works /\ d.works = disk.works
    BY <2>7, <2>9, <2>10, CommitFollows
  <2>12. HasContext(e) /\ HasContext(d)
    BY <1>0, <2>11, ContextStays
  <2>13. commit = <<e, d>>
    BY <1>2, <2>8, <2>11
  <2>14. commit \in Seq(DiskType) /\ Len(commit) = 2 /\ commit[1] = e /\ commit[2] = d
    BY <2>13, TwoIs
  <2>15. \A i \in 1..Len(commit) : commit[i] = e \/ commit[i] = d
    <3>1. Len(commit) = 2
      BY <2>14
    <3>2. \A i \in 1..Len(commit) : i = 1 \/ i = 2
      BY <3>1
    <3> QED
      BY <2>14, <3>2
  <2>16. Len(commit) \in Nat \ {0}
    BY <2>14
  <2>17. \A i \in 1..Len(commit) :
            Fine(commit[i]) /\ Follows(disk, commit[i]) /\ commit[i].works = disk.works /\ HasContext(commit[i])
    BY <2>11, <2>12, <2>15
  <2> QED
    BY <2>14, <2>16, <2>17
<1> QED
  BY <1>1, <1>2

(* What project setup plan leaves.                                         *)
LEMMA Planned ==
    ASSUME ProjectInv, NEW s \in Scopes, NEW identity \in Identities, PlanSetup(s, identity)
    PROVE  /\ Fine(disk') /\ Follows(disk, disk') /\ disk'.works = disk.works /\ HasContext(disk')
           /\ baseline' = baseline
           /\ setup' = setup \/ \E plan \in SetupPlan : setup' = [setup EXCEPT ![s] = Record(s, plan)]
<1>1. PICK commit : commit = IF Current.scopes[s].identity # identity
                             THEN Commit(disk, [Current EXCEPT !.scopes[s].identity = identity]) ELSE <<disk>>
  OBVIOUS
<1>2. Known /\ s \in Present
  BY DEF PlanSetup
<1>3. /\ commit \in Seq(DiskType) /\ Len(commit) \in Nat \ {0}
      /\ \A i \in 1..Len(commit) :
            Fine(commit[i]) /\ Follows(disk, commit[i]) /\ commit[i].works = disk.works /\ HasContext(commit[i])
  BY <1>1, <1>2, IdentityCommits DEF ProjectInv
<1>4. PICK last \in DiskType : /\ last = Last(commit)
                               /\ Fine(last) /\ Follows(disk, last) /\ last.works = disk.works /\ HasContext(last)
  <2>1. Len(commit) \in 1..Len(commit)
    BY <1>3
  <2>2. PICK last : last = commit[Len(commit)]
    OBVIOUS
  <2>3. Fine(last) /\ Follows(disk, last) /\ last.works = disk.works /\ HasContext(last)
    BY <1>3, <2>1, <2>2
  <2> QED
    BY <2>2, <2>3 DEF Fine, Last
<1>5. Last(last.context) \in Content
  <2>1. PICK r \in Seq(Content) : r = last.context /\ r # <<>>
    BY <1>4 DEF DiskType, Revision, HasContext
  <2> QED
    BY <2>1, LastOne
<1>6. PICK plan : plan = [context |-> Fingerprint(Last(last.context), {s}), identity |-> identity]
  OBVIOUS
<1>7. plan \in SetupPlan
  BY <1>5, <1>6, FingerprintIs DEF SetupPlan
<1>8. PICK F : F = [i \in 1..Len(commit) |-> [Here EXCEPT !.disk = commit[i]]]
  OBVIOUS
<1>9. PICK record : record = IF setup[s] # Nothing /\ setup[s].plan = plan THEN setup[s] ELSE Record(s, plan)
  OBVIOUS
<1>10. PICK b : b = [Here EXCEPT !.disk = last, !.setup[s] = record]
  OBVIOUS
<1>11. Leaves(F \o <<b>>)
  <2>1. F = [i \in 1..Len(commit) |-> [Here EXCEPT !.disk = commit[i]]]
    BY <1>8
  <2>2. b = [Here EXCEPT !.disk = Last(commit), !.setup[s] = record]
    BY <1>4, <1>10
  <2>3. plan = [context |-> Fingerprint(Last(Last(commit).context), {s}), identity |-> identity]
    BY <1>4, <1>6
  <2>4. record = IF setup[s] # Nothing /\ setup[s].plan = plan THEN setup[s] ELSE Record(s, plan)
    BY <1>9
  <2> QED
    BY <1>1, <2>1, <2>2, <2>3, <2>4 DEF PlanSetup
<1>12. /\ \A i \in 1..Len(commit) : F[i].disk = commit[i] /\ F[i].setup = setup /\ F[i].baseline = baseline
       /\ b.disk = last /\ (b.setup = setup \/ b.setup = [setup EXCEPT ![s] = Record(s, plan)]) /\ b.baseline = baseline
  <2>1. setup = [t \in Scopes |-> setup[t]]
    BY DEF ProjectInv, ProjectTypeOK
  <2>2. b.setup = [setup EXCEPT ![s] = record] /\ (record = setup[s] \/ record = Record(s, plan))
    BY <1>9, <1>10 DEF Here
  <2>3. [setup EXCEPT ![s] = setup[s]] = setup
    BY <2>1
  <2>4. b.setup = setup \/ b.setup = [setup EXCEPT ![s] = Record(s, plan)]
    BY <2>2, <2>3
  <2>5. b.disk = last /\ b.baseline = baseline
    BY <1>10 DEF Here
  <2>6. \A i \in 1..Len(commit) : F[i].disk = commit[i] /\ F[i].setup = setup /\ F[i].baseline = baseline
    BY <1>8 DEF Here
  <2> QED
    BY <2>4, <2>5, <2>6
<1>13. PICK S : S = {F[i] : i \in 1..Len(commit)} \cup {b}
  OBVIOUS
<1>14. F \in Seq(S) /\ b \in S /\ Len(F) = Len(commit)
  <2>1. \A i \in 1..Len(commit) : F[i] \in S
    BY <1>13
  <2>2. F = [i \in 1..Len(commit) |-> F[i]]
    BY <1>8
  <2> QED
    BY <1>3, <1>13, <2>1, <2>2, FunctionIs
<1>15. Left(b) \/ \E i \in 1..Len(commit) : Left(F[i])
  BY <1>11, <1>14, LeftAfter
<1> QED
  BY <1>3, <1>4, <1>7, <1>12, <1>15 DEF Left

(* The set-up of a scope that is there.                                    *)
LEMMA SetupIs ==
    ASSUME ProjectInv, NEW s \in Scopes, setup[s] # Nothing
    PROVE  /\ setup[s] \in Setup /\ setup[s].plan \in SetupPlan /\ setup[s].plan.identity \in Identities
           /\ setup[s].running \in SetupRun \cup {Nothing} /\ setup[s].result \in SetupResult \cup {Nothing}
           /\ HasContext(disk) /\ Fine(disk) /\ ProjectTypeOK
<1>1. setup[s] \in Setup /\ HasContext(disk) /\ Fine(disk) /\ ProjectTypeOK
  BY DEF ProjectInv, ProjectTypeOK, SetupOK
<1>2. /\ setup[s].plan \in SetupPlan
      /\ setup[s].running \in SetupRun \cup {Nothing} /\ setup[s].result \in SetupResult \cup {Nothing}
  BY <1>1 DEF Setup
<1> QED
  BY <1>1, <1>2 DEF SetupPlan

(* project setup plan                                                      *)
LEMMA PlanSetupStep ==
    ASSUME ProjectInv, NEW s \in Scopes, NEW identity \in Identities, PlanSetup(s, identity)
    PROVE  ProjectInv'
<1>1. /\ Fine(disk') /\ HasContext(disk') /\ baseline' = baseline
      /\ setup' = setup \/ \E plan \in SetupPlan : setup' = [setup EXCEPT ![s] = Record(s, plan)]
  BY Planned
<1>2. MoreUsed /\ NotRunning(s) /\ UNCHANGED <<product, limits, code, process>>
  BY LeavesUses DEF PlanSetup, ProjectInv, ProjectTypeOK
<1>3. /\ setup \in [Scopes -> Setup \cup {Nothing}] /\ baseline \in Baseline
      /\ code \in [Scopes -> 0..limits.edits] /\ process \in [Processes -> Process \cup {Nothing}]
  BY DEF ProjectInv, ProjectTypeOK
<1>4. /\ setup' \in [Scopes -> Setup \cup {Nothing}]
      /\ \A t \in Scopes : t # s => setup'[t] = setup[t]
      /\ setup'[s] # setup[s] => setup'[s].result = Nothing
  <2>1. CASE setup' = setup
    BY <1>3, <2>1
  <2>2. ASSUME NEW plan \in SetupPlan, setup' = [setup EXCEPT ![s] = Record(s, plan)]
        PROVE  /\ setup' \in [Scopes -> Setup \cup {Nothing}]
               /\ \A t \in Scopes : t # s => setup'[t] = setup[t]
               /\ setup'[s].result = Nothing
    <3>1. PICK r : r = [plan |-> plan, applied |-> FALSE, running |-> Nothing, result |-> Nothing]
      OBVIOUS
    <3>2. r \in Setup /\ r.result = Nothing /\ r = Record(s, plan)
      BY <3>1 DEF Setup, Record
    <3> QED
      BY <1>3, <2>2, <3>2
  <2> QED
    BY <1>1, <2>1, <2>2
<1>5. ProjectTypeOK'
  <2>1. disk' \in DiskType
    BY <1>1 DEF Fine
  <2> QED
    BY <1>1, <1>2, <1>3, <1>4, <2>1, TypesKept
<1>6. SetupOK'
  <2>1. ASSUME NEW t \in Scopes, setup'[t] # Nothing, setup'[t].result # Nothing PROVE setup'[t] = setup[t]
    BY <1>4, <2>1
  <2> QED
    BY <1>1, <2>1 DEF ProjectInv, SetupOK
<1>7. ProcessOK'
  <2>1. \A p \in Processes : process'[p] # Nothing =>
          LET t == process[p].scope
          IN /\ process[p].kind = "setup" =>
                  setup'[t] # Nothing /\ setup'[t].running = setup[t].running /\ setup'[t].plan = setup[t].plan
             /\ process[p].kind = "baseline" => baseline'.checks[t] = baseline.checks[t]
    <3>1. ASSUME NEW p \in Processes, process[p] # Nothing, process[p].kind = "setup"
          PROVE  setup[process[p].scope] # Nothing /\ setup'[process[p].scope] = setup[process[p].scope]
      <4>1. process[p].scope \in Scopes /\ OnRecord(process[p])
        <5>1. process[p] \in Process
          BY <1>3, <3>1
        <5> QED
          BY <3>1, <5>1 DEF Process, ProjectInv, ProcessOK
      <4>2. setup[process[p].scope] # Nothing /\ setup[process[p].scope].running # Nothing
        BY <3>1, <4>1 DEF OnRecord
      <4>3. process[p].scope # s
        BY <1>2, <4>2 DEF NotRunning
      <4> QED
        BY <1>4, <4>1, <4>2, <4>3
    <3> QED
      BY <1>1, <1>2, <3>1
  <2>2. \A p \in Processes : process'[p] \in {process[p], Nothing}
    BY <1>2
  <2> QED
    BY <1>1, <1>2, <2>1, <2>2, NoNewCheck
<1>8. CertifiedByARun'
  BY <1>1 DEF ProjectInv, CertifiedByARun, PassedRun
<1>9. \A t \in Scopes : code'[t] <= used'.edits
  BY <1>2, CodeKept
<1> QED
  BY <1>1, <1>5, <1>6, <1>7, <1>8, <1>9 DEF ProjectInv

(* A step that leaves the plans, what they found, and what is certified.   *)
LEMMA RestStep ==
    ASSUME ProjectInv, UNCHANGED <<disk, limits>>, MoreUsed,
           product' \in [Scopes -> Stacks \cup {Nothing}],
           setup' \in [Scopes -> Setup \cup {Nothing}], baseline' \in Baseline,
           code' \in [Scopes -> 0..limits.edits], \A s \in Scopes : code'[s] <= used'.edits,
           process' \in [Processes -> Process \cup {Nothing}], \A p \in Processes : process'[p] \in {process[p], Nothing},
           \A s \in Scopes : /\ setup'[s] = Nothing <=> setup[s] = Nothing
                             /\ setup[s] # Nothing => /\ setup'[s].plan = setup[s].plan /\ setup'[s].running = setup[s].running
                                                      /\ setup'[s].result = setup[s].result,
           baseline'.checks = baseline.checks, baseline'.runs = baseline.runs
    PROVE  ProjectInv'
<1>1. ProjectTypeOK'
  BY DEF ProjectInv, ProjectTypeOK, ContextTypeOK, MoreUsed, Used
<1>2. SetupOK'
  BY DEF ProjectInv, SetupOK
<1>3. ProcessOK'
  <2>1. \A p \in Processes : process'[p] # Nothing =>
          LET t == process[p].scope
          IN /\ process[p].kind = "setup" =>
                  setup'[t] # Nothing /\ setup'[t].running = setup[t].running /\ setup'[t].plan = setup[t].plan
             /\ process[p].kind = "baseline" => baseline'.checks[t] = baseline.checks[t]
    <3>1. ASSUME NEW p \in Processes, process'[p] # Nothing
          PROVE  process[p] \in Process /\ OnRecord(process[p])
      BY <3>1 DEF ProjectInv, ProjectTypeOK, ProcessOK
    <3>2. ASSUME NEW p \in Processes, process'[p] # Nothing
          PROVE  process[p].scope \in Scopes /\ (process[p].kind = "setup" => setup[process[p].scope] # Nothing)
      BY <3>1, <3>2 DEF Process, OnRecord
    <3> QED
      BY <3>2
  <2> QED
    BY <2>1, NoNewCheck
<1>4. CertifiedByARun'
  BY DEF ProjectInv, CertifiedByARun, PassedRun
<1> QED
  BY <1>1, <1>2, <1>3, <1>4 DEF ProjectInv

(* The scopes' background, as an entry is bound to it.                     *)
LEMMA BoundsAre ==
    ASSUME Fine(disk), HasContext(disk)
    PROVE  [t \in Scopes |-> IF t \in Present THEN Stamp(t) ELSE Nothing] \in [Scopes -> Stamps \cup {Nothing}]
BY StampIs

(* Parts of the baseline that are written.                                 *)
LEMMA FileWritten ==
    ASSUME NEW b \in Baseline, NEW s \in Scopes, NEW to \in File, NEW c, c = [b EXCEPT !.files[s] = to]
    PROVE  c \in Baseline /\ c.checks = b.checks /\ c.runs = b.runs
<1>1. PICK X : X = [b.files EXCEPT ![s] = to]
  OBVIOUS
<1>2. X \in [Scopes -> File]
  BY <1>1 DEF Baseline
<1>3. c = [b EXCEPT !.files = X]
  BY <1>1
<1> QED
  BY <1>2, <1>3 DEF Baseline

(* A managed script of the baseline that is written.                       *)
LEMMA WrapperWritten ==
    ASSUME NEW b \in Baseline, NEW s \in Scopes, NEW to \in Identities, NEW c, c = [b EXCEPT !.wrappers[s] = to]
    PROVE  c \in Baseline /\ c.checks = b.checks /\ c.runs = b.runs
<1>1. PICK X : X = [b.wrappers EXCEPT ![s] = to]
  OBVIOUS
<1>2. X \in [Scopes -> Identities \cup {Nothing}]
  BY <1>1 DEF Baseline
<1>3. c = [b EXCEPT !.wrappers = X]
  BY <1>1
<1> QED
  BY <1>2, <1>3 DEF Baseline

(* An entry of the baseline that is written.                               *)
LEMMA EntryWritten ==
    ASSUME NEW b \in Baseline, NEW s \in Scopes, NEW entry \in Entry, NEW c, c = [b EXCEPT !.entries[s] = entry]
    PROVE  c \in Baseline /\ c.checks = b.checks /\ c.runs = b.runs
<1>1. PICK X : X = [b.entries EXCEPT ![s] = entry]
  OBVIOUS
<1>2. X \in [Scopes -> Entry \cup {Nothing}]
  BY <1>1 DEF Baseline
<1>3. c = [b EXCEPT !.entries = X]
  BY <1>1
<1> QED
  BY <1>2, <1>3 DEF Baseline

(* The background the entries are bound to, written anew.                  *)
LEMMA BoundWritten ==
    ASSUME NEW b \in Baseline, NEW bound \in [Scopes -> Stamps \cup {Nothing}], NEW c, c = [b EXCEPT !.bound = bound]
    PROVE  c \in Baseline /\ c.checks = b.checks /\ c.runs = b.runs
BY DEF Baseline

(* A command that writes nothing but parts of the baseline, and marks a    *)
(* set-up as applied.                                                      *)
LEMMA BaselineStep ==
    ASSUME ProjectInv, MoreUsed, UNCHANGED <<disk, product, limits, code, process>>,
           baseline' \in Baseline, baseline'.checks = baseline.checks, baseline'.runs = baseline.runs,
           setup' \in [Scopes -> Setup \cup {Nothing}],
           \A s \in Scopes : /\ setup'[s] = Nothing <=> setup[s] = Nothing
                             /\ setup[s] # Nothing => /\ setup'[s].plan = setup[s].plan /\ setup'[s].running = setup[s].running
                                                      /\ setup'[s].result = setup[s].result
    PROVE  ProjectInv'
<1>1. /\ product' \in [Scopes -> Stacks \cup {Nothing}]
      /\ code' \in [Scopes -> 0..limits.edits] /\ process' \in [Processes -> Process \cup {Nothing}]
  BY DEF ProjectInv, ProjectTypeOK, ContextTypeOK
<1>2. \A s \in Scopes : code'[s] <= used'.edits
  BY CodeKept
<1>3. \A p \in Processes : process'[p] \in {process[p], Nothing}
  OBVIOUS
<1> QED
  BY <1>1, <1>2, <1>3, RestStep

(* project setup apply                                                     *)
LEMMA ApplySetupStep ==
    ASSUME ProjectInv, NEW s \in Scopes, ApplySetup(s)
    PROVE  ProjectInv' /\ disk' = disk /\ baseline'.checks = baseline.checks
<1>1. /\ MoreUsed /\ UNCHANGED <<product, limits, code, process>> /\ setup[s] # Nothing
      /\ baseline \in Baseline /\ setup \in [Scopes -> Setup \cup {Nothing}]
  BY LeavesUses DEF ApplySetup, ProjectInv, ProjectTypeOK
<1>2. HasContext(disk) /\ Fine(disk) /\ setup[s] \in Setup /\ setup[s].plan.identity \in Identities
  BY <1>1, SetupIs
<1>3. PICK identity \in Identities : identity = setup[s].plan.identity
  BY <1>2
<1>4. PICK entry \in Entry : entry = [of |-> identity, wrapped |-> FALSE]
  BY DEF Entry
<1>5. PICK bound \in [Scopes -> Stamps \cup {Nothing}] : bound = [t \in Scopes |-> IF t \in Present THEN Stamp(t) ELSE Nothing]
  BY <1>2, BoundsAre
<1>6. PICK a : a = [baseline EXCEPT !.files[s] = identity]
  OBVIOUS
<1>7. PICK b : b = [a EXCEPT !.entries[s] = entry, !.bound = bound]
  OBVIOUS
<1>17. /\ a \in Baseline /\ a.checks = baseline.checks /\ a.runs = baseline.runs
       /\ b \in Baseline /\ b.checks = baseline.checks /\ b.runs = baseline.runs
  <2>1. identity \in File
    BY DEF File
  <2>2. a \in Baseline /\ a.checks = baseline.checks /\ a.runs = baseline.runs
    BY <1>1, <1>6, <2>1, FileWritten
  <2>3. PICK c : c = [a EXCEPT !.entries[s] = entry]
    OBVIOUS
  <2>4. c \in Baseline /\ c.checks = a.checks /\ c.runs = a.runs
    BY <2>2, <2>3, EntryWritten
  <2>5. b = [c EXCEPT !.bound = bound]
    BY <1>7, <2>3
  <2>6. b \in Baseline /\ b.checks = c.checks /\ b.runs = c.runs
    BY <2>4, <2>5, BoundWritten
  <2> QED
    BY <2>2, <2>4, <2>6
<1>8. PICK k \in Setup : k = [setup[s] EXCEPT !.applied = TRUE] /\ k.plan = setup[s].plan /\ k.running = setup[s].running /\ k.result = setup[s].result
  <2>1. PICK o \in Setup : o = setup[s]
    BY <1>2
  <2>2. PICK k : k = [o EXCEPT !.applied = TRUE]
    OBVIOUS
  <2>3. k \in Setup /\ k.plan = o.plan /\ k.running = o.running /\ k.result = o.result
    BY <2>2 DEF Setup
  <2> QED
    BY <2>1, <2>2, <2>3
<1>9. PICK X : X = [setup EXCEPT ![s] = k]
  OBVIOUS
<1>10. /\ X \in [Scopes -> Setup \cup {Nothing}]
       /\ \A t \in Scopes : /\ X[t] = Nothing <=> setup[t] = Nothing
                            /\ setup[t] # Nothing => /\ X[t].plan = setup[t].plan /\ X[t].running = setup[t].running
                                                     /\ X[t].result = setup[t].result
  <2>1. X[s] = k /\ \A t \in Scopes : t # s => X[t] = setup[t]
    BY <1>1, <1>9
  <2>2. X \in [Scopes -> Setup \cup {Nothing}]
    BY <1>1, <1>8, <1>9
  <2> QED
    BY <1>1, <1>8, <2>1, <2>2, ChecksAssumption
<1>11. PICK x, y, z : /\ x = [Here EXCEPT !.baseline = a] /\ y = [Here EXCEPT !.baseline = b]
                      /\ z = [Here EXCEPT !.baseline = b, !.setup = X]
  OBVIOUS
<1>12. /\ x.disk = disk /\ x.setup = setup /\ x.baseline = a /\ y.disk = disk /\ y.setup = setup /\ y.baseline = b
       /\ z.disk = disk /\ z.setup = X /\ z.baseline = b
  BY <1>11 DEF Here
<1>13. Leaves(<<x, y, z>>)
  <2>1. x = [Here EXCEPT !.baseline.files[s] = setup[s].plan.identity]
    BY <1>3, <1>6, <1>11 DEF Here
  <2>2. y = [x EXCEPT !.baseline.entries[s] = entry, !.baseline.bound = bound]
    BY <1>7, <1>11 DEF Here
  <2>3. z = [y EXCEPT !.setup[s].applied = TRUE]
    BY <1>8, <1>9, <1>11 DEF Here
  <2> QED
    BY <1>3, <1>4, <1>5, <2>1, <2>2, <2>3 DEF ApplySetup
<1>14. /\ disk' = disk /\ setup' \in {setup, X} /\ baseline' \in {a, b}
  BY <1>12, <1>13, LeftThree DEF Left
<1>15. /\ baseline' \in Baseline /\ baseline'.checks = baseline.checks /\ baseline'.runs = baseline.runs
  BY <1>14, <1>17
<1>16. /\ setup' \in [Scopes -> Setup \cup {Nothing}]
       /\ \A t \in Scopes : /\ setup'[t] = Nothing <=> setup[t] = Nothing
                            /\ setup[t] # Nothing => /\ setup'[t].plan = setup[t].plan /\ setup'[t].running = setup[t].running
                                                     /\ setup'[t].result = setup[t].result
  BY <1>1, <1>10, <1>14
<1> QED
  BY <1>1, <1>14, <1>15, <1>16, BaselineStep

(* verification materialize                                                *)
LEMMA MaterializeStep ==
    ASSUME ProjectInv, NEW s \in Scopes, Materialize(s)
    PROVE  ProjectInv' /\ disk' = disk /\ baseline'.checks = baseline.checks
<1>1. /\ MoreUsed /\ UNCHANGED <<product, limits, code, process>>
      /\ baseline \in Baseline /\ setup \in [Scopes -> Setup \cup {Nothing}]
      /\ HasContext(disk) /\ Fine(disk)
  BY LeavesUses DEF Materialize, ProjectInv, ProjectTypeOK, Known, HasContext
<1>2. PICK entry \in Entry : entry = baseline.entries[s]
  BY <1>1, BaselineIs DEF Materialize
<1>3. entry.of \in Identities
  BY DEF Entry
<1>4. PICK bound \in [Scopes -> Stamps \cup {Nothing}] : bound = [t \in Scopes |-> IF t \in Present THEN Stamp(t) ELSE Nothing]
  BY <1>1, BoundsAre
<1>5. SUFFICES /\ disk' = disk /\ setup' = setup
               /\ baseline' \in Baseline /\ baseline'.checks = baseline.checks /\ baseline'.runs = baseline.runs
  BY <1>1, BaselineStep
<1>6. CASE entry.wrapped
  <2>1. PICK c : c = [baseline EXCEPT !.bound = bound]
    OBVIOUS
  <2>2. c \in Baseline /\ c.checks = baseline.checks /\ c.runs = baseline.runs
    BY <1>1, <2>1, BoundWritten
  <2>3. PICK x : x = [Here EXCEPT !.baseline = c]
    OBVIOUS
  <2>4. x.disk = disk /\ x.setup = setup /\ x.baseline = c
    BY <2>3 DEF Here
  <2>5. x = [Here EXCEPT !.baseline.bound = bound]
    BY <2>1, <2>3 DEF Here
  <2>6. Leaves(<<x>>)
    BY <1>2, <1>4, <1>6, <2>5 DEF Materialize
  <2> QED
    BY <2>2, <2>4, <2>6, LeftOne DEF Left
<1>7. CASE ~entry.wrapped
  <2>1. PICK a : a = [baseline EXCEPT !.wrappers[s] = entry.of]
    OBVIOUS
  <2>2. a \in Baseline /\ a.checks = baseline.checks /\ a.runs = baseline.runs
    BY <1>1, <1>3, <2>1, WrapperWritten
  <2>3. a.entries = baseline.entries
    BY <1>1, <2>1 DEF Baseline
  <2>4. PICK new : new = [entry EXCEPT !.wrapped = TRUE]
    OBVIOUS
  <2>5. new \in Entry
    BY <2>4 DEF Entry
  <2>6. PICK c : c = [a EXCEPT !.entries[s] = new]
    OBVIOUS
  <2>7. c \in Baseline /\ c.checks = a.checks /\ c.runs = a.runs
    BY <2>2, <2>5, <2>6, EntryWritten
  <2>8. PICK b : b = [c EXCEPT !.bound = bound]
    OBVIOUS
  <2>9. b \in Baseline /\ b.checks = c.checks /\ b.runs = c.runs
    BY <2>7, <2>8, BoundWritten
  <2>10. PICK x, y : x = [Here EXCEPT !.baseline = a] /\ y = [Here EXCEPT !.baseline = b]
    OBVIOUS
  <2>11. x.disk = disk /\ x.setup = setup /\ x.baseline = a /\ y.disk = disk /\ y.setup = setup /\ y.baseline = b
    BY <2>10 DEF Here
  <2>12. Leaves(<<x, y>>)
    <3>1. x = [Here EXCEPT !.baseline.wrappers[s] = entry.of]
      BY <2>1, <2>10 DEF Here
    <3>2. c = [a EXCEPT !.entries[s].wrapped = TRUE]
      BY <1>2, <2>3, <2>4, <2>6
    <3>3. y = [x EXCEPT !.baseline.entries[s].wrapped = TRUE, !.baseline.bound = bound]
      BY <2>8, <2>10, <3>2 DEF Here
    <3> QED
      BY <1>2, <1>4, <1>7, <3>1, <3>3 DEF Materialize
  <2> QED
    BY <2>2, <2>7, <2>9, <2>11, <2>12, LeftTwo DEF Left
<1> QED
  BY <1>6, <1>7

(* Somebody edits the code or a verification file.                         *)
LEMMA EditStep ==
    ASSUME ProjectInv, NEW s \in Scopes, Edit(s)
    PROVE  ProjectInv' /\ disk' = disk /\ baseline'.checks = baseline.checks
<1>1. /\ MoreUsed /\ UNCHANGED <<disk, product, setup, limits, process>>
      /\ baseline \in Baseline /\ setup \in [Scopes -> Setup \cup {Nothing}] /\ used \in Used
      /\ code \in [Scopes -> 0..limits.edits]
  BY UsesMore DEF Edit, ProjectInv, ProjectTypeOK, ContextTypeOK, Used
<1>2. CASE baseline.files[s] # Nothing /\ UNCHANGED code
           /\ \E to \in {"edited", Nothing} \ {baseline.files[s]} : baseline' = [baseline EXCEPT !.files[s] = to]
  <2>1. PICK to \in File : baseline' = [baseline EXCEPT !.files[s] = to]
    BY <1>2 DEF File
  <2>2. baseline' \in Baseline /\ baseline'.checks = baseline.checks /\ baseline'.runs = baseline.runs
    BY <1>1, <2>1, FileWritten
  <2> QED
    BY <1>1, <1>2, <2>2, BaselineStep
<1>3. CASE code' = [code EXCEPT ![s] = @ + 1] /\ UNCHANGED baseline
  <2>1. /\ product' \in [Scopes -> Stacks \cup {Nothing}] /\ process' \in [Processes -> Process \cup {Nothing}]
    BY <1>1 DEF ProjectInv, ProjectTypeOK, ContextTypeOK
  <2>2. used'.edits = used.edits + 1 /\ used'.edits <= limits.edits
    <3>1. used' = [used EXCEPT !.edits = @ + 1] /\ used.edits < limits.edits /\ used.edits \in Nat /\ limits.edits \in Nat
      BY Numbers DEF Edit
    <3> QED
      BY <1>1, <3>1 DEF Used
  <2>3. \A t \in Scopes : code[t] \in Nat /\ code[t] <= used.edits
    BY Numbers
  <2>4. \A t \in Scopes : code'[t] \in Nat /\ code'[t] <= used.edits + 1
    BY <1>1, <1>3, <2>3, Numbers
  <2>5. code' \in [Scopes -> 0..limits.edits] /\ \A t \in Scopes : code'[t] <= used'.edits
    <3>1. \A t \in Scopes : code'[t] \in 0..limits.edits
      BY <2>2, <2>4, Numbers
    <3>2. code' = [t \in Scopes |-> code'[t]]
      BY <1>1, <1>3
    <3> QED
      BY <2>2, <2>4, <3>1, <3>2
  <2>6. \A p \in Processes : process'[p] \in {process[p], Nothing}
    BY <1>1
  <2> QED
    BY <1>1, <1>3, <2>1, <2>5, <2>6, RestStep
<1> QED
  BY <1>2, <1>3 DEF Edit

(* Somebody edits a manifest.                                              *)
LEMMA EditManifestStep ==
    ASSUME ProjectInv, NEW s \in Scopes, EditManifest(s), UNCHANGED <<baseline, code, process>>
    PROVE  ProjectInv'
<1>1. /\ MoreUsed /\ UNCHANGED <<disk, setup, limits>>
      /\ baseline \in Baseline /\ setup \in [Scopes -> Setup \cup {Nothing}]
      /\ process \in [Processes -> Process \cup {Nothing}]
      /\ code \in [Scopes -> 0..limits.edits] /\ product \in [Scopes -> Stacks \cup {Nothing}]
  BY UsesMore DEF EditManifest, ProjectInv, ProjectTypeOK, ContextTypeOK
<1>2. product' \in [Scopes -> Stacks \cup {Nothing}]
  <2>1. limits.stacks \subseteq Stacks
    BY ContextAssumption DEF ProjectInv, ProjectTypeOK, ContextTypeOK
  <2> QED
    BY <1>1, <2>1 DEF EditManifest
<1>3. \A t \in Scopes : code'[t] <= used'.edits
  BY <1>1, CodeKept
<1>4. \A p \in Processes : process'[p] \in {process[p], Nothing}
  OBVIOUS
<1> QED
  BY <1>1, <1>2, <1>3, <1>4, RestStep

(* A process dies.                                                         *)
LEMMA DiesStep == ASSUME ProjectInv, NEW p \in Processes, Dies(p) PROVE ProjectInv'
<1>1. /\ MoreUsed /\ UNCHANGED <<disk, product, setup, limits, baseline, code>>
      /\ baseline \in Baseline /\ setup \in [Scopes -> Setup \cup {Nothing}]
      /\ process \in [Processes -> Process \cup {Nothing}]
      /\ code \in [Scopes -> 0..limits.edits] /\ product \in [Scopes -> Stacks \cup {Nothing}]
  BY UsesMore DEF Dies, ProjectInv, ProjectTypeOK, ContextTypeOK
<1>2. /\ process' \in [Processes -> Process \cup {Nothing}]
      /\ \A q \in Processes : process'[q] \in {process[q], Nothing}
  BY <1>1 DEF Dies
<1>3. \A t \in Scopes : code'[t] <= used'.edits
  BY <1>1, CodeKept
<1> QED
  BY <1>1, <1>2, <1>3, RestStep

(* A check that begins: it is the only one with its identity, and those    *)
(* that go on have the record they had.                                    *)
LEMMA NewCheck ==
    ASSUME ProjectInv, MoreUsed, used'.runs = NextRun, UNCHANGED disk,
           NEW p \in Processes, process[p] = Nothing, NEW run, process' = [process EXCEPT ![p] = run],
           run.id = NextRun, OnRecord(run)',
           \A q \in Processes : process[q] # Nothing =>
              LET s == process[q].scope
              IN /\ process[q].kind = "setup" =>
                      setup'[s] # Nothing /\ setup'[s].running = setup[s].running /\ setup'[s].plan = setup[s].plan
                 /\ process[q].kind = "baseline" => baseline'.checks[s] = baseline.checks[s]
    PROVE  ProcessOK'
<1>1. process \in [Processes -> Process \cup {Nothing}]
  BY DEF ProjectInv, ProjectTypeOK
<1>2. process'[p] = run /\ \A q \in Processes : q # p => process'[q] = process[q]
  BY <1>1
<1>3. used.runs \in Nat /\ NextRun = used.runs + 1
  BY Numbers DEF NextRun
<1>4. ASSUME NEW q \in Processes, q # p, process'[q] # Nothing PROVE OnRecord(process[q])'
  <2>1. PICK r : r = process[q] /\ process'[q] = r /\ r # Nothing /\ OnRecord(r)
    BY <1>2, <1>4 DEF ProjectInv, ProcessOK
  <2>2. r.id <= used'.runs
    BY <1>3, <2>1, Numbers
  <2>3. r.kind = "setup" =>
          /\ setup'[r.scope] # Nothing /\ setup'[r.scope].running = setup[r.scope].running
          /\ setup'[r.scope].plan = setup[r.scope].plan
    BY <2>1
  <2>4. r.kind = "baseline" => baseline'.checks[r.scope] = baseline.checks[r.scope]
    BY <2>1
  <2>5. OnRecord(r)'
    BY <2>1, <2>2, <2>3, <2>4 DEF OnRecord
  <2> QED
    BY <2>1, <2>5
<1>5. \A q \in Processes : process'[q] # Nothing => OnRecord(process[q])'
  BY <1>2, <1>4
<1>6. \A q \in Processes : q # p /\ process'[q] # Nothing => process'[q].id # run.id
  BY <1>2, <1>3, Numbers
<1>7. ASSUME NEW q \in Processes, NEW r \in Processes, process'[q] # Nothing, process'[r] # Nothing, process'[q].id = process'[r].id
      PROVE  q = r
  <2>1. CASE q # p /\ r # p
    BY <1>2, <1>7, <2>1 DEF ProjectInv, ProcessOK
  <2> QED
    BY <1>2, <1>6, <1>7, <2>1
<1> QED
  BY <1>5, <1>7 DEF ProcessOK

(* A check in progress is of a scope, and has a set-up or a baseline that  *)
(* names it.                                                               *)
LEMMA CheckIs ==
    ASSUME ProjectInv, NEW p \in Processes, process[p] # Nothing
    PROVE  /\ process[p] \in Process /\ process[p].scope \in Scopes /\ OnRecord(process[p])
           /\ process[p].kind \in {"setup", "baseline"}
           /\ process[p].kind = "setup" => process[p].before \in SetupInput
           /\ process[p].kind = "baseline" => /\ process[p].before \in [standard : ProjectStandard, code : Nat]
                                              /\ process[p].certified \in ProjectStandard \cup {Nothing}
<1>1. process[p] \in Process /\ OnRecord(process[p])
  BY DEF ProjectInv, ProjectTypeOK, ProcessOK
<1> QED
  BY <1>1 DEF Process

(* project setup check, to the point where its commands run                *)
LEMMA BeginSetupCheckStep ==
    ASSUME ProjectInv, NEW p \in Processes, NEW s \in Scopes, BeginSetupCheck(p, s)
    PROVE  ProjectInv'
<1>1. PICK running : running = [id |-> NextRun, inputs |-> SetupInputs(s)]
  OBVIOUS
<1>2. PICK run : run = [kind |-> "setup", scope |-> s, id |-> NextRun, before |-> running.inputs]
  OBVIOUS
<1>3. /\ process[p] = Nothing /\ setup[s] # Nothing
      /\ setup[s].running # Nothing => ~Alive(setup[s].running.id)
      /\ Stamp(s) = setup[s].plan.context
      /\ setup' = [setup EXCEPT ![s].running = running]
      /\ process' = [process EXCEPT ![p] = run]
      /\ UNCHANGED <<disk, product, limits, baseline, code>>
  BY <1>1, <1>2 DEF BeginSetupCheck, OwnerExited
<1>4. MoreUsed /\ used'.runs = NextRun /\ NextRun \in Nat \ {0}
  <2>1. used' = [used EXCEPT !.runs = used.runs + 1] /\ used.runs < limits.runs /\ ContextTypeOK /\ used \in Used
    BY DEF BeginSetupCheck, NextRun, ProjectInv, ProjectTypeOK, ContextTypeOK, Used
  <2>2. MoreUsed
    BY <2>1, UsesMore
  <2>3. used'.runs = used.runs + 1
    BY <2>1 DEF Used
  <2> QED
    BY <2>2, <2>3, Numbers DEF NextRun
<1>5. /\ setup[s] \in Setup /\ HasContext(disk) /\ SetupInputs(s) \in SetupInput
      /\ setup \in [Scopes -> Setup \cup {Nothing}] /\ process \in [Processes -> Process \cup {Nothing}]
  BY <1>3, SetupIs, SetupInputsIs DEF ProjectInv, ProjectTypeOK
<1>6. running \in SetupRun /\ running.id = NextRun /\ running.inputs = SetupInputs(s)
  BY <1>1, <1>4, <1>5 DEF SetupRun
<1>7. run.kind = "setup" /\ run.scope = s /\ run.id = NextRun /\ run.before = SetupInputs(s)
  BY <1>1, <1>2
<1>8. run \in Process
  BY <1>1, <1>2, <1>4, <1>5 DEF Process
<1>9. PICK o \in Setup : o = setup[s]
  BY <1>5
<1>10. PICK k : k = [o EXCEPT !.running = running]
  OBVIOUS
<1>11. k \in Setup /\ k.plan = o.plan /\ k.running = running /\ k.result = o.result /\ k # Nothing
  <2>1. k \in Setup /\ k.plan = o.plan /\ k.running = running /\ k.result = o.result
    BY <1>6, <1>10 DEF Setup
  <2> QED
    BY <2>1, ChecksAssumption
<1>12. setup' = [setup EXCEPT ![s] = k]
  BY <1>3, <1>9, <1>10
<1>13. setup'[s] = k /\ (\A t \in Scopes : t # s => setup'[t] = setup[t]) /\ setup' \in [Scopes -> Setup \cup {Nothing}]
  BY <1>5, <1>11, <1>12
<1>14. ProjectTypeOK'
  <2>1. /\ disk' \in DiskType /\ baseline' \in Baseline /\ code' \in [Scopes -> 0..limits.edits]
        /\ process' \in [Processes -> Process \cup {Nothing}]
    BY <1>3, <1>5, <1>8 DEF ProjectInv, ProjectTypeOK, ContextTypeOK
  <2> QED
    BY <1>3, <1>4, <1>13, <2>1, TypesKept
<1>15. SetupOK'
  <2>1. \A t \in Scopes : setup'[t] # Nothing => /\ setup[t] # Nothing /\ setup'[t].plan = setup[t].plan
                                                 /\ setup'[t].result = setup[t].result
    BY <1>3, <1>9, <1>11, <1>13
  <2> QED
    BY <1>3, <2>1 DEF ProjectInv, SetupOK
<1>16. ProcessOK'
  <2>1. OnRecord(run)'
    <3>1. run.before.plan = o.plan /\ run.before.context = o.plan.context
      <4>1. SetupInputs(s).plan = setup[s].plan /\ SetupInputs(s).context = Stamp(s)
        BY DEF SetupInputs
      <4> QED
        BY <1>3, <1>7, <1>9, <4>1
    <3>2. run.id <= used'.runs
      BY <1>4, <1>7
    <3> QED
      BY <1>6, <1>7, <1>11, <1>13, <3>1, <3>2, ChecksAssumption DEF OnRecord
  <2>2. ASSUME NEW q \in Processes, process[q] # Nothing, process[q].kind = "setup"
        PROVE  setup[process[q].scope] # Nothing /\ setup'[process[q].scope] = setup[process[q].scope]
    <3>1. /\ process[q].scope \in Scopes /\ setup[process[q].scope] # Nothing
          /\ setup[process[q].scope].running # Nothing /\ setup[process[q].scope].running.id = process[q].id
      BY <2>2, CheckIs DEF OnRecord
    <3>2. process[q].scope # s
      BY <1>3, <2>2, <3>1 DEF Alive
    <3> QED
      BY <1>13, <3>1, <3>2
  <2>3. \A q \in Processes : process[q] # Nothing =>
          LET t == process[q].scope
          IN /\ process[q].kind = "setup" =>
                  setup'[t] # Nothing /\ setup'[t].running = setup[t].running /\ setup'[t].plan = setup[t].plan
             /\ process[q].kind = "baseline" => baseline'.checks[t] = baseline.checks[t]
    BY <1>3, <2>2
  <2> QED
    BY <1>3, <1>4, <1>7, <2>1, <2>3, NewCheck
<1>17. CertifiedByARun'
  BY <1>3 DEF ProjectInv, CertifiedByARun, PassedRun
<1>18. \A t \in Scopes : code'[t] <= used'.edits
  BY <1>3, <1>4, CodeKept
<1>19. Fine(disk')
  BY <1>3 DEF ProjectInv
<1> QED
  BY <1>14, <1>15, <1>16, <1>17, <1>18, <1>19 DEF ProjectInv

(* A check that ends: those that go on have another scope.                 *)
LEMMA EndedCheck ==
    ASSUME ProjectInv, MoreUsed, UNCHANGED disk,
           NEW p \in Processes, process[p] # Nothing, process' = [process EXCEPT ![p] = Nothing],
           \A s \in Scopes : setup[s] # Nothing => setup'[s] # Nothing,
           \A s \in Scopes : s # process[p].scope \/ process[p].kind # "setup" => setup'[s] = setup[s],
           \A s \in Scopes : s # process[p].scope \/ process[p].kind # "baseline" => baseline'.checks[s] = baseline.checks[s]
    PROVE  ProcessOK'
<1>1. process \in [Processes -> Process \cup {Nothing}]
  BY DEF ProjectInv, ProjectTypeOK
<1>2. process'[p] = Nothing /\ \A q \in Processes : q # p => process'[q] = process[q]
  BY <1>1
<1>3. ASSUME NEW q \in Processes, process'[q] # Nothing
      PROVE  LET s == process[q].scope
             IN /\ process[q].kind = "setup" =>
                     setup'[s] # Nothing /\ setup'[s].running = setup[s].running /\ setup'[s].plan = setup[s].plan
                /\ process[q].kind = "baseline" => baseline'.checks[s] = baseline.checks[s]
  <2>1. q # p /\ process[q] # Nothing
    BY <1>2, <1>3
  <2>2. PICK r : r = process[q] /\ r.scope \in Scopes /\ OnRecord(r)
    BY <2>1, CheckIs
  <2>3. PICK e : e = process[p] /\ e.scope \in Scopes /\ OnRecord(e) /\ e.kind \in {"setup", "baseline"}
    BY CheckIs
  <2>4. r.id # e.id
    BY <2>1, <2>2, <2>3 DEF ProjectInv, ProcessOK
  <2>5. r.kind = e.kind => r.scope # e.scope
    BY <2>2, <2>3, <2>4 DEF OnRecord
  <2>6. r.kind = "setup" => setup[r.scope] # Nothing /\ setup'[r.scope] = setup[r.scope]
    BY <2>2, <2>3, <2>5 DEF OnRecord
  <2>7. r.kind = "baseline" => baseline'.checks[r.scope] = baseline.checks[r.scope]
    BY <2>2, <2>3, <2>5
  <2> QED
    BY <2>2, <2>6, <2>7
<1>4. \A q \in Processes : process'[q] \in {process[q], Nothing}
  BY <1>2
<1> QED
  BY <1>3, <1>4, NoNewCheck

(* project setup check, the result                                         *)
LEMMA EndSetupCheckStep ==
    ASSUME ProjectInv, NEW p \in Processes, NEW outcome \in Outcomes, EndSetupCheck(p, outcome)
    PROVE  ProjectInv'
<1>1. PICK run : run = process[p] /\ run # Nothing /\ run.kind = "setup"
  BY DEF EndSetupCheck
<1>2. run.scope \in Scopes /\ OnRecord(run) /\ run.before \in SetupInput
  BY <1>1, CheckIs
<1>3. PICK s \in Scopes : s = run.scope
  BY <1>2
<1>4. /\ setup[s] # Nothing /\ setup[s].running # Nothing /\ setup[s].running.id = run.id
      /\ run.before.plan = setup[s].plan /\ run.before.context = setup[s].plan.context
  BY <1>1, <1>2, <1>3 DEF OnRecord
<1>5. PICK result : result = [status |-> Judged(run.before, SetupInputs(s), outcome), inputs |-> run.before,
                              initialization |-> Initialization(s)]
  OBVIOUS
<1>6. /\ process' = [process EXCEPT ![p] = Nothing]
      /\ setup' = [setup EXCEPT ![s].result = result, ![s].running = Nothing]
      /\ UNCHANGED <<disk, product, limits, used, baseline, code>>
  BY <1>1, <1>3, <1>4, <1>5 DEF EndSetupCheck
<1>7. MoreUsed
  BY <1>6, UsesMore DEF ProjectInv, ProjectTypeOK
<1>8. /\ setup[s] \in Setup /\ setup[s].plan \in SetupPlan /\ baseline.files[s] \in File
      /\ setup \in [Scopes -> Setup \cup {Nothing}] /\ process \in [Processes -> Process \cup {Nothing}]
  BY <1>4, SetupIs, BaselineIs DEF ProjectInv, ProjectTypeOK
<1>9. /\ result \in SetupResult /\ result.inputs = run.before /\ result.initialization = <<setup[s].plan, baseline.files[s]>>
      /\ result.status = "passed" => run.before = SetupInputs(s)
  <2>1. /\ Judged(run.before, SetupInputs(s), outcome) \in Statuses
        /\ Judged(run.before, SetupInputs(s), outcome) = "passed" => run.before = SetupInputs(s)
    BY DEF Judged, Statuses, Outcomes
  <2>2. Initialization(s) = <<setup[s].plan, baseline.files[s]>> /\ Initialization(s) \in SetupPlan \X File
    BY <1>8 DEF Initialization
  <2> QED
    BY <1>2, <1>5, <2>1, <2>2 DEF SetupResult
<1>10. SetupInputs(s).file = baseline.files[s]
  BY DEF SetupInputs
<1>11. PICK o \in Setup : o = setup[s]
  BY <1>8
<1>12. PICK k : k = [o EXCEPT !.result = result, !.running = Nothing]
  OBVIOUS
<1>13. k \in Setup /\ k.plan = o.plan /\ k.result = result /\ k # Nothing /\ result # Nothing
  <2>1. k \in Setup /\ k.plan = o.plan /\ k.result = result
    BY <1>9, <1>12 DEF Setup
  <2> QED
    BY <1>9, <2>1, ChecksAssumption
<1>14. setup' = [setup EXCEPT ![s] = k]
  <2>1. PICK m, S : m = [o EXCEPT !.result = result] /\ S = [setup EXCEPT ![s] = m]
    OBVIOUS
  <2>2. S = [setup EXCEPT ![s].result = result]
    BY <1>11, <2>1
  <2>3. S[s] = m
    BY <1>8, <2>1
  <2>4. setup' = [S EXCEPT ![s].running = Nothing]
    BY <1>6, <2>2
  <2>5. setup' = [S EXCEPT ![s] = [m EXCEPT !.running = Nothing]]
    BY <2>3, <2>4
  <2>6. k = [m EXCEPT !.running = Nothing]
    BY <1>12, <2>1
  <2> QED
    BY <2>1, <2>5, <2>6
<1>15. setup'[s] = k /\ (\A t \in Scopes : t # s => setup'[t] = setup[t]) /\ setup' \in [Scopes -> Setup \cup {Nothing}]
  BY <1>8, <1>13, <1>14
<1>16. ProjectTypeOK'
  <2>1. /\ disk' \in DiskType /\ baseline' \in Baseline /\ code' \in [Scopes -> 0..limits.edits]
        /\ process' \in [Processes -> Process \cup {Nothing}]
    BY <1>6, <1>8 DEF ProjectInv, ProjectTypeOK, ContextTypeOK
  <2> QED
    BY <1>6, <1>7, <1>15, <2>1, TypesKept
<1>17. SetupOK'
  <2>1. /\ result.inputs.plan = k.plan
        /\ result.status = "passed" => /\ result.inputs.context = k.plan.context
                                       /\ result.initialization = <<k.plan, result.inputs.file>>
    BY <1>4, <1>9, <1>10, <1>11, <1>13
  <2>2. HasContext(disk')
    BY <1>4, <1>6, SetupIs
  <2> QED
    BY <1>6, <1>13, <1>15, <2>1, <2>2 DEF ProjectInv, SetupOK
<1>18. ProcessOK'
  BY <1>1, <1>3, <1>6, <1>7, <1>13, <1>15, EndedCheck
<1>19. CertifiedByARun' /\ Fine(disk')
  BY <1>6 DEF ProjectInv, CertifiedByARun, PassedRun
<1>20. \A t \in Scopes : code'[t] <= used'.edits
  BY <1>6, <1>7, CodeKept
<1> QED
  BY <1>16, <1>17, <1>18, <1>19, <1>20 DEF ProjectInv

(* What is certified is what a run passed with, and is certified again as  *)
(* long as there is something certified.                                   *)
LEMMA CertificationIs ==
    ASSUME ProjectInv, HasContext(disk), NEW s \in Scopes
    PROVE  /\ Certification(s) \in ProjectStandard \cup {Nothing}
           /\ Certification(s) # Nothing => PassedRun(s, Certification(s))
           /\ Held(s) # Nothing => Certification(s) = Held(s)
<1>1. Standard(s) \in ProjectStandard
  BY StandardIs DEF ProjectInv
<1>2. baseline.checks[s] \in Check
  BY BaselineIs DEF ProjectInv, ProjectTypeOK
<1>3. Held(s) \in ProjectStandard \cup {Nothing}
  BY <1>2 DEF Held, Check
<1>4. Held(s) # Nothing => PassedRun(s, Held(s))
  BY DEF Held, ProjectInv, CertifiedByARun
<1> QED
  BY <1>1, <1>3, <1>4 DEF Certification

(* The checks of a baseline that are written, and its runs.                *)
LEMMA ChecksWritten ==
    ASSUME NEW b \in Baseline, NEW X \in [Scopes -> Check], NEW c, c = [b EXCEPT !.checks = X]
    PROVE  c \in Baseline /\ c.runs = b.runs /\ c.checks = X
BY DEF Baseline

(* The record of one scope among the checks.                               *)
LEMMA CheckWritten ==
    ASSUME NEW checks \in [Scopes -> Check], NEW s \in Scopes, NEW check \in Check, NEW X, X = [checks EXCEPT ![s] = check]
    PROVE  X \in [Scopes -> Check] /\ X[s] = check /\ \A t \in Scopes : t # s => X[t] = checks[t]
OBVIOUS

(* The runs of a baseline that are written.                                *)
LEMMA RunsWritten ==
    ASSUME NEW b \in Baseline, NEW X \in Seq(Run), NEW c, c = [b EXCEPT !.runs = X]
    PROVE  c \in Baseline /\ c.checks = b.checks /\ c.runs = X
BY DEF Baseline

(* A run that is appended to those before.                                 *)
LEMMA RunWritten ==
    ASSUME NEW r \in Seq(Run), NEW run \in Run, NEW X, X = Append(r, run)
    PROVE  /\ X \in Seq(Run)
           /\ \A i \in DOMAIN r : i \in DOMAIN X /\ X[i] = r[i]
           /\ \E i \in DOMAIN X : X[i] = run
<1>1. X \in Seq(Run) /\ Len(X) = Len(r) + 1 /\ Len(r) \in Nat /\ X[Len(r) + 1] = run /\ \A i \in 1..Len(r) : X[i] = r[i]
  OBVIOUS
<1>2. DOMAIN r = 1..Len(r) /\ DOMAIN X = 1..Len(X)
  BY <1>1
<1> QED
  BY <1>1, <1>2

(* verification check --project, to the point where its commands run       *)
LEMMA BeginCheckStep ==
    ASSUME ProjectInv, NEW p \in Processes, NEW s \in Scopes, BeginCheck(p, s)
    PROVE  /\ ProjectInv'
           /\ \A t \in Scopes : t # s => baseline'.checks[t] = baseline.checks[t]
           /\ baseline'.checks[s].status = "none" /\ baseline'.checks[s].certified = Certification(s)
<1>1. PICK check : check = Started(s, NextRun)
  OBVIOUS
<1>2. PICK b : b = [baseline EXCEPT !.checks[s] = check]
  OBVIOUS
<1>3. PICK run : run = [kind |-> "baseline", scope |-> s, id |-> NextRun, before |-> Inputs(s), certified |-> b.checks[s].certified]
  OBVIOUS
<1>4. /\ process[p] = Nothing /\ HasContext(disk)
      /\ baseline.checks[s].running # 0 => ~Alive(baseline.checks[s].running)
      /\ baseline' = b
      /\ process' = [process EXCEPT ![p] = run]
      /\ UNCHANGED <<disk, product, setup, limits, code>>
  BY <1>1, <1>2, <1>3 DEF BeginCheck, OwnerExited, Known, HasContext
<1>5. MoreUsed /\ used'.runs = NextRun /\ NextRun \in Nat \ {0}
  <2>1. used' = [used EXCEPT !.runs = used.runs + 1] /\ used.runs < limits.runs /\ ContextTypeOK /\ used \in Used
    BY DEF BeginCheck, NextRun, ProjectInv, ProjectTypeOK, ContextTypeOK, Used
  <2>2. MoreUsed
    BY <2>1, UsesMore
  <2>3. used'.runs = used.runs + 1
    BY <2>1 DEF Used
  <2> QED
    BY <2>2, <2>3, Numbers DEF NextRun
<1>6. PICK certified \in ProjectStandard \cup {Nothing} :
         certified = Certification(s) /\ (certified # Nothing => PassedRun(s, certified))
  BY <1>4, CertificationIs
<1>7. check = [status |-> "none", standard |-> Nothing, run |-> 0, asserted |-> FALSE, certified |-> certified, running |-> NextRun]
  BY <1>1, <1>6 DEF Started, NoCheck
<1>8. check \in Check /\ check.status = "none" /\ check.certified = certified /\ check.running = NextRun
  BY <1>5, <1>7 DEF Check
<1>9. /\ b \in Baseline /\ b.runs = baseline.runs /\ b.checks[s] = check
      /\ \A t \in Scopes : t # s => b.checks[t] = baseline.checks[t]
  <2>1. baseline \in Baseline /\ baseline.checks \in [Scopes -> Check]
    BY DEF ProjectInv, ProjectTypeOK, Baseline
  <2>2. PICK X : X = [baseline.checks EXCEPT ![s] = check]
    OBVIOUS
  <2>3. X \in [Scopes -> Check] /\ X[s] = check /\ \A t \in Scopes : t # s => X[t] = baseline.checks[t]
    BY <1>8, <2>1, <2>2, CheckWritten
  <2>4. b = [baseline EXCEPT !.checks = X]
    BY <1>2, <2>2
  <2>5. b \in Baseline /\ b.runs = baseline.runs /\ b.checks = X
    BY <2>1, <2>3, <2>4, ChecksWritten
  <2> QED
    BY <2>3, <2>5
<1>10. run.kind = "baseline" /\ run.scope = s /\ run.id = NextRun /\ run.certified = certified
  BY <1>3, <1>8, <1>9
<1>11. run \in Process
  <2>1. Standard(s) \in ProjectStandard /\ code[s] \in Nat
    BY <1>4, StandardIs, Numbers DEF ProjectInv
  <2>2. Inputs(s) \in [standard : ProjectStandard, code : Nat]
    BY <2>1 DEF Inputs
  <2> QED
    BY <1>3, <1>5, <1>8, <1>9, <2>2 DEF Process
<1>12. ProjectTypeOK'
  <2>1. /\ disk' \in DiskType /\ setup' \in [Scopes -> Setup \cup {Nothing}] /\ code' \in [Scopes -> 0..limits.edits]
        /\ process' \in [Processes -> Process \cup {Nothing}]
    BY <1>4, <1>11 DEF ProjectInv, ProjectTypeOK, ContextTypeOK
  <2> QED
    BY <1>4, <1>5, <1>9, <2>1, TypesKept
<1>13. SetupOK' /\ Fine(disk')
  BY <1>4 DEF ProjectInv, SetupOK
<1>14. ProcessOK'
  <2>1. OnRecord(run)'
    <3>1. run.id <= used'.runs
      BY <1>5, <1>10
    <3> QED
      BY <1>4, <1>8, <1>9, <1>10, <3>1 DEF OnRecord
  <2>2. ASSUME NEW q \in Processes, process[q] # Nothing, process[q].kind = "baseline"
        PROVE  baseline'.checks[process[q].scope] = baseline.checks[process[q].scope]
    <3>1. /\ process[q].scope \in Scopes /\ baseline.checks[process[q].scope].running = process[q].id /\ process[q].id # 0
      BY <2>2, CheckIs, Numbers DEF OnRecord
    <3>2. process[q].scope # s
      BY <1>4, <2>2, <3>1 DEF Alive
    <3> QED
      BY <1>4, <1>9, <3>1, <3>2
  <2>3. ASSUME NEW q \in Processes, process[q] # Nothing, process[q].kind = "setup"
        PROVE  setup[process[q].scope] # Nothing
    BY <2>3, CheckIs DEF OnRecord
  <2>4. \A q \in Processes : process[q] # Nothing =>
          LET t == process[q].scope
          IN /\ process[q].kind = "setup" =>
                  setup'[t] # Nothing /\ setup'[t].running = setup[t].running /\ setup'[t].plan = setup[t].plan
             /\ process[q].kind = "baseline" => baseline'.checks[t] = baseline.checks[t]
    BY <1>4, <2>2, <2>3
  <2> QED
    BY <1>4, <1>5, <1>10, <2>1, <2>4, NewCheck
<1>15. CertifiedByARun'
  <2>1. \A t \in Scopes : \A standard : PassedRun(t, standard) => PassedRun(t, standard)'
    BY <1>4, <1>9 DEF PassedRun
  <2>2. ASSUME NEW t \in Scopes, NEW k, k = baseline'.checks[t]
        PROVE  /\ k.status = "passed" => PassedRun(t, k.standard)'
               /\ k.certified # Nothing => PassedRun(t, k.certified)'
    <3>1. CASE t = s
      BY <1>4, <1>6, <1>8, <1>9, <2>1, <2>2, <3>1
    <3>2. CASE t # s
      <4>1. k = baseline.checks[t]
        BY <1>4, <1>9, <2>2, <3>2
      <4>2. /\ k.status = "passed" => PassedRun(t, k.standard)
            /\ k.certified # Nothing => PassedRun(t, k.certified)
        BY <4>1 DEF ProjectInv, CertifiedByARun
      <4> QED
        BY <2>1, <4>2
    <3> QED
      BY <3>1, <3>2
  <2> QED
    BY <2>2 DEF CertifiedByARun
<1>16. \A t \in Scopes : code'[t] <= used'.edits
  BY <1>4, <1>5, CodeKept
<1> QED
  BY <1>4, <1>6, <1>8, <1>9, <1>12, <1>13, <1>14, <1>15, <1>16 DEF ProjectInv

(* verification check --project, the result                                *)
LEMMA EndCheckStep ==
    ASSUME ProjectInv, NEW p \in Processes, NEW outcome \in Outcomes, NEW asserted \in BOOLEAN, EndCheck(p, outcome, asserted)
    PROVE  /\ ProjectInv' /\ disk' = disk
           /\ \A t \in Scopes : Held(t) # Nothing => Held(t)' # Nothing
<1>1. PICK run : run = process[p] /\ run # Nothing /\ run.kind = "baseline"
  BY DEF EndCheck
<1>2. /\ run.scope \in Scopes /\ OnRecord(run) /\ run \in Process
      /\ run.before \in [standard : ProjectStandard, code : Nat] /\ run.certified \in ProjectStandard \cup {Nothing}
  BY <1>1, CheckIs
<1>3. PICK s \in Scopes : s = run.scope
  BY <1>2
<1>4. /\ HasContext(disk) /\ baseline.checks[s].status = "none" /\ baseline.checks[s].certified = run.certified
      /\ run.id \in Nat \ {0} /\ Standard(s) \in ProjectStandard
  BY <1>1, <1>2, <1>3, StandardIs, Numbers DEF OnRecord, ProjectInv
<1>5. PICK status \in Statuses : /\ status = Judged(run.before, Inputs(s), outcome)
                                 /\ status = "passed" => run.before = Inputs(s)
  BY DEF Judged, Statuses, Outcomes
<1>6. PICK ran : ran = [id |-> run.id, scope |-> run.scope, standard |-> run.before.standard, status |-> status]
  OBVIOUS
<1>7. PICK fair \in BOOLEAN : fair = (asserted /\ status = "failed")
  OBVIOUS
<1>8. PICK result : result = [status |-> status, standard |-> Standard(run.scope), run |-> run.id, asserted |-> fair,
                              certified |-> run.certified, running |-> 0]
  OBVIOUS
<1>9. ran \in Run /\ ran.scope = s /\ ran.standard = run.before.standard /\ ran.status = status
  BY <1>2, <1>3, <1>4, <1>6 DEF Run
<1>10. /\ result \in Check /\ result.status = status /\ result.standard = Standard(s)
       /\ result.certified = run.certified
  BY <1>2, <1>3, <1>4, <1>8 DEF Check
<1>11. PICK a : a = [baseline EXCEPT !.runs = Append(@, ran)]
  OBVIOUS
<1>12. PICK b : b = [a EXCEPT !.checks[s] = result]
  OBVIOUS
<1>13. /\ a \in Baseline /\ a.checks = baseline.checks
       /\ \A i \in DOMAIN baseline.runs : i \in DOMAIN a.runs /\ a.runs[i] = baseline.runs[i]
       /\ \E i \in DOMAIN a.runs : a.runs[i] = ran
  <2>1. baseline \in Baseline /\ baseline.runs \in Seq(Run)
    BY DEF ProjectInv, ProjectTypeOK, Baseline
  <2>2. PICK X : X = Append(baseline.runs, ran)
    OBVIOUS
  <2>3. /\ X \in Seq(Run)
        /\ \A i \in DOMAIN baseline.runs : i \in DOMAIN X /\ X[i] = baseline.runs[i]
        /\ \E i \in DOMAIN X : X[i] = ran
    BY <1>9, <2>1, <2>2, RunWritten
  <2>4. a = [baseline EXCEPT !.runs = X]
    BY <1>11, <2>2
  <2>5. a \in Baseline /\ a.checks = baseline.checks /\ a.runs = X
    BY <2>1, <2>3, <2>4, RunsWritten
  <2> QED
    BY <2>3, <2>5
<1>14. /\ b \in Baseline /\ b.runs = a.runs /\ b.checks[s] = result
       /\ \A t \in Scopes : t # s => b.checks[t] = baseline.checks[t]
  <2>1. a \in Baseline /\ a.checks \in [Scopes -> Check]
    BY <1>13 DEF Baseline
  <2>2. PICK X : X = [a.checks EXCEPT ![s] = result]
    OBVIOUS
  <2>3. X \in [Scopes -> Check] /\ X[s] = result /\ \A t \in Scopes : t # s => X[t] = a.checks[t]
    BY <1>10, <2>1, <2>2, CheckWritten
  <2>4. b = [a EXCEPT !.checks = X]
    BY <1>12, <2>2
  <2>5. b \in Baseline /\ b.runs = a.runs /\ b.checks = X
    BY <2>1, <2>3, <2>4, ChecksWritten
  <2> QED
    BY <1>13, <2>3, <2>5
<1>15. PICK x, y : x = [Here EXCEPT !.baseline = a] /\ y = [Here EXCEPT !.baseline = b]
  OBVIOUS
<1>16. x.disk = disk /\ x.setup = setup /\ x.baseline = a /\ y.disk = disk /\ y.setup = setup /\ y.baseline = b
  BY <1>15 DEF Here
<1>17. Leaves(<<x, y>>) /\ process' = [process EXCEPT ![p] = Nothing] /\ UNCHANGED <<product, limits, code>>
  <2>1. x = [Here EXCEPT !.baseline.runs = Append(@, Ran(run, status))]
    BY <1>6, <1>11, <1>15 DEF Here, Ran
  <2>2. result = Result(run, status, asserted)
    BY <1>7, <1>8 DEF Result
  <2>3. y = [x EXCEPT !.baseline.checks[run.scope] = Result(run, status, asserted)]
    BY <1>3, <1>12, <1>15, <2>2 DEF Here
  <2>4. Recorded(run, status, asserted) = <<x, y>>
    BY <2>1, <2>3 DEF Recorded
  <2> QED
    BY <1>1, <1>3, <1>5, <2>4 DEF EndCheck
<1>18. disk' = disk /\ setup' = setup /\ baseline' \in {a, b}
  BY <1>16, <1>17, LeftTwo DEF Left
<1>19. MoreUsed
  BY <1>17, LeavesUses DEF ProjectInv, ProjectTypeOK
<1>20. ProjectTypeOK'
  <2>1. /\ disk' \in DiskType /\ setup' \in [Scopes -> Setup \cup {Nothing}] /\ code' \in [Scopes -> 0..limits.edits]
        /\ process' \in [Processes -> Process \cup {Nothing}] /\ baseline' \in Baseline
    BY <1>13, <1>14, <1>17, <1>18 DEF ProjectInv, ProjectTypeOK, ContextTypeOK
  <2> QED
    BY <1>17, <1>19, <2>1, TypesKept
<1>21. SetupOK' /\ Fine(disk')
  BY <1>18 DEF ProjectInv, SetupOK
<1>22. ProcessOK'
  BY <1>1, <1>3, <1>13, <1>14, <1>17, <1>18, <1>19, EndedCheck
<1>23. \A t \in Scopes : \A standard : PassedRun(t, standard) => PassedRun(t, standard)'
  BY <1>13, <1>14, <1>18 DEF PassedRun
<1>24. result.status = "passed" => PassedRun(s, result.standard)'
  <2>1. ASSUME status = "passed" PROVE ran.standard = result.standard
    BY <1>5, <1>9, <1>10, <2>1 DEF Inputs
  <2> QED
    BY <1>9, <1>10, <1>13, <1>14, <1>18, <2>1 DEF PassedRun
<1>25. CertifiedByARun'
  <2>1. ASSUME NEW t \in Scopes, NEW k, k = baseline'.checks[t]
        PROVE  /\ k.status = "passed" => PassedRun(t, k.standard)'
               /\ k.certified # Nothing => PassedRun(t, k.certified)'
    <3>1. /\ baseline.checks[t].status = "passed" => PassedRun(t, baseline.checks[t].standard)
          /\ baseline.checks[t].certified # Nothing => PassedRun(t, baseline.checks[t].certified)
      BY DEF ProjectInv, CertifiedByARun
    <3>2. k = baseline.checks[t] \/ (t = s /\ k = result)
      BY <1>13, <1>14, <1>18, <2>1
    <3>3. CASE k = baseline.checks[t]
      BY <1>23, <3>1, <3>3
    <3>4. CASE t = s /\ k = result
      BY <1>4, <1>10, <1>23, <1>24, <3>1, <3>4
    <3> QED
      BY <3>2, <3>3, <3>4
  <2> QED
    BY <2>1 DEF CertifiedByARun
<1>26. \A t \in Scopes : code'[t] <= used'.edits
  BY <1>17, <1>19, CodeKept
<1>27. \A t \in Scopes : Held(t) # Nothing => Held(t)' # Nothing
  <2>1. \A t \in Scopes : baseline'.checks[t] = baseline.checks[t] \/ (t = s /\ baseline'.checks[t] = result)
    BY <1>13, <1>14, <1>18
  <2>2. result.standard # Nothing
    BY <1>4, <1>10, ChecksAssumption
  <2> QED
    BY <1>4, <1>10, <2>1, <2>2 DEF Held
<1> QED
  BY <1>18, <1>20, <1>21, <1>22, <1>25, <1>26, <1>27 DEF ProjectInv

(* A step that leaves the background's files alone follows.                *)
LEMMA StillFollows == ASSUME disk' = disk PROVE Follows(disk, disk') /\ NoNewWork(disk, disk')
BY DEF Follows, WorksFollow, NoNewWork

(* The bounds' Works, scopes and stacks are some of all.                   *)
LEMMA BoundsWithin ==
    ASSUME ProjectInv
    PROVE  /\ limits.works \subseteq Works /\ limits.scopes \subseteq Scopes /\ limits.stacks \subseteq Stacks
           /\ limits \in Limits /\ ContextTypeOK /\ Fine(disk)
BY ContextAssumption DEF ProjectInv, ProjectTypeOK, ContextTypeOK

(* The files are initially in agreement.                                   *)
LEMMA InitFine == ASSUME ContextInit PROVE Fine(disk) /\ ContextTypeOK
<1>1. limits \in Limits
  BY DEF ContextInit
<1>2. PICK works \in [Works -> Work \cup {Nothing}] :
         works = [w \in Works |-> IF w \in limits.legacy THEN [status |-> "suspended", binding |-> Nothing, change |-> 0] ELSE Nothing]
  <2>1. [status |-> "suspended", binding |-> Nothing, change |-> 0] \in Work
    BY DEF Work
  <2> QED
    BY <2>1
<1>3. \A w \in Works : works[w] # Nothing => works[w].binding = Nothing /\ works[w].change = 0
  BY <1>2
<1>4. disk = [context |-> <<>>, revisions |-> {}, changes |-> <<>>, works |-> works]
  BY <1>2 DEF ContextInit
<1>5. Len(<<>>) = 0 /\ <<>> \in Revision /\ <<>> \in Seq(Change)
  BY DEF Revision
<1>6. disk.context = <<>> /\ disk.revisions = {} /\ disk.changes = <<>> /\ disk.works = works
  BY <1>4
<1>7. disk \in DiskType
  <2>1. {} \in SUBSET Revision /\ works \in [Works -> Work \cup {Nothing}]
    OBVIOUS
  <2> QED
    BY <1>4, <1>5, <2>1 DEF DiskType
<1>8. ~HasContext(disk)
  BY <1>6 DEF HasContext
<1>9. Kept(disk) /\ ActiveOK(disk) /\ CompletedOK(disk)
  BY <1>5, <1>6, <1>8 DEF Kept, ActiveOK, CompletedOK, Busy
<1>10. \A w \in Works : Right(disk, w, disk.works[w])
  BY <1>3, <1>6, <1>8 DEF Right, Busy
<1>11. Fine(disk)
  BY <1>5, <1>6, <1>7, <1>9, <1>10 DEF Fine
<1>12. product \in [Scopes -> Stacks \cup {Nothing}]
  <2>1. limits.stacks \subseteq Stacks
    BY <1>1, ContextAssumption
  <2> QED
    BY <2>1 DEF ContextInit
<1>13. used \in [edits : 0..limits.edits, deaths : 0..limits.deaths, runs : 0..limits.runs]
  <2>1. limits.edits \in Nat /\ limits.deaths \in Nat /\ limits.runs \in Nat
    BY <1>1, ContextAssumption
  <2>2. used = [edits |-> 0, deaths |-> 0, runs |-> 0]
    BY DEF ContextInit
  <2> QED
    BY <2>1, <2>2
<1> QED
  BY <1>1, <1>7, <1>11, <1>12, <1>13 DEF ContextTypeOK

(* No scope is set up, checked or certified at first.                      *)
LEMMA InitHolds == ProjectInit => ProjectInv
<1> SUFFICES ASSUME ProjectInit PROVE ProjectInv
  OBVIOUS
<1>1. Fine(disk) /\ ContextTypeOK
  BY InitFine DEF ProjectInit
<1>2. \A s \in Scopes : setup[s] = Nothing
  BY DEF ProjectInit, ContextInit
<1>3. setup \in [Scopes -> Setup \cup {Nothing}]
  BY DEF ProjectInit, ContextInit
<1>4. NoCheck \in Check
  BY DEF NoCheck, Check
<1>5. /\ baseline \in Baseline
      /\ \A s \in Scopes : baseline.checks[s] = NoCheck
  <2>1. <<>> \in Seq(Run)
    OBVIOUS
  <2>2. PICK nothing, checks : nothing = [s \in Scopes |-> Nothing] /\ checks = [s \in Scopes |-> NoCheck]
    OBVIOUS
  <2>3. /\ nothing \in [Scopes -> Entry \cup {Nothing}] /\ nothing \in [Scopes -> Stamps \cup {Nothing}]
        /\ nothing \in [Scopes -> File] /\ nothing \in [Scopes -> Identities \cup {Nothing}]
        /\ checks \in [Scopes -> Check] /\ \A s \in Scopes : checks[s] = NoCheck
    BY <1>4, <2>2 DEF File
  <2>4. baseline = [entries |-> nothing, bound |-> nothing, files |-> nothing, wrappers |-> nothing, checks |-> checks, runs |-> <<>>]
    BY <2>2 DEF ProjectInit
  <2> QED
    BY <2>1, <2>3, <2>4 DEF Baseline
<1>6. /\ code \in [Scopes -> 0..limits.edits] /\ \A s \in Scopes : code[s] <= used.edits
  <2>1. limits.edits \in Nat
    BY <1>1, ContextAssumption DEF ContextTypeOK
  <2>2. used.edits = 0
    BY DEF ProjectInit, ContextInit
  <2> QED
    BY <2>1, <2>2 DEF ProjectInit
<1>7. process \in [Processes -> Process \cup {Nothing}] /\ \A p \in Processes : process[p] = Nothing
  BY DEF ProjectInit
<1>8. CertifiedByARun
  BY <1>5 DEF CertifiedByARun, NoCheck
<1> QED
  BY <1>1, <1>2, <1>3, <1>5, <1>6, <1>7, <1>8 DEF ProjectInv, ProjectTypeOK, SetupOK, ProcessOK

(* The commands about the background.                                      *)
LEMMA ContextStep ==
    ASSUME ProjectInv, ContextSteps, UNCHANGED <<baseline, code, process>>
    PROVE  ProjectInv' /\ Follows(disk, disk') /\ NoNewWork(disk, disk')
<1>1. ASSUME Fine(disk'), Follows(disk, disk'), NEW disks, Commanded(disks)
      PROVE  ProjectInv'
  <2>1. MoreUsed /\ UNCHANGED <<product, setup, limits>>
    BY <1>1, BoundsWithin, WritesUses DEF Commanded
  <2> QED
    BY <1>1, <2>1, DiskStep
<1>2. ASSUME NEW s \in limits.scopes, NEW stack \in limits.stacks, SetContext(s, stack) \/ Propose(s, stack)
      PROVE  ProjectInv' /\ Follows(disk, disk') /\ NoNewWork(disk, disk')
  <2>1. s \in Scopes /\ stack \in Stacks /\ Fine(disk)
    BY BoundsWithin
  <2>2. Fine(disk') /\ Follows(disk, disk') /\ disk'.works = disk.works
    BY <1>2, <2>1, SetContextFine, ProposeFine
  <2>3. \E disks : Commanded(disks)
    BY <1>2 DEF SetContext, Propose
  <2> QED
    BY <1>1, <2>2, <2>3 DEF NoNewWork
<1>3. ASSUME NEW i \in 1..Len(disk.changes), ApplyToInitialization(i)
      PROVE  ProjectInv' /\ Follows(disk, disk') /\ NoNewWork(disk, disk')
  <2>1. Fine(disk') /\ Follows(disk, disk') /\ disk'.works = disk.works
    BY <1>3, BoundsWithin, ApplyToInitializationFine
  <2>2. \E disks : Commanded(disks)
    BY <1>3 DEF ApplyToInitialization
  <2> QED
    BY <1>1, <2>1, <2>2 DEF NoNewWork
<1>4. ASSUME NEW i \in 1..Len(disk.changes), NEW w \in limits.works, Apply(w, i)
      PROVE  ProjectInv' /\ Follows(disk, disk') /\ NoNewWork(disk, disk')
  <2>1. w \in Works /\ Fine(disk)
    BY BoundsWithin
  <2>2. Fine(disk') /\ Follows(disk, disk') /\ NoNewWork(disk, disk')
    BY <1>4, <2>1, ApplyAgainFine, BeginFine
  <2>3. \E disks : Commanded(disks)
    BY <1>4 DEF Apply
  <2> QED
    BY <1>1, <2>2, <2>3
<1>5. ASSUME NEW w \in limits.works, NEW requested, NEW refresh, BindWork(w, requested, refresh)
      PROVE  ProjectInv' /\ Follows(disk, disk') /\ NoNewWork(disk, disk')
  <2>1. w \in Works /\ Fine(disk)
    BY BoundsWithin
  <2>2. Fine(disk') /\ Follows(disk, disk') /\ NoNewWork(disk, disk')
    BY <1>5, <2>1, BindWorkFine
  <2>3. \E disks : Commanded(disks)
    BY <1>5 DEF BindWork
  <2> QED
    BY <1>1, <2>2, <2>3
<1>6. ASSUME NEW w \in limits.works, Done(w)
      PROVE  ProjectInv' /\ Follows(disk, disk') /\ NoNewWork(disk, disk')
  <2>1. w \in Works /\ Fine(disk)
    BY BoundsWithin
  <2>2. Fine(disk') /\ Follows(disk, disk') /\ NoNewWork(disk, disk')
    BY <1>6, <2>1, DoneAloneFine, DoneEndsFine
  <2>3. \E disks : Commanded(disks)
    BY <1>6 DEF Done
  <2> QED
    BY <1>1, <2>2, <2>3
<1>7. ASSUME NEW s \in limits.scopes, EditManifest(s)
      PROVE  ProjectInv' /\ Follows(disk, disk') /\ NoNewWork(disk, disk')
  <2>1. s \in Scopes
    BY BoundsWithin
  <2>2. disk' = disk
    BY <1>7 DEF EditManifest
  <2> QED
    BY <1>7, <2>1, <2>2, EditManifestStep, StillFollows
<1> QED
  BY <1>2, <1>3, <1>4, <1>5, <1>6, <1>7 DEF ContextSteps

(* The commands that start or resume a Work.                               *)
LEMMA WorkStep ==
    ASSUME ProjectInv, WorkSteps, UNCHANGED <<baseline, code, process>>
    PROVE  ProjectInv' /\ Follows(disk, disk')
<1>1. ASSUME Fine(disk'), Follows(disk, disk'), NEW disks, Commanded(disks)
      PROVE  ProjectInv'
  <2>1. MoreUsed /\ UNCHANGED <<product, setup, limits>>
    BY <1>1, BoundsWithin, WritesUses DEF Commanded
  <2> QED
    BY <1>1, <2>1, DiskStep
<1>2. ASSUME NEW w \in limits.works, NEW requested, CheckedStart(w, requested)
      PROVE  ProjectInv' /\ Follows(disk, disk')
  <2>1. StartWork(w, requested)
    BY <1>2 DEF CheckedStart
  <2>2. Fine(disk') /\ Follows(disk, disk')
    BY <2>1, BoundsWithin, StartWorkFine
  <2>3. \E disks : Commanded(disks)
    BY <2>1 DEF StartWork
  <2> QED
    BY <1>1, <2>2, <2>3
<1>3. ASSUME NEW w \in limits.works, CheckedReactivate(w)
      PROVE  ProjectInv' /\ Follows(disk, disk')
  <2>1. w \in Works /\ Reactivate(w)
    BY <1>3, BoundsWithin DEF CheckedReactivate
  <2>2. Fine(disk') /\ Follows(disk, disk')
    BY <2>1, BoundsWithin, ReactivateFine
  <2>3. \E disks : Commanded(disks)
    BY <2>1 DEF Reactivate
  <2> QED
    BY <1>1, <2>2, <2>3
<1> QED
  BY <1>2, <1>3 DEF WorkSteps

(* The commands about set-up and checks.  None takes a certificate away.   *)
LEMMA CheckStep ==
    ASSUME ProjectInv, CheckSteps
    PROVE  /\ ProjectInv' /\ Follows(disk, disk') /\ NoNewWork(disk, disk')
           /\ \A t \in Scopes : Held(t) # Nothing => Held(t)' # Nothing
<1>1. ASSUME baseline'.checks = baseline.checks
      PROVE  \A t \in Scopes : Held(t) # Nothing => Held(t)' # Nothing
  BY <1>1 DEF Held
<1>2. ASSUME NEW s \in limits.scopes, NEW identity \in Identities, PlanSetup(s, identity)
      PROVE  /\ ProjectInv' /\ Follows(disk, disk') /\ NoNewWork(disk, disk')
             /\ \A t \in Scopes : Held(t) # Nothing => Held(t)' # Nothing
  <2>1. s \in Scopes
    BY BoundsWithin
  <2>2. Follows(disk, disk') /\ disk'.works = disk.works /\ baseline' = baseline /\ ProjectInv'
    BY <1>2, <2>1, Planned, PlanSetupStep
  <2> QED
    BY <1>1, <2>2 DEF NoNewWork
<1>3. ASSUME NEW s \in limits.scopes, ApplySetup(s) \/ Materialize(s) \/ Edit(s)
      PROVE  /\ ProjectInv' /\ Follows(disk, disk') /\ NoNewWork(disk, disk')
             /\ \A t \in Scopes : Held(t) # Nothing => Held(t)' # Nothing
  <2>1. s \in Scopes
    BY BoundsWithin
  <2>2. ProjectInv' /\ disk' = disk /\ baseline'.checks = baseline.checks
    BY <1>3, <2>1, ApplySetupStep, MaterializeStep, EditStep
  <2> QED
    BY <1>1, <2>2, StillFollows
<1>4. ASSUME NEW p \in Processes, NEW s \in limits.scopes, BeginSetupCheck(p, s)
      PROVE  /\ ProjectInv' /\ Follows(disk, disk') /\ NoNewWork(disk, disk')
             /\ \A t \in Scopes : Held(t) # Nothing => Held(t)' # Nothing
  <2>1. s \in Scopes
    BY BoundsWithin
  <2>2. ProjectInv' /\ disk' = disk /\ baseline' = baseline
    BY <1>4, <2>1, BeginSetupCheckStep DEF BeginSetupCheck
  <2> QED
    BY <1>1, <2>2, StillFollows
<1>5. ASSUME NEW p \in Processes, NEW s \in limits.scopes, BeginCheck(p, s)
      PROVE  /\ ProjectInv' /\ Follows(disk, disk') /\ NoNewWork(disk, disk')
             /\ \A t \in Scopes : Held(t) # Nothing => Held(t)' # Nothing
  <2>1. s \in Scopes
    BY BoundsWithin
  <2>2. disk' = disk /\ HasContext(disk)
    BY <1>5 DEF BeginCheck, Known, HasContext
  <2>3. /\ ProjectInv' /\ \A t \in Scopes : t # s => baseline'.checks[t] = baseline.checks[t]
        /\ baseline'.checks[s].status = "none" /\ baseline'.checks[s].certified = Certification(s)
    BY <1>5, <2>1, BeginCheckStep
  <2>4. Held(s) # Nothing => Certification(s) # Nothing
    BY <2>1, <2>2, CertificationIs
  <2>5. ASSUME NEW t \in Scopes, Held(t) # Nothing PROVE Held(t)' # Nothing
    BY <2>3, <2>4, <2>5 DEF Held
  <2> QED
    BY <2>2, <2>3, <2>5, StillFollows
<1>6. ASSUME NEW p \in Processes, NEW outcome \in Outcomes, EndSetupCheck(p, outcome)
      PROVE  /\ ProjectInv' /\ Follows(disk, disk') /\ NoNewWork(disk, disk')
             /\ \A t \in Scopes : Held(t) # Nothing => Held(t)' # Nothing
  <2>1. disk' = disk /\ baseline' = baseline
    BY <1>6 DEF EndSetupCheck
  <2> QED
    BY <1>1, <1>6, <2>1, EndSetupCheckStep, StillFollows
<1>7. ASSUME NEW p \in Processes, NEW outcome \in Outcomes, NEW asserted \in {FALSE, outcome = "failed"}, EndCheck(p, outcome, asserted)
      PROVE  /\ ProjectInv' /\ Follows(disk, disk') /\ NoNewWork(disk, disk')
             /\ \A t \in Scopes : Held(t) # Nothing => Held(t)' # Nothing
  <2>1. asserted \in BOOLEAN
    OBVIOUS
  <2> QED
    BY <1>7, <2>1, EndCheckStep, StillFollows
<1>8. ASSUME NEW p \in Processes, Dies(p)
      PROVE  /\ ProjectInv' /\ Follows(disk, disk') /\ NoNewWork(disk, disk')
             /\ \A t \in Scopes : Held(t) # Nothing => Held(t)' # Nothing
  <2>1. disk' = disk /\ baseline' = baseline
    BY <1>8 DEF Dies
  <2> QED
    BY <1>1, <1>8, <2>1, DiesStep, StillFollows
<1> QED
  BY <1>2, <1>3, <1>4, <1>5, <1>6, <1>7, <1>8 DEF CheckSteps

(* Nothing changes.                                                        *)
LEMMA StutterStep == ASSUME ProjectInv, UNCHANGED projectVars PROVE ProjectInv'
BY DEF projectVars, ProjectInv, ProjectTypeOK, ContextTypeOK, SetupOK, ProcessOK, OnRecord, CertifiedByARun, PassedRun

(* Every step of the project keeps the invariant, and follows.             *)
LEMMA StepHolds == ProjectInv /\ [ProjectNext]_projectVars => ProjectInv' /\ Follows(disk, disk')
<1> SUFFICES ASSUME ProjectInv, [ProjectNext]_projectVars PROVE ProjectInv' /\ Follows(disk, disk')
  OBVIOUS
<1>1. CASE ContextSteps /\ UNCHANGED <<baseline, code, process>>
  BY <1>1, ContextStep
<1>2. CASE WorkSteps /\ UNCHANGED <<baseline, code, process>>
  BY <1>2, WorkStep
<1>3. CASE CheckSteps
  BY <1>3, CheckStep
<1>4. CASE UNCHANGED projectVars
  BY <1>4, StutterStep, StillFollows DEF projectVars
<1> QED
  BY <1>1, <1>2, <1>3, <1>4 DEF ProjectNext

(* The invariant holds in every reachable state: whatever commands,        *)
(* deaths, edits and concurrent checks came before.                        *)
THEOREM ProjectInductive == ProjectSpec => []ProjectInv
<1>1. ProjectInv /\ [ProjectNext]_projectVars => ProjectInv'
  BY StepHolds
<1> QED
  BY InitHolds, <1>1, PTL DEF ProjectSpec

(* The invariant implies what the files say of each other.                 *)
LEMMA FilesDoAgree == ProjectInv => FilesAgree
<1> SUFFICES ASSUME ProjectInv PROVE FilesAgree
  OBVIOUS
<1>1. Fine(disk) /\ ProjectTypeOK
  BY DEF ProjectInv
<1>2. HistoryKept
  BY <1>1 DEF Fine, Kept, HistoryKept
<1>3. ActiveChangeStands
  BY <1>1 DEF Fine, ActiveOK, Busy, HasContext, Active, ChangeOf, Shows, ActiveChangeStands, Known, Current, StackOf, ActiveChange
<1>4. ASSUME NEW i \in 1..Len(disk.changes), NEW change, change = disk.changes[i], change.status = "completed"
      PROVE  /\ Current.active # i
             /\ IsStrictPrefix(change.base, disk.context)
             /\ disk.context[Len(change.base) + 1].scopes[change.scope].stack = change.stack
  <2>1. Begun(change, disk.context) /\ Active(disk) # i
    BY <1>1, <1>4 DEF Fine, CompletedOK
  <2>2. PICK b \in Revision : b = change.base
    BY <1>1, <1>4, ContextFirst DEF Change
  <2>3. PICK r \in Revision : r = disk.context
    BY <1>1 DEF Fine, DiskType
  <2>4. /\ Len(b) < Len(r) /\ \A k \in 1..Len(b) : b[k] = r[k]
        /\ Shows(r[Len(b) + 1], change)
    BY <2>1, <2>2, <2>3 DEF Begun
  <2>5. SubSeq(b, 1, Len(b)) = SubSeq(r, 1, Len(b))
    BY <2>4 DEF Revision
  <2>6. IsStrictPrefix(b, r)
    BY <2>4, <2>5 DEF IsStrictPrefix, IsPrefix, Revision
  <2> QED
    BY <2>1, <2>2, <2>3, <2>4, <2>6 DEF Active, Current, Shows
<1>5. CompletedWasAccepted
  BY <1>4 DEF CompletedWasAccepted
<1> QED
  BY <1>1, <1>2, <1>3, <1>5 DEF FilesAgree

(* The invariant implies what checks leave on record.                      *)
LEMMA ChecksAreSound == ProjectInv => ChecksSound
<1> SUFFICES ASSUME ProjectInv PROVE ChecksSound
  OBVIOUS
<1>1. SetupOK /\ ProcessOK /\ CertifiedByARun
  BY DEF ProjectInv
<1>2. ResultIsOfThePlan
  BY <1>1 DEF SetupOK, ResultIsOfThePlan
<1>3. ASSUME NEW s \in Scopes, SetupReady(s)
      PROVE  setup[s].result.inputs.context = Stamp(s) /\ setup[s].result.inputs.file = baseline.files[s]
  <2>1. /\ setup[s] # Nothing /\ setup[s].plan.context = Stamp(s)
        /\ setup[s].result # Nothing /\ setup[s].result.status = "passed"
        /\ setup[s].result.initialization = <<setup[s].plan, baseline.files[s]>>
    BY <1>3 DEF SetupReady, Initialization
  <2>2. /\ setup[s].result.inputs.context = setup[s].plan.context
        /\ setup[s].result.initialization = <<setup[s].plan, setup[s].result.inputs.file>>
    BY <1>1, <2>1 DEF SetupOK
  <2>3. <<setup[s].plan, setup[s].result.inputs.file>>[2] = <<setup[s].plan, baseline.files[s]>>[2]
    BY <2>1, <2>2
  <2> QED
    BY <2>1, <2>2, <2>3
<1>4. ReadyAsChecked
  BY <1>3 DEF ReadyAsChecked
<1>5. ASSUME NEW p \in Processes, NEW q \in Processes, process[p] # Nothing, process[q] # Nothing,
             process[p].kind = process[q].kind, process[p].scope = process[q].scope
      PROVE  p = q
  <2>1. /\ OnRecord(process[p]) /\ OnRecord(process[q])
        /\ process[p].kind \in {"setup", "baseline"}
    BY <1>5, CheckIs
  <2>2. process[p].id = process[q].id
    BY <1>5, <2>1 DEF OnRecord
  <2> QED
    BY <1>1, <1>5, <2>2 DEF ProcessOK
<1>6. OneCheckPerScope
  BY <1>5 DEF OneCheckPerScope
<1> QED
  BY <1>1, <1>2, <1>4, <1>6 DEF ChecksSound

(* In every reachable state each revision up to the one pointed to is      *)
(* kept, a change in progress is shown by its scope and owned by a Work,   *)
(* and a completed change was accepted: for any number of Works, scopes,   *)
(* stacks and deaths between the writes of a command.                      *)
THEOREM ProjectFilesAgree == ProjectSpec => []FilesAgree
BY ProjectInductive, FilesDoAgree, PTL

(* In every reachable state a result on record is of the plan on record, a *)
(* scope counts as set up only with the background and files its check     *)
(* began with, no scope has two checks of a kind in progress, and what a   *)
(* scope is certified for is what a recorded run passed with.              *)
THEOREM ProjectChecksSound == ProjectSpec => []ChecksSound
BY ProjectInductive, ChecksAreSound, PTL

(* The revision before a longer one, and the last content of it.           *)
LEMMA Extended ==
    ASSUME NEW r \in Revision, NEW c \in Content, NEW x, x = Append(r, c)
    PROVE  Front(x) = r /\ Last(x) = c
<1>1. PICK y \in Revision : Grown(r, c, y)
  BY Longer
<1> QED
  BY <1>1 DEF Grown

(* A step that moves the background moves one scope by one revision.       *)
LEMMA OneScope ==
    ASSUME ProjectInv, Follows(disk, disk'), Grew
    PROVE  /\ Front(disk'.context) = disk.context
           /\ Cardinality({s \in Scopes : Last(disk'.context).scopes[s] # Base.scopes[s]}) <= 1
<1>1. PICK c \in Content, s \in Scopes : disk'.context = Append(disk.context, c) /\ Settled(disk, c, s)
  BY DEF Follows, Grew
<1>2. disk.context \in Revision /\ Fine(disk)
  BY DEF ProjectInv, Fine, DiskType
<1>3. Front(disk'.context) = disk.context /\ Last(disk'.context) = c
  BY <1>1, <1>2, Extended
<1>4. PICK T : T = {t \in Scopes : Last(disk'.context).scopes[t] # Base.scopes[t]}
  OBVIOUS
<1>5. T \in SUBSET {s}
  BY <1>1, <1>2, <1>3, <1>4, BaseIs DEF Settled
<1>6. IsFiniteSet({s}) /\ Cardinality({s}) = 1
  BY FS_Singleton
<1>7. Cardinality(T) <= 1
  BY <1>5, <1>6, FS_Subset
<1> QED
  BY <1>3, <1>4, <1>7

(* A step changes no Work but the owner's in the scope of the change in    *)
(* progress.                                                               *)
LEMMA OwnersOnly ==
    ASSUME ProjectInv, Follows(disk, disk'), NEW w \in Works,
           Known, Current.active # 0, ActiveChange.owner # w, disk'.works[w] # disk.works[w]
    PROVE  LET b == disk'.works[w].binding
           IN /\ disk'.works[w].change # Current.active
              /\ b = Nothing \/ b.at # disk.context \/ ~(ActiveChange.scope \in b.scopes \cup {"root"})
<1>1. Busy(disk) /\ Current.active = Active(disk) /\ ActiveChange = ChangeOf(disk)
  BY DEF Busy, HasContext, Known, Current, Active, ActiveChange, ChangeOf
<1>2. disk'.works[w] # Nothing /\ Right(disk, w, disk'.works[w])
  BY <1>1 DEF Follows, WorksFollow
<1> QED
  BY <1>1, <1>2 DEF Right, ChangeOf

(* A step changes the stack of a scope for a change in progress, or where  *)
(* no Work is bound.                                                       *)
LEMMA StackStands ==
    ASSUME ProjectInv, Follows(disk, disk'), NEW s \in Scopes,
           Grew, Known, s \in Present, Last(disk'.context).scopes[s].stack # StackOf(s)
    PROVE  \/ Last(disk'.context).active # 0
           \/ \A w \in Works : disk.works[w] # Nothing =>
                disk.works[w].binding # Nothing /\ s \notin disk.works[w].binding.scopes
<1>1. PICK c \in Content, t \in Scopes : disk'.context = Append(disk.context, c) /\ Settled(disk, c, t)
  BY DEF Follows, Grew
<1>2. disk.context \in Revision /\ Fine(disk)
  BY DEF ProjectInv, Fine, DiskType
<1>3. Last(disk'.context) = c
  BY <1>1, <1>2, Extended
<1>4. /\ HasContext(disk) /\ ScopesOf(disk) = Current.scopes
      /\ Current.scopes[s] # Nothing /\ c.scopes[s].stack # Current.scopes[s].stack
  <2>1. HasContext(disk) /\ ScopesOf(disk) = Current.scopes
    BY DEF Known, HasContext, ScopesOf, Current
  <2>2. Current.scopes[s] # Nothing /\ c.scopes[s].stack # Current.scopes[s].stack
    BY <1>3 DEF Present, StackOf
  <2> QED
    BY <2>1, <2>2
<1>5. s = t
  BY <1>1, <1>4 DEF Settled
<1>6. c.active # 0 \/ Free(disk, s)
  BY <1>1, <1>4, <1>5 DEF Settled
<1> QED
  BY <1>3, <1>6 DEF Free

(* The background moves one revision and one scope at a time, no Work but  *)
(* its owner gets the change in progress or a binding in its scope, and a  *)
(* stack that Works are bound to moves only for a change.                  *)
THEOREM ProjectChangeContained == ProjectSpec => ChangeContained
<1>1. ProjectInv /\ [ProjectNext]_projectVars =>
         (Grew => /\ Front(disk'.context) = disk.context
                  /\ Cardinality({s \in Scopes : Last(disk'.context).scopes[s] # Base.scopes[s]}) <= 1)
  BY StepHolds, OneScope
<1>2. ProjectInv /\ [ProjectNext]_projectVars =>
         \A w \in Works :
            Known /\ Current.active # 0 /\ ActiveChange.owner # w /\ disk'.works[w] # disk.works[w] =>
               LET b == disk'.works[w].binding
               IN /\ disk'.works[w].change # Current.active
                  /\ b = Nothing \/ b.at # disk.context \/ ~(ActiveChange.scope \in b.scopes \cup {"root"})
  BY StepHolds, OwnersOnly
<1>3. ProjectInv /\ [ProjectNext]_projectVars =>
         \A s \in Scopes :
            Grew /\ Known /\ s \in Present /\ Last(disk'.context).scopes[s].stack # StackOf(s) =>
               \/ Last(disk'.context).active # 0
               \/ \A w \in Works : disk.works[w] # Nothing =>
                     disk.works[w].binding # Nothing /\ s \notin disk.works[w].binding.scopes
  BY StepHolds, StackStands
<1>4. ProjectSpec => OneScopeAtATime
  BY ProjectInductive, <1>1, PTL DEF ProjectSpec, OneScopeAtATime
<1>5. ProjectSpec => OnlyTheOwner
  BY ProjectInductive, <1>2, PTL DEF ProjectSpec, OnlyTheOwner
<1>6. ProjectSpec => BoundStackStands
  BY ProjectInductive, <1>3, PTL DEF ProjectSpec, BoundStackStands
<1> QED
  BY <1>4, <1>5, <1>6 DEF ChangeContained

(* None but the command that starts a Work makes one, and it looks at the  *)
(* project first.                                                          *)
LEMMA OnAPassedBaseline ==
    ASSUME ProjectInv, [ProjectNext]_projectVars, limits.gated,
           NEW w \in Works, disk.works[w] = Nothing, disk'.works[w] # Nothing, NEW s \in disk'.works[w].binding.scopes
    PROVE  /\ PassedRun(s, Standard(s))
           /\ product[s] = Nothing => /\ setup[s] # Nothing /\ setup[s].result # Nothing
                                      /\ setup[s].result.inputs.file = baseline.files[s]
<1>1. ~NoNewWork(disk, disk')
  BY DEF NoNewWork
<1>2. ~(ContextSteps /\ UNCHANGED <<baseline, code, process>>) /\ ~CheckSteps /\ ~UNCHANGED projectVars
  BY <1>1, ContextStep, CheckStep DEF projectVars
<1>3. WorkSteps
  BY <1>2 DEF ProjectNext
<1>4. ASSUME NEW v \in limits.works, CheckedReactivate(v) PROVE FALSE
  <2>1. v \in Works /\ Reactivate(v) /\ Fine(disk)
    BY <1>4, BoundsWithin DEF CheckedReactivate
  <2> QED
    BY <1>1, <2>1, ReactivateFine
<1>5. PICK v \in limits.works, requested \in SUBSET limits.scopes : CheckedStart(v, requested)
  BY <1>3, <1>4 DEF WorkSteps
<1>6. /\ StartWork(v, requested) /\ Known
      /\ Prerequisite(Selected(requested, Nothing), Nothing)
  BY <1>5 DEF CheckedStart
<1>7. /\ disk'.works[v].binding.scopes = Selected(requested, Nothing)
      /\ \A u \in Works : u # v /\ disk.works[u] = Nothing => disk'.works[u] = Nothing
  BY <1>6, BoundsWithin, StartWorkFine
<1>8. w = v /\ s \in Selected(requested, Nothing)
  BY <1>7
<1>9. s \in Scopes
  BY <1>8, SelectedIs
<1>10. Passed(s, Nothing) /\ ((setup[s] = Nothing /\ product[s] # Nothing) \/ SetupReady(s))
  BY <1>6, <1>8 DEF Prerequisite
<1>11. baseline.checks[s].standard = Standard(s) /\ baseline.checks[s].status = "passed"
  BY <1>10 DEF Passed
<1>12. PassedRun(s, Standard(s))
  <2>1. PassedRun(s, baseline.checks[s].standard)
    BY <1>9, <1>11 DEF ProjectInv, CertifiedByARun
  <2> QED
    BY <1>11, <2>1
<1>13. ASSUME product[s] = Nothing
       PROVE  setup[s] # Nothing /\ setup[s].result # Nothing /\ setup[s].result.inputs.file = baseline.files[s]
  <2>1. SetupReady(s)
    BY <1>10, <1>13
  <2>2. setup[s].result.inputs.file = baseline.files[s]
    BY <1>6, <1>9, <2>1, ChecksAreSound DEF ChecksSound, ReadyAsChecked
  <2> QED
    BY <2>1, <2>2 DEF SetupReady
<1> QED
  BY <1>12, <1>13

(* A step takes no certificate away.                                       *)
LEMMA StaysCertified ==
    ASSUME ProjectInv, [ProjectNext]_projectVars, NEW s \in Scopes, Held(s) # Nothing
    PROVE  Held(s)' # Nothing
<1>1. CASE UNCHANGED baseline
  BY <1>1 DEF Held
<1>2. CASE CheckSteps
  BY <1>2, CheckStep
<1> QED
  BY <1>1, <1>2 DEF ProjectNext, projectVars

(* A scope that is certified stays so, through failing, dying and          *)
(* concurrent checks, and no Work starts but on a run that passed with the *)
(* entries and files of that moment, and on a checked set-up where the     *)
(* product is empty.                                                       *)
THEOREM ProjectBaselineHolds == ProjectSpec => BaselineHolds
<1>1. ProjectInv /\ [ProjectNext]_projectVars => \A s \in Scopes : Held(s) # Nothing => Held(s)' # Nothing
  BY StaysCertified
<1>2. ProjectInv /\ [ProjectNext]_projectVars =>
        (limits.gated =>
           \A w \in Works : disk.works[w] = Nothing /\ disk'.works[w] # Nothing =>
              \A s \in disk'.works[w].binding.scopes :
                 /\ PassedRun(s, Standard(s))
                 /\ product[s] = Nothing => /\ setup[s] # Nothing /\ setup[s].result # Nothing
                                            /\ setup[s].result.inputs.file = baseline.files[s])
  BY OnAPassedBaseline
<1>3. ProjectSpec => CertificationKept
  BY ProjectInductive, <1>1, PTL DEF ProjectSpec, CertificationKept
<1>4. ProjectSpec => StartsOnAPassedBaseline
  BY ProjectInductive, <1>2, PTL DEF ProjectSpec, StartsOnAPassedBaseline
<1> QED
  BY <1>3, <1>4 DEF BaselineHolds
=============================================================================
