----------------------- MODULE VerificationRunsProofs -----------------------
(* Proofs about the verifications of a Work, for any number of overlapping *)
(* runs, any inputs, and however often they change.                        *)
EXTENDS VerificationRuns, TLAPS

\* An executor at one of these stages has not been admitted.
Early == {"unused", "observed", "measured", "starting"}

(* The records on disk, and the outcome, tell how far an executor came.    *)
Trail(at, fs, o) ==
    /\ at \in Early \ {"starting"} => fs = {}
    /\ at \in {"starting", "admitted", "owning", "executed"} => fs = {"start"}
    /\ at = "sealed" => fs = {"start", "admission"}
    /\ at \in {"receipted", "committed", "done"} => fs = {"start", "admission", "receipt"}
    /\ at = "refused" => fs \subseteq {"start"}
    /\ "receipt" \in fs => "admission" \in fs
    /\ "admission" \in fs => "start" \in fs
    /\ at = "executed" \/ "admission" \in fs => o \in {"passed", "failed"}
TrailInv == \A r \in Runs : Trail(run[r].at, files[r], outcome[r])

(* Nothing is said of a run before its admission, and no verdict before    *)
(* its executor commits or dies.                                           *)
SaidInv ==
    \A r \in Runs :
        /\ run[r].at \in Early => said[r] = "none"
        /\ run[r].at \notin {"committed", "done", "dead"} => said[r] \notin Verdicts

(* The official verification is of a run that was admitted; while it is    *)
(* running, it is the newest, and without a verdict.                       *)
OfficialInv ==
    /\ ver.state # "none" => ver.run \in Runs /\ run[ver.run].at \notin Early
    /\ ver.state = "running" =>
          run[ver.run].seq = seq /\ said[ver.run] \notin Verdicts \cup {"blocked"}

\* Runs whose place in the sequence is taken.
Placed(r) ==
    \/ run[r].at \in {"admitted", "owning", "executed", "sealed", "receipted", "committed", "done"}
    \/ "admission" \in files[r]

(* A preparation that is still fresh, or is being admitted, has the next   *)
(* place; the places taken are behind it, and different.                   *)
SequenceInv ==
    /\ \A r \in Runs : run[r].at = "starting" => lock = r
    /\ \A r \in fresh : run[r].seq = seq + 1
    /\ \A r \in Runs : run[r].at = "starting" => r \in fresh
    /\ \A r \in Runs : Placed(r) => run[r].seq <= seq
    /\ \A q, r \in Runs : q # r /\ Placed(q) /\ Placed(r) => run[q].seq # run[r].seq

FinalizerInv == finalizer = NoFinalizer \/ finalizer.run \in Runs

IInv == /\ TypeOK /\ TrailInv /\ SaidInv /\ OfficialInv /\ SequenceInv /\ FinalizerInv
        /\ PassedIsBacked
-----------------------------------------------------------------------------
(* The invariant holds initially.                                          *)
LEMMA InitIInv == Init => IInv
BY RunsAssumption DEF Init, IInv, TypeOK, TrailInv, Trail, SaidInv, OfficialInv, SequenceInv,
    FinalizerInv, PassedIsBacked, Placed, Early, Unused, NoVerification, NoFinalizer, Stages,
    Verdicts, Terminal

-----------------------------------------------------------------------------
(* Who changes what.                                                       *)

\* The steps of the executor of r.
Own(r) == Observe(r) \/ Crash(r) \/ Executor(r)

\* The steps that move no executor and write no run record.
Still == Finalize \/ Others \/ \E r \in Runs : FinalizeLoad(r) \/ Abandon(r)

(* Every step is one of these.                                             *)
LEMMA Split == [Next]_vars => Still \/ (\E r \in Runs : Own(r)) \/ UNCHANGED vars
BY DEF Next, Runtime, Own, Still

(* finalize, abandon and the other commands leave executors and disk alone. *)
LEMMA StillLeaves == Still => UNCHANGED <<run, files, outcome, lock, seq>>
BY DEF Still, Finalize, Others, FinalizeLoad, Abandon, Touch, Suspend, Restart, SwitchTo,
    SwitchAway, Reopen, Amend, Done, Edit, Command, work, disk

(* An executor leaves the records of other runs alone.                     *)
LEMMA Alone ==
  ASSUME TypeOK, NEW r \in Runs, Own(r), NEW q \in Runs, q # r
  PROVE  run'[q] = run[q] /\ files'[q] = files[q] /\ outcome'[q] = outcome[q]
<1> USE DEF TypeOK, Goes, work, disk
<1>1. CASE Observe(r) \/ Crash(r)
  BY <1>1 DEF Observe, Crash
<1>2. CASE Measure(r) \/ Admit(r) \/ AdmitSave(r) \/ AdmitRefused(r) \/ TakeOwner(r)
  BY <1>2 DEF Measure, Admit, AdmitSave, AdmitRefused, TakeOwner
<1>3. CASE \/ \E o \in {"passed", "failed"} : Execute(r, o)
           \/ WriteAdmission(r) \/ WriteReceipt(r) \/ Commit(r) \/ Finish(r)
  BY <1>3 DEF Execute, WriteAdmission, WriteReceipt, Commit, Finish
<1> QED
  BY <1>1, <1>2, <1>3 DEF Own, Executor

(* Moving on changes the stage and nothing else.                           *)
LEMMA Moves ==
  ASSUME TypeOK, NEW r \in Runs, NEW at \in Stages, Goes(r, at)
  PROVE  /\ run'[r].at = at /\ run'[r].seq = run[r].seq
         /\ run'[r].gen = run[r].gen /\ run'[r].inputs = run[r].inputs
         /\ run' \in [Runs -> [at : Stages, inputs : Inputs \cup {Nothing}, gen : 0..MaxGen, seq : Nat]]
BY DEF TypeOK, Goes

-----------------------------------------------------------------------------
(* The trail on disk.                                                      *)

LEMMA TrailStep == TypeOK /\ TrailInv /\ [Next]_vars => TrailInv'
<1> SUFFICES ASSUME TypeOK, TrailInv, [Next]_vars, NEW q \in Runs
             PROVE  Trail(run'[q].at, files'[q], outcome'[q])
  BY DEF TrailInv
<1>0. Trail(run[q].at, files[q], outcome[q])
  BY DEF TrailInv
<1>1. CASE Still \/ UNCHANGED vars
  BY <1>0, <1>1, StillLeaves DEF vars
<1>2. ASSUME NEW r \in Runs, Own(r), r # q PROVE Trail(run'[q].at, files'[q], outcome'[q])
  BY <1>0, <1>2, Alone
<1>3. CASE Own(q)
  <2> USE <1>0 DEF TypeOK
  <2>1. CASE Observe(q)
    <3>1. run'[q].at = "observed" /\ files'[q] = files[q] /\ outcome'[q] = outcome[q]
      BY <2>1 DEF Observe, disk
    <3> QED
      BY <2>1, <3>1 DEF Trail, Early, Observe
  <2>2. CASE Measure(q)
    <3>1. run'[q].at = "measured" /\ files'[q] = files[q] /\ outcome'[q] = outcome[q]
      BY <2>2 DEF Measure, disk
    <3> QED
      BY <2>2, <3>1 DEF Trail, Early, Measure
  <2>3. CASE Admit(q)
    <3>1. /\ run[q].at = "measured" /\ outcome'[q] = outcome[q]
          /\ \/ run'[q].at = "starting" /\ files'[q] = files[q] \cup {"start"}
             \/ run'[q].at = "refused" /\ files'[q] = files[q]
      BY <2>3 DEF Admit, Goes
    <3> QED
      BY <3>1 DEF Trail, Early
  <2>4. CASE AdmitSave(q) \/ AdmitRefused(q)
    <3>1. /\ run[q].at = "starting" /\ run'[q].at \in {"admitted", "refused"}
          /\ files'[q] = files[q] /\ outcome'[q] = outcome[q]
      BY <2>4 DEF AdmitSave, AdmitRefused, Goes, disk
    <3> QED
      BY <3>1 DEF Trail, Early
  <2>5. CASE TakeOwner(q) \/ \E o \in {"passed", "failed"} : Execute(q, o)
    <3>1. /\ files'[q] = files[q]
          /\ \/ /\ run[q].at = "admitted" /\ run'[q].at = "owning"
                /\ outcome'[q] = outcome[q]
             \/ /\ run[q].at = "owning" /\ run'[q].at = "executed"
                /\ outcome'[q] \in {"passed", "failed"}
      BY <2>5 DEF TakeOwner, Execute, Goes, disk
    <3> QED
      BY <3>1 DEF Trail, Early
  <2>6. CASE WriteAdmission(q)
    <3>1. /\ run[q].at = "executed" /\ run'[q].at = "sealed"
          /\ files'[q] = files[q] \cup {"admission"} /\ outcome'[q] = outcome[q]
      BY <2>6 DEF WriteAdmission, Goes
    <3> QED
      BY <3>1 DEF Trail, Early
  <2>7. CASE WriteReceipt(q)
    <3>1. /\ run[q].at = "sealed" /\ run'[q].at = "receipted"
          /\ files'[q] = files[q] \cup {"receipt"} /\ outcome'[q] = outcome[q]
      BY <2>7 DEF WriteReceipt, Goes
    <3> QED
      BY <3>1 DEF Trail, Early
  <2>8. CASE Commit(q) \/ Finish(q)
    <3>1. /\ run[q].at \in {"receipted", "committed"} /\ run'[q].at \in {"committed", "done"}
          /\ files'[q] = files[q] /\ outcome'[q] = outcome[q]
      BY <2>8 DEF Commit, Finish, Goes, disk
    <3> QED
      BY <3>1 DEF Trail, Early
  <2>9. CASE Crash(q)
    <3>1. run'[q].at = "dead" /\ files'[q] = files[q] /\ outcome'[q] = outcome[q]
      BY <2>9 DEF Crash, Goes, disk
    <3> QED
      BY <3>1 DEF Trail, Early
  <2> QED
    BY <1>3, <2>1, <2>2, <2>3, <2>4, <2>5, <2>6, <2>7, <2>8, <2>9 DEF Own, Executor
<1> QED
  BY <1>1, <1>2, <1>3, Split
-----------------------------------------------------------------------------
(* Types.                                                                  *)

\* What commit_verification does to the official verification of run r.
LEMMA Commits ==
  ASSUME TypeOK, TrailInv, NEW r \in Runs, "receipt" \in files[r], CommitVerification(r)
  PROVE  /\ \/ /\ Eligible(r, ver, gen) /\ status = "active"
               /\ \E v \in Verdicts :
                     /\ ver' = [run |-> r, state |-> v] /\ said' = [said EXCEPT ![r] = v]
                     /\ v = "passed" => outcome[r] = "passed"
            \/ ver' = ver /\ said' = [said EXCEPT ![r] = "superseded"]
            \/ ver' = ver /\ said' = said
         /\ fresh' \subseteq fresh
<1>1. outcome[r] \in {"passed", "failed"}
  BY DEF TrailInv, Trail
<1> QED
  BY <1>1 DEF CommitVerification, Verdicts, Saves

LEMMA TypeStep == TypeOK /\ TrailInv /\ OfficialInv /\ FinalizerInv /\ [Next]_vars => TypeOK'
<1> SUFFICES ASSUME TypeOK, TrailInv, OfficialInv, FinalizerInv, [Next]_vars PROVE TypeOK'
  OBVIOUS
<1> USE RunsAssumption
<1>0. \A r \in Runs, at \in Stages : Goes(r, at) =>
        run' \in [Runs -> [at : Stages, inputs : Inputs \cup {Nothing}, gen : 0..MaxGen, seq : Nat]]
  BY Moves
<1>1. CASE UNCHANGED vars
  BY <1>1 DEF TypeOK, vars
<1>2. CASE Others
  BY <1>2 DEF TypeOK, Others, Touch, Suspend, Restart, SwitchTo, SwitchAway, Reopen, Amend, Done,
       Edit, Command, work, disk, Saves, NoVerification
<1>3. CASE Finalize
  <2>1. CASE ~CanFinalize(finalizer.run, finalizer.ver, finalizer.gen)
    BY <1>3, <2>1 DEF TypeOK, Finalize, disk
  <2>2. CASE CanFinalize(finalizer.run, finalizer.ver, finalizer.gen)
    <3>1. finalizer.run \in Runs /\ "receipt" \in files[finalizer.run]
      BY <1>3, <2>2 DEF Finalize, FinalizerInv, CanFinalize
    <3>2. CommitVerification(finalizer.run)
      BY <1>3, <2>2 DEF Finalize
    <3>3. /\ ver' \in [run : Runs \cup {Nobody}, state : {"none", "running", "blocked"} \cup Verdicts]
          /\ said' \in [Runs -> {"none"} \cup Terminal] /\ fresh' \subseteq Runs
      BY <3>1, <3>2, Commits DEF TypeOK, Verdicts, Terminal
    <3> QED
      BY <1>3, <3>3 DEF TypeOK, Finalize, disk
  <2> QED
    BY <2>1, <2>2
<1>4. ASSUME NEW r \in Runs, FinalizeLoad(r) \/ Abandon(r) PROVE TypeOK'
  BY <1>4 DEF TypeOK, FinalizeLoad, Abandon, work, disk, Saves, Terminal
<1>5. ASSUME NEW r \in Runs, Own(r) PROVE TypeOK'
  <2>1. CASE Observe(r)
    BY <1>5, <2>1 DEF TypeOK, Observe, work, disk, Stages
  <2>2. CASE Measure(r)
    <3>1. run' \in [Runs -> [at : Stages, inputs : Inputs \cup {Nothing}, gen : 0..MaxGen, seq : Nat]]
      <4>0. run[r] \in [at : Stages, inputs : Inputs \cup {Nothing}, gen : 0..MaxGen, seq : Nat]
        BY DEF TypeOK
      <4>1. [run[r] EXCEPT !.at = "measured", !.inputs = inputs]
              \in [at : Stages, inputs : Inputs \cup {Nothing}, gen : 0..MaxGen, seq : Nat]
        BY <4>0, "measured" \in Stages, inputs \in Inputs DEF TypeOK, Stages
      <4>2. run' = [run EXCEPT ![r] = [run[r] EXCEPT !.at = "measured", !.inputs = inputs]]
        BY <2>2 DEF TypeOK, Measure
      <4> QED
        BY <4>1, <4>2 DEF TypeOK
    <3> QED
      BY <2>2, <3>1 DEF TypeOK, Measure, work, disk
  <2>3. CASE Admit(r)
    <3>1. run' \in [Runs -> [at : Stages, inputs : Inputs \cup {Nothing}, gen : 0..MaxGen, seq : Nat]]
      BY <1>0, <2>3 DEF Admit, Stages
    <3> QED
      BY <2>3, <3>1 DEF TypeOK, Admit, work
  <2>4. CASE AdmitSave(r)
    <3>1. run' \in [Runs -> [at : Stages, inputs : Inputs \cup {Nothing}, gen : 0..MaxGen, seq : Nat]]
      BY <1>0, <2>4 DEF AdmitSave, Stages
    <3> QED
      BY <2>4, <3>1 DEF TypeOK, AdmitSave, disk, Saves
  <2>5. CASE AdmitRefused(r) \/ TakeOwner(r) \/ Finish(r)
    <3>1. run' \in [Runs -> [at : Stages, inputs : Inputs \cup {Nothing}, gen : 0..MaxGen, seq : Nat]]
      BY <1>0, <2>5 DEF AdmitRefused, TakeOwner, Finish, Stages
    <3> QED
      BY <2>5, <3>1 DEF TypeOK, AdmitRefused, TakeOwner, Finish, work, disk
  <2>6. CASE (\E o \in {"passed", "failed"} : Execute(r, o)) \/ WriteAdmission(r) \/ WriteReceipt(r)
    <3>1. run' \in [Runs -> [at : Stages, inputs : Inputs \cup {Nothing}, gen : 0..MaxGen, seq : Nat]]
      BY <1>0, <2>6 DEF Execute, WriteAdmission, WriteReceipt, Stages
    <3> QED
      BY <2>6, <3>1 DEF TypeOK, Execute, WriteAdmission, WriteReceipt, work
  <2>7. CASE Commit(r)
    <3>1. run' \in [Runs -> [at : Stages, inputs : Inputs \cup {Nothing}, gen : 0..MaxGen, seq : Nat]]
      BY <1>0, <2>7 DEF Commit, Stages
    <3>2. "receipt" \in files[r] /\ CommitVerification(r)
      BY <2>7 DEF Commit, TrailInv, Trail
    <3>3. /\ ver' \in [run : Runs \cup {Nobody}, state : {"none", "running", "blocked"} \cup Verdicts]
          /\ said' \in [Runs -> {"none"} \cup Terminal] /\ fresh' \subseteq Runs
      BY <3>2, Commits DEF TypeOK, Verdicts, Terminal
    <3> QED
      BY <2>7, <3>1, <3>3 DEF TypeOK, Commit, disk
  <2>8. CASE Crash(r)
    <3>1. run' \in [Runs -> [at : Stages, inputs : Inputs \cup {Nothing}, gen : 0..MaxGen, seq : Nat]]
      BY <1>0, <2>8 DEF Crash, Stages
    <3> QED
      BY <2>8, <3>1 DEF TypeOK, Crash, work, disk
  <2> QED
    BY <1>5, <2>1, <2>2, <2>3, <2>4, <2>5, <2>6, <2>7, <2>8 DEF Own, Executor
<1> QED
  BY <1>1, <1>2, <1>3, <1>4, <1>5, Split DEF Still
-----------------------------------------------------------------------------
(* What is said of a run.                                                  *)

LEMMA SaidStep ==
  TypeOK /\ TrailInv /\ SaidInv /\ OfficialInv /\ FinalizerInv /\ [Next]_vars => SaidInv'
<1> SUFFICES ASSUME TypeOK, TrailInv, SaidInv, OfficialInv, FinalizerInv, [Next]_vars,
                    NEW q \in Runs
             PROVE  /\ run'[q].at \in Early => said'[q] = "none"
                    /\ run'[q].at \notin {"committed", "done", "dead"} => said'[q] \notin Verdicts
  BY DEF SaidInv
<1>0. /\ run[q].at \in Early => said[q] = "none"
      /\ run[q].at \notin {"committed", "done", "dead"} => said[q] \notin Verdicts
  BY DEF SaidInv
<1>1. CASE UNCHANGED vars \/ Others \/ \E r \in Runs : FinalizeLoad(r)
  <2>1. UNCHANGED <<run, said>>
    BY <1>1 DEF vars, FinalizeLoad, Others, Touch, Suspend, Restart, SwitchTo, SwitchAway, Reopen,
         Amend, Done, Edit, Command, work
  <2> QED
    BY <1>0, <2>1
<1>2. CASE Finalize
  <2>1. UNCHANGED run
    BY <1>2 DEF Finalize
  <2>2. CASE CanFinalize(finalizer.run, finalizer.ver, finalizer.gen)
    <3>1. /\ finalizer.run \in Runs /\ "receipt" \in files[finalizer.run]
          /\ ~Owned(finalizer.run)
      BY <1>2, <2>2 DEF Finalize, FinalizerInv, CanFinalize
    <3>2. run[finalizer.run].at \in {"done", "dead"}
      BY <3>1 DEF TypeOK, TrailInv, Trail, Owned, Stages, Early
    <3>3. said' = said \/ \E v \in Verdicts \cup {"superseded"} :
                              said' = [said EXCEPT ![finalizer.run] = v]
      BY <1>2, <2>2, <3>1, Commits DEF Finalize
    <3> QED
      BY <1>0, <2>1, <3>1, <3>2, <3>3 DEF TypeOK, Early
  <2> QED
    BY <1>0, <1>2, <2>1, <2>2 DEF Finalize
<1>3. ASSUME NEW r \in Runs, Abandon(r)
      PROVE  /\ run'[q].at \in Early => said'[q] = "none"
             /\ run'[q].at \notin {"committed", "done", "dead"} => said'[q] \notin Verdicts
  <2>1. /\ UNCHANGED run /\ said' = [said EXCEPT ![r] = "blocked"]
        /\ ver.run = r /\ ver.state = "running"
    BY <1>3 DEF Abandon, CanAbandon
  <2> QED
    BY <1>0, <2>1 DEF TypeOK, OfficialInv, Verdicts
<1>4. ASSUME NEW r \in Runs, Own(r), ~Commit(r)
      PROVE  /\ run'[q].at \in Early => said'[q] = "none"
             /\ run'[q].at \notin {"committed", "done", "dead"} => said'[q] \notin Verdicts
  <2>1. UNCHANGED said
    BY <1>4 DEF Own, Executor, Observe, Crash, Measure, Admit, AdmitSave, AdmitRefused, TakeOwner,
         Execute, WriteAdmission, WriteReceipt, Finish, work
  <2>2. CASE q # r
    BY <1>0, <1>4, <2>1, <2>2, Alone
  <2>3. CASE q = r /\ run[r].at \in Early
    <3>1. said'[q] = "none"
      BY <1>0, <2>1, <2>3
    <3> QED
      BY <3>1 DEF Verdicts
  <2>4. CASE q = r /\ run[r].at \notin Early
    <3>1. /\ run'[q].at \notin Early
          /\ run[q].at \in {"committed", "done", "dead"} => run'[q].at \in {"committed", "done", "dead"}
      BY <1>4, <2>4 DEF TypeOK, Early, Own, Executor, Observe, Crash, Measure, Admit, AdmitSave,
           AdmitRefused, TakeOwner, Execute, WriteAdmission, WriteReceipt, Finish, Goes
    <3> QED
      BY <1>0, <2>1, <3>1
  <2> QED
    BY <2>2, <2>3, <2>4
<1>5. ASSUME NEW r \in Runs, Commit(r)
      PROVE  /\ run'[q].at \in Early => said'[q] = "none"
             /\ run'[q].at \notin {"committed", "done", "dead"} => said'[q] \notin Verdicts
  <2>1. /\ run'[r].at = "committed" /\ "receipt" \in files[r] /\ CommitVerification(r)
        /\ \A p \in Runs \ {r} : run'[p] = run[p]
    BY <1>5 DEF TypeOK, TrailInv, Trail, Commit, Goes
  <2>2. said' = said \/ \E v \in Verdicts \cup {"superseded"} : said' = [said EXCEPT ![r] = v]
    BY <2>1, Commits
  <2> QED
    BY <1>0, <2>1, <2>2 DEF TypeOK, Early
<1> QED
  BY <1>1, <1>2, <1>3, <1>4, <1>5, Split DEF Still

-----------------------------------------------------------------------------
(* The official verification.                                              *)

\* What a step that is not an admission may do to the official verification.
LEMMA OfficialMoves ==
  ASSUME TypeOK, TrailInv, FinalizerInv, [Next]_vars, \A r \in Runs : ~AdmitSave(r)
  PROVE  \/ ver' = ver
         \/ ver' = NoVerification
         \/ ver' = [ver EXCEPT !.state = "blocked"] /\ ver.state = "running"
         \/ \E r \in Runs, v \in Verdicts :
               /\ Eligible(r, ver, gen) /\ status = "active"
               /\ ver' = [run |-> r, state |-> v]
               /\ v = "passed" => outcome[r] = "passed" /\ "receipt" \in files[r]
<1>1. CASE Finalize
  <2>1. CASE CanFinalize(finalizer.run, finalizer.ver, finalizer.gen)
    <3>1. /\ finalizer.run \in Runs /\ "receipt" \in files[finalizer.run]
          /\ CommitVerification(finalizer.run)
      BY <1>1, <2>1 DEF Finalize, FinalizerInv, CanFinalize
    <3> QED
      BY <3>1, Commits
  <2> QED
    BY <1>1, <2>1 DEF Finalize
<1>2. ASSUME NEW r \in Runs, Commit(r) PROVE
         \/ ver' = ver
         \/ Eligible(r, ver, gen) /\ status = "active" /\ \E v \in Verdicts :
               /\ ver' = [run |-> r, state |-> v]
               /\ v = "passed" => outcome[r] = "passed" /\ "receipt" \in files[r]
  <2>1. "receipt" \in files[r] /\ CommitVerification(r)
    BY <1>2 DEF Commit, TrailInv, Trail
  <2> QED
    BY <2>1, Commits
<1>3. ASSUME NEW r \in Runs, Abandon(r)
      PROVE  ver' = [ver EXCEPT !.state = "blocked"] /\ ver.state = "running"
  BY <1>3 DEF Abandon, CanAbandon
<1>4. CASE UNCHANGED vars \/ Others \/ \E r \in Runs : FinalizeLoad(r)
  BY <1>4 DEF vars, FinalizeLoad, Others, Touch, Suspend, Restart, SwitchTo, SwitchAway, Reopen,
       Amend, Done, Edit, Command, work
<1>5. ASSUME NEW r \in Runs, Own(r), ~Commit(r) PROVE ver' = ver
  BY <1>5 DEF Own, Executor, Observe, Crash, Measure, Admit, AdmitSave, AdmitRefused, TakeOwner,
       Execute, WriteAdmission, WriteReceipt, Finish, work
<1> QED
  BY <1>1, <1>2, <1>3, <1>4, <1>5, Split DEF Still
(* What any step may make known of run q.                                  *)
LEMMA SaidMoves ==
  ASSUME TypeOK, TrailInv, SaidInv, FinalizerInv, [Next]_vars, NEW q \in Runs
  PROVE  \/ said'[q] = said[q]
         \/ said'[q] = "superseded" /\ said[q] \notin Verdicts
         \/ /\ said'[q] \in Verdicts /\ Eligible(q, ver, gen)
            /\ ver' = [run |-> q, state |-> said'[q]]
         \/ /\ said'[q] = "blocked" /\ ver.run = q /\ ver.state = "running"
            /\ ver' = [ver EXCEPT !.state = "blocked"]
<1>1. ASSUME NEW r \in Runs, CommitVerification(r), "receipt" \in files[r], said[r] \notin Verdicts
      PROVE  \/ said'[q] = said[q]
             \/ said'[q] = "superseded" /\ said[q] \notin Verdicts
             \/ /\ said'[q] \in Verdicts /\ Eligible(q, ver, gen)
                /\ ver' = [run |-> q, state |-> said'[q]]
  <2>1. CASE q = r
    BY <1>1, <2>1, Commits DEF TypeOK
  <2>2. CASE q # r
    BY <1>1, <2>2, Commits DEF TypeOK
  <2> QED
    BY <2>1, <2>2
<1>2. CASE Finalize
  BY <1>1, <1>2 DEF Finalize, CanFinalize, FinalizerInv
<1>3. ASSUME NEW r \in Runs, Commit(r) PROVE CommitVerification(r) /\ "receipt" \in files[r] /\ said[r] \notin Verdicts
  BY <1>3 DEF Commit, TrailInv, Trail, SaidInv
<1>4. ASSUME NEW r \in Runs, Abandon(r)
      PROVE  \/ said'[q] = said[q]
             \/ /\ said'[q] = "blocked" /\ ver.run = q /\ ver.state = "running"
                /\ ver' = [ver EXCEPT !.state = "blocked"]
  BY <1>4 DEF Abandon, CanAbandon, TypeOK
<1>5. CASE UNCHANGED vars \/ Others \/ \E r \in Runs : FinalizeLoad(r)
  BY <1>5 DEF vars, FinalizeLoad, Others, Touch, Suspend, Restart, SwitchTo, SwitchAway, Reopen,
       Amend, Done, Edit, Command, work
<1>6. ASSUME NEW r \in Runs, Own(r), ~Commit(r) PROVE said' = said
  BY <1>6 DEF Own, Executor, Observe, Crash, Measure, Admit, AdmitSave, AdmitRefused, TakeOwner,
       Execute, WriteAdmission, WriteReceipt, Finish, work
<1> QED
  BY <1>1, <1>2, <1>3, <1>4, <1>5, <1>6, Split DEF Still

(* A run that was admitted keeps the place it was admitted with.           *)
LEMMA Admitted ==
  ASSUME TypeOK, [Next]_vars, NEW q \in Runs, run[q].at \notin Early
  PROVE  run'[q].at \notin Early /\ run'[q].seq = run[q].seq
<1>1. CASE Still \/ UNCHANGED vars
  BY <1>1, StillLeaves DEF vars
<1>2. ASSUME NEW r \in Runs, Own(r), r # q PROVE run'[q] = run[q]
  BY <1>2, Alone
<1>3. CASE Own(q)
  BY <1>3 DEF TypeOK, Early, Own, Executor, Observe, Crash, Measure, Admit, AdmitSave, AdmitRefused,
       TakeOwner, Execute, WriteAdmission, WriteReceipt, Commit, Finish, Goes
<1> QED
  BY <1>1, <1>2, <1>3, Split

(* Only an admission moves the sequence.                                   *)
LEMMA SequenceMoves ==
  ASSUME [Next]_vars, \A r \in Runs : ~AdmitSave(r)
  PROVE  seq' = seq
<1>1. ASSUME NEW r \in Runs, Own(r) PROVE seq' = seq
  BY <1>1 DEF Own, Executor, Observe, Crash, Measure, Admit, AdmitRefused, TakeOwner,
       Execute, WriteAdmission, WriteReceipt, Commit, Finish, work
<1> QED
  BY <1>1, StillLeaves, Split DEF vars

LEMMA OfficialStep ==
  TypeOK /\ TrailInv /\ SaidInv /\ OfficialInv /\ FinalizerInv /\ [Next]_vars => OfficialInv'
<1> SUFFICES ASSUME TypeOK, TrailInv, SaidInv, OfficialInv, FinalizerInv, [Next]_vars
             PROVE  OfficialInv'
  OBVIOUS
<1>1. ASSUME NEW r \in Runs, AdmitSave(r) PROVE OfficialInv'
  <2>1. /\ run[r].at = "starting" /\ run'[r].at = "admitted" /\ run'[r].seq = run[r].seq
        /\ seq' = run[r].seq /\ said' = said /\ ver' = [run |-> r, state |-> "running"]
    BY <1>1 DEF TypeOK, AdmitSave, Goes
  <2>2. said[r] = "none"
    BY <2>1 DEF SaidInv, Early
  <2> QED
    BY <2>1, <2>2 DEF OfficialInv, Early, Verdicts
<1>2. CASE \A r \in Runs : ~AdmitSave(r)
  <2>1. ver'.state # "none" => ver'.run \in Runs /\ run'[ver'.run].at \notin Early
    <3>1. \/ ver' = NoVerification
          \/ ver'.run = ver.run /\ ver.state # "none"
          \/ ver' = ver
      BY <1>2, OfficialMoves DEF TypeOK, Eligible
    <3> QED
      BY <3>1, Admitted DEF OfficialInv, NoVerification
  <2>2. ASSUME ver'.state = "running" PROVE ver' = ver
    BY <1>2, <2>2, OfficialMoves DEF TypeOK, NoVerification, Verdicts
  <2>3. ver'.state = "running" =>
          run'[ver'.run].seq = seq' /\ said'[ver'.run] \notin Verdicts \cup {"blocked"}
    <3> SUFFICES ASSUME ver'.state = "running"
                 PROVE  run'[ver.run].seq = seq /\ said'[ver.run] \notin Verdicts \cup {"blocked"}
      BY <1>2, <2>2, SequenceMoves
    <3>1. ver.run \in Runs /\ ver' = ver /\ ver.state = "running"
      BY <2>2 DEF OfficialInv
    <3>2. run'[ver.run].seq = seq
      BY <3>1, Admitted DEF OfficialInv
    <3>3. said'[ver.run] = said[ver.run] \/ said'[ver.run] = "superseded"
      BY <3>1, SaidMoves DEF TypeOK, Verdicts
    <3> QED
      BY <3>1, <3>2, <3>3 DEF OfficialInv, Verdicts
  <2> QED
    BY <2>1, <2>3 DEF OfficialInv
<1> QED
  BY <1>1, <1>2

LEMMA FinalizerStep == FinalizerInv /\ [Next]_vars => FinalizerInv'
<1> SUFFICES ASSUME FinalizerInv, [Next]_vars PROVE FinalizerInv'
  OBVIOUS
<1>1. finalizer' = finalizer \/ finalizer' = NoFinalizer
        \/ \E r \in Runs : finalizer' = [run |-> r, ver |-> ver, gen |-> gen]
  <2>1. CASE UNCHANGED vars \/ Others
    BY <2>1 DEF vars, Others, Touch, Suspend, Restart, SwitchTo, SwitchAway, Reopen, Amend, Done,
         Edit, Command
  <2>2. CASE Finalize \/ \E r \in Runs : FinalizeLoad(r) \/ Abandon(r)
    BY <2>2 DEF Finalize, FinalizeLoad, Abandon
  <2>3. ASSUME NEW r \in Runs, Own(r) PROVE finalizer' = finalizer
    BY <2>3 DEF Own, Executor, Observe, Crash, Measure, Admit, AdmitSave, AdmitRefused, TakeOwner,
         Execute, WriteAdmission, WriteReceipt, Commit, Finish
  <2> QED
    BY <2>1, <2>2, <2>3, Split DEF Still
<1> QED
  BY <1>1 DEF FinalizerInv

-----------------------------------------------------------------------------
(* Complete records stay as they are, and a pass rests on them.            *)

LEMMA CompleteStays ==
  ASSUME TypeOK, TrailInv, [Next]_vars, NEW q \in Runs, "receipt" \in files[q]
  PROVE  files[q] = {"start", "admission", "receipt"} /\ files'[q] = files[q] /\ outcome'[q] = outcome[q]
<1>1. files[q] = {"start", "admission", "receipt"}
  <2>1. files[q] \subseteq {"start", "admission", "receipt"}
    BY DEF TypeOK
  <2>2. "admission" \in files[q] /\ "start" \in files[q]
    BY DEF TrailInv, Trail
  <2> QED
    BY <2>1, <2>2
<1>2. CASE Still \/ UNCHANGED vars
  BY <1>1, <1>2, StillLeaves DEF vars
<1>3. ASSUME NEW r \in Runs, Own(r), r # q PROVE files'[q] = files[q] /\ outcome'[q] = outcome[q]
  BY <1>3, Alone
<1>4. CASE Own(q)
  <2>1. run[q].at \in {"receipted", "committed", "done", "dead"}
    BY <1>1, SMTT(40) DEF TypeOK, TrailInv, Trail, Stages, Early
  <2>2. Commit(q) \/ Finish(q) \/ Crash(q)
    BY <1>4, <2>1 DEF Own, Executor, Observe, Measure, Admit, AdmitSave, AdmitRefused, TakeOwner,
         Execute, WriteAdmission, WriteReceipt
  <2> QED
    BY <1>1, <2>2 DEF Commit, Finish, Crash, disk
<1> QED
  BY <1>1, <1>2, <1>3, <1>4, Split

LEMMA BackedStep ==
  /\ TypeOK /\ TrailInv /\ OfficialInv /\ FinalizerInv /\ PassedIsBacked /\ [Next]_vars
  => PassedIsBacked'
<1> SUFFICES ASSUME TypeOK, TrailInv, OfficialInv, FinalizerInv, PassedIsBacked, [Next]_vars,
                    ver'.state = "passed"
             PROVE  outcome'[ver'.run] = "passed" /\ files'[ver'.run] = {"start", "admission", "receipt"}
  BY DEF PassedIsBacked
<1>1. \A r \in Runs : ~AdmitSave(r)
  BY DEF AdmitSave
<1>2. ver'.run \in Runs /\ outcome[ver'.run] = "passed" /\ "receipt" \in files[ver'.run]
  BY <1>1, OfficialMoves DEF TypeOK, OfficialInv, PassedIsBacked, NoVerification, Verdicts
<1> QED
  BY <1>2, CompleteStays
-----------------------------------------------------------------------------
(* Places in the sequence.                                                 *)

(* A step without the lock taken by an admission only takes preparations   *)
(* out of fresh, or leaves it as it is.                                    *)
LEMMA StillFresh == Still => fresh' = fresh \/ (lock = Nobody /\ fresh' = {})
BY DEF Still, Finalize, CommitVerification, Others, FinalizeLoad, Abandon, Touch, Suspend, Restart,
    SwitchTo, SwitchAway, Reopen, Amend, Done, Edit, Command, Saves, Free

LEMMA SequenceStep ==
  TypeOK /\ TrailInv /\ SequenceInv /\ [Next]_vars => SequenceInv'
<1> SUFFICES ASSUME TypeOK, TrailInv, SequenceInv, [Next]_vars PROVE SequenceInv'
  OBVIOUS
<1> USE RunsAssumption
<1>1. CASE Still \/ UNCHANGED vars
  <2>1. UNCHANGED <<run, files, lock, seq>>
    BY <1>1, StillLeaves DEF vars
  <2>2. fresh' = fresh \/ (lock = Nobody /\ fresh' = {})
    BY <1>1, StillFresh DEF vars
  <2> QED
    BY <2>1, <2>2 DEF SequenceInv, Placed
<1>2. ASSUME NEW r \in Runs, Observe(r) PROVE SequenceInv'
  <2>1. /\ run'[r].at = "observed" /\ run'[r].seq = seq + 1 /\ run[r].at = "unused"
        /\ \A q \in Runs \ {r} : run'[q] = run[q]
        /\ UNCHANGED <<seq, lock, files>> /\ fresh' = fresh \cup {r} /\ lock = Nobody
    BY <1>2 DEF TypeOK, Observe, work, disk, Free
  <2>2. files[r] = {}
    BY <2>1 DEF TrailInv, Trail, Early
  <2>3. \A q \in Runs : Placed(q)' => q # r /\ Placed(q)
    BY <2>1, <2>2 DEF Placed
  <2>4. \A q \in Runs : run'[q].at = "starting" => q # r /\ run[q].at = "starting"
    BY <2>1
  <2>5. \A q \in fresh' : run'[q].seq = seq + 1
    BY <2>1 DEF TypeOK, SequenceInv
  <2> QED
    BY <2>1, <2>3, <2>4, <2>5 DEF SequenceInv
<1>3. ASSUME NEW r \in Runs, AdmitSave(r) PROVE SequenceInv'
  <2>1. /\ run[r].at = "starting" /\ run'[r].at = "admitted" /\ run'[r].seq = run[r].seq
        /\ \A q \in Runs \ {r} : run'[q] = run[q]
        /\ UNCHANGED files /\ seq' = run[r].seq /\ fresh' = {}
    BY <1>3 DEF TypeOK, AdmitSave, Goes, disk, Saves
  <2>2. r \in fresh /\ run[r].seq = seq + 1 /\ \A q \in Runs \ {r} : run[q].at # "starting"
    BY <2>1 DEF SequenceInv
  <2>3. \A q \in Runs \ {r} : Placed(q)' => Placed(q) /\ run'[q].seq = run[q].seq /\ run[q].seq <= seq
    BY <2>1 DEF SequenceInv, Placed
  <2>4. \A p, q \in Runs \ {r} : p # q /\ Placed(p) /\ Placed(q) => run[p].seq # run[q].seq
    BY DEF SequenceInv
  <2>5. \A q \in Runs : run'[q].at # "starting" /\ run[q].seq \in Nat
    BY <2>1, <2>2 DEF TypeOK
  <2>6. \A q \in Runs : Placed(q)' => run'[q].seq <= seq'
    BY <2>1, <2>2, <2>3, <2>5 DEF TypeOK
  <2>7. \A p, q \in Runs : p # q /\ Placed(p)' /\ Placed(q)' => run'[p].seq # run'[q].seq
    <3> SUFFICES ASSUME NEW p \in Runs, NEW q \in Runs, p # q, Placed(p)', Placed(q)'
                 PROVE  run'[p].seq # run'[q].seq
      OBVIOUS
    <3>1. CASE p # r /\ q # r
      BY <2>3, <2>4, <3>1
    <3>2. CASE p = r \/ q = r
      BY <2>1, <2>2, <2>3, <2>5, <3>2 DEF TypeOK
    <3> QED
      BY <3>1, <3>2
  <2> QED
    BY <2>1, <2>5, <2>6, <2>7 DEF SequenceInv
<1>4. ASSUME NEW r \in Runs, Own(r), ~Observe(r), ~AdmitSave(r) PROVE SequenceInv'
  <2>1. \A q \in Runs : run'[q].seq = run[q].seq
    <3>1. run'[r].seq = run[r].seq
      BY <1>4 DEF TypeOK, Own, Executor, Crash, Measure, Admit, AdmitRefused, TakeOwner, Execute,
           WriteAdmission, WriteReceipt, Commit, Finish, Goes
    <3> QED
      BY <1>4, <3>1, Alone
  <2>2. seq' = seq
    BY <1>4 DEF Own, Executor, Crash, Measure, Admit, AdmitRefused, TakeOwner, Execute,
         WriteAdmission, WriteReceipt, Commit, Finish, work
  <2>3. \A q \in Runs : Placed(q)' => Placed(q)
    <3>1. Placed(r)' => Placed(r)
      BY <1>4 DEF TypeOK, Placed, Own, Executor, Crash, Measure, Admit, AdmitRefused, TakeOwner,
           Execute, WriteAdmission, WriteReceipt, Commit, Finish, Goes, disk
    <3>2. \A q \in Runs \ {r} : Placed(q)' => Placed(q)
      BY <1>4, Alone DEF Placed
    <3> QED
      BY <3>1, <3>2
  <2>4. fresh' = fresh \/ (lock = Nobody /\ fresh' \subseteq fresh)
    BY <1>4 DEF Own, Executor, Crash, Measure, Admit, AdmitRefused, TakeOwner, Execute,
         WriteAdmission, WriteReceipt, Commit, CommitVerification, Saves, Free, Finish, work
  <2>5. \/ lock' = lock /\ run'[r].at # "starting"
        \/ lock = Nobody /\ fresh' = fresh /\ lock' = r /\ r \in fresh
        \/ lock = r /\ lock' = Nobody /\ run'[r].at # "starting"
    <3>1. CASE Measure(r) \/ TakeOwner(r) \/ (\E o \in {"passed", "failed"} : Execute(r, o))
               \/ WriteAdmission(r) \/ WriteReceipt(r) \/ Commit(r) \/ Finish(r)
      BY <3>1 DEF TypeOK, Measure, TakeOwner, Execute, WriteAdmission, WriteReceipt, Commit, Finish, Goes
    <3>2. CASE Admit(r)
      BY <3>2 DEF TypeOK, Admit, Goes, Free
    <3>3. CASE AdmitRefused(r)
      BY <3>3 DEF TypeOK, AdmitRefused, Goes, SequenceInv
    <3>4. CASE Crash(r)
      BY <3>4 DEF TypeOK, Crash, Goes
    <3> QED
      BY <1>4, <3>1, <3>2, <3>3, <3>4 DEF Own, Executor
  <2>6. \A q \in Runs : run'[q].at = "starting" => lock' = q /\ q \in fresh'
    <3> SUFFICES ASSUME NEW q \in Runs, run'[q].at = "starting" PROVE lock' = q /\ q \in fresh'
      OBVIOUS
    <3>1. CASE q = r
      BY <2>5, <3>1
    <3>2. CASE q # r
      <4>1. run[q].at = "starting" /\ lock = q /\ q \in fresh
        BY <1>4, <3>2, Alone DEF SequenceInv
      <4> QED
        BY <2>4, <2>5, <3>2, <4>1
    <3> QED
      BY <3>1, <3>2
  <2>7. fresh' \subseteq fresh /\ fresh \subseteq Runs
    BY <2>4 DEF TypeOK
  <2> QED
    BY <2>1, <2>2, <2>3, <2>6, <2>7 DEF SequenceInv
<1> QED
  BY <1>1, <1>2, <1>3, <1>4, Split

-----------------------------------------------------------------------------
(* The theorems.                                                           *)

(* Every step preserves the invariant.                                     *)
LEMMA NextIInv == IInv /\ [Next]_vars => IInv'
BY TypeStep, TrailStep, SaidStep, OfficialStep, SequenceStep, FinalizerStep, BackedStep DEF IInv

(* The strengthened invariant holds in every reachable state.              *)
THEOREM Inductive == Spec => []IInv
<1>1. Init => IInv
  BY InitIInv
<1>2. IInv /\ [Next]_vars => IInv'
  BY NextIInv
<1> QED
  BY <1>1, <1>2, PTL DEF Spec

(* Every variable keeps the shape the code gives it; in particular a run   *)
(* is committed only with an outcome of its commands.                      *)
THEOREM TypeCorrect == Spec => []TypeOK
<1>1. IInv => TypeOK
  BY DEF IInv
<1> QED
  BY <1>1, Inductive, PTL

(* An official pass has start, admission and receipt on disk, and commands *)
(* that passed behind it (commit_verification, finalize).                  *)
THEOREM Backed == Spec => []PassedIsBacked
<1>1. IInv => PassedIsBacked
  BY DEF IInv
<1> QED
  BY <1>1, Inductive, PTL

(* Two runs that got as far as an admission record never share their place *)
(* in the verification sequence (_prepare_verification).                   *)
THEOREM Unique == Spec => []SequenceIsUnique
<1>1. IInv => SequenceIsUnique
  BY DEF IInv, SequenceInv, Placed, SequenceIsUnique
<1> QED
  BY <1>1, Inductive, PTL

(* Only the newest admission of a Work that has not moved on becomes an    *)
(* official pass, whoever commits it and however late.                     *)
THEOREM OnlyNewest == Spec => AcceptsOnlyNewest
<1> DEFINE Right == \A r \in Runs :
      Accepts(r) => run[r].seq = seq /\ run[r].gen = gen /\ status = "active"
<1>1. IInv /\ [Next]_vars => Right
  <2> SUFFICES ASSUME IInv, [Next]_vars, NEW r \in Runs, Accepts(r)
               PROVE  run[r].seq = seq /\ run[r].gen = gen /\ status = "active"
    OBVIOUS
  <2>1. ver' = [run |-> r, state |-> "passed"] /\ ver' # ver
    BY DEF Accepts
  <2>2. \A q \in Runs : ~AdmitSave(q)
    BY <2>1 DEF AdmitSave
  <2>3. Eligible(r, ver, gen) /\ status = "active"
    BY <2>1, <2>2, OfficialMoves DEF IInv, NoVerification, TypeOK
  <2> QED
    BY <2>3 DEF Eligible, IInv, OfficialInv
<1>2. IInv /\ [Next]_vars => [Right]_vars
  BY <1>1
<1> QED
  BY <1>2, Inductive, PTL DEF Spec, AcceptsOnlyNewest

(* A verdict recorded for a run is never replaced, whichever of executor   *)
(* and finalize comes second.                                              *)
THEOREM Final == Spec => VerdictIsFinal
<1> DEFINE Right == \A r \in Runs : said[r] \in Verdicts => said'[r] = said[r]
<1>1. IInv /\ [Next]_vars => Right
  BY SaidMoves DEF IInv, OfficialInv, Eligible
<1>2. IInv /\ [Next]_vars => [Right]_vars
  BY <1>1
<1> QED
  BY <1>2, Inductive, PTL DEF Spec, VerdictIsFinal

(* An abandoned run never becomes an official verdict, even if its         *)
(* executor is alive and finishes.                                         *)
THEOREM StaysOut == Spec => AbandonedStaysOut
<1> DEFINE Right == \A r \in Runs : said[r] = "blocked" => said'[r] \notin Verdicts
<1>1. IInv /\ [Next]_vars => Right
  BY SaidMoves DEF IInv, OfficialInv, Eligible, Verdicts
<1>2. IInv /\ [Next]_vars => [Right]_vars
  BY <1>1
<1> QED
  BY <1>2, Inductive, PTL DEF Spec, AbandonedStaysOut

(* The records of the runs as a whole, as the run checks them.             *)
THEOREM Consistent == Spec => []WellFormed
BY TypeCorrect, Unique, PTL DEF WellFormed

(* Neither a verdict nor the decision to abandon is ever taken back.       *)
THEOREM Stands == Spec => VerdictStands
BY Final, StaysOut DEF VerdictStands
=============================================================================
