------------------------ MODULE NativeCompletionProofs -------------------------
(***************************************************************************)
(* Proofs about executions, evidence, completion and migration, for any    *)
(* Works, runs, host calls, processes and bounds: whichever runs die, are  *)
(* retried or come back late, whatever is edited, switched, repaired or    *)
(* moved between the contracts, a Work is completed on results of what is  *)
(* there, and results are never shared, nor passed after they were given   *)
(* up.                                                                     *)
(*                                                                         *)
(* What carries it is the bond between a process and its row: the row has  *)
(* no result yet or was given up (RunnersOK), and a row that was given up  *)
(* is of an older generation or has an execution after it, for which no    *)
(* result is valid.  Everything a step does to a Work is one of a few      *)
(* kinds: rows end, a row comes in, fields change.                         *)
(***************************************************************************)
EXTENDS NativeCompletion, SequenceTheorems, WellFoundedInduction, TLAPS

-----------------------------------------------------------------------------
(* The inductive invariant.                                                *)

(* A sequence, of whatever is in it.                                       *)
IsSeq(s) == s \in Seq(Range(s))

(* A row of the receipts: its fields, its status, a generation the Work    *)
(* has had, and an identity of its kind.                                   *)
RowShape(r, gen) ==
    /\ DOMAIN r = {"id", "host", "status", "gen", "on", "refs"}
    /\ r.host \in BOOLEAN /\ r.gen \in 0..gen
    /\ r.status \in {"running", "passed", "failed", "stale", "abandoned", "unavailable"}
    /\ IF r.host THEN r.id \in Calls ELSE r.id \in Runs

(* The receipts: rows of distinct identities, and nothing but the host's   *)
(* rows after an execution without a result.                               *)
RowsOK(rows, gen) ==
    /\ IsSeq(rows)
    /\ \A i \in 1..Len(rows) : RowShape(rows[i], gen)
    /\ \A i, j \in 1..Len(rows) : rows[i].id = rows[j].id => i = j
    /\ \A i, j \in 1..Len(rows) : i < j /\ ~rows[i].host /\ rows[i].status = "running" => rows[j].host

(* A Work: its fields, and the ids it is bound to are of evidence it has.  *)
WorkOK(x) ==
    /\ DOMAIN x = {"status", "gen", "contract", "deps", "rows", "repair", "bound", "failure", "evidence", "verified", "flow"}
    /\ x.status \in {"active", "suspended", "completed"} /\ x.gen \in Nat /\ x.contract \in 1..2
    /\ RowsOK(x.rows, x.gen)
    /\ IsSeq(x.evidence)
    /\ x.bound # Nothing => x.bound.ids \subseteq 1..Len(x.evidence)

(* An execution that was abandoned, by a new generation or by a later      *)
(* execution.                                                              *)
GivenUp(rows, i, gen) ==
    rows[i].status = "abandoned" /\ (rows[i].gen < gen \/ \E j \in 1..Len(rows) : j > i /\ ~rows[j].host)

(* The row of what runner r executes is among the rows, without a result   *)
(* or given up.                                                            *)
HasRow(r, rows, gen) ==
    \E i \in 1..Len(rows) :
        rows[i].id = r.id /\ ~rows[i].host /\ (rows[i].status = "running" \/ GivenUp(rows, i, gen))

(* The runner is an execution, and not a closing.                          *)
Executing(r) == r # Nothing /\ r.stage # "closing"

(* Every execution has a row of the Work it is of, and no two of them the  *)
(* same.                                                                   *)
RunnersOK ==
    /\ DOMAIN runner = Processes
    /\ \A p \in Processes : runner[p] # Nothing =>
           DOMAIN runner[p] = {"work", "id", "stage"} /\ runner[p].work \in Works /\ runner[p].stage \in {"admitted", "owning", "closing"}
    /\ \A p \in Processes : Executing(runner[p]) => HasRow(runner[p], work[runner[p].work].rows, work[runner[p].work].gen)
    /\ \A p, q \in Processes : Executing(runner[p]) /\ Executing(runner[q]) /\ runner[p].id = runner[q].id => p = q

(* A journal of a migration: the Work after it is the Work before it, in   *)
(* the other contract and a new generation.                                *)
EntryOK(e) ==
    /\ DOMAIN e = {"state", "before", "after", "sources", "back"}
    /\ e.state \in {"prepared", "committed", "rollback_prepared", "rolled_back"}
    /\ e.before.contract = 1 /\ e.after = [e.before EXCEPT !.contract = 2, !.gen = @ + 1]

(* The journals of a Work.                                                 *)
JournalOK(j) == IsSeq(j) /\ \A i \in 1..Len(j) : EntryOK(j[i])

(* The product, within the bounds.                                         *)
ProductOK(p) == p \in [code : 0..1, unit : 0..1, policy : 0..1]

(* The inductive invariant.                                                *)
IInv ==
    /\ limits \in Limits /\ ProductOK(product)
    /\ DOMAIN work = Works /\ \A w \in Works : WorkOK(work[w])
    /\ RunnersOK
    /\ DOMAIN journal = Works /\ \A w \in Works : JournalOK(journal[w])
    /\ OneClaimPerResult

-----------------------------------------------------------------------------
(* Sequences.                                                              *)

(* A set of naturals that is not empty has a least member.                 *)
LEMMA Least == ASSUME NEW T \in SUBSET Nat, T # {} PROVE \E m \in T : \A n \in T : m <= n
<1> DEFINE R == {ss \in Nat \X Nat : ss[1] < ss[2]}
<1>1. IsWellFoundedOn(R, Nat)
  BY NatLessThanWellFounded DEF OpToRel
<1> HIDE DEF R
<1>2. \E m \in T : \A n \in T : <<n, m>> \notin R
  BY <1>1, WFMin
<1>3. \A m, n \in Nat : <<n, m>> \notin R => m <= n
  BY DEF R
<1> QED
  BY <1>2, <1>3

(* Max of a bounded set of naturals that is not empty is its greatest      *)
(* member.                                                                 *)
LEMMA Greatest ==
    ASSUME NEW n \in Nat, NEW T \in SUBSET (0..n), T # {}
    PROVE  Max(T) \in T /\ \A k \in T : k <= Max(T)
<1> DEFINE R == {n - k : k \in T}
<1>1. \A k \in T : k \in Nat /\ n - k \in Nat
  OBVIOUS
<1>4. R \in SUBSET Nat /\ R # {}
  BY <1>1
<1>2. PICK r \in R : \A q \in R : r <= q
  <2> HIDE DEF R
  <2> QED
    BY <1>4, Least
<1>3. PICK m \in T : r = n - m
  BY <1>2
<1>5. \A k \in T : m >= k
  <2>1. SUFFICES ASSUME NEW k \in T PROVE m >= k
    OBVIOUS
  <2>2. n - k \in R
    OBVIOUS
  <2>3. n - m <= n - k
    BY <1>2, <1>3, <2>2
  <2> QED
    BY <1>1, <2>3
<1> QED
  BY <1>1, <1>3, <1>5 DEF Max

(* A sequence over any set is a sequence.                                  *)
LEMMA FromAnySet == ASSUME NEW S, NEW s \in Seq(S) PROVE IsSeq(s)
BY SeqOfRange DEF IsSeq

(* A sequence is a function on its places.                                 *)
LEMMA SeqFacts == ASSUME NEW s, IsSeq(s) PROVE Len(s) \in Nat /\ DOMAIN s = 1..Len(s) /\ s = [i \in 1..Len(s) |-> s[i]]
BY DEF IsSeq

(* A function on 1..n is a sequence of that length.                        *)
LEMMA ByIndex == ASSUME NEW n \in Nat, NEW f, f = [i \in 1..n |-> f[i]] PROVE IsSeq(f) /\ Len(f) = n
<1> DEFINE S == {f[i] : i \in 1..n}
<1>1. f \in [1..n -> S]
  OBVIOUS
<1> HIDE DEF S
<1>2. f \in Seq(S) /\ Len(f) = n
  BY <1>1
<1> QED
  BY <1>2, FromAnySet

(* What Append gives.                                                      *)
LEMMA Appended ==
    ASSUME NEW s, IsSeq(s), NEW e
    PROVE  /\ IsSeq(Append(s, e)) /\ Len(Append(s, e)) = Len(s) + 1 /\ Append(s, e)[Len(s) + 1] = e
           /\ \A i \in 1..Len(s) : Append(s, e)[i] = s[i]
<1> DEFINE S == Range(s) \cup {e}
<1>1. s \in Seq(S) /\ e \in S
  BY DEF IsSeq
<1> HIDE DEF S
<1>2. Append(s, e) \in Seq(S)
  BY <1>1
<1>3. IsSeq(Append(s, e))
  <2> DEFINE t == Append(s, e)
  <2> HIDE DEF t
  <2>1. t \in Seq(S)
    BY <1>2 DEF t
  <2>2. IsSeq(t)
    BY <2>1, FromAnySet
  <2> QED
    BY <2>2 DEF t
<1> QED
  BY <1>1, <1>3

(* What replacing one entry gives.                                         *)
LEMMA Updated ==
    ASSUME NEW s, IsSeq(s), NEW i \in 1..Len(s), NEW e, NEW t, t = [s EXCEPT ![i] = e]
    PROVE  IsSeq(t) /\ Len(t) = Len(s) /\ t[i] = e /\ \A j \in 1..Len(s) : j # i => t[j] = s[j]
<1>1. Len(s) \in Nat /\ DOMAIN s = 1..Len(s)
  BY SeqFacts
<1>2. t = [j \in 1..Len(s) |-> t[j]]
  BY <1>1
<1>3. IsSeq(t) /\ Len(t) = Len(s)
  BY <1>1, <1>2, ByIndex
<1> QED
  BY <1>1, <1>3

(* What Front gives.                                                       *)
LEMMA Fronted ==
    ASSUME NEW S, NEW s \in Seq(S), NEW n \in Nat \ {0}, Len(s) = n
    PROVE  Front(s) \in Seq(S) /\ Len(Front(s)) = n - 1 /\ \A i \in 1..n : i < n => Front(s)[i] = s[i]
<1>1. 1 \in Int /\ n - 1 \in Int /\ \A i \in 1..(n - 1) : s[i] \in S
  OBVIOUS
<1> DEFINE f == SubSeq(s, 1, n - 1)
<1>2. f \in Seq(S) /\ Len(f) = (IF 1 <= n - 1 THEN (n - 1) - 1 + 1 ELSE 0) /\ \A i \in 1..((n - 1) - 1 + 1) : f[i] = s[1 + i - 1]
  BY <1>1, SubSeqProperties
<1>3. f = Front(s)
  BY DEF Front
<1> HIDE DEF f
<1>4. Len(f) = n - 1
  BY <1>2
<1>5. ASSUME NEW i \in 1..n, i < n PROVE f[i] = s[i]
  <2>1. i \in 1..((n - 1) - 1 + 1) /\ 1 + i - 1 = i
    BY <1>5
  <2> QED
    BY <1>2, <2>1
<1> QED
  BY <1>2, <1>3, <1>4, <1>5

(* What BeforeLast gives: the new entry right before the last one.         *)
LEMMA Inserted ==
    ASSUME NEW s, IsSeq(s), s # <<>>, NEW e, NEW t, t = BeforeLast(s, e)
    PROVE  /\ IsSeq(t) /\ Len(s) > 0 /\ Len(t) = Len(s) + 1 /\ t[Len(s)] = e /\ t[Len(s) + 1] = s[Len(s)]
           /\ \A i \in 1..Len(s) : i < Len(s) => t[i] = s[i]
<1> DEFINE S == Range(s) \cup {e}
           n == Len(s)
           f == Front(s)
           u == Append(f, e)
           v == <<Last(s)>>
<1>1. s \in Seq(S) /\ e \in S /\ n \in Nat \ {0}
  BY DEF IsSeq
<1>2. t = u \o v
  BY DEF BeforeLast
<1>3. v \in Seq(S) /\ Len(v) = 1 /\ v[1] = s[n]
  BY <1>1 DEF Last
<1> HIDE DEF S, v
<1>4. f \in Seq(S) /\ Len(f) = n - 1 /\ \A i \in 1..n : i < n => f[i] = s[i]
  BY <1>1, Fronted
<1> HIDE DEF f
<1>5. u \in Seq(S) /\ Len(u) = n /\ u[n] = e /\ \A i \in 1..n : i < n => u[i] = f[i]
  BY <1>1, <1>4
<1> HIDE DEF u
<1>6. /\ t \in Seq(S) /\ Len(t) = n + 1
      /\ \A i \in 1..(n + 1) : t[i] = IF i <= n THEN u[i] ELSE v[i - n]
  <2> DEFINE z == u \o v
  <2>4. u \in Seq(S) /\ v \in Seq(S)
    BY <1>3, <1>5
  <2>1. /\ z \in Seq(S) /\ Len(z) = Len(u) + Len(v)
        /\ \A i \in 1..(Len(u) + Len(v)) : z[i] = IF i <= Len(u) THEN u[i] ELSE v[i - Len(u)]
    BY <2>4, ConcatProperties
  <2>2. t = z
    BY <1>2
  <2> HIDE DEF z, n
  <2>3. Len(u) = n /\ Len(v) = 1
    BY <1>3, <1>5
  <2> QED
    BY <2>1, <2>2, <2>3
<1>7. IsSeq(t)
  BY <1>6, FromAnySet
<1> QED
  BY <1>1, <1>3, <1>4, <1>5, <1>6, <1>7

-----------------------------------------------------------------------------
(* Rows.                                                                   *)

(* What a row can end as.                                                  *)
Final == {"passed", "failed", "stale", "abandoned", "unavailable"}

(* Row b is row a at its end; it passed only if it was running, or had     *)
(* passed.                                                                 *)
Ended(a, b) ==
    /\ DOMAIN b = DOMAIN a /\ b.id = a.id /\ b.host = a.host /\ b.gen = a.gen
    /\ b.status \in Final /\ (b.status = "passed" => a.status \in {"running", "passed"})

(* Of rows s, some have ended in t.                                        *)
Marked(s, t) == IsSeq(t) /\ Len(t) = Len(s) /\ \A i \in 1..Len(s) : t[i] = s[i] \/ Ended(s[i], t[i])

(* t is s with one more row, at place k.                                   *)
Widened(s, t, k, row) ==
    /\ k \in 1..(Len(s) + 1) /\ IsSeq(t) /\ Len(t) = Len(s) + 1 /\ t[k] = row
    /\ \A i \in 1..Len(s) : t[IF i < k THEN i ELSE i + 1] = s[i]

(* No row that had a result in s passes in t.                              *)
NoLate(s, t) ==
    \A i \in 1..Len(s) : s[i].status # "running" =>
        \A j \in 1..Len(t) : (t[j].id = s[i].id /\ t[j].status = "passed") => s[i].status = "passed"

(* Receipts have a length.                                                 *)
LEMMA RowsLen == ASSUME NEW s, NEW g, RowsOK(s, g) PROVE Len(s) \in Nat
BY SeqFacts DEF RowsOK

(* Receipts of which some end stay in order, also in a later generation.   *)
LEMMA MarkedOK ==
    ASSUME NEW g \in Nat, NEW h \in Nat, g <= h, NEW s, RowsOK(s, g), NEW t, Marked(s, t)
    PROVE  RowsOK(t, h)
<1>1. \A i \in 1..Len(s) : RowShape(t[i], h)
  <2> SUFFICES ASSUME NEW i \in 1..Len(s) PROVE RowShape(t[i], h)
    OBVIOUS
  <2>1. RowShape(s[i], g)
    BY DEF RowsOK
  <2> QED
    BY <2>1 DEF Marked, Ended, Final, RowShape
<1>2. \A i \in 1..Len(s) : t[i].id = s[i].id /\ t[i].host = s[i].host /\ (t[i].status = "running" => s[i].status = "running")
  BY DEF Marked, Ended, Final
<1>3. \A i, j \in 1..Len(s) : t[i].id = t[j].id => i = j
  BY <1>2 DEF RowsOK
<1>4. \A i, j \in 1..Len(s) : i < j /\ ~t[i].host /\ t[i].status = "running" => t[j].host
  BY <1>2 DEF RowsOK
<1> QED
  BY <1>1, <1>3, <1>4 DEF RowsOK, Marked

(* An execution keeps its row when rows of others end, or when its own is  *)
(* given up.                                                               *)
LEMMA MarkedRuns ==
    ASSUME NEW g \in Nat, NEW h \in Nat, g <= h, NEW s, RowsOK(s, g), NEW t, Marked(s, t), NEW r, HasRow(r, s, g),
           \A i \in 1..Len(s) : s[i].id = r.id /\ ~s[i].host => t[i] = s[i] \/ GivenUp(t, i, h)
    PROVE  HasRow(r, t, h)
<1>1. PICK i \in 1..Len(s) : s[i].id = r.id /\ ~s[i].host /\ (s[i].status = "running" \/ GivenUp(s, i, g))
  BY DEF HasRow
<1>2. \A j \in 1..Len(s) : t[j].id = s[j].id /\ t[j].host = s[j].host /\ t[j].gen = s[j].gen
  BY DEF Marked, Ended
<1>3. s[i].gen \in Nat
  BY DEF RowsOK, RowShape
<1>4. Len(t) = Len(s)
  BY DEF Marked
<1>5. t[i] = s[i] \/ GivenUp(t, i, h)
  BY <1>1
<1>6. GivenUp(s, i, g) /\ t[i] = s[i] => GivenUp(t, i, h)
  BY <1>2, <1>3, <1>4 DEF GivenUp
<1>7. t[i].status = "running" \/ GivenUp(t, i, h)
  BY <1>1, <1>5, <1>6
<1> QED
  BY <1>1, <1>2, <1>4, <1>7 DEF HasRow

(* Rows that end do not make an earlier result a passed one.               *)
LEMMA MarkedNoLate ==
    ASSUME NEW g, NEW s, RowsOK(s, g), NEW t, Marked(s, t) PROVE NoLate(s, t)
<1>1. \A i, j \in 1..Len(s) : s[i].id = s[j].id => i = j
  BY DEF RowsOK
<1>2. \A i \in 1..Len(s) : t[i].id = s[i].id /\ (t[i].status = "passed" => s[i].status \in {"running", "passed"})
  BY DEF Marked, Ended
<1>3. Len(t) = Len(s)
  BY DEF Marked
<1> QED
  BY <1>1, <1>2, <1>3 DEF NoLate

(* Where the rows are after one more came in.                              *)
LEMMA WidenedPlaces ==
    ASSUME NEW s, Len(s) \in Nat, NEW t, NEW k, NEW row, Widened(s, t, k, row)
    PROVE  /\ Len(t) = Len(s) + 1 /\ k \in 1..Len(t) /\ t[k] = row
           /\ \A i \in 1..Len(s) : i < k => t[i] = s[i]
           /\ \A i \in 1..Len(s) : i >= k => t[i + 1] = s[i]
           /\ \A j \in 1..Len(t) : j < k => j \in 1..Len(s) /\ t[j] = s[j]
           /\ \A j \in 1..Len(t) : j > k => j - 1 \in 1..Len(s) /\ t[j] = s[j - 1]
<1>1. Len(t) = Len(s) + 1 /\ k \in 1..Len(t) /\ t[k] = row
  BY DEF Widened
<1>2. \A i \in 1..Len(s) : i < k => t[i] = s[i]
  BY <1>1 DEF Widened
<1>3. \A i \in 1..Len(s) : i >= k => t[i + 1] = s[i]
  BY <1>1 DEF Widened
<1>4. \A j \in 1..Len(t) : j < k => j \in 1..Len(s) /\ t[j] = s[j]
  BY <1>1, <1>2
<1>5. \A j \in 1..Len(t) : j > k => j - 1 \in 1..Len(s) /\ t[j] = s[j - 1]
  <2> SUFFICES ASSUME NEW j \in 1..Len(t), j > k PROVE j - 1 \in 1..Len(s) /\ t[j] = s[j - 1]
    OBVIOUS
  <2>1. j - 1 \in 1..Len(s) /\ j - 1 >= k /\ (j - 1) + 1 = j
    BY <1>1
  <2> QED
    BY <1>3, <2>1
<1> QED
  BY <1>1, <1>2, <1>3, <1>4, <1>5

(* Receipts stay in order with one more row of a new identity, if nothing  *)
(* but host rows comes after it and no execution before it is without a    *)
(* result.                                                                 *)
LEMMA WidenedOK ==
    ASSUME NEW g \in Nat, NEW s, RowsOK(s, g), NEW row, RowShape(row, g), NEW t, NEW k, Widened(s, t, k, row),
           \A i \in 1..Len(s) : s[i].id # row.id,
           \A i \in 1..Len(s) : i >= k => s[i].host,
           row.host \/ \A i \in 1..Len(s) : ~s[i].host => s[i].status # "running"
    PROVE  RowsOK(t, g)
<1>1. Len(s) \in Nat
  BY RowsLen
<1> DEFINE old(j) == IF j < k THEN j ELSE j - 1
<1>2. /\ Len(t) = Len(s) + 1 /\ k \in 1..Len(t) /\ t[k] = row
      /\ \A j \in 1..Len(t) : j # k => old(j) \in 1..Len(s) /\ t[j] = s[old(j)]
  BY <1>1, WidenedPlaces
<1>3. \A i, j \in 1..Len(t) : i # k /\ j # k /\ i < j => old(i) < old(j)
  BY <1>1, <1>2
<1>4. \A j \in 1..Len(t) : j > k => old(j) >= k
  BY <1>1, <1>2
<1> HIDE DEF old
<1>5. \A j \in 1..Len(t) : RowShape(t[j], g)
  BY <1>2 DEF RowsOK
<1>6. \A i, j \in 1..Len(t) : t[i].id = t[j].id => i = j
  <2> SUFFICES ASSUME NEW i \in 1..Len(t), NEW j \in 1..Len(t), i < j, t[i].id = t[j].id PROVE FALSE
    BY <1>1, <1>2
  <2>1. CASE i = k \/ j = k
    BY <1>2, <2>1
  <2>2. CASE i # k /\ j # k
    <3>1. old(i) = old(j)
      BY <1>2, <2>2 DEF RowsOK
    <3>2. old(i) < old(j)
      BY <1>3, <2>2
    <3> QED
      BY <1>1, <1>2, <2>2, <3>1, <3>2
  <2> QED
    BY <2>1, <2>2
<1>7. ASSUME NEW i \in 1..Len(t), NEW j \in 1..Len(t), i < j, ~t[i].host, t[i].status = "running" PROVE t[j].host
  <2>1. CASE i = k
    BY <1>2, <1>4, <1>7, <2>1
  <2>2. CASE j = k
    BY <1>2, <1>7, <2>2
  <2>3. CASE i # k /\ j # k
    BY <1>2, <1>3, <1>7, <2>3 DEF RowsOK
  <2> QED
    BY <2>1, <2>2, <2>3
<1>8. IsSeq(t)
  BY DEF Widened
<1> QED
  BY <1>5, <1>6, <1>7, <1>8 DEF RowsOK

(* One more row takes no execution its row.                                *)
LEMMA WidenedRuns ==
    ASSUME NEW g, NEW s, RowsOK(s, g), NEW t, NEW k, NEW row, Widened(s, t, k, row), NEW r, HasRow(r, s, g)
    PROVE  HasRow(r, t, g)
<1>1. Len(s) \in Nat
  BY RowsLen
<1> DEFINE new(i) == IF i < k THEN i ELSE i + 1
<1>2. k \in 1..(Len(s) + 1) /\ Len(t) = Len(s) + 1 /\ \A i \in 1..Len(s) : t[new(i)] = s[i]
  BY DEF Widened
<1>3. \A i \in 1..Len(s) : new(i) \in 1..Len(t)
  BY <1>1, <1>2
<1>4. \A i, j \in 1..Len(s) : j > i => new(j) > new(i)
  BY <1>1, <1>2
<1> HIDE DEF new
<1>5. PICK i \in 1..Len(s) : s[i].id = r.id /\ ~s[i].host /\ (s[i].status = "running" \/ GivenUp(s, i, g))
  BY DEF HasRow
<1>6. GivenUp(s, i, g) => GivenUp(t, new(i), g)
  BY <1>2, <1>3, <1>4 DEF GivenUp
<1> QED
  BY <1>2, <1>3, <1>5, <1>6 DEF HasRow

(* One more row that has not passed makes no earlier result a passed one.  *)
LEMMA WidenedNoLate ==
    ASSUME NEW g, NEW s, RowsOK(s, g), NEW u, Marked(s, u), NEW t, NEW k, NEW row, Widened(u, t, k, row), row.status # "passed"
    PROVE  NoLate(s, t)
<1>1. Len(s) \in Nat /\ Len(u) = Len(s)
  BY RowsLen DEF Marked
<1>2. NoLate(s, u)
  BY MarkedNoLate
<1>3. \A j \in 1..Len(t) : t[j].status = "passed" => \E i \in 1..Len(u) : t[j] = u[i]
  <2> SUFFICES ASSUME NEW j \in 1..Len(t), t[j].status = "passed" PROVE \E i \in 1..Len(u) : t[j] = u[i]
    OBVIOUS
  <2>1. Len(t) = Len(u) + 1 /\ k \in 1..Len(t)
    BY <1>1, WidenedPlaces
  <2>2. j # k
    BY <1>1, WidenedPlaces
  <2>3. CASE j < k
    BY <1>1, <2>3, WidenedPlaces
  <2>4. CASE j > k
    BY <1>1, <2>4, WidenedPlaces
  <2> QED
    BY <1>1, <2>1, <2>2, <2>3, <2>4
<1> QED
  BY <1>2, <1>3 DEF NoLate

(* A new execution after all others leaves them their rows: what it        *)
(* abandons, it gives up.                                                  *)
LEMMA AdmittedRuns ==
    ASSUME NEW g \in Nat, NEW s, RowsOK(s, g), NEW u, Marked(s, u), NEW t, NEW k, NEW row, Widened(u, t, k, row),
           \A i \in 1..Len(s) : u[i] = s[i] \/ u[i].status = "abandoned",
           ~row.host, \A i \in 1..Len(s) : ~s[i].host => i < k, NEW r, HasRow(r, s, g)
    PROVE  HasRow(r, t, g)
<1>1. Len(s) \in Nat /\ Len(u) = Len(s)
  BY RowsLen DEF Marked
<1>2. PICK i \in 1..Len(s) : s[i].id = r.id /\ ~s[i].host /\ (s[i].status = "running" \/ GivenUp(s, i, g))
  BY DEF HasRow
<1>3. i < k /\ t[i] = u[i] /\ t[k] = row /\ k \in 1..Len(t) /\ i \in 1..Len(t)
  BY <1>1, <1>2, WidenedPlaces
<1>4. u[i].id = s[i].id /\ u[i].host = s[i].host /\ u[i].status \in {"running", "abandoned"}
  BY <1>2 DEF Marked, Ended, GivenUp
<1>5. u[i].status = "abandoned" => GivenUp(t, i, g)
  <2>1. k > i
    BY <1>1, <1>3
  <2> QED
    BY <1>3, <2>1 DEF GivenUp
<1> QED
  BY <1>2, <1>3, <1>4, <1>5 DEF HasRow

(* Row finds the row of an identity.                                       *)
LEMMA RowIs ==
    ASSUME NEW w, NEW g, RowsOK(work[w].rows, g), NEW i \in 1..Len(work[w].rows)
    PROVE  Row(w, work[w].rows[i].id) = i
BY DEF RowsOK, Row

-----------------------------------------------------------------------------
(* Steps.                                                                  *)

(* What the action properties say of a step of Work w.                     *)
Steps(w) == ClosesOnEvidence(w) /\ NeverPassesLate(w) /\ KeepsProgress(w)

(* What has to be shown of every step: the invariant after it, and what    *)
(* the action properties say of it.                                        *)
Goal == IInv' /\ \A w \in Works : Steps(w)

(* Executions of a Work x still have their rows when it is y.              *)
Later(x, y) == \A r : HasRow(r, x.rows, x.gen) => HasRow(r, y.rows, y.gen)

(* A step from x to y that closes nothing, ends no repair, changes no      *)
(* contract, and lets nothing pass late.                                   *)
Calm(x, y) ==
    /\ WorkOK(y) /\ y.gen >= x.gen /\ NoLate(x.rows, y.rows)
    /\ y.status = "completed" => x.status = "completed"
    /\ y.repair = Nothing => x.repair = Nothing
    /\ y.contract = x.contract

(* What becomes of a runner while no execution is admitted: it stays,      *)
(* goes, is closing, or owns its run.                                      *)
RunnerNext(r, s) ==
    \/ s = r \/ s = Nothing
    \/ DOMAIN s = {"work", "id", "stage"} /\ s.work \in Works /\ s.stage = "closing"
    \/ r # Nothing /\ r.stage = "admitted" /\ s = [r EXCEPT !.stage = "owning"]

(* A calm step is as the action properties ask.                            *)
LEMMA CalmSteps == ASSUME NEW w \in Works, Calm(work[w], work'[w]) PROVE Steps(w)
<1>1. ClosesOnEvidence(w)
  BY DEF Calm, ClosesOnEvidence
<1>2. NeverPassesLate(w)
  BY DEF Calm, NeverPassesLate, NoLate
<1>3. KeepsProgress(w)
  BY DEF Calm, KeepsProgress
<1> QED
  BY <1>1, <1>2, <1>3 DEF Steps

(* Rows that stay as they are.                                             *)
LEMMA Unchanging == ASSUME NEW s, NEW g, RowsOK(s, g) PROVE Marked(s, s) /\ NoLate(s, s)
<1>1. Marked(s, s)
  BY DEF RowsOK, Marked
<1> QED
  BY <1>1, MarkedNoLate

(* A step that leaves a Work its rows, evidence, binding and contract, and *)
(* neither completes it nor ends its repair, is calm.                      *)
LEMMA Still ==
    ASSUME NEW x, WorkOK(x), NEW y, DOMAIN y = DOMAIN x, y.status \in {"active", "suspended", "completed"},
           y.status = "completed" => x.status = "completed", y.gen \in Nat, y.gen >= x.gen, y.contract = x.contract,
           y.rows = x.rows, y.evidence = x.evidence, y.bound = x.bound, y.repair = Nothing => x.repair = Nothing
    PROVE  Calm(x, y) /\ Later(x, y)
<1>1. x.gen \in Nat /\ RowsOK(x.rows, x.gen) /\ Marked(x.rows, x.rows) /\ NoLate(x.rows, x.rows)
  BY Unchanging DEF WorkOK
<1>2. RowsOK(y.rows, y.gen)
  BY <1>1, MarkedOK
<1>3. WorkOK(y)
  BY <1>2 DEF WorkOK
<1>4. Later(x, y)
  BY <1>1, MarkedRuns DEF Later
<1> QED
  BY <1>1, <1>3, <1>4 DEF Calm

(* Runners stay in order when no execution is admitted and executions keep *)
(* their rows.                                                             *)
LEMMA RunnersStay ==
    ASSUME IInv, DOMAIN runner' = Processes, \A p \in Processes : RunnerNext(runner[p], runner'[p]),
           \A w \in Works : Later(work[w], work'[w])
    PROVE  RunnersOK'
<1>1. /\ \A p \in Processes : runner[p] # Nothing =>
             DOMAIN runner[p] = {"work", "id", "stage"} /\ runner[p].work \in Works /\ runner[p].stage \in {"admitted", "owning", "closing"}
      /\ \A p \in Processes : Executing(runner[p]) => HasRow(runner[p], work[runner[p].work].rows, work[runner[p].work].gen)
      /\ \A p, q \in Processes : Executing(runner[p]) /\ Executing(runner[q]) /\ runner[p].id = runner[q].id => p = q
  BY DEF IInv, RunnersOK
<1>2. ASSUME NEW p \in Processes, runner'[p] # Nothing
      PROVE  DOMAIN runner'[p] = {"work", "id", "stage"} /\ runner'[p].work \in Works /\ runner'[p].stage \in {"admitted", "owning", "closing"}
  <2>1. RunnerNext(runner[p], runner'[p])
    OBVIOUS
  <2> QED
    BY <1>1, <1>2, <2>1 DEF RunnerNext
<1>3. \A p \in Processes : Executing(runner'[p]) => Executing(runner[p]) /\ runner'[p].id = runner[p].id /\ runner'[p].work = runner[p].work
  <2> SUFFICES ASSUME NEW p \in Processes, Executing(runner'[p])
               PROVE  Executing(runner[p]) /\ runner'[p].id = runner[p].id /\ runner'[p].work = runner[p].work
    OBVIOUS
  <2>1. RunnerNext(runner[p], runner'[p]) /\ runner'[p] # Nothing /\ runner'[p].stage # "closing"
    BY DEF Executing
  <2>2. CASE runner'[p] = runner[p]
    BY <2>1, <2>2 DEF Executing
  <2>3. CASE runner[p] # Nothing /\ runner[p].stage = "admitted" /\ runner'[p] = [runner[p] EXCEPT !.stage = "owning"]
    BY <1>1, <2>3 DEF Executing
  <2> QED
    BY <2>1, <2>2, <2>3 DEF RunnerNext
<1>4. ASSUME NEW p \in Processes, Executing(runner'[p])
      PROVE  HasRow(runner'[p], work'[runner'[p].work].rows, work'[runner'[p].work].gen)
  <2>1. HasRow(runner[p], work[runner[p].work].rows, work[runner[p].work].gen) /\ runner[p].work \in Works
    BY <1>1, <1>3, <1>4 DEF Executing
  <2>2. HasRow(runner[p], work'[runner[p].work].rows, work'[runner[p].work].gen)
    BY <2>1 DEF Later
  <2> QED
    BY <1>3, <1>4, <2>2 DEF HasRow
<1>5. \A p, q \in Processes : Executing(runner'[p]) /\ Executing(runner'[q]) /\ runner'[p].id = runner'[q].id => p = q
  BY <1>1, <1>3
<1> QED
  BY <1>2, <1>4, <1>5 DEF RunnersOK

(* As long as bindings stay, so does what they claim.                      *)
LEMMA ClaimStays ==
    ASSUME IInv, \A w \in Works : work'[w].bound = work[w].bound PROVE OneClaimPerResult'
BY DEF IInv, OneClaimPerResult

(* A step that is calm for every Work, that moves no binding and no        *)
(* journal.                                                                *)
LEMMA CalmStep ==
    ASSUME IInv, limits' = limits, ProductOK(product'), journal' = journal, DOMAIN work' = Works,
           \A w \in Works : Calm(work[w], work'[w]) /\ work'[w].bound = work[w].bound, RunnersOK'
    PROVE  Goal
<1>1. OneClaimPerResult'
  BY ClaimStays
<1>2. \A w \in Works : WorkOK(work'[w]) /\ Steps(w)
  BY CalmSteps DEF Calm
<1>3. limits' \in Limits /\ DOMAIN journal' = Works /\ \A w \in Works : JournalOK(journal'[w])
  BY DEF IInv
<1> QED
  BY <1>1, <1>2, <1>3 DEF Goal, IInv

(* One Work moves calmly and the others stay as they are.                  *)
LEMMA OneMoves ==
    ASSUME IInv, NEW w \in Works, DOMAIN work' = Works, \A v \in Works \ {w} : work'[v] = work[v],
           Calm(work[w], work'[w]), work'[w].bound = work[w].bound
    PROVE  \A v \in Works : Calm(work[v], work'[v]) /\ work'[v].bound = work[v].bound
<1>1. \A v \in Works : WorkOK(work[v])
  BY DEF IInv
<1>2. \A v \in Works : Calm(work[v], work[v])
  <2> SUFFICES ASSUME NEW v \in Works PROVE Calm(work[v], work[v])
    OBVIOUS
  <2>1. WorkOK(work[v]) /\ work[v].gen \in Nat /\ work[v].status \in {"active", "suspended", "completed"}
    BY <1>1 DEF WorkOK
  <2> QED
    BY <2>1, Still
<1> QED
  BY <1>2

(* The others keep the rows of their executions as well.                   *)
LEMMA OneLater ==
    ASSUME NEW w \in Works, \A v \in Works \ {w} : work'[v] = work[v], Later(work[w], work'[w])
    PROVE  \A v \in Works : Later(work[v], work'[v])
BY DEF Later

(* What the invariant says, at hand for the steps.                         *)
LEMMA Facts ==
    ASSUME IInv
    PROVE  /\ limits \in Limits /\ ProductOK(product) /\ DOMAIN work = Works /\ DOMAIN runner = Processes
           /\ \A w \in Works : WorkOK(work[w]) /\ work[w].gen \in Nat /\ RowsOK(work[w].rows, work[w].gen)
           /\ \A w \in Works : Len(work[w].rows) \in Nat
BY RowsLen DEF IInv, WorkOK, RunnersOK

(* The runners stay as they are.                                           *)
LEMMA RunnerStill == ASSUME IInv, runner' = runner PROVE DOMAIN runner' = Processes /\ \A p \in Processes : RunnerNext(runner[p], runner'[p])
BY Facts DEF RunnerNext

(* A step that moves no Work.                                              *)
LEMMA NoWorkMoves ==
    ASSUME IInv, work' = work, limits' = limits, journal' = journal, ProductOK(product'),
           DOMAIN runner' = Processes, \A p \in Processes : RunnerNext(runner[p], runner'[p])
    PROVE  Goal
<1>1. \A w \in Works : Calm(work[w], work'[w]) /\ Later(work[w], work'[w])
  <2> SUFFICES ASSUME NEW w \in Works PROVE Calm(work[w], work'[w]) /\ Later(work[w], work'[w])
    OBVIOUS
  <2>1. WorkOK(work[w]) /\ work'[w] = work[w]
    BY Facts
  <2>2. work[w].gen \in Nat /\ work[w].status \in {"active", "suspended", "completed"}
    BY <2>1 DEF WorkOK
  <2> QED
    BY <2>1, <2>2, Still
<1>2. RunnersOK'
  BY <1>1, RunnersStay
<1> QED
  BY <1>1, <1>2, CalmStep, Facts

(* A step of one Work that leaves its rows, its evidence, its binding and  *)
(* its contract alone.                                                     *)
LEMMA FieldStep ==
    ASSUME IInv, NEW w \in Works, NEW y, work' = [work EXCEPT ![w] = y],
           DOMAIN y = DOMAIN work[w], y.status \in {"active", "suspended", "completed"},
           y.status = "completed" => work[w].status = "completed", y.gen \in Nat, y.gen >= work[w].gen,
           y.contract = work[w].contract, y.rows = work[w].rows, y.evidence = work[w].evidence,
           y.bound = work[w].bound, y.repair = Nothing => work[w].repair = Nothing,
           limits' = limits, journal' = journal, ProductOK(product'),
           DOMAIN runner' = Processes, \A p \in Processes : RunnerNext(runner[p], runner'[p])
    PROVE  Goal
<1>1. DOMAIN work' = Works /\ work'[w] = y /\ \A v \in Works \ {w} : work'[v] = work[v]
  BY Facts
<1>2. Calm(work[w], y) /\ Later(work[w], y)
  BY Facts, Still
<1>3. \A v \in Works : Calm(work[v], work'[v]) /\ work'[v].bound = work[v].bound
  BY <1>1, <1>2, OneMoves
<1>4. \A v \in Works : Later(work[v], work'[v])
  BY <1>1, <1>2, OneLater
<1>5. RunnersOK'
  BY <1>4, RunnersStay
<1> QED
  BY <1>1, <1>3, <1>5, CalmStep

-----------------------------------------------------------------------------
(* The actions, one lemma for each.                                        *)

(* Taking the lock of a run.                                               *)
LEMMA OwnStep == ASSUME IInv, NEW p \in Processes, Own(p) PROVE Goal
<1>1. DOMAIN runner' = Processes /\ \A q \in Processes : RunnerNext(runner[q], runner'[q])
  BY Facts DEF Own, RunnerNext
<1> QED
  BY <1>1, NoWorkMoves, Facts DEF Own, aside

(* A death.                                                                *)
LEMMA DieStep == ASSUME IInv, NEW p \in Processes, Die(p) PROVE Goal
<1>1. DOMAIN runner' = Processes /\ \A q \in Processes : RunnerNext(runner[q], runner'[q])
  BY Facts DEF Die, RunnerNext
<1> QED
  BY <1>1, NoWorkMoves, Facts DEF Die, aside

(* The first judgement of cao done.                                        *)
LEMMA DoneJudgesStep == ASSUME IInv, NEW p \in Processes, NEW w \in Works, DoneJudges(p, w) PROVE Goal
<1>1. DOMAIN runner' = Processes /\ \A q \in Processes : RunnerNext(runner[q], runner'[q])
  BY Facts DEF DoneJudges, RunnerNext
<1> QED
  BY <1>1, NoWorkMoves, Facts DEF DoneJudges, aside

(* An edit of the product.                                                 *)
LEMMA EditStep == ASSUME IInv, NEW part \in limits.parts, NEW value \in 0..1, Edit(part, value) PROVE Goal
<1>1. part \in {"code", "unit", "policy"}
  BY Facts, NativeAssumption
<1>2. ProductOK(product')
  BY <1>1, Facts DEF Edit, ProductOK
<1> QED
  BY <1>2, NoWorkMoves, RunnerStill DEF Edit, aside

(* A report written by hand.                                               *)
LEMMA WriteReportStep == ASSUME IInv, NEW p \in Paths, NEW body, WriteReport(p, body) PROVE Goal
BY NoWorkMoves, RunnerStill, Facts DEF WriteReport, aside

(* A step that changes a field of one Work nothing in the invariant        *)
(* depends on.                                                             *)
LEMMA PlainStep ==
    ASSUME IInv, NEW w \in Works, NEW f \in {"deps", "failure", "verified", "flow"}, NEW v,
           work' = [work EXCEPT ![w] = [work[w] EXCEPT ![f] = v]],
           product' = product, runner' = runner, limits' = limits, journal' = journal
    PROVE  Goal
<1> DEFINE y == [work[w] EXCEPT ![f] = v]
<1>1. WorkOK(work[w])
  BY Facts
<1>2. /\ DOMAIN y = DOMAIN work[w] /\ y.status = work[w].status /\ y.gen = work[w].gen
      /\ y.contract = work[w].contract /\ y.rows = work[w].rows /\ y.evidence = work[w].evidence
      /\ y.bound = work[w].bound /\ y.repair = work[w].repair
  BY <1>1 DEF WorkOK
<1>3. y.status \in {"active", "suspended", "completed"} /\ y.gen \in Nat /\ y.gen >= work[w].gen
  BY <1>1, <1>2 DEF WorkOK
<1> HIDE DEF y
<1>4. work' = [work EXCEPT ![w] = y]
  BY DEF y
<1> QED
  BY <1>2, <1>3, <1>4, FieldStep, RunnerStill, Facts

(* Declaring a dependency.                                                 *)
LEMMA DeclareDependencyStep == ASSUME IInv, NEW w \in Works, DeclareDependency(w) PROVE Goal
<1>1. work' = [work EXCEPT ![w] = [work[w] EXCEPT !["deps"] = {"helper"}]]
  BY DEF DeclareDependency
<1> QED
  BY <1>1, PlainStep DEF DeclareDependency, aside

(* Suspending.                                                             *)
LEMMA SuspendStep == ASSUME IInv, NEW w \in Works, Suspend(w) PROVE Goal
<1> DEFINE y == [work[w] EXCEPT !.status = "suspended"]
<1>1. WorkOK(work[w])
  BY Facts
<1>2. /\ DOMAIN y = DOMAIN work[w] /\ y.status = "suspended" /\ y.gen = work[w].gen
      /\ y.contract = work[w].contract /\ y.rows = work[w].rows /\ y.evidence = work[w].evidence
      /\ y.bound = work[w].bound /\ y.repair = work[w].repair
  BY <1>1 DEF WorkOK
<1>3. work' = [work EXCEPT ![w] = y] /\ product' = product /\ runner' = runner /\ limits' = limits /\ journal' = journal
  BY DEF Suspend, aside
<1>4. y.gen \in Nat /\ y.gen >= work[w].gen
  BY <1>1, <1>2 DEF WorkOK
<1> HIDE DEF y
<1> QED
  BY <1>2, <1>3, <1>4, FieldStep, RunnerStill, Facts

(* Completing the native workflow.                                         *)
LEMMA CompleteWorkflowStep == ASSUME IInv, NEW w \in Works, CompleteWorkflow(w) PROVE Goal
<1>1. work' = [work EXCEPT ![w] = [work[w] EXCEPT !["flow"] = product.unit]]
  BY DEF CompleteWorkflow
<1> QED
  BY <1>1, PlainStep DEF CompleteWorkflow, aside

(* A verification.                                                         *)
LEMMA VerifyStep == ASSUME IInv, NEW w \in Works, NEW status, Verify(w, status) PROVE Goal
<1>1. work' = [work EXCEPT ![w] = [work[w] EXCEPT !["verified"] = [status |-> status, on |-> Technical]]]
  BY DEF Verify
<1> QED
  BY <1>1, PlainStep DEF Verify, aside

(* Reopening.                                                              *)
LEMMA ReopenStep == ASSUME IInv, NEW w \in Works, Reopen(w) PROVE Goal
<1> DEFINE y == [work[w] EXCEPT !.status = "active", !.gen = @ + 1, !.verified = Nothing]
<1>1. WorkOK(work[w])
  BY Facts
<1>2. /\ DOMAIN y = DOMAIN work[w] /\ y.status = "active" /\ y.gen = work[w].gen + 1
      /\ y.contract = work[w].contract /\ y.rows = work[w].rows /\ y.evidence = work[w].evidence
      /\ y.bound = work[w].bound /\ y.repair = work[w].repair
  BY <1>1 DEF WorkOK
<1>3. work' = [work EXCEPT ![w] = y] /\ product' = product /\ runner' = runner /\ limits' = limits /\ journal' = journal
  BY DEF Reopen, aside
<1>4. y.gen \in Nat /\ y.gen >= work[w].gen
  BY <1>1, <1>2 DEF WorkOK
<1> HIDE DEF y
<1> QED
  BY <1>2, <1>3, <1>4, FieldStep, RunnerStill, Facts

(* A refused bind.                                                         *)
LEMMA BindFailsStep == ASSUME IInv, NEW w \in Works, NEW req, BindFails(w, req) PROVE Goal
<1>1. PICK f : work' = [work EXCEPT ![w].failure = f]
  BY DEF BindFails
<1>2. work' = [work EXCEPT ![w] = [work[w] EXCEPT !["failure"] = f]]
  BY <1>1
<1> QED
  BY <1>2, PlainStep DEF BindFails, aside

(* Opening a repair: an open one is a record, and never Nothing.           *)
LEMMA RepairStep == ASSUME IInv, NEW w \in Works, NEW kind \in {"product", "environment"}, Repair(w, kind) PROVE Goal
<1> DEFINE rep == [kind |-> kind, boundary |-> IF kind = "product" THEN Boundary(w) ELSE {}]
           y == [work[w] EXCEPT !.repair = rep]
<1>1. WorkOK(work[w])
  BY Facts
<1>2. /\ DOMAIN y = DOMAIN work[w] /\ y.status = work[w].status /\ y.gen = work[w].gen
      /\ y.contract = work[w].contract /\ y.rows = work[w].rows /\ y.evidence = work[w].evidence
      /\ y.bound = work[w].bound /\ y.repair = rep
  BY <1>1 DEF WorkOK
<1>3. work' = [work EXCEPT ![w] = y] /\ product' = product /\ runner' = runner /\ limits' = limits /\ journal' = journal
  BY DEF Repair, aside
<1>4. y.status \in {"active", "suspended", "completed"} /\ y.gen \in Nat /\ y.gen >= work[w].gen
  BY <1>1, <1>2 DEF WorkOK
<1>5. rep # Nothing
  <2>1. \A i \in 1..Len(work[w].rows) : work[w].rows[i].id \in Runs \cup Calls
    BY <1>1 DEF WorkOK, RowsOK, RowShape
  <2>2. Boundary(w) \in SUBSET (Runs \cup Calls)
    BY <2>1 DEF Boundary
  <2>3. rep \in [kind : {"product", "environment"}, boundary : SUBSET (Runs \cup Calls)]
    BY <2>2
  <2> QED
    BY <2>3, NativeAssumption
<1> HIDE DEF y, rep
<1> QED
  BY <1>2, <1>3, <1>4, <1>5, FieldStep, RunnerStill, Facts

(* A switch: new generations for the Work that is left and the one that is *)
(* entered.                                                                *)
LEMMA TurnStep == ASSUME IInv, NEW w \in Works, Turn(w) PROVE Goal
<1>1. /\ work' = [v \in Works |-> IF v = w THEN [work[v] EXCEPT !.status = "active", !.gen = @ + 1]
                                  ELSE IF Active(v) THEN [work[v] EXCEPT !.status = "suspended", !.gen = @ + 1]
                                  ELSE work[v]]
      /\ product' = product /\ runner' = runner /\ limits' = limits /\ journal' = journal
  BY DEF Turn, aside
<1>2. \A v \in Works : Calm(work[v], work'[v]) /\ Later(work[v], work'[v]) /\ work'[v].bound = work[v].bound
  <2> SUFFICES ASSUME NEW v \in Works
               PROVE  Calm(work[v], work'[v]) /\ Later(work[v], work'[v]) /\ work'[v].bound = work[v].bound
    OBVIOUS
  <2>1. WorkOK(work[v])
    BY Facts
  <2> DEFINE y == work'[v]
  <2>2. /\ DOMAIN y = DOMAIN work[v] /\ y.status \in {work[v].status, "active", "suspended"} /\ y.gen \in {work[v].gen, work[v].gen + 1}
        /\ y.contract = work[v].contract /\ y.rows = work[v].rows /\ y.evidence = work[v].evidence
        /\ y.bound = work[v].bound /\ y.repair = work[v].repair
    BY <1>1, <2>1 DEF WorkOK
  <2>3. y.status \in {"active", "suspended", "completed"} /\ y.gen \in Nat /\ y.gen >= work[v].gen
    BY <2>1, <2>2 DEF WorkOK
  <2> HIDE DEF y
  <2>4. Calm(work[v], y) /\ Later(work[v], y)
    BY <2>1, <2>2, <2>3, Still
  <2> QED
    BY <2>2, <2>4 DEF y
<1>3. RunnersOK'
  BY <1>1, <1>2, RunnersStay, RunnerStill
<1> QED
  BY <1>1, <1>2, <1>3, CalmStep, Facts

(* A step of the rows alone is calm if the rows stay in order.             *)
LEMMA RowsCalm ==
    ASSUME NEW x, WorkOK(x), NEW y, DOMAIN y = DOMAIN x, y.status = x.status, y.gen \in Nat, y.gen >= x.gen,
           y.contract = x.contract, y.evidence = x.evidence, y.bound = x.bound, y.repair = x.repair,
           RowsOK(y.rows, y.gen), NoLate(x.rows, y.rows)
    PROVE  Calm(x, y)
BY DEF Calm, WorkOK

(* The last execution is the one with no execution after it.               *)
LEMMA LastIs ==
    ASSUME IInv, NEW w \in Works, Executions(w) # {}
    PROVE  \E m \in 1..Len(work[w].rows) :
               /\ LastExecution(w) = work[w].rows[m] /\ ~work[w].rows[m].host
               /\ \A i \in 1..Len(work[w].rows) : ~work[w].rows[i].host => i <= m
<1>1. Len(work[w].rows) \in Nat
  BY Facts
<1>2. Executions(w) \in SUBSET (0..Len(work[w].rows))
  BY <1>1 DEF Executions
<1> DEFINE m == Max(Executions(w))
<1>3. m \in Executions(w) /\ \A k \in Executions(w) : k <= m
  BY <1>1, <1>2, Greatest
<1>4. LastExecution(w) = work[w].rows[m]
  BY DEF LastExecution
<1> HIDE DEF m
<1> QED
  BY <1>3, <1>4 DEF Executions

(* An identity that is not taken is in no receipts.                        *)
LEMMA NotTaken ==
    ASSUME NEW w \in Works, NEW id, id \notin Taken
    PROVE  \A i \in 1..Len(work[w].rows) : work[w].rows[i].id # id
BY DEF Taken

(* What Abandon does: the row that is retried ends as abandoned, if it was *)
(* running.                                                                *)
LEMMA AbandonMarks ==
    ASSUME IInv, NEW w \in Works, NEW retry
    PROVE  /\ Marked(work[w].rows, Abandon(w, retry))
           /\ \A i \in 1..Len(work[w].rows) :
                  \/ Abandon(w, retry)[i] = work[w].rows[i] /\ ~(work[w].rows[i].id = retry /\ work[w].rows[i].status = "running")
                  \/ Abandon(w, retry)[i].status = "abandoned"
<1> DEFINE s == work[w].rows
           u == Abandon(w, retry)
<1>1. Len(s) \in Nat /\ \A i \in 1..Len(s) : RowShape(s[i], work[w].gen)
  BY Facts DEF RowsOK
<1>2. u = [i \in 1..Len(s) |-> IF s[i].id = retry /\ s[i].status = "running"
                               THEN [s[i] EXCEPT !.status = "abandoned"] ELSE s[i]]
  BY DEF Abandon
<1>3. u = [i \in 1..Len(s) |-> u[i]]
  BY <1>2
<1> HIDE DEF u
<1>4. IsSeq(u) /\ Len(u) = Len(s)
  BY <1>1, <1>3, ByIndex
<1>5. \A i \in 1..Len(s) : \/ u[i] = s[i] /\ ~(s[i].id = retry /\ s[i].status = "running")
                           \/ u[i].status = "abandoned" /\ Ended(s[i], u[i])
  BY <1>1, <1>2 DEF RowShape, Ended, Final
<1> QED
  BY <1>4, <1>5 DEF Marked, u

(* Placed puts the new row at the end, or right before the last.           *)
LEMMA PlacedAt ==
    ASSUME NEW s, IsSeq(s), NEW row, NEW same \in BOOLEAN, same => s # <<>>
    PROVE  Widened(s, Placed(s, row, same), IF same THEN Len(s) ELSE Len(s) + 1, row)
<1>1. Len(s) \in Nat
  BY SeqFacts
<1>2. CASE same
  <2> DEFINE t == Placed(s, row, same)
  <2>1. t = BeforeLast(s, row)
    BY <1>2 DEF Placed
  <2> HIDE DEF t
  <2>2. /\ IsSeq(t) /\ Len(s) > 0 /\ Len(t) = Len(s) + 1 /\ t[Len(s)] = row /\ t[Len(s) + 1] = s[Len(s)]
        /\ \A i \in 1..Len(s) : i < Len(s) => t[i] = s[i]
    <3>1. s # <<>>
      BY <1>2
    <3> QED
      BY <2>1, <3>1, Inserted
  <2>4. \A i \in 1..Len(s) : ~(i < Len(s)) => i = Len(s) /\ t[i + 1] = s[i]
    BY <1>1, <2>2
  <2>5. Widened(s, t, Len(s), row)
    BY <1>1, <2>2, <2>4 DEF Widened
  <2> QED
    BY <1>2, <2>5 DEF t
<1>3. CASE ~same
  <2> DEFINE t == Append(s, row)
  <2>1. IsSeq(t) /\ Len(t) = Len(s) + 1 /\ t[Len(s) + 1] = row /\ \A i \in 1..Len(s) : t[i] = s[i]
    BY Appended
  <2> HIDE DEF t
  <2>2. Widened(s, t, Len(s) + 1, row)
    BY <1>1, <2>1 DEF Widened
  <2> QED
    BY <1>3, <2>2 DEF t, Placed
<1> QED
  BY <1>2, <1>3

(* The start of a call of the host.                                        *)
LEMMA HostStartsStep == ASSUME IInv, NEW w \in Works, NEW c \in Calls, HostStarts(w, c) PROVE Goal
<1> DEFINE s == work[w].rows
           row == NewRow(w, c, TRUE, {})
           t == Append(s, row)
           y == [work[w] EXCEPT !.rows = t]
<1>1. WorkOK(work[w]) /\ work[w].gen \in Nat /\ RowsOK(s, work[w].gen) /\ Len(s) \in Nat /\ IsSeq(s)
  BY Facts DEF RowsOK
<1>2. RowShape(row, work[w].gen) /\ row.id = c /\ row.host /\ row.status = "running"
  BY Facts DEF NewRow, RowShape
<1>3. \A i \in 1..Len(s) : s[i].id # c
  BY NotTaken DEF HostStarts
<1>4. work' = [work EXCEPT ![w] = y] /\ product' = product /\ runner' = runner /\ limits' = limits /\ journal' = journal
  BY DEF HostStarts, aside
<1>5. /\ DOMAIN y = DOMAIN work[w] /\ y.status = work[w].status /\ y.gen = work[w].gen
      /\ y.contract = work[w].contract /\ y.rows = t /\ y.evidence = work[w].evidence
      /\ y.bound = work[w].bound /\ y.repair = work[w].repair
  BY <1>1 DEF WorkOK
<1> HIDE DEF row
<1>6. Widened(s, t, Len(s) + 1, row)
  BY <1>1, Appended DEF Widened
<1> HIDE DEF t, y
<1>7. RowsOK(t, work[w].gen)
  BY <1>1, <1>2, <1>3, <1>6, WidenedOK
<1>8. NoLate(s, t)
  BY <1>1, <1>2, <1>6, Unchanging, WidenedNoLate
<1>9. Calm(work[w], y)
  BY <1>1, <1>5, <1>7, <1>8, RowsCalm
<1>10. Later(work[w], y)
  BY <1>1, <1>5, <1>6, WidenedRuns DEF Later
<1>11. DOMAIN work' = Works /\ work'[w] = y /\ \A v \in Works \ {w} : work'[v] = work[v]
  BY <1>4, Facts
<1>12. \A v \in Works : Calm(work[v], work'[v]) /\ work'[v].bound = work[v].bound
  BY <1>5, <1>9, <1>11, OneMoves
<1>13. RunnersOK'
  BY <1>4, <1>10, <1>11, OneLater, RunnersStay, RunnerStill
<1> QED
  BY <1>4, <1>11, <1>12, <1>13, CalmStep, Facts

(* Work y is Work x, with row i ended as b.                                *)
EndsRow(x, i, b, y) ==
    /\ i \in 1..Len(x.rows) /\ Ended(x.rows[i], b) /\ y.rows = [x.rows EXCEPT ![i] = b]
    /\ DOMAIN y = DOMAIN x /\ y.status = x.status /\ y.gen \in Nat /\ y.gen >= x.gen
    /\ y.contract = x.contract /\ y.evidence = x.evidence /\ y.bound = x.bound /\ y.repair = x.repair

(* t is s with b at place i.                                               *)
Replaced(s, t, i, b) == t[i] = b /\ \A j \in 1..Len(s) : j # i => t[j] = s[j]

(* A step that ends one row of one Work is calm.                           *)
LEMMA EndsStep ==
    ASSUME IInv, NEW w \in Works, DOMAIN work' = Works, \A v \in Works \ {w} : work'[v] = work[v],
           NEW i, NEW b, EndsRow(work[w], i, b, work'[w])
    PROVE  /\ \A v \in Works : Calm(work[v], work'[v]) /\ work'[v].bound = work[v].bound
           /\ Marked(work[w].rows, work'[w].rows)
           /\ Replaced(work[w].rows, work'[w].rows, i, b)
<1> DEFINE s == work[w].rows
           y == work'[w]
           t == y.rows
<1>1. WorkOK(work[w]) /\ work[w].gen \in Nat /\ RowsOK(s, work[w].gen) /\ Len(s) \in Nat /\ IsSeq(s)
  BY Facts DEF RowsOK
<1>2. i \in 1..Len(s) /\ Ended(s[i], b) /\ t = [s EXCEPT ![i] = b]
  BY DEF EndsRow
<1>3. /\ DOMAIN y = DOMAIN work[w] /\ y.status = work[w].status /\ y.gen \in Nat /\ y.gen >= work[w].gen
      /\ y.contract = work[w].contract /\ y.evidence = work[w].evidence /\ y.bound = work[w].bound /\ y.repair = work[w].repair
  BY DEF EndsRow
<1> HIDE DEF t
<1>4. IsSeq(t) /\ Len(t) = Len(s) /\ t[i] = b /\ \A j \in 1..Len(s) : j # i => t[j] = s[j]
  BY <1>1, <1>2, Updated
<1>5. Marked(s, t)
  BY <1>2, <1>4 DEF Marked
<1>6. RowsOK(t, y.gen) /\ NoLate(s, t)
  BY <1>1, <1>3, <1>5, MarkedOK, MarkedNoLate
<1>7. Calm(work[w], y)
  BY <1>1, <1>3, <1>6, RowsCalm DEF t
<1>8. \A v \in Works : Calm(work[v], work'[v]) /\ work'[v].bound = work[v].bound
  BY <1>3, <1>7, OneMoves
<1> QED
  BY <1>4, <1>5, <1>8 DEF t, Replaced

(* The end of a call of the host: an execution has no row of that          *)
(* identity.                                                               *)
LEMMA HostEndsStep ==
    ASSUME IInv, NEW w \in Works, NEW c \in Calls, NEW exit, NEW whole, NEW n, HostEnds(w, c, exit, whole, n) PROVE Goal
<1> DEFINE s == work[w].rows
           i == Row(w, c)
<1>1. WorkOK(work[w]) /\ work[w].gen \in Nat /\ RowsOK(s, work[w].gen) /\ Len(s) \in Nat
  BY Facts
<1>2. i \in 1..Len(s) /\ s[i].id = c /\ s[i].status = "running"
  <2>1. PICK j \in 1..Len(s) : s[j].id = c
    BY DEF HostEnds
  <2>2. Row(w, c) = j
    BY <1>1, <2>1, RowIs
  <2>3. s[Row(w, c)].status = "running"
    BY DEF HostEnds
  <2> QED
    BY <2>1, <2>2, <2>3
<1>3. PICK to, refs : /\ work' = [work EXCEPT ![w].rows[Row(w, c)] = [@ EXCEPT !.status = to, !.refs = refs]]
                      /\ to \in Final
  <2> DEFINE valid == s[i].gen = work[w].gen /\ s[i].on = MaterialOf(w)
             writes == whole /\ valid /\ file[c] = Nothing
             to == IF ~whole THEN "unavailable" ELSE IF ~valid THEN "stale"
                   ELSE IF file[c] # Nothing THEN "unavailable"
                   ELSE IF exit = 0 /\ n # "bad" THEN "passed" ELSE "failed"
             refs == IF writes THEN {[path |-> c, was |-> Output(n)]} ELSE s[i].refs
  <2>1. work' = [work EXCEPT ![w].rows[Row(w, c)] = [@ EXCEPT !.status = to, !.refs = refs]]
    BY DEF HostEnds
  <2>2. to \in Final
    BY DEF Final
  <2> QED
    BY <2>1, <2>2
<1> DEFINE b == [s[i] EXCEPT !.status = to, !.refs = refs]
<1> DEFINE y == [work[w] EXCEPT !.rows = [s EXCEPT ![i] = b]]
<1>4. work' = [work EXCEPT ![w] = y] /\ product' = product /\ runner' = runner /\ limits' = limits /\ journal' = journal
  BY <1>3 DEF HostEnds, aside
<1> HIDE DEF i
<1>5. Ended(s[i], b) /\ b.host
  <2>1. RowShape(s[i], work[w].gen)
    BY <1>1, <1>2 DEF RowsOK
  <2>2. s[i].host
    BY <1>2, <2>1, NativeAssumption DEF RowShape
  <2> QED
    BY <1>2, <1>3, <2>1, <2>2 DEF RowShape, Ended
<1> HIDE DEF b
<1>6. /\ DOMAIN y = DOMAIN work[w] /\ y.status = work[w].status /\ y.gen = work[w].gen
      /\ y.contract = work[w].contract /\ y.evidence = work[w].evidence
      /\ y.bound = work[w].bound /\ y.repair = work[w].repair /\ y.rows = [s EXCEPT ![i] = b]
  BY <1>1 DEF WorkOK
<1> HIDE DEF y
<1>12. DOMAIN work' = Works /\ work'[w] = y /\ \A v \in Works \ {w} : work'[v] = work[v]
  BY <1>4, Facts
<1>11. EndsRow(work[w], i, b, work'[w])
  BY <1>1, <1>2, <1>5, <1>6, <1>12 DEF EndsRow
<1>7. /\ \A v \in Works : Calm(work[v], work'[v]) /\ work'[v].bound = work[v].bound
      /\ Marked(s, work'[w].rows) /\ Replaced(s, work'[w].rows, i, b)
  BY <1>11, <1>12, EndsStep
<1>8. \A j \in 1..Len(s) : ~s[j].host => y.rows[j] = s[j]
  BY <1>2, <1>5, <1>7, <1>12 DEF Ended, Replaced
<1>9. Later(work[w], y)
  BY <1>1, <1>6, <1>7, <1>8, <1>12, MarkedRuns DEF Later
<1>10. RunnersOK'
  BY <1>4, <1>9, <1>12, OneLater, RunnersStay, RunnerStill
<1> QED
  BY <1>4, <1>7, <1>10, <1>12, CalmStep, Facts

(* runtime abandon: the new generation gives the abandoned execution up.   *)
LEMMA AbandonRunStep == ASSUME IInv, NEW w \in Works, AbandonRun(w) PROVE Goal
<1> DEFINE s == work[w].rows
           i == Row(w, LastExecution(w).id)
<1>1. WorkOK(work[w]) /\ work[w].gen \in Nat /\ RowsOK(s, work[w].gen) /\ Len(s) \in Nat
  BY Facts
<1>2. i \in 1..Len(s) /\ RowShape(s[i], work[w].gen)
  <2>1. PICK j \in 1..Len(s) : LastExecution(w) = s[j]
    BY LastIs DEF AbandonRun
  <2>2. Row(w, LastExecution(w).id) = j
    BY <1>1, <2>1, RowIs
  <2> QED
    BY <1>1, <2>1, <2>2 DEF RowsOK
<1> DEFINE b == [s[i] EXCEPT !.status = "abandoned"]
           y == [work[w] EXCEPT !.rows = [s EXCEPT ![i] = b], !.gen = @ + 1]
<1>3. work' = [work EXCEPT ![w] = y] /\ product' = product /\ runner' = runner /\ limits' = limits /\ journal' = journal
  BY <1>1 DEF AbandonRun, aside, WorkOK
<1> HIDE DEF i
<1>4. Ended(s[i], b) /\ b.status = "abandoned" /\ b.gen < work[w].gen + 1
  BY <1>1, <1>2 DEF RowShape, Ended, Final
<1> HIDE DEF b
<1>5. /\ DOMAIN y = DOMAIN work[w] /\ y.status = work[w].status /\ y.gen = work[w].gen + 1
      /\ y.contract = work[w].contract /\ y.evidence = work[w].evidence
      /\ y.bound = work[w].bound /\ y.repair = work[w].repair /\ y.rows = [s EXCEPT ![i] = b]
  BY <1>1 DEF WorkOK
<1> HIDE DEF y
<1>6. y.gen \in Nat /\ y.gen >= work[w].gen
  BY <1>1, <1>5
<1>12. DOMAIN work' = Works /\ work'[w] = y /\ \A v \in Works \ {w} : work'[v] = work[v]
  BY <1>3, Facts
<1>11. EndsRow(work[w], i, b, work'[w])
  BY <1>2, <1>4, <1>5, <1>6, <1>12 DEF EndsRow
<1>7. /\ \A v \in Works : Calm(work[v], work'[v]) /\ work'[v].bound = work[v].bound
      /\ Marked(s, work'[w].rows) /\ Replaced(s, work'[w].rows, i, b)
  BY <1>11, <1>12, EndsStep
<1>8. GivenUp(y.rows, i, y.gen)
  BY <1>4, <1>5, <1>7, <1>12 DEF GivenUp, Replaced
<1>13. \A j \in 1..Len(s) : y.rows[j] = s[j] \/ GivenUp(y.rows, j, y.gen)
  BY <1>7, <1>8, <1>12 DEF Replaced
<1>9. Later(work[w], y)
  BY <1>1, <1>6, <1>7, <1>12, <1>13, MarkedRuns DEF Later
<1>10. RunnersOK'
  BY <1>3, <1>9, <1>12, OneLater, RunnersStay, RunnerStill
<1> QED
  BY <1>3, <1>7, <1>10, <1>12, CalmStep, Facts

(* Runners stay in order when one of them goes, or comes with an identity  *)
(* of its own.                                                             *)
LEMMA RunnersKept ==
    ASSUME IInv, NEW p \in Processes, DOMAIN runner' = Processes, \A q \in Processes \ {p} : runner'[q] = runner[q],
           \A q \in Processes \ {p} : Executing(runner[q]) =>
               HasRow(runner[q], work'[runner[q].work].rows, work'[runner[q].work].gen),
           \/ runner'[p] = Nothing
           \/ /\ DOMAIN runner'[p] = {"work", "id", "stage"} /\ runner'[p].work \in Works /\ runner'[p].stage = "admitted"
              /\ HasRow(runner'[p], work'[runner'[p].work].rows, work'[runner'[p].work].gen)
              /\ \A q \in Processes \ {p} : Executing(runner[q]) => runner[q].id # runner'[p].id
    PROVE  RunnersOK'
<1>1. /\ \A q \in Processes : runner[q] # Nothing =>
             DOMAIN runner[q] = {"work", "id", "stage"} /\ runner[q].work \in Works /\ runner[q].stage \in {"admitted", "owning", "closing"}
      /\ \A q, r \in Processes : Executing(runner[q]) /\ Executing(runner[r]) /\ runner[q].id = runner[r].id => q = r
  BY DEF IInv, RunnersOK
<1>2. ASSUME NEW q \in Processes, runner'[q] # Nothing
      PROVE  DOMAIN runner'[q] = {"work", "id", "stage"} /\ runner'[q].work \in Works /\ runner'[q].stage \in {"admitted", "owning", "closing"}
  BY <1>1, <1>2
<1>3. ASSUME NEW q \in Processes, Executing(runner'[q])
      PROVE  HasRow(runner'[q], work'[runner'[q].work].rows, work'[runner'[q].work].gen)
  BY <1>3 DEF Executing
<1>4. ASSUME NEW q \in Processes, NEW r \in Processes, Executing(runner'[q]), Executing(runner'[r]), runner'[q].id = runner'[r].id
      PROVE  q = r
  BY <1>1, <1>4 DEF Executing
<1> QED
  BY <1>2, <1>3, <1>4 DEF RunnersOK

(* What the invariant says of an execution: its row, and that its identity *)
(* is its own.                                                             *)
LEMMA RunnerHas ==
    ASSUME IInv, NEW p \in Processes, Executing(runner[p])
    PROVE  /\ runner[p].work \in Works /\ HasRow(runner[p], work[runner[p].work].rows, work[runner[p].work].gen)
           /\ runner[p].id \in Taken
           /\ \A q \in Processes \ {p} : Executing(runner[q]) => runner[q].id # runner[p].id
<1>1. runner[p].work \in Works /\ HasRow(runner[p], work[runner[p].work].rows, work[runner[p].work].gen)
  BY DEF IInv, RunnersOK, Executing
<1>2. runner[p].id \in Taken
  BY <1>1 DEF HasRow, Taken
<1>3. \A q \in Processes \ {p} : Executing(runner[q]) => runner[q].id # runner[p].id
  BY DEF IInv, RunnersOK
<1> QED
  BY <1>1, <1>2, <1>3

(* After the retry no execution of the Work is without a result: the last  *)
(* one, if it was, is what is retried.                                     *)
LEMMA RetryEnds ==
    ASSUME IInv, NEW w \in Works, NEW retry, MayRetry(w, retry), NEW i \in 1..Len(work[w].rows), ~work[w].rows[i].host
    PROVE  Abandon(w, retry)[i].status # "running"
<1> DEFINE s == work[w].rows
<1>1. RowsOK(s, work[w].gen) /\ Len(s) \in Nat
  BY Facts
<1>2. \/ Abandon(w, retry)[i] = s[i] /\ ~(s[i].id = retry /\ s[i].status = "running")
      \/ Abandon(w, retry)[i].status = "abandoned"
  BY AbandonMarks
<1>3. SUFFICES ASSUME s[i].status = "running" PROVE s[i].id = retry
  BY <1>2
<1>4. i \in Executions(w)
  BY DEF Executions
<1>5. PICK m \in 1..Len(s) : LastExecution(w) = s[m] /\ ~s[m].host /\ \A j \in 1..Len(s) : ~s[j].host => j <= m
  BY <1>4, LastIs
<1>6. i = m
  BY <1>1, <1>3, <1>5 DEF RowsOK
<1> QED
  BY <1>3, <1>4, <1>5, <1>6 DEF MayRetry

(* Admission. It is here that a run whose process may still be alive is    *)
(* given up, and that the order of the rows matters.                       *)
LEMMA AdmitStep ==
    ASSUME IInv, NEW p \in Processes, NEW w \in Works, NEW id \in Runs, NEW retry, NEW same \in BOOLEAN,
           NEW reads, Admit(p, w, id, retry, same, reads)
    PROVE  Goal
<1> DEFINE s == work[w].rows
           u == Abandon(w, retry)
           row == NewRow(w, id, FALSE, reads)
           k == IF same THEN Len(u) ELSE Len(u) + 1
           t == Placed(u, row, same)
           y == [work[w] EXCEPT !.rows = t, !.deps = @ \cup reads]
<1>1. WorkOK(work[w]) /\ work[w].gen \in Nat /\ RowsOK(s, work[w].gen) /\ Len(s) \in Nat /\ IsSeq(s)
  BY Facts DEF RowsOK
<1>2. RowShape(row, work[w].gen) /\ row.id = id /\ row.host = FALSE /\ row.status = "running"
  BY Facts DEF NewRow, RowShape
<1>3. id \notin Taken /\ \A i \in 1..Len(s) : s[i].id # id
  BY NotTaken DEF Admit
<1>4. work' = [work EXCEPT ![w] = y] /\ product' = product /\ limits' = limits /\ journal' = journal
  BY DEF Admit, aside
<1>5. /\ DOMAIN y = DOMAIN work[w] /\ y.status = work[w].status /\ y.gen = work[w].gen
      /\ y.contract = work[w].contract /\ y.rows = t /\ y.evidence = work[w].evidence
      /\ y.bound = work[w].bound /\ y.repair = work[w].repair
  BY <1>1 DEF WorkOK
<1>6. same => s # <<>> /\ Last(s).host
  BY DEF Admit
<1>7. Marked(s, u) /\ \A i \in 1..Len(s) : u[i] = s[i] \/ u[i].status = "abandoned"
  BY AbandonMarks
<1>8. \A i \in 1..Len(s) : ~s[i].host => u[i].status # "running"
  BY RetryEnds DEF Admit
<1> HIDE DEF row, u
<1>9. IsSeq(u) /\ Len(u) = Len(s)
  BY <1>7 DEF Marked
<1>10. same => u # <<>>
  BY <1>1, <1>6, <1>9 DEF IsSeq
<1>11. Widened(u, t, k, row)
  BY <1>9, <1>10, PlacedAt
<1> HIDE DEF t, y
<1>12. \A i \in 1..Len(s) : u[i].id = s[i].id /\ u[i].host = s[i].host
  BY <1>7 DEF Marked, Ended
<1>13. \A i \in 1..Len(s) : i >= k => s[i].host
  BY <1>1, <1>6, <1>9 DEF Last
<1>14. k \in 1..(Len(s) + 1)
  BY <1>9, <1>11 DEF Widened
<1> HIDE DEF k
<1>15. RowsOK(u, work[w].gen)
  BY <1>1, <1>7, MarkedOK
<1>16. RowsOK(t, work[w].gen)
  BY <1>1, <1>2, <1>3, <1>8, <1>9, <1>11, <1>12, <1>13, <1>15, WidenedOK
<1>17. NoLate(s, t)
  BY <1>1, <1>2, <1>7, <1>11, WidenedNoLate
<1>18. Calm(work[w], y)
  BY <1>1, <1>5, <1>16, <1>17, RowsCalm
<1>19. \A i \in 1..Len(s) : ~s[i].host => i < k
  BY <1>1, <1>13, <1>14
<1>20. Later(work[w], y)
  BY <1>1, <1>2, <1>5, <1>7, <1>11, <1>19, AdmittedRuns DEF Later
<1>21. DOMAIN work' = Works /\ work'[w] = y /\ \A v \in Works \ {w} : work'[v] = work[v]
  BY <1>4, Facts
<1>22. \A v \in Works : Calm(work[v], work'[v]) /\ work'[v].bound = work[v].bound
  BY <1>5, <1>18, <1>21, OneMoves
<1>23. \A v \in Works : Later(work[v], work'[v])
  BY <1>20, <1>21, OneLater
<1>24. RunnersOK'
  <2> DEFINE r == [work |-> w, id |-> id, stage |-> "admitted"]
  <2>1. DOMAIN runner' = Processes /\ runner'[p] = r /\ \A q \in Processes \ {p} : runner'[q] = runner[q]
    BY Facts DEF Admit
  <2>2. ASSUME NEW q \in Processes, Executing(runner[q])
        PROVE  HasRow(runner[q], work'[runner[q].work].rows, work'[runner[q].work].gen) /\ runner[q].id # id
    <3>1. runner[q].work \in Works /\ HasRow(runner[q], work[runner[q].work].rows, work[runner[q].work].gen) /\ runner[q].id \in Taken
      BY <2>2, RunnerHas
    <3> QED
      BY <1>3, <1>23, <3>1 DEF Later
  <2>3. k \in 1..Len(t) /\ t[k] = row
    BY <1>1, <1>9, <1>11, WidenedPlaces
  <2>4. HasRow(r, work'[w].rows, work'[w].gen)
    BY <1>2, <1>5, <1>21, <2>3 DEF HasRow
  <2>5. DOMAIN r = {"work", "id", "stage"} /\ r.work = w /\ r.id = id /\ r.stage = "admitted"
    OBVIOUS
  <2> HIDE DEF r
  <2> QED
    BY <2>1, <2>2, <2>4, <2>5, RunnersKept
<1> QED
  BY <1>4, <1>21, <1>22, <1>24, CalmStep, Facts

(* An execution that was given up is not valid any more: StillValid asks   *)
(* for the last execution, and for the generation.                         *)
LEMMA GivenUpIsInvalid ==
    ASSUME IInv, NEW w \in Works, NEW i \in 1..Len(work[w].rows), ~work[w].rows[i].host,
           GivenUp(work[w].rows, i, work[w].gen)
    PROVE  ~StillValid(w, work[w].rows[i].id)
<1> DEFINE s == work[w].rows
<1>1. RowsOK(s, work[w].gen) /\ work[w].gen \in Nat /\ Len(s) \in Nat /\ s[i].gen \in Nat
  BY Facts DEF RowsOK, RowShape
<1>2. Row(w, s[i].id) = i
  BY <1>1, RowIs
<1>3. CASE s[i].gen < work[w].gen
  BY <1>1, <1>2, <1>3 DEF StillValid
<1>4. CASE \E j \in 1..Len(s) : j > i /\ ~s[j].host
  <2>1. PICK j \in 1..Len(s) : j > i /\ ~s[j].host
    BY <1>4
  <2>2. Executions(w) # {}
    BY <2>1 DEF Executions
  <2>3. PICK m \in 1..Len(s) : LastExecution(w) = s[m] /\ \A n \in 1..Len(s) : ~s[n].host => n <= m
    BY <2>2, LastIs
  <2>4. m # i
    BY <1>1, <2>1, <2>3
  <2>5. LastExecution(w).id # s[i].id
    BY <1>1, <2>3, <2>4 DEF RowsOK
  <2> QED
    BY <2>5 DEF StillValid
<1> QED
  BY <1>3, <1>4 DEF GivenUp

(* The end of an execution. One that was given up ends as stale, however   *)
(* late it comes.                                                          *)
LEMMA FinishStep ==
    ASSUME IInv, NEW p \in Processes, NEW exit, NEW n, NEW dies, Finish(p, exit, n, dies) PROVE Goal
<1> DEFINE w == runner[p].work
           id == runner[p].id
           s == work[w].rows
           i == Row(w, id)
<1>1. runner[p] # Nothing /\ runner[p].stage = "owning" /\ Executing(runner[p])
  BY DEF Finish, Executing
<1>2. w \in Works /\ HasRow(runner[p], s, work[w].gen) /\ \A q \in Processes \ {p} : Executing(runner[q]) => runner[q].id # id
  BY <1>1, RunnerHas
<1>3. WorkOK(work[w]) /\ work[w].gen \in Nat /\ RowsOK(s, work[w].gen) /\ Len(s) \in Nat
  BY <1>2, Facts
<1>4. i \in 1..Len(s) /\ s[i].id = id /\ ~s[i].host /\ (s[i].status = "running" \/ GivenUp(s, i, work[w].gen))
  <2>1. PICK j \in 1..Len(s) : s[j].id = id /\ ~s[j].host /\ (s[j].status = "running" \/ GivenUp(s, j, work[w].gen))
    BY <1>2 DEF HasRow
  <2>2. i = j
    BY <1>3, <2>1, RowIs
  <2> QED
    BY <2>1, <2>2
<1>5. product' = product /\ limits' = limits /\ journal' = journal /\ runner' = [runner EXCEPT ![p] = Nothing]
  BY DEF Finish, aside
<1>6. DOMAIN runner' = Processes /\ runner'[p] = Nothing /\ \A q \in Processes \ {p} : runner'[q] = runner[q]
  BY <1>5, Facts
<1>7. CASE dies
  <2>1. work' = work
    BY <1>7 DEF Finish
  <2>2. \A q \in Processes : RunnerNext(runner[q], runner'[q])
    BY <1>6 DEF RunnerNext
  <2> QED
    BY <1>5, <1>6, <2>1, <2>2, NoWorkMoves, Facts
<1>8. CASE ~dies
  <2>1. PICK to, refs, failure :
            /\ work' = [work EXCEPT ![w].rows[i] = [@ EXCEPT !.status = to, !.refs = refs], ![w].failure = failure]
            /\ to \in Final /\ (to = "passed" => StillValid(w, id))
    <3> DEFINE prints == StillValid(w, id) /\ exit = 0
               passes == prints /\ n # "bad"
               to == IF passes THEN "passed" ELSE IF StillValid(w, id) THEN "failed" ELSE "stale"
               refs == IF passes THEN {[path |-> "log", was |-> Output(n)]} ELSE work[w].rows[i].refs
    <3>1. work' = [work EXCEPT ![w].rows[i] = [@ EXCEPT !.status = to, !.refs = refs],
                               ![w].failure = IF passes THEN Nothing ELSE @]
      BY <1>8 DEF Finish
    <3>2. work' = [work EXCEPT ![w].rows[i] = [@ EXCEPT !.status = to, !.refs = refs],
                               ![w].failure = IF passes THEN Nothing ELSE work[w].failure]
      BY <1>2, <1>3, <3>1, Facts DEF WorkOK
    <3>3. to \in Final /\ (to = "passed" => StillValid(w, id))
      BY DEF Final
    <3> HIDE DEF prints, passes, to, refs
    <3> QED
      BY <3>2, <3>3
  <2>2. to = "passed" => s[i].status = "running"
    BY <1>2, <1>4, <2>1, GivenUpIsInvalid
  <2> DEFINE b == [s[i] EXCEPT !.status = to, !.refs = refs]
             y == [work[w] EXCEPT !.rows = [s EXCEPT ![i] = b], !.failure = failure]
  <2>3. work' = [work EXCEPT ![w] = y]
    BY <1>2, <1>3, <2>1, Facts DEF WorkOK
  <2> HIDE DEF i
  <2>4. Ended(s[i], b) /\ ~b.host /\ b.id = id
    <3>1. RowShape(s[i], work[w].gen)
      BY <1>3, <1>4 DEF RowsOK
    <3> QED
      BY <1>4, <2>1, <2>2, <3>1 DEF RowShape, Ended
  <2> HIDE DEF b
  <2>5. /\ DOMAIN y = DOMAIN work[w] /\ y.status = work[w].status /\ y.gen = work[w].gen
        /\ y.contract = work[w].contract /\ y.evidence = work[w].evidence
        /\ y.bound = work[w].bound /\ y.repair = work[w].repair /\ y.rows = [s EXCEPT ![i] = b]
    BY <1>3 DEF WorkOK
  <2> HIDE DEF y
  <2>6. DOMAIN work' = Works /\ work'[w] = y /\ \A v \in Works \ {w} : work'[v] = work[v]
    BY <1>2, <2>3, Facts
  <2> HIDE DEF w
  <2>7. EndsRow(work[w], i, b, work'[w])
    BY <1>3, <1>4, <2>4, <2>5, <2>6 DEF EndsRow
  <2>8. /\ \A v \in Works : Calm(work[v], work'[v]) /\ work'[v].bound = work[v].bound
        /\ Marked(s, work'[w].rows) /\ Replaced(s, work'[w].rows, i, b)
    BY <1>2, <2>6, <2>7, EndsStep
  <2>9. ASSUME NEW q \in Processes \ {p}, Executing(runner[q])
        PROVE  HasRow(runner[q], work'[runner[q].work].rows, work'[runner[q].work].gen)
    <3>1. runner[q].work \in Works /\ HasRow(runner[q], work[runner[q].work].rows, work[runner[q].work].gen) /\ runner[q].id # id
      BY <1>2, <2>9, RunnerHas
    <3>2. CASE runner[q].work # w
      BY <2>6, <3>1, <3>2
    <3>3. CASE runner[q].work = w
      <4>1. \A j \in 1..Len(s) : s[j].id = runner[q].id => work'[w].rows[j] = s[j]
        BY <1>4, <2>8, <3>1 DEF Replaced
      <4> DEFINE t == work'[w].rows
                 r == runner[q]
                 g == work[w].gen
      <4>2. work'[w].gen = g
        BY <2>5, <2>6
      <4>3. g \in Nat /\ RowsOK(s, g) /\ Marked(s, t) /\ HasRow(r, s, g) /\ \A j \in 1..Len(s) : s[j].id = r.id => t[j] = s[j]
        BY <1>3, <2>8, <3>1, <3>3, <4>1
      <4> HIDE DEF t, r, g, s
      <4>4. HasRow(r, t, g)
        BY <4>3, MarkedRuns
      <4> QED
        BY <3>3, <4>2, <4>4 DEF t, r
    <3> QED
      BY <3>2, <3>3
  <2>10. RunnersOK'
    BY <1>6, <2>9, RunnersKept
  <2> QED
    BY <1>5, <2>6, <2>8, <2>10, CalmStep, Facts
<1> QED
  BY <1>7, <1>8

(* A step of one Work, with what has to be shown of it.                    *)
LEMMA OneStep ==
    ASSUME IInv, NEW w \in Works, DOMAIN work' = Works, \A v \in Works \ {w} : work'[v] = work[v],
           WorkOK(work'[w]), Steps(w), limits' = limits, ProductOK(product'),
           DOMAIN journal' = Works, \A v \in Works : JournalOK(journal'[v]), OneClaimPerResult', RunnersOK'
    PROVE  Goal
<1>1. \A v \in Works \ {w} : WorkOK(work'[v]) /\ Steps(v)
  <2> SUFFICES ASSUME NEW v \in Works \ {w} PROVE WorkOK(work'[v]) /\ Steps(v)
    OBVIOUS
  <2>1. WorkOK(work[v]) /\ work[v].gen \in Nat /\ work[v].status \in {"active", "suspended", "completed"} /\ work'[v] = work[v]
    BY Facts DEF WorkOK
  <2>2. Calm(work[v], work'[v])
    BY <2>1, Still
  <2> QED
    BY <2>1, <2>2, CalmSteps
<1>2. limits' \in Limits
  BY Facts
<1> QED
  BY <1>1, <1>2 DEF Goal, IInv

(* Attaching evidence.                                                     *)
LEMMA AttachStep ==
    ASSUME IInv, NEW w \in Works, NEW p \in Paths, NEW old \in BOOLEAN, NEW supersedes, Attach(w, p, old, supersedes)
    PROVE  Goal
<1>1. PICK e : work' = [work EXCEPT ![w].evidence = Append(@, e)]
  BY DEF Attach
<1> DEFINE t == Append(work[w].evidence, e)
           y == [work[w] EXCEPT !.evidence = t]
<1>2. WorkOK(work[w]) /\ IsSeq(work[w].evidence) /\ work[w].gen \in Nat /\ RowsOK(work[w].rows, work[w].gen)
  BY Facts DEF WorkOK
<1>3. work' = [work EXCEPT ![w] = y] /\ product' = product /\ runner' = runner /\ limits' = limits /\ journal' = journal
  BY <1>1 DEF Attach, aside
<1>4. /\ DOMAIN y = DOMAIN work[w] /\ y.status = work[w].status /\ y.gen = work[w].gen
      /\ y.contract = work[w].contract /\ y.rows = work[w].rows /\ y.evidence = t
      /\ y.bound = work[w].bound /\ y.repair = work[w].repair
  BY <1>2 DEF WorkOK
<1>5. IsSeq(t) /\ Len(t) = Len(work[w].evidence) + 1 /\ Len(work[w].evidence) \in Nat
  BY <1>2, Appended, SeqFacts
<1> HIDE DEF t, y
<1>6. WorkOK(y)
  BY <1>2, <1>4, <1>5 DEF WorkOK
<1>7. Calm(work[w], y)
  BY <1>2, <1>4, <1>6, Unchanging DEF Calm
<1>8. Later(work[w], y)
  BY <1>4 DEF Later
<1>9. DOMAIN work' = Works /\ work'[w] = y /\ \A v \in Works \ {w} : work'[v] = work[v]
  BY <1>3, Facts
<1>10. \A v \in Works : Calm(work[v], work'[v]) /\ work'[v].bound = work[v].bound
  BY <1>4, <1>7, <1>9, OneMoves
<1>11. RunnersOK'
  BY <1>3, <1>8, <1>9, OneLater, RunnersStay, RunnerStill
<1> QED
  BY <1>3, <1>9, <1>10, <1>11, CalmStep, Facts

(* A bind chooses from the attached evidence.                              *)
LEMMA ChosenIsAttached ==
    ASSUME IInv, NEW w \in Works, NEW refs, NEW ids, ids \subseteq Attached(w)
    PROVE  Chosen(w, refs, ids) \subseteq Attached(w)
<1> DEFINE matching(r) == {i \in Attached(w) : /\ work[w].evidence[i].path = r.path
                                               /\ work[w].evidence[i].was = r.was
                                               /\ work[w].evidence[i].on = InputsOf(w)}
<1>1. Len(work[w].evidence) \in Nat
  BY Facts, SeqFacts DEF WorkOK
<1>2. \A r : matching(r) \subseteq Attached(w)
  OBVIOUS
<1>3. Chosen(w, refs, ids) = IF ids # {} THEN ids ELSE {Max(matching(r)) : r \in {r \in refs : matching(r) # {}}}
  BY DEF Chosen
<1> HIDE DEF matching
<1>4. ASSUME NEW r, matching(r) # {} PROVE Max(matching(r)) \in Attached(w)
  <2>1. matching(r) \in SUBSET (0..Len(work[w].evidence))
    BY <1>1, <1>2 DEF Attached
  <2>2. Max(matching(r)) \in matching(r)
    BY <1>1, <1>4, <2>1, Greatest
  <2> QED
    BY <1>2, <2>2
<1> QED
  BY <1>3, <1>4

(* A result that ReceiptMatches accepts is of a row that passed on this    *)
(* material, and from no time before a repair.                             *)
LEMMA Received ==
    ASSUME IInv, NEW w \in Works, NEW refs, NEW binding, ReceiptMatches(w, refs, binding), NEW r \in refs
    PROVE  \E i \in 1..Len(work[w].rows) :
               LET row == work[w].rows[i] IN
               row.status = "passed" /\ row.on = MaterialOf(w) /\ r \in row.refs /\ row.id \notin Before(w)
<1> DEFINE counts == Counts(w, refs, binding)
<1>1. PICK i \in counts : (\A j \in counts : j >= i => work[w].rows[j].status = "passed") /\ r \in work[w].rows[i].refs
  BY DEF ReceiptMatches
<1>2. i \in 1..Len(work[w].rows) /\ work[w].rows[i].on = MaterialOf(w) /\ work[w].rows[i].id \notin Before(w)
  BY DEF Counts
<1> HIDE DEF counts
<1>3. work[w].rows[i].status = "passed"
  BY <1>1, <1>2, Facts
<1> QED
  BY <1>1, <1>2, <1>3

(* A bind. It is here that a repair ends, and that a result could be       *)
(* claimed twice.                                                          *)
LEMMA BindStep == ASSUME IInv, NEW w \in Works, NEW req, Bind(w, req) PROVE Goal
<1> DEFINE refs == {Ref(p) : p \in Considered(w, req)}
           bound == [on |-> MaterialOf(w), refs |-> refs, gates |-> req.gates, ids |-> Chosen(w, refs, req.ids)]
           rep == IF Repairing(w) THEN Nothing ELSE work[w].repair
           y == [work[w] EXCEPT !.bound = bound, !.failure = Nothing, !.repair = rep]
<1>1. WorkOK(work[w]) /\ work[w].gen \in Nat /\ RowsOK(work[w].rows, work[w].gen)
  BY Facts
<1>2. work' = [work EXCEPT ![w] = y] /\ product' = product /\ runner' = runner /\ limits' = limits /\ journal' = journal
  BY <1>1, Facts DEF Bind, aside, WorkOK
<1>3. ~Claimed(w, refs) /\ Fresh(w, refs) /\ req.ids \subseteq Attached(w)
  BY DEF Bind, Usable, Admissible
<1>4. bound.ids \subseteq 1..Len(work[w].evidence) /\ bound.refs = refs
  BY <1>3, ChosenIsAttached DEF Attached
<1> HIDE DEF bound
<1>5. /\ DOMAIN y = DOMAIN work[w] /\ y.status = work[w].status /\ y.gen = work[w].gen
      /\ y.contract = work[w].contract /\ y.rows = work[w].rows /\ y.evidence = work[w].evidence
      /\ y.bound = bound /\ y.repair = rep
  BY <1>1 DEF WorkOK
<1> HIDE DEF y, refs, rep
<1>6. WorkOK(y)
  BY <1>1, <1>4, <1>5 DEF WorkOK
<1>7. DOMAIN work' = Works /\ work'[w] = y /\ \A v \in Works \ {w} : work'[v] = work[v]
  BY <1>2, Facts
<1>8. Later(work[w], y)
  BY <1>5 DEF Later
<1>9. RunnersOK'
  BY <1>2, <1>7, <1>8, OneLater, RunnersStay, RunnerStill
<1>10. OneClaimPerResult'
  <2>1. \A u, v \in Works : u # v /\ work[u].bound # Nothing /\ work[v].bound # Nothing => work[u].bound.refs \cap work[v].bound.refs = {}
    BY DEF IInv, OneClaimPerResult
  <2>2. \A v \in Works \ {w} : work[v].bound # Nothing => refs \cap work[v].bound.refs = {}
    BY <1>3 DEF Claimed
  <2>3. work'[w].bound.refs = refs
    BY <1>4, <1>5, <1>7
  <2> QED
    BY <1>7, <2>1, <2>2, <2>3 DEF OneClaimPerResult
<1>11. ClosesOnEvidence(w)
  BY <1>5, <1>7 DEF ClosesOnEvidence
<1>12. NeverPassesLate(w)
  BY <1>1, <1>5, <1>7, Unchanging DEF NeverPassesLate, NoLate
<1>13. KeepsProgress(w)
  BY <1>1, <1>5, <1>7 DEF KeepsProgress
<1>14. DOMAIN journal' = Works /\ \A v \in Works : JournalOK(journal'[v])
  BY <1>2 DEF IInv
<1> QED
  BY <1>2, <1>6, <1>7, <1>9, <1>10, <1>11, <1>12, <1>13, <1>14, OneStep, Facts DEF Steps

(* When the evidence is ready, every bound result is backed.               *)
LEMMA ReadyIsBacked ==
    ASSUME IInv, NEW w \in Works, EvidenceReady(w), NEW r \in work[w].bound.refs PROVE Backed(w, r)
<1> DEFINE bound == work[w].bound
<1>1. file[r.path] = r.was /\ Readable(w, r.was) /\ Covers(w, bound.refs, bound.gates, bound)
  BY DEF EvidenceReady
<1>2. ASSUME NEW q, ReceiptMatches(w, {q}, bound) PROVE Executed(w, q)
  <2>1. \E i \in 1..Len(work[w].rows) :
            LET row == work[w].rows[i] IN
            row.status = "passed" /\ row.on = MaterialOf(w) /\ q \in row.refs /\ row.id \notin Before(w)
    BY <1>2, Received
  <2> QED
    BY <2>1 DEF Executed
<1>3. Executed(w, r) \/ (Names(r.was) /\ r.was.work = w /\ r.was.code = product.code)
  BY <1>1, <1>2 DEF Covers, Readable
<1>4. r.was.kind = "cited" => Executed(w, [path |-> "log", was |-> r.was.log])
  BY <1>1, <1>2 DEF Covers
<1> QED
  BY <1>1, <1>3, <1>4 DEF Backed

(* When the evidence is ready, every attached result of now that did not   *)
(* pass is answered.                                                       *)
LEMMA ReadyAnswers ==
    ASSUME IInv, NEW w \in Works, EvidenceReady(w), NEW j \in Attached(w), OfNow(w, j), ~work[w].evidence[j].ok
    PROVE  \E i \in Attached(w) : OfNow(w, i) /\ work[w].evidence[i].ok /\ work[w].evidence[i].supersedes = j
<1> DEFINE bound == work[w].bound
           chosen == Chosen(w, bound.refs, bound.ids)
<1>1. Manifest(w, bound.refs, bound.ids) /\ bound # Nothing
  BY DEF EvidenceReady
<1>2. bound.ids \subseteq Attached(w)
  BY <1>1, Facts DEF WorkOK, Attached
<1>3. chosen \subseteq Attached(w)
  BY <1>2, ChosenIsAttached
<1>4. Selectable(w, chosen) /\ j \in {work[w].evidence[i].supersedes : i \in {i \in chosen : work[w].evidence[i].ok}}
  BY <1>1 DEF Manifest, OfNow
<1> HIDE DEF chosen
<1>5. PICK i \in chosen : work[w].evidence[i].ok /\ work[w].evidence[i].supersedes = j
  BY <1>4
<1>6. OfNow(w, i)
  BY <1>4, <1>5 DEF Selectable, OfNow
<1> QED
  BY <1>3, <1>5, <1>6

(* The second judgement of cao done, which completes the Work or not.      *)
LEMMA DoneClosesStep == ASSUME IInv, NEW p \in Processes, DoneCloses(p) PROVE Goal
<1> DEFINE w == runner[p].work
<1>1. w \in Works
  BY DEF IInv, RunnersOK, DoneCloses
<1>2. DOMAIN runner' = Processes /\ \A q \in Processes : RunnerNext(runner[q], runner'[q])
  BY Facts DEF DoneCloses, RunnerNext
<1>3. product' = product /\ limits' = limits /\ journal' = journal
  BY DEF DoneCloses, aside
<1>4. CASE ~CompletionReady(w)
  <2>1. work' = work
    BY <1>4 DEF DoneCloses
  <2> QED
    BY <1>2, <1>3, <2>1, NoWorkMoves, Facts
<1>5. CASE CompletionReady(w)
  <2> DEFINE y == [work[w] EXCEPT !.status = "completed"]
  <2>1. WorkOK(work[w]) /\ work[w].gen \in Nat /\ RowsOK(work[w].rows, work[w].gen)
    BY <1>1, Facts
  <2>2. work' = [work EXCEPT ![w] = y]
    BY <1>5 DEF DoneCloses
  <2>3. /\ DOMAIN y = DOMAIN work[w] /\ y.status = "completed" /\ y.gen = work[w].gen
        /\ y.contract = work[w].contract /\ y.rows = work[w].rows /\ y.evidence = work[w].evidence
        /\ y.bound = work[w].bound /\ y.repair = work[w].repair
    BY <2>1 DEF WorkOK
  <2> HIDE DEF y
  <2>4. WorkOK(y)
    BY <2>1, <2>3 DEF WorkOK
  <2>5. DOMAIN work' = Works /\ work'[w] = y /\ \A v \in Works \ {w} : work'[v] = work[v]
    BY <1>1, <2>2, Facts
  <2>6. EvidenceReady(w) /\ Verified(w) /\ work[w].bound # Nothing
    BY <1>5 DEF CompletionReady, EvidenceReady
  <2> HIDE DEF w
  <2>7. ClosesOnEvidence(w)
    BY <1>1, <2>6, ReadyIsBacked, ReadyAnswers DEF ClosesOnEvidence
  <2>8. NeverPassesLate(w)
    BY <2>1, <2>3, <2>5, Unchanging DEF NeverPassesLate, NoLate
  <2>9. KeepsProgress(w)
    BY <2>1, <2>3, <2>5 DEF KeepsProgress
  <2>10. Later(work[w], y)
    BY <2>3 DEF Later
  <2>11. RunnersOK'
    BY <1>1, <1>2, <2>5, <2>10, OneLater, RunnersStay
  <2>12. OneClaimPerResult'
    BY <2>3, <2>5, ClaimStays
  <2>13. DOMAIN journal' = Works /\ \A v \in Works : JournalOK(journal'[v])
    BY <1>3 DEF IInv
  <2> QED
    BY <1>1, <1>3, <2>4, <2>5, <2>7, <2>8, <2>9, <2>11, <2>12, <2>13, OneStep, Facts DEF Steps
<1> QED
  BY <1>4, <1>5

-----------------------------------------------------------------------------
(* Between the contracts.                                                  *)

(* A Work in contract c and a new generation, and nothing else of it       *)
(* changed.                                                                *)
Moved(x, c) == [x EXCEPT !.contract = c, !.gen = x.gen + 1]

(* A move between the contracts keeps the invariant and the Work's         *)
(* progress.                                                               *)
LEMMA MoveStep ==
    ASSUME IInv, NEW w \in Works, NEW c \in 1..2,
           work' = work \/ work' = [work EXCEPT ![w] = Moved(work[w], c)],
           product' = product, runner' = runner, limits' = limits,
           DOMAIN journal' = Works, \A v \in Works : JournalOK(journal'[v])
    PROVE  Goal
<1>1. WorkOK(work[w]) /\ work[w].gen \in Nat /\ RowsOK(work[w].rows, work[w].gen) /\ Marked(work[w].rows, work[w].rows)
  BY Facts, Unchanging
<1>2. PICK y : /\ DOMAIN work' = Works /\ work'[w] = y /\ \A v \in Works \ {w} : work'[v] = work[v]
               /\ y = work[w] \/ y = [work[w] EXCEPT !.contract = c, !.gen = work[w].gen + 1]
  <2>1. CASE work' = work
    BY <2>1, Facts
  <2>2. CASE work' # work
    BY <2>2, Facts DEF Moved
  <2> QED
    BY <2>1, <2>2
<1>3. /\ DOMAIN y = DOMAIN work[w] /\ y.status = work[w].status /\ y.gen \in {work[w].gen, work[w].gen + 1}
      /\ y.contract \in 1..2 /\ y.rows = work[w].rows /\ y.evidence = work[w].evidence
      /\ y.bound = work[w].bound /\ y.repair = work[w].repair
  BY <1>1, <1>2 DEF WorkOK
<1>4. y.contract # work[w].contract => [y EXCEPT !.contract = 0, !.gen = 0] = [work[w] EXCEPT !.contract = 0, !.gen = 0]
  BY <1>1, <1>2 DEF WorkOK
<1>5. y.gen \in Nat /\ y.gen >= work[w].gen
  BY <1>1, <1>3
<1>6. RowsOK(y.rows, y.gen)
  BY <1>1, <1>3, <1>5, MarkedOK
<1>7. WorkOK(y)
  BY <1>1, <1>3, <1>5, <1>6 DEF WorkOK
<1>8. DOMAIN work' = Works /\ work'[w] = y /\ \A v \in Works \ {w} : work'[v] = work[v]
  BY <1>2
<1>9. Later(work[w], y)
  BY <1>1, <1>3, <1>5, MarkedRuns DEF Later
<1>10. RunnersOK'
  BY <1>8, <1>9, OneLater, RunnersStay, RunnerStill
<1>11. ClosesOnEvidence(w)
  BY <1>3, <1>8 DEF ClosesOnEvidence
<1>12. NeverPassesLate(w)
  BY <1>1, <1>3, <1>8, Unchanging DEF NeverPassesLate, NoLate
<1>13. KeepsProgress(w)
  BY <1>4, <1>5, <1>8 DEF KeepsProgress
<1>14. OneClaimPerResult'
  BY <1>3, <1>8, ClaimStays
<1> QED
  BY <1>7, <1>8, <1>10, <1>11, <1>12, <1>13, <1>14, OneStep, Facts DEF Steps

(* One Work's journals change.                                             *)
LEMMA JournalMoves ==
    ASSUME IInv, NEW w \in Works, NEW j, JournalOK(j), journal' = [journal EXCEPT ![w] = j]
    PROVE  DOMAIN journal' = Works /\ \A v \in Works : JournalOK(journal'[v])
BY DEF IInv

(* The last journal is rewritten.                                          *)
LEMMA JournalUpdated ==
    ASSUME IInv, NEW w \in Works, journal[w] # <<>>, NEW e, EntryOK(e)
    PROVE  JournalOK([journal[w] EXCEPT ![Len(journal[w])] = e])
<1> DEFINE s == journal[w]
           n == Len(s)
           t == [s EXCEPT ![n] = e]
<1>1. IsSeq(s) /\ Len(s) \in Nat /\ \A i \in 1..Len(s) : EntryOK(s[i])
  BY SeqFacts DEF IInv, JournalOK
<1>2. n \in 1..Len(s)
  BY <1>1 DEF IsSeq
<1> HIDE DEF n, s
<1>4. IsSeq(t) /\ Len(t) = Len(s) /\ t[n] = e /\ \A i \in 1..Len(s) : i # n => t[i] = s[i]
  BY <1>1, <1>2, Updated
<1> HIDE DEF t
<1>5. JournalOK(t)
  BY <1>1, <1>4 DEF JournalOK
<1> QED
  BY <1>5 DEF t, n, s

(* A new journal comes last, or right before the last.                     *)
LEMMA FiledOK ==
    ASSUME IInv, NEW w \in Works, NEW e, EntryOK(e), NEW sooner \in BOOLEAN, sooner => journal[w] # <<>>
    PROVE  JournalOK(Filed(w, e, sooner))
<1> DEFINE s == journal[w]
           t == Filed(w, e, sooner)
<1>1. IsSeq(s) /\ Len(s) \in Nat /\ \A i \in 1..Len(s) : EntryOK(s[i])
  BY SeqFacts DEF IInv, JournalOK
<1>2. CASE sooner
  <2>1. t = BeforeLast(s, e) /\ s # <<>>
    BY <1>2 DEF Filed
  <2> HIDE DEF t
  <2>2. /\ IsSeq(t) /\ Len(s) > 0 /\ Len(t) = Len(s) + 1 /\ t[Len(s)] = e /\ t[Len(s) + 1] = s[Len(s)]
        /\ \A i \in 1..Len(s) : i < Len(s) => t[i] = s[i]
    BY <1>1, <2>1, Inserted
  <2>3. \A i \in 1..Len(t) : i = Len(s) + 1 \/ i = Len(s) \/ (i \in 1..Len(s) /\ i < Len(s))
    BY <1>1, <2>2
  <2>4. \A i \in 1..Len(t) : EntryOK(t[i])
    BY <1>1, <2>2, <2>3
  <2> QED
    BY <2>2, <2>4 DEF JournalOK, t
<1>3. CASE ~sooner
  <2>1. t = Append(s, e)
    BY <1>3 DEF Filed
  <2> HIDE DEF t
  <2>2. IsSeq(t) /\ Len(t) = Len(s) + 1 /\ t[Len(s) + 1] = e /\ \A i \in 1..Len(s) : t[i] = s[i]
    BY <1>1, <2>1, Appended
  <2>3. \A i \in 1..Len(t) : i = Len(s) + 1 \/ i \in 1..Len(s)
    BY <1>1, <2>2
  <2>4. \A i \in 1..Len(t) : EntryOK(t[i])
    BY <1>1, <2>2, <2>3
  <2> QED
    BY <2>2, <2>4 DEF JournalOK, t
<1> QED
  BY <1>2, <1>3

(* The latest journal is one.                                              *)
LEMMA LatestOK ==
    ASSUME IInv, NEW w \in Works, journal[w] # <<>> PROVE EntryOK(Latest(w))
<1>1. Len(journal[w]) \in 1..Len(journal[w]) /\ \A i \in 1..Len(journal[w]) : EntryOK(journal[w][i])
  BY SeqFacts DEF IInv, JournalOK, IsSeq
<1> QED
  BY <1>1 DEF Latest, Last

(* A journal is sealed.                                                    *)
LEMMA SealedOK ==
    ASSUME IInv, NEW w \in Works, journal[w] # <<>>,
           NEW state \in {"prepared", "committed", "rollback_prepared", "rolled_back"},
           journal' = Sealed(w, Len(journal[w]), state)
    PROVE  DOMAIN journal' = Works /\ \A v \in Works : JournalOK(journal'[v])
<1> DEFINE e == [Latest(w) EXCEPT !.state = state]
           j == [journal[w] EXCEPT ![Len(journal[w])] = e]
<1>1. EntryOK(Latest(w))
  BY LatestOK
<1>2. EntryOK(e)
  BY <1>1 DEF EntryOK
<1>3. journal' = [journal EXCEPT ![w] = j]
  BY DEF Sealed, Latest, Last
<1> HIDE DEF e
<1>4. JournalOK(j)
  BY <1>2, JournalUpdated
<1> HIDE DEF j
<1> QED
  BY <1>3, <1>4, JournalMoves

(* Sealing a migration.                                                    *)
LEMMA SealMigrationStep == ASSUME IInv, NEW w \in Works, SealMigration(w) PROVE Goal
<1>1. /\ journal[w] # <<>> /\ journal' = Sealed(w, Len(journal[w]), "committed")
      /\ work' = work /\ product' = product /\ runner' = runner /\ limits' = limits
  BY DEF SealMigration, Prepared, Journaled
<1>2. DOMAIN journal' = Works /\ \A v \in Works : JournalOK(journal'[v])
  BY <1>1, SealedOK
<1> QED
  BY <1>1, <1>2, MoveStep

(* Sealing a rollback.                                                     *)
LEMMA SealRollbackStep == ASSUME IInv, NEW w \in Works, SealRollback(w) PROVE Goal
<1>1. /\ journal[w] # <<>> /\ journal' = Sealed(w, Len(journal[w]), "rolled_back")
      /\ work' = work /\ product' = product /\ runner' = runner /\ limits' = limits
  BY DEF SealRollback, Journaled
<1>2. DOMAIN journal' = Works /\ \A v \in Works : JournalOK(journal'[v])
  BY <1>1, SealedOK
<1> QED
  BY <1>1, <1>2, MoveStep

(* A migration. What a resumed one installs is what a new one would: the   *)
(* journal is of this very Work.                                           *)
LEMMA MigrateStep ==
    ASSUME IInv, NEW w \in Works, NEW sooner \in BOOLEAN, NEW dies, Migrate(w, sooner, dies) PROVE Goal
<1> DEFINE planned == IF Resumes(w) THEN Latest(w).after ELSE [work[w] EXCEPT !.contract = 2, !.gen = @ + 1]
           entry == [state |-> IF dies = "no" THEN "committed" ELSE "prepared",
                     before |-> work[w], after |-> planned, sources |-> Sources, back |-> Nothing]
           next == Moved(work[w], 2)
<1>1. WorkOK(work[w])
  BY Facts
<1>2. [work[w] EXCEPT !.contract = 2, !.gen = @ + 1] = next
  BY <1>1 DEF WorkOK, Moved
<1>3. Resumes(w) => EntryOK(Latest(w)) /\ journal[w] # <<>>
  BY LatestOK DEF Resumes, Prepared, Journaled
<1>4. planned = next
  BY <1>2, <1>3 DEF Resumes, EntryOK
<1>5. /\ work[w].contract = 1 /\ (sooner => Journaled(w) /\ ~Resumes(w))
      /\ journal' = IF ~Resumes(w) THEN [journal EXCEPT ![w] = Filed(w, entry, sooner)]
                    ELSE IF dies = "no" THEN Sealed(w, Len(journal[w]), "committed") ELSE journal
      /\ work' = IF dies = "journaled" THEN work ELSE [work EXCEPT ![w] = planned]
      /\ product' = product /\ runner' = runner /\ limits' = limits
  BY DEF Migrate
<1>6. EntryOK(entry)
  <2> HIDE DEF planned
  <2>1. entry.before = work[w] /\ entry.after = [entry.before EXCEPT !.contract = 2, !.gen = @ + 1]
    BY <1>2, <1>4
  <2> QED
    BY <1>5, <2>1 DEF EntryOK
<1> HIDE DEF entry, planned
<1>7. DOMAIN journal' = Works /\ \A v \in Works : JournalOK(journal'[v])
  <2>1. CASE ~Resumes(w)
    <3>1. JournalOK(Filed(w, entry, sooner))
      BY <1>5, <1>6, FiledOK DEF Journaled
    <3> QED
      BY <1>5, <2>1, <3>1, JournalMoves
  <2>2. CASE Resumes(w) /\ dies = "no"
    BY <1>3, <1>5, <2>2, SealedOK
  <2>3. CASE Resumes(w) /\ dies # "no"
    BY <1>5, <2>3 DEF IInv
  <2> QED
    BY <2>1, <2>2, <2>3
<1>8. work' = work \/ work' = [work EXCEPT ![w] = next]
  BY <1>4, <1>5
<1> QED
  BY <1>5, <1>7, <1>8, 2 \in 1..2, MoveStep

(* A rollback. What it restores is the Work as it is, in its old contract: *)
(* nothing happened to it since.                                           *)
LEMMA RollbackStep == ASSUME IInv, NEW w \in Works, NEW dies, Rollback(w, dies) PROVE Goal
<1> DEFINE next == Moved(work[w], 1)
           e == [Latest(w) EXCEPT !.state = IF dies = "no" THEN "rolled_back" ELSE "rollback_prepared",
                                  !.back = Restored(w)]
           j == [journal[w] EXCEPT ![Len(journal[w])] = e]
<1>1. journal[w] # <<>> /\ work[w] = Latest(w).after
  BY DEF Rollback, Journaled, Untouched
<1>2. EntryOK(Latest(w)) /\ WorkOK(work[w])
  BY <1>1, LatestOK, Facts
<1>3. Restored(w) = next
  <2>1. DOMAIN Latest(w).before = DOMAIN work[w]
    BY <1>1, <1>2 DEF EntryOK
  <2> QED
    BY <1>1, <1>2, <2>1 DEF Restored, EntryOK, WorkOK, Moved
<1>4. EntryOK(e)
  BY <1>2 DEF EntryOK
<1>5. journal' = [journal EXCEPT ![w] = j]
  BY DEF Rollback, Latest, Last
<1> HIDE DEF e
<1>6. JournalOK(j)
  BY <1>1, <1>4, JournalUpdated
<1> HIDE DEF j
<1>7. DOMAIN journal' = Works /\ \A v \in Works : JournalOK(journal'[v])
  BY <1>5, <1>6, JournalMoves
<1>8. /\ work' = work \/ work' = [work EXCEPT ![w] = next]
      /\ product' = product /\ runner' = runner /\ limits' = limits
  BY <1>3 DEF Rollback
<1> QED
  BY <1>7, <1>8, 1 \in 1..2, MoveStep

-----------------------------------------------------------------------------
(* Together.                                                               *)

(* The initial states.                                                     *)
LEMMA InitOK == Init => IInv
<1> SUFFICES ASSUME Init PROVE IInv
  OBVIOUS
<1>1. IsSeq(<<>>) /\ Len(<<>>) = 0
  BY DEF IsSeq
<1>2. RowsOK(<<>>, 0)
  BY <1>1 DEF RowsOK
<1>3. \A w \in Works : WorkOK(work[w]) /\ work[w].bound = Nothing
  <2> SUFFICES ASSUME NEW w \in Works PROVE WorkOK(work[w]) /\ work[w].bound = Nothing
    OBVIOUS
  <2>1. limits.contract \in 1..2
    BY NativeAssumption DEF Init
  <2> DEFINE y == work[w]
  <2>2. /\ DOMAIN y = {"status", "gen", "contract", "deps", "rows", "repair", "bound", "failure", "evidence", "verified", "flow"}
        /\ y.status \in {"active", "suspended"} /\ y.gen = 0 /\ y.contract = limits.contract
        /\ y.rows = <<>> /\ y.evidence = <<>> /\ y.bound = Nothing
    BY DEF Init, NewWork
  <2> HIDE DEF y
  <2>3. WorkOK(y)
    BY <1>1, <1>2, <2>1, <2>2 DEF WorkOK
  <2> QED
    BY <2>2, <2>3 DEF y
<1>4. RunnersOK
  BY DEF Init, RunnersOK, Executing
<1>5. DOMAIN journal = Works /\ \A w \in Works : JournalOK(journal[w])
  BY <1>1 DEF Init, JournalOK
<1>6. limits \in Limits /\ ProductOK(product) /\ DOMAIN work = Works
  BY DEF Init, ProductOK
<1>7. OneClaimPerResult
  BY <1>3 DEF OneClaimPerResult
<1> QED
  BY <1>3, <1>4, <1>5, <1>6, <1>7 DEF IInv

(* The steps of executions.                                                *)
LEMMA ExecutionKeeps == ASSUME IInv, ExecutionNext PROVE Goal
<1>1. CASE \E p \in Processes, w \in Works, id \in Runs, retry \in Runs \cup {Nothing}, same \in BOOLEAN, reads \in limits.reads : Admit(p, w, id, retry, same, reads)
  BY <1>1, AdmitStep
<1>2. CASE \E p \in Processes : Own(p)
  BY <1>2, OwnStep
<1>3. CASE \E p \in Processes, exit \in 0..1, n \in limits.texts, dies \in BOOLEAN : Finish(p, exit, n, dies)
  BY <1>3, FinishStep
<1>4. CASE \E p \in Processes : Die(p)
  BY <1>4, DieStep
<1>5. CASE \E w \in Works, c \in Calls : HostStarts(w, c)
  BY <1>5, HostStartsStep
<1>6. CASE \E w \in Works, c \in Calls, exit \in 0..1, whole \in BOOLEAN, n \in limits.texts : HostEnds(w, c, exit, whole, n)
  BY <1>6, HostEndsStep
<1>7. CASE \E part \in limits.parts, value \in 0..1 : Edit(part, value)
  BY <1>7, EditStep
<1>8. CASE \E w \in Works : DeclareDependency(w)
  BY <1>8, DeclareDependencyStep
<1>9. CASE \E w \in Works : Turn(w)
  BY <1>9, TurnStep
<1>10. CASE \E w \in Works : Suspend(w)
  BY <1>10, SuspendStep
<1>11. CASE \E w \in Works : AbandonRun(w)
  BY <1>11, AbandonRunStep
<1> QED
  BY <1>1, <1>2, <1>3, <1>4, <1>5, <1>6, <1>7, <1>8, <1>9, <1>10, <1>11 DEF ExecutionNext

(* The steps of evidence.                                                  *)
LEMMA EvidenceKeeps == ASSUME IInv, EvidenceNext PROVE Goal
<1>1. CASE \E w \in Works, p \in Paths, old \in BOOLEAN, i \in 0..limits.attached : Attach(w, p, old, i)
  BY <1>1, AttachStep
<1>2. CASE \E w \in Works, req \in limits.requests : BindFails(w, req)
  BY <1>2, BindFailsStep
<1>3. CASE \E w \in Works, req \in limits.requests : Bind(w, req)
  BY <1>3, BindStep
<1>4. CASE \E w \in Works, kind \in {"product", "environment"} : Repair(w, kind)
  BY <1>4, RepairStep
<1> QED
  BY <1>1, <1>2, <1>3, <1>4 DEF EvidenceNext

(* The steps of completion.                                                *)
LEMMA CompletionKeeps == ASSUME IInv, CompletionNext PROVE Goal
<1>1. CASE \E w \in Works : CompleteWorkflow(w)
  BY <1>1, CompleteWorkflowStep
<1>2. CASE \E w \in Works, status \in {"passed", "failed"} : Verify(w, status)
  BY <1>2, VerifyStep
<1>3. CASE \E p \in Processes, w \in Works : DoneJudges(p, w)
  BY <1>3, DoneJudgesStep
<1>4. CASE \E p \in Processes : DoneCloses(p)
  BY <1>4, DoneClosesStep
<1>5. CASE \E w \in Works : Reopen(w)
  BY <1>5, ReopenStep
<1>6. CASE \E p \in Paths, body \in limits.bodies : WriteReport(p, body)
  BY <1>6, WriteReportStep
<1> QED
  BY <1>1, <1>2, <1>3, <1>4, <1>5, <1>6 DEF CompletionNext

(* The moves between the contracts.                                        *)
LEMMA MoveKeeps == ASSUME IInv, MoveNext PROVE Goal
<1>1. CASE \E w \in Works, sooner \in BOOLEAN, dies \in {"no", "journaled", "saved"} : Migrate(w, sooner, dies)
  BY <1>1, MigrateStep
<1>2. CASE \E w \in Works : SealMigration(w)
  BY <1>2, SealMigrationStep
<1>3. CASE \E w \in Works, dies \in {"no", "journaled", "saved"} : Rollback(w, dies)
  BY <1>3, RollbackStep
<1>4. CASE \E w \in Works : SealRollback(w)
  BY <1>4, SealRollbackStep
<1> QED
  BY <1>1, <1>2, <1>3, <1>4 DEF MoveNext

(* A step that changes nothing.                                            *)
LEMMA StutterKeeps == ASSUME IInv, UNCHANGED vars PROVE Goal
BY NoWorkMoves, RunnerStill, Facts DEF vars

(* Every step keeps the invariant, and is as the action properties ask.    *)
LEMMA Keeps == ASSUME IInv, [Next]_vars PROVE Goal
BY ExecutionKeeps, EvidenceKeeps, CompletionKeeps, MoveKeeps, StutterKeeps DEF Next

(* The invariant holds in every reachable state, of any Works, runs,       *)
(* calls, processes and bounds.                                            *)
THEOREM InvariantHolds == Spec => []IInv
<1>1. IInv /\ [Next]_vars => IInv'
  BY Keeps DEF Goal
<1> QED
  BY InitOK, <1>1, PTL DEF Spec

(* The invariant implies what the run checks of the records.               *)
LEMMA IInvIsSound == IInv => RecordsSound
<1> SUFFICES ASSUME IInv PROVE RecordsSound
  OBVIOUS
<1>1. product \in [code : 0..1, unit : 0..1, policy : 0..1]
  BY DEF IInv, ProductOK
<1>2. \A p \in Processes : runner[p] # Nothing => runner[p].stage \in {"admitted", "owning", "closing"}
  BY DEF IInv, RunnersOK
<1>3. ASSUME NEW w \in Works
      PROVE  /\ work[w].status \in {"active", "suspended", "completed"} /\ work[w].contract \in 1..2
             /\ \A i \in 1..Len(journal[w]) :
                    journal[w][i].state \in {"prepared", "committed", "rollback_prepared", "rolled_back"}
  BY DEF IInv, WorkOK, JournalOK, EntryOK
<1>4. ASSUME NEW w \in Works, NEW i \in 1..Len(work[w].rows)
      PROVE  work[w].rows[i].status \in {"running", "passed", "failed", "stale", "abandoned", "unavailable"}
  BY Facts DEF RowsOK, RowShape
<1>5. ASSUME NEW w \in Works, NEW i \in 1..Len(work[w].rows), ~work[w].rows[i].host, work[w].rows[i].status = "running"
      PROVE  work[w].rows[i] = LastExecution(w)
  <2>1. RowsOK(work[w].rows, work[w].gen) /\ Len(work[w].rows) \in Nat
    BY Facts
  <2>2. Executions(w) # {}
    BY <1>5 DEF Executions
  <2>3. PICK m \in 1..Len(work[w].rows) :
            /\ LastExecution(w) = work[w].rows[m] /\ ~work[w].rows[m].host
            /\ \A j \in 1..Len(work[w].rows) : ~work[w].rows[j].host => j <= m
    BY <2>2, LastIs
  <2>4. i = m
    BY <1>5, <2>1, <2>3 DEF RowsOK
  <2> QED
    BY <2>3, <2>4
<1> QED
  BY <1>1, <1>2, <1>3, <1>4, <1>5 DEF RecordsSound

(* Every record is in a state the program knows, and of a Work's           *)
(* executions only the last can be without a result                        *)
(* (native_execution.command: NATIVE_EXECUTION_UNRESOLVED).                *)
THEOREM RecordsAreSound == Spec => []RecordsSound
BY InvariantHolds, IInvIsSound, PTL

(* No two Works rest on the same result (binding_command:                  *)
(* NATIVE_COMPLETION_REPORT_OTHER_WORK).                                   *)
THEOREM ClaimsAreApart == Spec => []OneClaimPerResult
<1>1. IInv => OneClaimPerResult
  BY DEF IInv
<1> QED
  BY InvariantHolds, <1>1, PTL

(* cao done completes a Work only on evidence of that moment: results that *)
(* are there and were executed on this material or name it, a passed       *)
(* verification of it, and no unanswered result that did not pass          *)
(* (lifecycle_contract.completion, cmd_done).                              *)
THEOREM CompletionRestsOnEvidence == Spec => CompletedOnEvidence
<1>1. IInv /\ [Next]_vars => [\A w \in Works : ClosesOnEvidence(w)]_vars
  BY Keeps DEF Goal, Steps
<1> QED
  BY InvariantHolds, <1>1, PTL DEF Spec, CompletedOnEvidence

(* An execution that was given up never passes, however late its process   *)
(* ends, through retries, abandons, switches and deaths                    *)
(* (native_execution.command).                                             *)
THEOREM ResultsAreOfTheirTime == Spec => ResultsAreEarned
<1>1. IInv /\ [Next]_vars => [\A w \in Works : NeverPassesLate(w)]_vars
  BY Keeps DEF Goal, Steps
<1> QED
  BY InvariantHolds, <1>1, PTL DEF Spec, ResultsAreEarned

(* Moves between the contracts, cut short and resumed at any point, change *)
(* nothing of a Work but contract and generation, and no step takes a      *)
(* generation back (lifecycle_migration.py).                               *)
THEOREM MigrationLosesNothing == Spec => MigrationKeepsProgress
<1>1. IInv /\ [Next]_vars => [\A w \in Works : KeepsProgress(w)]_vars
  BY Keeps DEF Goal, Steps
<1> QED
  BY InvariantHolds, <1>1, PTL DEF Spec, MigrationKeepsProgress

=============================================================================
