-------------------------- MODULE ThresholdsProofs --------------------------
(***************************************************************************)
(* Proofs about Thresholds, for any number of runs, devices, operators and *)
(* packets: what a run of the baselines job may touch, that the limits it  *)
(* computes make sense, and that the four programs judge a device alike.   *)
(***************************************************************************)
EXTENDS Thresholds, NumberProofs, FiniteSetTheorems, TLAPS

(* Rows have the columns of the table; what they hold does not matter.     *)
Row(r) == r = [of |-> r.of, metric |-> r.metric, warn |-> r.warn, bad |-> r.bad,
               override |-> r.override]

(* What a run holds against the table: a key it will write that has an     *)
(* override, or a key it will insert that has a row, was written by others *)
(* while the run was under way.                                            *)
RunOK(j) ==
    /\ jobs[j].phase = "read" => DOMAIN jobs[j].data \subseteq Device \X Metric
    /\ jobs[j].phase \in {"computed", "compared"} =>
          /\ DOMAIN jobs[j].results \subseteq Device \X Metric
          /\ \A i \in DOMAIN table :
                table[i].override = TRUE /\ KeyOf(table[i]) \in DOMAIN jobs[j].results
                    => KeyOf(table[i]) \in disturbed[j]
    /\ jobs[j].phase = "compared" =>
          /\ jobs[j].existing \subseteq DOMAIN jobs[j].results
          /\ \A i \in DOMAIN table :
                KeyOf(table[i]) \in DOMAIN jobs[j].results \ jobs[j].existing
                    => KeyOf(table[i]) \in disturbed[j]

(* The inductive invariant.  The override flag of a row and its key never  *)
(* change but by operators, who disturb every run under way.               *)
RunsIInv ==
    /\ jobs = [j \in Job |-> jobs[j]]
    /\ disturbed = [j \in Job |-> disturbed[j]]
    /\ nextId \in Nat
    /\ \A i \in DOMAIN table : Row(table[i])
    /\ \A j \in Job : RunOK(j)
-----------------------------------------------------------------------------
(* SetToSeq lists the elements of a finite set. *)
LEMMA SetToSeqElements ==
    ASSUME NEW S, IsFiniteSet(S)
    PROVE  /\ Len(SetToSeq(S)) \in Nat /\ Len(SetToSeq(S)) = Cardinality(S)
           /\ DOMAIN SetToSeq(S) = 1 .. Len(SetToSeq(S))
           /\ \A n \in 1 .. Len(SetToSeq(S)) : SetToSeq(S)[n] \in S
<1> DEFINE n == Cardinality(S)
           P(f) == f \in [1 .. n -> S] /\ IsInjective(f)
<1>1. n \in Nat /\ ExistsBijection(1 .. n, S)
  BY FS_CardinalityType
<1>2. PICK f \in Bijection(1 .. n, S) : TRUE
  BY <1>1 DEF ExistsBijection
<1>3. f \in [1 .. n -> S] /\ IsInjective(f)
  BY <1>2 DEF Bijection, Injection, IsInjective
<1>4. SetToSeq(S) \in [1 .. n -> S]
  BY <1>3 DEF SetToSeq
<1>5. n = Cardinality(S)
  OBVIOUS
<1> HIDE DEF n
<1>6. Len(SetToSeq(S)) = n
  BY <1>1, <1>4
<1> QED
  BY <1>1, <1>4, <1>5, <1>6

LEMMA RunsInit == Init => RunsIInv
BY DEF Init, RunsIInv, RunOK, Idle

(* A run that does nothing itself is not harmed by a step in which rows    *)
(* keep their keys, no override appears, and whatever does is of a key     *)
(* that is then known to be disturbed.                                     *)
LEMMA RunKept ==
    ASSUME NEW j \in Job, RunOK(j), jobs'[j] = jobs[j],
           disturbed[j] \subseteq disturbed'[j],
           \A i \in DOMAIN table' :
              \/ /\ i \in DOMAIN table /\ KeyOf(table'[i]) = KeyOf(table[i])
                 /\ table'[i].override = TRUE => table[i].override = TRUE
              \/ KeyOf(table'[i]) \in disturbed'[j]
    PROVE  RunOK(j)'
<1> DEFINE q == jobs[j]
<1>1. q.phase = "read" => DOMAIN q.data \subseteq Device \X Metric
  BY DEF RunOK
<1>2. ASSUME q.phase \in {"computed", "compared"}
      PROVE  /\ DOMAIN q.results \subseteq Device \X Metric
             /\ \A i \in DOMAIN table' :
                   table'[i].override = TRUE /\ KeyOf(table'[i]) \in DOMAIN q.results
                       => KeyOf(table'[i]) \in disturbed'[j]
  BY <1>2 DEF RunOK
<1>3. ASSUME q.phase = "compared"
      PROVE  /\ q.existing \subseteq DOMAIN q.results
             /\ \A i \in DOMAIN table' :
                   KeyOf(table'[i]) \in DOMAIN q.results \ q.existing
                       => KeyOf(table'[i]) \in disturbed'[j]
  BY <1>3 DEF RunOK
<1> QED
  BY <1>1, <1>2, <1>3 DEF RunOK, KeyOf

(* A run that is not under way has nothing to keep. *)
LEMMA IdleIsOK ==
    ASSUME NEW j \in Job, jobs'[j] = Idle
    PROVE  RunOK(j)'
BY DEF RunOK, Idle

(* A write of other runs' keys by an operator or a run. *)
LEMMA DisturbedRun ==
    ASSUME RunsIInv, NEW keys, NEW others, Disturb(keys, others), NEW j \in others, j \in Job,
           jobs'[j] = jobs[j],
           \A i \in DOMAIN table' :
              \/ /\ i \in DOMAIN table /\ KeyOf(table'[i]) = KeyOf(table[i])
                 /\ table'[i].override = TRUE => table[i].override = TRUE
              \/ KeyOf(table'[i]) \in keys
    PROVE  RunOK(j)'
<1>1. CASE jobs[j] = Idle
  BY <1>1, IdleIsOK
<1>2. CASE jobs[j] # Idle
  <2>1. disturbed'[j] = disturbed[j] \cup keys
    BY <1>2 DEF Disturb
  <2>2. RunOK(j)
    BY DEF RunsIInv
  <2> QED
    BY <2>1, <2>2, RunKept
<1> QED
  BY <1>1, <1>2
-----------------------------------------------------------------------------
(* A step that writes keys leaves the history a function of the runs. *)
LEMMA DisturbShape ==
    ASSUME NEW keys, NEW others, Disturb(keys, others)
    PROVE  disturbed' = [j \in Job |-> disturbed'[j]]
BY DEF Disturb

LEMMA InsertKeeps ==
    ASSUME RunsIInv, NEW e, NEW k \in Key, OperatorInserts(k, e)
    PROVE  RunsIInv'
<1>0. (\A i \in DOMAIN table : Row(table[i])) /\ nextId \in Nat
  BY DEF RunsIInv
<1>1. k = <<k[1], k[2]>>
  BY DEF Key
<1>2. \A i \in DOMAIN table' :
         \/ i \in DOMAIN table /\ table'[i] = table[i]
         \/ Row(table'[i]) /\ KeyOf(table'[i]) = k
  BY <1>1 DEF OperatorInserts, Row, KeyOf
<1>3. Disturb({k}, Job) /\ jobs' = jobs /\ nextId' \in Nat
  BY <1>0 DEF OperatorInserts
<1>4. ASSUME NEW j \in Job
      PROVE  RunOK(j)'
  <2>1. \A i \in DOMAIN table' :
           \/ /\ i \in DOMAIN table /\ KeyOf(table'[i]) = KeyOf(table[i])
              /\ table'[i].override = TRUE => table[i].override = TRUE
           \/ KeyOf(table'[i]) \in {k}
    BY <1>2
  <2> QED
    BY <1>3, <2>1, DisturbedRun
<1>5. \A i \in DOMAIN table' : Row(table'[i])
  BY <1>0, <1>2
<1>6. jobs' = [j \in Job |-> jobs'[j]] /\ disturbed' = [j \in Job |-> disturbed'[j]]
  BY <1>3, DisturbShape DEF RunsIInv
<1> QED
  BY <1>3, <1>4, <1>5, <1>6 DEF RunsIInv, Row

LEMMA SetKeeps ==
    ASSUME RunsIInv, NEW e, NEW i \in DOMAIN table, OperatorSets(i, e)
    PROVE  RunsIInv'
<1>0. (\A n \in DOMAIN table : Row(table[n])) /\ nextId \in Nat
  BY DEF RunsIInv
<1>1. /\ DOMAIN table' = DOMAIN table
      /\ \A n \in DOMAIN table : n # i => table'[n] = table[n]
      /\ table'[i] = [table[i] EXCEPT !.warn = e.warn, !.bad = e.bad, !.override = e.override]
  BY DEF OperatorSets
<1>2. Row(table'[i]) /\ KeyOf(table'[i]) = KeyOf(table[i])
  <2> DEFINE r == table[i]
             q == table'[i]
             fields == {"of", "metric", "warn", "bad", "override"}
  <2>1. r = [of |-> r.of, metric |-> r.metric, warn |-> r.warn, bad |-> r.bad,
             override |-> r.override]
    BY <1>0 DEF Row
  <2>2. DOMAIN r = fields
    BY <2>1
  <2>3. /\ q.of = r.of /\ q.metric = r.metric /\ DOMAIN q = fields
        /\ q = [x \in fields |-> q[x]]
    BY <1>1, <2>2
  <2> HIDE DEF q
  <2>4. q = [of |-> q.of, metric |-> q.metric, warn |-> q.warn, bad |-> q.bad,
             override |-> q.override]
    BY <2>3
  <2> QED
    BY <2>3, <2>4 DEF q, Row, KeyOf
<1>3. Disturb({KeyOf(table[i])}, Job) /\ jobs' = jobs /\ nextId' = nextId
  BY DEF OperatorSets
<1>4. \A n \in DOMAIN table' :
         \/ n \in DOMAIN table /\ table'[n] = table[n]
         \/ KeyOf(table'[n]) = KeyOf(table[i])
  BY <1>1, <1>2
<1>5. ASSUME NEW j \in Job
      PROVE  RunOK(j)'
  <2>1. jobs'[j] = jobs[j]
    BY <1>3
  <2>2. \A n \in DOMAIN table' :
           \/ /\ n \in DOMAIN table /\ KeyOf(table'[n]) = KeyOf(table[n])
              /\ table'[n].override = TRUE => table[n].override = TRUE
           \/ KeyOf(table'[n]) \in {KeyOf(table[i])}
    BY <1>4 DEF KeyOf
  <2> QED
    BY <1>3, <2>1, <2>2, DisturbedRun
<1>6. \A n \in DOMAIN table' : Row(table'[n])
  BY <1>0, <1>1, <1>2
<1>7. jobs' = [j \in Job |-> jobs'[j]] /\ disturbed' = [j \in Job |-> disturbed'[j]]
  BY <1>3, DisturbShape DEF RunsIInv
<1> QED
  BY <1>0, <1>3, <1>5, <1>6, <1>7 DEF RunsIInv, Row

LEMMA DeleteKeeps ==
    ASSUME RunsIInv, NEW i \in DOMAIN table, OperatorDeletes(i)
    PROVE  RunsIInv'
<1>0. (\A n \in DOMAIN table : Row(table[n])) /\ nextId \in Nat
  BY DEF RunsIInv
<1>1. \A n \in DOMAIN table' : n \in DOMAIN table /\ table'[n] = table[n]
  BY DEF OperatorDeletes
<1>2. Disturb({KeyOf(table[i])}, Job) /\ jobs' = jobs /\ nextId' = nextId
  BY DEF OperatorDeletes
<1>3. \A j \in Job : RunOK(j)'
  BY <1>1, <1>2, DisturbedRun
<1>4. \A n \in DOMAIN table' : Row(table'[n])
  BY <1>0, <1>1
<1>5. jobs' = [j \in Job |-> jobs'[j]] /\ disturbed' = [j \in Job |-> disturbed'[j]]
  BY <1>2, DisturbShape DEF RunsIInv
<1> QED
  BY <1>0, <1>2, <1>3, <1>4, <1>5 DEF RunsIInv, Row

(* A run computes finitely many keys, all of devices. *)
LEMMA ResultsFinite ==
    ASSUME RunsIInv, NEW j \in Job, jobs[j].phase = "compared"
    PROVE  /\ DOMAIN jobs[j].results \subseteq Device \X Metric
           /\ IsFiniteSet(DOMAIN jobs[j].results \ jobs[j].existing)
<1>1. DOMAIN jobs[j].results \subseteq Device \X Metric
  BY DEF RunsIInv, RunOK
<1>2. IsFiniteSet(Metric)
  <2>1. IsFiniteSet({"no_dim_pct"})
    BY FS_Singleton
  <2>2. Metric = {"no_dim_pct"} \cup {"good_read_pct"}
    BY DEF Metric
  <2> QED
    BY <2>1, <2>2, FS_AddElement
<1>3. IsFiniteSet(Device \X Metric)
  BY <1>2, FS_Product, ThresholdsAssumption
<1>4. IsFiniteSet(DOMAIN jobs[j].results \ jobs[j].existing)
  BY <1>1, <1>3, FS_Subset
<1> QED
  BY <1>1, <1>4

(* The write of a run: overrides and keys of rows stay, new rows are of    *)
(* keys of its results that it found without a row.                        *)
LEMMA WriteShape ==
    ASSUME RunsIInv, NEW j \in Job, JobWrites(j)
    PROVE  LET q == jobs[j] IN
           /\ jobs' = [jobs EXCEPT ![j] = Idle]
           /\ Disturb(DOMAIN q.results, Job \ {j})
           /\ DOMAIN table \subseteq DOMAIN table'
           /\ \A i \in DOMAIN table :
                 /\ Row(table'[i]) /\ KeyOf(table'[i]) = KeyOf(table[i])
                 /\ table'[i].override = table[i].override
                 /\ KeyOf(table[i]) \notin q.existing => table'[i] = table[i]
           /\ \A i \in DOMAIN table' \ DOMAIN table :
                 Row(table'[i]) /\ KeyOf(table'[i]) \in DOMAIN q.results \ q.existing
<1> DEFINE q == jobs[j]
           new == SetToSeq(DOMAIN q.results \ q.existing)
           old == [k \in q.existing |-> q.results[k]]
           last == nextId + Len(new) - 1
<1>0. \A i \in DOMAIN table : Row(table[i])
  BY DEF RunsIInv
<1>1. /\ jobs' = [jobs EXCEPT ![j] = Idle]
      /\ Disturb(DOMAIN q.results, Job \ {j})
      /\ table' = [i \in DOMAIN table \cup nextId .. last |->
              IF i \in DOMAIN table THEN Updated(old)[i]
              ELSE LET k == new[i - nextId + 1]
                   IN  [of |-> k[1], metric |-> k[2], warn |-> q.results[k][1],
                        bad |-> q.results[k][2], override |-> FALSE]]
  BY DEF JobWrites
<1>2. \A i \in DOMAIN table : table'[i] = Updated(old)[i]
  BY <1>1
<1>3. ASSUME NEW i \in DOMAIN table
      PROVE  /\ Row(table'[i]) /\ KeyOf(table'[i]) = KeyOf(table[i])
             /\ table'[i].override = table[i].override
             /\ KeyOf(table[i]) \notin q.existing => table'[i] = table[i]
  <2>1. CASE KeyOf(table[i]) \notin q.existing
    BY <1>0, <1>2, <2>1, Zenon DEF Updated
  <2>2. CASE KeyOf(table[i]) \in q.existing
    <3> DEFINE w == old[KeyOf(table[i])][1]
               b == old[KeyOf(table[i])][2]
    <3>1. KeyOf(table[i]) \in DOMAIN old
      BY <2>2
    <3> HIDE DEF old
    <3>2. Updated(old)[i] = [table[i] EXCEPT !.warn = w, !.bad = b]
      BY <3>1 DEF Updated
    <3>3. table'[i] = [table[i] EXCEPT !.warn = w, !.bad = b]
      BY <1>2, <3>2
    <3> HIDE DEF w, b
    <3> QED
      BY <1>0, <2>2, <3>3 DEF Row, KeyOf
  <2> QED
    BY <2>1, <2>2
<1>4. /\ Len(new) \in Nat
      /\ \A n \in 1 .. Len(new) : new[n] \in DOMAIN q.results \ q.existing
      /\ DOMAIN q.results \subseteq Device \X Metric
  <2>1. q.phase = "compared"
    BY DEF JobWrites
  <2> QED
    BY <2>1, ResultsFinite, SetToSeqElements
<1>5. ASSUME NEW i \in DOMAIN table' \ DOMAIN table
      PROVE  Row(table'[i]) /\ KeyOf(table'[i]) \in DOMAIN q.results \ q.existing
  <2> DEFINE k == new[i - nextId + 1]
  <2>1. i \in nextId .. last
    BY <1>1
  <2>2. i - nextId + 1 \in 1 .. Len(new)
    BY <1>4, <2>1 DEF RunsIInv
  <2>3. k \in DOMAIN q.results \ q.existing
    BY <1>4, <2>2
  <2>4. \A x \in Device \X Metric : x = <<x[1], x[2]>>
    OBVIOUS
  <2>5. k \in Device \X Metric
    BY <1>4, <2>3
  <2>6. k = <<k[1], k[2]>>
    BY <2>4, <2>5
  <2>7. table'[i] = [of |-> k[1], metric |-> k[2], warn |-> q.results[k][1],
                     bad |-> q.results[k][2], override |-> FALSE]
    BY <1>1, <2>1
  <2> HIDE DEF k
  <2> QED
    BY <2>3, <2>6, <2>7 DEF Row, KeyOf
<1>6. DOMAIN table \subseteq DOMAIN table'
  BY <1>1
<1> QED
  BY <1>1, <1>3, <1>5, <1>6
-----------------------------------------------------------------------------
LEMMA WriteKeeps ==
    ASSUME RunsIInv, NEW j \in Job, JobWrites(j)
    PROVE  RunsIInv'
<1> DEFINE q == jobs[j]
<1>1. /\ jobs' = [jobs EXCEPT ![j] = Idle]
      /\ Disturb(DOMAIN q.results, Job \ {j})
      /\ \A i \in DOMAIN table :
            /\ Row(table'[i]) /\ KeyOf(table'[i]) = KeyOf(table[i])
            /\ table'[i].override = table[i].override
      /\ \A i \in DOMAIN table' \ DOMAIN table :
            Row(table'[i]) /\ KeyOf(table'[i]) \in DOMAIN q.results
  BY WriteShape
<1>2. nextId' \in Nat
  <2>1. nextId' = nextId + Len(SetToSeq(DOMAIN q.results \ q.existing))
    BY DEF JobWrites
  <2>2. q.phase = "compared"
    BY DEF JobWrites
  <2>3. Len(SetToSeq(DOMAIN q.results \ q.existing)) \in Nat
    BY <2>2, ResultsFinite, SetToSeqElements
  <2> QED
    BY <2>1, <2>3 DEF RunsIInv
<1>3. jobs' = [n \in Job |-> jobs'[n]] /\ disturbed' = [n \in Job |-> disturbed'[n]]
  BY <1>1, DisturbShape DEF RunsIInv
<1>4. \A i \in DOMAIN table' : Row(table'[i])
  BY <1>1
<1>5. ASSUME NEW n \in Job
      PROVE  RunOK(n)'
  <2>1. CASE n = j
    BY <1>1, <2>1, IdleIsOK DEF RunsIInv
  <2>2. CASE n # j
    <3>1. jobs'[n] = jobs[n]
      BY <1>1, <2>2 DEF RunsIInv
    <3> QED
      BY <1>1, <2>2, <3>1, DisturbedRun
  <2> QED
    BY <2>1, <2>2
<1> QED
  BY <1>2, <1>3, <1>4, <1>5 DEF RunsIInv, Row

(* Steps of a run that leave the table alone. *)
LEMMA RunSteps ==
    ASSUME RunsIInv, NEW j \in Job,
           UNCHANGED <<table, nextId>>,
           NEW q, jobs' = [jobs EXCEPT ![j] = q],
           disturbed' = [n \in Job |-> disturbed'[n]],
           \A n \in Job \ {j} : disturbed'[n] = disturbed[n],
           RunOK(j)'
    PROVE  RunsIInv'
<1>1. jobs' = [n \in Job |-> jobs'[n]]
  BY DEF RunsIInv
<1>2. ASSUME NEW n \in Job \ {j}
      PROVE  RunOK(n)'
  BY RunKept DEF RunsIInv
<1> QED
  BY <1>1, <1>2 DEF RunsIInv, Row

LEMMA RunsNext ==
    ASSUME RunsIInv, [Next]_vars
    PROVE  RunsIInv'
<1>1. ASSUME NEW d \in Device, NEW p \in Packet, PacketArrives(d, p)
      PROVE  RunsIInv'
  BY <1>1 DEF PacketArrives, RunsIInv, RunOK, Row, KeyOf
<1>2. ASSUME NEW e \in Entry, NEW k \in Key, OperatorInserts(k, e)
      PROVE  RunsIInv'
  BY <1>2, InsertKeeps
<1>3. ASSUME NEW e \in Entry, NEW i \in DOMAIN table, OperatorSets(i, e)
      PROVE  RunsIInv'
  BY <1>3, SetKeeps
<1>4. ASSUME NEW i \in DOMAIN table, OperatorDeletes(i)
      PROVE  RunsIInv'
  BY <1>4, DeleteKeeps
<1>5. ASSUME NEW j \in Job, JobReads(j)
      PROVE  RunsIInv'
  <2>1. jobs'[j] = [phase |-> "read", data |-> Data]
    BY <1>5 DEF JobReads, RunsIInv
  <2>2. DOMAIN Data \subseteq Device \X Metric
    BY DEF Data
  <2>3. RunOK(j)'
    BY <2>1, <2>2 DEF RunOK
  <2> QED
    BY <1>5, <2>3, RunSteps DEF JobReads, RunsIInv
<1>6. ASSUME NEW j \in Job, JobComputes(j)
      PROVE  RunsIInv'
  <2> DEFINE data == jobs[j].data
             results == [k \in DOMAIN data \ Overrides |-> Limits[k[2]][data[k]]]
  <2>1. /\ jobs'[j] = [phase |-> "computed", results |-> results]
        /\ UNCHANGED <<table, nextId, disturbed>>
    BY <1>6 DEF JobComputes, RunsIInv
  <2>2. DOMAIN results = DOMAIN data \ Overrides /\ DOMAIN data \subseteq Device \X Metric
    BY <1>6 DEF JobComputes, RunsIInv, RunOK
  <2>3. \A i \in DOMAIN table : table[i].override = TRUE => KeyOf(table[i]) \in Overrides
    BY DEF Overrides
  <2> HIDE DEF results
  <2>4. RunOK(j)'
    BY <2>1, <2>2, <2>3 DEF RunOK, KeyOf
  <2> QED
    BY <1>6, <2>1, <2>4, RunSteps DEF JobComputes, RunsIInv
<1>7. ASSUME NEW j \in Job, NEW dryRun, JobCompares(j, dryRun)
      PROVE  RunsIInv'
  <2> DEFINE q == jobs[j]
  <2>1. /\ q.phase = "computed" /\ RunOK(j)
        /\ UNCHANGED <<table, nextId>>
        /\ disturbed' = [disturbed EXCEPT ![j] = IF jobs'[j] = Idle THEN {} ELSE @]
    BY <1>7 DEF JobCompares, RunsIInv
  <2>2. \/ jobs' = [jobs EXCEPT ![j] = Idle]
        \/ jobs' = [jobs EXCEPT ![j] =
               [phase |-> "compared", results |-> q.results,
                existing |-> {k \in DOMAIN q.results : RowsOf(k) # {}}]]
    BY <1>7 DEF JobCompares
  <2>3. CASE jobs' = [jobs EXCEPT ![j] = Idle]
    <3>1. RunOK(j)'
      BY <2>3, IdleIsOK DEF RunsIInv
    <3> QED
      BY <2>1, <2>3, <3>1, RunSteps DEF RunsIInv
  <2>4. CASE jobs' = [jobs EXCEPT ![j] =
               [phase |-> "compared", results |-> q.results,
                existing |-> {k \in DOMAIN q.results : RowsOf(k) # {}}]]
    <3>1. jobs'[j] = [phase |-> "compared", results |-> q.results,
                      existing |-> {k \in DOMAIN q.results : RowsOf(k) # {}}]
      BY <2>4 DEF RunsIInv
    <3>2. disturbed'[j] = disturbed[j]
      BY <2>1, <3>1 DEF Idle, RunsIInv
    <3>3. \A i \in DOMAIN table : RowsOf(KeyOf(table[i])) # {}
      BY DEF RowsOf
    <3>4. RunOK(j)'
      BY <2>1, <3>1, <3>2, <3>3 DEF RunOK, KeyOf
    <3> QED
      BY <2>1, <2>4, <3>4, RunSteps DEF RunsIInv
  <2> QED
    BY <2>2, <2>3, <2>4
<1>8. ASSUME NEW j \in Job, JobWrites(j)
      PROVE  RunsIInv'
  BY <1>8, WriteKeeps
<1>9. ASSUME NEW j \in Job, JobDies(j)
      PROVE  RunsIInv'
  <2>1. RunOK(j)'
    BY <1>9, IdleIsOK DEF JobDies, RunsIInv
  <2> QED
    BY <1>9, <2>1, RunSteps DEF JobDies, RunsIInv
<1>10. ASSUME UNCHANGED vars
       PROVE  RunsIInv'
  BY <1>10 DEF vars, RunsIInv, RunOK, Row, KeyOf
<1> QED
  BY <1>1, <1>2, <1>3, <1>4, <1>5, <1>6, <1>7, <1>8, <1>9, <1>10 DEF Next, JobStep

(* Whatever runs, operators and packets do, a run that is about to write a *)
(* key with an override, or to insert one that has a row, was overtaken.   *)
THEOREM RunsInvariant == Spec => []RunsIInv
<1>1. Init => RunsIInv
  BY RunsInit
<1>2. RunsIInv /\ [Next]_vars => RunsIInv'
  BY RunsNext
<1> QED
  BY <1>1, <1>2, PTL DEF Spec
-----------------------------------------------------------------------------
(* A step in which a compared run becomes idle writes its results or leaves *)
(* the table alone.                                                        *)
LEMMA EndOfRun ==
    ASSUME RunsIInv, [Next]_vars, NEW j \in Job,
           jobs[j].phase = "compared", jobs'[j] = Idle
    PROVE  JobWrites(j) \/ table' = table
<1>1. jobs[j] # Idle
  BY DEF Idle
<1>2. CASE jobs' = jobs
  BY <1>1, <1>2
<1>3. ASSUME NEW n \in Job, JobReads(n) \/ JobComputes(n) \/ JobDies(n)
      PROVE  table' = table
  BY <1>3 DEF JobReads, JobComputes, JobDies
<1>4. ASSUME NEW n \in Job, NEW dryRun, JobCompares(n, dryRun)
      PROVE  table' = table
  BY <1>4 DEF JobCompares
<1>5. ASSUME NEW n \in Job, JobWrites(n)
      PROVE  JobWrites(j)
  <2>1. jobs' = [jobs EXCEPT ![n] = Idle]
    BY <1>5 DEF JobWrites
  <2>2. n = j
    BY <1>1, <2>1 DEF RunsIInv
  <2> QED
    BY <1>5, <2>2
<1>6. ASSUME ~ \E n \in Job : JobReads(n) \/ JobStep(n) \/ JobDies(n)
      PROVE  jobs' = jobs
  BY <1>6 DEF Next, vars, PacketArrives, OperatorInserts, OperatorSets, OperatorDeletes
<1> QED
  BY <1>2, <1>3, <1>4, <1>5, <1>6 DEF JobStep

(* What a run does when it ends, for every step. *)
LEMMA RunEnds ==
    ASSUME RunsIInv, [Next]_vars, NEW j \in Job,
           jobs[j].phase = "compared", jobs'[j] = Idle
    PROVE  /\ \A i \in DOMAIN table :
                 table[i].override /\ table'[i] # table[i]
                     => KeyOf(table[i]) \in disturbed[j]
           /\ \A i \in DOMAIN table' \ DOMAIN table :
                 RowsOf(KeyOf(table'[i])) # {} => KeyOf(table'[i]) \in disturbed[j]
<1>1. CASE table' = table
  BY <1>1
<1>2. CASE JobWrites(j)
  <2> DEFINE q == jobs[j]
  <2>1. /\ q.existing \subseteq DOMAIN q.results
        /\ \A i \in DOMAIN table :
              table[i].override = TRUE /\ KeyOf(table[i]) \in DOMAIN q.results
                  => KeyOf(table[i]) \in disturbed[j]
        /\ \A i \in DOMAIN table :
              KeyOf(table[i]) \in DOMAIN q.results \ q.existing
                  => KeyOf(table[i]) \in disturbed[j]
    BY DEF RunsIInv, RunOK
  <2>2. /\ \A i \in DOMAIN table :
              KeyOf(table[i]) \notin q.existing => table'[i] = table[i]
        /\ \A i \in DOMAIN table' \ DOMAIN table :
              KeyOf(table'[i]) \in DOMAIN q.results \ q.existing
    BY <1>2, WriteShape
  <2>3. \A i \in DOMAIN table : table[i].override <=> table[i].override = TRUE
    OBVIOUS
  <2>4. \A i \in DOMAIN table :
           table[i].override /\ table'[i] # table[i] => KeyOf(table[i]) \in disturbed[j]
    BY <2>1, <2>2, <2>3
  <2>5. ASSUME NEW i \in DOMAIN table' \ DOMAIN table, RowsOf(KeyOf(table'[i])) # {}
        PROVE  KeyOf(table'[i]) \in disturbed[j]
    <3>1. PICK n \in DOMAIN table : KeyOf(table[n]) = KeyOf(table'[i])
      BY <2>5 DEF RowsOf
    <3> QED
      BY <2>1, <2>2, <3>1
  <2> QED
    BY <2>4, <2>5
<1> QED
  BY <1>1, <1>2, EndOfRun

(* RunsKeepToTheirs, for any number of runs, devices, operators and rows:  *)
(* a run changes an override, or inserts a second row of a key, only when  *)
(* that key was written while it was under way.                            *)
THEOREM RunsTouchTheirs == Spec => RunsKeepToTheirs
<1>1. RunsIInv /\ [Next]_vars => [\A j \in Job :
         jobs[j].phase = "compared" /\ jobs'[j] = Idle =>
             \A i \in DOMAIN table :
                 table[i].override /\ table'[i] # table[i]
                     => KeyOf(table[i]) \in disturbed[j]]_vars
  BY RunEnds
<1>2. RunsIInv /\ [Next]_vars => [\A j \in Job :
         jobs[j].phase = "compared" /\ jobs'[j] = Idle =>
             \A i \in DOMAIN table' \ DOMAIN table :
                 RowsOf(KeyOf(table'[i])) # {} => KeyOf(table'[i]) \in disturbed[j]]_vars
  BY RunEnds
<1> QED
  BY <1>1, <1>2, RunsInvariant, PTL DEF Spec, RunsKeepToTheirs, OverridesKept, InsertsOnlyNew
-----------------------------------------------------------------------------
LEMMA RateIsNat ==
    ASSUME NEW p \in Packet, NEW m \in Metric
    PROVE  RateOf(p, m) \in Nat
<1>1. p.items \in Nat \ {0} /\ p[Part[m]] \in Nat
  BY ThresholdsAssumption
<1>2. 100 * p[Part[m]] \in Nat
  BY <1>1
<1> QED
  BY <1>1, <1>2, DivNat DEF RateOf

(* The k-th smallest value is a value. *)
LEMMA RankedIn ==
    ASSUME NEW n \in Nat, NEW data \in [1 .. n -> Nat], NEW k \in 1 .. n
    PROVE  Ranked(data, k) \in Nat
<1> DEFINE R == {data[i] : i \in 1 .. n}
           upto(v) == {i \in 1 .. n : data[i] <= v}
           S == {v \in R : Cardinality(upto(v)) >= k}
<1>1. IsFiniteSet(1 .. n) /\ Cardinality(1 .. n) = n
  BY FS_Interval
<1>2. IsFiniteSet(R) /\ R \subseteq Nat
  <2>1. data \in Surjection(1 .. n, R)
    BY DEF Surjection
  <2>2. R \subseteq Nat
    OBVIOUS
  <2> HIDE DEF R
  <2> QED
    BY <1>1, <2>1, <2>2, FS_Surjection
<1>3. PICK v \in R : \A w \in R : w <= v
  <2>1. R # {}
    BY DEF R
  <2> HIDE DEF R
  <2> QED
    BY <1>2, <2>1, GreatestInt
<1>4. upto(v) = 1 .. n
  BY <1>3
<1>5. v \in S
  <2>1. Cardinality(upto(v)) = n
    BY <1>1, <1>4
  <2>2. n >= k
    OBVIOUS
  <2> HIDE DEF upto, R
  <2> QED BY <1>3, <2>1, <2>2
<1>6. S \in SUBSET Nat /\ S # {}
  BY <1>2, <1>5
<1>7. Ranked(data, k) = Min(S)
  BY DEF Ranked, Range
<1> HIDE DEF S
<1>8. Min(S) \in S
  BY <1>6, LeastNat DEF Min
<1> QED
  BY <1>6, <1>7, <1>8

(* Between two values. *)
LEMMA BlendIsNat ==
    ASSUME NEW a \in Nat, NEW b \in Nat, NEW r \in 0 .. 99
    PROVE  100 * a + (b - a) * r \in Nat
<1>1. CASE b >= a
  <2>1. b - a \in Nat /\ r \in Nat
    BY <1>1
  <2>2. (b - a) * r \in Nat
    BY <2>1
  <2> QED
    BY <2>2
<1>2. CASE b < a
  <2>1. r * a <= 100 * a /\ r * b >= 0 /\ r * a \in Int /\ r * b \in Int
    OBVIOUS
  <2>2. (b - a) * r = r * b - r * a
    OBVIOUS
  <2> QED
    BY <2>1, <2>2
<1> QED
  BY <1>1, <1>2

LEMMA PercentileIsNat ==
    ASSUME NEW n \in Nat \ {0}, NEW data \in [1 .. n -> Nat], NEW p \in {5, 90, 95}
    PROVE  Percentile(data, p) \in Nat
<1> DEFINE k == (n - 1) * p
           lo == k \div 100
           hi == IF lo + 1 < n THEN lo + 1 ELSE n - 1
<1>1. Len(data) = n /\ data # <<>>
  OBVIOUS
<1>2. k \in Nat /\ k <= 100 * (n - 1)
  OBVIOUS
<1>3. lo \in Nat /\ lo <= n - 1 /\ k % 100 \in 0 .. 99
  BY <1>2
<1>4. lo + 1 \in 1 .. n /\ hi + 1 \in 1 .. n
  BY <1>3
<1> DEFINE a == Ranked(data, lo + 1)
           b == Ranked(data, hi + 1)
<1>5. a \in Nat /\ b \in Nat
  <2> HIDE DEF lo, hi
  <2> QED BY <1>4, RankedIn
<1>6. Percentile(data, p) = 100 * a + (b - a) * (k % 100)
  BY <1>1 DEF Percentile
<1> DEFINE r == k % 100
<1>7. r \in 0 .. 99 /\ Percentile(data, p) = 100 * a + (b - a) * r
  BY <1>3, <1>6
<1> HIDE DEF a, b, r
<1> QED
  BY <1>5, <1>7, BlendIsNat

(* A larger rank has no smaller value. *)
LEMMA RankedMonotone ==
    ASSUME NEW n \in Nat, NEW data \in [1 .. n -> Nat], NEW k \in 1 .. n, NEW l \in k .. n
    PROVE  Ranked(data, k) <= Ranked(data, l)
<1> DEFINE upto(v) == {i \in 1 .. n : data[i] <= v}
           S(r) == {v \in Range(data) : Cardinality({i \in DOMAIN data : data[i] <= v}) >= r}
<1>1. Ranked(data, k) = Min(S(k)) /\ Ranked(data, l) = Min(S(l))
  BY DEF Ranked
<1>2. Range(data) \subseteq Nat
  BY DEF Range
<1>3. S(l) \subseteq S(k)
  <2> SUFFICES ASSUME NEW v \in S(l)
               PROVE  v \in S(k)
    OBVIOUS
  <2>1. /\ v \in Range(data)
        /\ Cardinality({i \in DOMAIN data : data[i] <= v}) >= l
    OBVIOUS
  <2>2. IsFiniteSet({i \in DOMAIN data : data[i] <= v})
    <3>1. IsFiniteSet(1 .. n)
      BY FS_Interval
    <3>2. {i \in DOMAIN data : data[i] <= v} \subseteq 1 .. n
      OBVIOUS
    <3> QED
      BY <3>1, <3>2, FS_Subset
  <2> DEFINE c == Cardinality({i \in DOMAIN data : data[i] <= v})
  <2>3. c \in Nat /\ c >= l
    BY <2>1, <2>2, FS_CardinalityType
  <2> HIDE DEF c
  <2>4. c >= k
    BY <2>3
  <2> QED
    BY <2>1, <2>4 DEF c
<1>4. S(k) \subseteq Nat /\ S(l) \subseteq Nat
  BY <1>2
<1>5. S(l) # {}
  <2> DEFINE R == Range(data)
  <2>1. R = {data[i] : i \in 1 .. n} /\ IsFiniteSet(1 .. n) /\ Cardinality(1 .. n) = n
    BY FS_Interval DEF Range
  <2>2. data \in Surjection(1 .. n, R)
    BY <2>1 DEF Surjection
  <2>3. R # {} /\ R \subseteq Nat /\ IsFiniteSet(R)
    <3>1. 1 \in 1 .. n
      OBVIOUS
    <3>2. R # {}
      BY <2>1, <3>1
    <3> HIDE DEF R
    <3> QED
      BY <1>2, <2>1, <2>2, <3>2, FS_Surjection DEF R
  <2>4. PICK v \in R : \A w \in R : w <= v
    <3> HIDE DEF R
    <3> QED BY <2>3, GreatestInt
  <2>5. {i \in DOMAIN data : data[i] <= v} = 1 .. n
    BY <2>1, <2>4
  <2>6. Cardinality({i \in DOMAIN data : data[i] <= v}) >= l
    <3> DEFINE U == {i \in DOMAIN data : data[i] <= v}
    <3>1. U = 1 .. n
      BY <2>5
    <3>2. Cardinality(1 .. n) = n
      BY <2>1
    <3>3. l \in Nat /\ l <= n
      OBVIOUS
    <3> HIDE DEF U, R, S, upto
    <3>4. Cardinality(U) = n
      BY <3>1, <3>2
    <3>5. Cardinality(U) >= l
      BY <3>3, <3>4
    <3> QED
      BY <3>5 DEF U
  <2>7. v \in S(l)
    BY <2>4, <2>6
  <2> QED
    BY <2>7
<1> HIDE DEF S
<1>6. Min(S(l)) \in S(l)
  BY <1>4, <1>5, LeastNat DEF Min
<1>7. Min(S(l)) \in S(k) /\ S(k) # {}
  BY <1>3, <1>6
<1>8. \A v \in S(k) : Min(S(k)) <= v
  BY <1>4, <1>7, LeastNat DEF Min
<1> QED
  BY <1>1, <1>7, <1>8

(* So the 95th percentile is no smaller than the 90th. *)
LEMMA PercentilesInOrder ==
    ASSUME NEW n \in Nat \ {0}, NEW data \in [1 .. n -> Nat]
    PROVE  Percentile(data, 90) <= Percentile(data, 95)
<1> DEFINE k(p) == (n - 1) * p
           lo(p) == k(p) \div 100
           hi(p) == IF lo(p) + 1 < n THEN lo(p) + 1 ELSE n - 1
           a(p) == Ranked(data, lo(p) + 1)
           b(p) == Ranked(data, hi(p) + 1)
           r(p) == k(p) % 100
<1>1. Len(data) = n /\ data # <<>>
  OBVIOUS
<1>2. \A p \in {90, 95} : k(p) \in Nat /\ k(p) <= 100 * (n - 1)
  OBVIOUS
<1>3. /\ lo(90) \in Nat /\ lo(95) \in Nat /\ lo(90) <= lo(95) /\ lo(95) <= n - 1
      /\ r(90) \in 0 .. 99 /\ r(95) \in 0 .. 99
      /\ lo(90) = lo(95) => r(90) <= r(95)
  <2> DEFINE x == k(90)
             y == k(95)
  <2>1. x \in Nat /\ y \in Nat /\ x <= y /\ y <= 100 * (n - 1)
    BY <1>2
  <2> HIDE DEF x, y
  <2>2. /\ x \div 100 \in Nat /\ y \div 100 \in Nat /\ x \div 100 <= y \div 100
        /\ y \div 100 <= n - 1
        /\ x % 100 \in 0 .. 99 /\ y % 100 \in 0 .. 99
        /\ x \div 100 = y \div 100 => x % 100 <= y % 100
    BY <2>1
  <2> QED
    BY <2>2 DEF x, y
<1> HIDE DEF k
<1>4. \A p \in {90, 95} : Percentile(data, p) = 100 * a(p) + (b(p) - a(p)) * r(p)
  BY <1>1 DEF Percentile, k
<1> HIDE DEF r
<1>5. /\ a(90) \in Nat /\ b(90) \in Nat /\ a(95) \in Nat /\ b(95) \in Nat
      /\ a(90) <= b(90) /\ a(95) <= b(95)
      /\ lo(90) = lo(95) => a(90) = a(95) /\ b(90) = b(95)
      /\ lo(90) < lo(95) => b(90) <= a(95)
  <2> DEFINE u == lo(90)
             v == lo(95)
             hu == IF u + 1 < n THEN u + 1 ELSE n - 1
             hv == IF v + 1 < n THEN v + 1 ELSE n - 1
  <2>1. u \in Nat /\ v \in Nat /\ u <= v /\ v <= n - 1
    BY <1>3
  <2>2. /\ a(90) = Ranked(data, u + 1) /\ a(95) = Ranked(data, v + 1)
        /\ b(90) = Ranked(data, hu + 1) /\ b(95) = Ranked(data, hv + 1)
    OBVIOUS
  <2> HIDE DEF a, b, u, v, lo
  <2>3. /\ u + 1 \in 1 .. n /\ v + 1 \in 1 .. n
        /\ hu + 1 \in u + 1 .. n /\ hv + 1 \in v + 1 .. n
        /\ hu + 1 \in 1 .. n /\ hv + 1 \in 1 .. n
        /\ u = v => hu = hv
        /\ u < v => v + 1 \in hu + 1 .. n
    BY <2>1
  <2> HIDE DEF hu, hv
  <2>4. /\ Ranked(data, u + 1) \in Nat /\ Ranked(data, v + 1) \in Nat
        /\ Ranked(data, hu + 1) \in Nat /\ Ranked(data, hv + 1) \in Nat
    BY <2>3, RankedIn
  <2>5. /\ Ranked(data, u + 1) <= Ranked(data, hu + 1)
        /\ Ranked(data, v + 1) <= Ranked(data, hv + 1)
        /\ u < v => Ranked(data, hu + 1) <= Ranked(data, v + 1)
    BY <2>3, RankedMonotone
  <2> QED
    BY <2>2, <2>3, <2>4, <2>5 DEF u, v
<1> DEFINE a1 == a(90)
           b1 == b(90)
           r1 == r(90)
           a2 == a(95)
           b2 == b(95)
           r2 == r(95)
<1>6. /\ Percentile(data, 90) = 100 * a1 + (b1 - a1) * r1
      /\ Percentile(data, 95) = 100 * a2 + (b2 - a2) * r2
  BY <1>4
<1>7. /\ a1 \in Nat /\ b1 \in Nat /\ a2 \in Nat /\ b2 \in Nat /\ a1 <= b1 /\ a2 <= b2
      /\ r1 \in 0 .. 99 /\ r2 \in 0 .. 99
      /\ (a1 = a2 /\ b1 = b2 /\ r1 <= r2) \/ b1 <= a2
  BY <1>3, <1>5
<1> HIDE DEF a1, b1, r1, a2, b2, r2
<1>8. CASE a1 = a2 /\ b1 = b2 /\ r1 <= r2
  <2>1. PICK w \in Nat : w = b1 - a1
    BY <1>7
  <2>2. PICK g \in Nat : g = r2 - r1
    BY <1>7, <1>8
  <2>3. r1 \in Nat /\ r2 = r1 + g
    BY <1>7, <2>2
  <2>4. w * (r1 + g) = w * r1 + w * g /\ w * g \in Nat /\ w * r1 \in Nat
    BY <2>3
  <2>5. /\ Percentile(data, 90) = 100 * a1 + w * r1
        /\ Percentile(data, 95) = 100 * a1 + w * (r1 + g)
    BY <1>6, <1>8, <2>1, <2>3
  <2> DEFINE x == w * r1
             y == w * g
             z == w * (r1 + g)
  <2>6. /\ Percentile(data, 90) = 100 * a1 + x /\ Percentile(data, 95) = 100 * a1 + z
        /\ z = x + y /\ x \in Nat /\ y \in Nat
    BY <2>4, <2>5
  <2> HIDE DEF x, y, z
  <2> QED
    BY <1>7, <2>6
<1>9. CASE b1 <= a2
  <2>1. PICK w \in Nat : w = b1 - a1
    BY <1>7
  <2>2. PICK z \in Nat : z = b2 - a2
    BY <1>7
  <2>3. w * r1 <= 100 * w /\ w * r1 \in Nat /\ z * r2 \in Nat
    BY <1>7, <2>1, <2>2
  <2> DEFINE x == w * r1
             y == z * r2
  <2>4. /\ Percentile(data, 90) = 100 * a1 + x /\ Percentile(data, 95) = 100 * a2 + y
        /\ x <= 100 * w /\ x \in Nat /\ y \in Nat
    BY <1>6, <2>1, <2>2, <2>3
  <2> HIDE DEF x, y
  <2>5. 100 * a1 + x <= 100 * b1
    BY <1>7, <2>1, <2>4
  <2> QED
    BY <1>7, <1>9, <2>4, <2>5
<1> QED
  BY <1>7, <1>8, <1>9
-----------------------------------------------------------------------------
LEMMA TotalIsNat ==
    ASSUME NEW n \in Nat, NEW data, DOMAIN data = 1 .. n,
           \A i \in 1 .. n : data[i] \in Nat
    PROVE  Total(data) \in Nat
<1>1. IsFiniteSet(1 .. n)
  BY FS_Interval
<1> QED
  BY <1>1, SumNat DEF Total, SumFunction

LEMMA RootIsNat ==
    ASSUME NEW x \in Nat
    PROVE  Root(x) \in Nat
<1> DEFINE F(p) == [y \in Nat |->
              IF y = 0 THEN 0
              ELSE CHOOSE r \in {2 * s + bit : s \in {p[y \div 4]}, bit \in 0 .. 1} :
                       r * r <= y /\ y < (r + 1) * (r + 1)]
           is(y, r) == r \in Nat /\ r * r <= y /\ y < (r + 1) * (r + 1)
           h == [y \in Nat |-> CHOOSE r \in Nat : is(y, r)]
<1>1. ASSUME NEW y \in Nat
      PROVE  \E r \in Nat : is(y, r)
  <2> DEFINE S == {r \in Nat : y < (r + 1) * (r + 1)}
  <2>1. y \in S
    OBVIOUS
  <2>2. PICK r \in S : \A q \in S : r <= q
    <3> HIDE DEF S
    <3>1. S \in SUBSET Nat
      BY DEF S
    <3> QED BY <2>1, <3>1, LeastNat
  <2>3. CASE r = 0
    BY <2>2, <2>3
  <2>4. CASE r # 0
    <3>1. r - 1 \in Nat /\ r - 1 \notin S
      BY <2>2, <2>4
    <3>2. r * r <= y
      BY <3>1
    <3> QED
      BY <2>2, <3>2
  <2> QED
    BY <2>3, <2>4
<1>2. ASSUME NEW y \in Nat, NEW r, NEW q, is(y, r), is(y, q)
      PROVE  r = q
  <2>1. r < q => (r + 1) * (r + 1) <= q * q
    BY <1>2
  <2>2. q < r => (q + 1) * (q + 1) <= r * r
    BY <1>2
  <2> QED
    BY <1>2, <2>1, <2>2
<1>3. ASSUME NEW y \in Nat
      PROVE  is(y, h[y])
  BY <1>1
<1>4. ASSUME NEW y \in Nat
      PROVE  h[y] = F(h)[y]
  <2> DEFINE q == y \div 4
             two == {2 * s + bit : s \in {h[q]}, bit \in 0 .. 1}
  <2>1. CASE y = 0
    <3>1. is(y, h[y])
      BY <1>3
    <3> HIDE DEF h
    <3>2. h[y] = 0
      BY <2>1, <3>1
    <3> QED
      BY <2>1, <3>2
  <2>2. CASE y # 0
    <3>1. q \in Nat /\ 4 * q <= y /\ y < 4 * q + 4
      OBVIOUS
    <3>2. is(q, h[q]) /\ is(y, h[y])
      BY <1>3, <3>1
    <3> DEFINE s == h[q]
               t == h[y]
    <3>3. t = 2 * s \/ t = 2 * s + 1
      <4>1. s \in Nat /\ s * s <= q /\ q + 1 <= (s + 1) * (s + 1)
        BY <3>1, <3>2
      <4>2. t \in Nat /\ t * t <= y /\ y < (t + 1) * (t + 1)
        BY <3>2
      <4> HIDE DEF s, t, q
      <4>3. (2 * s) * (2 * s) <= y /\ y < (2 * s + 2) * (2 * s + 2)
        <5>1. (2 * s) * (2 * s) = 4 * (s * s)
          BY <4>1
        <5>2. (2 * s + 2) * (2 * s + 2) = 4 * ((s + 1) * (s + 1))
          BY <4>1
        <5> QED
          BY <3>1, <4>1, <5>1, <5>2
      <4>4. ~(t < 2 * s)
        <5>1. t < 2 * s => (t + 1) * (t + 1) <= (2 * s) * (2 * s)
          BY <4>1, <4>2
        <5> QED
          BY <4>1, <4>2, <4>3, <5>1
      <4>5. ~(t >= 2 * s + 2)
        <5>1. t >= 2 * s + 2 => t * t >= (2 * s + 2) * (2 * s + 2)
          BY <4>1, <4>2
        <5> QED
          BY <4>1, <4>2, <4>3, <5>1
      <4> QED
        BY <4>1, <4>2, <4>4, <4>5
    <3>4. two = {2 * s, 2 * s + 1}
      <4>1. s \in Nat
        BY <3>2
      <4> HIDE DEF s
      <4>2. {2 * c + bit : c \in {s}, bit \in 0 .. 1} = {2 * s, 2 * s + 1}
        BY <4>1
      <4>3. two = {2 * c + bit : c \in {s}, bit \in 0 .. 1}
        BY DEF s
      <4> HIDE DEF two
      <4> QED BY <4>2, <4>3
    <3>5. t \in two /\ \A r \in two : r \in Nat
      <4>1. s \in Nat
        BY <3>2
      <4> HIDE DEF s, t, two
      <4> QED BY <3>3, <3>4, <4>1
    <3>6. \A r \in two : r * r <= y /\ y < (r + 1) * (r + 1) <=> r = t
      <4> HIDE DEF two
      <4>1. is(y, t)
        BY <3>2
      <4>2. \A r \in two : is(y, r) => r = t
        BY <1>2, <4>1
      <4>3. \A r \in two : is(y, r) <=> r * r <= y /\ y < (r + 1) * (r + 1)
        BY <3>5
      <4> HIDE DEF is, t
      <4> QED BY <4>1, <4>2, <4>3
    <3>7. (CHOOSE r \in two : r * r <= y /\ y < (r + 1) * (r + 1)) = t
      <4> HIDE DEF two, t
      <4> QED BY <3>5, <3>6
    <3>8. F(h)[y] = CHOOSE r \in two : r * r <= y /\ y < (r + 1) * (r + 1)
      BY <2>2
    <3> HIDE DEF F, h, two
    <3> QED
      BY <3>7, <3>8
  <2> QED
    BY <2>1, <2>2
<1>5. h = F(h)
  <2>1. h = [y \in Nat |-> h[y]]
    OBVIOUS
  <2> DEFINE G(y) == F(h)[y]
  <2>2. F(h) = [y \in Nat |-> G(y)]
    OBVIOUS
  <2>3. \A y \in Nat : h[y] = G(y)
    BY <1>4
  <2> HIDE DEF h, F, G
  <2> QED
    BY <2>1, <2>2, <2>3
<1> DEFINE it == CHOOSE p : p = F(p)
<1>6. it = F(it)
  <2> HIDE DEF F, h
  <2> QED BY <1>5
<1>7. \A y \in Nat : it[y] = h[y]
  <2> DEFINE bad == {y \in Nat : it[y] # h[y]}
  <2>1. ASSUME bad # {}
        PROVE  FALSE
    <3>1. PICK y \in bad : \A z \in bad : y <= z
      <4> HIDE DEF bad
      <4>1. bad \in SUBSET Nat
        BY DEF bad
      <4> QED BY <2>1, <4>1, LeastNat
    <3> HIDE DEF it, h
    <3>2. y \in Nat /\ it[y] = F(it)[y] /\ h[y] = F(h)[y] /\ it[y] # h[y]
      <4> HIDE DEF F
      <4> QED BY <1>4, <1>6, <3>1
    <3> HIDE DEF bad
    <3>3. y # 0
      BY <3>2
    <3>4. y \div 4 \in Nat /\ ~(y <= y \div 4)
      BY <3>2, <3>3
    <3>5. y \div 4 \notin bad
      BY <3>1, <3>4
    <3>6. it[y \div 4] = h[y \div 4]
      BY <3>4, <3>5 DEF bad
    <3> QED
      BY <3>2, <3>3, <3>6
  <2> HIDE DEF it, h
  <2> QED
    BY <2>1
<1>8. Root(x) = it[x]
  BY DEF Root
<1>9. h[x] \in Nat
  BY <1>3
<1> HIDE DEF it, h
<1> QED
  BY <1>7, <1>8, <1>9

(* A sum of squares: never negative, whatever the values. *)
LEMMA DeviationIsNat ==
    ASSUME NEW n \in Nat \ {0}, NEW data \in [1 .. n -> Nat]
    PROVE  Deviation(data) \in Nat
<1> DEFINE away(i) == n * data[i] - Total(data)
           squares == [i \in 1 .. n |-> away(i) * away(i)]
<1>1. Len(data) = n /\ Total(data) \in Nat
  BY TotalIsNat
<1>2. ASSUME NEW i \in 1 .. n
      PROVE  squares[i] \in Nat
  <2>1. away(i) \in Int
    BY <1>1
  <2>2. \A a \in Int : a * a \in Nat
    OBVIOUS
  <2> QED
    BY <2>1, <2>2
<1>3. Total(squares) \in Nat
  <2>1. DOMAIN squares = 1 .. n
    OBVIOUS
  <2> HIDE DEF squares
  <2> QED BY <1>2, <2>1, TotalIsNat
<1>4. CASE n = 1
  BY <1>1, <1>4 DEF Deviation
<1>5. CASE n # 1
  <2> DEFINE x == (10000 * Total(squares)) \div (n - 1)
  <2>1. x \in Nat
    <3> DEFINE t == 10000 * Total(squares)
    <3>1. t \in Nat /\ n - 1 \in Nat \ {0}
      <4> HIDE DEF squares
      <4> QED BY <1>3, <1>5
    <3>2. x = t \div (n - 1)
      OBVIOUS
    <3> HIDE DEF t, x
    <3> QED BY <3>1, <3>2, DivNat
  <2>2. Deviation(data) = Root(x)
    BY <1>1, <1>5 DEF Deviation
  <2> HIDE DEF x
  <2> QED
    BY <2>1, <2>2, RootIsNat
<1> QED
  BY <1>4, <1>5

LEMMA LinesAreNat ==
    ASSUME NEW n \in Nat \ {0}, NEW data \in [1 .. n -> Nat]
    PROVE  WarnLine(data) \in Nat /\ Statistical(data) \in Nat
<1> DEFINE t == Total(data)
           p == Percentile(data, 5)
           dev == Deviation(data)
<1>1. t \in Nat /\ p \in Nat /\ dev \in Nat /\ Len(data) = n
  BY TotalIsNat, PercentileIsNat, DeviationIsNat
<1>2. WarnLine(data) = (100 * t * 85) \div 100
  BY DEF WarnLine, Mean
<1>3. Statistical(data) = Larger(p * n, 100 * t - 3 * dev)
  BY <1>1 DEF Statistical, Mean
<1> HIDE DEF t, p, dev
<1>4. p * n \in Nat
  BY <1>1
<1> QED
  BY <1>1, <1>2, <1>3, <1>4 DEF Larger
-----------------------------------------------------------------------------
(* Rounding to four digits: kept in order, and apart when they are. *)
LEMMA RoundIsNat ==
    ASSUME NEW v \in Nat, NEW n \in Nat \ {0}
    PROVE  Round(v, n) \in Nat
BY DivNat DEF Round

LEMMA RoundMono ==
    ASSUME NEW v \in Nat, NEW w \in Nat, v <= w, NEW n \in Nat \ {0}
    PROVE  Round(v, n) <= Round(w, n)
<1>1. 200 * v + n <= 200 * w + n /\ 2 * n \in Nat \ {0}
  OBVIOUS
<1> QED
  BY <1>1, DivMono DEF Round

LEMMA RoundApart ==
    ASSUME NEW v \in Nat, NEW w \in Nat, NEW n \in Nat \ {0}, n <= 100 * (w - v)
    PROVE  Round(v, n) < Round(w, n)
<1> DEFINE a == 200 * v + n
           b == 200 * w + n
           d == 2 * n
<1>1. a \in Int /\ b \in Int /\ d \in Nat \ {0} /\ a + d <= b
  OBVIOUS
<1>2. Round(v, n) = a \div d /\ Round(w, n) = b \div d
  BY DEF Round
<1> HIDE DEF a, b, d
<1>3. (a + d) \div d = (a \div d) + 1
  BY <1>1, DivStep
<1>4. (a + d) \div d <= b \div d
  BY <1>1, DivMono
<1>5. a \div d \in Int /\ b \div d \in Int
  BY <1>1
<1> QED
  BY <1>2, <1>3, <1>4, <1>5

(* The limits for good reads: not negative, the hard limit never above the *)
(* warning line, and under it unless the line is zero or rounding closes   *)
(* the gap.                                                                *)
LEMMA GoodReadLimits ==
    ASSUME NEW n \in Nat \ {0}, NEW data \in [1 .. n -> Nat]
    PROVE  LET t == DeriveGoodRead(data)
           IN  /\ t[1] \in Nat /\ t[2] \in Nat /\ t[2] <= t[1]
               /\ \/ t[1] = 0
                  \/ t[2] < t[1]
                  \/ /\ Statistical(data) < WarnLine(data)
                     /\ ~(n <= 100 * (WarnLine(data) - Statistical(data)))
<1> DEFINE w == WarnLine(data)
           s == Statistical(data)
           b == IF s >= w THEN Larger(0, w - 100 * n) ELSE s
           t == DeriveGoodRead(data)
<1>1. w \in Nat /\ s \in Nat /\ Len(data) = n
  BY LinesAreNat
<1>2. t[1] = Round(w, n) /\ t[2] = Round(b, n)
  BY <1>1 DEF DeriveGoodRead
<1> HIDE DEF w, s, t
<1>3. b \in Nat /\ b <= w
  BY <1>1 DEF Larger
<1>4. t[1] \in Nat /\ t[2] \in Nat /\ t[2] <= t[1]
  <2> HIDE DEF b
  <2> QED BY <1>1, <1>2, <1>3, RoundIsNat, RoundMono
<1>5. CASE s >= w
  <2>1. CASE w >= 100 * n
    <3>1. n <= 100 * (w - b)
      BY <1>1, <1>5, <2>1 DEF Larger
    <3> HIDE DEF b
    <3>2. t[2] < t[1]
      BY <1>1, <1>2, <1>3, <3>1, RoundApart
    <3> QED
      BY <1>4, <3>2 DEF t
  <2>2. CASE ~(w >= 100 * n)
    <3>1. b = 0
      BY <1>1, <1>5, <2>2 DEF Larger
    <3>2. Round(0, n) = 0
      BY DEF Round
    <3>3. t[1] = 0 \/ t[2] < t[1]
      BY <1>2, <1>4, <3>1, <3>2
    <3> QED
      BY <1>4, <3>3 DEF t
  <2> QED
    BY <2>1, <2>2
<1>6. CASE s < w
  <2>1. CASE n <= 100 * (w - s)
    <3>1. t[2] < t[1]
      BY <1>1, <1>2, <1>6, <2>1, RoundApart
    <3> QED
      BY <1>4, <3>1 DEF t
  <2>2. CASE ~(n <= 100 * (w - s))
    BY <1>4, <1>6, <2>2 DEF t, w, s
  <2> QED
    BY <2>1, <2>2
<1> QED
  BY <1>1, <1>5, <1>6

LEMMA NoDimLimits ==
    ASSUME NEW n \in Nat \ {0}, NEW data \in [1 .. n -> Nat]
    PROVE  DeriveNoDim(data)[1] \in Nat /\ DeriveNoDim(data)[2] \in Nat
<1> DEFINE p90 == Percentile(data, 90)
           p95 == Percentile(data, 95)
<1>1. p90 \in Nat /\ p95 \in Nat
  BY PercentileIsNat
<1> HIDE DEF p90, p95
<1> QED
  BY <1>1 DEF DeriveNoDim, DefaultLine, p90, p95

(* A warning line that comes from packets lies under its hard limit. *)
LEMMA NoDimInOrder ==
    ASSUME NEW n \in Nat \ {0}, NEW data \in [1 .. n -> Nat]
    PROVE  \/ DeriveNoDim(data)[2] > DeriveNoDim(data)[1]
           \/ DeriveNoDim(data)[1] = DefaultLine
<1> DEFINE p90 == Percentile(data, 90)
           p95 == Percentile(data, 95)
<1>1. p90 \in Nat /\ p95 \in Nat /\ p90 <= p95
  BY PercentileIsNat, PercentilesInOrder
<1>2. DeriveNoDim(data) = <<IF p90 > 0 THEN p90 * 150 ELSE DefaultLine,
                            IF p95 > 0 THEN p95 * 200 ELSE 50000>>
  BY DEF DeriveNoDim
<1> HIDE DEF p90, p95
<1>3. CASE p90 > 0
  <2>1. DeriveNoDim(data)[1] = p90 * 150 /\ DeriveNoDim(data)[2] = p95 * 200
    BY <1>1, <1>2, <1>3
  <2> QED
    BY <1>1, <1>3, <2>1
<1>4. CASE ~(p90 > 0)
  BY <1>2, <1>4
<1> QED
  BY <1>3, <1>4

(* The rates of packets are what the limits are tabulated for. *)
LEMMA LimitsOf ==
    ASSUME NEW m \in Metric, NEW data \in DOMAIN Limits[m]
    PROVE  /\ Limits[m][data] = Derive(m, data)
           /\ \E n \in Nat \ {0} : data \in [1 .. n -> Nat] /\ Len(data) = n
<1> DEFINE R == {RateOf(p, m) : p \in Packet}
<1>1. Limits[m] = [d \in BoundedSeq(R, Window) \ {<<>>} |-> Derive(m, d)]
  BY Zenon DEF Limits
<1>2. R \subseteq Nat
  BY RateIsNat
<1> HIDE DEF R
<1>3. data \in BoundedSeq(R, Window) /\ data # <<>> /\ Limits[m][data] = Derive(m, data)
  BY <1>1
<1>4. PICK n \in 0 .. Window : data \in [1 .. n -> R]
  BY <1>3 DEF BoundedSeq, SeqOf
<1>5. n \in Nat
  BY ThresholdsAssumption
<1>6. n # 0
  BY <1>3, <1>4
<1>7. data \in [1 .. n -> Nat]
  <2>1. \A i \in 1 .. n : data[i] \in Nat
    BY <1>2, <1>4
  <2> QED
    BY <1>4, <2>1
<1>8. Len(data) = n
  BY <1>5, <1>7
<1> QED
  BY <1>3, <1>5, <1>6, <1>7, <1>8

LEMMA LimitsAreNat ==
    ASSUME NEW m \in Metric, NEW data \in DOMAIN Limits[m]
    PROVE  Limits[m][data][1] \in Nat /\ Limits[m][data][2] \in Nat
<1>1. PICK n \in Nat \ {0} : data \in [1 .. n -> Nat]
  BY LimitsOf
<1>2. Limits[m][data] = Derive(m, data)
  BY LimitsOf
<1> QED
  BY <1>1, <1>2, GoodReadLimits, NoDimLimits DEF Derive
-----------------------------------------------------------------------------
(* What a run has read are rates of packets, and what it will write are    *)
(* the limits of such rates.                                               *)
Offered(j) ==
    /\ jobs[j].phase \in {"idle", "read", "computed", "compared"}
    /\ jobs[j].phase = "read" =>
          \A k \in DOMAIN jobs[j].data : jobs[j].data[k] \in DOMAIN Limits[k[2]]
    /\ jobs[j].phase \in {"computed", "compared"} =>
          \A k \in DOMAIN jobs[j].results :
              \E data \in DOMAIN Limits[k[2]] : jobs[j].results[k] = Limits[k[2]][data]

RowType == [of : Device \cup Customer, metric : Metric,
            warn : Nat \cup {NoValue}, bad : Nat \cup {NoValue}, override : BOOLEAN]

(* The inductive invariant of the limits; it needs RunsIInv besides. *)
LimitsIInv ==
    /\ packets \in [Device -> BoundedSeq(Packet, Window)]
    /\ nextId \in Nat \ {0}
    /\ DOMAIN table \subseteq 1 .. nextId - 1
    /\ \A i \in DOMAIN table : table[i] \in RowType
    /\ \A j \in Job : Offered(j) /\ disturbed[j] \subseteq Key

LEMMA LimitsInit == Init => LimitsIInv
<1> SUFFICES ASSUME Init
             PROVE  LimitsIInv
  OBVIOUS
<1>1. packets \in [Device -> BoundedSeq(Packet, Window)]
  <2>1. History \subseteq BoundedSeq(Packet, Window)
    BY ThresholdsAssumption
  <2> QED
    BY <2>1 DEF Init
<1>2. \A j \in Job : Offered(j) /\ disturbed[j] \subseteq Key
  BY DEF Init, Offered, Idle
<1>3. DOMAIN table = {} /\ nextId = 1
  BY DEF Init
<1> QED
  BY <1>1, <1>2, <1>3 DEF LimitsIInv

(* The limits a run will write are numbers, for devices. *)
LEMMA OfferedAreNat ==
    ASSUME RunsIInv, LimitsIInv, NEW j \in Job, jobs[j].phase = "compared",
           NEW k \in DOMAIN jobs[j].results
    PROVE  /\ k \in Device \X Metric
           /\ jobs[j].results[k][1] \in Nat /\ jobs[j].results[k][2] \in Nat
           /\ k[2] = "good_read_pct" => jobs[j].results[k][2] <= jobs[j].results[k][1]
<1>1. k \in Device \X Metric
  BY DEF RunsIInv, RunOK
<1>2. k[2] \in Metric
  BY <1>1
<1>3. PICK data \in DOMAIN Limits[k[2]] : jobs[j].results[k] = Limits[k[2]][data]
  BY DEF LimitsIInv, Offered
<1>4. Limits[k[2]][data][1] \in Nat /\ Limits[k[2]][data][2] \in Nat
  BY <1>2, LimitsAreNat
<1>5. ASSUME k[2] = "good_read_pct"
      PROVE  Limits[k[2]][data][2] <= Limits[k[2]][data][1]
  <2>1. PICK n \in Nat \ {0} : data \in [1 .. n -> Nat]
    BY <1>2, LimitsOf
  <2>2. Limits[k[2]][data] = DeriveGoodRead(data)
    BY <1>2, <1>5, LimitsOf DEF Derive
  <2> QED
    BY <2>1, <2>2, GoodReadLimits
<1> QED
  BY <1>1, <1>3, <1>4, <1>5

LEMMA BoundedAppend ==
    ASSUME NEW S, NEW w \in Nat \ {0}, NEW s \in BoundedSeq(S, w), NEW p \in S
    PROVE  (IF Len(s) < w THEN Append(s, p) ELSE Append(Tail(s), p)) \in BoundedSeq(S, w)
<1>1. PICK n \in 0 .. w : s \in [1 .. n -> S]
  BY DEF BoundedSeq, SeqOf
<1>2. s \in Seq(S) /\ Len(s) = n
  BY <1>1
<1>3. ASSUME NEW t \in Seq(S), Len(t) \in 0 .. w
      PROVE  t \in BoundedSeq(S, w)
  <2>1. t \in [1 .. Len(t) -> S]
    BY <1>3
  <2> QED
    BY <1>3, <2>1 DEF BoundedSeq, SeqOf
<1>4. CASE Len(s) < w
  <2>1. Append(s, p) \in Seq(S) /\ Len(Append(s, p)) = n + 1
    BY <1>2
  <2>2. n + 1 \in 0 .. w
    BY <1>2, <1>4
  <2>3. Append(s, p) \in BoundedSeq(S, w)
    BY <1>3, <2>1, <2>2
  <2> QED
    BY <1>4, <2>3
<1>5. CASE ~(Len(s) < w)
  <2>1. n = w /\ s # <<>>
    BY <1>2, <1>5
  <2>2. Tail(s) \in Seq(S) /\ Len(Tail(s)) = n - 1
    BY <1>2, <2>1
  <2>3. Append(Tail(s), p) \in Seq(S) /\ Len(Append(Tail(s), p)) = n
    BY <2>2
  <2> QED
    BY <1>2, <1>3, <1>5, <2>1, <2>3
<1> QED
  BY <1>4, <1>5

(* The rates a run reads of a device. *)
LEMMA DataOffered ==
    ASSUME LimitsIInv, NEW k \in DOMAIN Data
    PROVE  Data[k] \in DOMAIN Limits[k[2]]
<1> DEFINE d == k[1]
           m == k[2]
           kept == {i \in DOMAIN packets[d] : packets[d][i].items >= 50}
           R == {RateOf(p, m) : p \in Packet}
<1>1. d \in Device /\ m \in Metric /\ Data[k] = Rates(d, m) /\ Rates(d, m) # <<>>
  BY DEF Data
<1> HIDE DEF d, m
<1>2. PICK n \in 0 .. Window : packets[d] \in [1 .. n -> Packet]
  BY <1>1 DEF LimitsIInv, BoundedSeq, SeqOf
<1>3. n \in Nat /\ n <= Window /\ Window \in Nat
  BY ThresholdsAssumption
<1>4. IsFiniteSet(kept) /\ Cardinality(kept) <= n
  <2>1. IsFiniteSet(1 .. n) /\ Cardinality(1 .. n) = n
    BY <1>3, FS_Interval
  <2>2. kept \in SUBSET (1 .. n)
    BY <1>2
  <2> HIDE DEF kept
  <2> QED
    BY <2>1, <2>2, FS_Subset
<1> DEFINE q == SetToSeq(kept)
<1>5. /\ Len(q) = Cardinality(kept) /\ DOMAIN q = 1 .. Len(q)
      /\ \A i \in 1 .. Len(q) : q[i] \in kept
  <2> HIDE DEF kept
  <2> QED
    BY <1>4, SetToSeqElements
<1>6. Rates(d, m) = [i \in 1 .. Len(q) |-> RateOf(packets[d][q[i]], m)]
  <2>1. Rates(d, m) = [i \in DOMAIN q |-> RateOf(packets[d][q[i]], m)]
    BY Zenon DEF Rates
  <2> HIDE DEF q
  <2> QED
    BY <1>5, <2>1
<1>7. Len(q) \in 0 .. Window
  <2>1. Cardinality(kept) \in Nat
    BY <1>4, FS_CardinalityType
  <2> HIDE DEF q, kept
  <2> QED
    BY <1>3, <1>4, <1>5, <2>1
<1>8. \A i \in 1 .. Len(q) : RateOf(packets[d][q[i]], m) \in R
  <2>1. \A i \in 1 .. Len(q) : packets[d][q[i]] \in Packet
    BY <1>2, <1>5
  <2> HIDE DEF q
  <2> QED
    BY <2>1
<1> HIDE DEF q, R
<1>9. Rates(d, m) \in [1 .. Len(q) -> R]
  BY <1>6, <1>8
<1>10. Rates(d, m) \in BoundedSeq(R, Window) \ {<<>>}
  BY <1>1, <1>7, <1>9 DEF BoundedSeq, SeqOf
<1>11. DOMAIN Limits[m] = BoundedSeq(R, Window) \ {<<>>}
  BY <1>1 DEF Limits, R
<1> QED
  BY <1>1, <1>10, <1>11 DEF m
-----------------------------------------------------------------------------
(* The write of a run, value by value: a row stays, or has the limits of   *)
(* the result of its key.                                                  *)
LEMMA WriteValues ==
    ASSUME RunsIInv, LimitsIInv, NEW j \in Job, JobWrites(j)
    PROVE  LET q == jobs[j] IN
           /\ q.phase = "compared"
           /\ nextId' \in Nat \ {0} /\ DOMAIN table' \subseteq 1 .. nextId' - 1
           /\ \A i \in DOMAIN table' :
                 \/ i \in DOMAIN table /\ table'[i] = table[i]
                 \/ \E k \in DOMAIN q.results :
                       /\ k \in Device \X Metric
                       /\ table'[i] = [of |-> k[1], metric |-> k[2],
                                       warn |-> q.results[k][1], bad |-> q.results[k][2],
                                       override |-> table'[i].override]
                       /\ table'[i].override \in BOOLEAN
<1> DEFINE q == jobs[j]
           new == SetToSeq(DOMAIN q.results \ q.existing)
           old == [k \in q.existing |-> q.results[k]]
           last == nextId + Len(new) - 1
<1>1. /\ q.phase = "compared"
      /\ table' = [i \in DOMAIN table \cup nextId .. last |->
              IF i \in DOMAIN table THEN Updated(old)[i]
              ELSE LET k == new[i - nextId + 1]
                   IN  [of |-> k[1], metric |-> k[2], warn |-> q.results[k][1],
                        bad |-> q.results[k][2], override |-> FALSE]]
      /\ nextId' = nextId + Len(new)
  BY DEF JobWrites
<1>2. /\ Len(new) \in Nat
      /\ \A n \in 1 .. Len(new) : new[n] \in DOMAIN q.results \ q.existing
      /\ DOMAIN q.results \subseteq Device \X Metric
      /\ q.existing \subseteq DOMAIN q.results
  <2>1. q.existing \subseteq DOMAIN q.results
    BY <1>1 DEF RunsIInv, RunOK
  <2> QED
    BY <1>1, <2>1, ResultsFinite, SetToSeqElements
<1>3. nextId \in Nat \ {0} /\ DOMAIN table \subseteq 1 .. nextId - 1
  BY DEF LimitsIInv
<1>4. nextId' \in Nat \ {0} /\ DOMAIN table' \subseteq 1 .. nextId' - 1
  <2>1. DOMAIN table' = DOMAIN table \cup nextId .. last
    BY <1>1
  <2> HIDE DEF new
  <2>2. 1 .. nextId - 1 \subseteq 1 .. nextId' - 1 /\ nextId .. last \subseteq 1 .. nextId' - 1
    BY <1>1, <1>2, <1>3
  <2> QED
    BY <1>1, <1>2, <1>3, <2>1, <2>2
<1>5. ASSUME NEW i \in DOMAIN table, table'[i] # table[i]
      PROVE  \E k \in DOMAIN q.results :
                /\ k \in Device \X Metric
                /\ table'[i] = [of |-> k[1], metric |-> k[2],
                                warn |-> q.results[k][1], bad |-> q.results[k][2],
                                override |-> table'[i].override]
                /\ table'[i].override \in BOOLEAN
  <2> DEFINE k == KeyOf(table[i])
             r == table[i]
  <2>1. table'[i] = Updated(old)[i]
    BY <1>1
  <2>2. r = [of |-> r.of, metric |-> r.metric, warn |-> r.warn, bad |-> r.bad,
             override |-> r.override] /\ r.override \in BOOLEAN
    BY DEF LimitsIInv, RowType
  <2>3. k \in q.existing
    BY <1>5, <2>1 DEF Updated
  <2>4. k \in DOMAIN q.results /\ k \in Device \X Metric
    BY <1>2, <2>3
  <2>5. k = <<r.of, r.metric>>
    BY DEF KeyOf
  <2> HIDE DEF k
  <2>6. old[k] = q.results[k] /\ k \in DOMAIN old
    BY <2>3
  <2> HIDE DEF old
  <2>7. table'[i] = [r EXCEPT !.warn = q.results[k][1], !.bad = q.results[k][2]]
    BY <2>1, <2>6 DEF Updated, k
  <2> DEFINE w == q.results[k][1]
             b == q.results[k][2]
  <2> HIDE DEF w, b, r, q
  <2>8. table'[i] = [of |-> r.of, metric |-> r.metric, warn |-> w, bad |-> b,
                     override |-> r.override]
    BY <2>2, <2>7 DEF w, b
  <2>9. table'[i] = [of |-> k[1], metric |-> k[2], warn |-> w, bad |-> b,
                     override |-> table'[i].override]
    BY <2>5, <2>8
  <2>10. table'[i].override \in BOOLEAN
    BY <2>2, <2>8
  <2> QED
    BY <2>4, <2>9, <2>10 DEF w, b, q
<1>6. ASSUME NEW i \in DOMAIN table', i \notin DOMAIN table
      PROVE  \E k \in DOMAIN q.results :
                /\ k \in Device \X Metric
                /\ table'[i] = [of |-> k[1], metric |-> k[2],
                                warn |-> q.results[k][1], bad |-> q.results[k][2],
                                override |-> table'[i].override]
                /\ table'[i].override \in BOOLEAN
  <2> DEFINE k == new[i - nextId + 1]
  <2>1. i \in nextId .. last
    BY <1>1, <1>6
  <2>2. i - nextId + 1 \in 1 .. Len(new)
    <3> HIDE DEF new
    <3> QED BY <1>2, <1>3, <2>1
  <2>3. k \in DOMAIN q.results /\ k \in Device \X Metric
    BY <1>2, <2>2
  <2>4. table'[i] = [of |-> k[1], metric |-> k[2], warn |-> q.results[k][1],
                     bad |-> q.results[k][2], override |-> FALSE]
    BY <1>1, <1>6, <2>1
  <2> HIDE DEF k, q
  <2>5. table'[i].override = FALSE
    BY <2>4
  <2> QED
    BY <2>3, <2>4, <2>5
<1> QED
  BY <1>1, <1>4, <1>5, <1>6

(* Steps of a run that leave packets and table alone. *)
LEMMA LimitsRunStep ==
    ASSUME RunsIInv, LimitsIInv, NEW j \in Job,
           UNCHANGED <<packets, table, nextId>>,
           NEW q, jobs' = [jobs EXCEPT ![j] = q],
           \A n \in Job : disturbed'[n] \subseteq disturbed[n],
           Offered(j)'
    PROVE  LimitsIInv'
<1>1. ASSUME NEW n \in Job
      PROVE  Offered(n)'
  <2>1. CASE n = j
    BY <2>1
  <2>2. CASE n # j
    <3>1. jobs'[n] = jobs[n]
      BY <2>2 DEF RunsIInv
    <3> QED
      BY <3>1 DEF LimitsIInv, Offered
  <2> QED
    BY <2>1, <2>2
<1> QED
  BY <1>1 DEF LimitsIInv, RowType

(* Steps that write keys. *)
LEMMA LimitsWriteStep ==
    ASSUME RunsIInv, LimitsIInv, NEW keys \in SUBSET Key, NEW others, Disturb(keys, others),
           UNCHANGED packets,
           \A j \in Job : jobs'[j] = jobs[j] \/ jobs'[j] = Idle,
           nextId' \in Nat \ {0}, DOMAIN table' \subseteq 1 .. nextId' - 1,
           \A i \in DOMAIN table' : table'[i] \in RowType
    PROVE  LimitsIInv'
<1>1. ASSUME NEW j \in Job
      PROVE  Offered(j)'
  <2>1. CASE jobs'[j] = jobs[j]
    BY <2>1 DEF LimitsIInv, Offered
  <2>2. CASE jobs'[j] = Idle
    BY <2>2 DEF Offered, Idle
  <2> QED
    BY <2>1, <2>2
<1>2. \A j \in Job : disturbed'[j] \subseteq Key
  BY DEF Disturb, LimitsIInv
<1> QED
  BY <1>1, <1>2 DEF LimitsIInv, RowType
-----------------------------------------------------------------------------
LEMMA LimitsInsert ==
    ASSUME RunsIInv, LimitsIInv, NEW e \in Entry, NEW k \in Key, OperatorInserts(k, e)
    PROVE  LimitsIInv'
<1> DEFINE r == [of |-> k[1], metric |-> k[2], warn |-> e.warn, bad |-> e.bad,
                 override |-> e.override]
<1>1. /\ nextId \in Nat \ {0} /\ DOMAIN table \subseteq 1 .. nextId - 1
      /\ \A i \in DOMAIN table : table[i] \in RowType
  BY DEF LimitsIInv
<1>2. /\ Disturb({k}, Job) /\ UNCHANGED <<packets, jobs>> /\ nextId' = nextId + 1
      /\ table' = [i \in DOMAIN table \cup {nextId} |->
                     IF i \in DOMAIN table THEN table[i] ELSE r]
  BY DEF OperatorInserts
<1>3. r \in RowType
  <2>1. e \in [warn : Nat \cup {NoValue}, bad : Nat \cup {NoValue}, override : BOOLEAN]
    BY ThresholdsAssumption
  <2>2. k[1] \in Device \cup Customer /\ k[2] \in Metric
    BY DEF Key
  <2> QED
    BY <2>1, <2>2 DEF RowType
<1> HIDE DEF r
<1>4. \A i \in DOMAIN table' : table'[i] \in RowType
  BY <1>1, <1>2, <1>3
<1>5. nextId' \in Nat \ {0} /\ DOMAIN table' \subseteq 1 .. nextId' - 1
  BY <1>1, <1>2
<1> QED
  BY <1>2, <1>4, <1>5, LimitsWriteStep

LEMMA LimitsSet ==
    ASSUME RunsIInv, LimitsIInv, NEW e \in Entry, NEW i \in DOMAIN table, OperatorSets(i, e)
    PROVE  LimitsIInv'
<1> DEFINE r == table[i]
<1>1. /\ nextId \in Nat \ {0} /\ DOMAIN table \subseteq 1 .. nextId - 1
      /\ \A n \in DOMAIN table : table[n] \in RowType
  BY DEF LimitsIInv
<1>2. /\ Disturb({KeyOf(r)}, Job) /\ UNCHANGED <<packets, jobs, nextId>>
      /\ DOMAIN table' = DOMAIN table
      /\ \A n \in DOMAIN table : n # i => table'[n] = table[n]
      /\ table'[i] = [r EXCEPT !.warn = e.warn, !.bad = e.bad, !.override = e.override]
  BY DEF OperatorSets
<1>3. e \in [warn : Nat \cup {NoValue}, bad : Nat \cup {NoValue}, override : BOOLEAN]
  BY ThresholdsAssumption
<1>4. r \in RowType
  BY <1>1
<1>5. KeyOf(r) \in Key
  BY <1>4 DEF RowType, KeyOf, Key
<1> HIDE DEF r
<1>6. [r EXCEPT !.warn = e.warn, !.bad = e.bad, !.override = e.override] \in RowType
  BY <1>3, <1>4 DEF RowType
<1>7. \A n \in DOMAIN table' : table'[n] \in RowType
  BY <1>1, <1>2, <1>6
<1> QED
  BY <1>1, <1>2, <1>5, <1>7, LimitsWriteStep

LEMMA LimitsDelete ==
    ASSUME RunsIInv, LimitsIInv, NEW i \in DOMAIN table, OperatorDeletes(i)
    PROVE  LimitsIInv'
<1>1. /\ nextId \in Nat \ {0} /\ DOMAIN table \subseteq 1 .. nextId - 1
      /\ \A n \in DOMAIN table : table[n] \in RowType
  BY DEF LimitsIInv
<1>2. /\ Disturb({KeyOf(table[i])}, Job) /\ UNCHANGED <<packets, jobs, nextId>>
      /\ table' = [n \in DOMAIN table \ {i} |-> table[n]]
  BY DEF OperatorDeletes
<1>3. KeyOf(table[i]) \in Key
  BY <1>1 DEF RowType, KeyOf, Key
<1>4. \A n \in DOMAIN table' : table'[n] \in RowType
  BY <1>1, <1>2
<1>5. nextId' \in Nat \ {0} /\ DOMAIN table' \subseteq 1 .. nextId' - 1
  BY <1>1, <1>2
<1> QED
  BY <1>2, <1>3, <1>4, <1>5, LimitsWriteStep

LEMMA LimitsWrite ==
    ASSUME RunsIInv, LimitsIInv, NEW j \in Job, JobWrites(j)
    PROVE  LimitsIInv'
<1> DEFINE q == jobs[j]
<1>1. q.phase = "compared" /\ nextId' \in Nat \ {0} /\ DOMAIN table' \subseteq 1 .. nextId' - 1
  BY WriteValues
<1>2. ASSUME NEW i \in DOMAIN table'
      PROVE  table'[i] \in RowType
  <2>1. CASE i \in DOMAIN table /\ table'[i] = table[i]
    BY <2>1 DEF LimitsIInv
  <2>2. CASE \E k \in DOMAIN q.results :
               /\ k \in Device \X Metric
               /\ table'[i] = [of |-> k[1], metric |-> k[2],
                               warn |-> q.results[k][1], bad |-> q.results[k][2],
                               override |-> table'[i].override]
               /\ table'[i].override \in BOOLEAN
    <3>1. PICK k \in DOMAIN q.results :
               /\ k \in Device \X Metric
               /\ table'[i] = [of |-> k[1], metric |-> k[2],
                               warn |-> q.results[k][1], bad |-> q.results[k][2],
                               override |-> table'[i].override]
               /\ table'[i].override \in BOOLEAN
      BY <2>2
    <3>2. q.results[k][1] \in Nat /\ q.results[k][2] \in Nat
      BY <1>1, OfferedAreNat
    <3>3. k[1] \in Device /\ k[2] \in Metric
      BY <3>1
    <3> DEFINE w == q.results[k][1]
               b == q.results[k][2]
               o == table'[i].override
    <3>4. table'[i] = [of |-> k[1], metric |-> k[2], warn |-> w, bad |-> b, override |-> o]
      BY <3>1
    <3> HIDE DEF w, b, o
    <3> QED
      BY <3>1, <3>2, <3>3, <3>4 DEF RowType, w, b, o
  <2> QED
    BY <2>1, <2>2, WriteValues
<1>3. DOMAIN q.results \subseteq Key
  <2>1. DOMAIN q.results \subseteq Device \X Metric
    BY <1>1, ResultsFinite
  <2> QED
    BY <2>1 DEF Key
<1>4. Disturb(DOMAIN q.results, Job \ {j}) /\ UNCHANGED packets
  BY DEF JobWrites
<1>5. \A n \in Job : jobs'[n] = jobs[n] \/ jobs'[n] = Idle
  BY DEF JobWrites, RunsIInv
<1> HIDE DEF q
<1> QED
  BY <1>1, <1>2, <1>3, <1>4, <1>5, LimitsWriteStep

LEMMA LimitsRun ==
    ASSUME RunsIInv, LimitsIInv, NEW j \in Job,
           JobReads(j) \/ JobComputes(j) \/ JobDies(j)
               \/ \E dryRun \in BOOLEAN : JobCompares(j, dryRun)
    PROVE  LimitsIInv'
<1> DEFINE q == jobs[j]
<1>1. ASSUME JobReads(j)
      PROVE  LimitsIInv'
  <2>1. jobs'[j] = [phase |-> "read", data |-> Data]
    BY <1>1 DEF JobReads, RunsIInv
  <2>2. Offered(j)'
    <3>1. \A k \in DOMAIN Data : Data[k] \in DOMAIN Limits[k[2]]
      BY DataOffered
    <3> QED
      BY <2>1, <3>1 DEF Offered
  <2> QED
    BY <1>1, <2>2, LimitsRunStep DEF JobReads
<1>2. ASSUME JobComputes(j)
      PROVE  LimitsIInv'
  <2> DEFINE data == q.data
             results == [k \in DOMAIN data \ Overrides |-> Limits[k[2]][data[k]]]
  <2>1. /\ q.phase = "read"
        /\ jobs' = [jobs EXCEPT ![j] = [phase |-> "computed", results |-> results]]
        /\ UNCHANGED <<packets, table, nextId, disturbed>>
    BY <1>2 DEF JobComputes
  <2>2. jobs'[j] = [phase |-> "computed", results |-> results]
    BY <2>1 DEF RunsIInv
  <2>3. \A k \in DOMAIN results : data[k] \in DOMAIN Limits[k[2]]
    BY <2>1 DEF LimitsIInv, Offered
  <2>4. \A k \in DOMAIN results :
           \E d \in DOMAIN Limits[k[2]] : results[k] = Limits[k[2]][d]
    BY <2>3
  <2> HIDE DEF results
  <2>5. Offered(j)'
    BY <2>2, <2>4 DEF Offered
  <2> QED
    BY <2>1, <2>5, LimitsRunStep
<1>3. ASSUME NEW dryRun \in BOOLEAN, JobCompares(j, dryRun)
      PROVE  LimitsIInv'
  <2>1. /\ q.phase = "computed" /\ UNCHANGED <<packets, table, nextId>>
        /\ disturbed' = [disturbed EXCEPT ![j] = IF jobs'[j] = Idle THEN {} ELSE @]
    BY <1>3 DEF JobCompares
  <2>2. \A n \in Job : disturbed'[n] \subseteq disturbed[n]
    BY <2>1 DEF RunsIInv
  <2>3. PICK p : /\ jobs' = [jobs EXCEPT ![j] = p]
                 /\ \/ p = Idle
                    \/ p.phase = "compared" /\ p.results = q.results
    <3>1. \/ jobs' = [jobs EXCEPT ![j] = Idle]
          \/ jobs' = [jobs EXCEPT ![j] =
               [phase |-> "compared", results |-> q.results,
                existing |-> {k \in DOMAIN q.results : RowsOf(k) # {}}]]
      BY <1>3 DEF JobCompares
    <3> QED
      BY <3>1
  <2>4. jobs'[j] = p
    BY <2>3 DEF RunsIInv
  <2>5. Offered(j)'
    <3>1. CASE p = Idle
      BY <2>4, <3>1 DEF Offered, Idle
    <3>2. CASE p.phase = "compared" /\ p.results = q.results
      BY <2>1, <2>4, <3>2 DEF Offered, LimitsIInv
    <3> QED
      BY <2>3, <3>1, <3>2
  <2> QED
    BY <2>1, <2>2, <2>3, <2>5, LimitsRunStep
<1>4. ASSUME JobDies(j)
      PROVE  LimitsIInv'
  <2>1. Offered(j)'
    BY <1>4 DEF JobDies, RunsIInv, Offered, Idle
  <2>2. \A n \in Job : disturbed'[n] \subseteq disturbed[n]
    BY <1>4 DEF JobDies, RunsIInv
  <2> QED
    BY <1>4, <2>1, <2>2, LimitsRunStep DEF JobDies
<1> QED
  BY <1>1, <1>2, <1>3, <1>4

LEMMA LimitsNext ==
    ASSUME RunsIInv, LimitsIInv, [Next]_vars
    PROVE  LimitsIInv'
<1>1. ASSUME NEW d \in Device, NEW p \in Packet, PacketArrives(d, p)
      PROVE  LimitsIInv'
  <2> DEFINE s == packets[d]
             t == IF Len(s) < Window THEN Append(s, p) ELSE Append(Tail(s), p)
  <2>1. packets' = [packets EXCEPT ![d] = t] /\ UNCHANGED <<table, nextId, jobs, disturbed>>
    BY <1>1 DEF PacketArrives
  <2>2. s \in BoundedSeq(Packet, Window) /\ Window \in Nat \ {0}
    BY ThresholdsAssumption DEF LimitsIInv
  <2>3. t \in BoundedSeq(Packet, Window)
    BY <2>2, BoundedAppend
  <2> HIDE DEF t
  <2>4. packets' \in [Device -> BoundedSeq(Packet, Window)]
    BY <2>1, <2>3 DEF LimitsIInv
  <2> QED
    BY <2>1, <2>4 DEF LimitsIInv, Offered, RowType
<1>2. ASSUME NEW j \in Job, JobStep(j)
      PROVE  LimitsIInv'
  <2>1. ASSUME NEW dryRun \in {FALSE, j # Weekly}, JobCompares(j, dryRun)
        PROVE  LimitsIInv'
    <3>1. dryRun \in BOOLEAN
      OBVIOUS
    <3> QED
      BY <2>1, <3>1, LimitsRun
  <2> QED
    BY <1>2, <2>1, LimitsRun, LimitsWrite DEF JobStep
<1>3. ASSUME UNCHANGED vars
      PROVE  LimitsIInv'
  BY <1>3 DEF vars, LimitsIInv, Offered, RowType
<1> QED
  BY <1>1, <1>2, <1>3, LimitsInsert, LimitsSet, LimitsDelete, LimitsRun DEF Next

(* Whatever runs, operators and packets do, rows are of known keys with    *)
(* limits that are NULL or numbers, their ids are below the next one, and  *)
(* what a run is about to write are limits of rates it read.               *)
THEOREM LimitsInvariant == Spec => []LimitsIInv
<1>1. Init => LimitsIInv
  BY LimitsInit
<1>2. RunsIInv /\ LimitsIInv /\ [Next]_vars => LimitsIInv'
  BY LimitsNext
<1> QED
  BY <1>1, <1>2, RunsInvariant, PTL DEF Spec

LEMMA LimitsTyped == LimitsIInv => ThresholdsTypeOK
BY DEF LimitsIInv, ThresholdsTypeOK, Offered, RowType

(* ThresholdsTypeOK, for any number of runs, devices, customers and rows: *)
(* compute_baselines.py writes limits that are numbers, for known keys.    *)
THEOREM LimitsTypeCorrect == Spec => []ThresholdsTypeOK
BY LimitsInvariant, LimitsTyped, PTL

(* What a run writes is in order, when rounding does not close the gap     *)
(* under a warning line for good reads.                                    *)
LEMMA OfferedInOrder ==
    ASSUME ClearOfRounding, RunsIInv, LimitsIInv
    PROVE  ResultsInOrder
<1> SUFFICES ASSUME NEW j \in Job, jobs[j].phase = "compared",
                    NEW k \in DOMAIN jobs[j].results
             PROVE  InOrder(k[2], jobs[j].results[k][1], jobs[j].results[k][2])
  BY DEF ResultsInOrder
<1> DEFINE m == k[2]
<1>1. m \in Metric
  <2>1. k \in Device \X Metric
    BY DEF RunsIInv, RunOK
  <2> QED
    BY <2>1
<1>2. PICK data \in DOMAIN Limits[m] : jobs[j].results[k] = Limits[m][data]
  BY DEF LimitsIInv, Offered
<1> DEFINE t == Derive(m, data)
<1>3. jobs[j].results[k] = t
  BY <1>1, <1>2, LimitsOf
<1>4. PICK n \in Nat \ {0} : data \in [1 .. n -> Nat] /\ Len(data) = n
  BY <1>1, <1>2, LimitsOf
<1>5. CASE m = "good_read_pct"
  <2>1. Statistical(data) < WarnLine(data)
            => n <= 100 * (WarnLine(data) - Statistical(data))
    BY <1>2, <1>4, <1>5 DEF ClearOfRounding
  <2>2. t = DeriveGoodRead(data)
    BY <1>5 DEF Derive
  <2>3. t[1] \in Nat /\ (t[1] = 0 \/ t[2] < t[1])
    <3> HIDE DEF t
    <3> QED BY <1>4, <2>1, <2>2, GoodReadLimits
  <2> HIDE DEF t
  <2> QED
    BY <1>3, <1>5, <2>3 DEF InOrder
<1>6. CASE m # "good_read_pct"
  <2>1. t = DeriveNoDim(data)
    BY <1>6 DEF Derive
  <2>2. t[2] > t[1] \/ t[1] = DefaultLine
    <3> HIDE DEF t
    <3> QED BY <1>4, <2>1, NoDimInOrder
  <2> HIDE DEF t
  <2> QED
    BY <1>3, <1>6, <2>2 DEF InOrder
<1> QED
  BY <1>5, <1>6

(* A row stays what an operator entered or in order. *)
RowInOrder(row) ==
    \/ \E e \in Entry : row.warn = e.warn /\ row.bad = e.bad
    \/ InOrder(row.metric, row.warn, row.bad)

LEMMA RowsInOrderKept ==
    ASSUME ClearOfRounding, RunsIInv, LimitsIInv, [Next]_vars, RowsInOrder
    PROVE  RowsInOrder'
<1>0. RowsInOrder <=> \A i \in DOMAIN table : RowInOrder(table[i])
  BY DEF RowsInOrder, RowInOrder
<1>p. RowsInOrder' <=> \A i \in DOMAIN table' : RowInOrder(table'[i])
  BY DEF RowsInOrder, RowInOrder
<1>1. CASE table' = table
  BY <1>0, <1>p, <1>1
<1>2. ASSUME NEW i \in DOMAIN table, OperatorDeletes(i)
      PROVE  RowsInOrder'
  <2>1. table' = [n \in DOMAIN table \ {i} |-> table[n]]
    BY <1>2 DEF OperatorDeletes
  <2> QED
    BY <1>0, <1>p, <2>1
<1>3. ASSUME NEW e \in Entry, NEW k \in Key, OperatorInserts(k, e)
      PROVE  RowsInOrder'
  <2> DEFINE row == [of |-> k[1], metric |-> k[2], warn |-> e.warn, bad |-> e.bad,
                     override |-> e.override]
  <2>1. table' = [i \in DOMAIN table \cup {nextId} |->
                     IF i \in DOMAIN table THEN table[i] ELSE row]
    BY <1>3 DEF OperatorInserts
  <2>2. RowInOrder(row)
    BY DEF RowInOrder
  <2> HIDE DEF row
  <2> QED
    BY <1>0, <1>p, <2>1, <2>2
<1>4. ASSUME NEW e \in Entry, NEW i \in DOMAIN table, OperatorSets(i, e)
      PROVE  RowsInOrder'
  <2>1. /\ DOMAIN table' = DOMAIN table
        /\ \A n \in DOMAIN table : n # i => table'[n] = table[n]
        /\ table'[i] = [table[i] EXCEPT !.warn = e.warn, !.bad = e.bad,
                                        !.override = e.override]
    BY <1>4 DEF OperatorSets
  <2>2. table[i] \in RowType
    BY DEF LimitsIInv
  <2>3. table'[i].warn = e.warn /\ table'[i].bad = e.bad
    BY <2>1, <2>2 DEF RowType
  <2>4. RowInOrder(table'[i])
    BY <2>3 DEF RowInOrder
  <2> QED
    BY <1>0, <1>p, <2>1, <2>4
<1>5. ASSUME NEW j \in Job, JobWrites(j)
      PROVE  RowsInOrder'
  <2> DEFINE q == jobs[j]
  <2>1. q.phase = "compared"
    BY <1>5, WriteValues
  <2>2. \A k \in DOMAIN q.results : InOrder(k[2], q.results[k][1], q.results[k][2])
    BY <2>1, OfferedInOrder DEF ResultsInOrder
  <2> SUFFICES ASSUME NEW i \in DOMAIN table'
               PROVE  RowInOrder(table'[i])
    BY <1>p
  <2>3. CASE i \in DOMAIN table /\ table'[i] = table[i]
    BY <1>0, <2>3
  <2>4. CASE \E k \in DOMAIN q.results :
               /\ k \in Device \X Metric
               /\ table'[i] = [of |-> k[1], metric |-> k[2],
                               warn |-> q.results[k][1], bad |-> q.results[k][2],
                               override |-> table'[i].override]
               /\ table'[i].override \in BOOLEAN
    <3>1. PICK k \in DOMAIN q.results :
               table'[i] = [of |-> k[1], metric |-> k[2],
                            warn |-> q.results[k][1], bad |-> q.results[k][2],
                            override |-> table'[i].override]
      BY <2>4
    <3> DEFINE w == q.results[k][1]
               b == q.results[k][2]
               o == table'[i].override
    <3>2. InOrder(k[2], w, b)
      BY <2>2
    <3>3. table'[i] = [of |-> k[1], metric |-> k[2], warn |-> w, bad |-> b, override |-> o]
      BY <3>1
    <3> HIDE DEF w, b, o
    <3>4. table'[i].metric = k[2] /\ table'[i].warn = w /\ table'[i].bad = b
      BY <3>3
    <3> QED
      BY <3>2, <3>4 DEF RowInOrder
  <2> QED
    BY <1>5, <2>3, <2>4, WriteValues
<1>6. ASSUME NEW j \in Job, JobStep(j)
      PROVE  RowsInOrder'
  <2>1. ASSUME NEW dryRun, JobCompares(j, dryRun)
        PROVE  table' = table
    BY <2>1 DEF JobCompares
  <2>2. JobComputes(j) => table' = table
    BY DEF JobComputes
  <2> QED
    BY <1>1, <1>5, <1>6, <2>1, <2>2 DEF JobStep
<1>7. ASSUME NEW j \in Job, JobReads(j) \/ JobDies(j)
      PROVE  table' = table
  BY <1>7 DEF JobReads, JobDies
<1>8. ASSUME NEW d \in Device, NEW p \in Packet, PacketArrives(d, p)
      PROVE  table' = table
  BY <1>8 DEF PacketArrives
<1>9. ASSUME UNCHANGED vars
      PROVE  table' = table
  BY <1>9 DEF vars
<1> QED
  BY <1>1, <1>2, <1>3, <1>4, <1>6, <1>7, <1>8, <1>9 DEF Next

(* LimitsAreSound, for any number of runs, devices, operators and packets  *)
(* whose rates leave the hard limit clear of rounding.                     *)
THEOREM LimitsSound == ClearOfRounding => (Spec => []LimitsAreSound)
<1> SUFFICES ASSUME ClearOfRounding
             PROVE  Spec => []LimitsAreSound
  OBVIOUS
<1>1. Init => RowsInOrder
  BY DEF Init, RowsInOrder
<1>2. RunsIInv /\ LimitsIInv /\ RowsInOrder /\ [Next]_vars => RowsInOrder'
  BY RowsInOrderKept
<1>3. RunsIInv /\ LimitsIInv /\ RowsInOrder => LimitsAreSound
  BY LimitsTyped, OfferedInOrder DEF LimitsAreSound
<1> QED
  BY <1>1, <1>2, <1>3, RunsInvariant, LimitsInvariant, PTL DEF Spec
-----------------------------------------------------------------------------
(* Rows for good reads that have both limits have them in order. *)
GoodReadInOrder ==
    \A i \in DOMAIN table :
        table[i].metric = "good_read_pct" /\ NoValue \notin {table[i].warn, table[i].bad}
            => table[i].bad <= table[i].warn

(* A step that writes no row out of order: what changes is entered by an   *)
(* operator, or comes from a run.                                          *)
LEMMA InOrderKept ==
    ASSUME RunsIInv, LimitsIInv, [Next]_vars, GoodReadInOrder,
           \A e \in Entry, k \in Key : ~OperatorInserts(k, e),
           \A e \in Entry, i \in DOMAIN table : ~OperatorSets(i, e)
    PROVE  GoodReadInOrder'
<1>1. CASE table' = table
  BY <1>1 DEF GoodReadInOrder
<1>2. ASSUME NEW i \in DOMAIN table, OperatorDeletes(i)
      PROVE  GoodReadInOrder'
  BY <1>2 DEF OperatorDeletes, GoodReadInOrder
<1>3. ASSUME NEW j \in Job, JobWrites(j)
      PROVE  GoodReadInOrder'
  <2> DEFINE q == jobs[j]
  <2>1. q.phase = "compared"
    BY <1>3, WriteValues
  <2> SUFFICES ASSUME NEW i \in DOMAIN table', table'[i].metric = "good_read_pct",
                      NoValue \notin {table'[i].warn, table'[i].bad}
               PROVE  table'[i].bad <= table'[i].warn
    BY DEF GoodReadInOrder
  <2>2. CASE i \in DOMAIN table /\ table'[i] = table[i]
    BY <2>2 DEF GoodReadInOrder
  <2>3. CASE \E k \in DOMAIN q.results :
               /\ k \in Device \X Metric
               /\ table'[i] = [of |-> k[1], metric |-> k[2],
                               warn |-> q.results[k][1], bad |-> q.results[k][2],
                               override |-> table'[i].override]
               /\ table'[i].override \in BOOLEAN
    <3>1. PICK k \in DOMAIN q.results :
               table'[i] = [of |-> k[1], metric |-> k[2],
                            warn |-> q.results[k][1], bad |-> q.results[k][2],
                            override |-> table'[i].override]
      BY <2>3
    <3> DEFINE w == q.results[k][1]
               b == q.results[k][2]
               o == table'[i].override
    <3>2. k[2] = "good_read_pct" => b <= w
      BY <2>1, OfferedAreNat
    <3>3. table'[i] = [of |-> k[1], metric |-> k[2], warn |-> w, bad |-> b, override |-> o]
      BY <3>1
    <3> HIDE DEF w, b, o
    <3>4. table'[i].metric = k[2] /\ table'[i].warn = w /\ table'[i].bad = b
      BY <3>3
    <3> QED
      BY <3>2, <3>4
  <2> QED
    BY <1>3, <2>2, <2>3, WriteValues
<1>4. ASSUME NEW j \in Job, JobStep(j)
      PROVE  GoodReadInOrder'
  <2>1. ASSUME NEW dryRun, JobCompares(j, dryRun)
        PROVE  table' = table
    BY <2>1 DEF JobCompares
  <2>2. JobComputes(j) => table' = table
    BY DEF JobComputes
  <2> QED
    BY <1>1, <1>3, <1>4, <2>1, <2>2 DEF JobStep
<1>5. ASSUME NEW j \in Job, JobReads(j) \/ JobDies(j)
      PROVE  table' = table
  BY <1>5 DEF JobReads, JobDies
<1>6. ASSUME NEW d \in Device, NEW p \in Packet, PacketArrives(d, p)
      PROVE  table' = table
  BY <1>6 DEF PacketArrives
<1>7. ASSUME UNCHANGED vars
      PROVE  table' = table
  BY <1>7 DEF vars
<1> QED
  BY <1>1, <1>2, <1>4, <1>5, <1>6, <1>7 DEF Next

LEMMA OrderKept ==
    ASSUME EntriesInOrder, RunsIInv, LimitsIInv, [Next]_vars, GoodReadInOrder
    PROVE  GoodReadInOrder'
<1>1. ASSUME NEW e \in Entry, NEW k \in Key, OperatorInserts(k, e)
      PROVE  GoodReadInOrder'
  <2> DEFINE r == [of |-> k[1], metric |-> k[2], warn |-> e.warn, bad |-> e.bad,
                   override |-> e.override]
  <2>1. table' = [i \in DOMAIN table \cup {nextId} |->
                     IF i \in DOMAIN table THEN table[i] ELSE r]
    BY <1>1 DEF OperatorInserts
  <2>2. NoValue \notin {r.warn, r.bad} => r.bad <= r.warn
    BY DEF EntriesInOrder
  <2> HIDE DEF r
  <2> QED
    BY <2>1, <2>2 DEF GoodReadInOrder
<1>2. ASSUME NEW e \in Entry, NEW i \in DOMAIN table, OperatorSets(i, e)
      PROVE  GoodReadInOrder'
  <2>1. /\ DOMAIN table' = DOMAIN table
        /\ \A n \in DOMAIN table : n # i => table'[n] = table[n]
        /\ table'[i] = [table[i] EXCEPT !.warn = e.warn, !.bad = e.bad,
                                        !.override = e.override]
    BY <1>2 DEF OperatorSets
  <2>2. table[i] \in RowType
    BY DEF LimitsIInv
  <2>3. table'[i].warn = e.warn /\ table'[i].bad = e.bad
    BY <2>1, <2>2 DEF RowType
  <2>4. NoValue \notin {e.warn, e.bad} => e.bad <= e.warn
    BY DEF EntriesInOrder
  <2> QED
    BY <2>1, <2>3, <2>4 DEF GoodReadInOrder
<1> QED
  BY <1>1, <1>2, InOrderKept

(* A run never puts a hard limit for good reads above its warning line:    *)
(* rows that were in order stay so unless an operator edits them.          *)
RunsWriteInOrder ==
    [][\A j \in Job : JobWrites(j) /\ GoodReadInOrder => GoodReadInOrder']_vars

(* Every step of a run keeps the order, for any runs, packets and limits. *)
THEOREM RunsKeepOrder == Spec => RunsWriteInOrder
<1>1. RunsIInv /\ LimitsIInv /\ [Next]_vars =>
         [\A j \in Job : JobWrites(j) /\ GoodReadInOrder => GoodReadInOrder']_vars
  <2> SUFFICES ASSUME RunsIInv, LimitsIInv, [Next]_vars, NEW j \in Job, JobWrites(j),
                      GoodReadInOrder
               PROVE  GoodReadInOrder'
    OBVIOUS
  <2>1. jobs[j].phase = "compared" /\ jobs' = [jobs EXCEPT ![j] = Idle]
    BY DEF JobWrites
  <2>2. jobs' # jobs
    BY <2>1 DEF Idle, RunsIInv
  <2> QED
    BY <2>2, InOrderKept DEF OperatorInserts, OperatorSets
<1> QED
  BY <1>1, RunsInvariant, LimitsInvariant, PTL DEF Spec, RunsWriteInOrder
-----------------------------------------------------------------------------
(* Days whose rates come out of every program's rounding as they are: good *)
(* reads a whole number of tenths of a percent, no dimensions of           *)
(* hundredths, more than 100 items; the device is not stale.               *)
RatesAreExact(day) ==
    /\ day.items > 100
    /\ \E q \in Nat : 1000 * day.good_read = q * day.items
    /\ \E q \in Nat : 10000 * day.no_dimension = q * day.items
ExactDay ==
    {day \in [items : Nat, good_read : Nat, no_dimension : Nat, c_usage : Nat,
              state : {"online", "offline", "never"}] : RatesAreExact(day)}

LEMMA DaysAreExact == Days \subseteq ExactDay
<1> SUFFICES ASSUME NEW day \in Days
             PROVE  day \in ExactDay
  OBVIOUS
<1>1. /\ day \in [items : Nat, good_read : Nat, no_dimension : Nat, c_usage : Nat,
                  state : {"online", "offline", "never"}]
      /\ day.items = 200 /\ day.good_read \in {0, 171, 192} /\ day.no_dimension = 21
  BY DEF Days
<1>2. \E q \in Nat : 1000 * day.good_read = q * day.items
  <2>1. /\ 1000 * 0 = 0 * 200 /\ 1000 * 171 = 855 * 200 /\ 1000 * 192 = 960 * 200
    OBVIOUS
  <2> QED
    BY <1>1, <2>1
<1>3. \E q \in Nat : 10000 * day.no_dimension = q * day.items
  <2>1. 10000 * 21 = 1050 * 200
    OBVIOUS
  <2> QED
    BY <1>1, <2>1
<1>4. day.items > 100
  BY <1>1
<1>5. RatesAreExact(day)
  BY <1>2, <1>3, <1>4, SMTT(30) DEF RatesAreExact
<1> QED
  BY <1>1, <1>5 DEF ExactDay

(* Rounding a rate that is a whole number of steps does nothing. *)
LEMMA RoundedExactly ==
    ASSUME NEW q \in Nat, NEW n \in Nat \ {0}
    PROVE  (2 * (q * n) + n) \div (2 * n) = q
<1> DEFINE d == 2 * n
<1>1. d \in Nat \ {0} /\ n \in 0 .. d - 1
  OBVIOUS
<1>2. d * q + n = 2 * (q * n) + n
  OBVIOUS
<1>3. (d * q + n) \div d = q
  <2> HIDE DEF d
  <2> QED BY <1>1, DivIs
<1> QED
  BY <1>2, <1>3

LEMMA ScaledLess ==
    ASSUME NEW a \in Nat, NEW b \in Nat, NEW n \in Nat \ {0}
    PROVE  (a * n < b * n <=> a < b) /\ (a * n > b * n <=> a > b)
<1>1. a < b => a * n < b * n
  <2>1. a < b => (a + 1) * n <= b * n
    OBVIOUS
  <2>2. (a + 1) * n = a * n + n
    OBVIOUS
  <2> QED
    BY <2>1, <2>2
<1>2. b <= a => b * n <= a * n
  OBVIOUS
<1>3. b < a => b * n < a * n
  <2>1. b < a => (b + 1) * n <= a * n
    OBVIOUS
  <2>2. (b + 1) * n = b * n + n
    OBVIOUS
  <2> QED
    BY <2>1, <2>2
<1>4. a <= b => a * n <= b * n
  OBVIOUS
<1> QED
  BY <1>1, <1>2, <1>3, <1>4

(* On a rate of whole hundredths the monitor's rounded value stands on the *)
(* same side of a limit as the reporter's unrounded one.                   *)
LEMMA RateExact ==
    ASSUME NEW items \in Nat \ {0}, NEW part \in Nat, NEW q \in Nat,
           10000 * part = q * items
    PROVE  /\ Rate(part, items) = 100 * q
           /\ \A limit \in Nat, m \in Metric :
                 Beyond(m, 1000000 * part, limit * items) <=> Beyond(m, 100 * q, limit)
<1>1. Rate(part, items) = 100 * q
  <2> DEFINE e == q * items
  <2>1. 10000 * part = e /\ e \in Nat
    OBVIOUS
  <2>2. (2 * e + items) \div (2 * items) = q
    BY RoundedExactly
  <2> HIDE DEF e
  <2>3. 20000 * part + items = 2 * e + items
    BY <2>1
  <2> QED
    BY <2>2, <2>3 DEF Rate
<1>2. ASSUME NEW limit \in Nat, NEW m \in Metric
      PROVE  Beyond(m, 1000000 * part, limit * items) <=> Beyond(m, 100 * q, limit)
  <2> DEFINE v == 100 * q
  <2>1. v \in Nat /\ 1000000 * part = v * items
    <3>1. 1000000 * part = 100 * (q * items)
      BY SMTT(30)
    <3>2. 100 * (q * items) = (100 * q) * items
      OBVIOUS
    <3> QED
      BY <3>1, <3>2, SMTT(30)
  <2> HIDE DEF v
  <2>2. (v * items < limit * items <=> v < limit) /\ (v * items > limit * items <=> v > limit)
    BY <2>1, ScaledLess
  <2> QED
    BY <2>1, <2>2 DEF Beyond, v
<1> QED
  BY <1>1, <1>2
-----------------------------------------------------------------------------
(* The one row of a key is the first and the last. *)
LEMMA OneRow ==
    ASSUME LimitsIInv, OneRowEach, NEW k \in Key, RowsOf(k) # {}
    PROVE  \E i \in DOMAIN table :
              /\ RowsOf(k) = {i} /\ Min(RowsOf(k)) = i /\ Max(RowsOf(k)) = i
              /\ table[i].of = k[1] /\ table[i].metric = k[2]
              /\ table[i].warn \in Nat /\ table[i].bad \in Nat \cup {NoValue}
<1>1. IsFiniteSet(RowsOf(k))
  <2>1. nextId \in Nat /\ DOMAIN table \subseteq 1 .. nextId - 1
    BY DEF LimitsIInv
  <2>2. IsFiniteSet(1 .. nextId - 1)
    BY <2>1, FS_Interval
  <2>3. RowsOf(k) \subseteq 1 .. nextId - 1
    BY <2>1 DEF RowsOf
  <2> QED
    BY <2>2, <2>3, FS_Subset
<1>2. PICK i : RowsOf(k) = {i}
  <2>1. Cardinality(RowsOf(k)) <= 1
    BY DEF OneRowEach
  <2>2. Cardinality(RowsOf(k)) \in Nat /\ Cardinality(RowsOf(k)) # 0
    BY <1>1, FS_CardinalityType, FS_EmptySet
  <2>3. Cardinality(RowsOf(k)) = 1
    BY <2>1, <2>2
  <2> QED
    BY <1>1, <2>3, FS_Singleton
<1>3. i \in DOMAIN table /\ KeyOf(table[i]) = k
  BY <1>2 DEF RowsOf
<1>4. i \in Nat
  BY <1>3 DEF LimitsIInv
<1>5. Min({i}) = i /\ Max({i}) = i
  BY <1>4 DEF Min, Max
<1>6. table[i] \in RowType /\ table[i].warn # NoValue
  BY <1>3 DEF LimitsIInv, OneRowEach
<1> QED
  BY <1>2, <1>3, <1>5, <1>6 DEF RowType, KeyOf

(* The limits a device is judged by, the same for the two programs. *)
LEMMA SameLookup ==
    ASSUME LimitsIInv, OneRowEach, NEW d \in Device, NEW m \in Metric
    PROVE  /\ ReporterLookup(d, m) = MonitorLookup(d, m)
           /\ MonitorLookup(d, m).warn \in Nat
           /\ MonitorLookup(d, m).bad \in Nat \cup {NoValue}
<1> DEFINE mine == <<d, m>>
           all == <<CustomerOf[d], m>>
<1>1. mine \in Key /\ all \in Key
  BY ThresholdsAssumption DEF Key
<1>2. Config[m].warn \in Nat /\ Config[m].bad \in Nat
  BY ThresholdsAssumption
<1>3. NoValue \notin Nat
  BY ThresholdsAssumption
<1> HIDE DEF mine, all
<1>4. CASE RowsOf(mine) # {}
  <2>1. PICK i \in DOMAIN table :
           /\ Min(RowsOf(mine)) = i /\ Max(RowsOf(mine)) = i
           /\ table[i].warn \in Nat /\ table[i].bad \in Nat \cup {NoValue}
    BY <1>1, <1>4, OneRow
  <2>2. MonitorLookup(d, m) = table[i]
    BY <1>4, <2>1 DEF MonitorLookup, mine
  <2>3. LastRow(mine) = table[i] /\ table[i].warn # NoValue
    BY <1>3, <2>1 DEF LastRow
  <2>4. ReporterLookup(d, m) = table[i]
    BY <1>4, <2>3 DEF ReporterLookup, mine
  <2> QED
    BY <2>1, <2>2, <2>4
<1>5. CASE RowsOf(mine) = {} /\ RowsOf(all) # {}
  <2>1. PICK i \in DOMAIN table :
           /\ Min(RowsOf(all)) = i /\ Max(RowsOf(all)) = i
           /\ table[i].warn \in Nat /\ table[i].bad \in Nat \cup {NoValue}
    BY <1>1, <1>5, OneRow
  <2>2. MonitorLookup(d, m) = table[i]
    BY <1>5, <2>1 DEF MonitorLookup, mine, all
  <2>3. LastRow(all) = table[i] /\ table[i].warn # NoValue
    BY <1>3, <2>1 DEF LastRow
  <2>4. ReporterLookup(d, m) = table[i]
    BY <1>5, <2>3 DEF ReporterLookup, mine, all
  <2> QED
    BY <2>1, <2>2, <2>4
<1>6. CASE RowsOf(mine) = {} /\ RowsOf(all) = {}
  <2>1. MonitorLookup(d, m) = Config[m] /\ ReporterLookup(d, m) = Config[m]
    BY <1>6 DEF MonitorLookup, ReporterLookup, mine, all
  <2> QED
    BY <1>2, <2>1
<1> QED
  BY <1>4, <1>5, <1>6

(* The alerts on one rate. *)
LEMMA SameRate ==
    ASSUME LimitsIInv, OneRowEach, NEW d \in Device, NEW m \in Metric, NEW day,
           day.items \in Nat \ {0}, NEW part \in Nat, day[Part[m]] = part, NEW q \in Nat,
           10000 * part = q * day.items
    PROVE  LET t == MonitorLookup(d, m)
           IN  /\ ReporterRate(d, m, day) = MonitorRate(d, m, day)
               /\ MonitorRate(d, m, day) =
                     IF t.bad # NoValue /\ Beyond(m, 100 * q, t.bad) THEN {<<"bad", m>>}
                     ELSE IF Beyond(m, 100 * q, t.warn) THEN {<<"warn", m>>} ELSE {}
<1> DEFINE t == MonitorLookup(d, m)
           n == day.items
           beyond(limit) == limit # NoValue /\ Beyond(m, 1000000 * part, limit * n)
<1>1. ReporterLookup(d, m) = t /\ t.warn \in Nat /\ t.bad \in Nat \cup {NoValue}
  BY SameLookup
<1>2. t.warn # NoValue
  BY <1>1, ThresholdsAssumption
<1>3. ReporterRate(d, m, day) = IF beyond(t.bad) THEN {<<"bad", m>>}
                                ELSE IF beyond(t.warn) THEN {<<"warn", m>>} ELSE {}
  BY <1>1, SMTT(30) DEF ReporterRate
<1>4. MonitorRate(d, m, day) =
         IF t.bad # NoValue /\ Beyond(m, Rate(part, n), t.bad) THEN {<<"bad", m>>}
         ELSE IF Beyond(m, Rate(part, n), t.warn) THEN {<<"warn", m>>} ELSE {}
  BY <1>2 DEF MonitorRate
<1> HIDE DEF t
<1>5. /\ Rate(part, n) = 100 * q
      /\ \A limit \in Nat :
            Beyond(m, 1000000 * part, limit * n) <=> Beyond(m, 100 * q, limit)
  BY RateExact
<1>6. beyond(t.warn) <=> Beyond(m, 100 * q, t.warn)
  BY <1>1, <1>2, <1>5
<1>7. beyond(t.bad) <=> t.bad # NoValue /\ Beyond(m, 100 * q, t.bad)
  BY <1>1, <1>5
<1> HIDE DEF beyond
<1> QED
  BY <1>3, <1>4, <1>5, <1>6, <1>7 DEF t
-----------------------------------------------------------------------------
(* The alerts of a day that is exact, for both programs, and what those on *)
(* its good reads are: v is the rate and t the limits.                     *)
LEMMA ExactAlerts ==
    ASSUME LimitsIInv, OneRowEach, NEW d \in Device, NEW day \in ExactDay,
           NEW q \in Nat, 1000 * day.good_read = q * day.items
    PROVE  LET t == MonitorLookup(d, "good_read_pct")
               alerts == ReporterAlerts(d, day)
           IN  /\ alerts = MonitorAlerts(d, day)
               /\ <<"bad", "good_read_pct">> \in alerts
                      <=> t.bad # NoValue /\ 1000 * q < t.bad
               /\ <<"warn", "good_read_pct">> \in alerts
                      <=> ~(t.bad # NoValue /\ 1000 * q < t.bad) /\ 1000 * q < t.warn
<1> DEFINE gr == "good_read_pct"
           nd == "no_dim_pct"
           t == MonitorLookup(d, gr)
           G == MonitorRate(d, gr, day)
           N == MonitorRate(d, nd, day)
           v == 100 * (10 * q)
           others == N \cup Storage(day.c_usage) \cup NoData(day.state)
<1>1. /\ day.items \in Nat \ {0} /\ day.items > 100 /\ day.items >= 100
      /\ day.good_read \in Nat /\ day.no_dimension \in Nat /\ day.state # "stale"
  BY SMTT(30) DEF ExactDay, RatesAreExact
<1>2. PICK p \in Nat : 10000 * day.no_dimension = p * day.items
  BY SMTT(30) DEF ExactDay, RatesAreExact
<1>3. 10000 * day.good_read = (10 * q) * day.items /\ 10 * q \in Nat
  <2>1. 10000 * day.good_read = 10 * (q * day.items)
    BY <1>1
  <2>2. 10 * (q * day.items) = (10 * q) * day.items
    BY <1>1
  <2> QED
    BY <2>1, <2>2
<1>4. /\ gr \in Metric /\ nd \in Metric /\ Metric = {gr, nd}
      /\ Part[gr] = "good_read" /\ Part[nd] = "no_dimension"
  BY DEF Metric, Part
<1>5. /\ ReporterRate(d, gr, day) = G
      /\ G = IF t.bad # NoValue /\ Beyond(gr, v, t.bad) THEN {<<"bad", gr>>}
             ELSE IF Beyond(gr, v, t.warn) THEN {<<"warn", gr>>} ELSE {}
  <2> DEFINE part == day.good_read
             r == 10 * q
  <2>1. day[Part[gr]] = part /\ part \in Nat /\ r \in Nat /\ 10000 * part = r * day.items
    BY <1>1, <1>3, <1>4
  <2> HIDE DEF part, r
  <2> QED
    BY <1>1, <1>4, <2>1, SameRate DEF r
<1>6. /\ ReporterRate(d, nd, day) = N
      /\ N \subseteq {<<"bad", nd>>, <<"warn", nd>>}
  <2> DEFINE part == day.no_dimension
  <2>1. day[Part[nd]] = part /\ part \in Nat /\ 10000 * part = p * day.items
    BY <1>1, <1>2, <1>4
  <2> HIDE DEF part
  <2> QED
    BY <1>1, <1>4, <2>1, SameRate
<1>7. ReporterAlerts(d, day) = G \cup others
  <2>1. UNION {ReporterRate(d, m, day) : m \in Metric} = G \cup N
    <3>1. {ReporterRate(d, m, day) : m \in Metric} = {G, N}
      BY <1>4, <1>5, <1>6
    <3> HIDE DEF G, N
    <3> QED BY <3>1
  <2>2. ReporterAlerts(d, day) = (G \cup N) \cup Storage(day.c_usage) \cup NoData(day.state)
    BY <1>1, <2>1 DEF ReporterAlerts
  <2> HIDE DEF G, N
  <2> QED
    BY <2>2
<1>8. MonitorAlerts(d, day) = G \cup others
  <2>1. UNION {MonitorRate(d, m, day) : m \in Metric} = G \cup N
    <3>1. {MonitorRate(d, m, day) : m \in Metric} = {G, N}
      BY <1>4
    <3> HIDE DEF G, N
    <3> QED BY <3>1
  <2>2. MonitorAlerts(d, day) = NoData(day.state) \cup ((G \cup N) \cup Storage(day.c_usage))
    BY <1>1, <2>1 DEF MonitorAlerts
  <2> HIDE DEF G, N
  <2> QED
    BY <2>2
<1>9. \A s : <<s, gr>> \notin others
  <2>1. \A s : <<s, gr>> \notin N
    BY <1>6
  <2>2. \A s : <<s, gr>> \notin Storage(day.c_usage)
    BY DEF Storage
  <2>3. \A s : <<s, gr>> \notin NoData(day.state)
    BY DEF NoData
  <2> HIDE DEF N, gr
  <2> QED
    BY <2>1, <2>2, <2>3
<1>10. /\ <<"bad", gr>> \in G <=> t.bad # NoValue /\ Beyond(gr, v, t.bad)
       /\ <<"warn", gr>> \in G
              <=> ~(t.bad # NoValue /\ Beyond(gr, v, t.bad)) /\ Beyond(gr, v, t.warn)
  <2> HIDE DEF G, t, v
  <2> QED
    BY <1>5
<1>11. v = 1000 * q /\ \A limit : Beyond(gr, v, limit) <=> v < limit
  BY DEF Beyond
<1> HIDE DEF G, others, t, v
<1>12. /\ <<"bad", gr>> \in G \cup others <=> t.bad # NoValue /\ 1000 * q < t.bad
       /\ <<"warn", gr>> \in G \cup others
              <=> ~(t.bad # NoValue /\ 1000 * q < t.bad) /\ 1000 * q < t.warn
  BY <1>9, <1>10, <1>11
<1> QED
  BY <1>7, <1>8, <1>12 DEF t

(* On days that are exact the four programs agree, for any rows of which   *)
(* no key has two, no warn is NULL, and good reads have theirs in order.   *)
LEMMA AgreeExactly ==
    ASSUME LimitsIInv, OneRowEach, GoodReadInOrder, NEW d \in Device, NEW day \in ExactDay
    PROVE  Agree(d, day)
<1> DEFINE gr == "good_read_pct"
           mine == <<d, gr>>
           all == <<CustomerOf[d], gr>>
           t == MonitorLookup(d, gr)
           alerts == ReporterAlerts(d, day)
           severities == {s \in {"bad", "warn"} : <<s, gr>> \in alerts}
<1>1. PICK q \in Nat : 1000 * day.good_read = q * day.items
  BY SMTT(30) DEF ExactDay, RatesAreExact
<1> DEFINE v == 1000 * q
<1>2. /\ alerts = MonitorAlerts(d, day)
      /\ <<"bad", gr>> \in alerts <=> t.bad # NoValue /\ v < t.bad
      /\ <<"warn", gr>> \in alerts <=> ~(t.bad # NoValue /\ v < t.bad) /\ v < t.warn
  BY <1>1, ExactAlerts
<1>3. day.items \in Nat \ {0} /\ day.items > 100 /\ day.good_read \in Nat
  BY SMTT(30) DEF ExactDay, RatesAreExact
<1>4. v \in Nat /\ Rate(day.good_read, day.items) = v
  <2>1. 10000 * day.good_read = (10 * q) * day.items
    <3>1. 10000 * day.good_read = 10 * (q * day.items)
      BY <1>1, <1>3
    <3>2. 10 * (q * day.items) = (10 * q) * day.items
      BY <1>3
    <3> QED
      BY <3>1, <3>2
  <2> DEFINE r == 10 * q
  <2>2. r \in Nat /\ v = 100 * r /\ 10000 * day.good_read = r * day.items
    BY <2>1
  <2> HIDE DEF r, v
  <2>3. Rate(day.good_read, day.items) = 100 * r
    BY <1>3, <2>2, RateExact
  <2> QED
    BY <2>2, <2>3 DEF v
<1>5. mine \in Key /\ all \in Key /\ gr \in Metric
  BY ThresholdsAssumption DEF Key, Metric
<1>6. t.warn \in Nat /\ t.bad \in Nat \cup {NoValue} /\ NoValue \notin Nat
  BY <1>5, SameLookup, ThresholdsAssumption
<1> HIDE DEF alerts, v
<1>7. "bad" \in severities <=> t.bad # NoValue /\ v < t.bad
  BY <1>2
<1>8. ASSUME \E r \in BestRows(d) : r.bad # NoValue
      PROVE  FleetBelow(d, day) <=> "bad" \in severities
  <2>1. BestRows(d) = {t}
    BY <1>8 DEF BestRows, MonitorLookup
  <2>2. t.bad # NoValue /\ t.bad \in Nat
    BY <1>6, <1>8, <2>1
  <2> HIDE DEF t, severities
  <2>3. {r.bad : r \in BestRows(d)} \ {NoValue} = {t.bad}
    BY <2>1, <2>2
  <2>4. FleetTarget(d) = t.bad
    <3>1. Max({t.bad}) = t.bad
      BY <2>2 DEF Max
    <3> DEFINE limits == {r.bad : r \in BestRows(d)} \ {NoValue}
    <3>2. FleetTarget(d) = IF limits = {} THEN 930000 ELSE Max(limits)
      BY SMTT(30) DEF FleetTarget
    <3>3. limits = {t.bad}
      BY <2>3
    <3> HIDE DEF limits
    <3>4. limits # {} /\ Max(limits) = t.bad
      BY <3>1, <3>3
    <3> QED
      BY <3>2, <3>4
  <2> QED
    BY <1>3, <1>4, <1>7, <2>2, <2>4 DEF FleetBelow
<1>9. ASSUME RowsOf(mine) # {}
      PROVE  Breaches(d, day) # {} <=> severities # {}
  <2>1. PICK i \in DOMAIN table :
           /\ RowsOf(mine) = {i} /\ Min(RowsOf(mine)) = i /\ table[i].metric = gr
    BY <1>5, <1>9, OneRow
  <2>2. t = table[i]
    BY <1>9, <2>1 DEF MonitorLookup
  <2>3. t.bad # NoValue => t.bad <= t.warn
    BY <1>6, <2>1, <2>2 DEF GoodReadInOrder
  <2>4. severities # {} <=> v < t.warn
    <3>1. severities # {} <=> <<"bad", gr>> \in alerts \/ <<"warn", gr>> \in alerts
      OBVIOUS
    <3> HIDE DEF severities, t
    <3>2. t.bad # NoValue /\ v < t.bad => v < t.warn
      BY <1>4, <1>6, <2>3
    <3> QED
      BY <1>2, <3>1, <3>2
  <2>5. 1000 * ((2000 * day.good_read + day.items) \div (2 * day.items)) = v
    <3> DEFINE e == q * day.items
    <3>1. 1000 * day.good_read = e /\ e \in Nat
      BY <1>1, <1>3
    <3>2. (2 * e + day.items) \div (2 * day.items) = q
      BY <1>3, RoundedExactly
    <3> DEFINE u == 2000 * day.good_read + day.items
               c == (2000 * day.good_read + day.items) \div (2 * day.items)
    <3> HIDE DEF e
    <3>3. u = 2 * e + day.items
      BY <1>3, <3>1
    <3>4. c = u \div (2 * day.items)
      OBVIOUS
    <3> HIDE DEF u, c
    <3>5. c = q
      BY <3>2, <3>3, <3>4
    <3>6. 1000 * c = v
      BY <3>5 DEF v
    <3> QED
      BY <3>6 DEF c
  <2> HIDE DEF severities
  <2>6. Breaches(d, day) = {n \in {i} : day.items > 30 /\ t.warn # NoValue /\ v < t.warn}
    BY <2>1, <2>2, <2>5 DEF Breaches
  <2>7. day.items > 30 /\ t.warn # NoValue
    BY <1>3, <1>6
  <2> HIDE DEF t
  <2> QED
    BY <2>4, <2>6, <2>7
<1> QED
  BY <1>2, <1>8, <1>9 DEF Agree, alerts

(* The four programs agree on every exact day, whatever the table holds    *)
(* that has one row of a key, no NULL warn and good reads in order.        *)
AgreeOnExactDays ==
    OneRowEach /\ GoodReadInOrder => \A d \in Device, day \in ExactDay : Agree(d, day)

(* The lookups of the reporter, the monitor, the scan fleet dashboard and  *)
(* the marketing display judge every exact day alike, in every state.      *)
THEOREM ExactDaysAgree == Spec => []AgreeOnExactDays
<1>1. LimitsIInv => AgreeOnExactDays
  BY AgreeExactly DEF AgreeOnExactDays
<1> QED
  BY <1>1, LimitsInvariant, PTL

(* Good reads are in order for good when operators enter them in order: no *)
(* run of compute_baselines.py, however it overlaps others, puts a hard    *)
(* limit above its warning line.                                           *)
THEOREM OrderInvariant == EntriesInOrder => (Spec => []GoodReadInOrder)
<1> SUFFICES ASSUME EntriesInOrder
             PROVE  Spec => []GoodReadInOrder
  OBVIOUS
<1>1. Init => GoodReadInOrder
  BY DEF Init, GoodReadInOrder
<1>2. RunsIInv /\ LimitsIInv /\ GoodReadInOrder /\ [Next]_vars => GoodReadInOrder'
  BY OrderKept
<1> QED
  BY <1>1, <1>2, RunsInvariant, LimitsInvariant, PTL DEF Spec

(* JudgesAgree, for any number of devices, customers, runs and operators   *)
(* who enter limits for good reads in order.                               *)
THEOREM JudgesAgreeAlways == EntriesInOrder => (Spec => []JudgesAgree)
<1> SUFFICES ASSUME EntriesInOrder
             PROVE  Spec => []JudgesAgree
  OBVIOUS
<1>1. AgreeOnExactDays /\ GoodReadInOrder => JudgesAgree
  BY DaysAreExact DEF AgreeOnExactDays, JudgesAgree
<1> QED
  BY <1>1, ExactDaysAgree, OrderInvariant, PTL
=============================================================================
