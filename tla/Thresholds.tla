----------------------------- MODULE Thresholds -----------------------------
(***************************************************************************)
(* dbo.alert_thresholds: the job that computes it                          *)
(* (s1_baselines/files/compute_baselines.py) and the four programs that    *)
(* judge devices by it (s1_reporter thresholds.py and anomalies.py,        *)
(* s1_monitor thresholds.py and severity.py, scan_fleet_dashboard          *)
(* thresholds.py and perf.py, marketing_display main.py).                  *)
(*                                                                         *)
(* The job reads the packets of the lookback window, the overrides and the *)
(* existing rows, each with a query of its own, and then updates or        *)
(* inserts in one transaction.  The weekly run, runs started by hand and   *)
(* operators who edit the table meet in the table, which has no unique     *)
(* key.  A row is for a device or, when operators wrote one, for all       *)
(* devices of a customer.                                                  *)
(*                                                                         *)
(* Thresholds are in 1/10000 percent, as stored.  Packets are chosen with  *)
(* rates of whole percents; the standard deviation is cut to 1/(100 n).    *)
(***************************************************************************)
EXTENDS Integers, Sequences, FiniteSets, SequencesExt, FiniteSetsExt

CONSTANTS Device, Customer, CustomerOf,
          Job,            \* runs of compute_baselines.py
          Weekly,         \* the one cron starts
          Packet,         \* rows of device_statistics
          History,        \* sequences of them, at the start
          Entry,          \* [warn, bad, override] an operator may enter
          Config,         \* customer_config: metric -> pair warn, bad
          NoValue,        \* NULL
          Window,         \* bound: packets in the lookback window
          MaxRows,        \* bound: rows ever inserted
          MaxEvents       \* bound: packets, edits and killed runs

Metric == {"good_read_pct", "no_dim_pct"}
Part == [good_read_pct |-> "good_read", no_dim_pct |-> "no_dimension"]

ASSUME ThresholdsAssumption ==
    /\ IsFiniteSet(Device)
    /\ CustomerOf \in [Device -> Customer] /\ Device \cap Customer = {}
    /\ Weekly \in Job /\ History \subseteq BoundedSeq(Packet, Window)
    /\ \A p \in Packet, m \in Metric :
          /\ p.items \in Nat \ {0} /\ p[Part[m]] \in Nat
          /\ (100 * p[Part[m]]) % p.items = 0
    /\ NoValue \notin Nat
    /\ Entry \subseteq [warn : Nat \cup {NoValue}, bad : Nat \cup {NoValue},
                        override : BOOLEAN]
    /\ Config \in [Metric -> [warn : Nat, bad : Nat]]
    /\ Window \in Nat \ {0}
    /\ MaxRows \in Nat /\ MaxEvents \in Nat

VARIABLES packets,   \* device_statistics within the lookback window
          table,     \* id -> row of alert_thresholds; ids grow
          nextId,
          jobs,      \* the runs and what each has read
          disturbed, \* history: keys others wrote while a run was under way
          events

vars == <<packets, table, nextId, jobs, disturbed, events>>

Key == (Device \cup Customer) \X Metric
KeyOf(r) == <<r.of, r.metric>>
RowsOf(k) == {i \in DOMAIN table : KeyOf(table[i]) = k}
-----------------------------------------------------------------------------
(* The k-th smallest value: the k-th of the sorted data. *)
Ranked(data, k) ==
    Min({v \in Range(data) : Cardinality({i \in DOMAIN data : data[i] <= v}) >= k})

(* percentile(), in 1/100 of the unit of the data. *)
Percentile(data, p) ==
    IF data = <<>> THEN 0
    ELSE LET k == (Len(data) - 1) * p
             lo == k \div 100
             hi == IF lo + 1 < Len(data) THEN lo + 1 ELSE Len(data) - 1
         IN  100 * Ranked(data, lo + 1)
             + (Ranked(data, hi + 1) - Ranked(data, lo + 1)) * (k % 100)

Total(data) == SumFunction(data)

Larger(a, b) == IF a >= b THEN a ELSE b

(* The largest integer whose square is at most x, two bits of x at a time. *)
Root(x) ==
    LET root[y \in Nat] ==
            IF y = 0 THEN 0
            ELSE CHOOSE r \in {2 * s + bit : s \in {root[y \div 4]}, bit \in 0 .. 1} :
                     r * r <= y /\ y < (r + 1) * (r + 1)
    IN  root[x]

(* mean and stdev of compute_stats(), times 100 n. *)
Mean(data) == 100 * Total(data)
Deviation(data) ==
    LET n == Len(data)
        away(i) == n * data[i] - Total(data)
    IN  IF n = 1 THEN 0
        ELSE Root((10000 * Total([i \in 1 .. n |-> away(i) * away(i)])) \div (n - 1))

Round(v, n) == (200 * v + n) \div (2 * n)

(* The warning line, 15 percent under the mean, and what the packets alone *)
(* would have for the hard limit; in 1/(100 n) percent.                    *)
WarnLine(data) == (Mean(data) * 85) \div 100
Statistical(data) ==
    Larger(Percentile(data, 5) * Len(data), Mean(data) - 3 * Deviation(data))

BadDeriveGoodRead(data) ==  \* mutant: the statistical value is taken as it is
    <<Round(WarnLine(data), Len(data)), Round(Statistical(data), Len(data))>>

BadDeriveNegative(data) ==  \* mutant: no floor at zero
    LET n == Len(data)
    IN  <<Round(WarnLine(data), n), Round(WarnLine(data) - 100 * n, n)>>

(* derive_thresholds() for good_read_pct: warn, bad. *)
DeriveGoodRead(data) ==
    LET n == Len(data)
        warn == WarnLine(data)
        bad == IF Statistical(data) >= warn THEN Larger(0, warn - 100 * n)
               ELSE Statistical(data)
    IN  <<Round(warn, n), Round(bad, n)>>

DefaultLine == 30000  \* the warning line when the 90th percentile is zero

BadDeriveNoDim(data) ==  \* mutant: the factors are swapped
    LET p90 == Percentile(data, 90)
        p95 == Percentile(data, 95)
    IN  <<IF p90 > 0 THEN p90 * 200 ELSE DefaultLine,
          IF p95 > 0 THEN p95 * 150 ELSE 50000>>

(* derive_thresholds() for no_dim_pct. *)
DeriveNoDim(data) ==
    LET p90 == Percentile(data, 90)
        p95 == Percentile(data, 95)
    IN  <<IF p90 > 0 THEN p90 * 150 ELSE DefaultLine,
          IF p95 > 0 THEN p95 * 200 ELSE 50000>>

Derive(m, data) ==
    IF m = "good_read_pct" THEN DeriveGoodRead(data) ELSE DeriveNoDim(data)

RateOf(p, m) == (100 * p[Part[m]]) \div p.items

(* Derive for every history, so that it is evaluated once. *)
Limits ==
    [m \in Metric |->
        [data \in BoundedSeq({RateOf(p, m) : p \in Packet}, Window) \ {<<>>} |->
            Derive(m, data)]]
-----------------------------------------------------------------------------
(* The rates of a device's packets with at least 50 items, in some order:  *)
(* what is computed from them does not depend on it.                       *)
Rates(d, m) ==
    LET kept == SetToSeq({i \in DOMAIN packets[d] : packets[d][i].items >= 50})
    IN  [i \in DOMAIN kept |-> RateOf(packets[d][kept[i]], m)]

Data == [k \in {k \in Device \X Metric : Rates(k[1], k[2]) # <<>>} |->
            Rates(k[1], k[2])]

Idle == [phase |-> "idle"]

Init ==
    /\ packets \in [Device -> History]
    /\ table = [i \in {} |-> <<>>] /\ nextId = 1
    /\ jobs = [j \in Job |-> Idle]
    /\ disturbed = [j \in Job |-> {}]
    /\ events = 0

Event == events < MaxEvents /\ events' = events + 1

(* A packet arrives; the oldest falls out of the lookback window. *)
PacketArrives(d, p) ==
    /\ Event
    /\ packets' = [packets EXCEPT ![d] =
          IF Len(@) < Window THEN Append(@, p) ELSE Append(Tail(@), p)]
    /\ UNCHANGED <<table, nextId, jobs, disturbed>>

(* keys were written; others are the runs that did not write them. *)
Disturb(keys, others) ==
    disturbed' = [j \in Job |->
        IF j \in others /\ jobs[j] # Idle THEN disturbed[j] \cup keys ELSE {}]

(* An operator adds a row where there is none of that key. *)
OperatorInserts(k, e) ==
    /\ Event
    /\ RowsOf(k) = {} /\ nextId <= MaxRows
    /\ table' = [i \in DOMAIN table \cup {nextId} |->
          IF i \in DOMAIN table THEN table[i]
          ELSE [of |-> k[1], metric |-> k[2], warn |-> e.warn, bad |-> e.bad,
                override |-> e.override]]
    /\ nextId' = nextId + 1
    /\ Disturb({k}, Job)
    /\ UNCHANGED <<packets, jobs>>

OperatorSets(i, e) ==
    /\ Event
    /\ table' = [table EXCEPT ![i].warn = e.warn, ![i].bad = e.bad,
                              ![i].override = e.override]
    /\ table' # table
    /\ Disturb({KeyOf(table[i])}, Job)
    /\ UNCHANGED <<packets, nextId, jobs>>

OperatorDeletes(i) ==
    /\ Event
    /\ table' = [n \in DOMAIN table \ {i} |-> table[n]]
    /\ Disturb({KeyOf(table[i])}, Job)
    /\ UNCHANGED <<packets, nextId, jobs>>
-----------------------------------------------------------------------------
(* compute(): the packets are fetched and grouped by device. *)
JobReads(j) ==
    /\ jobs[j] = Idle
    /\ jobs' = [jobs EXCEPT ![j] = [phase |-> "read", data |-> Data]]
    /\ UNCHANGED <<packets, table, nextId, disturbed, events>>

BadOverridesNone == {}  \* mutant: overrides are not read

BadOverrides ==  \* mutant: an override of one metric skips the device
    {k \in Key : \E i \in DOMAIN table : table[i].override /\ table[i].of = k[1]}

Overrides == {KeyOf(table[i]) : i \in {n \in DOMAIN table : table[n].override}}

(* The overrides are read; the other rows are computed. *)
JobComputes(j) ==
    /\ jobs[j].phase = "read"
    /\ LET data == jobs[j].data
       IN  jobs' = [jobs EXCEPT ![j] =
              [phase |-> "computed",
               results |-> [k \in DOMAIN data \ Overrides |-> Limits[k[2]][data[k]]]]]
    /\ UNCHANGED <<packets, table, nextId, disturbed, events>>

(* The row of k that the reporter and the job end up with: the last. *)
LastRow(k) == table[Max(RowsOf(k))]

(* format_change_lines() formats the old values of a row that changes: a   *)
(* NULL among them raises.                                                 *)
Unformattable(results) ==
    \E k \in DOMAIN results :
        RowsOf(k) # {} /\ NoValue \in {LastRow(k).warn, LastRow(k).bad}

(* The existing rows are read and the changes printed; a dry run ends.     *)
JobCompares(j, dryRun) ==
    /\ jobs[j].phase = "computed"
    /\ jobs' = [jobs EXCEPT ![j] =
          IF Unformattable(@.results) \/ dryRun THEN Idle
          ELSE [phase |-> "compared", results |-> @.results,
                existing |-> {k \in DOMAIN @.results : RowsOf(k) # {}}]]
    /\ disturbed' = [disturbed EXCEPT ![j] = IF jobs'[j] = Idle THEN {} ELSE @]
    /\ UNCHANGED <<packets, table, nextId, events>>

(* UPDATE of every row of a result's key. *)
Updated(results) ==
    [i \in DOMAIN table |->
        IF KeyOf(table[i]) \in DOMAIN results
        THEN [table[i] EXCEPT !.warn = results[KeyOf(table[i])][1],
                              !.bad = results[KeyOf(table[i])][2]]
        ELSE table[i]]

BadJobWrites(j) ==  \* mutant: every key without a row now is inserted
    /\ jobs[j].phase = "compared"
    /\ LET results == jobs[j].results
           new == SetToSeq(DOMAIN results)
       IN  /\ nextId + Len(new) - 1 <= MaxRows
           /\ table' = [i \in DOMAIN table \cup nextId .. nextId + Len(new) - 1 |->
                 IF i \in DOMAIN table THEN table[i]
                 ELSE LET k == new[i - nextId + 1]
                      IN  [of |-> k[1], metric |-> k[2], warn |-> results[k][1],
                           bad |-> results[k][2], override |-> FALSE]]
           /\ nextId' = nextId + Len(new)
           /\ jobs' = [jobs EXCEPT ![j] = Idle]
           /\ Disturb(DOMAIN results, Job \ {j})
    /\ UNCHANGED <<packets, events>>

(* Keys seen among the existing rows are updated, the others inserted, in  *)
(* one transaction.                                                        *)
JobWrites(j) ==
    /\ jobs[j].phase = "compared"
    /\ LET results == jobs[j].results
           new == SetToSeq(DOMAIN results \ jobs[j].existing)
           old == [k \in jobs[j].existing |-> results[k]]
       IN  /\ nextId + Len(new) - 1 <= MaxRows
           /\ table' = [i \in DOMAIN table \cup nextId .. nextId + Len(new) - 1 |->
                 IF i \in DOMAIN table THEN Updated(old)[i]
                 ELSE LET k == new[i - nextId + 1]
                      IN  [of |-> k[1], metric |-> k[2], warn |-> results[k][1],
                           bad |-> results[k][2], override |-> FALSE]]
           /\ nextId' = nextId + Len(new)
           /\ jobs' = [jobs EXCEPT ![j] = Idle]
           /\ Disturb(DOMAIN results, Job \ {j})
    /\ UNCHANGED <<packets, events>>

(* A run is killed or loses the database: what it wrote is rolled back. *)
JobDies(j) ==
    /\ Event
    /\ jobs[j] # Idle
    /\ jobs' = [jobs EXCEPT ![j] = Idle]
    /\ disturbed' = [disturbed EXCEPT ![j] = {}]
    /\ UNCHANGED <<packets, table, nextId>>

(* The weekly run is no dry run. *)
JobStep(j) ==
    \/ JobComputes(j)
    \/ \E dryRun \in {FALSE, j # Weekly} : JobCompares(j, dryRun)
    \/ JobWrites(j)

Next ==
    \/ \E d \in Device, p \in Packet : PacketArrives(d, p)
    \/ \E e \in Entry :
          \/ \E k \in Key : OperatorInserts(k, e)
          \/ \E i \in DOMAIN table : OperatorSets(i, e)
    \/ \E i \in DOMAIN table : OperatorDeletes(i)
    \/ \E j \in Job :
          \/ JobReads(j)
          \/ JobStep(j)
          \/ JobDies(j)

(* Cron starts the weekly run with apply, again and again, and it ends. *)
Fairness == WF_vars(JobReads(Weekly)) /\ WF_vars(JobStep(Weekly))

Spec == Init /\ [][Next]_vars
FairSpec == Spec /\ Fairness
-----------------------------------------------------------------------------
(* Who judges a device.  day holds its items, parts, share of drive C: in  *)
(* percent and state.                                                      *)

BadReporterLookup(d, m) ==  \* mutant: the customer's row first
    LET usable == {k \in {<<CustomerOf[d], m>>} :
                      RowsOf(k) # {} /\ LastRow(k).warn # NoValue}
    IN  IF usable # {} THEN LastRow(<<CustomerOf[d], m>>)
        ELSE IF RowsOf(<<d, m>>) # {} /\ LastRow(<<d, m>>).warn # NoValue
        THEN LastRow(<<d, m>>)
        ELSE Config[m]

(* The reporter loads the rows into a dict, so the last of a key counts,   *)
(* and passes over a row whose warn is NULL.                               *)
ReporterLookup(d, m) ==
    LET usable(k) == RowsOf(k) # {} /\ LastRow(k).warn # NoValue
    IN  IF usable(<<d, m>>) THEN LastRow(<<d, m>>)
        ELSE IF usable(<<CustomerOf[d], m>>) THEN LastRow(<<CustomerOf[d], m>>)
        ELSE Config[m]

(* The monitor takes the first row of a key, whatever it holds; rows come  *)
(* in the order of their ids, the clustered key.                           *)
MonitorLookup(d, m) ==
    LET first(k) == table[Min(RowsOf(k))]
    IN  IF RowsOf(<<d, m>>) # {} THEN first(<<d, m>>)
        ELSE IF RowsOf(<<CustomerOf[d], m>>) # {} THEN first(<<CustomerOf[d], m>>)
        ELSE Config[m]

(* value is beyond a limit: below it for good reads, above it otherwise. *)
Beyond(m, value, limit) ==
    IF m = "good_read_pct" THEN value < limit ELSE value > limit

(* _low_rule() and _high_rule() on unrounded rates. *)
ReporterRate(d, m, day) ==
    LET t == ReporterLookup(d, m)
        beyond(limit) == limit # NoValue
                         /\ Beyond(m, 1000000 * day[Part[m]], limit * day.items)
    IN  IF beyond(t.bad) THEN {<<"bad", m>>}
        ELSE IF beyond(t.warn) THEN {<<"warn", m>>} ELSE {}

Storage(usage) ==
    IF usage > 90 THEN {<<"bad", "storage">>}
    ELSE IF usage > 80 THEN {<<"warn", "storage">>} ELSE {}

NoData(state) ==
    IF state \in {"offline", "never"} THEN {<<"bad", "no data">>} ELSE {}

(* detect() for one device.  The rates of hand scans and missing weights   *)
(* and the alerts on uploads are judged in the same way and left out.      *)
ReporterAlerts(d, day) ==
    (IF day.items > 100 THEN UNION {ReporterRate(d, m, day) : m \in Metric} ELSE {})
    \cup Storage(day.c_usage) \cup NoData(day.state)

(* rate(): rounded to two digits. *)
Rate(part, items) == 100 * ((20000 * part + items) \div (2 * items))

(* The loop over the rates in attention(): no alert without a warn. *)
MonitorRate(d, m, day) ==
    LET t == MonitorLookup(d, m)
        v == Rate(day[Part[m]], day.items)
    IN  IF t.warn = NoValue THEN {}
        ELSE IF t.bad # NoValue /\ Beyond(m, v, t.bad) THEN {<<"bad", m>>}
        ELSE IF Beyond(m, v, t.warn) THEN {<<"warn", m>>} ELSE {}

(* attention() for one enabled, unmuted device; without the alerts on      *)
(* uploads and stopped applications.                                       *)
MonitorAlerts(d, day) ==
    NoData(day.state) \cup
    IF day.state = "stale" THEN {}
    ELSE (IF day.items >= 100
          THEN UNION {MonitorRate(d, m, day) : m \in Metric} ELSE {})
         \cup Storage(day.c_usage)

(* _best_row() for good reads of the scan fleet dashboard: the first row   *)
(* of the machine, else of the customer.                                   *)
BestRows(d) ==
    LET m == "good_read_pct"
    IN  IF RowsOf(<<d, m>>) # {} THEN {table[Min(RowsOf(<<d, m>>))]}
        ELSE IF RowsOf(<<CustomerOf[d], m>>) # {}
        THEN {table[Min(RowsOf(<<CustomerOf[d], m>>))]}
        ELSE {}

(* good_read_target(): the hard limit, or a target of 93 percent.          *)
FleetTarget(d) ==
    LET limits == {r.bad : r \in BestRows(d)} \ {NoValue}
    IN  IF limits = {} THEN 930000 ELSE Max(limits)

(* below_target of build_performance(), on the rate of one day.            *)
FleetBelow(d, day) ==
    day.items > 0 /\ Rate(day.good_read, day.items) < FleetTarget(d)

(* threshold_breaches of the marketing display: rates rounded to one digit *)
(* against the warning lines of the rows of the machine itself.            *)
Breaches(d, day) ==
    {i \in RowsOf(<<d, "good_read_pct">>) :
        /\ day.items > 30
        /\ table[i].warn # NoValue
        /\ 1000 * ((2000 * day.good_read + day.items) \div (2 * day.items))
              < table[i].warn}
-----------------------------------------------------------------------------
(* Type invariant of the thresholds: limits are NULL or not negative.      *)
ThresholdsTypeOK ==
    /\ packets \in [Device -> BoundedSeq(Packet, Window)]
    /\ DOMAIN table \subseteq 1 .. nextId - 1
    /\ \A i \in DOMAIN table :
          table[i] \in [of : Device \cup Customer, metric : Metric,
                        warn : Nat \cup {NoValue}, bad : Nat \cup {NoValue},
                        override : BOOLEAN]
    /\ \A j \in Job :
          /\ jobs[j].phase \in {"idle", "read", "computed", "compared"}
          /\ disturbed[j] \subseteq Key

(* The hard limit the packets alone would have is not so close under the   *)
(* warning line that both come out equal when rounded to four digits.      *)
ClearOfRounding ==
    \A data \in DOMAIN Limits["good_read_pct"] :
        Statistical(data) < WarnLine(data)
            => Len(data) <= 100 * (WarnLine(data) - Statistical(data))

(* What operators enter for a metric has its hard limit no higher than its *)
(* warning line.  Nothing in the code or the table checks it.              *)
EntriesInOrder ==
    \A e \in Entry : NoValue \notin {e.warn, e.bad} => e.bad <= e.warn

(* A hard limit beyond its warning line: under it for good reads, unless   *)
(* the line is zero (compute_baselines.py:80, "bad is the hard limit and   *)
(* must stay strictly under warn"), over it for missing dimensions, unless *)
(* the line is the default one (compute_baselines.py:86-87: the hard limit *)
(* then still comes from the packets and may be anything).                 *)
InOrder(m, warn, bad) ==
    IF m = "good_read_pct" THEN warn = 0 \/ bad < warn
    ELSE bad > warn \/ warn = DefaultLine

ResultsInOrder ==
    \A j \in Job : jobs[j].phase = "compared" =>
        \A k \in DOMAIN jobs[j].results :
            InOrder(k[2], jobs[j].results[k][1], jobs[j].results[k][2])

(* Each row holds what an operator entered or limits in order. *)
RowsInOrder ==
    \A i \in DOMAIN table :
        \/ \E e \in Entry : table[i].warn = e.warn /\ table[i].bad = e.bad
        \/ InOrder(table[i].metric, table[i].warn, table[i].bad)

(* Limits make sense: NULL or not negative, and those that runs are about  *)
(* to write, or wrote and left in the table, are in order, however runs    *)
(* and operators take turns.  They are for packets that are                *)
(* ClearOfRounding.                                                        *)
LimitsAreSound == ThresholdsTypeOK /\ ResultsInOrder /\ RowsInOrder

(* A run changes no row that is an override, unless the row or another of  *)
(* its key was edited or written by someone else while the run was under   *)
(* way.                                                                    *)
OverridesKept ==
    [][\A j \in Job :
         jobs[j].phase = "compared" /\ jobs'[j] = Idle =>
             \A i \in DOMAIN table :
                 table[i].override /\ table'[i] # table[i]
                     => KeyOf(table[i]) \in disturbed[j]]_vars

(* A run inserts a second row of a key only when someone else wrote that   *)
(* key while it was under way: two runs that do not overlap never do.      *)
InsertsOnlyNew ==
    [][\A j \in Job :
         jobs[j].phase = "compared" /\ jobs'[j] = Idle =>
             \A i \in DOMAIN table' \ DOMAIN table :
                 RowsOf(KeyOf(table'[i])) # {} => KeyOf(table'[i]) \in disturbed[j]]_vars

(* However runs and operators overlap, a run touches only what is its own: *)
(* no override, and no second row of a key, unless someone wrote that key  *)
(* meanwhile.                                                              *)
RunsKeepToTheirs == OverridesKept /\ InsertsOnlyNew

(* Days on which the two programs are compared: their rates are whole      *)
(* hundredths of a percent, and they have more than 100 items.             *)
Days == [items : {200}, good_read : {0, 171, 192}, no_dimension : {21},
         c_usage : {85}, state : {"online", "offline"}]

(* What the four programs make of a day of a device is the same.  The      *)
(* reporter and the monitor raise the same alerts; the scan fleet          *)
(* dashboard shows it below its target when they call its good reads bad,  *)
(* if it has a hard limit; and the marketing display lists a breach when   *)
(* they raise any alert on its good reads, if it has a row of its own.     *)
Agree(d, day) ==
    LET alerts == ReporterAlerts(d, day)
        severities == {s \in {"bad", "warn"} : <<s, "good_read_pct">> \in alerts}
    IN  /\ alerts = MonitorAlerts(d, day)
        /\ (\E r \in BestRows(d) : r.bad # NoValue)
               => (FleetBelow(d, day) <=> "bad" \in severities)
        /\ RowsOf(<<d, "good_read_pct">>) # {}
               => (Breaches(d, day) # {} <=> severities # {})

(* As long as every row has a warn value and no key has two rows, the four *)
(* programs agree on an enabled, unmuted, not stale device.                *)
OneRowEach ==
    /\ \A i \in DOMAIN table : table[i].warn # NoValue
    /\ \A k \in Key : Cardinality(RowsOf(k)) <= 1
JudgesAgree == OneRowEach => \A d \in Device, day \in Days : Agree(d, day)

(* The same without the condition (severity.py:1, "Mirrors s1_reporter's   *)
(* anomaly rules over today so far").                                      *)
MonitorMirrorsReporter ==
    \A d \in Device, day \in Days : ReporterAlerts(d, day) = MonitorAlerts(d, day)

(* When packets and edits have stopped, every device with enough packets   *)
(* comes to have the limits they give, in all its rows of the metric, and  *)
(* keeps them; overrides of one metric do not stop the other, and killed   *)
(* or overlapping runs leave nothing old behind.  A computed row with a    *)
(* NULL in it stops every run.                                             *)
Computed == {k \in DOMAIN Data : \A i \in RowsOf(k) : ~table[i].override}
FollowsPackets ==
    \A k \in Computed :
        /\ RowsOf(k) # {}
        /\ \A i \in RowsOf(k) :
              <<table[i].warn, table[i].bad>> = Limits[k[2]][Data[k]]
Blocked ==
    \E k \in Computed :
        \E i \in RowsOf(k) : NoValue \in {table[i].warn, table[i].bad}

TableFollowsPackets == <>[](FollowsPackets \/ Blocked)
=============================================================================
