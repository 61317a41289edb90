----------------------------- MODULE Telemetry ------------------------------
(***************************************************************************)
(* What the web pages make of dbo.device_statistics.  Three programs read  *)
(* the same packets, each with queries and time arithmetic of its own:     *)
(*   s1_monitor            timewin, rates, availability, trends, queries   *)
(*   scan_fleet_dashboard  timeutil, perf, throughput                      *)
(*   marketing_display     main.py                                         *)
(* The pages are operators over the table and the clock.  The steps are    *)
(* packets that arrive, late when a site was cut off or dated ahead when a *)
(* clock is wrong, and time passing.                                       *)
(*                                                                         *)
(* Time is UTC in half hours.  Days, weeks and months are as short as the  *)
(* constants make them.  Percentages, averages and medians, which are      *)
(* arithmetic on the sums, are left out.                                   *)
(***************************************************************************)
EXTENDS Integers, Sequences, FiniteSets, FiniteSetsExt, Functions

CONSTANTS Device, Customer, CustomerOf, CreatedAt,
          Reading,         \* the counts of a packet
          Lateness,        \* how long before its arrival a packet is dated
          HoursPerDay, DaysPerWeek, DaysPerMonth,
          Offset,          \* tz_offset_hours
          Gap, StaleAge,   \* offline_gap_minutes, stale_days
          Shifts,          \* SHIFTS: sequence of [lo, hi] hours
          ExpectedPerDay,  \* EXPECTED_PACKETS_PER_DAY
          None,
          Base, Last,      \* the first moment; bound: the last
          MaxPackets       \* bound: packets received

(* Does a shift cover an hour?  One may pass midnight. *)
Covers(s, hour) ==
    IF s.lo < s.hi THEN s.lo <= hour /\ hour < s.hi
    ELSE s.lo > s.hi /\ (hour >= s.lo \/ hour < s.hi)

Part == {"items", "good_read", "no_read", "hand_scanned"}

ASSUME TelemetryAssumption ==
    /\ IsFiniteSet(Device) /\ CustomerOf \in [Device -> Customer]
    /\ IsFiniteSet(Customer) /\ None \notin Customer
    /\ \A A \in SUBSET Customer : A # None
    /\ Reading \subseteq [Part -> Nat] /\ Lateness \subseteq Int
    /\ {HoursPerDay, DaysPerWeek, DaysPerMonth} \subseteq Nat \ {0}
    /\ Offset \in Nat /\ Gap \in Nat \ {0} /\ StaleAge \in Nat /\ Gap < StaleAge
    /\ ExpectedPerDay \in Nat /\ Base \in Nat /\ Last \in Nat
    /\ Shifts \in Seq([lo : Nat, hi : Nat])
    /\ \A h \in 0 .. HoursPerDay - 1 :
          Cardinality({n \in DOMAIN Shifts : Covers(Shifts[n], h)}) = 1

VARIABLES now,
          store  \* device_statistics, in the order of arrival

pageVars == <<now, store>>

Day == 2 * HoursPerDay
Week == DaysPerWeek * Day
Month == DaysPerMonth * Day
-----------------------------------------------------------------------------
PagesInit == now = Base /\ store = <<>>

PacketArrives(d, r, late) ==
    /\ Len(store) < MaxPackets
    /\ store' = Append(store, [device |-> d, ts |-> now - late, reading |-> r])
    /\ UNCHANGED now

TimeGoesOn ==
    /\ now < Last
    /\ now' = now + 1
    /\ UNCHANGED store

PagesNext ==
    \/ \E d \in Device, r \in Reading, late \in Lateness : PacketArrives(d, r, late)
    \/ TimeGoesOn

PagesSpec == PagesInit /\ [][PagesNext]_pageVars
-----------------------------------------------------------------------------
(* Queries.  A set of rows is a set of indices of store.                   *)
Ts(i) == store[i].ts
All == DOMAIN store
RowsOf(D) == {i \in All : store[i].device \in D}
Since(I, from) == {i \in I : from <= Ts(i)}
Between(I, from, to) == {i \in I : from <= Ts(i) /\ Ts(i) < to}

(* SUM of each count; no row gives 0 on every page. *)
Sums(I) == [part \in Part |-> SumFunction([i \in I |-> store[i].reading[part]])]
Items(I) == Sums(I).items

(* GROUP BY K, the function of a row that gives its key. *)
GroupBy(I, K) == [k \in {K[i] : i \in I} |-> {i \in I : K[i] = k}]
SumsBy(I, K) ==
    LET groups == GroupBy(I, K) IN [k \in DOMAIN groups |-> Sums(groups[k])]
ItemsBy(I, K) ==
    LET groups == GroupBy(I, K) IN [k \in DOMAIN groups |-> Items(groups[k])]

(* What a page shows of a key; what has no row is shown as 0. *)
Shown(sums, key) == IF key \in DOMAIN sums THEN sums[key] ELSE Sums({})

AddUp(sums) ==
    [part \in Part |-> SumFunction([k \in DOMAIN sums |-> sums[k][part]])]

Floor(t, b) == t - (t % b)
Local(t) == t + 2 * Offset
LocalDay(t) == Local(t) \div Day
LocalHour(t) == (Local(t) \div 2) % HoursPerDay
-----------------------------------------------------------------------------
(* s1_monitor: the device page.                                            *)

LocalMidnight == Floor(Local(now), Day) - 2 * Offset

Presets ==
    [d1 |-> [bucket |-> 1, daily |-> FALSE, span |-> Day],
     d2 |-> [bucket |-> 2, daily |-> FALSE, span |-> 2 * Day],
     d7 |-> [bucket |-> Day, daily |-> TRUE, span |-> Week],
     d30 |-> [bucket |-> Day, daily |-> TRUE, span |-> Month]]

BadWindow(p) ==  \* mutant: the window of the last hours is not aligned
    IF p.daily
    THEN [from |-> LocalMidnight - (p.span - Day), end |-> LocalMidnight + Day]
    ELSE [from |-> now - p.span + p.bucket, end |-> now + p.bucket]

(* window(), with the end made exclusive as build_series does.             *)
Window(p) ==
    IF p.daily
    THEN [from |-> LocalMidnight - (p.span - Day), end |-> LocalMidnight + Day]
    ELSE LET to == Floor(now, p.bucket)
         IN  [from |-> to - p.span + p.bucket, end |-> to + p.bucket]

BucketStarts(from, to, b) == {t \in from .. to - 1 : (t - from) % b = 0}

(* SQL_BUCKETS_*: grouped by local time; _fetch_buckets turns it back.     *)
FetchBuckets(d, b, from, end) ==
    GroupBy(Between(RowsOf({d}), from, end),
            [i \in All |-> Floor(Local(Ts(i)), b) - 2 * Offset])

(* fill_buckets(): the rows of buckets that do not start the axis at one   *)
(* of starts would be left out.                                            *)
FillBuckets(groups, starts) ==
    [s \in starts |-> IF s \in DOMAIN groups THEN Sums(groups[s]) ELSE Sums({})]

Series(d, p) ==
    LET w == Window(p)
    IN  FillBuckets(FetchBuckets(d, p.bucket, w.from, w.end),
                    BucketStarts(w.from, w.end, p.bucket))
Hourly(d, p) ==
    LET w == Window(p)
    IN  FillBuckets(FetchBuckets(d, 2, w.from, w.end), BucketStarts(w.from, w.end, 2))

(* What the summary counts one by one: hours, or packets, that are not 0.  *)
PerUnit(d, p) ==
    LET w == Window(p)
        hours == Hourly(d, p)
        rows == Between(RowsOf({d}), w.from, w.end)
    IN  IF p.daily THEN [s \in {h \in DOMAIN hours : hours[h].items > 0} |-> hours[s].items]
        ELSE [i \in {r \in rows : store[r].reading.items > 0} |-> store[i].reading.items]

(* partition() of a device with hand scanners. *)
Partition(t) ==
    LET hand == Min({t.hand_scanned, t.no_read})
    IN  [good |-> t.good_read, hand |-> hand, notRecovered |-> t.no_read - hand]

(* outages(): gaps between successive packets, and the one still open.     *)
Outages(d, p) ==
    LET w == Window(p)
        times == {Ts(i) : i \in Since(RowsOf({d}), w.from)}
        end == Min({now, w.end})
    IN  {[after |-> ab[1], until |-> ab[2], open |-> FALSE] :
            ab \in {ab \in times \X times :
                /\ ab[2] - ab[1] > Gap
                /\ ~\E t \in times : ab[1] < t /\ t < ab[2]}}
        \cup {[after |-> a, until |-> end, open |-> TRUE] :
            a \in {t \in times : end - t > Gap /\ \A u \in times : u <= t}}
-----------------------------------------------------------------------------
(* s1_monitor: the fleet page and the trends page.                         *)

BadState(d) ==  \* mutant: the last packet to arrive, not the newest
    LET seen == RowsOf({d})
        age == now - (IF seen = {} THEN CreatedAt[d] ELSE Ts(Max(seen)))
    IN  IF age >= StaleAge THEN "stale"
        ELSE IF seen = {} THEN "never"
        ELSE IF age >= Gap THEN "offline" ELSE "online"

(* classify(MAX(ts_datetime), created_at). *)
State(d) ==
    LET seen == {Ts(i) : i \in RowsOf({d})}
        age == now - (IF seen = {} THEN CreatedAt[d] ELSE Max(seen))
    IN  IF age >= StaleAge THEN "stale"
        ELSE IF seen = {} THEN "never"
        ELSE IF age >= Gap THEN "offline" ELSE "online"

FleetToday(d) == Sums(Since(RowsOf({d}), LocalMidnight))

(* The items of the strip. *)
ItemsToday == SumFunction([d \in Device |-> FleetToday(d).items])

BadSpark(d) ==  \* mutant: the hours before the present one
    LET items == ItemsBy(Since(RowsOf({d}), now - Day), [i \in All |-> Floor(Ts(i), 2)])
        hours == {Floor(now, 2) - 2 * n : n \in 1 .. HoursPerDay}
    IN  [h \in hours |-> IF h \in DOMAIN items THEN items[h] ELSE 0]

(* spark24: rows of the last day by their hour, shown for the last hours.  *)
(* The part of an hour with which the last day begins is not shown.        *)
Spark(d) ==
    LET items == ItemsBy(Since(RowsOf({d}), now - Day), [i \in All |-> Floor(Ts(i), 2)])
        hours == {Floor(now, 2) - 2 * n : n \in 0 .. HoursPerDay - 1}
    IN  [h \in hours |-> IF h \in DOMAIN items THEN items[h] ELSE 0]

BadTrendsFrom(p) ==  \* mutant: four weeks, counted from today
    Min({Window(p).from, LocalMidnight - 4 * Week})

TrendsFrom(p) == Min({Window(p).from, LocalMidnight - 6 * Week})

(* SQL_DAILY, for one device: day -> items. *)
Daily(d, p) ==
    ItemsBy(Since(RowsOf({d}), TrendsFrom(p)), [i \in All |-> LocalDay(Ts(i))])

(* _agg(): the days from a to before b. *)
Agg(rows, a, b) ==
    SumFunctionOnSet(rows, {day \in DOMAIN rows : a <= day /\ day < b})

(* week_over_week(): for items the weeks before are cut at today's weekday.*)
WeekOverWeek(d, p, metric) ==
    LET rows == Daily(d, p)
        today == LocalDay(now)
        monday == Floor(today, DaysPerWeek)
        elapsed == today - monday + 1
        before == IF metric = "items" THEN elapsed ELSE DaysPerWeek
        from(i) == monday - i * DaysPerWeek
    IN  [thisWeek |-> Agg(rows, monday, monday + elapsed),
         prev |-> [i \in 1 .. 4 |-> Agg(rows, from(i), from(i) + before)],
         full |-> [i \in 1 .. 4 |-> Agg(rows, from(i), from(i) + DaysPerWeek)]]
-----------------------------------------------------------------------------
(* scan_fleet_dashboard.  Dates are local days.                            *)

(* customer_scope(): the filter of the page and what the caller may see.   *)
Scope(customer, allowed) ==
    {d \in Device :
        /\ allowed # None => CustomerOf[d] \in allowed
        /\ customer # None => CustomerOf[d] = customer}

UtcBounds(from, to) ==
    [start |-> from * Day - 2 * Offset, end |-> (to + 1) * Day - 2 * Offset]

Ranged(D, from, to) ==
    LET b == UtcBounds(from, to) IN Between(RowsOf(D), b.start, b.end)

HourlyRows(D, from, to) ==
    GroupBy(Ranged(D, from, to),
            [i \in All |-> <<store[i].device, LocalDay(Ts(i)), LocalHour(Ts(i))>>])

ParcelsToday(D) == Items(Ranged(D, LocalDay(now), LocalDay(now)))

BadShiftOf(hour) ==  \* mutant: the overnight shift ends at midnight
    CHOOSE n \in DOMAIN Shifts :
        \/ Shifts[n].lo <= hour /\ hour < Shifts[n].hi
        \/ n = Len(Shifts)

(* _shift_of(): the first that covers the hour, else the last.             *)
ShiftOf(hour) ==
    Min({n \in DOMAIN Shifts : Covers(Shifts[n], hour)} \cup {Len(Shifts)})

(* build_kpis(): missed packets are counted on days with some packet.      *)
Kpis(D, from, to) ==
    LET rows == HourlyRows(D, from, to)
        keys == DOMAIN rows
        sum(K) == SumFunction([k \in K |-> Items(rows[k])])
        count(K) == SumFunction([k \in K |-> Cardinality(rows[k])])
    IN  [fleetHours |-> [h \in {<<k[2], k[3]>> : k \in keys} |->
                            sum({k \in keys : <<k[2], k[3]>> = h})],
         machines |-> [d \in {k[1] : k \in keys} |-> sum({k \in keys : k[1] = d})],
         shifts |-> [n \in DOMAIN Shifts |-> sum({k \in keys : ShiftOf(k[3]) = n})],
         received |-> count(keys),
         missed |-> SumFunction([dd \in {<<k[1], k[2]>> : k \in keys} |->
             Max({0, ExpectedPerDay - count({k \in keys : <<k[1], k[2]>> = dd})})])]

(* _profile_for_date() and build_intraday(): every hour of a day.          *)
Profile(D, day) ==
    LET items == ItemsBy(Ranged(D, day, day), [i \in All |-> LocalHour(Ts(i))])
    IN  [h \in 0 .. HoursPerDay - 1 |-> IF h \in DOMAIN items THEN items[h] ELSE 0]

(* build_by_machine(): parcels and observed hours per device and day.      *)
ByMachine(D, from, to) ==
    LET rows == HourlyRows(D, from, to)
    IN  [dd \in {<<k[1], k[2]>> : k \in DOMAIN rows} |->
            LET of == {k \in DOMAIN rows : <<k[1], k[2]>> = dd}
            IN  [items |-> SumFunction([k \in of |-> Items(rows[k])]),
                 hours |-> Cardinality(of)]]

(* build_performance(): the series of a device and the sums behind its     *)
(* current percentage.                                                     *)
Performance(D, from, to) ==
    LET series == SumsBy(Ranged(D, from, to),
                         [i \in All |-> <<store[i].device, LocalDay(Ts(i))>>])
    IN  [series |-> series,
         current |-> [d \in {k[1] : k \in DOMAIN series} |->
             AddUp([k \in {o \in DOMAIN series : o[1] = d} |-> series[k]])]]
-----------------------------------------------------------------------------
(* marketing_display.  The statistics page counts local days, the          *)
(* dashboard and the history days of UTC.                                  *)

StatsToday == Items({i \in All : LocalDay(Ts(i)) = LocalDay(now)})
StatsMonth ==
    Items({i \in All : Local(Ts(i)) >= Floor(Local(now), Month)})
Sparkline ==
    ItemsBy(Since(All, now - Day), [i \in All |-> <<LocalDay(Ts(i)), LocalHour(Ts(i))>>])

UtcDay(t) == t \div Day
UtcMidnight == Floor(now, Day)
TodayRows == Since(All, UtcMidnight)

BadDashHourly ==  \* mutant: hours of the last day instead of today's
    SumsBy(Since(All, now - Day), [i \in All |-> (Ts(i) \div 2) % HoursPerDay])

(* The hourly breakdown of today. *)
DashHourly == SumsBy(TodayRows, [i \in All |-> (Ts(i) \div 2) % HoursPerDay])

(* Rows of the device table, joined with today's sums; machineGoodRead is  *)
(* the same by device.                                                     *)
DashDevices == [d \in Device |-> Sums(TodayRows \cap RowsOf({d}))]

DashCustomers ==
    [c \in {CustomerOf[d] : d \in Device} |->
        Sums(TodayRows \cap RowsOf({d \in Device : CustomerOf[d] = c}))]

Trend(days) ==
    SumsBy(Since(All, UtcMidnight - days * Day), [i \in All |-> UtcDay(Ts(i))])
CustomerTrend(days) ==
    SumsBy(Since(All, UtcMidnight - days * Day),
           [i \in All |-> <<UtcDay(Ts(i)), CustomerOf[store[i].device]>>])

(* get_history(): the days from and to included, for some devices.         *)
HistoryRows(D, from, to) ==
    {i \in RowsOf(D) : from <= UtcDay(Ts(i)) /\ UtcDay(Ts(i)) <= to}
History(D, from, to) ==
    LET by(K) == SumsBy(HistoryRows(D, from, to), K)
    IN  [daily |-> by([i \in All |-> <<UtcDay(Ts(i)), store[i].device>>]),
         fleetDaily |-> by([i \in All |-> UtcDay(Ts(i))]),
         machineSummary |-> by([i \in All |-> store[i].device]),
         customerDaily |-> by([i \in All |-> <<UtcDay(Ts(i)), CustomerOf[store[i].device]>>])]
-----------------------------------------------------------------------------
(* Devices with packets; others have nothing to show. *)
Heard == {store[i].device : i \in All}
NoneAhead == \A i \in All : LocalDay(Ts(i)) <= LocalDay(now)

(* The device page loses no packet between the query and the chart: the    *)
(* buckets of a range, and its hours, add up to the packets of the range,  *)
(* the range reaches the present, and the parts of the pie are the items   *)
(* read and not read.  The axis is made in UTC and the groups in local     *)
(* time (timewin.py, rates.py:30).                                         *)
SeriesReconciles ==
    \A d \in Heard, name \in DOMAIN Presets :
        LET p == Presets[name]
            w == Window(p)
            t == AddUp(Series(d, p))
            pie == Partition(t)
            per == PerUnit(d, p)
        IN  /\ t = Sums(Between(RowsOf({d}), w.from, w.end))
            /\ p.daily => AddUp(Hourly(d, p)) = t
            /\ w.from <= now /\ now < w.end
            /\ t.items = SumFunction(per)
            /\ pie.good + pie.hand + pie.notRecovered = t.good_read + t.no_read
            /\ pie.notRecovered >= 0

(* The device page shows an open outage exactly when the fleet page calls  *)
(* a device offline or stale that was heard of in the range, except at the *)
(* very moment its silence reaches the gap; every outage shown is a time   *)
(* without packets.  A packet that arrives late closes no outage after its *)
(* date (availability.py:18, :30).                                         *)
OutagesAreReal ==
    \A d \in Heard, name \in DOMAIN Presets :
        LET p == Presets[name]
            out == Outages(d, p)
            heard == {Ts(i) : i \in Since(RowsOf({d}), Window(p).from)}
        IN  /\ \A o \in out : ~\E t \in heard : o.after < t /\ t < o.until
            /\ (\E o \in out : o.open)
                 <=> /\ heard # {} /\ State(d) \in {"offline", "stale"}
                     /\ now - Max(heard) # Gap

(* Items since the midnight of UTC, and since the local one: they differ   *)
(* by the packets between the two.                                         *)
TwoMidnights(D, utc, local) ==
    utc + Items(Between(RowsOf(D), LocalMidnight, UtcMidnight))
        = local + Items(Between(RowsOf(D), UtcMidnight, LocalMidnight))

(* The pages that count local days, which are the monitor's, the scan      *)
(* fleet dashboard's and the statistics page of the marketing display,     *)
(* give the same number for today and for each of the last days, for the   *)
(* fleet and for its customers, however they cut time, as long as no       *)
(* packet is dated after today; what a restricted caller sees is of the    *)
(* customers allowed.  The marketing dashboard counts the day of UTC: what *)
(* it shows of a device or a customer differs from the other pages by the  *)
(* packets between the two midnights and by nothing else (timeutil.py,     *)
(* timewin.py, throughput.py:50, marketing_display main.py:110, :228).     *)
TotalsAgree ==
    LET today == LocalDay(now)
        kpis == Kpis(Device, today, today)
        monitor(d, day) == Series(d, Presets.d7)[day * Day - 2 * Offset]
    IN  /\ NoneAhead => ItemsToday = ParcelsToday(Device) /\ ItemsToday = StatsToday
        /\ \A day \in {LocalDay(Ts(i)) : i \in All} \cap today - DaysPerWeek + 1 .. today :
              LET k == Kpis(Device, day, day)
                  perf == Performance(Device, day, day)
                  machines == ByMachine(Device, day, day)
              IN  /\ \A d \in Device :
                        LET s == monitor(d, day) IN
                        /\ <<d, day>> \in DOMAIN perf.series =>
                              perf.series[<<d, day>>] = s /\ perf.current[d] = s
                        /\ <<d, day>> \in DOMAIN machines =>
                              machines[<<d, day>>].items = s.items
                        /\ s.items = IF d \in DOMAIN k.machines THEN k.machines[d] ELSE 0
                  /\ SumFunction(k.shifts) = SumFunction(k.machines)
                  /\ SumFunction(k.fleetHours) = SumFunction(k.machines)
                  /\ SumFunction(Profile(Device, day)) = SumFunction(k.machines)
                  /\ k.received + k.missed >= ExpectedPerDay * Cardinality(DOMAIN k.machines)
        /\ \A d \in Device : TwoMidnights({d}, DashDevices[d].items, FleetToday(d).items)
        /\ NoneAhead => \A c \in DOMAIN DashCustomers :
              TwoMidnights(Scope(c, None), DashCustomers[c].items, ParcelsToday(Scope(c, None)))
        /\ \A n \in DOMAIN Shifts : kpis.shifts[n] =
              SumFunctionOnSet(Profile(Device, today),
                               {h \in 0 .. HoursPerDay - 1 : Covers(Shifts[n], h)})
        /\ \A A \in SUBSET Customer, c \in Customer \cup {None} :
              ParcelsToday(Scope(c, A))
                  = SumFunction([a \in (IF c = None THEN A ELSE A \cap {c}) |->
                                    ParcelsToday(Scope(a, None))])

(* Pages that show the same thing of the same packets agree: the totals    *)
(* across the three programs, the outages and states of a device across    *)
(* the monitor's two pages.  Before the first packet there is nothing to   *)
(* compare: every page shows zeros.                                        *)
PagesAgree == Heard # {} => TotalsAgree /\ OutagesAreReal

(* The hours of every device page, over the last days. *)
FleetHours == [d \in Device |-> Hourly(d, Presets.d7)]

(* What a chart of local hours shows for days of UTC. *)
OnUtcDays(hours, from, to) ==
    AddUp([s \in {s \in DOMAIN hours : from <= UtcDay(s) /\ UtcDay(s) <= to} |-> hours[s]])

(* The panels of today: the marketing dashboard's hour of the day is that  *)
(* hour on the device pages of all devices, as long as no packet is dated  *)
(* after the UTC day (an hour of tomorrow would be added to today's), and  *)
(* an hour of the fleet page is that hour of the device page.  The         *)
(* statistics page shows the last day to the half hour, the fleet page     *)
(* whole hours: it leaves out the part of an hour that the day begins with *)
(* and what is dated ahead, and nothing else (marketing_display            *)
(* main.py:231, :140; fleet.py:85, :100).                                  *)
HoursReconcile ==
    LET fleet == FleetHours
        panel == DashHourly
        w == Window(Presets.d7)
        spark == [d \in Device |-> Spark(d)]
        next == Floor(now, 2) + 2
    IN  /\ (\A i \in All : UtcDay(Ts(i)) <= UtcDay(now)) =>
              \A s \in BucketStarts(w.from, w.end, 2) : UtcDay(s) = UtcDay(now) =>
                  Shown(panel, (s \div 2) % HoursPerDay) = AddUp([d \in Device |-> fleet[d][s]])
        /\ \A d \in Device :
              LET series == Series(d, Presets.d2)
              IN  \A h \in DOMAIN spark[d] : spark[d][h] = series[h].items
        /\ SumFunction(Sparkline)
              = SumFunction([d \in Device |-> SumFunction(spark[d])])
                + Items(Between(All, now - Day, next - Day)) + Items(Since(All, next))

(* The days of UTC: the trends start at a midnight, so that their first    *)
(* day is whole, and show of each day what the history does; a device's    *)
(* history, by day or of a period, is the hours of its device page, whose  *)
(* days are local, as far back as these go.  Today is in the month         *)
(* (marketing_display main.py:383, :543-642).                              *)
HistoryReconciles ==
    LET today == UtcDay(now)
        w == Window(Presets.d7)
        fleet == FleetHours
        trend == Trend(2 * DaysPerWeek)
        customers == CustomerTrend(DaysPerWeek)
        first == today - 2 * DaysPerWeek
        past == History(Device, first, today)
    IN  /\ \A day \in first .. today :
              /\ Shown(past.fleetDaily, day) = Shown(trend, day)
              /\ day >= today - DaysPerWeek => \A c \in Customer :
                    Shown(past.customerDaily, <<day, c>>) = Shown(customers, <<day, c>>)
        /\ \A from, to \in today - DaysPerWeek .. today :
              w.from <= Day * from /\ Day * (to + 1) <= w.end =>
                  LET h == History(Device, from, to)
                  IN  \A d \in Device :
                          /\ Shown(h.machineSummary, d) = OnUtcDays(fleet[d], from, to)
                          /\ \A day \in from .. to :
                                Shown(h.daily, <<day, d>>) = OnUtcDays(fleet[d], day, day)
        /\ StatsToday <= StatsMonth

(* The trends page compares whole weeks: what it fetched reaches back far  *)
(* enough for each of the four, on every day of the week and with every    *)
(* range, and on the last day the weeks cut at today are the whole ones    *)
(* (queries/trends.py:28, trends.py:39).                                   *)
WeeksCompare ==
    \A d \in Heard, name \in {"d7", "d30"} :
        LET w == WeekOverWeek(d, Presets[name], "items")
            rates == WeekOverWeek(d, Presets[name], "good_read_pct")
            monday == Floor(LocalDay(now), DaysPerWeek)
            items(from, to) == Items(Ranged({d}, from, to))
        IN  /\ \A i \in 1 .. 4 :
                  LET from == monday - i * DaysPerWeek
                  IN  /\ w.full[i] = items(from, from + DaysPerWeek - 1)
                      /\ rates.prev[i] = w.full[i]
                      /\ w.prev[i] = items(from, from + LocalDay(now) - monday)
            /\ w.thisWeek = items(monday, LocalDay(now))
            /\ LocalDay(now) = monday + DaysPerWeek - 1 => w.prev = w.full

(* However a page cuts time, it shows of the packets what another cut of   *)
(* them gives: chart against table, hours against days, local against UTC, *)
(* and weeks whole.  What the fleet page's last hours leave out is stated  *)
(* to the packet.  Again, from the first packet on.                        *)
PagesAddUp ==
    Heard # {} =>
        SeriesReconciles /\ HoursReconcile /\ HistoryReconciles /\ WeeksCompare
=============================================================================
