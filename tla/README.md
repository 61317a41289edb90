# Systems-One-Server: TLA+ models, checks and proofs

The repository provisions one server that collects telemetry of scan machines over MQTT,
stores it in SQL Server, and shows, reports, alerts and backs it up. Most of it is
provisioning; the programs with logic of their own are Python services in `src/roles/*/files`.
This directory models them in TLA+, checks the models with TLC and proves theorems about them
with TLAPS. The core is the MQTT ingestor: it is the only writer of telemetry, it runs several
threads over one SQL connection, and what it loses is lost for everybody. Around it stand the
programs that read what it stored and tell people about it: the Teams reporter, the monitor, two
dashboards and the job that computes their thresholds; and the printer relay, which hands data on.

Paths below are relative to `src/roles/` unless they say otherwise; `ingestor/` is
`mqtt_ingestor/files/app/ingestor/`.

## 1. Inventory

| Component | State | Operations | Interacts with | What is hard | What makes it correct |
|---|---|---|---|---|---|
| Spool (`ingestor/spool.py`) | SQLite rows with ids, running totals in `spool_meta`, the open transaction | `enqueue`, drop-oldest, `dequeue_batch`, `commit_batch`, `close` | MQTT thread, writer, `run()` | rows dropped while a batch is out; a rejection that leaves deletions uncommitted; crash | the cap; totals equal rows; order of dropping; a released row never returns |
| Pipeline and `DbWriter` (`ingestor/pipeline.py`, `db.py`) | batch in hand, attempt, connection and its transaction, `_lock`, shutdown flags | dequeue, dispatch, commit, rollback, retry, dead-letter, release; broker flush; shutdown | spool, SQL Server, broker-flush thread | commits in mid-batch, lost answers, errors between lock regions, exceptions of another type, timed-out joins | nothing accepted is lost silently; duplicates have a cause; the newest status wins; a bad batch does not block |
| `SettingsWriter` (`ingestor/settings_writer.py`) | one JSON file per device and settings type | `write_batch` | writer thread, file system | files that cannot be written | the newest settings are on file |
| `MqttClient` (`ingestor/mqtt_client.py`) | connected, reconnecting, subscription, reconnect thread | callbacks, reconnect loop, stop | broker, spool | its own reconnect thread beside paho's loop, which reconnects too; an exception in `on_message` | always eventually reconnects; health tells the truth |
| Health, metrics, validation, config (`ingestor/`) | counters | report, validate | pipeline | - | read-only or pure |
| Printer relay (`printer_relay/files/app/relay.py`) | listener, active jobs, reachability | probe, open/close listener, forward a job, stop | printer, label stations | decisions across awaits, stop against accept | the port follows the printer; every job ends; a failure is reported as one |
| Reporter: alerts and status (`s1_reporter/files/app/s1_reporter/`) | state file of open alerts, `dbo.device_status` | `check-alerts`, `sync-status`, reports, digest | Teams, database, ingestor | post before commit, partial posts, a damaged state file, two writers of one table | a second alert, or none, only for what a run announced and did not commit; a recovery only after a packet |
| Reporter: cards, charts, queries | none | classify, format, draw | the above | boundaries of thresholds | definitions agree with their documentation |
| Monitor (`s1_monitor/files/app/`) | TTL cache, snapshot task state, history table | cached reads, pages, alerts, snapshot and prune | database, browsers | concurrent builders, stale answers served on error, failed calls that took effect, four notions of an hour | a fresh answer is fresh; a snapshot per interval; pages add up and agree |
| Baselines (`s1_baselines/files/`) | `dbo.alert_thresholds` | compute, dry-run, apply, migrate | database, operators, the four programs that judge by the table | three reads, then a write, against operators and another run; no unique key | overrides survive; limits make sense and follow the packets |
| Scan-fleet dashboard (`scan_fleet_dashboard/files/app/`) | KPI cache | queries by local day, shift and machine; targets | database | cache age, shifts over midnight | answers within TTL; tables add up |
| Marketing display (`marketing_display/files/app/`) | two locked caches | statistics, dashboard, history, breaches | database | a locked build that fails; UTC days beside local days | one build at a time; answers within TTL |
| Terminal dashboard (`s1_dashboard/templates/`) | screen state | poll and draw | docker, database | - | read-only |
| Backup (`backup/`) | repository, status file | nightly script; gate before a deploy | SQL Server, Mosquitto, the plays | a step that fails before the status file is written | the gate passes only on a fresh, complete backup |
| Broker, SQL Server (`mqtt/`, `mssql/`) | third-party servers | - | the above | - | external; only what the ingestor sees of them |
| Node-RED, Grafana, cloudflared, docker roles | third-party containers | provisioning | - | - | - |
| `systems_one_ingest` | - | the retired ingestor | - | - | no play refers to it |
| `.github/workflows`, `tools/` | - | deploy, rollback, flow sync | - | - | CI wiring, an operator's tool |

The hazards of this code, each at its line, are in `PROJECT.json` under `hazards`, with the
properties that cover them. Three have none: what two devices that share an alert key should show is
said nowhere; rows that `close()` brings back at shutdown do overtake newer ones
(`MCIngestorRevived`); and a run of the baselines job that a NULL makes fail stays blocked until
somebody edits the row.

### How the ingestor works

The paho network thread calls `on_message`, which enqueues the event in the SQLite spool. The
writer thread reads a batch of the oldest rows (they stay in the spool), writes the settings
entries to files, the rest to SQL Server in one transaction, and only then removes the rows
(`commit_batch`). An error rolls back and retries with a back-off; after the last retry the
batch goes to `ingest.telemetry_deadletter` and leaves the spool. A third thread flushes broker
statistics over the same SQL connection, under the same lock. `run()` waits for a signal, stops
the MQTT client, joins the two threads with timeouts and closes both connections.

## 2. Modules

| Module | Models |
|---|---|
| `Spool` | `spool.py`: every public method that changes state, both full modes |
| `Ingestor` | `pipeline.py`, `db.py`, `settings_writer.py`, composed with `Spool`; crash and restart |
| `Delivery` | abstract: what the ingestor promises for the messages it accepts |
| `MqttClient` | `mqtt_client.py` and the part of `pipeline.py` that takes its events and reports its health, composed with `Spool`; paho's loop and the broker as the environment |
| `PrinterRelay` | `relay.py`: the watcher, the listener, a handler and two pipes per client; the printer and its clients as the environment |
| `Reporter` | `check-alerts` and `sync-status` of the Teams reporter |
| `Thresholds` | the baselines job, and the four programs that judge devices by its table |
| `QueryCache` | the caches of the monitor, the marketing display and the scan-fleet dashboard |
| `Snapshots` | the monitor's snapshot task |
| `Telemetry` | what the pages of three programs make of the same packets |
| `MCSpool`, `MCIngestor`, `MCMqttClient`, `MCPrinterRelay`, `MCReporter`, `MCThresholds` | small instances for TLC, with the bounds |
| `MCMonitor` | the same for `QueryCache`, `Snapshots` and `Telemetry`, which share no state: each behaviour runs one of them |
| `SpoolProofs`, `IngestorProofs`, `MqttClientProofs`, `PrinterRelayProofs`, `ReporterProofs`, `ThresholdsProofs`, `MonitorProofs` | theorems, proved for every value of the constants; `MonitorProofs` has those of `QueryCache`, `Snapshots` and `Telemetry` |
| `NumberProofs` | lemmas on whole-number division and on sums over finite sets; no model of its own |

An operator whose name begins with `Bad` and whose comment says `mutant` is a plausible mistake in
the definition after it; `PROJECT.json` names the property that notices it.

### Spool

`view` is the database as the one open connection sees it, `disk` the last committed one. All
public methods take the same lock, so each is one step. What crosses steps is the transaction:
`enqueue` that rejects its event after drop passes returns without commit or rollback, so its
deletions wait in `view` until the next commit (`EnqueueReject`). `held` is the batch the writer
has read and works on outside the lock; rows of it may be dropped meanwhile. Row ids are
AUTOINCREMENT and never reused, so `log[i]` is the message of row `i` and a table is a set of ids
with its totals. The up to ten drop passes of one `enqueue` are one operator, `DropSet`: oldest
first, until the event fits or the scan limit is used up; each pass that deletes something is one
drop event. Messages are told apart by size only. `dequeued_total` counts the ids `commit_batch` is given,
also rows dropped in the meantime, so the counters cover every message (`CountersCoverAll`) but
partition them only in reject-new mode (`CountersExactWhenRejecting`).

Here calls of SQLite succeed; `MqttClient` adds the ones that fail.

### Ingestor

`pc` is the writer's place: `idle`, `settings` (files), `waiting` (about to take the connection
lock), `dispatch` (one entry per step, the lock held), `failed` (error raised, lock released,
rollback still to come), `stored` (committed, not yet released), `state` (bookkeeping),
`deadletter`, `discard`, `halt`. The lock is held exactly while `pc = "dispatch"`; in every other
place the broker thread (`BrokerFlush`, `BrokerFault`, `BrokerRollBack`) and the closing main
thread (`CloseAll`) may step in. Between `failed` and `RollBack` the broker thread can commit what
the failed attempt left open: the code has this gap, since `except pyodbc.Error` rolls back under
the lock taken anew. The broker thread leaves the same gap: its own INSERT (`Snapshot`) stays open
in the shared transaction when its commit fails, and until `BrokerRollBack` has the lock an attempt
may begin, commit it, or be rolled back with it. `AttemptStartsClean` therefore admits that one
statement, and only while the rollback is due.

`db` is the committed database, `txn` the database as the shared connection sees it. A message
is its device triple, its serial or none, and its kind: what the topic and payload ask for.
`"status"` stands for every MERGE of a latest value, `"itemlog"` for the append-only insert,
`"unmapped"` and `"rejected"` for the two ways an entry ends without a statement, `"settings"` for
the file writer, `"malformed"` for a payload that makes a handler raise something that is not a
`pyodbc.Error`. The values written are the row id that wrote them. `_resolve_device` registers a
device (with a placeholder serial if the payload has none) or upgrades a placeholder, and
**commits** the connection, with whatever the attempt did before; a serial already taken
(`UQ_devices_serial`) raises. `DispatchFault` is any `pyodbc.Error` at any statement, with the
outcomes a server can leave: transaction kept, rolled back, or the commit done and its answer
lost. `CrashAndRestart` may interrupt any step.

Abstracted: back-off delays (a retry may happen at any time); the device cache of `DbWriter`
(it always agrees with the connection's own view of `devices`, so reading the table models it);
the in-memory accumulation of broker statistics (they have tables of their own); one settings
file per device, and one that cannot be written is dropped, as in the code. Payload serials never
look like a placeholder.

`filed`, `lost`, `failures` and the `done` part of the database are history: what the code
does not record but the properties speak of.

### Delivery

An accepted message is queued until it is settled (stored, filed, dead-lettered, or given up by
the last dead-letter try, which is logged) or shed, oldest first, by policy; a message shed may
come back as long as the shedding is not durable. `Ingestor` implements it through
`accepted <- Len(log)`, `queue <- view.live`, `shed <- view.dropped`, `settled <- Settled`
(`DeliveryKept`).

### MqttClient

Three kinds of thread touch the connection: paho's network loop, which runs the callbacks and
reconnects by itself (`loop` is `running`, `waiting`, `dead` of an exception, or `stopped`); the
workers this program starts on a disconnect, which sleep and call `reconnect()` whatever happened
meanwhile (`asleep`, `failing`); and the main thread (`Stop`). `reconnect()` closes the socket it
finds without a callback, so a loop that runs may go on with the new socket or take the change for
a lost connection (`WorkerReconnects`). The broker keeps the session (`clean_session` is off):
`published` is what it took for it, `handled` how far `on_message` got on this connection, `acked`
how far acknowledgements went; a new connection starts again from `acked`. `BrokerForgets` is a
broker that restarts without its state.

`enqueue()` may raise at its first statement or at its commit, with the row left in the open
transaction or rolled back (`ReceiveRaises`); paho's loop then dies and no callback says so.
`commit_batch()` may raise with the deletions left open or rolled back (`WriterRaises`).
`Restart` is a kill at any moment or the end of a stopped process. The delay of a worker is
`2 ** (attempt - 1)`, a float that overflows from attempt 1025 on; `MaxAttempt` stands for 1024,
and a worker past it ends at once with its claim kept. Other delays are left out. The log keeps
the ids of inserts that were not committed; ids only name rows.

### PrinterRelay

One asyncio process, so a step is what runs between two awaits. The watcher (`watch`) probes the
printer, and acts on the answer in a later step (`WatchActs`); opening the listener is an await of
its own (`open`), so that a job whose connect fails may close the listener before, in between or
after. A client has a handler (`stage`: `accepted`, `connecting`, `relaying`, `done`) and, while
`relaying`, two pipes (`up`, `down`). A job is `Size[c]` chunks; `sent`, `written` and `printed`
count how far they came, and `written - printed` is what the sockets hold, at most `Buffer` before
`drain()` blocks. `link` is the connection to the printer and `answer` what the client sees at the
end: refused, a reset, an ordinary end, or the process killed. A reset comes from `_abort`, or from
the kernel, when the handler closes a connection with bytes of the client unread or still to come
(`CloseAnswers`); the client of a killed process may see either and is told nothing.
`FailureIsHonest` says what each end tells of the job: a refused job was not touched, a reset one
may be printed in part but never was sent on whole. The watcher's own probe (`probing`) occupies a
printer that takes one connection at a time, as a job does.

Time is left out: the idle timeout of a pipe is the action that ends it whenever it has nothing to
read (`UpEnds`, `DownEnds`), and the grace after the first pipe may end with or without the other
(`HandlerFinishes`). That leaves more behaviours than the clock would, never fewer. A printer may
take one connection at a time (`OneJob`), as the comment in `_handle` says of some.

Left out: replies of the printer (they are only passed on; that they are absent is what ends
`down`), the heartbeat file, and `stop()`, which only the tests call; `main` waits for ever and the
process ends by being killed. External: `Available`, `Reachable`, `LinkCloses`, `PrinterTakes`, `PrinterOff`,
`PrinterOn`, `ClientSends`.

### Reporter

Cron starts one-shot processes. A run of `check-alerts` is a record `check` that goes through the
phases of the code, first for offline devices, then for stuck uploads: the query (`seen`), the
comparison with the state file (`alert`), the alert card (`recovery`), the recovery card
(`commit`), the new state file. A post that fails clears `sent`, and the run goes on but does not
commit. A run may be killed or end on a database error in every phase, and a state file may be lost
or damaged, which `load()` takes for empty. `sync-status` looks (`SyncLooks`) and merges what it
saw later (`SyncMerges`), while the ingestor writes the same table (`IngestStatus`), devices send
packets, age and are edited. `classify()`, `alertable_offline()` and the silent keys are operators.
`detect_upload_failures()` takes the packets of all devices of one key together, ranked within each
device; where ranks are equal their order is the server's, so `UploadFailing` is the set of answers
a run may come to.

`told` is what Teams holds down, `unsaid` the keys whose recovery was announced by a run that did
not commit, `unfiled` those whose alert is on no file although Teams heard it, each for one key of
one kind and until the next alert of it; with `repeated` and `back` they are history. The code posts
before it commits, so the files and Teams may differ: `RecordsAreSound` says exactly in which keys a
file may hold what Teams does not (`unsaid`, a known gap: such a device that goes down again is not
alerted, `MCReporterBack`), and `RepeatsHaveACause` which keys may be announced twice (`unfiled`).
Neither excuses a key for what happened to another, or in an earlier outage.

The daily report and the digest change nothing and are left out.

### Thresholds

The job (`compute_baselines.py`) reads the packets, then the overrides, then the existing rows,
and then updates and inserts in one transaction; each is a step of `jobs[j]`, between which another
run, operators and packets step in. `alert_thresholds` has no unique key: `table` maps ids to rows,
and a key may have several. The arithmetic is done, not abstracted: percentiles, mean and standard
deviation in integers (thresholds in 1/10000 percent), the derived limits with their floors. The
four lookups and judgements (`ReporterAlerts`, `MonitorAlerts`, `FleetBelow`, `Breaches`) are
operators over the same table. They differ in the code, and the model keeps the differences: the
reporter and the job take the last row of a key, the monitor and the fleet dashboard the first (the
fleet query has no ORDER BY; the order of the clustered key is assumed); the reporter passes over
rows whose warn is NULL; at exactly 100 items the reporter skips what the monitor judges; rates are
rounded to two digits by the monitor and the fleet dashboard, to one by the marketing display, not at all
by the reporter.

Left out: rows for one machine at any location, and `migrate`, which only creates the table.

### QueryCache

One module for three caches that look alike: `cacheKind` says which, and the guards say what
differs. The monitor builds outside its lock and dates an entry from before the build; the
marketing display holds the lock of a page while it builds; the KPI cache of the fleet dashboard is
a dict used between awaits. A payload is the time from which its queries may date; `age` and
`took` of an answer are what the property needs. Pages of unknown devices have the payload None,
which the code cannot flag as stale. The marketing display builds its statistics once at start-up
and leaves the entry dated 0 (`Primed`).

### Snapshots

`step` is where the task is and until when; calls take up to `CallTime` and fail before or after
they took effect. The process may be restarted in each. The columns of a snapshot are left out.

### Telemetry

The pages are operators over the packets and the clock; the steps are packets that arrive, late or
dated ahead, and time passing. Each page keeps its own arithmetic: windows and buckets in UTC
against groups in local time, local days against UTC days, shifts over midnight, the hours of the
sparkline, weeks cut at today. Days, weeks and months are as short as the constants make them;
percentages, averages and medians are arithmetic on the sums and left out. So are the counts of
devices by state on the marketing display, which it takes from `dbo.device_status`: outages and
states are compared across the monitor's two pages only. Kept as they are in the
code: missed packets are only counted on days with some packet, and the sparkline of the marketing
display may hold two points with the same hour label, the oldest and the newest. The marketing dashboard and
its history count days of UTC, the other pages local days; `TwoMidnights` states the difference to
the packet. The fleet page fetches its last hours from now minus a day and shows whole ones, so the
part of an hour the day begins with is not shown; `HoursReconcile` states that loss, too.

## 3. Runs

| Run | Instance | Checks |
|---|---|---|
| `spool_drop` | a row costs its payload plus one byte; cap 4; messages of 1, 2, 3 and 6 bytes (the last exceeds the cap by itself, the case in which drops are made in vain); `ScanLimit` 1, three drop passes; five rows ever; batches of 1 and 3; crash and close at any time | `SpoolTypeOK`, `BooksBalance`, `CapRespected`, `ReleasedForGood`, `DropsOldestFirst`, `NoNeedlessDrop` |
| `ingestor_retry` | a status, an insert that upgrades the serial, settings, an unmapped and a rejected entry; three rows, batches of 2 (3 at the end), one retry, no dead-letter table; two errors, one crash or shutdown; the broker thread on the same connection | `IngestorTypeOK`, `AttemptStartsClean`, `NewestWins` |
| `ingestor_restart` | an insert, settings, an event larger than the cap and an entry that raises; a cap of two rows with drops one at a time, so that rows go from under the writer; dead letters on; one error, one restart; a batch is taken again up to `MaxFailures` = 2 times | `NeverSilentlyLost`, `DuplicatesNeedFailures`, `DeliveryKept` |
| `ingestor_drain` | two devices that collide on their serial, so that a batch fails for good; settings; two dead-letter tries; one error, one crash or shutdown; fair threads | `AllSettled` |
| `relay` | a job of two chunks, a check without data and a client not allowed, at a printer that takes one connection at a time and goes off or on once; a failure to listen or a kill | `RelayTypeOK`, `FailureIsHonest`, `JobsEnd`, `ListenerFollowsPrinter` |
| `mqtt` | two messages for the session, of one or two bytes or a broker statistic, a spool of two bytes that rejects; two failures of network, broker or SQLite; one stop or restart; delays overflow past the first attempt | `ConnectionsAreSound`, `AckedIsKept`, `CountersExactWhenRejecting`, `RecoversForGood`, `EveryMessageArrives` |
| `reporter` | two devices, offline from age 1, stale from age 2, three time steps; two packets, edits or status messages; one failed post, killed run or damaged file; a behaviour runs one of the two jobs, which share nothing they write, beside all of these events | `RecordsAreSound`, `RepeatsHaveACause`, `RecoveryMeansPacket`, `SinceIsKept`, `StatusConverges`, `AlertsConverge` |
| `thresholds` | a device with two packets in the lookback window that scatter from no good reads to all, the weekly run and one by hand, two packets, edits or kills; an operator's override, and a row of NULLs | `LimitsAreSound`, `JudgesAgree`, `RunsKeepToTheirs`, `TableFollowsPackets` |
| `monitor` | two requests for two pages, TTL 1, one entry, one outage; a snapshot every 2, pruned every 4, kept for 3, up to time 18, two failures or restarts; two devices of two customers, two shifts, days of 3 hours, weeks of 2 days, two packets that arrive up to 50 half hours late or two early, and a clock that runs over the local and the UTC midnight, half an hour at a time | `AnswersAreFresh`, `CachesAreBounded`, `HealthIsHonest`, `HistoryIsCurrent`, `LastIsStored`, `PagesAgree`, `PagesAddUp`, `EveryRequestAnswered` |

What each property says and of which code is in the comment above it.

### Bounds

`MaxIds` rows, `MaxFaults` errors and `MaxRestarts` crashes suffice for what the properties tell
apart. Three rows give a batch with something before it and behind it, or a batch and a later one;
two errors are a failed attempt and a failed retry, which with one retry configured exhausts the
batch, or a failed attempt and a failed broker flush between its error and its rollback. A second
crash finds a state like the one the first left, except for counts. In the relay, two chunks and a
buffer of one give a job in each of its conditions (nothing, some and all written; blocked or not);
the printer may be on or off at first, so one outage gives a probe that is stale in either
direction. In `mqtt`, two failures give a worker that is overtaken by paho's loop and then by a
second disconnect, so that two workers sleep at a time. In `reporter`, three time steps take a
device from online through offline to stale, and a packet or an edit can fall between any two
phases of a run. In `thresholds`, two runs overlap in each order with an edit between any two of
their steps. In `monitor`, the second request may begin, build and end inside the build of the
first; 18 time units are four prunings, or two failures and the recovery after them. On the pages a
packet lies on either side of every cut a page makes, and two packets meet in one bucket or fall into
two. The theorems hold without any bound.

`mqtt` and `monitor` say CHECK_DEADLOCK FALSE: the program really stops when paho's thread died of
an exception, and the monitor's clocks are bounded.

### Fairness

- `Ingestor`: weak fairness of the writer's step, of `CloseAll` and of `ExitAndRestart`. The writer
  is a thread that polls with finite waits, calls the database with a timeout and backs off for a
  bounded time; the joins in `run()` have timeouts, so closing does not wait for the writer for
  ever; the container restarts. Nothing is assumed of the broker thread, of signals, of messages
  arriving, or of failures. `MaxFaults` ends the faults: a database that never comes back is
  settled too (dead letters are given up after their tries), but then by loss. `AllSettled` is
  checked without an entry that raises: with one it fails, see `poison_retry`.
- `PrinterRelay`: the watcher and each handler are weakly fair: the event loop runs every task that
  can go on, and the timeouts of connect, pipe and grace expire. Nothing is assumed of the clients
  and the printer, which may stop at any point, nor of kills. `HandlerStep` is one condition per
  client, so a client that keeps sending does not hold the other pipe up: a job is finite.
- `MqttClient`: weak fairness of the network thread, of the workers, of the writer, and of the
  restart of a process that was stopped. Threads run, sleeps end, and a broker that has no failure
  left answers. Nothing restarts a process whose network thread died: `RecoversForGood` and
  `EveryMessageArrives` except it, because the code does.
- `Reporter`: weak fairness of each job's steps: cron keeps starting it and a run ends.
- `Thresholds`: the same for the weekly run; nothing of runs by hand.
- `QueryCache`: a build ends (the drivers have timeouts), and strong fairness of the look-up, as
  the asyncio lock is first come, first served.

### Where the code and its documentation differ

Each of these runs finds a violation of a sentence in the repository.

| Run | The sentence | What the code does |
|---|---|---|
| `triple_key` | `src/README.md:176` "the key is the triple" | the placeholder serial leaves out the customer and must be unique: the second of two customers with the same location and machine name is never registered |
| `poison_retry` | `src/README.md:142` "retry with backoff and a dead-letter table" | a handler that raises another exception (`"drive": null`) is retried for ever, never dead-lettered |
| `relay_loss` | `printer_relay/files/app/relay.py:4` "every byte is piped unchanged to the printer" | each direction has its own idle timeout: a client that pauses for 60 s, or a printer that does not reply for as long while the job is sent, has both connections closed in the ordinary way, with the rest of the job unread |

More configurations show behaviour that contradicts a comment or is worth knowing. They are kept
beside the runs; TLC ends each with a counterexample.

| Configuration | Property | What it shows |
|---|---|---|
| `MCIngestorReleased` | `ReleasedIsOnRecord` | `write_deadletter` returns normally after its last failed try, and the batch is released (`ingestor/pipeline.py:219` "they've been dead-lettered") |
| `MCIngestorDead` | `DeadlettersNotStored` | a registration in mid-batch commits the entries before it; the whole batch is dead-lettered later, the stored ones with it (`src/README.md:184` "messages that failed every retry") |
| `MCIngestorRevived` | `LastWriteWins` | an event larger than the cap has rows dropped in vain, uncommitted; `close()` at shutdown rolls the drop back while the writer still holds newer rows, and the revived older status is stored last by the next process (`ingestor/spool.py:2` "durable FIFO"). `NewestWins` carries this case as its condition `MakesRoom` |
| `MCMqttClientTwo` | `OneReconnectWorker` | paho's loop reconnects first and clears the claim of a worker still asleep; the next disconnect starts another (`ingestor/mqtt_client.py:4`) |
| `MCReporterBack` | `CommittedIsKnown` | a recovery was sent, but the run did not commit because another card failed; when the device goes down again it is still on file, and no alert is sent (`src/docs/superpowers/specs/2026-09-09-s1-reporter-overhaul-design.md:35`) |
| `MCThresholdsNull` | `MonitorMirrorsReporter` | a row of NULLs, or a second row of a key, and the monitor judges differently from the reporter (`s1_monitor/files/app/severity.py:1`) |

Seen while modelling, without a property of its own: a NULL in a computed row makes every run of the
baselines job raise while it prints the changes (`Blocked` in `TableFollowsPackets`); the hard limit
of `no_dim_pct` may come out below its warning line when the 90th percentile is 0, so that the line
is the default one, and the 95th is small (`s1_baselines/files/compute_baselines.py:86`; `InOrder`
excepts exactly this); two limits of good reads closer than the
rounding would come out equal, and below a warning line of 0 there is nothing; the backup gate trusts the age of its status file.

## 4. Proofs

The theorems hold for all values of the constants that the named assumptions admit, and so for any
number of messages, devices, requests, faults and restarts. A safety theorem has an inductive
invariant that is stronger than the property, one lemma per step relation, and one step per action.

| Module | Inductive invariant | Properties proved |
|---|---|---|
| `SpoolProofs` | `SpoolIInv`: both tables are well formed (`TableOK`) and differ by policy deletions only; `RejectIInv` for reject-new | `SpoolTypeOK`, `BooksBalance`, `CapRespected`, `ReleasedForGood`, `DropsOldestFirst`, `NoNeedlessDrop`, `CountersExactWhenRejecting` |
| `IngestorProofs` | `IngestorIInv` on top of `SpoolIInv`; `CopiesOK`; `TxnClean`; `Order` | `IngestorTypeOK`, `NeverSilentlyLost`, `DuplicatesNeedFailures`, `AttemptStartsClean`, `NewestWins`, `DeliveryKept` |
| `MqttClientProofs` | `ClientIInv`; `CountIInv` | `ConnectionsAreSound`, `AckedIsKept`, `CountersExactWhenRejecting` |
| `PrinterRelayProofs` | `RelayIInv` | `RelayTypeOK`, `FailureIsHonest` |
| `ReporterProofs` | `FleetIInv`, `AlertIInv`, `RecoveryIInv`, `RepeatIInv` | `RecordsAreSound`, `RepeatsHaveACause`, `RecoveryMeansPacket`, `SinceIsKept` |
| `ThresholdsProofs` | `RunsIInv`; `LimitsIInv`; `LimitsIInv` with `GoodReadInOrder` | `RunsKeepToTheirs`; `LimitsAreSound`; `JudgesAgree` |
| `MonitorProofs`, caches | `CacheIInv`, `HealthIInv` | `AnswersAreFresh`, `CachesAreBounded`, `HealthIsHonest` |
| `MonitorProofs`, snapshots | `SnapIInv`, `TakenIInv`, `CurrentIInv` | `LastIsStored`, `HistoryIsCurrent` |
| `MonitorProofs`, pages | `PagesIInv` | `PagesAgree`, `PagesAddUp` |

`SpoolProofs`. That the open table differs from the committed one by policy deletions only is
needed because a rollback or a crash installs `disk`: without it the counters after a crash would
be unrelated to the rows the writer released. Byte totals are cardinalities of a set of (row, byte)
pairs, so that their behaviour follows from the library's theorems on finite sets, without
induction.

`IngestorProofs`. `IngestorImplementsSpool` says that every step of the pipeline is a step of the
spool or leaves it alone, so all of the above holds of the running ingestor. `IngestorIInv` adds
the types, that the open transaction lacks nothing of the committed database (`done`, `dead`), and
what a program counter says of the batch in hand (`BatchOK`): in `dispatch`, the entries passed are
in the transaction; in `stored`, the batch is in the committed database; in `discard`, it is
dead-lettered or declared lost. `NeverSilentlyLost` is not inductive without these: what
`ReleaseWritten` may remove depends on a commit some steps ago, and between the two the broker
thread, an error or a shutdown may have touched the connection. `CopiesOK` relates the copies of an
entry in the open and the committed database to the failures and restarts counted so far, and
`TxnClean` says in which places the two databases agree, or differ by a broker snapshot that is due
to be rolled back. `Order` says where the rows stand:
the batch is the oldest of the spool, what left the spool is older than what is in it (settings,
which leave ahead of the rest of their batch, excepted), the entries this pass has dealt with are
older than those it has left, and the tables and the files show nothing older than any of them.
It rests on the spool having no uncommitted deletion when every
event has room (`MakesRoom`, the condition of `NewestWins`): then no rollback, close or crash
brings back rows that newer ones have overtaken, and a batch taken again is the same batch. Without
the condition it is false, as `MCIngestorRevived` shows. `IngestorDelivers` shows that the ingestor
implements `Delivery`: every step is a step of the abstract module or a stutter.

`MqttClientProofs`. `ClientIInv` bounds attempts and workers by the failures (a worker that fails
is counted before it tries again), and says that every message up to `handled`, and up to `acked`,
is accounted for: the second does not follow from the first, because a new connection moves
`handled` back. `CountIInv` carries the counters of the spool through commits that fail half-way.

`PrinterRelayProofs`. `RelayIInv` adds what a handler's stage says of its pipes, its connection and
the bytes it wrote. `FailureIsHonest` is about a connection that has ended and is not inductive by
itself: that a refusal finds nothing written, and a reset not everything, depends on how far the
handler of each stage has come.

`ReporterProofs`. `AlertIInv`: of what is on file, or about to be filed by a run whose cards were all
accepted, Teams holds each key down or heard it to be up from a run that did not commit. `FleetIInv`:
a row that says offline is dated, and so is every row a sync holds. `RecoveryIInv`: a device on
file, or about to be filed, is still down or has sent a packet since. It holds only if no two
devices share machine name and location, which `RecoveryIsHonest` states as its assumption
`OwnKeys`: the key leaves the customer out. `RepeatIInv`: what Teams holds down is on file, about to
be filed, or `unfiled`, whatever fails.

`ThresholdsProofs`. `RunsIInv`: what a run computed or found keeps being true of the keys that
nobody else wrote since (`disturbed`). `LimitsIInv`: what is in the table, computed or compared is
NULL or not negative; that it holds of what a run derives needs the percentile, the mean and the
rounding to be natural numbers for any packets. `LimitsSound` then says that what a run is about to
write, and every row of the table that no operator entered, is in order (`InOrder`: strictly under
the line for good reads, over it for missing dimensions unless the line is the default one), under `ClearOfRounding`: the limit the packets alone give is not so close under
its warning line that four digits cannot tell them apart. The code has no such guard, so the
theorem states it. `JudgesAgree` compares the programs on days whose rates the constants list;
`ExactDaysAgree` says it of every day of over 100 items whose rates need no rounding, in every state
with one row of a key and good reads in order. No step of a run breaks that order
(`RunsKeepOrder`); an operator may, as nothing checks what they enter, and `EntriesInOrder` is the
hypothesis of `JudgesAgreeAlways`. TLC evaluates both conditions on the constants of the run.

`NumberProofs`. Bounds on quotients and rounded quotients, and the sums the pages are made of. A sum
over a set is a fold, and the library defines it by recursion, for which induction is out of
reach. But the subsets of a finite set are well-founded, so a smallest subset on which a claim
fails exists, and that is induction enough: the sum of a set is that of the set without an element
plus this element (`SumRemove`), a larger set of natural numbers has no smaller sum, and a
sum grouped by any key is the whole sum (`SumGroups`). What grouping asks is that each row has one
group; the rest of the proof about a page is where its windows cut.

`MonitorProofs`, caches. An entry is dated no later than its queries began plus the time its build took,
and so is what a request remembers of the entry it saw. `HealthIInv`: no query of the monitor
succeeded after the database went down.

`MonitorProofs`, snapshots. `TakenIInv` says how old the newest snapshot may be in each place of the pass;
`PrunedInTime` how old the oldest, which depends on when this process last pruned and on nothing
having failed since.

`MonitorProofs`, pages. The invariant is small (times are whole numbers and rows are packets);
the work is arithmetic. `PagesAgree`: the pages that count local days (the monitor's, the scan-fleet
dashboard's and the statistics page of the marketing display) give one number for today and each of
the last days, for the fleet and its customers; the marketing dashboard's day of UTC differs from
it, for each device and customer, by exactly the packets between the two midnights; and the
monitor's fleet page calls a device offline or stale exactly when its device page has an outage that
is still open (if it was heard of in the range, and not at the very moment its silence reaches the
gap). `PagesAddUp`: two different cuts of the same packets give the same numbers: a chart and its
table, the hours of one page and the days of another, trends and history, local and UTC, this week
and the weeks before. That rows grouped by a key add up to the rows holds whatever the key, and is
no part of it. The last hours of the fleet page are compared with the statistics page, and what
they leave out is stated exactly.
Each reduces to a fact about a clock, such as that the buckets, cut in UTC, and the axis, built in
local time, meet at the same instants, or that the shifts cover each hour once. It holds for
every fleet, shift plan, offset and length of day, week and month.

The assumptions are `SpoolAssumption`, `IngestorAssumption`, `ClientAssumption`, `RelayAssumption`,
`ReporterAssumption`, `ThresholdsAssumption`, `QueryCacheAssumption`, `SnapshotsAssumption` and
`TelemetryAssumption`, as the configuration guarantees them (positive batch sizes, at least one
dead-letter try, a placeholder is no real serial value, a socket buffer that is not empty, offline
before stale, finitely many devices, each hour in exactly one shift, and so on). TLC evaluates them
in every run. Some theorems have a further hypothesis, which the code does not guarantee and which
is part of their statement or of the property: `OwnKeys`, `MakesRoom`, `ClearOfRounding`,
`EntriesInOrder`.

Every invariant and action property of a run is proved. Only model-checked is liveness, which is out
of this prover's reach: `AllSettled`, `JobsEnd`, `ListenerFollowsPrinter`, `RecoversForGood`, `EveryMessageArrives`,
`StatusConverges`, `AlertsConverge`, `TableFollowsPackets`, `EveryRequestAnswered`.

## 5. Plan

Left, in order: two customers' devices that share an alert key, once it is decided what should be
shown; replies of the printer and `stop()` in the relay; proofs that an interrupted baselines run
leaves rows that a next run agrees with, and of the safety half of the liveness properties (what a
fair step brings nearer, as a variant that no other step takes back).

### Not modelled

- Terminal dashboard (`s1_dashboard/`): it polls and draws, and keeps nothing.
- Backup (`backup/`): a shell script whose steps run one after the other under `set -e`, and an
  Ansible gate that reads the file it writes last; nothing runs beside it.
- Broker, SQL Server, Node-RED, Grafana, cloudflared, docker roles: third-party programs and their
  provisioning; modelled only as what the programs above see of them.
- `systems_one_ingest`: retired; no play refers to it.
- `.github/workflows`, `tools/`: CI wiring and an operator's tool.
- Of modelled components: layout of cards, charts and pages, texts, CSV, sign-in, metrics,
  migrations, and configuration, which is read once at the start.
