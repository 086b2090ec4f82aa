# Parcel Explorer: verification project

TLA+ models of the Parcel Explorer application (a FastAPI server over one
SQLite file, and a TypeScript map page), model-checked with TLC and, for eight
of the modules, proved with TLAPS for every value of their constants.  Paths
below are those of the repository, `app/...` and `frontend/...` under `src/`.

- [1. The system](#1-the-system)
- [2. Modules](#2-modules)
- [3. Runs](#3-runs)
- [4. Bounds](#4-bounds)
- [5. Fairness](#5-fairness)
- [6. Proofs](#6-proofs)
- [7. Where code and documents disagree](#7-where-code-and-documents-disagree)
- [8. What is not modelled](#8-what-is-not-modelled)
- [9. Plan](#9-plan)

## 1. The system

One process serves everything.  Handlers declared `async def` run on the event
loop, one at a time between two awaits; handlers declared `def`, and
`BackgroundTasks`, run in threads.  The state that survives a restart is the
SQLite file, `.env`, and the directory of the public download.

| Component | State | Operations | What is hard | What makes it correct |
|---|---|---|---|---|
| Land table (`land_repository.py`) | rows `poi(id, address, geom, ...)`, AUTOINCREMENT | replace all, set one boundary, select the rows without one, select a page | ids are held across transactions by jobs and by the page's cursor | an id never stands for another parcel |
| Job table (`job_repository.py`) | rows `geom_update_jobs` | create, mark running / done / failed, mark stale ones interrupted, find the active one | the status outlives the thread | the status tells what the thread does |
| Boundary collection (`geo_service.py`) | local variables of the job's thread: pass, cursor, batch | enqueue, run, recover at start-up, refresh by hand | several jobs at once, uploads under a running job, VWorld knows nothing or answers nonsense, crashes | every row is asked about, every job ends, nothing collected is lost |
| Excel upload (`upload_service.py`) | the request's dictionary of known boundaries | read known boundaries, replace the table, enqueue a job | the dictionary is stale when it is used | boundaries are kept, new rows get asked about |
| Start-up (`main.py`, `seed_service.py`) | none | seed an empty table, recover, start the recovered job | what the stopped process left | no job without a thread |
| Rate limiter (`rate_limit.py`) | deques of time stamps by key, under a lock | `allow`, `_evict_expired` | the clock is read before the lock is taken; eviction when the dictionary is full | never more than the limit in a window, nobody turned away for nothing |
| Public lands API (`land_service.py`) | none | one page of rows behind a cursor | the table changes between pages | pages fit together |
| Map page (`frontend/src/map/`) | `state.ts`, two vector sources, list, panel | load page by page, filter, select, navigate, reset | answers arrive between the user's clicks; everything is known by its index in the current result | what is drawn, listed, highlighted and detailed is one result |
| Public download (`public_download_service.py`) | `current.<ext>`, `current.json`, no lock | upload, download | two files replaced in two steps while others read them | a download is whole and current |
| Settings and password (`admin_settings_service.py`, `config.py`, `runtime_config.py`) | `.env`, `os.environ`, the `lru_cache`, `app.state` | update settings, update password, load, restart | four copies of one value; what cannot be read is found out last, what does not read back not at all; the file is emptied before it is written; threads load in between | the copies in the process agree once the update is over, and the file does not fall behind them |
| Login (`auth_security.py`, `auth_service.py`) | failures and blocks by client, under a lock | is blocked, register failure, reset | the limiter is asked before the password is checked and told after; an update replaces it | few wrong passwords in a cooldown, no block that was not earned |
| Map events (`map_event_service.py`, `event_repository.py`) | rows of two logs | two insertions in one transaction, counts, an export | failures between the insertions, the answer or a restart | the logs agree, what was acknowledged is there |
| Session tracking (`session-tracker.ts`, `web-session-store.ts`) | two cookies shared by all tabs, the turn of each tab | start, heartbeat, end, hide, show | tabs race on the cookies; posts are lost or late | a new session only after a pause or at the end of its cookie, its start first |
| Web visits (`web_stats_*.py`, `web_visit_*_repository.py`) | rows with a time the server chose | one insertion a post, five queries | clocks of clients that are wrong; each query sees another state | dwell times are about right, the numbers of one answer fit |
| Dashboard (`admin_stats_service.py`, `admin/stats.ts`) | what the page shows | five reads, rendering | rows arrive between the reads | the numbers on the page add up |
| Refresh page (`admin/geom-refresh.ts`) | the polling of one job | start or join a job, poll, give up | restarts, jobs that never end, requests that fail | what it says of a job is so, and the button comes back |
| Mobile views (`mobile-map-ui.ts`) | view, `history` | push, pop, resize | the browser's history is a second copy of the state | not modelled (section 8) |
| Health, schema, access checks, scripts | none of their own | queries and rendering | little | see section 8 |

How they interact:

- an upload replaces the land table and enqueues a job; the job reads and
  writes the land table and its own row (shared state, no lock held across
  transactions);
- the map page reads the land table through the lands API while both go on;
- events and downloads go through the rate limiter first; the download limit is
  a setting that an admin may change at run time;
- a settings update replaces `app.state.config` and possibly the login limiter,
  while logins that hold the old one go on;
- pages report searches, clicks and visits; the dashboard reads the rows while
  more of them arrive;
- the refresh page follows a job row that threads and restarts change.

`PROJECT.json` lists every component, and under `hazards` each place where this
code can go wrong in a way a unit test hardly reaches, with the properties that
guard it.

## 2. Modules

### LandTable, GeomJobs, JobTable

`GeomJobs` names the jobs and their statuses, for everybody who speaks of them.
The two tables as relations: one operator per SQL statement.  The land table is
a set of rows (id, address, boundary).  A boundary is represented by the address
it was resolved for, which is what tells a right boundary from a wrong one;
other columns do not matter to any property.  `InsertLands` numbers rows from a
counter that never goes back, since the column is AUTOINCREMENT.  The job table
is a function on ids: rows are never deleted.

### GeomPipeline (composes the two tables)

| Variable | In the code |
|---|---|
| `land`, `nextLand`, `jobs`, `nextJob` | the tables and their sequences |
| `boot` | how far `lifespan` has come; `Crash` sets it back |
| `req[t]` | a request thread in `handle_excel_upload` or `start_geom_refresh_job`, with its local variables |
| `worker[j]` | the thread in `run_geom_update_job` / `update_geoms`, with attempt, cursor, batch and counts |
| `asked`, `worker[j].tried` | history variables, read by properties only |
| `spent` | what is used up of the bounds |

A step is one SQLite transaction, one autocommitted SELECT or one VWorld call.
Nothing holds a lock between two of them, so all threads interleave there.
`UploadRead` / `UploadReplace` are the two halves of `_replace_land_data`;
`RefreshCheck` / `Enqueue` the two connections of `start_geom_refresh_job`;
`Schedule` the background task that starts when the response has been sent.
`CollectingFails`, `MarkDoneFails`, `ThreadDies` and `RequestFails` are the
exceptions of `sqlite3` or of an answer without the expected structure, each
with what the surrounding `except` does.

`JobLifecycle` is the abstract specification: a job is created once, runs at
most once, ends at most once; a restart ends what is unfinished and may put one
job in its place.  `ImplementsLifecycle` states that GeomPipeline refines it,
with status read from the table and `created` from the sequence.

`ParcelTable` is the abstract specification of the land table, for those who
read it without knowing of jobs: a row changes only by receiving the boundary it
lacks, its own, and otherwise the whole table is replaced by rows with the next
ids.  `ImplementsParcels` states that GeomPipeline refines it.

### RateLimiter

`Request`, `ReadClock` and the critical section (`Admit`, `Reject`,
`RejectFails`) are the steps of a thread.  Between `ReadClock` and the critical
section a thread may be overtaken, so deques need not be sorted; `MaxStall`
bounds for how long.  `Evicted` is `_evict_expired`, `Live` the loop of
`popleft`.  Time is in ticks, the clock does not go back.  `log` is a history
variable: every event that was let through.

### MapPage (uses LandTable)

An action of the page is one turn of the event loop: a handler, or an answer
with all that runs until the next `await`.  `ServePage` is
`get_public_land_features_page`, a transaction on the server; `ReceivePage` is
`onBatch` with the end of `bootstrapMapData`.  `SetFeatures` and
`SelectFeatureId` are `map-view-feature-layers.ts`.  Features are numbered from
1, and 0 stands for -1 and for null.  `Upload` and `Collect` are what the other
half of the application does to the table meanwhile: a step of `ParcelTable` is
one of theirs (`AllowsForTheTable`, section 6).  A filter is the set of
parcels it matches.  `applied` and `late` are history variables.

### PublicDownload

Each call that touches the directory is a step of a thread: `CopyChunk` (to the
temporary file), `Replace` (an atomic rename), `OpenMeta` and `WriteMeta` (the
two halves of `write_text`: the file is emptied, then written from its
beginning), and `ReadMeta`, `FindFile`, `Serve` of a download.  An upload is
known by its number, which stands for its bytes, its name and its hash.  A
record that is written over a longer one of another thread keeps that one's
tail and does not parse (`Readable`).  `newest` and `alone` are history
variables.

### SettingsReload

| Variable | In the code |
|---|---|
| `supplied` | the environment the process is started with: nothing, or what `docker-compose.yml` hands to the container from `.env` |
| `envFile`, `environ` | the lines of `.env`, and `os.environ` |
| `cache` | what the `lru_cache` of `get_settings` holds |
| `config`, `limiter` | `app.state.config`, and the parameters of `app.state.login_limiter` |
| `server` | the handler at work, with its update, the lines it read and what it has read back |
| `thread[t]` | a call of `get_settings` that missed the cache |
| `torn`, `overlap` | history: keys that a failed write left unlike `os.environ`; whether a thread was at `get_settings` since the last `cache_clear` |

The two admin handlers contain no `await` and run one after the other, step by
step; threads call `get_settings` between any two steps (`Miss`, `Load`,
`ReadField`, `Store`).  `get_settings` loads `.env` into what the environment
lacks (`Loaded`), reads field by field and raises at the first text it cannot
read.  `OpenEnvFile` empties the file, `WriteEnvFile` writes the new lines; if
that fails (`WriteFails`), the first lines are there, the next one as far as it
was written, and the handler ends with an error before it sets anything in
`os.environ`.  `Restart` takes what is supplied and what it finds in `.env`, or
does not come up.

`_format_env_value` puts quotes around a text with a blank or a `#` and escapes
nothing, so `load_dotenv` does not always return what was written: a text may
lose its quotes or its backslashes, its line may not parse, and an opened quote
may swallow the lines behind it.  `LoadDotenv`, what `load_dotenv` finds in all
lines, is a constant.  `LoadDotenvAssumption` says that texts in `Plain` are
given back, or lost to another line, and that a file of nothing else is given
back as it is.  Of the fields there are four that differ in how they are
treated: a text that must not be blank when read but may be submitted blank, the
hash of the password, a text with a default, and a number that the form checks.

### AdminLogin

A login is three steps of a thread: `AskLimiter` (`is_blocked`), the check of
the password, which has the outcomes `WrongPassword`, `Succeed` and
`NotChecked`, and `RegisterFailure`.  A thread keeps the limiter it took from
`app.state`; `ReplaceLimiter` is `rebuild_runtime_state`.  `attempts` and
`blockedUntil` are the two dictionaries, of every limiter there was; the
readings of the clock before the lock are as in RateLimiter, and `MaxHold`
bounds for how long a thread waits.  A list of attempts is a set of numbered
failures, since only its length and the times in it matter.  `failures` is a
history variable.

### EventLog, Dashboard (extends it)

| Variable | In the code |
|---|---|
| `mapLog`, `rawLog` | the committed rows of `map_event_log` and `raw_query_log` |
| `request[t]` | a thread in `post_map_event`, with the rows of its open transaction |
| `load[l]` | a thread in `get_admin_stats`, with what it has read |
| `shown` | the statistics on the admin page |
| `acked`, `n` of a row, `asked` | history |

`InsertMapEvent`, `InsertRawQueryLog` and `Commit` are the statements of
`persist_search_map_event` and `persist_land_click_map_event`; the first makes
the connection the one writer.  `DatabaseFails` closes the connection without a
commit, `Crash` ends all requests.  A minimum area is a number, `nan` (which
`float` accepts, and no comparison rejects), missing, or not a number.  The
queries of `event_repository.py` are operators on the logs, and `Dashboard`
calls them one after the other.  `ExportRawQueries` is the raw export with its
bounds and its limit.

`EventJournal` is the abstract specification: a report that is accepted is
recorded once and whole, or not at all; only a recorded one is answered with
success; and nothing recorded is taken back.  `EventLog` implements it
(`ImplementsJournal`).  `Recorded` puts the rows of the two logs together again;
a row that lacks its partner, or is not the row of what the partner says, is
`Torn` and stands for no report.  `Unrecorded` are the requests that may still
commit, `Unanswered` those that are owed an answer.

### WebVisits, VisitTracking (extends it)

| Variable | In the code |
|---|---|
| `cookie[b]` | `web_session_id` and `web_last_seen_ts` of a browser, shared by its tabs; `until` is when the first expires |
| `tab[t]`, `turn[t]` | the page in a tab, and its call of `sendWebEvent` |
| `posts` | posts on their way, or answered with an event to follow |
| `visits` | the rows of `web_visit_event` |
| `stats` | a thread in `get_web_stats`, query by query |
| `owner`, `skew` | to whom the tabs belong and how far its clock is off, chosen once |
| `made`, `active`, `begun`, `quiet` and `begun` of a turn | history |

`WebVisits` has the server's operators: `ParseClientTs`, which replaces times
that are in the future and clamps those that are too old, and the queries with
their day in Seoul.  `VisitTracking` adds the clients.  Tabs may be processes of
their own, so each access to a cookie is a step: `ReadSeen`, `WriteId`,
`WriteSeen`.  `web_session_id` is written when a session begins and expires
`CookieAge` later (`SessionId`, `IdExpires`), whatever is reported in between;
`web_last_seen_ts` is renewed by every report and expires long after the session
has.  A turn takes no time and is over before the clock or a post goes
on, while posts may take up to `MaxDelay`, overtake each other or fail before or
after they are stored.  The event that found a new session waits for the answer
to its `visit_start` (`Answer`).

### GeomRefreshPage (extends JobLifecycle)

`page` is where `start` and `poll` of `geom-refresh.ts` are, `message` what the
page says of which job.  `FindActive` and `CreateJob` are the two transactions
of `start_geom_refresh_job`, `ReadStatus` the status endpoint, `Fails` a request
that ends with an error or after ten seconds.  The jobs, and restarts, are those
of `JobLifecycle`, which `GeomPipeline` implements: the page is checked against
what any pipeline may do, and not against one small instance.  `EndsAreTold`
(section 6) is proved over the same table.

### MC modules

`MCGeomPipeline`, `MCRateLimiter`, `MCMapPage`, `MCPublicDownload`,
`MCSettingsReload`, `MCVisitTracking`, `MCDashboard` and `MCAdminLogin` give the
constants small values and the symmetry sets.  `GeomRefreshPage` has only
numbers for constants and is checked as it is.

### Proof modules

`GeomPipelineProofs` (which covers the page of `GeomRefreshPage`, too),
`RateLimiterProofs`, `MapPageProofs`,
`PublicDownloadProofs`, `SettingsReloadProofs`, `AdminLoginProofs`,
`DashboardProofs` (which covers EventLog, too) and `VisitTrackingProofs` extend
the module they are about (section 6).

Definitions under a comment that begins with *Variant* are not part of any
specification: each is a definition next to it with one plausible mistake, and
`PROJECT.json` says which property notices it.

## 3. Runs

Passing runs (the properties are explained where they are defined):

| Run | What it shows |
|---|---|
| `geom_pipeline` | Two admin threads, up to three jobs, one crash and one database or VWorld failure anywhere; one of the sheets names a parcel twice, the other leaves one out.  No row carries another parcel's boundary (`GeomMatchesAddress`); job rows tell what threads do (`StatusMatchesThread`, `NoOrphanJob`); all uploaded rows are asked about (`UploadedRowsWereAsked`), and each pass leaves out none (`PassAsksEveryMissingRow`); what is collected stays (`CollectedStays`); jobs follow `JobLifecycle`, and the table follows `ParcelTable`; under fairness jobs end (`JobsEnd`). |
| `limiter` | Two threads, events checked against two keys and downloads against one, an admin who sets the download limit to 0, and a dictionary that is pruned all the time.  The limit holds up to the time a thread may be held up (`LimitHolds`), nobody is turned away for events that are past (`RejectsOnlyWhenFull`), Retry-After is enough (`RetryAfterSuffices`), and the dictionary outgrows its cap only for clients that are active (`GrowsOnlyForActiveKeys`). |
| `map_page` | A user does anything while pages arrive, the table is replaced up to twice and boundaries are collected.  Pages fit together and miss no row (`PagesFitTogether`, `LoadMissesNoRow`); nothing loaded is lost (`LoadedIsShown`); drawing, highlight and details belong to the parcel meant (`LayersPartitionResult`, `IndexIsHighlighted`, `ClickShowsParcelHit`); loading ends (`LoadEnds`). |
| `download` | Three uploads that overlap in any way, a failing file operation and a crash, two downloads.  Served files are whole (`ServedWhole`); what the record names is there (`NamedFileIsFound`); an upload that no other overlapped repairs whatever went wrong before (`CompletedUploadIsInPlace`) and is what visitors get from then on (`DownloadIsFresh`). |
| `settings` | Two updates, with texts that cannot be read or that `.env` does not give back; a thread that calls `get_settings` at any time; two faults, each a crash or a failed write; a process beside its `.env` and a container that is supplied with all settings (2.3 million states).  Once an update is over and no thread was at `get_settings` meanwhile, configuration and cache are what is in `os.environ`, if that can be read (`SettledUpdateApplies`); the limiter follows the configuration (`LimiterMatchesConfig`); a restart brings back no older text of a setting that comes from `.env`, whose line reads back and was not lost in a failed write, and brings back the one in use if all lines read back (`RestartIsTransparent`).  What it may change otherwise is in section 7. |
| `visits` | Two tabs of one browser, of two, or of a robot; a clock that is right, far behind, or ahead; posts that are late or lost, and one request for the statistics at any time (9.3 million states).  A new session means that all tabs of the browser were silent, or that the cookie with the id of the last one has come to its age (`NewSessionOnlyWhenDue`); its `visit_start` is stored first and not under a later time (`StartBeforeFirstEvent`); dwell times are off by no more than the tolerance and the delays (`DwellErrorIsBounded`); the numbers of one answer fit together (`AnswerFitsTogether`). |
| `dashboard` | Two threads that report three events, two failures anywhere, and the statistics being read meanwhile (1.3 million states).  The two logs agree and have what was acknowledged (`LogsAgree`), and are a journal of whole reports (`ImplementsJournal`); every export is the newest rows of the days it names (`ExportIsTheNewest`); the numbers on the page add up although each comes from another read (`ShownAddsUp`). |
| `login` | Three threads, five logins of two clients, and a limiter that is replaced by a stricter one (3.9 million states).  A client fails at most once more for each other thread than the limiter allows (`FailuresAreBounded`), and nobody is blocked for less than it takes (`BlockIsEarned`). |
| `refresh_page` | Two clicks, up to three jobs, three polls and a restart.  What the page says of a job that ended stays true (`EndIsTold`); the button comes back after every click, also when a job never ends (`ButtonComesBack`). |

Runs in which TLC finds a documented statement violated: `geom_reupload`,
`download_record`, `settings_blank` (section 7).

`CHECK_DEADLOCK FALSE` is set where the modelled system really may stop:
`MapPage` (a page that has loaded, a table without a row to collect and a user
who has nothing to click), `PublicDownload` (all uploads are made; a reader that
is idle waits for nothing), `SettingsReload` (a process that does not come up
again stays down), and `VisitTracking`, `Dashboard`, `AdminLogin` and
`GeomRefreshPage` (nobody has to report, log in or click; their clocks and
counters are bounded).  `GeomPipeline` has `Quiet`, a process that waits for
requests, and `RateLimiter` never stops.

`TypeOK` of `AdminLogin` is checked by its run; those of `GeomPipeline`,
`RateLimiter`, `MapPage`, `PublicDownload`, `SettingsReload` and `VisitTracking`
and `EventTypeOK` are proved (section 6), which covers every instance, and not
checked again.

## 4. Bounds

- GeomPipeline: two parcels suffice for a boundary to land on the wrong one, two
  requests for uploads and refreshes to overlap, and two passes for a cursor to
  be set back.  `MaxJobs` is the number of requests and crashes, so it never
  keeps a job from being created.  One crash interrupts any state and is
  followed by a recovery; one fault hits any statement before or after it.
- RateLimiter: four ticks against a window of three let entries expire, at two
  ticks a second so that rounding matters; three keys overfill a dictionary of
  two; a thread is held up by at most one tick.
- MapPage: three rows in pages of two give full, partial and empty pages; one
  row has no boundary at first; the sheets uploaded leave a shorter table and an
  empty one.
- PublicDownload: a copy of two pieces has a middle; two lengths of a record let
  a longer one be overlaid; two extensions; three uploads let two overlap and a
  third follow alone.
- SettingsReload: four fields, one of each kind; two plain texts and blank, a text
  that loses its quotes (`Quoted`) and one that opens a quote (`Open`), which the
  file may hold above and below another line, so that lines are lost between
  them.  Two updates: one that fails or is not read back, and one that repairs it
  or is affected by it.  Two faults: a failed write and a crash behind it.  Three
  starts: a full `.env`, one without the number, and a container that is supplied
  with all.  One thread can read before an update and store after it; more of
  them are left to the theorems.
- VisitTracking: two tabs are what it takes to race on the cookies; three turns
  open a session, continue it and find it expired.  `CookieAge` is 2, one more than
the timeout, so that the id goes while its session is still alive.  `SessionTimeout` and
  `MaxDelay` are 1, so two ticks pass both.  The clock that is behind shows a
  time as old as an event may be, at which clamping begins; the one that is
  ahead is one tick beyond the tolerance.  A day has 4 ticks and Seoul is ahead
  by two, so midnight there falls into the run and midnight of the server does
  not.
- Dashboard: three events and two threads let a row be committed between any two
  of the five reads; two rows fill an export; two failures, of the database or
  the process, fall between any two statements.  The payloads are a search for
  `nan`, a click and a search that is refused; several buckets at once are left to
  the theorem (`ShownNumbersAddUp`).
- AdminLogin: limits of 2 and, after the replacement, of 0 (the form accepts
  it); a third thread fails behind the two that fill the list; six ticks against
  cooldowns of 3 and 2 let a block end and another begin; a thread waits for a
  lock for one tick at most.
- GeomRefreshPage: three polls are counted and exhausted, two clicks join one
  job or start two, and one restart puts a third in the place of what it ended.

All bounds are constants and appear in guards; the theorems of section 6 hold
for every value of them.

## 5. Fairness

- `GeomPipeline!FairSpec`: weak fairness of start-up (the container is
  restarted automatically), of the further steps of an accepted request, and of
  the thread of each job.  Every VWorld call ends, by its answer or its time-out,
  and the operating system schedules threads.  Nothing is assumed of requests,
  crashes and faults.  `JobsEnd` excuses runs with a database failure, which may
  end a thread without its row being told.
- `MapPage!FairSpec`: weak fairness of loading.  Every `fetch` of the page has a
  time-out, so it ends with an answer or an error.  Nothing is assumed of the
  user, and uploads are bounded: a table that is replaced for ever keeps giving
  rows behind every cursor.
- `GeomRefreshPage!PageFairSpec`: weak fairness of the page's own steps.  Timers
  fire, and `fetchJson` ends a request after ten seconds whether it was handled
  or not.  Nothing is assumed of jobs, restarts or clicks, so `ButtonComesBack`
  also covers a job whose row says `running` for ever.

## 6. Proofs

The theorems hold for all values of the constants, from the named assumptions on
them (`PipelineAssumption`, `MaxJobsIsPositive`, `NoGeomIsNoAddress`,
`LimiterAssumption`, `MapPageAssumption`, `PublicDownloadAssumption`,
`SettingsAssumption`, `AdminLoginAssumption`, `EventLogAssumption`,
`DashboardAssumption`, `WebVisitsAssumption`, `VisitTrackingAssumption`) only.

- `GeomPipelineProofs!TypeCorrect`, `NoForeignBoundary`: `Spec => []TypeOK` and
  `Spec => []GeomMatchesAddress`.  `GeomMatchesAddress` is not inductive: a
  thread writes by an id it selected earlier.  The invariant `IInv` adds that
  ids in the table are below the counter and unique (`LandIds`), that the
  dictionary of an upload gives each address its own boundary
  (`KnownMatchesAddress`), and that an id in a batch is below the counter and,
  if it is still in the table, stands for the address it was selected with
  (`BatchMatchesLand`).  An upload keeps the last part because new rows are
  numbered from the counter on: this is where AUTOINCREMENT is used.  There is
  one step per action; `ThreadStep`, `RequestStep` and `TableReplaced` carry
  what actions have in common.
- `GeomPipelineProofs!StatusIsHonest`, `NoJobIsOrphaned`, `RefinesLifecycle`: the
  invariant `JobInv` adds to `StatusMatchesThread` and `NoOrphanJob` that jobs
  above the counter are unused (`UnusedJobs`), that neither a thread nor a
  request runs before start-up is over (`NothingRunsUntilUp`: recovery fails
  rows of threads that are gone), and that a job is handed to a thread by one
  request only (`ScheduledOnce`).  With it, each action maps to a step of
  `JobLifecycle` or to a stutter (`StepLifecycle`); what differs between the
  actions of a thread is in `ThreadGoesOn` and `ThreadLeaves`.
- `GeomPipelineProofs!CollectedIsKept`, `PassIsComplete`,
  `NoUploadedRowIsForgotten`: `PassInv` says of each thread that rows behind its
  cursor that still have no boundary were tried (`PassedRowsWereTried`), that
  the batch is what comes next in the table (`BatchIsNext`), and where it is
  when it writes (`WritesAtCursor`).  Every step keeps rows, lacking a boundary
  no more than before, or inserts rows with new ids (`RowsKeptOrNew`), and so
  disturbs no pass (`PassStays`).  `NoRowForgotten` adds that a row nobody has
  asked about is ahead of some thread's cursor, or a job for it is about to be
  created.
- `GeomPipelineProofs!KeepsParcels`: `Spec => ImplementsParcels`.  Inserted rows
  have the next ids without a gap (`InsertedIds`).  A job writes by an id: that
  this fills in the boundary of one row which lacks it, or changes nothing
  (`WriteLocates`), is `LandIds` and `BatchMatchesLand` again, with
  `GeomMatchesAddress` for a row that got its boundary from another job
  meanwhile.  `CollectedStays` follows from any such step; that no other column
  changes, and that no id is left out, does not.
- `GeomPipelineProofs!EndsAreTold`: `PageFairSpec => []EndIsTold` of
  `GeomRefreshPage`.  `PageInv` says that rows above the counter are not in use
  (`PageTypes`), that the page asks about a job it was told of
  (`AsksAboutItsJob`), and that an answer under way and the message agree with
  the table (`Tells`).  It is kept because a job that ended never
  changes: `JobGoesOn` and `RestartGoesOn` use nothing but `JobLifecycle`, so by
  `RefinesLifecycle` the page is right about the jobs of the pipeline.
- `RateLimiterProofs!TypeCorrect`, `LimitIsRespected`: `Spec => []TypeOK` and
  `Spec => []LimitHolds`.  The invariant says that a deque holds the readings of
  the last events of its key (`BucketIsRecent`), that events are logged in the
  order of their admission with readings at most `MaxStall` old
  (`LogIsOrdered`), that what a deque has forgotten, by `popleft` or by
  eviction, is at least a window past (`ForgottenIsPast`), and that a thread
  before the lock has a recent reading (`ReadingsAreRecent`).  When a request is
  admitted, the deque is shorter than the limit, so the event `limit` places
  before the new one has been forgotten and is a window past.
- `RateLimiterProofs!RejectionIsJustified`, `RetryAfterIsEnough`,
  `OnlyActiveKeysGrow`: the first rests on `BucketIsRecent`, a full deque being
  the newest events of the log.  For the second, `SizeInv` says that a deque
  holds no more entries than a limit that never changes; when the oldest of them
  has expired, there is room, and `math.ceil` makes Retry-After reach that moment
  in whole seconds (`RetryAfterRoundsUp`).  For the third it says that the
  dictionary is finite, so that one that grows has evicted nothing.

- `SettingsReloadProofs!RestartChangesNothing`, `LimiterIsCurrent`,
  `SettledUpdateIsEverywhere`, `TypeCorrect`.  What holds between updates is
  broken in the middle of one, so the invariant says step by step how far it is:
  a text in `os.environ` that a restart is to find in a line is there, in the
  file, or in what the handler read before it emptied the file, or is one that is
  about to be set (`FollowsLine`, `EnvironFollowsFile`); the limiter is behind
  the configuration only between the two assignments (`LimiterFollowsConfig`);
  and as long as no thread is at `get_settings`, the cache is empty from
  `cache_clear` on and the handler reads what `os.environ` holds
  (`AloneIsCurrent`).  A call of `get_settings` keeps all of it, because it only
  adds what the environment lacks (`LoadKeepsFollowing`).  Nothing is known of
  `LoadDotenv` but its assumption; that python-dotenv satisfies it is not proved.
- `PublicDownloadProofs!DownloadsAreWhole`, `RecordsNameFiles`,
  `LoneUploadsRepair`, `DownloadsAreFresh`, `TypeCorrect`.  Files are put in
  place whole (`FilesAreWhole`); whoever is about to name a file, or was told
  its name, finds one (`FilesAreThere`), which rests on files being replaced and
  never removed; an upload that runs alone is the last one (`LastAlone`); and
  nothing older than the newest upload completed alone is on its way any more
  (`NothingGoesBack`).
- `DashboardProofs!LogsTellTheSame`, `EventTypesCorrect`, `DashboardOnlyReads`,
  `ExportsAreTheNewest`.  The third is a refinement: Dashboard implements
  `EventSpec`, so what is proved of the logs holds beside the dashboard.  The invariant adds that the two rows
  of an open transaction are of one event (`RowsAreOneEvent`), that a request in
  progress is in no log yet (`NumbersAreFresh`), and that one about to be
  acknowledged is (`AnswersAreCommitted`).  An export takes rows by time, and
  what it leaves out was stored earlier only if ids follow times: `OrderInv`
  says that one transaction writes at a time and that its row is not older than
  those in the log, because the time is read when the transaction holds the
  write lock.
- `DashboardProofs!ShownNumbersAddUp`: `Spec => []ShownAddsUp`.  `SumInv` says
  query by query that what a load has counted is in the log still and in
  whatever it counts later, and that every search has exactly one bucket, `nan`
  included.  That the counts of the buckets add up to the number of rows is a
  fact about three disjoint finite sets and needs no induction.
- `DashboardProofs!KeepsAJournal`: `Spec => ImplementsJournal`.  `ReportInv` says
  that the rows which the logs and an open transaction have of a request are
  those of its report (`LogsOfReports`, `RowsOfReport`) and that answers owed are
  of different requests (`AnswersAreOwn`).  With it and `LogsAgree` no row is
  torn, `Commit` records one report (`RecordedIsWhole`), and every other step
  moves one request on or answers it (`OneMovesOn`, `OneIsAnswered`) or stutters.
- `AdminLoginProofs!FailuresStayBounded`, `BlocksAreEarned`, `TypeCorrect`.  For
  `BlockIsEarned` it is enough that attempts on the list have happened
  (`AttemptsHappened`).  For the bound, every window is in one of two phases
  (`WindowsHold`): either all its failures are still on the list, which is
  shorter than the limit, or it is shut (blocked, or past) and its failures
  together with the threads that may still add one are bounded.
- `VisitTrackingProofs!SessionsAreCutWhenDue`, `StartsComeFirst`, `DwellIsClose`,
  `AnswersFit`, `TypeCorrect`.
  `TurnsFollow` relates what a turn read first to what the cookies have become:
  `web_last_seen_ts` is the last report of any tab, and the age of `web_session_id`
  counts from the last session that was given an id, both by the clock of the
  browser.
  `ChainsAreStarted` says that what follows a `visit_start` is sent when that is
  in the table, under a time that the later event cannot get below, because
  `parse_client_ts` is monotonic in the server's clock.  For the dwell time,
  `TimesInv` says that a post is on its way no longer than the delays allow
  (`PostInTime`), that the time of a row differs from the event's, up to an
  offset all rows share, by no more than the tolerance and the delays
  (`RowInTime`), and that a session is of one browser (`OneBrowser`).  For the
  answers, `StatsInv` says of each query under way that what an earlier one
  counted is still in the table, with what has been added since, and that the
  window it works with is the one of a day that has begun (`TodayIsInTrend`:
  the two computations of the day in Seoul agree).
- `MapPageProofs`: two invariants.  `Shown` relates the layers, the result and
  the index, and gives `LayersFollowResult`, `NavigationFollowsHighlight` and
  `ClicksHitWhatIsShown`.  `LInv` is about the loading (`TableOK`, `LoadOK`,
  `NothingIsMissing`: up to the cursor nothing is missing but what came late)
  and gives `TypeCorrect`, `PagesInOrder`, `NoRowIsMissed` and, with `Shown`,
  `NothingLoadedIsHidden`.  An upload keeps it because new ids are beyond every
  cursor.  That a page has an order, a last row, and its first rows, is proved
  by taking a smallest set that has not (`SmallestSubset`), as well-foundedness
  needs no operator for a parameter.  What `SelectSeq` returns is left open: the
  theorems hold for any result of a filter.  `AllowsForTheTable` closes the gap between the
  two sides: whatever `ParcelTable`, and by `KeepsParcels` the pipeline, does to
  the table is the insertion of a sheet as in `Upload` or the write of one
  boundary as in `Collect`.  The sheets and the number of uploads are
  constants of the page, over which its theorems range.

Only model-checked, and why: liveness (`JobsEnd`, `LoadEnds`, `ButtonComesBack`);
fairness and ENABLED are out of the reach of the proof system as it is used
here.  So is induction over data, which is why the theorems leave open what
filtering a sequence returns.  All safety properties of the passing runs are
proved.

## 7. Where code and documents disagree

Each is a run in which TLC finds a documented statement violated; `PROJECT.json`
quotes both sides.

- `geom_reupload` (`upload_service.py:304`): known boundaries are kept on
  re-upload.  They are selected before the transaction that replaces the table;
  a boundary that a job commits in between is lost, though its row is asked
  about again (`UploadedRowsWereAsked`).
- `download_record` (`docs/maintenance.md:257-265`): the hash in `current.json`
  is that of the file.  Two overlapping uploads that both succeed may leave the
  record of the one beside the bytes of the other.
- `settings_blank` (`README.MD:158`, `docs/maintenance.md:285`): a submitted
  setting is in `.env` and in `app.state.config` at once.  A blank VWorld key
  passes validation and is written before `get_settings` raises.

Met while modelling, and not stated as runs:

- A refresh starts a job only if none is active (`docs/architecture.md:215`),
  but the check and the creation are two transactions: two admins may start two.
  `GeomPipeline` and `GeomRefreshPage` contain it, and their properties hold
  with it.
- With a download limit of 0, which the form accepts, `bucket[0]` of an empty
  deque raises, and the answer is 500 instead of 429 (`RejectFails`).
- A click on the button of the statistics starts a load whatever is under way,
  and the answers are rendered in the order in which they arrive: an older one
  may be shown last (`Render`).
- The queries of one answer of the statistics see different states of the
  table; only inequalities between them hold (`ShownAddsUp`,
  `AnswerFitsTogether`), and totals need not add up exactly.

- A session of visits is cut after 24 hours also when nobody paused:
  `web_session_id` expires that long after its session began and is not renewed
  (`web-session-store.ts:5,21,26`).  `NewSessionOnlyWhenDue` states both reasons.
- An admin may submit a text that `.env` does not give back, for instance one with
  a blank and quotes of its own (`admin_settings_service.py:191-194`): it is in
  use until the process ends, and the next one starts with another, or without
  the settings in the lines behind it.
- A write of `.env` that fails has emptied the file already
  (`admin_settings_service.py:133`): settings are lost at the next start, while
  the process goes on with those it has; or new lines are in the file that the
  process never used.
- A container is supplied with the settings by `docker-compose.yml`, and
  `load_dotenv` overrides nothing: when it restarts, what an admin changed is
  forgotten.

What the code does at these places, and no property forbids, is kept in the
models and noted with its hazard in `PROJECT.json`: a job row that stays active
after the database failed, rows that an odd answer of VWorld leaves unasked, a
message that replaces a list of loaded parcels, a highlight that moves with its
index to another parcel, the event that is dropped with a lost answer, and a page
that gives up on a job that goes on.

## 8. What is not modelled

- Validation and parsing (sheets, forms, payloads): pure
  functions that reject a request before it changes anything; the models take
  the inputs that pass.
- Admission to admin pages (network, session, token), error pages, middleware
  and logging: decisions about one request without a state of their own.
- Retries inside one VWorld call: the call ends with a boundary, with nothing or
  by raising, and the job does not see how often it was tried.
- The session that a login begins, its cookie, and logout: they live in the
  browser's signed cookie, and the server keeps nothing.
- The counts of parcels, the health check, and the rendering, limits in time and
  encoding of exports: single queries and output.
- Classification of visits by user agent, channel, referrer and campaign: pure
  functions of one request.  Breakdowns are modelled by their totals.
- The views of the narrow page (`mobile-map-ui.ts`): a state of its own, next to
  the history of the browser, that nothing else reads (section 9).
- The schema: statements that are safe to repeat, run before requests are served.
- Rendering in the browser: styles, animation, view extents, base layers.
- `static/js` (predecessors of the TypeScript pages), scripts and deployment.
- Of `.env`: comments and lines that are no settings (they stay as they are),
  two lines with one key, and texts with a line break of their own; the lines are
  in the order of `Fields`.  A reference to another setting (`${...}`) has a fixed
  reading.  Loading `.env` is one step.  An opening of the file that fails before
  it is emptied changes nothing and is left out, and so is a write that is cut off
  inside a character of several bytes, after which the file is no text at all.
- A system clock that is set back.

## 9. Plan

In this order:

1. An abstract specification of VisitTracking, the visits of one visitor as
   intervals that are further apart than the timeout, and the refinement for one
   tab and a clock that is right.
2. `MobileUi`: the views of the narrow page against the entries of the history
   and the width of the window.
