# Callhome: models, checks and proofs

Callhome collects telemetry: services embed a *homing client* that posts a report
every half hour; the *Callhome service* locates the reporter, stores the report in
TimescaleDB and serves queries and a dashboard. This directory holds TLA+ models of
the parts whose behaviour is hard to test, TLC configurations that check them on
small instances, and TLAPS proofs about them for all values of their constants.

## The system

| Part | Source | State | Operations |
| --- | --- | --- | --- |
| Homing client | `pkg/client/client.go` | position in its loop, the context, the report it is building | `CallHome`, `Stop`, `getIP`, `send` |
| HTTP API | `api/` | none | decode, validate, call the service, encode |
| Service | `service.go` | ristretto cache of summaries and pages | `Save`, `Retrieve`, `RetrieveSummary`, `ServeUI`, `prefetch` |
| Repository | `timescale/timescale.go` | table `telemetry`, primary key `time` | `Save` (one transaction), `RetrieveAll`, `RetrieveSummary` |
| Schema | `timescale/init.go` | migrations, retention policy | applied at start |
| Location | `location.go` | read-only file | `GetLocation` |
| Lifecycle | `cmd/main.go`, `internal/server`, `internal/clients`, `docker/docker-compose.yml` | how far the set-up is, context, errgroup, listener | `SetupDB`, `NewProvider`, `newService`, `Start`, `Stop`, `StopSignalHandler`, restart |
| Middleware | `tracing/`, `api/logging.go`, `api/metrics.go` | none | pass through |
| Configuration | `internal/env` | none | parse the environment |

A report travels from the client's loop by HTTP to `saveEndpoint`, `service.Save` and
`repo.Save`. Two fields have misleading names: the client's `last_seen` becomes
`Telemetry.ServiceTime`, which is the column `time` and the primary key, while
`service.Save` writes its own clock to `service_time`. So the instant a *client* claims
is the key two reports can collide on, and the column every query filters on.

`GET /` becomes three lookups (`ServeUI`): the summary of the filter, the summary of no
filter and the page of the filter. Each goes to the cache, which is shared with a
goroutine that prefetches the unfiltered summary and two default pages once per TTL.

What is hard: the cache is filled by interleaved lookups without any lock on a key; an
entry is dated when it is stored and not when it was read; the deferred closure of
`repo.Save` looks at a variable the insert's error never reaches and returns through
one nobody reads; inserts of one instant wait for each other; a client retries after
failures that may have succeeded, and listens to its context only between sleeps; pages
of a listing are queries of their own over a table that changes; at shutdown three
goroutines hear of each other through a channel, a context and a group; a process that
is killed between two statements of a migration leaves the next one to go on from there;
an error goes through five layers before it becomes a status.
`PROJECT.json` lists these hazards at their lines with the properties that cover them.

### What makes each part correct

* Cache: an answer holds rows of its own filter only; it is a snapshot; it is never older
  than a TTL and one slow query; rounding dates hides a row for half a period after its
  stamp and no longer; what is prefetched is there; requests end and the prefetch loop goes on, whatever fails.
* Cache key: filters that differ have keys that differ.
* Saving: refused means not stored; acknowledged means stored; one row per instant;
  every handler ends; concurrent saves look like single steps that store a report and
  later ones that tell its client, or never do.
* Retrieving: a reader who goes through all pages misses no address that stayed where it
  was, unless a page was cut short, and sees one twice only if something came; the total counts addresses, or more
  than addresses exactly when one was seen in two countries.
* Client: reports are fresh, spaced, and get through; `Stop` is heard, in bounded time,
  and final.
* API: queries that share a cached answer ask for the same, whatever they leave out; a
  status tells whether the service saw the request.
* Lifecycle: the process does not end under a request it could have waited for, does end on
  a signal or when it cannot listen, and comes up again after a failure, over a complete
  schema, wherever the last one stopped.

## Modules

| Module | Models | Run by | Proofs |
| --- | --- | --- | --- |
| `UICache` | the dashboard's cache, `ServeUI`, `prefetch` | `MCUICache` | `UICacheProofs` |
| `StaleView` | what the dashboard promises (abstract) | through `UICache` | `StaleViewProofs` |
| `CacheKey` | `generateCacheKey` | `MCCacheKey`, `MCApi` | `CacheKeyProofs` |
| `Api` | routes, decoding, validation, endpoints, status codes; extends `CacheKey` | `MCApi` | `ApiProofs` |
| `SaveTx` | `saveEndpoint`, `service.Save`, `repo.Save` | `MCSaveTx` | `SaveTxProofs` |
| `AtomicSave` | what saving promises (abstract) | through `SaveTx` | `SaveTxProofs` |
| `Listing` | `decodeRetrieve`, `retrieveEndpoint`, `RetrieveAll`, counts of `RetrieveSummary`, retention | `MCListing` | `ListingProofs` |
| `HomingClient` | the client's loop | `MCHomingClient` | `HomingClientProofs` |
| `Lifecycle` | migrations, `main`, `Start`, `Stop`, `StopSignalHandler`, restart | `MCLifecycle` | `LifecycleProofs` |

Operators commented as a *mutation* are deliberate mistakes; each replaces the
definition after it to show that a property can fail. No specification uses them.

### UICache

A process is a request of `GET /` or the prefetching goroutine. `pc` is where its
current `getCachedOrFetch...` call is: `lookup` (before `cache.Get`), `query` (after the
miss), `store` (rows read, `Set` not yet done). `step` numbers the three calls, `want`
is the local `filters`. Each of `Hit`, `Miss`, `Query`, `QueryError` and `Store` is a
step of its own, so all interleavings of lookups, queries and Sets on one key happen.
`Hit`, `Store` and `QueryError` include going on to the next call, as the code does.

An answer is abstracted to the set of rows its `SELECT` ran over. A filter is a
*selection* (all its fields but `To`) and an end date, because `To` is the field whose
default moves with the clock; `Matching` says which reports a selection matches. `From`
is part of the selection: its default moves too, but only drops rows a month old, which
no instance has. A row has the time it was committed and the stamp it is filtered by,
which is any instant of `LastSeen`, before its commit or after it: nobody compares a
client's clock with the server's. A user may give the zero time, 0001-01-01T00:00:00Z, as
`from` or `to`, which the query then leaves unbounded (`Unbounded`); with both, the
request is for `TelemetryFilters{}` itself and shares the drop-down lists' keys.

`now` is a clock. `MaxLatency` bounds a lookup, its query and its Set: it is the
environment's, the code sets no deadline; every bound the properties state names it.
`TTL` and `RoundPeriod` are the code's constants (ten and twenty minutes). `Faults` selects what
may go wrong: eviction, a refused Set, a failing query, a result cut short.

`StaleView` has no cache: a request is answered in one step, with three views of the table,
of its filter, of everything and of its filter again, or refused. A view is of one instant,
at most a `Staleness` before the request, and the three instants may differ. `UICache` maps
`page` to the answers of a request that has ended and `Staleness` to `TTL + MaxLatency`, and
implements it as long as no result is truncated. So a reader of `ServeUI` may start with the
short module: whatever requests, prefetches, evictions and failures do to each other, a user
sees only that. It also says what is not promised: that the summary and the map of one page
agree.

### SaveTx and AtomicSave

One process per posted report. `Refuse` is an error before the transaction exists: an
invalid report, no location, no connection. `Exec` is `NamedExec`: the insert succeeds
once no other row, stored or in an open transaction, has its instant (PostgreSQL's unique
index makes the second insert wait), fails when a stored row has it, or fails by itself.
`Deferred` is the closure, which always calls `Commit`: on an open transaction, with or
without a row, on an aborted one, which rolls back, or on one that `database/sql` has
already rolled back. `result` is fixed by `Exec`, before `Deferred`, as in the code. `Respond`
writes the answer, a step of its own: between it and the commit the client may leave or
the process die.

`AtomicSave` stores a report in one step (`Accept`) and tells its client in a later one
(`Tell`), which tells the truth. Either may never come: a report is refused by telling
without storing, and a stored one's client may have left, or the process died. `SaveTx`
maps `stored` to the committed rows and `answer` to what clients still there were told.

### CacheKey

Two filters, one whose answer is cached and one looked up; fields are sequences of
characters, joined as in the code. SHA-256 is taken to be injective.

### Api

A request of one of the four routes of the service goes through `ReceiveReport` or
`ReceiveQuery` (the decoder), `ValidateReport` or `ValidateQuery`, `Call` (the endpoint and
the service, which may fail) and `Respond`, or leaves for `Refuse` with the first error met.
A parameter is absent, repeated, unreadable or a value; a date that is given as an empty
text counts as absent, as in the code. The decoder's default dates are fixed (`Listing` moves
them). `filled` and `asked` are `CacheKey`'s: `ReceiveQuery` makes the filter that is looked
up, and `Call` stores an answer of `GET /` under it; `meant` remembers what the query of the
stored answer asked for. So `SharedAnswersAgree` goes from the text of a request, over
the decoder and the key, to the text of another one. Requests are taken one after the
other because they share nothing but the service, which `SaveTx` and `UICache` interleave.
`StatusOfError` has the encoder's branches that are ever taken: `ErrOffsetSize` is never
returned, and `ErrInvalidEvent` is only ever the text of another error.

### Listing

A reader asks for page after page of `GET /telemetry`, each a request that is decoded
(`Ask`: default dates, validation), queried (`Read`, or `Fail`) and answered. Between any
two steps reports are saved, the retention policy drops old rows and the clock moves.
The reader is external: the repository holds no caller that pages. It repeats its
filter, counts its offset up by the limit and stops at a page that is not full, which is
all the answer lets it do, because `Total` is the length of the page. A page may be cut
short on its way (`Arriving`): `RetrieveAll` does not call `rows.Err`, so what came before
the break is answered like a page that is not full, and the reader stops. `cut` remembers
that, and `WalkComplete` speaks of the walks without: the code gives a reader no way to
tell them apart. A date may be the zero time, which bounds nothing and which `validate`
lets pass.

`time` is the primary key, so the order of the list is total and a row's position is the
number of addresses with a newer row (`Position`): no sequence is needed. A row keeps
its address, time and country; the country stands for all filters on a column. The
lists of services, cities and versions that come with the answers are left out, and
`TotalCounts` is about a summary whose rows all came.
`Report` takes any time that no row has and that is not late by as much as rows are kept:
a client would have to hold a report back for a year. `Purge` drops a prefix in time, as
dropping chunks does. `last`, `kept`, `came`, `seen`, `repeats` and `cut` are what the reader
and an observer of the table remember; no guard looks at them.

### HomingClient

There is no clock: `left` is what the current sleep or exchange still takes, and the
`since...` variables measure distances. Steps between two waits take no time, so
`Elapse` is enabled in a wait only. `MaxExchange` bounds one HTTP exchange; the client
sets no timeout, so this too is the environment's. `post` is the report at the server.
When an exchange breaks the client does not know whether the report was stored, and
the model does not follow the row any further: `sinceRow` forgets it, and `RowsSpaced`
speaks of the rows whose answer was not lost. `Cancel` is the host's, by its own context or
by a call of the exported `Stop`, from another goroutine and at any point of the loop.

### Lifecycle

`main` is where the process is: in one of three stages of its set-up, waiting in `g.Wait`, or
ended, with status zero (`exited`), with another (`failed`) or `killed`. The first stage
migrates: `Up` has the statements of the seven migrations, `Execute` runs the next one
within the transaction of its migration (`draft`), and `Record` commits it with the
migration's record, as sql-migrate does. The several indexes of a migration, all created `IF NOT
EXISTS`, are one statement. Any call of the set-up may fail (`Fatal`), and anything may kill
the process (`Kill`), SIGTERM included, which it does not handle; `Restart` is the container's
restart policy, over the database as it was left. (Docker does not start a container again
that was stopped by hand: `ComesUp` is about the other ways to die.)

Then come the group's goroutines and the listening one, the context (`done`), and
`closed`, which is set when `Shutdown` is called. `ShutdownWaits` returns when nothing is in
flight or at its deadline (`timedOut`). The deferred cancels are part of `EndStop`.
net/http is modelled as far as it is relied on: `ListenAndServe` fails to bind, serves, or
returns when `Shutdown` is called. `Exit` has status zero whatever the group's error was,
unless the tracer's deferred `Shutdown` fails.

## Runs

| Run | Configuration | Question | Bounds |
| --- | --- | --- | --- |
| `ui_main` | `MCUICache.cfg` | are answers too old, when entries are evicted, Sets refused and queries fail? what does rounding the default end date cost, with clients' clocks behind and ahead? do requests end and ticks get taken? | one user and the prefetcher, one report, stamp 3, both prefetched pages as one, clock 2 to 4, TTL 1, latency 1, every cache fault |
| `ui_keys` | `MCUICacheKeys.cfg` | do answers of different filters and end dates mix? is each a snapshot? do pages implement `StaleView`? | one user, who asks for everything with the default or the zero end date, and the prefetcher; two reports, stamp 4; clock 3 to 4, TTL 1, every cache fault, calls that end within their instant |
| `ui_warm` | `MCUICacheWarm.cfg` | is the prefetched summary always there? | TTL 3, clock 3 to 10: two full ticker periods |
| `ui_truncated` | `MCUICacheTruncated.cfg` | *violated:* is an answer always a snapshot? | truncated results allowed |
| `save` | `MCSaveTx.cfg` | are refused reports never stored, acknowledged ones always, and instants unique? is saving atomic, does every handler end, and whom may an insert wait for? | three reports, two of one instant, every fault but a lost commit, up to the answer |
| `save_commit` | `MCSaveTxCommit.cfg` | *violated:* is an acknowledged report stored when commits fail? | |
| `api` | `MCApi.cfg` | do requests that share an answer ask for the same? are keys unique without separators? what does a status say? | every form of every parameter, two dates in every order, texts of up to two characters |
| `key_separator` | `MCCacheKeySep.cfg` | *violated:* are keys unique with separators in fields? | fields of up to two characters, all pairs of filters |
| `home` | `MCHomingClient.cfg` | are reports fresh and spaced, is the end of the context heard in time and for good, and, on a network that works again and again, do reports arrive? | sleep 5, back-off 2, exchange 2, stop wait 1, every fault |
| `list` | `MCListing.cfg` | what does a reader miss or see twice while the table changes? what does the total count? | three addresses, two countries, pages of one row, whole or cut short, four stamps, dates absent, given or zero, clock 0 to 4, thirty days and retention of 2 |
| `life` | `MCLifecycle.cfg` | is the schema complete when requests are served? are they cut? does the process end, without getting stuck on the way, and come up again? | all seven migrations, two requests, any number of failed starts and kills |
| `life_restart` | `MCLifecycleRestart.cfg` | *violated:* is a server whose listener failed started again? | the same |

Why the bounds are enough. `Visibility` compares a row with a request a TTL and a
latency later: the clock covers commit, fill, expiry and a second fill. One user and
the prefetcher are enough to race on a key, since they ask for the same page and both
ask for the unfiltered summary; the proofs cover any number of users. In the models
with one selection for users the round period makes the default end date constant, so
that users and prefetches share keys, which is when they can disturb each other. In `ui_main`
a stamp of 3 is ahead of the clock when its report commits at 2 and behind when at 4, and
the default end date lags up to 3 when the clock is at 4, so that a row stamped 3 is shown
only just. In `ui_keys` the stamp is 4, which the default end date leaves out and the zero
one does not; a user
who gives the zero dates asks under the very key of the drop-down summary, which the
prefetcher fills. Calls take no time there (`MaxLatency` 0), so that all their steps
interleave within an instant and every fault may strike between them, but what time passing
inside a call does is `ui_main`'s. The theorems have neither bound. Where
the configuration gives `ThisMonth` and `Last30` one value, the model is at the 31st of
a month, when both pages of the prefetch are one. `Visibility` and `StopsInTime` and
`FreshReports` are tight: with a bound one smaller TLC finds them violated, and so is
`SummaryRefreshed`.
In `Api` the parameters of different kinds vary apart from each other, for no guard looks at
two kinds at once; texts of one and two characters are what a key that runs
fields together confuses. The relevant conflicts of `SaveTx` need two reports of one instant
and a bystander. A page of one row puts
every address on a page of its own, so three addresses give lists of three pages and
every shift by one crosses a border; a window and a retention of 2 let rows leave by
both. The run does not check for deadlock: the reader ends and the bounds on
stamps and clock stop the rest. `HomingClient` and `Lifecycle` run for ever;
`sinceDone` stops counting
one past the `Limit` it is compared with, as `sinceAck` and `sinceRow` do at a full sleep.

`SummaryRefreshed` says two TTLs and not one: the prefetcher looks the summary up like
a user, and, a little less than a TTL after its own Set, finds it fresh.

### Fairness

* `UICache`: weak fairness of each process's next step (the scheduler runs every
  goroutine, the database answers or fails) and of taking a tick. No fairness of
  evictions, commits, requests, or of the clock.
* `SaveTx`: weak fairness of each handler (`Work`) and of `database/sql`'s rollback
  goroutine; none of arrivals, cancellations and crashes, nor of an insert that breaks, so
  that no handler is owed an error to get it out of a wait.
* `Listing`: none; it has safety properties only, since nothing promises that a reader
  gets to the end of a list that grows.
* `HomingClient`: weak fairness of the loop's step and of time, and no more, for
  `StopHeard`: the network may be down and the interfaces unlisted for ever. `ReportsArrive`
  has strong fairness of the successful outcomes (`WorkingNetwork`, a network that is not
  down for ever) as a premise of its own, which the other properties do not see.
* `Lifecycle`: weak fairness of the server's, the group's and `main`'s steps. Requests
  need not end: the deadline of `Shutdown` must be enough, and is. `Supervised` adds weak
  fairness of the restart (the container runtime's promise) and strong fairness of each step
  of the set-up: the database does come up, and the process is not killed at the same
  point for ever. Without it nothing could come up; with it, what is left to the code is that
  it exits with a status that restarts it and leaves a database that the next start can use.
* `Api`: none; it has safety properties only. A request waits for nothing but the service.

## What the checks disagree with

* `save_commit`: the deferred closure assigns `Commit`'s error to a local variable after
  the return value is fixed (`timescale.go:125`). Save returns nil and the client gets
  201. `telemetry.go:62`: "A non-nil error is returned to indicate operation failure."
* `key_separator`: fields are joined with an unescaped `|` (`service.go:148`).
  `service.go:145`: "creates a unique cache key from TelemetryFilters".
* `ui_truncated`: `rows.Err()` is called after neither loop (`timescale.go:91` and `:177`),
  so a result cut short is cached and served as complete. `telemetry.go:65`: "retrieves all
  telemetry events". For the same reason a reader's walk may end early (`Listing`).
* `life_restart`: when the listener fails, `main` logs the group's error and returns
  (`main.go:93`): the status is zero. `docker/docker-compose.yml:30`: "restart: on-failure"
  does not restart such a process, and the service stays down.

Some disagreements need no run, for one request shows them: `GET /` answers 201 where
`openapi/openapi.yaml:35` says 200 (`StatusOf`), and a date that cannot be read, or a
range that ends before it begins, is answered 500 (`StatusOfError`).

## Proofs

The invariants behind the properties (`OwnInv`, `VisInv`, `SnapInv`, `PageInv`, `ViewsInv`,
`RefreshInv`, `RowInv`, `WaitInv`, `AckInv`, `LoopInv`, `WalkInv`, `CountInv`, `CameInv`,
`PaidInv`, `DecodedInv`, `CalledInv`, `ExitInv`, `StopInv` of `Lifecycle`, `MigrationInv`, and
the parts they are made of) are proved and therefore not among the runs' properties. All theorems hold for every value of the constants that
satisfies the named assumptions.

* **UICache.** `OwnRows` rests on `OwnInv`: cached rows belong to the filter of their key,
  and rows read but not stored to the filter asked for. The last part is needed because
  a value waits in a local variable while the table grows. `NeverTooOld` rests on
  `VisInv`: what was read is complete up to the time the call *began*, a call is at most
  `MaxLatency` old (`Deadlines`), so what is cached is complete up to `MaxLatency` before
  its own date, and a hit adds less than a `TTL`. `DefaultNeverTooOld` adds
  `RoundBound`: rounding moves a date back by at most half a period, so a row is selected
  half a period after its stamp, wherever that lies. The last two assume that results are not truncated. `SummaryKeptWarm` rests on
  `RefreshInv`, which follows the prefetcher through its round: the summary's entry is
  dated, and the next tick due, so that it is stored again before it is two TTLs old. It
  is the only one that needs nothing to be evicted, refused or failing.
* **StaleView.** `Snapshots` rests on `SnapInv`: what is read and not yet stored, cached or
  answered are snapshots, and remain so because a row committed later is dated no earlier
  than any row they hold. `PagesAreStaleViews` is the refinement. `PageInv` says which
  answers a request holds at each of its three steps, so that when it ends it holds the
  three a page needs; `ViewsInv` joins `VisInv` and `SnapInv` to say that each is a view
  from at most a TTL and a slow query before the request; and every step of the cache, the
  prefetcher or the faults leaves the abstract variables alone (`ViewStep`). Both theorems
  assume that results are not truncated, which `ui_truncated` shows to be necessary, and
  nothing of the filters: a user may ask for what the prefetcher asks for.
* **SaveTx.** `RowInv` counts rows of open transactions as much as committed ones: with
  committed rows only it is not inductive, for two open inserts could both commit. It
  gives `RejectedNeverStored` and `InstantsUnique` under every fault. `WaitInv` says that no
  transaction with a row is left behind; `WaitsAlwaysEnd` follows, under every fault: the
  inserts of one instant cannot wait in a circle. It is the safety half of `Answered`, which
  adds that the handlers run. `AckInv` follows an
  acknowledged report from insert to commit; it gives `CreatedStored`, and with `RowInv`
  the refinement `SaveIsAtomic`: `EndStep` shows that the end of a transaction is an
  `Accept` or nothing, `TellStep` that an answer is a `Tell` or, for a client that left,
  nothing. Both assume that no commit is
  lost, which `save_commit` shows to be necessary.
* **CacheKey.** `PlainKeysUnique`: joining is injective when the first part holds no
  separator; the key is joined five times. For texts of any length.
* **Listing.** `NothingLost` rests on `InPlace`: an address still in its place is shown
  already or at the reader's offset or after it. Reading keeps this because a page that the
  reader goes on from is full and therefore whole (`CutInv`): positions below the end of a list are all taken (`PositionsFilled`, by the
  pigeonhole: as many addresses as there are positions), so a page with fewer rows than
  the limit is the last. It survives between two requests because positions only grow:
  what was before a row in the list stays before it, for no row newer than it leaves.
  That is `GoneInv` (retention takes the oldest rows and they do not come back) and
  `DatesInv` (the window's end only moves on). `RepeatsArePaid` counts: as long as pages are
  full, repetitions and addresses seen add up to the offset (`CountInv`); when the reader is
  shown an address again, at least as many addresses lie before it as its offset says, and
  each of them was seen or came since (`CameInv`), so one came for every repetition
  (`PaidInv`). `TotalRight` shows that the sum over the countries is the number of pairs of
  an address and a country (`TotalIsHomes`), which is split country by country. The fold is
  over any finite set of countries; in place of an induction theorem, which the provers
  cannot instantiate, the proof takes a smallest set for which the claim fails.
* **HomingClient.** `AgeInv` charges a report's age to the exchanges of its round,
  `SpacedInv` splits the distance between acknowledgements into time slept and time
  left, `StopInv` bounds the time to `Stop` by what the loop still has to go through.
* **Api.** `SharersAgree` rests on `DecodedInv`: the stored and the asked filter were both
  made of queries that could be decoded, and a decoded filter determines what its query
  asked for (`DecodedInjective`: printing dates is injective). With the injectivity of keys
  this goes from equal keys to equal meanings. It assumes, like `PlainKeysUnique`, that texts
  hold no separator. `StatusesHonest` follows how far a request got (`CalledInv`).
* **Lifecycle.** `ServedSchemaComplete` and `MigrationsAlwaysApply` rest on `MigrationInv`: the
  database holds what its recorded migrations make (`Made`), and a transaction that and the
  statements executed so far; so a restart, which drops the transaction, is back at a point
  every migration can go on from. `ExitInv`: the context is done too early only while the
  signal handler's Shutdown still waits, and `main` waits for the signal handler. `StopInv`:
  whoever shuts the server down goes on to end the context, and nobody returns before it is
  done; hence `StopNeverStuck`, the safety half of `StopsOnSignal` and `FailureEnds`.

Only model-checked: every liveness property (`RequestsEnd`, `TicksTaken`, `Answered`,
`StopHeard`, `ReportsArrive`, `StopsOnSignal`, `FailureEnds`, `ComesUp`), which are out of the
prover's reach. Every safety property and refinement that a passing run checks is proved.

## Not modelled

* Rendering and the browser, tracing, logging, metrics, the health endpoint and static
  files: no state of the service, or calls passed through unchanged.
* The configuration parser: a pure function of the environment, called with string fields
  only, which cannot fail to parse, and with one prefix given twice (`main.go:33-34, 79`), so
  that its precedence rules and the aliasing in `copyConfig` have no effect here.
* The location file (its failure is `Locate`'s), connection strings and trace attributes:
  pure I/O.
* Headers and bodies of answers, and the lists of services, cities and versions in them:
  sets of column values without state. The services beside a page's rows are joined without
  the query's filter (`timescale.go:62`).
* Requests in flight when the process is killed: they are cut, and nothing waits for them.

## Plan

Done: `UICache` with `StaleView`, `CacheKey`, `SaveTx` with `AtomicSave`, `Listing`,
`HomingClient`, `Api` and `Lifecycle` with the migrations, in order of importance: what users
see, what is stored and read back, who reports, how requests are answered, how the process
starts and ends.
What would be worth adding:

1. `Reporting`: several `HomingClient` loops against a server that keeps `AtomicSave`'s
   promise; that clients whose stamps collide all get through.
2. Proofs: safety halves of the liveness properties that have none yet, as `WaitsEnd` and
   `StopGoesOn` are for theirs: what a prefetch leaves for the next tick, what a restart finds.
