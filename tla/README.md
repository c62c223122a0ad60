# El-Haress IoT: TLA+ models and proofs

El-Haress polls network sensor boxes (HW group STE2 gateways), stores their
readings in TimescaleDB, raises alerts, and shows everything live to the owners
of the sites. This directory holds a formal model of the parts of the system
whose correctness depends on interleavings, failures and time: what they keep,
what each step does, what must never happen. TLC checks the models on small
instances; TLAPS proves the most important properties for every value of the
constants.

Paths below are relative to `src/backend/src/` unless they say otherwise.

## 1. The system

Three kinds of processes share PostgreSQL/TimescaleDB and Redis (four Redis
databases: cache, rate limit, alert deduplication, token blacklist), all on one
host (`deploy/`):

* the **API**: FastAPI under two Gunicorn/Uvicorn workers, each an event loop in
  which requests interleave at every `await`, and the workers run in parallel;
* the **collector**: one process, one endless loop, restarted by systemd;
* the **browsers**: a React client with a REST client and one websocket.

| Component | State it keeps | Operations | Talks to |
|---|---|---|---|
| Alert engine (`alerting/alert_engine.py`) | Redis keys `alert:breach:*` and `alert:cooldown:*` with TTLs, rows of `alerts` | `evaluate` one reading against the active rules | called by the collector; notifier |
| Alert rules API (`alerting/alerting_service.py`) | `alert_rules`, `alerts.status` | create, update, delete a rule; acknowledge | engine, through the tables only |
| Collector (`collector/`) | `sensors`, `readings`, locals of the cycle | poll, provision, persist, publish, evaluate | STE2 client, Redis pub/sub, engine |
| Sensors API (`sensors/sensors_service.py`) | `gateways`, `sensors` | create a gateway, edit a sensor; read queries | collector, through the tables only |
| STE2 client and parser (`sensors/ste2_*.py`) | none | fetch `values.xml` and the page of identities, make samples of them | collector |
| Readings (`alembic/`, `sensors/sensors_service.py`) | hypertable `readings`, its retention, two continuous aggregates with their refresh policies | collect, refresh, drop chunks; queries of the API | collector, dashboard |
| Rate limiter (`core/rate_limit.py`) | one Redis sorted set per client | `sliding_window_allow` | `/auth/login` |
| Authentication (`auth/auth_service.py`) | `accounts.failed_login_attempts`, `locked_until` | `authenticate` | login route |
| Tokens and sessions (`auth/auth_routes.py`, `dependencies.py`, `revocation.py`, `security.py`) | Redis `jwt:blacklist:<jti>`; the tokens themselves, held by clients | login, refresh, logout, `get_current_account` | every route |
| Accounts and audit (`auth/accounts_*.py`, `scripts/create_superadmin.py`) | `accounts`, `audit_log` | create, PATCH (update, then set status), create an administrator | sessions, lockout, live feed |
| Live feed (`core/live.py`, `api/ws_routes.py`, frontend `use-live.ts`, `dashboard.tsx`) | subscriptions; the dashboard's merged map | publish, forward, reconnect, merge | collector, browsers |
| Frontend session client (`lib/api.ts`, `stores/auth.ts`) | token in `localStorage` and in the store of each tab, refresh in flight, waiting requests | login, retry after 401, logout | sessions |
| Notifications (`notifications/`) | none | dispatch on each channel, failures contained | Twilio, SMTP |

What is hard in it, and what makes each part correct:

* **Two stores, no common transaction.** An alert is a row, its cooldown a Redis
  key; a reading is a row, its broadcast a message. A failure between the two
  leaves one without the other. Correct: the owner is never told twice within the
  cooldown, a cooldown never silences a rule without an alert, nothing
  uncommitted is broadcast or evaluated, a committed reading is lost to
  evaluation only when the process was interrupted.
* **Copies.** The engine evaluates a copy of the rules, the collector and
  `authenticate` write back rows they loaded earlier. Correct: a user's choice is
  not undone, a lock is not removed by a request that knows nothing of it, a
  sustained breach really was sustained.
* **Check, then act, at different awaits.** Blacklist lookup and revocation,
  failure counter, uniqueness of `device_index` and of phone numbers.
* **Time.** Keys and tokens expire, at dates rounded to seconds and computed
  before they are sent; the rate limiter's stamps are taken before they are
  executed.
* **One loop for everybody.** One gateway's failure must not starve the others; the
  code catches the failures of a fetch and the `SQLAlchemyError`s of a transaction,
  and nothing else.
* **Messages nobody keeps.** The feed is publish/subscribe over sockets that are
  cut, closed and reopened; a summary polled beside it is answered late. Correct:
  as long as the page stays mounted, it is behind only by readings no socket could
  bring and never goes back behind the feed; every socket that is left gives its
  resources back.
* **Many tabs, one cookie.** Each tab refreshes its token alone and gathers the
  requests that met a 401; logout, expiry and another tab's login come in between.
  Correct: every request is settled; a tab whose logout the server carried out stays
  out until somebody logs in or a refresh that was already under way is answered; and
  accounts do not mix.

`PROJECT.json` lists each hazard at its line, with the properties that cover it or
the reason why none does yet.

## 2. The modules

| Module | Models | Checked by | Proved in |
|---|---|---|---|
| `AlertEngine` | engine, rules and alerts API | `AlertEngine_faults`, `AlertEngine_stale_breach` | `AlertEngineProofs` |
| `AlertContract` | what the owner of a rule is promised (abstract) | `KeepsContract` in `AlertEngine_faults` | `AlertEngineProofs` |
| `STE2Parser` | `ste2_parser.py`, outcome of `ste2_client.py` (pure) | through `Collector` | `CollectorProofs` |
| `Collector` | collector, its main loop, the writing half of the sensors API; uses `STE2Parser` | `MCCollector` | `CollectorProofs` |
| `ReadingsStore` | hypertable, retention, continuous aggregate, the queries of the sensors API | `MCReadingsStore` | `ReadingsStoreProofs` |
| `RateLimit` | rate limiter | `RateLimit` | `LoginProofs` |
| `LoginLockout` | `authenticate`, `set_status` | `LoginLockout` | `LoginProofs` |
| `Sessions` | login, refresh, logout, `get_current_account`, blacklist, `set_status` | `MCSessions` | `SessionsProofs` |
| `Accounts` | creation, PATCH, audit log, `create_superadmin.py` | `MCAccounts` | `AccountsProofs` |
| `LiveFeed` | publisher, `/ws/live`, the hook, the dashboard's merge | `LiveFeed`, `LiveFeed_indicator` | `LiveFeedProofs` |
| `SessionClient` | `lib/api.ts`, `stores/auth.ts`, `use-auth.ts`, several tabs, over a cut-down `Sessions` | `MCSessionClient` | `SessionClientProofs` |

Conventions common to all of them:

* A step ends where the code awaits something that another process can change or
  that can fail. What runs between two such awaits is one action, so a value read
  before an await is a local (a field of the coroutine or of the request) after it.
  In the browser a callback runs to its end: it is one action.
* A failed await (Redis or PostgreSQL raises, the process dies) is an action
  enabled at that await: `Abort`, `InsertRefused`, `StartFails`, `PersistFails`,
  `ConnectionFails`, `HandOverRaises`, `Crash`, `Fail`, `LoginFails`,
  `RequestFails`, `Lose`. The transaction under way is lost, what was committed or
  set stays. A failure that something else catches is an action of its own.
* A Redis key with a TTL is the date it expires at; it exists while the clock is
  before that date. Redis and the processes read one clock, since they run on one
  host.
* A flush of SQLAlchemy writes the columns whose value differs from the copy as it
  was loaded (`Written`, `CommittedRow`, `Patched`), never the whole row.
* A name such as `InCooldown_Unchecked`, just before a definition, is that
  definition with one plausible mistake; `PROJECT.json` lists the property that
  detects each of them. They are not part of the specifications.
* Variables marked "history" in a module record what happened, for the properties;
  no guard reads them. Variables such as `edits`, `aborts`, `polls`, `losses` count
  what a `Max...` constant bounds.

### AlertEngine and AlertContract

`rules` and `alerts` are the tables, `breachKey` and `cooldown` the two keys per
(rule, sensor), `pc, event, todo, loaded, cur, nowTs` the coroutine `evaluate()`.
`Submit` is the collector handing over a reading; `Load` the SELECT of the active
rules (what is loaded stays, as `expire_on_commit=False` leaves it); then, rule
after rule in any order, `ClearBreach` (reading back to normal: DEL), `Ignore`
(cooldown running), or `Consider`; the duration gate is `ReadTime`, `GateMiss` and
`MarkBreach` (no key: SET), `GateWait`, `GatePass`; then `Insert` or
`InsertRefused` (the rule was deleted meanwhile: foreign key), `ArmCooldown`,
`ResetBreach`, `Notify`. The API's `CreateRule`, `UpdateRule`, `DeleteRule` and
`Acknowledge` run at any moment. A PATCH of a rule and an acknowledgement are their
COMMIT: nothing depends on their SELECT but whether the row is found (one deleted
meanwhile matches nothing) and which columns differ, and the new row ranges over
every rule of the same target, whatever mixture of columns overlapping PATCHes
leave. Failures leave `evaluate()` and the collector goes
on with its next cycle: the model allows the next reading at once.

An alert row also records, for the properties, the cooldown and duration it was
raised with, the first breach it was based on (`since`), the last normal reading
before it (`below`), until when its cooldown was armed and whether its notification
was sent. `streak` counts the evaluations that found one breach without interruption:
since when, until when, and under which duration. Readings further apart than the
duration start it anew, as does a duration edited while a key set for another one
lives: that key's TTL was computed from the old duration and may end before the new
wait does. Left out: the message's text,
severities, the choice of channels (`dispatch` catches every failure of a channel,
so it is one step that returns).

`AlertContract` knows nothing of keys and stores: an alert is raised, then told or
lost; being told of it is a promise of silence for that pair until its cooldown is
over; nothing is raised during a promised silence or while another alert is on its
way. The refinement mapping (`Contract` in `AlertEngine`) reads `raised` off `pc`
and the last row, `promises` off the rows that were told. `KeepsContract` is
`Contract!Spec`.

### STE2Parser and Collector

`STE2Parser` maps an entry of `values.xml` (the record of its fields) to a sample:
kind from the unit, `Valid` (sentinel, state, unit), the value of a detector, the
status field that prevails. An exchange is the outcome of the two GETs; `Fetched`
says which are a success. `ParseValues` goes through the entries in order and skips
those without an ID (`Named`). Numbers are tenths, the XML's spelling is left out.

In `Collector`, `pc, queue, gateway, batch` and `now, existing, nextIndex, written`
are `run_cycle()` and `_poll_gateway()` with its open transaction. `StartCycle`
selects the gateways, `FetchFails` / `Fetch` is the exchange, whose entries go
through the parser, `LoadSensors` the SELECT of the known sensors and of the highest
`device_index`, `Sample` treats one sample (provision, refresh the kind, make the
reading), `Commit` ends the transaction, `Publish` and `Evaluate` hand over one
reading each, `EndPoll` and `EndCycle` close the poll and the cycle.

Failures are told apart by who catches them. `FetchFails` is any exception of the
client, and `PersistFails` a `SQLAlchemyError` of the transaction: `_poll_gateway()`
logs them and the next gateway is polled. Nothing before the loop of `__main__.py`
catches the others, which end the cycle: `StartFails` (the SELECT of the gateways),
`ConnectionFails` (an `OSError` or `TimeoutError` of the connection to the database
during the transaction) and `HandOverRaises` (publisher or evaluator). `Crash` is the
death of the process at any point. A reading's primary key is (sensor, date), so a
repeated `gateway_ref` in one response makes the transaction fail (`Collision`). The
definitions that treat a detector whose unit has disappeared are `NextKind`,
`Detected` and `Present`. A COMMIT the database carries out and whose answer is lost
is not modelled.

On the API's side a PATCH of a sensor is its SELECT (`GetOwnedSensor`, after which it
is in `patching`) and its COMMIT (`UpdateSensor`); the collector's own SELECT and
COMMIT may fall between the two, and the other way round. Four histories serve the
properties: `alarms`, the state 2 of each active detector a poll met; `dropped`, the
dates of polls whose transaction did not commit; `interrupted`, those of polls cut
off in their hand-over; and `cycle.cut`, whether an exception or a death ended the
cycle.

`DetectorNeverMasked` needs to know what a detector is. `AlarmsAreDetectors` says it
of the exchanges: an ID whose entries can report state 2 is, in every entry, that of a
detector or of a sensor without unit. It is the assumption of the property's theorem,
and TLC evaluates it on the instance (`MCCollector`). Without it the property would
fail: a thermometer whose kind the user patched to a binary one is a measure again at
its next sample, and a state 2 it reports then leaves no 0/1 reading.

### ReadingsStore

`readings` is the hypertable, `aggregate` a materialised view by sensor and bucket,
`dirty` TimescaleDB's invalidations, `refreshAt` the next start of its job. `Collect`
commits readings at most `Lag` after they were taken, `Refresh` recomputes the dirty buckets
inside the window of the policy, `RefreshFails` skips one run, `DropChunk` is
retention (whole chunks), `Outage` and `Restart` the host. The queries of
`sensors_service.py` are pure operators of the state. `RawRows` and `AggregatedRows`
are their WHERE clauses (tenant, sensor if one is asked for, range);
`RawReadings` and `AggregatedReadings` the orders the rows may come in, since ORDER BY
(`Newest`) leaves rows of one date in any order; `Page` cuts LIMIT and OFFSET out of
one, the limit capped by `_MAX_LIMIT` (`Cap`). Two pages asked for with the same limit
need not end at the same date: `Tells` says of which buckets a page tells everything.
The dates of a question are multiples of the bucket (`Asked`); a range that begins
inside a bucket gives the raw answer readings whose row is outside the range.
`LatestReadings`, `IsOnline` and `SensorsActive` serve the dashboard; the last two
compare with a cutoff each request computes for itself when it begins, so their dates
are parameters. The two aggregates of
the migration are the same text with other intervals, hence one model with
parameters. TimescaleDB itself is external: what it does with the arguments the
migration gives it is taken from their meaning.

### RateLimit

`Stamp` is `time.time()` in a worker, `Execute` the MULTI/EXEC, atomic in Redis.
Between the two, other workers stamp and execute. `MaxDelay` bounds that time: it
is an assumption about the deployment, the code has no such bound, and the property
is stated as a function of it. Its names differ from those of `LoginLockout`, the
other half of what guards `/auth/login`, so that `LoginProofs` extends both.

### LoginLockout

One account row, several requests. `Load` is the SELECT: the request goes on with a
copy of the row, status included. `Refused` is a lock or a suspension found in that
copy, with the clock of a later moment (`Admitted`); `WrongPassword` and
`RightPassword` are the same check passed, the bcrypt check and the values the
request will write; `CommitFailure` and `CommitLogin` the COMMITs; `Fail` a request
that dies; `SetStatus` the administrator. Phone normalisation selects the row and is
left out.

### Sessions

A token is a pair (type, i) of the i-th pair issued; `pairs` has the expiry dates.
A request may present any token ever issued. `Refresh` and `Call` start a request
with a token that decodes; `Refused`/`Unrevoked` is the EXISTS, `Suspended`/`Served`
the SELECT of the account; `ToRevoke` computes the TTL, `RevokeForRefresh`,
`RevokeAccess`, `RevokeAccessOnly` and `RevokeCookie` are the SETs of `/auth/refresh`
and `/auth/logout`, `Issue` the answer with a new pair. Any authenticated call may
turn out to be a logout. Time has several ticks (`Second`) to a second, since
`exp` is cut to the second and the TTL is `exp - int(now)`. Signatures and hashes
are taken as sound.

### Accounts

A request is one call: `CallCreate`, `CallPatch` or a run of the script. Creation is
`LookUp` (SELECT of the number), `Insert` (which waits for another open transaction
that inserted the number, then meets the unique constraint), `CommitInsert`. PATCH
is two transactions: `Load`, `NothingToUpdate` or `CommitUpdate`, `RefreshCopy`, then
`CommitStatus`. `copy` is the object of the request's own session: an account it
already holds is not read again, and an administrator who PATCHes itself holds its
row since authentication. `Fail` is any database call that raises (500). The row of
`audit_log` is part of the commit it belongs to.

### LiveFeed

`latest` and `outbox` are the database and what the collector has not published
(`Lose`: nor ever will, after a death or a raising hand-over); `sockets` has both ends
of each socket with the frames in between. On the server `CheckToken`,
`CheckAccount`, `Subscribe`, the relay and `NoticeGone` are the awaits of `ws_live`,
which checks the token and the account once. In the browser `Open`, `Receive` and
`Closed` are the callbacks, `Retry` the timer, `Left` the cleanup of the effect when
the token changes. `Apply` is the answer of a poll of the summary: what the table held
at some moment, however late (`Summaries`), merged as the page does (`Merged`).

`Unmount` and `Mount` leave the dashboard for another page and come back: the cleanup
runs, the page forgets what it showed (`PageLeft`), and starts again from the summary
in the query cache, which may be an older one. `Hide` hides the tab or shows it again.
A hidden tab keeps its socket and its retries, but its queries do not poll, and without
a poll it meets no 401. `Rotate` and `RotateElsewhere` are a 401 and its refresh,
`SignOut` everything that clears the store: the user's logout, a refresh refused to a
suspended account, and one that fails for an active account. `missed` records the
readings that no socket of this mount of the page could bring.

### SessionClient

Each tab has `token`, `refreshing` (`isRefreshing`), `waiters`, its `exchange` (POST
/auth/refresh) and `login`; the tabs share the cookie and localStorage. `Login` is the
server issuing a pair, `LoggedIn` the answer that reaches the tab, signed in already or
not, `LoginFails` one that does not. `GiveUp`, `Wait` and `Lead` are the three ways the
interceptor treats a 401, `Refreshed` and `RefreshFailed` the two ends of the refresh.
`RequestFails` is a network error or a 5xx, before or after the server has done its
work. A logout clears the tab (`Leave`) however it ends: answered (`LoggedOut`: the
cookie is deleted), or failed or refused (`Rejected`, `RefreshFailed`: the cookie stays
in the jar, live unless the server had revoked it). The server is `Sessions` cut to
what a client can tell apart: look-up, then revocation and issue.

`left` marks, for `StaysOut`, the tabs whose last logout was carried out and answered,
and `late` the refreshes that were under way when each of them left: one that is
answered after all ends `left`, since it does sign the tab in.

`foreign` marks, for `OneAccountShown`, the tabs in which two accounts may meet: those
other than the one that logs in, and one that logs in (or is loaded) while a refresh of
another account is unanswered (`Overtaking`). The second case was found by the proof:
with three pairs of tokens TLC did not reach it, and the account of a late answer could
not be shown to be the tab's: finding 3.

Left out: a page reloaded while its requests are under way, and a request reported as
failed that the server serves later. A logout of which the server carries out only
the half is the failure of the request with the expiry of its access token.
`MCSessionClient` gives TLC a `View` that leaves out what nothing reads any more: the
server's memory of pairs nobody holds, and the cache of a tab that is `foreign`.

## 3. The runs

| Run | Result | What it shows |
|---|---|---|
| `alert_faults` | pass | Whatever await fails and whatever is edited, the owner is not told of two alerts closer than the cooldown (`NotificationSpacing`), a cooldown always has its alert (`CooldownHasAlert`), and the engine implements `AlertContract` (`KeepsContract`). Undisturbed, an alert with a duration follows a breach that lasted that long without a normal reading (`SustainedUndisturbed`), and a breach evaluated often enough is not pending longer than its duration (`NoSilentBreach`). |
| `alert_stale_breach` | violation of `Sustained` | see Findings |
| `collector_faults` | pass | Two gateways of one account under failed fetches, rollbacks, repeated samples, one exception nothing catches, one death, one PATCH: numbers unique (`IndexUnique`), `last_seen_at` exact (`SeenIsLastReading`), hand-over ordered and at most once (`HandedOverOnce`), evaluation lost only by an interruption of its own poll's hand-over (`EvaluatedUnlessInterrupted`), user choice kept (`ChoiceKept`), an alarm of a detector stored unless its whole poll is lost (`DetectorNeverMasked`), the sentinel never stored (`SentinelNeverStored`), and what the code catches (a failed fetch, a `SQLAlchemyError`) starves no gateway (`FailuresContained`). |
| `readings_store` | pass | The aggregate tells what was measured for good, even after retention removed the readings (`HistoryMatches`); a bucket is left out only after an outage longer than the window (`MaterialisedInTime`); the pages of the two shapes of GET /readings agree on all that both tell, whatever the filter, range, limit and offset (`AnswersAgree`); the two computations of "online", made at two moments, differ by the sensors whose freshness ran out in between (`OnlineAgrees`). |
| `rate_limit` | pass | At most `Limit` calls are let through in any `Window - MaxDelay` seconds. |
| `lockout` | pass | `SerialCount` and `LockOutlivesLogins` under two concurrent requests. |
| `sessions` | pass | `RetiredIsDead`: a token whose rotation or logout was answered is expired or blacklisted for ever. `ReplayRefused`: a request that begins later with it never passes the check, unless the token expires while it waits. |
| `accounts` | pass | Numbers stay unique; what a caller is told is what was done and traced (`AnswerMatchesTrail`); the log replays to the table (`TrailReplays`, with the two cases in which it does not); a column changes only with the row that names it (`ChangesAreTrailed`, an action property). |
| `live_feed` | pass | As long as the page is mounted, it is behind only by readings no socket could bring it (`BehindByLossOnly`), and the feed never goes back (`NeverBackwards`). Liveness: the dashboard of an active account always gets a socket again, unless its tab is hidden with an expired token (`Reopens`); a socket that is left is released (`Released`); a token or an account that is refused loses its feed if the dashboard stays on show (`RefusalReachesSocket`). |
| `live_indicator` | violation of `OpenIsShown` | see Findings |
| `session_client` | pass | `isRefreshing`, the leader and the waiters agree (`RefreshHasLeader`); the cookie is one the server accepts (`CookieIsLive`); a tab whose logout was carried out is signed in again only by a login or by a refresh that was under way when it left (`StaysOut`); a tab mixes accounts only if another tab changed the browser's account, or a refresh of the former account was unanswered when it logged in (`OneAccountShown`). |
| `session_client_progress` | pass | Under failed exchanges, logouts among them: `StaysOut` again, and liveness: every request is answered or rejected, those that waited for a refresh that failed included (`EveryRequestSettles`). |

Every property of a passing run has a mutated definition that violates it under the
same configuration. The type invariants of `AlertEngine`, `RateLimit`,
`LoginLockout`, `Accounts`, `SessionClient` and `LiveFeed` are proved and not
repeated in the runs.

### Bounds, and why they are enough

* `alert_faults`: one rule on one sensor (keys are per pair, and rules of one
  reading do not interact), two values around the threshold, durations 0, 1 and 2
  with a cooldown of 2 ticks (an edit can lengthen or shorten the wait), a clock to 5:
  an alert, its cooldown and a second alert after it fit; one edit and one failure at any await. Every property of
  the run is proved for any bounds.
* `collector_faults`: two gateways and two references per account, two polls
  answered, with entries of an active detector, one with its sentinel, one without
  its unit, a thermometer with and without probe, an entry without ID and a repeated
  alarm; one uncaught exception, one death, one PATCH. A rollback then a poll of the
  other gateway is the shortest way to reuse a number, and a PATCH fits on either side
  of each SELECT and COMMIT. Every property of the run is proved for any documents and
  bounds, and for any number of overlapping PATCHes. 1.9 million states, under 2
  minutes.
* `readings_store`: buckets of 2, a window of 4, chunks of 4, retention 5, a clock
  to 9: a bucket is refreshed, leaves the window, and its chunk is dropped, and an
  outage longer than the window fits. Pages of one or two rows of the two readings cut
  both answers; questions are bounded at the start, in the middle, or not at all.
  Proved for every value.
* `rate_limit`: limit 2, window 3, delay 1, six calls: three times the limit, and
  a clock that outlives the window twice. Proved for every value.
* `lockout`: two requests, a lock after two failures, a clock of three lock
  periods, one change of status: a lock can be set, run out and be set again between
  the SELECT and the COMMIT of the other request. Proved for every value.
* `sessions`: two requests, two pairs, two ticks to a second, lives of one second
  starting in the middle of one: both roundings occur. A pair issued, rotated and
  presented again fits in the three ticks. Proved for every value.
* `accounts`: three calls of any kind on two accounts, bodies that change one
  column, the status both ways, and both halves, one failure at any call: two
  PATCHes of one account with a third in between, and two creations of one number
  with the script. Proved for any number of calls.
* `live_feed`: one sensor (sensors do not interact), two sockets that overlap at a
  rotation, two readings, one cut: the shortest way to a reading lost between two
  that arrive. The page may be left and mounted again, and the tab hidden and shown,
  any number of times. Its safety properties are proved for any number; liveness holds
  of the instance.
* `session_client`: two tabs, two accounts, two requests, three pairs: login,
  rotation, and a login of the other account; without failures, symmetric, and under
  the `View`, 1.9 million states. Its properties are proved for any number, failures
  included. `session_client_progress`: one tab, two requests (a leader and a waiter,
  or a logout and a query), three pairs and two failures: a logout that fails and the
  refresh that signs the tab in again.

Deadlock checking is off where the system really may stop: `RateLimit.cfg` and
`ReadingsStore.cfg` (the clock is at its bound), `LoginLockout.cfg` (nothing logs in
to a suspended account), `Sessions.cfg` (the clock has outlived every token),
`Accounts.cfg` (a request name is used for one call, and every call ends),
`LiveFeed*.cfg` (a signed-out tab has nothing to do), the `SessionClient` ones (once
every pair is issued, a signed-out browser stays so). Symmetry is used for requests,
tabs and accounts only, in runs that check invariants or an action property.

### Fairness

* `LiveFeed`: weak fairness of each socket's handler and browser callbacks, the retry
  timer among them (the event loops run, in a hidden tab too), and of the two things a
  poll of the dashboard does when it meets a 401: the rotation, and the sign-out of a
  suspended account. Both are enabled only while the tab is visible, for TanStack Query
  pauses the polls of a hidden one: no query sets `refetchIntervalInBackground`
  (`hooks/queries.ts:63-69`). None for readings, their publication, cuts, expiry and
  suspension, for the user (who may never come back to the tab or to the page), or for
  the pages other than the dashboard.
* `SessionClient`: weak fairness of the server's answers and of the callbacks that
  handle them. A request or a refresh that gets no answer ends in `RequestFails` or
  `Lose` (the network rejects the promise; axios has no timeout of its own). None for the user, for expiry, or for losses.
* The other modules assume none: their properties are safety properties. What must
  eventually happen is stated as a bound where the code gives one
  (`NoSilentBreach`, `EvaluatedUnlessInterrupted`, `MaterialisedInTime`,
  `FailuresContained` at the end of a cycle).

## 4. What is proved

For every value of the constants under each module's `ConstantsAssumption`
(`AccountsAssumption` in `Accounts`, `LimiterAssumption` in `RateLimit`,
`ReadingsAssumption` in `ReadingsStore`): types of the parameters; in `Accounts`
that the database satisfies its own constraints at the start; in `ReadingsStore` the
order of the migration's intervals (the window holds a bucket and is no longer than
the retention, a commit takes less than `end_offset`, and the freshness window is
shorter than the retention). Every invariant and action property of every passing run
is a theorem; liveness is not (see the end of this section).

* **AlertEngine** (`AlertEngineProofs`). `TypeCorrect`, then `SpacingCorrect`:
  `SpacingInv` is inductive. `NotificationSpacing` alone is not: that a new alert is
  far enough from an older one follows from the cooldown key, so the invariant also
  says that the key covers every alert it was armed for (`ArmedCovered`), that no
  cooldown runs while an evaluation is between EXISTS and SET (`ConsideredFree`,
  true because there is a single evaluation and time only makes a key expire), that
  the alert being armed or told is the last one (`CurrentAlert`), that only armed
  alerts are told (`ToldArmed`), and that alerts are spaced after an armed one
  (`ArmedSpaced`). `NotificationSpacingCorrect` and `CooldownHasAlertCorrect` follow,
  and `ContractKept`, the refinement: with that invariant every step of the engine
  is a step of `AlertContract` or a stutter (the insertion is `Raise`, the dispatch
  `Tell`, an abort or a crash in between `Lose`).
  `SustainedCorrect` rests on `SustainInv`, which only speaks of undisturbed
  behaviours: a breach key belongs to a rule that is evaluated, and is no older than
  the pair's last normal reading, unless that reading is about to delete it
  (`KeysEvaluated`); the copies of the rules still to be evaluated are the rules
  (`TodoCurrent`); what is past the comparison does breach (`CurBreaches`); and what
  the gate read before INSERT is still so (`BelowPast`). `NoSilentBreachCorrect` rests on `StreakInv`: a streak
  is covered by one key, set when it began and living at least three times as long as
  the duration the streak is counted under; when a reading would make the wait too
  long, that key is therefore still there and old enough, and the gate passes.
* **Collector** (`CollectorProofs`). `TypeCorrect` and `IndexUniqueCorrect` are one
  induction, because the highest number of an account exists only while the numbers
  are bounded: the next number of an open transaction is above the numbers of the
  account in the table and above those the transaction has dealt (`Numbering`).
  `SeenCorrect` (`SeenInv`) says that the date of an open poll is later than every
  reading of the table (`ReadBefore`), and that in the open transaction exactly the
  copies of sensors with a new row carry that date (`RowsOfPoll`). From it come
  `HandedOverCorrect` and `EvaluatedCorrect` (`HandedInv`): the readings still to be
  published and evaluated are stored (`Lists`) and come after those that were, in the
  order of the polls (`Ordered`), and every stored reading is in one of the two lists
  of the evaluations (`Evaluated`). `ChoiceCorrect`,
  `FailuresContainedCorrect` and `SentinelCorrect` have an invariant each over the
  copies, the queue and the batch (`CycleInv`: unless the cycle was cut, what was due
  is done or still in the queue). `DetectorCorrect` (`DetectorInv`) shows, from
  `AlarmsAreDetectors`, that an unknown kind never replaces a binary one, neither in
  the copy nor at the COMMIT; that an alarm is a row of its own transaction until this
  commits or is dropped (`AlarmReadings`); and that a dropped poll is over and left
  nothing (`DroppedPolls`). A PATCH, whose copy may be out of date, has a lemma for each
  invariant it could disturb (`IndexPatch`, `SeenPatch`, `DetectorPatch`), over `Owned`:
  the row of a PATCH under way exists. The steps that leave an invariant's variables
  alone are one lemma for each invariant (`IndexAside`, `SeenBeside`, `HandedAside`,
  `DetectorAside`).
* **RateLimit** (`LoginProofs`). `LimiterTypeCorrect` and `RateBoundedCorrect`. The
  inductive part: an executed call was stamped at most `MaxDelay` before it was
  executed and stays in the set as long as a later call may have to count it, and
  every window of `Window - MaxDelay` seconds that ends before now is bounded. The
  counting uses the finiteness and subset facts of `FiniteSetTheorems`.
* **LoginLockout** (`LoginProofs`). `TypeCorrect`, `SerialCountCorrect` and
  `LockOutlivesLoginsCorrect`. The strengthening says that, while no two requests
  have overlapped, the running request has loaded the present row; what each request
  is going to write, given what it loaded; and that a lock a request has not
  read was set after its SELECT, while the lock it has read no longer runs once it is
  past the checks (`LockAfterLoad`).
* **Sessions** (`SessionsProofs`). `TypeCorrect` (which includes that a request past
  a check has what the check guarantees), `RetiredIsDeadCorrect` and
  `ReplayRefusedCorrect`. `Secured` says that a token has expired or has a key that
  lasts to its expiry, `Ready` that a TTL computed earlier still reaches it: the two
  roundings (`exp` down, `int(now)` down) meet there. `OnTheWay` gives what a
  request between its checks and its answer has secured, `Harmless` what every other
  step leaves alone. `ReplayRefused` follows from `Replays`: a request that began
  with a token already given up is past the check only if that token has expired.
* **SessionClient** (`SessionClientProofs`). `TypeCorrect` needs `Granted` (a pair
  the server looked up was issued: the 0 of "no cookie" never passes a check).
  `RefreshHasLeaderCorrect` comes from `Coherent`, which names the one request that
  leads instead of counting, and adds that a request under way belongs to a tab.
  `StaysOutCorrect` rests on `LeftInv`: while a tab is out (`OutOf`), the jar is empty,
  and a refresh that may still be answered was under way when the tab left; one that
  started since carries no cookie, and the server refuses it.
  `OneAccountShownCorrect` adds that localStorage holds the pair of the jar
  (`StoredIsCookie`), that a rotated pair belongs to the account of the cookie it was
  asked with (`PairOfCookie`), and that in a tab not marked `foreign` everything that
  can still reach the cache is of one account (`OwnAccount`). `CookieIsLiveCorrect`
  adds that the pair of an answer not yet read, of a login or of a refresh, is known to
  nobody else (`FreshPairs`); the failures (`LiveLost`) and the issue of a pair
  (`LiveIssued`) are lemmas of their own.
* **Accounts** (`AccountsProofs`). `TypeCorrect` needs `Doing`, what the fields of a
  call hold at each point it can be at. Each step is then one of three shapes, each
  with its lemma: it changes a call only (`Becomes`), commits a creation
  (`Creates`), or commits a change of one row (`Patches`). From them:
  `UniqueNumberCorrect` by `Numbering` (no account has, and no other open insert
  has, a number that is about to be committed) and `ChangesAreTrailedCorrect`, an
  action property, by `Unborn` (a call has an account only once it has committed).
  `TrailReplaysCorrect` rests on `TrailInv`: one of the rows that name a column is the
  last (`Ends`), it gives the value the column has now (`Replayed`), and what a row
  names as old is the value the log before it gives (`TruthfulOld`). `AnswerMatchesTrailCorrect` rests on `AnswersInv`, which says for
  each call how many rows of each kind it has in the log, given the point it is at;
  the rows are counted as the cardinality of a set of indices, and one more row of a
  call is one more element.
* **LiveFeed** (`LiveFeedProofs`). `TypeCorrect` includes that a tab reads one socket
  at a time: of those it has opened, only the one its effect holds delivers frames.
  `NeverBackwardsCorrect`, an action property, rests on `InOrder`: for each sensor,
  what the page shows of the feed, the frames of the socket it reads and the outbox
  follow one another; the frames of sockets that were left may be older, and nothing
  reads them; a page that is not mounted reads none and shows nothing (`Blank`). A step
  either moves one reading along that way (`CommitStep`,
  `PublishStep`, `ReceiveStep`), loses all that is to be published (`LoseStep`), leaves
  the page (`LeaveStep`), or is `Quiet`: no queue that is read grows, and the
  page keeps what it showed of the feed. `BehindByLossOnlyCorrect` needs that order as
  well (an older frame would put the page back), and `SupplyInv`: the last reading of a
  sensor is in the outbox, in a frame of the socket that is read, among the missed, or
  already shown by the feed (`Supplied`), and a socket whose handler does not relay yet
  carries nothing, so that nothing is lost when the handler refuses it
  (`SilentUntilRelay`).

* **ReadingsStore** (`ReadingsStoreProofs`). `TypeCorrect`, then one theorem for each
  property of the run.
  - `Kept`, which the others need, says that a committed reading as young as the
    retention is in the hypertable, its boundary included.
  - `OnlineAgreesCorrect`: `last_seen_at` is the date of the sensor's last committed
    reading, or there is neither (`SeenIsLatest`); with `Kept`, a sensor that is
    online has that reading in the hypertable. Of two cutoffs the later is the stricter,
    so the sensors counted later are among those listed.
  - `MaterialisedInTimeCorrect` is about dates only. A refresh leaves no bucket of its
    window dirty (`Settled`, as of the last refresh); while the gaps between refreshes
    are short enough (`Patience`), a reading whose bucket was already behind the window
    at the last refresh is in the view (`CaughtUp`). A bucket that leaves the window
    now was inside the previous window, and no commit later than that refresh reaches
    it, since `Lag` is no more than `end_offset`.
  - `HistoryMatchesCorrect`: `Exact` says that the row of a bucket that is not dirty is
    what a refresh of all readings ever committed would make of it. A refresh computes
    from the hypertable, which still has the whole bucket, because its window is no
    longer than the retention (`Kept`); what retention removes later no refresh
    touches. `AggregateFacts` then gives the row's count, sum and bounds.
  - `AnswersAgreeCorrect` uses `Exact` for both directions (`RawHasRow`, `RowHasRaw`):
    what is in one answer has its counterpart in the other. That the counterpart is on
    the page is `PageTells`: of a list ordered by bucket, a page whose first row is
    newer than a bucket and whose last row is older holds all of the list that belongs
    to it. A raw
    answer, ordered by date, is ordered by bucket too (`RawListed`), and an answer of
    either kind exists (`Answered`).

  Three facts about finite sets that want induction are shown by refuting a smallest
  counterexample (`SmallestSet`): a set of numbers has extremes (`Extremes`), it can
  be listed by date (`SortingExists`), and the recursive function behind a sum exists
  and gives a number (`SumExists`, `SumIsInt`).

Model-checked only: liveness (`Reopens`, `Released`, `RefusalReachesSocket`,
`EveryRequestSettles`), which rests on fairness and ENABLED and is out of the prover's
reach. The library's induction theorems are too, since they take an operator as a
parameter. Where a proof needs induction over data it uses the least number or the
smallest set that would be a counterexample (`LeastNat`, `SmallestSet`): so for what
`ParseValues` computes over entries of any number, and for the sums and sorted answers
of `ReadingsStore`. The replayed log of `TrailReplays` is no recursion, since the last
row that names a column decides.

## 5. Findings

Where the code does something else than a text of the repository says. Two have a
run that exhibits them; the others were met while modelling, and the models contain
the step that causes them.

1. **A stale breach** (`alert_stale_breach`): a rule deactivated during a breach
   keeps its breach key for 300 s or more, since normal readings clear keys of
   evaluated rules only. Activated again, it raises its alert on the first new
   breach, against `docs/alerting-rules.md:40-41`.
2. **"Offline" while the feed is open** (`live_indicator`): after a rotation of the
   token, `onclose` of the old socket may run after `onopen` of the new one and
   clears the shared flag; `dashboard.tsx:143-144` then says the opposite of what is.
3. **The former account comes back**: a refresh under way is
   neither cancelled nor ignored when its account logs out and another logs in; its
   answer (`api.ts:61-63`) stores the former account's token, its Set-Cookie replaces
   the cookie, and the cache then holds data of both, against the comment at
   `use-auth.ts:20-21`. It takes a refresh that was looked up before the logout revoked
   its cookie, for example one that a late 401 of an earlier token started.
   `OneAccountShown`, proved, says that nothing else mixes accounts within one tab.
4. **A failure between alert and cooldown**: the alert is committed before the key
   is set (`alert_engine.py:140-143`); if Redis or the process fails in between, the
   next reading records a second alert within the cooldown, against
   `docs/alerting-rules.md:42-43`. The owner is told once: `NotificationSpacing`
   holds, and is proved.
5. **Three failures end the cycle**: the docstring at `collector_service.py:5-6` says
   that a network or database failure of one gateway does not interrupt the cycle.
   Around the transaction only `SQLAlchemyError` is caught (line 162): an `OSError` or
   a `TimeoutError` of the connection leaves `_poll_gateway()`; so do exceptions of
   the publisher and the evaluator, and the SELECT that starts the cycle can fail as
   well. The gateways that follow wait for the next cycle. `FailuresContained` says
   what remains true.
6. **Concurrent failures are counted once**: the counter is read, incremented and
   written back without a row lock, against `docs/security.md:57`. `SerialCount`
   says when it is exact.
7. **A refresh token rotated twice**: two refreshes with the same cookie both pass
   EXISTS before either SET, against `docs/security.md:18`. `ReplayRefused` bounds
   it to refreshes that overlap.
8. **An administrator without a trace**: `create_superadmin.py:41-50` creates an
   account itself and writes no row of the log, against `accounts_service.py:3-4`.
9. **Identities that are not XML**: `ste2_client.py:3-4` says the page of identities
   is best-effort, but only an HTTP error is forgiven; a parse error drops the values
   already read.
10. **A setting nobody reads**: `README.md:224` offers `READINGS_RETENTION_DAYS`; the
   retention is written in the migration.

11. **Detectors are not in the specification of the sensors**:
   `docs/sensor-system-ste2.md:123-125` and `314` ask for no reading when the value is
   -999.9 or the unit is empty; a sensor stored as a detector gets its 0 or 1 all the
   same, as the comment at `collector_service.py:122` wants (`DetectorNeverMasked`).
12. **Sensors are known by their ID**: `docs/sensor-system-ste2.md:118-119` and `313`
   ask for the SenId, which survives a re-binding; the code looks sensors up by
   `gateway_ref` (`collector_service.py:93`) and only stores the other.
13. **A logout that fails**: `use-auth.ts:46` clears the tab whatever became of the
   request. After a network error nothing is revoked, the cookie stays, and a late
   401 of the tab signs it in again, against `docs/security.md:19`. `StaysOut` speaks
   of logouts that were carried out.
14. **A hidden dashboard receives for ever**: `ws_live` checks token and account when
   the socket opens only (`ws_routes.py:41-52`), against `docs/security.md:21-22`. What
   ends the feed of a suspended account is the dashboard's polling, which a hidden tab
   does not do (`hooks/queries.ts:63-69`, `lib/query.ts:8`). `RefusalReachesSocket`
   says what holds of a dashboard that stays on show.

## 6. What is not modelled

* Tenancy: a WHERE clause on every query (`ReadingsStore` has it in its queries); a
  property of it would restate the clause.
* Providers of notifications (Twilio, SMTP) and how long they take: `dispatch`
  catches their failures, and `Collector` has no durations. That a slow provider
  delays every gateway is a hazard listed without property.
* The other routes that only read (lists of rules, alerts, accounts, health): they
  change nothing.
* Configuration, logging, middleware, application wiring: no state of their own.
* nginx, systemd, scripts: only `Restart=always` of the collector, in `Collector`.
* Indexes, compression and `downgrade()` of the migration.
* Redis persistence: a key is lost only by its TTL. After a Redis restart from a
  snapshot recent keys may be missing; that is a hazard listed without property.
* Pages and widgets of the frontend: presentation over cached queries, but for the
  dashboard's merge.
  What the dashboard keeps in the query cache while another page is shown is any
  earlier summary (`Mount`).
* A request the client has given up and the server serves later, a page reloaded while
  requests are under way, and a COMMIT that succeeds and whose answer is lost.
* Cryptography and password hashing: taken as sound.

## 7. Plan

The modules planned are written, and every invariant and action property the runs
check is proved. Left:

1. What `NoSilentBreach` leaves open: a breach whose rule gets another duration while
   its key lives. `streak` starts anew there; a bound would be the sum of the waits.
2. The three hazards without property: a detector discovered while in alarm and
   without its unit, a Redis restart from a snapshot, and providers that hold the
   polling loop.

## 8. Running

    tlc -config AlertEngine_faults.cfg AlertEngine
    tlc -config Accounts.cfg MCAccounts
    tlc -config ReadingsStore.cfg MCReadingsStore
    tlc -config SessionClient.cfg MCSessionClient
    tlapm AlertEngineProofs.tla

`PROJECT.json` names the module and the configuration of every run, the lines each
definition stands for, the mutated definitions and the theorems.
