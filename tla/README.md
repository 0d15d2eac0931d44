# A verification project for the DCF valuation API

This directory holds TLA+ modules that model the parts of `src/` whose
correctness depends on order: a valuation API that runs as short-lived
serverless instances over one Postgres database (Supabase, reached as REST
calls), one Redis, and a data provider that may be asked about a ticker once a
day. TLC checks the modules on small instances; TLAPS proves the theorems
listed below for every value of the constants.

Run from this directory: `tlc -config MCDailyRefresh.cfg MCDailyRefresh.tla`
checks a run, `tlapm DailyRefreshProofs.tla` checks the proofs of a module.
`PROJECT.json` maps every definition to the source lines it stands for, and
lists runs, mutants, hazards, findings and theorems.

## 1. Inventory

### 1.1 The system

A caller asks `GET /v1/valuations/{ticker}`. The middleware (`app/api.py`)
authenticates its API key, charges its daily quota in the database, and lets
the route run. The route asks the statement service (`app/fundamentals.py`) for
the ticker's financial statements and, at the same time, the price client for a
quote, and computes a valuation from them. The
statement service answers from the instance's own memory (L1), from Redis (L2),
from the durable store, or - only for a ticker the store does not have - from
the provider. Once a day, at 6 PM in New York, a cron call runs the daily
refresh (`app/refresh.py`), the only writer of tickers the store already has.
Customers sign in with a browser and manage their own API keys
(`app/accounts.py`).

Nothing here shares memory across instances, no two database calls share a
transaction unless a SQL function makes them one, and an instance may be killed
between any two awaits. Those three facts are where everything hard is.

### 1.2 Components

**Statement service** (`app/fundamentals.py`, class `FundamentalsService`).
*State*: per instance `_cache` (L1), `_negative` (remembered definitive
rejections), `_inflight` (single flight); in Redis `fund:`, `neg:` and
`lock:fund:` per ticker; in the store the ticker's head.
*Operations*: `get_base_financials` -> `_load_base_financials` (L1, Redis,
negative entries, distributed lock or a poll for its holder, the store, the
provider, durable write, publication, release); `refresh_from_provider` for the
daily run; `invalidate`, `aclose`.
*Hard*: every await is a point where another instance, the daily run, a lease,
a 6 PM boundary or a crash can come between; Redis errors are suppressed, store
errors are not; ages are computed at one await and compared after another.
*Correct when*: nothing is advertised that the database did not commit; an
unwarned answer is from after the last boundary; a stored ticker is never
refetched for a customer; nobody deletes another's lock; a rejection expires;
every load ends.

**Durable snapshot store** (`supabase/migrations/003`, `004`; `app/supabase.py`).
*State*: immutable versions and one head per ticker. *Operations*:
`store_ticker_snapshot`, the marks the ledger functions put on heads, reads.
*Hard*: two writers (customer bootstrap and daily run), idempotent versions,
replies lost after a commit.

**Daily refresh ledger** (`supabase/migrations/003`, `004`). *State*: one run
per Eastern date, one claim per date and ticker. *Operations*:
`begin_financial_refresh_run`, `complete_financial_refresh_claim`,
`finish_financial_refresh_run`, each one transaction.

**Daily refresh runner** (`app/refresh.py`). *State*: the invocation's place,
the tickers in its semaphore. *Operations*: `run_if_in_window`, `refresh_one`,
`_complete_claim`. *Hard*: the platform delivers a schedule twice, kills an
invocation at its duration limit; a call that timed out is executed later.
*Correct when*: a date costs a ticker one provider cycle; claims are evidence;
the run never reports more than its claims show; no head is left "running".

**Refresh window and cron schedule** (`app/refresh_window.py`, `vercel.json`,
the cron endpoint). *Hard*: two UTC schedules cover one Eastern hour across two
DST transitions. *Correct when*: every date is accepted once, at the instant
the service calls the boundary.

**Metered quota and request middleware** (`app/api.py` `_request_id`,
`app/supabase.py`, `supabase/migrations/001`, `005`). *State*: a counter per key
and day, a usage row per request. *Operations*: authenticate, consume and
record (one transaction), serve, finalize. *Hard*: overlapping requests at the
edge of the quota, replies lost after the commit, a killed instance, two
families of exceptions of which only one is caught. *Correct when*: admissions
never exceed the quota; counter and rows agree; nothing is served unbilled; the
ledger tells the outcome.

**API-key authentication** (`app/auth.py`, `SupabaseAPIKeyAuthenticator`).
*Correct when* a key that was revoked, or a secret that was replaced, before
the request arrived buys nothing.

**Accounts and self-service keys** (`app/accounts.py`, the account routes,
`supabase/migrations/001`, `002`). *State*: customers, keys, audit events.
*Operations*: sign-in with first-login provisioning, list, create, revoke,
rotate, rename. *Hard*: every operation is two to four separate database
requests. *Correct when*: the audit trail is true and a success is in it;
revoked keys stay as they are; only its owner changes a key; the key limit.

**Statement provider client** (`app/providers/fmp.py`). *State*: a semaphore
shared by all fetches of an instance; per request its attempt. *Operations*:
`fetch_fundamentals` (all endpoints at once, each with its own retries),
`fetch_profile`. *Hard*: the endpoints are read at different times while the
provider publishes to them one after another; the first failure ends the fetch
and leaves its other requests running; slots and delays are shared. *Correct
when*: a fetch loses nothing that could be selected when it began; what becomes
a definitive rejection is the provider's word; every fetch ends.

**Normalization** (`app/normalization.py`). Pure: which annual period is
selected, when its records agree, what is refused. *Correct when* an answer
without a warning is the newest period listed.

**Sign-in limiter** (`app/rate_limit.py`). *State*: a counter per identity and
UTC day in Redis, and one in every instance for when Redis does not answer.
*Hard*: an attempt may be counted in Redis, in the instance, or in both; the
day may change while it waits. *Correct when*: admissions stay within the limit
but for outages; nobody is refused below it.

**Readiness checker** (`app/readiness.py`). *State*: the cached report and a
lock. *Correct when* simultaneous pollers cause one probe per cache lifetime.

**Customer sessions** (`app/accounts.py`, the sign-in, account and sign-out
routes of `app/api.py`, the script of `docs/index.html`). *State*: four cookies
in the browser; at Supabase Auth pairs of tokens, of which the refresh token is
good for one refresh. *Operations*: begin a sign-in, callback, every account
route behind `get_current_customer` with its silent refresh, sign-out. *Hard*:
requests of one browser overlap, each refreshes with the token it was sent with,
and their answers arrive in any order or not at all; signing out in one tab ends
what another still carries. *Correct when*: what an ended session carries is not
served; nobody is signed out by a visit that went well; a session that was
refreshed reaches the browser.

**Raw payload store** (`app/raw_store.py`, `scripts/raw_captures.py`). *State*:
the capture files of a ticker and endpoint, counters and the time of the last
prune in each process. *Operations*: store a capture (a worker thread), prune
after it when an interval has passed, prune on demand from a script. *Hard*:
threads and processes list, unlink and store at once, so a prune works from a
listing that is already old. *Correct when*: only what the retention rules give
up is lost; a prune leaves the cap; counters and directory agree.

**Valuation route, price client, telemetry** (`get_valuation` of `app/api.py`,
`app/providers/finnhub.py`, `app/observability.py`). *State*: per request its
telemetry, in the context variable that the tasks it starts inherit; per
instance the metrics. *Operations*: gather statements and quote, reply, log.
*Hard*: requests share a load of the statements, which runs in the context of
the one that began it and outlives any of them; one lookup may fail while the
other runs; a client leaves. *Correct when*: each answer of a provider is in one
line, once; a missing price costs nobody a valuation.

Not modelled (section 6): **DCF engine** (`app/dcf_engine.py`, floating point
without state), **HTTP surface, schemas, settings** and **scripts** (routing,
layout, wiring).

### 1.3 How they interact

    cron --> Daily refresh runner --> ledger (claims, run)       one row set,
                   |                    |  marks heads            one database
                   v                    v
    caller --> middleware --> statement service <--> snapshot store
                 |   |             |
                 |   v             v
                 |  quota      Redis, provider client --> provider
                 v
               API keys <-- accounts <-- customer's browser

Runner and service share the heads: the runner's `begin` marks them running,
each promotion moves one, completion or `finish` marks the failures. Accounts
and middleware share the `api_keys` rows. Limiter and readiness fail by the same
outages of Redis and the database. Requests of an instance share the loads of
the statement service, and all fetches its provider client's slots. The provider
client hands every payload to the raw store and ignores what becomes of it. A
session lets an account call in and is not looked at again. Everything else
goes through awaited calls.

## 2. Modules

| module | models | composes |
|---|---|---|
| `RefreshWindow` | boundaries, DST, cron schedule, the guard | |
| `SnapshotStore` | heads, versions, clock, provider filings | |
| `RefreshLedger` | the three ledger functions | `SnapshotStore` |
| `RefreshCycle` | *abstract*: the daily cycle ADR-007 describes | |
| `DailyRefresh` | the runner, duplicates, late calls, kills, bootstrap writers | `RefreshLedger`; refines `RefreshCycle` |
| `StatementPromise` | *abstract*: what a request is promised (ADR-006) | |
| `Fundamentals` | loads, caches, lock, scheduled refresh of one ticker | `SnapshotStore`; refines `StatementPromise` |
| `Accounts` | account calls over customers, keys, audit trail | |
| `MeteredRequests` | authentication, quota, ledger, finalize | `Accounts` |
| `StatementSelection` | normalization's choice of a period, as operators | |
| `ProviderClient` | fetches, retries, the semaphore, a provider that publishes | `StatementSelection` |
| `Outages` | a clock and two dependencies that come and go | |
| `RawStore` | captures stored and pruned by threads and processes | |
| `Valuation` | the valuation route, its quote and its telemetry | |
| `Evidence` | what a valuation asks of providers and leaves behind | `ProviderClient`, `RawStore`, `Valuation` |
| `LoginLimiter` | the Redis limiter and its in-process fallback | `Outages` |
| `Readiness` | the shared report and its lock | `Outages` |
| `Sessions` | a browser's cookies against Supabase Auth | |
| `FrontDoor` | what stands between a browser and the metered API | `LoginLimiter`, `Readiness`, `Sessions`, `Accounts` |
| `DailyRefreshProofs`, `FundamentalsProofs`, `RefreshWindowProofs`, `AccountsProofs`, `MeteredRequestsProofs`, `RawStoreProofs`, `EvidenceProofs`, `FrontDoorProofs` | theorems | the module of the same name |
| `MC*` | symmetry and values for TLC | |

In every module code between two awaits is one action, because that is what the
event loop and PostgREST make atomic. "Faulty variant" definitions beside an
operator are never used by the specification; each is the operator with one
plausible bug, and shows that the property named for it in `PROJECT.json` can
fail.

**RefreshWindow.** `hour` is UTC; `EasternNow` applies the rules of
America/New_York; `LastRefreshBoundary`, `NextRefreshBoundary` and `InWindow`
are the functions of the same names in `refresh_window.py` and the guard of
`run_if_in_window`. `Cron` is a delivery at one of the two scheduled UTC hours.

**SnapshotStore.** Ticks are abstract; `Day` of them make a day and a boundary
is a multiple of `Day`. A document is its version: a number, as the fingerprint
is of its content. `StoreTickerSnapshot` inserts the version and moves the head;
`verified` is the database clock then.

**RefreshLedger, DailyRefresh.** An invocation is `idle`, has passed the guard
(`begin`) or is working (`work`), each ticker of it at a step of `refresh_one`.
Any call may fail without effect, take effect and lose its reply, and - for a
completion, whose error the code swallows - be executed later (`late`).
`BootstrapFetch`/`BootstrapStore` are the customers' writers, whose write can
fall anywhere. The number of faults and kills is bounded by `MaxFaults` and
`MaxCrashes`; the proofs hold for every bound.

**Fundamentals.** A load is an `<<instance, ticker>>` pair, since single flight
admits one; `pc` names the await it is at. `Start`, `ReadRedis`, `ReadNegative`,
`TryLock`, `Poll`/`PollTimeout`, `ReadStore`, `Hydrate`/`Share`, `Fetch`,
`Persist`, `Publish`/`Announce`, `Release` are the code between awaits of
`_load_base_financials` in its order. A copy goes into the instance at once and
into Redis in an action of its own (`Share`, `Announce`, `RefreshAnnounce`),
because that `SET` is awaited and reads the clock again. `Fetch` has four
outcomes: a filing, a rejection, a mapped provider error, and an exception that
neither handler names (a redirect or a body that cannot be decoded, `fmp.py:177`
and `210`-`213`, past `fundamentals.py:621` and `627`), which ends the load where it
stands. `stale` keeps the age *as it was computed*, because the code compares
that number after later awaits. `Refresh*` is the daily run for one ticker as
the service sees it. The constant `Hazards` selects which faults an instance of
the model includes.

**Accounts.** A call is one HTTP request. `place` is the await it is at; `List`,
`Insert`, `Patch`, `Lookup`, `Signup`, `Welcome`, `Audit` are each one database
request, so calls interleave between them as they do in the code. A secret is
the number of its drawing.

**MeteredRequests.** A request goes `auth`, perhaps `mark`, `quota`, `serve`,
perhaps `finalize`. `window` is the UTC date the application reads before it
calls the metering function (`supabase.py:834`); `Charge` is the transaction of
migration 005, which may run after midnight and counts into that window all the
same. A usage row has no window of its own, only its time of recording, so
`Rows(k, d)` groups rows by the window their request was charged in. A database
error that is a `SupabaseError` and one that is an `httpx` exception are told
apart because the code tells them apart. `barred` remembers whether the
presented key was already revoked or replaced on arrival.

**StatementSelection.** A record keeps the fields the selection reads; the eight
amounts taken from the selected records are one bit, `sound`. `Normalize` is
`normalize_fmp_fundamentals` in its order: sector, periods, amounts.

**ProviderClient.** A request is a `<<fetch, endpoint>>` pair: `queued` for the
semaphore, `sent`, `asleep` between attempts, or over. `Collect` is the code
from the return of the gather to the outcome, which has no await.
`Refusals` are the errors an answer can end a fetch with, among them `unmapped`,
the exceptions that leave the client as they are. `Publish`/`Restate` are the
provider; an endpoint is never more than one period
ahead of another, and the profile does not change. `owed` and `known` are
history: what could have been selected, and the newest date listed, when the
fetch began.

**RawStore.** A capture is the number of its place in the order they were taken,
which is the order of their file names. Each is stored by a worker: `Take` is the
request that hands it over, `Put` the atomic rename that makes it visible,
`CountWritten` the counter under the sink's lock, `MaybePrune` the decision to
prune under the same lock, taken again, `List` the listing with everything
derived from it, `Unlink` one file, oldest first, `CountPruned` the counters. `RunScript` is the operator's prune. A killed
process is a sink whose threads take no further step. `stored` is history.

**Valuation.** A request is `gathering`, `replied`, `logged`, or `left` because
its client disconnected. `awaits` is the load it joined or began; a load is named
by the request that began it, since it counts into that request's bag. The first
error of a fetch ends it but not its sibling calls, so `LoadCall` goes on after
`LoadEnds`: `strays` are those answers, `received` the others. `line` is what
the access line and the metrics took from the bag when the request ended.

**LoginLimiter, Readiness.** A call answers while its dependency is
`up` and raises otherwise. An attempt names its Redis key when it arrives
(`came`), and the fallback reads the clock again (`judged`). A Redis key outlives
its day by a minute, more than a call can take, so expiry is left out. The count of
an instance is lost when that instance restarts, at most `MaxRestarts` times
each. `probes` is history: when the last two probes began. A poller that is
cancelled while it probes is not modelled: it lets go of the lock and leaves no
report, as one that never came.

**Sessions.** A visit is one request of the browser. `Send` gives it the cookies
of the moment; the awaits of its route follow (`CheckAccess`, `Refresh`,
`Confirm`, `FindCustomer`, `Route`; `Exchange` and `Provision` for the callback;
`AuditLogout` and `Revoke` for sign-out); `Arrives` applies its `Set-Cookie`
headers (`Cookies`) to the cookies of that later moment. A pair of tokens is a
number; `grants`, `ended` and `coded` are Supabase Auth, which is external.

**FrontDoor, Evidence.** Their parts share no variables (limiter and readiness
share the outages), so an interleaving of two parts is one of each beside the
other and no property of a part can depend on it. `focus` picks the part whose
steps a behaviour shows, which keeps the state space the sum of the parts and
not their product.

## 3. Runs

Bounds are small and chosen so that the case each property is about occurs;
for each property a mutant of the code makes it fail under the same bounds.

| run | question | bounds, and why they are enough |
|---|---|---|
| `MCRefreshWindow` | do boundaries and schedule agree through both transitions? | 16 days, hour by hour, transitions on days 3 and 12 with full days around each; the arithmetic depends on nothing else |
| `MCDailyRefresh` | one cycle per date, honest ledger, implements `RefreshCycle` | 2 tickers, 2 invocations, 2 dates (a day is two ticks, so a run outlives its hour and meets the next day's), semaphore of 1, one failing or late call, one kill |
| `MCDailyLiveness` | is every run reconciled: all claims decided, the run closed? | no faults; 2 tickers in a semaphore of 1 so that one waits for the other |
| `MCFundBoundary` | answers across a boundary, single bootstrap, stored tickers not refetched, rejections that expire, implements `StatementPromise` | 2 instances of 1 ticker; the clock runs from the tick before a boundary to the tick before the next but one; provider and store errors, unmapped ones included; a single bootstrap is claimed while no poll reaches its deadline |
| `MCFundFaults` | does every load end, is a lock stolen, is it let go on every path but the one of an unmapped exception, is anything uncommitted cached? | all eight kinds of fault in one model: Redis, store and provider errors, poll deadlines, leases that run out, killed and recycled instances, corrupt entries; the clock stands still, for a fault needs no boundary |
| `MCMeteredRequests` | quota, ledger, billing, barred keys | 2 requests at a quota of 1 across midnight, so that one can be charged after midnight in the window it read before; 2 account calls over 2 keys, one access that goes wrong or one kill |
| `MCEvidence` | does a fetch lose or misjudge a period, does it end? Is a capture lost that should be kept, or kept that should go? Is every call reported once, does a missing price fail anybody? | *client*: 2 statement endpoints and the profile, one fetch and one profile lookup over one slot, one retry, one faulty answer, one publication or restatement; a list is cut at 3 records, one more than it holds at first, and 5 in the code. *store*: 3 captures of which one is to be kept, 2 threads of one process and the script, 3 instants, one file system error. *valuation*: 2 requests, 2 answers a load, so that one can come while it runs and one after, one client that leaves, one quote that raises |
| `MCFrontDoor` | how far do outages bend the limit, does anybody suffer from it, do pollers amplify a probe? Is an ended session served, or a live one lost? Are audit trail, frozen keys, ownership and the key limit kept? | *limiter, readiness*: 2 instances, 1 address, limit 1, 3 attempts: one by Redis and one by each instance; 2 days of two ticks, one outage, one recycled instance, 2 pollers. *sessions*: 3 visits, the pair of tokens at first and two more, one sign-in begun, one call or answer lost. *accounts*: 2 users with or without a row and a key, 3 key rows, 2 overlapping calls, limit 1, one access that goes wrong |
| `MCFundLatePublish` | *violation*: finding 1 | no faults at all |
| `MCAccountsLimit` | *violation*: finding 2 | no faults, two calls |
| `MCMeteredFinalize` | *violation*: finding 3 | one transport error |
| `MCSessionsRefresh` | *violation*: finding 4 | no faults, two visits |

The type invariants are proved, and not run again. What the bounds leave out: more than one ticker in `Fundamentals` (its state is
kept per ticker and no action reads another ticker's, except a crash, which
takes an instance's loads of all of them), more than two instances or
invocations (every race found in the code is between two), more than one fault
per behaviour in the counting models.

`CHECK_DEADLOCK FALSE` is set because the observations are finite: the clock
stops at `MaxTime`, and calls and requests are handled once.

**Fairness.** `MCDailyLiveness` assumes that an invocation which is alive goes
on (`WF` of its steps): each await of the runner ends in an answer or in the
client's timeout. `MCFundFaults` assumes the same of a load: Redis, store and
provider calls all carry timeouts and the poll has a deadline. `MCEvidence`
assumes, for its first part, only that the client as a whole goes on, not each request by itself: an
HTTP request ends in an answer or a timeout, a delay ends, retries are counted.
No fairness is
assumed of deliveries, customers, the clock, faults, or the release of another
instance's lock.

## 4. Findings

1. `MCFundLatePublish`, `CurrentCopiesAreVerified`. The copy a bootstrap
   publishes is stamped when it is published (`fundamentals.py:662`), after the
   awaited durable write. If the boundary passes in between, data verified
   before it counts as current after it, against `refresh_window.py:4`.
2. `MCAccountsLimit`, `ActiveKeysWithinLimit`. `create_key` counts, then
   inserts, in two requests; two overlapping creations end above the limit of
   `README.md:310`. `LimitHoldsButForOverlaps` shows that overlap is the only
   way there: a customer holds at most one key too many for each of its creations
   that another one overtook, inserting between its listing and its insert.
   Creations that follow one another keep the limit.
3. `MCMeteredFinalize`, `BuiltResponseStands`. The correction of a usage row is
   declared best effort (`api.py:654`) but suppresses `SupabaseError` alone; a
   timeout there replaces the response with a 500. `mark_key_used`
   (`supabase.py:773`) has the same suppression and the same comment.

4. `MCSessionsRefresh`, `RefreshedIsReturned`. The account routes answer a failed
   CSRF check, an unknown key or a reached limit (`api.py:1111`) without the
   cookies of a session that was refreshed on the way; the token the browser
   keeps is spent, and the customer is signed out at the next call.
   `accounts.py:362` asks for the cookies "on whatever response".

Observations that no run claims:

- After one lost reply of `begin` or one kill, a date stays claimed and its
  pending claims are never decided (`refresh.py:79`), while migration 003:82
  says every claim "must end success or explicit failure". `EveryRunIsReconciled`
  is checked without kills and lost calls only.
- An instance that bootstrapped a ticker after the boundary and before the
  day's run goes on answering that version when the run has promoted a newer
  one, until its copy's TTL or the next boundary; ADR-007
  (`ARCHITECTURE_DECISIONS.md:181`) asks for rotation after each promotion.
- A stale fallback keeps the `freshness_status` of the copy it came from and
  differs from a current answer by its warning only.
- A load that an unmapped exception ends leaves `lock:fund` in Redis under its
  token. Nobody releases it: until its 45 seconds are over, every load of the
  ticker that finds no current copy waits for the poll deadline and then goes on
  without the lock. `LocksAreLetGo` shows this to be the only path on which a load
  that is not killed ends without trying to release.
- A promotion whose reply is lost moves the head although the cycle is reported
  failed; the head is then newer than the ledger says, never older.
- Remembered rejections are consulted before the store, so an instance can
  refuse a ticker that another has stored since, for at most the rejection's
  time to live.
- `stale_age` is computed before the wait for Redis and compared after it;
  `UnwarnedAnswersAreCurrent` allows exactly that drift (`Drift`).
- A key whose insertion committed and whose reply was lost is active, counts
  toward the limit, and its secret is known to nobody.
- Normalization selects the newest period before it looks at its amounts
  (`Normalize`): a newest period that lacks an amount is refused although an
  older one is sound.
- Endpoints of one ticker are read at different times, so a selection can pair
  the original filing of one statement with the restatement of another.
- The loser of the fetch lock who gives up waiting does not read `neg:` again:
  after the winner's rejection it spends a provider call of its own.
- An outage of Redis grants every life of every instance the sign-in limit once
  more (the first half of `LimitIsKept` is exact); the code calls this failing open.
- Of two overlapping visits that refresh with the same token one loses, and its
  401 clears the cookies the winner's answer set (`api.py:831`):
  `SignedOutForCause` counts the overlap as a cause. Supabase's reuse interval,
  during which a spent token is taken again, is configuration and left out.
- Sign-out revokes upstream with the access token the visit came with: one that
  has expired, or is gone, revokes nothing, and a pair refreshed on the way is
  neither used nor returned.
- `SupabaseAuthClient.logout` ignores errors (`supabase.py:666`), but the audit
  event before it suppresses `SupabaseError` only: a transport error there is a
  500, and the cookies stay.
- Overlapping sign-ins share one verifier cookie: the later one wins, and the
  failed callback of the earlier deletes it.
- Temporary files of a killed process are never pruned, and the time of the last
  prune is set before a prune that may fail, so the next one waits an interval.
- `outbound_counter` counts answers: an attempt that times out or loses its
  connection is not counted, though `observability.py:182` says three attempts
  cost three round trips.
- Calls of a failed fetch that are answered after the request's line, and all
  calls of a request whose client left, are in no line and no metric; a request
  whose client left has no line either (`CancelledError` is not an `Exception`).
- `load_quote` "never raises" (`api.py:1287`) but catches two families of errors:
  a body that cannot be decoded raises another, and the valuation is a 500. An
  unmapped exception of the statements is a 500 as well.

## 5. Proofs

Every safety invariant and every action property that a passing run checks is
the statement of a theorem; so are the two refinements. What TLC shows of a few
tickers, calls or visits, the theorem states for any number of them.

Assumptions: the ASSUMEs of the modules that declare the constants, each
evaluated by TLC in every run that extends the module. Tickers, instances,
users, calls, processes, requests, dates, time and fault bounds are otherwise
arbitrary; only sets that something counts are finite. `ClientAssumption` asks
for at least one statement endpoint and finitely many, and that the profile is not
one of them; `CalendarAssumption` for transitions at 2 AM local time at least a
week apart. One result has a hypothesis of its own:

- `FetchesLoseNoPeriod` is `Spec /\ []OwedInSight => []FetchKeepsUp`: while a
  fetch runs, the records of the period it owes stay among the `Limit` newest an
  answer shows (`STATEMENT_FETCH_LIMIT`, five). Without it a fetch may read one
  list before and another after that period fell out of view, and find no period
  both have. The newest complete period is at or near the top of a list, so it
  takes several publications during one fetch to violate it.
  `YoungCompaniesLoseNoPeriod` shows the hypothesis to hold where no list outgrows
  an answer at all, as in the run (2 records at first, 1 change, a limit of 3).

Two properties state their limits in the formula, and so do their theorems.
`BootstrapIsSingle` is about configurations of `Hazards` without a poll deadline,
a crash, a lease that ends or a fault of Redis: a fetch that outlasts the poll is
joined by the load that gave up waiting. `UnwarnedAnswersAreCurrent` dates a copy
by its stamp, which finding 1 shows to be later than its verification at times,
and allows an age computed before the wait for Redis to be as old as that wait
(`Drift`).

**DailyRefreshProofs.** `TypeInv == TypeOK /\ FetchedIsFiling`: what a step is
about to persist is a filing. `CycleInv == TypeInv /\ Discipline` is the
inductive invariant behind everything else. `OneCyclePerDate` alone is not
inductive: it says nothing of why a second `StartTicker` cannot happen.
`Discipline` says it: an unopened date is untouched, one invocation works on a
date and its run is open, a claim that is undecided belongs to a ticker at one
of the steps that owe it a decision, a queued ticker is unspent and a started
one spent once, and a late completion is the last word of a step that is over.
From it follow `OneCycle`, `DecidedIsFinal` (a completion always finds its claim
pending) and `ImplementsCycle`, the refinement of `RefreshCycle`: `LedgerSteps`
reduces a step of the system to the five that touch the ledger, and each is the
abstract action of the same meaning.

The ledger as evidence comes on top of `CycleInv`. `RunStep` says what a step can do
to one date: keep its run, open it, or close it from its claims. With decided
claims final, `SuccessIsComplete` and `CountersAgree` follow, the latter by
counting subsets. `SucceededClaimIsVerified` and `RunningHeadIsOwed` are not
inductive: between the durable write of a cycle and its completion - which may be
late - nothing in the ledger says that the head was verified. `Succeeding` names
that interval. `VerifiedInv` claims a verified head from its start and orders the
stamps by the clock; `OwedInv` adds that the decision a head waits for is not a
success already on its way, which would leave the head as it is.

**FundamentalsProofs.** `TypeCorrect`, then `OnlyCommitted`
(`CachesAreCommitted`) from `CommittedInv == HeadsReferenceSnapshots /\
LoadsCarryCommitted /\ CachesHoldCommitted /\ RunsCarryCommitted`. The
strengthening follows data on its way: what a load holds as its fallback, as the
head it read and as its answer, what a scheduled refresh carries to its
publication, and what heads point to must be committed for the caches to be.
`LocksAreLetGo` is inductive by itself, once `LeavesLock` says which steps
give a lock up; `LockIsNotStolen` follows from it. Where Redis answers
(`Sheltered`), `HolderInv` adds the converse - a load past the lock holds it - and
two loads past the lock of a ticker are one (`OneBootstrapAtATime`). `BornInv`
says that a load that began with a head in the store never gets to a fetch; it
rests on heads never being removed. `RejectionInv` dates every remembered
rejection by the provider's own, also one that is on its way to Redis, so
copying one never renews it. `HeldInv` bounds
the age a load computed before its wait for Redis by the clock: that wait is the
one slack in `UnwarnedMeansCurrent`, whose proof goes through each place that
answers.
`ImplementsPromise` shows every step to be a commit, an answer, a failure, the
end of requests, or a stutter of `StatementPromise`.

**AccountsProofs.** `AccountsInv` has a part for the tables (`TableOK`: an
unowned row is blank, an owned row's secret is in the history), a part for
secrets (`FreshSecrets`: no two calls hold the same one, and one that waits to
be written was never stored), a part for the trail (`AuditSound`) and three for
each call: what it was asked (`CallOK`), what is committed before its audit
event (`Landed`), what it has told or is about to tell (`Told`). `AuditAgrees`
proves both halves of `AuditAgreesWithKeys`: `AuditIsTruthful`
is not inductive without `Landed`, nor `SuccessIsAudited` without `Told`. Steps
interleave, so what one call relies on must survive the others: `Grown` is what
no step takes away, and `CallsCarry` shows that it suffices. `KeySteps` describes
every change of a key row, and gives `RevokedStaysRevoked` and
`KeysHaveOneMaster`. `OverlapInv` follows a create between its
listing and its insert: such a call found room, and has lost only the room of
those that overtook it, so an insert that lands (`Lands`) either finds room still or
belongs to an overtaken call from then on. `QuietSteps` covers the steps that
make no key active.

**MeteredRequestsProofs.** `MeterInv` adds to `AccountsInv` what a request knows
at each await (`RequestOK`) and what the ledger says of it (`RowTold`).
`ChargeLedger` is the counting argument: a request that is charged has no row
yet, so counter and rows grow by one together, and the admitted rows of a key
and window are among all of its rows, hence at most the counter. `BarredStayOut`
needs the accounts: `BarredForGood` shows that no call makes a key valid again,
because a revoked key is frozen and a new secret is never an old one.

**RawStoreProofs.** `RawInv` adds to the types what a worker knows at each step
(`WorkersOK`), that whatever a prune has doomed is retired for good
(`RetiredOnly`: `RetiredStays` shows that time and new captures never bring a
capture back within the rules), and that what a prune listed, less what it has
doomed, is within the cap (`WithinCap`). The counting is `OverflowLeavesTheCap`:
the captures kept are those with fewer newer ones than the cap, and their ranks
are an injection into as many numbers. `TallyInv` adds the counters. A sum over
processes becomes the size of a set (`Heap`, `SumIsHeap`: the library's
`SumFunction` is chosen to satisfy a recursion, and the least set where it and
the size would differ does not exist); a step then moves one worker and changes
one set or one counter on either side of the equation (`TallyMoves`).

**EvidenceProofs.** `PartsKeepTheirSpecs`: client, raw store and valuation take
their own steps only, so what is proved of each holds of `Evidence`.
`ValuationInv` relates each request to the load it waits for (`AwaitsOK`) and its
bag of calls to what was received and what strayed in late (`BagOK`). The
client's part needs what the lists of a provider are: `FiledOK` keeps them
sorted, with records of one date agreeing. `ReachInv` says that an answer taken
after a fetch began shows what was newest then, or something newer: a list only
grows at its head, so what falls out of an answer is older. From it follows
`UnflaggedAnswersAreNewest`. `KeepInv` carries the one filing that could have
been selected when the fetch began through every list read later, and shows that
`Normalize` (`StatementSelection`) takes it or one at
least as new: `FetchesLoseNoPeriod`. `SlotsInv` adds that nothing is asked for a
fetch that has not begun; a request that moves then takes a slot, frees one or
passes by, and `NoSlotIsLost` follows: free slots and sent requests make `Slots`.

**RefreshWindowProofs.** Quotients and remainders are met once
(`DivisionByDay`); after that a local time is a date and an hour, and the rest is
linear. `EveryInstantIsBracketed` goes through the offsets before and after a
transition; `OneWindowADate` gives each Eastern date its one 18 o'clock at one of
the two UTC hours. `ScheduleInv` says that every delivery so far was decided by
the guard, from which the three parts of `ScheduleServesEveryDate` follow.

**FrontDoorProofs.** `AccountsAreLeftAlone`: what is proved of `Accounts` alone
holds behind the front door. `SessionsInv`: a pair of tokens is of one visit
(`OwnPairs`), is in a cookie only after its answer arrived (`CookiesArrived`), is
spent by a visit that carried it (`SpentByCarrier`) and is then replaced
(`SpentIsReplaced`) unless the visit failed; from these
`EndedSessionsAreNotServed` follows. `SignedOutForCause` also needs to know why a
visit that spent its own token is refused, for that is no cause: `SpendersOK`
follows the pair it got, which is of the same session. `LimiterInv`: the
counter in Redis is the number of attempts it counted, each with a count of its
own (`RedisCounts`), and an instance's counter lies between what it admitted in
its present life and what was admitted at all (`InstancesCount`); the bound and
the refusals are then arguments about cardinalities. `ReadinessInv`: the lock lets
one poller in, who leaves a report no older than its probe.
The three invariants contain the types: `FrontDoorTypeCorrect`.

**Model-checked only**: the liveness properties `EveryRunIsReconciled`,
`EveryLoadEnds` and `EveryFetchEnds` (fairness and ENABLED are out of the prover's
reach), and the findings' counterexamples, which are runs by nature.

## 6. Not modelled, and the plan

Left out within modelled components: `invalidate` and `aclose` of the statement
service (operator calls), the profile and raw companions of its caches (never
read to decide anything in the durable mode), the mode without a durable store;
the transport and encoding of Redis; document layouts; expiry and scopes of API
keys (no operation changes them, and a refusal for either is one more request that
is neither charged nor served); a readiness poller cancelled in its probe; the
provider's sign-in.

Also left out: the profile cache's choice of when a fetch may reuse a profile
(`Begin` takes either), the in-process quota of the mode without a database, the
reading, redaction and layout of captures, other metrics than the calls to
providers, which status of the price client becomes which error.

Order of work, most important first. All but 13 are done.

1. `SnapshotStore`, `RefreshLedger`, `DailyRefresh` with `RefreshCycle` - the
   once-a-day guarantee everything else is built on.
2. `Fundamentals` with `StatementPromise` - what callers are served.
3. `RefreshWindow`.
4. `Accounts`, `MeteredRequests`.
5. Theorems of 1 and 2.
6. Theorems of 4: the audit trail, frozen keys, quota and ledger agreement,
   barred keys.
7. `StatementSelection`, `ProviderClient`.
8. `LoginLimiter`, `Readiness`, `FrontDoor`.
9. `Sessions`, `RawStore`, `Valuation`, composed in `FrontDoor` and `Evidence`.
10. Theorems of `RawStore`.
11. Theorems of the ledger's evidence: verified claims, complete runs, counters,
    heads that are owed.
12. Theorems of every remaining safety property: locks, bootstraps, rejections
    and warnings of the statement service; the key limit; the raw store's
    counters; sessions, limiters and readiness; the provider's lists; valuation
    telemetry; the boundary arithmetic.
13. `ProviderClient` beneath `Fundamentals`: the outcomes of `Fetch` as those of
    a fetch, by refinement of a small abstract provider.
14. Theorems beside the runs' properties: the slots of the provider's semaphore
    accounted for, the types of sessions, limiters, readiness, requests and
    valuation.

Not planned: the DCF arithmetic (floating point without state), response layout,
settings, log redaction and scripts, which keep no state the properties depend
on.
