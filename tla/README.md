# N²PSM attendance: specifications, model checking and proofs

N²PSM lets employees check in from their phones: a PIN, a live selfie compared
with a reference photo, a liveness challenge and a geofence decide whether an
attendance entry is written, and HR reviews what is doubtful. This directory
specifies the parts of the system where several actors, failures and retries
meet, checks them with TLC on small instances and proves the most important
facts with TLAPS for every size. Paths below are relative to `src/`:
`P/backend-api`, `P/mobile-client`, `M/ai-service` (abbreviated `M/app` for
`M/ai-service/app`), `S/web-dashboard`.

## 1. The system

| Part | State it keeps | Operations | Talks to |
|---|---|---|---|
| Phone (`P/mobile-client`) | token pair in memory, reducer and route, check-in screen, telemetry timer | check in, log in, refresh, heartbeat, anomaly report | backend over HTTP |
| Backend (`P/backend-api`, Express, one process) | MongoDB documents: users, shifts, embeddings, geofences, attendance logs, alerts, leave, policies; Redis counters | `performCheckin`, review, leave decisions, onboarding, sessions, rate limits, incident blocklist, live broadcast | phone, console, AI service, MongoDB, Redis, bucket |
| AI service (`M/ai-service`, FastAPI, one worker, thread pool) | in memory only: PIN lockouts, used request ids, photo history, rate windows, data-key cache, calibration | `verify_pin`, `VerifyService.execute`, liveness, enrolment, calibration reload | backend, object store, KMS |
| Console (`S/web-dashboard`) | access token in memory, query caches, forms, one socket, one map per page | log in, refresh, lists, decisions, live board, editor of geofences, uploads | backend over HTTP and Socket.IO, bucket |

How they interact in a check-in:

```
phone --POST /checkin--> backend --liveness, pin, verify--> AI service
  |                        |  \--> MongoDB (entry, alert, notification)
  |<------ answer ---------|  \--> Socket.IO --> console (HR)
  20 s timeout             10 s timeout per AI call
```

### What is hard about it, and what makes each part correct

* **PIN lockout.** Requests run on a thread pool; the lockout policy is entered
  twice per request with a slow comparison in between; entries are evicted when
  the dictionary is full. Correct: the overspend of a budget is bounded; a
  lockout starts exactly when the budget is spent, is not moved by later
  failures, and ends by itself; bounded memory forgets but never invents.
* **Check-in.** A handler of ten steps awaits at each; attempts interleave; both
  timeouts race a late answer; either service may restart; the AI service uses up
  the request id and the photo before it knows it can answer. Correct: an entry
  was earned by its own submission; nothing is recorded twice; what HR is told
  and what the employee reads is true; every attempt is settled once.
* **Replay, nonce and rate stores.** Expiry, eviction and the freshness window
  have to fit together, and the clock is read outside the mutex. Correct: no
  identical request passes twice while it is fresh; the rate holds in every
  window; memory stays bounded.
* **Keys.** Plaintext data keys are cached with an expiry; a script moves all
  envelopes to another key while employees enrol. Correct: a withdrawn grant
  takes effect within the cache's lifetime; no enrolment is lost.
* **Calibration.** It is edited on disk and reloaded under running
  verifications. Correct: every score is decided by one that was fitted for the
  model and the pipeline in use.
* **Sessions.** Phone and console refresh their tokens once for many failed
  requests, while the user logs in and out. Correct: every parked request is
  settled; a session that was ended stays ended; a valid one is not ended.
* **Access.** The permissions are written down twice, in the backend and in the
  console; tokens outlive the account they are about. Correct: what the console
  offers is what the API allows, and a deactivated account's tokens run out.
* **Live views.** Fetched, pushed and optimistic rows meet in one cache; the
  socket reconnects with a token that may have expired; pins and circles are drawn
  on a map that loads late. Correct: what HR sees is what was last answered.
* **Leave, onboarding, offices.** Several documents, no transaction, forms filled
  from stale lists. Correct: an approved leave is charged once; codes are unique
  and a face belongs to its photo; a stored position was confirmed by somebody.
* **Perimeter.** Counters in Redis, a durable block written after the fact.
  Correct: only a repeat offender is blocked, and outages block nobody.
* **Telemetry.** A timer that re-arms itself. Correct: it keeps beating while the
  shift lasts, with one chain of timers.
* **Days.** A shift's days wrap round the week and are stored twice; a day in
  Dhaka starts at 18:00 UTC, and a dashboard is loaded in two requests around
  midnight. Correct: days survive a round trip, figures are of one day.
* **Words.** A reason travels through three programs before the employee reads
  it. Correct: nobody is told to try another face because a service is down.

`PROJECT.json` lists every component with its status, and every hazard at the
line where it bites.

## 2. Modules

| Module | Models |
|---|---|
| `LruDict` | the bounded `OrderedDict` idiom of `M/app/security/lockout.py` and `stores.py` |
| `PinLockout` | `LockoutPolicy` and `PinService.verify_pin` on concurrent threads |
| `AttendanceLedger` | abstract: what the check-in path promises to HR and to the employee |
| `Checkin` | phone, `performCheckin` and `VerifyService.execute`, with restarts and HR |
| `ConsoleSession` | the console's interceptors, `bootstrapSession`, login, logout and the socket's refresh, in one tab |
| `NonceStore`, `RateMeter`, `PhotoHistory` | the three stores behind the guards of `/v1/verify` |
| `DekCache`, `KeyMigration` | the data-key cache under KMS; envelopes, providers and `rotate_keys.py` |
| `AiRuntime` | boot, warmup, and the calibration's reload |
| `Startup` | the settings of both servers up to the first answer |
| `LeaveDesk`, `Onboarding`, `Offices` | the backend's documents without transactions, with the console's forms |
| `ReviewDesk`, `LiveBoard` | the console's live views: queue and feed; socket, map and tile |
| `FenceCircle` | the editor's pin and circle, and one position on its way to the check |
| `Perimeter` | blocklist guard, limiters and escalation |
| `Access` | permissions on both sides, and tokens through their life |
| `AttendanceTable`, `ReportExport`, `PhotoPick` | the paged table with its cache; the export; a reference photo's upload |
| `ShiftWeek`, `DhakaDays` | a shift's days; the dashboard's days |
| `MobileSession`, `PhoneHome`, `Telemetry` | the phone's tokens; its reducer, routes and pages; its heartbeats |
| `CheckInPhone`, `CheckInForm`, `PhoneEvidence`, `Verdicts` | a check-in on the phone: the sequence; the screen it runs on; what is sent; what the answer becomes |
| `MCPinLockout`, `MCCheckin`, `MCParts`, `MCScreens` | the instances TLC checks (the other runs need only a `.cfg`) |
| `LruDictProofs`, `PinLockoutProofs`, `CheckinProofs`, `ConsoleSessionProofs`, `AiServiceProofs`, `PhoneProofs`, `BackOfficeProofs` | theorems and proofs about the modules they name or the side they are of |
| `PartsProofs` | theorems about the composition `MCParts` |

`PinLockout` and the stores with an eviction use `LruDict`; `Checkin` implements
`AttendanceLedger`; `MCParts` puts the 25 modules that share no variable with each
other into one run, one at a time, and `MCScreens` does so with the two largest,
`PhoneHome` and `AttendanceTable`. An operator under a comment "Mutation:" is used by
no specification: in the place of the operator it precedes it is a plausible slip,
and TLC finds a property violated. `PROJECT.json` lists one for each property; the
others refute further conjuncts of a property that has several.

### PinLockout

A slot of the thread pool (`Requests`) serves one `verify_pin` at a time and goes
through `idle -> admitted -> matched | mismatched -> idle`. Each step that holds
`LockoutPolicy._lock` is one action: `VerifyPin` (`status`), `RegisterSuccess`,
`RegisterFailure`; `ComparePin` is the bcrypt comparison outside the mutex, its
result the environment's choice. `_state` is three variables, `recency` (order of
keys), `fails` and `until`; every action that touches the dictionary does so
through `Store`, which also evicts. `spent` is a ghost: wrong comparisons since
the budget was last whole. The code reads its clock just before it takes the
mutex; the model reads both in one step, and time is the integer `now`.

### Checkin

One employee submits up to `NAttempts` times. A submission is a record of the
facts the steps test: `lacks` names the gates it fails, `face` how well it
matches, `photo` and `id` what the replay guards remember. `stage[a]` is the next
step of the handler of attempt `a`; one action per step, in the order of
`performCheckin`, each with the outcomes the code distinguishes: go on, a 4xx the
phone shows as a rejection (`refused`), a 409 for a replay, a 5xx (`error`).
`ai[a]` is where `/v1/verify` stands for the attempt: `Admit` (rate, device,
freshness, request id), `Fetch` (envelope, object, photo history), `Score`; it
goes on after the backend gave up on it. `RestartAi` empties the guards and kills
what is running; `CrashBackend` ends every running handler. `Review` is HR's
decision, `Deactivate` the administrator's. `Interpret` is the phone's reading of
an answer.

Abstractions: the request-id cache and the photo history are sets without limit
or expiry (`NonceStore` and `PhotoHistory` have those), the PIN budget and the rate limits
are the environment's choice, a 401 that makes the phone refresh its token and
repeat the request counts as one submission, the location and the checks on the
device before submission are facts of the submission, and the
AI client's timeout may fire at any time.

### AttendanceLedger and the refinement

The ledger knows per attempt how it was `settled` and what the employee was
`told`. An attempt is settled once; `told` changes once and only to something the
settlement supports; an outage may settle any number of attempts as refused.
`Checkin` maps `settled` to the entry (or to the end of the handler without one)
and `told` to the screen; `ImplementsLedger` is the refinement. HR's later
decision changes the entry's status but not how the check-in was settled.

### ConsoleSession

One tab. `call[c]` is the progress of an API call: `sent`, then either over
(`idle`) or, after a 401, `parked` behind a running refresh or `refreshing` as the
leader that runs it; once the token is there the leader is `leading` (its replay is
on the wire and `isRefreshing` still set) and the parked ones are `replaying`.
`asked` holds the `POST /auth/refresh` on the wire, of a leader, of
`bootstrapSession` (`Boot`) or of the socket's error handler (`Socket`), with the
cookie it left with. Each action is one JavaScript callback with the promise
continuations it settles: `Unauthorized` is the interceptor up to its first
`await`, `RefreshGranted` with `Release` runs from there to the replay,
`SessionExpired` is its `catch` and `finally`. `Me` is the boot's `GET /auth/me`,
an ordinary call whose end decides the state of the page. Sign-in and sign-out are
the request and its answer; `Reload` forgets everything but the cookie.

Abstractions: tokens are numbered and expire in that order; the server's handling
of a request and the arrival of its answer are one step; the server may grant or
refuse any refresh that carries a cookie (its tokens are stateless, it keeps no
list of used ones); one socket refresh at a time; an answer to a request abandoned
by a reload is not seen.

### The AI service's stores: NonceStore, RateMeter, PhotoHistory

A thread of `NonceStore` goes through `Enter` (`check_freshness`), `ReadClock` (the
store's clock, read before its mutex) and `AddIfAbsent` (purge from the oldest
insertion on, evict, insert). `passes` counts how often a body got through, from
anew once eviction has dropped its id before its time. A thread may wait up to
`Stall` between check and insertion. `TtlAssumption` is what the settings must
satisfy for the rest to hold: the nonce lives longer than both sides of the
freshness window and the longest wait. `RateMeter` is the sliding window with the
same late clock, so that readings may be recorded out of order; `PhotoHistory` is
`RecentValues`, whole under its mutex.

### Keys and calibration: DekCache, KeyMigration, AiRuntime

`DekCache` splits `unwrap` and `mint` at every point where the mutex is free, KMS
is asked or the clock is read: `Unwrap` (`get` reads the clock), `Lookup` under the
mutex, `KmsDecides`, `KmsAnswers` (`put` reads the clock, after the answer), `Store`
under the mutex. Each step may wait up to `CallStall`. So an entry is timed from the
arrival of KMS's answer, up to `CallStall` after its decision, and is returned by a
call that read the clock up to `CallStall` before: the bound on use after a revocation
is `CacheTtl + 2 * CallStall`. `opened` notes calls that returned a key while the
grant was withdrawn. `KeyMigration` has the service
(`Enrol`, `Restart` with another setting) beside the script (`Export`, `Rewrap`,
`Import` record by record, as `mongoimport --upsert` does); a run of the script may
end after any of them. Envelopes open under the same key and the same additional
data only. `AiRuntime` reads (`ReadFile`) and swaps (`Swap`) a calibration in two
steps, with verifications (`TakeCalibration`, `Answer`) and other operators
between.

### The back office: LeaveDesk, Onboarding, Offices, Perimeter, Access

Each `await` of a handler is an action, and a crash may fall between two. `LeaveDesk`:
status, balance, notification (`DecideLeave`, `CountDays`, `NotifyEmployee`), decided from
rows a console has cached; every approval is charged, the second one of the same request
too, and `uncounted` names what a crash lost. `Onboarding`: duplicate check, `Insert`
under the unique index, shift, PIN, face, answer; photo updates run beside. `Offices`:
drafts of several tabs, the requests they have posted (`posted`: the payload is what the
form held at submit), and the two writes of a creation and of an update. Only the two
buttons of a form wait for their own request; inputs, pin, checkbox, cancel and the list
stay enabled, a refetch rewrites a form whose save is under way but not its payload, and
`onSaved` closes whatever form is open by then. (React Query's pausing of mutations while
the browser is offline is left out: a paused one is sent later, as one that is slow.)
`Perimeter`: a visit goes through guard, global and route limiter; Redis and Mongo fail
and return between any two steps; incidents are recorded by calls nobody awaits. `Access`
has the two permission matrices, every guarded route and every page with its calls,
buttons and links as tables translated from `routes/*.ts` and `router/routes.tsx`, and
tokens through sign-in, refresh, expiry and deactivation under either algorithm.

### The console: ReviewDesk, LiveBoard, FenceCircle, ReportExport, PhotoPick

`ReviewDesk` is two query caches, each written by fetches, pushed events and (the
queue) optimistic decisions that put back what they removed when they fail. Of the
query library it uses what its header says. `LiveBoard` is three components on one
page: the socket that presents the token it reads at each handshake, the map that
draws what came before it was loaded once it has, and the tile that highlights
what is new. `FenceCircle` follows a position from the marker through GeoJSON
(longitude first) to the geofence check and the phone's badge: `GeoPair`, `Named`,
`LooksFlipped` are the conversions. `ReportExport` is `listAttendance` sorted by
the phone's clock and the loop that exports all its pages while entries arrive and
leave; each page is two reads, `PageFound` and `RowsCounted`, in either order.
`AttendanceTable` is the same endpoint behind the query cache: a key (filter and page)
that was fetched before is shown at once and fetched again when it is stale, answers
come for keys nobody looks at any more, rows and total of an answer are read apart,
and the pager offers what the total shown allows. Of the rows only the number matters
there. `PhotoPick` follows a photo through
compression, presigning, bucket, form and the AI service's read; uploads nobody
cancels go on behind what is shown.

### The phone: CheckInPhone, CheckInForm, PhoneEvidence, Verdicts, PhoneHome, MobileSession, Telemetry

`CheckInPhone` has the runs of `checkinService.js`, which outlive the screen that
started them; `shownBusy` is what has been rendered, `inFlight` the ref that is
exact. `CheckInForm` has one screen instance in detail: permission and watch, each
answered late or rejected (`EffectRejected`: the effect has no catch), PIN pad,
the flashes and what each outcome offers. `PhoneEvidence` is what is put together
and sent, with the encoder's loop on sizes and qualities in integers; an anomaly report
is lost or refused, as the backend's schema wants a number where the phone
sends a word. `Verdicts`
takes a set of flaws through every guard in the order of the code; the first found
becomes a reason, an envelope, a refusal, a title. `PhoneHome` is the reducer with
its effects and routes, two logins that may overlap, the refresh that succeeds or
fails after whatever happened meanwhile (`inRefresh`: whose token it sent), sign-outs
tapped more than once, and whom the heartbeat follows; `"crashed"` is the app
unmounted by an error while rendering. `MobileSession` is `http.js`: tokens numbered by
login, logins that overlap because Enter submits while the button is disabled, one
refresh for all calls, what parks behind it (a login's profile too) and what a logout
clears. Three ghosts say why a token may not be the session's: `putBack`, a refresh that
was for other tokens than it found; `signedOff`, the session has ended; `doubled`, the
form was submitted while busy. `Telemetry` counts timers and
heartbeats: `named` tells whether the one timer variable names one of them.

### Days and settings: ShiftWeek, DhakaDays, Startup

`ShiftWeek` is `shiftDays.ts` on all labels and the document that stores both
forms. `DhakaDays` scales a day to `DayTicks` with `ZoneTicks` of offset; the
dashboard's queries run at different times of a request. `Startup` takes a good
local configuration with any two deviations through import, the checks, building and
the first call of each path.

## 3. Runs

| Run | Question | Result |
|---|---|---|
| `pin_lockout` | three threads, two employees, budget 2, lockout 2, dictionary of 1, clock to 4 | all properties hold |
| `pin_budget` | can a budget be overspent by a race, as the comment in `pin_service.py` denies? | yes: violated |
| `checkin` | two attempts, every gate failing in turn, shared photo and request id, one AI restart, any number of backend crashes | all properties hold |
| `checkin_lost_answer` | does "not recorded" after a network error hold? | violated |
| `checkin_retry` | may the identical request be repeated safely? | violated |
| `console_session` | two calls, boot, socket, sign-in and sign-out, three tokens, one reload | all properties hold |
| `console_parked` | is every parked call released? | violated |
| `console_expiry` | is a user signed out only by a failed refresh? | violated |
| `parts` | twenty-five components with a state of their own, one at a time | all properties hold |
| `screens` | the phone's home and the console's table, filled from answers that come late | all properties hold |
| `review_restore` | is a card back in the queue when the console says so? | violated |
| `mobile_logout` | does a logout leave no token? | violated |

**`pin_lockout`.** `OverspendBounded`: at most one extra guess per other thread.
`LockMatchesBudget`: an entry has a deadline exactly when its failures reach the
budget, at most `LockoutSeconds` away. `StoreBounded`: size, uniqueness, and no
failures for absent keys. `LockedDeadlineFixed`: while locked the deadline does
not move; the entry may only vanish, by a right PIN admitted earlier or by
eviction. `LockExpires`: a lockout ends whatever requests keep coming. The
bounds: a budget of 2 lets a failure that counts and one that locks differ, three
threads allow two late failures, a dictionary of 1 makes every second employee
evict the first, and the clock of 4 lets a lockout start, end and start again.

**`checkin`.** `LogEarned`: an entry's own submission passed every gate, from an
employee active when the handler started. `UsedOnce`: no photo and no caller's
request id in two entries, unless the AI service restarted in between.
`AlertsHonest`: HR's alerts concern what they say (`AlertsTrue`), and the employee
reads "sent for HR review" or "HR has been notified" only if HR was
(`ReviewMeansHeard`).
`HandlerEnds`: a handler that started ends. `ImplementsLedger`: see above. Two
attempts are enough for every pairwise conflict the guards know (they compare one
submission with what an earlier one left behind), and one restart for forgetting.
Deadlock is not checked: when all attempts are over the system may stop. The
proofs cover any number of attempts and restarts.

**`console_session`.** `OneRefresh`: `isRefreshing` is set exactly while one call
leads, and never two do. `AuthenticatedHasToken`: whichever of logout, a failed
refresh, a failed replay and a late login comes last, the console is not left
signed in without a token. `ReplayedWithNewerToken`: a call is sent again only with
a token newer than the one it was refused with. `EveryCallReturns`: a call is
answered or parked, and one that parked before the refresh's answer is released by
it. `BootEnds`: the boot spinner ends. Two calls are enough for a leader and
another that parks in time or comes late (parked calls do not affect each other, and
the proofs cover any number); three tokens let a replay's
token expire and be renewed while an older call is still out; one reload lets the
boot meet a cookie left by a session. What does *not* hold is that being signed out
implies having no token: a refresh on the wire at logout brings one back, and an
employee who is no administrator boots to the sign-in page with one.

**`parts`.** A variable `focus` chooses at the start which part moves; the
others stay as they began, so that the states of the thirty choices (some modules
have several) add up, to about 1 090 000, instead of multiplying. A property is a
property of its part in every behaviour; the four whose name stands for several
(`GuardStoresHold`, `PhoneSound`, `ScreensAgree`, `DaysHold`) select by
`focus` the one of the part that moves, and `KeyCacheHolds` is looked at only there. Every
property of this run is also a theorem, for all values of the constants (section 4): what
the bounds below leave out the proofs cover.

| Property | Says | Bounds, and why they are enough |
|---|---|---|
| `RequestServedOnce` | a body passes freshness and nonce at most once, unless eviction dropped its id | three bodies, two threads, a store of one; ttl 4 is the least that `TtlAssumption` allows with skew 1 and stall 1 |
| `GuardStoresHold` | no more than the limit in any window less the wait for the mutex; no photo again before others took its place; the nonce store holds at most one more than its limit | limit 2 and window 3 to time 5 let a window slide past both ends; three photos and a history of two let one be forgotten |
| `KeyCacheHolds` | no key is returned later than its lifetime and two waits after the grant went; the cache keeps its limit | two keys in a cache of one, two calls, lifetime 2, wait 1, time to 5: one more than the bound, so that a key may be used too late; grant withdrawn and given back |
| `MigrationSafe` | no enrolment is lost except under an import that is older; a finished import leaves everyone on the new key | two employees, three keys, four deeds: two migrations with an enrolment in each |
| `ScoredByFittedCalibration` | every verification is decided by a sound calibration of the model and, where recorded, the pipeline in use | five calibrations, one for each check; two operators |
| `ApprovalsCharged` | the balance is what the approvals add up to, less what is still under way or was lost in a crash; a negative length costs nothing | two requests on one balance, one with its end before its start, three decisions |
| `ScreensAgree` | the feed shows a log once; a decided card is not offered again once the queue is at rest; the socket has one set of handlers and an honest label; pins stand where the last answer says; the circle is the draft's; a position is stored as it was seen and checked as it is shown | a feed of two, two logs in the queue, three mounts, two geofence versions, two moves and writes; queue and feed are run apart |
| `AccountsSound` | one account per code; the form's report of PIN and face is true; a face is its photo's when no update overlapped or failed | two forms, two accounts and two photo jobs on one code |
| `EditsAreHuman` | a stored position was confirmed, a stored address typed by somebody | one geofence, two requests; one tab with everything on the pin, one with everything on the address, and two tabs that load, save and remove an office that is there |
| `OutageNeverBlocks` | a key is blocked only after the rejections that escalation asks for, whatever fails | one address, two visits at a time; counters may lapse at any step |
| `DaysHold` | a shift's days are read back from their label; a bar of the trend counts its Dhaka day, today's figures are of one day, and do not contradict the trend of that day | every range and lists of one, two, seven days; two days of two ticks, two check-ins; one load of each |
| `TokensFollowSession` | no call waits for a refresh that is over; tokens held are the last login's, and none after a sign-out, except by a refresh that was for other tokens than it found, and only until the next login or sign-out; the token is of the profile shown unless the form was submitted while busy | two overlapping logins with their profiles, two sign-outs and a call, three of these sent |
| `HeartbeatChain` | at most one timer, none after a stop, and beats go on until one falls off duty | three starts, seven beats |
| `PhoneSound` | one run per screen, full evidence, a result belongs to its screen; the watch follows the form, the badge is alive unless the effect was rejected, a PIN is sent once per tap and every screen has a way on; on a phone, evidence that could not be obtained counts as suspect (rooting is not asked for); photos stay legible, reports are of mocks and none is kept | two runs on two screens, three compression passes; two forms; two photos with two budgets on three platforms |
| `VerdictsFair` | what an employee is told is one of the things that are wrong (`Misworded` has those without words of their own), recorded, alerted; one submission costs one PIN attempt | any two flaws at once: guards look for one each, so the order of each pair counts |
| `AccessSound` | an access token of a deactivated account is refused after one lifetime and one wait, and no refresh, and no refresh token in its place, prolongs it; a role that sees a page, a button or a link is allowed each call behind it and refused what is not offered, but for those listed; links lead to pages that are shown | two people, one signing slot, lifetimes 1 and 3; all roles, pages and routes of the code |
| `NoRowLost` | an undisturbed export is the range, one disturbed by new rows misses none, unless one came between the two reads of a page | pages of one, three entries, one of them late |
| `PhotosArrive` | what was handed to the backend can be read by the AI service; in the form, what is shown is what will be sent, unless picks overlapped | three picks, two widgets |
| `StartIsSound` | once the service is up no request finds a setting unreadable, and what boot lets pass is harmless or among the warnings of `/ready` | any two deviations, one in the test environment; a call changes nothing the next one could see (`Untouched`), so one call after the start is followed |

**`screens`.** `PhoneHome` or `AttendanceTable` moves, chosen at the start; 3.5 million
states. `HomeSound`: what is shown is of the employee the tokens belong to, nothing is
left after a sign-out, lists are newest first, and positions are sent of nobody but the
employee signed in. Two situations are excepted, and in these the code does show one
employee under another's token: logins that overlapped, and a refresh that restored a
token of before (`mobile_logout` has the latter as a violation); `Crossed` lasts until
that session ends, and what the invariant says with no exception - nothing left behind
after sign-out, order, whom positions are of - holds then too. Two employees are the least
that can meet, two logins the least that overlap, two sign-outs the least where the second
hits somebody else; two records make order and cut visible with lists of two, one and one.
`PagesExplained`: a page past the end, which has no button back, can only come of logs
that left the filter since the page was turned to; neither the cache nor answers out of
order lead there. (Excepted, as `torn`: an answer whose two reads met different numbers.)
Pages of one and two logs give three pages, the last past the end; two filters, two
fetches at a time. HR only approves here (`TableVerdicts`), as a rejection moves a log
between filters in the same way; the proof has every set of verdicts. The types are
conjuncts of the inductive invariants proved, and no property of the run.

Slots and ids that differ only by name are taken in order (`FirstFree`), which is
the symmetry TLC would use. `Employees`, `Keys` and `Models` start alike for the
same reason. Deadlock is not checked: a part may come to the end of its bound.

**Fairness.** `PinLockout`: time passes, and a thread inside `verify_pin` runs to its end
(it only waits for a mutex held briefly). `Checkin`: a running handler takes its next
step; every `await` in it is a database call or an AI call with a timeout
(`pnsmAiClient.ts:232`). The timer is cleared once the headers are in, so this assumes
that the body of an answer follows its headers. Nothing is assumed of the phone, the
network, the AI service or HR. `ConsoleSession`: every request is answered or fails, as
axios gives each a timeout (`http.ts:53`); users, expiry and the socket owe nothing. The
parts in `parts` and `screens` are checked for safety alone; what has to go on is stated
as a state in which something is armed (`BeatsGoOn`), rendered (`WayOn`) or under way
(`NoCallStranded`).

**Violations.** Each refutes a sentence of the repository, quoted in
`PROJECT.json` under `findings`:

* `pin_budget`: two threads read the same standing before either records its
  failure.
* `checkin_lost_answer`: the phone's timeout expires while the handler goes on and
  writes the entry.
* `checkin_retry`: request id and photo are used up before decryption, download
  and extraction; when one of these fails the identical request meets its own
  traces.
* `console_parked`: the queue is drained before the leader's replay, the flag reset
  after it; a 401 in between parks for a refresh that is already over.
* `console_expiry`: the leader's replay is inside the `try` whose `catch` means
  "refresh failed" (the phone's `http.js` separates the two).
* `review_restore`: each of two decisions restores the queue as it found it; the one
  that failed first was already missing from what the other saved.
* `mobile_logout`: the refresh that was on the wire at logout stores its answer; the
  app is signed out and holds both tokens.

### Disagreements without a run

Met while modelling; each concerns words, or lies outside the runs' questions.

*Check-in.* `CALIBRATION.md:92` and `pnsmAiClient.ts:291` say that a rejected comparison
is pushed to HR on `hr_alert`; `performCheckin` never reads it
(`attendanceService.ts:180`), so on the two-band policy HR hears of no failed match. Every
anomaly report is answered 422, because `detection_confidence` is sent as a word and
`mobileSchemas.ts:78` wants a number; the phone swallows that, and the message says "This
attempt has been reported to HR" (`checkinService.js:150-158`; `ReportsAreOfMocks` states
it). A permission check or watch that is rejected, as `hardware.js:8-11` says every call
can be, leaves a form with "Locating…" for good (`CheckInScreen.jsx:97-109`). Errors of
the AI service that no repetition mends are shown as rejections
(`mobileResponse.ts:22-29`). Faults an employee could mend (no face, blur, darkness)
become a 502 although `errors.py` and `attendanceService.ts:41-48` say otherwise;
`Misworded` in `Verdicts` lists all that are. An error before `markRouteGroup` gets the
console's envelope on a phone's route (`errorHandler.ts:50-53`). The entry's `timestamp`
is the phone's and not compared with `captured_at` (`attendanceService.ts:192`, 166).
Position granted by the button never starts the watch, so the badge says "Locating…"; a
watch that begins after the screen was left goes on (`CheckInScreen.jsx:104-108`).
`is_rooted` is never true, being sent unasked (`deviceInfo.js:65`). The photo's reported
size after the last shrinking is not the blob's.

*Sessions.* `http.js:124-126` expects a rotated refresh token to invalidate the one
before; the tokens are stateless. Telemetry never resumes after a beat off duty
(`backgroundTelemetry.js:121-122`). Enter submits the login form while a login is under
way (`LoginScreen.jsx:67`, 78); overlapping logins, and a refresh that ends under the next
session, show one employee under another's token. An employee without office or geofence
sees Home and Profile empty forever (`HomeScreen.jsx:23-25`), and Check-in breaks
(`CheckInScreen.jsx:63-65`). `rateLimiter.ts:29-31` says "by *any* limiter", the key has a
limiter's prefix. The socket's refresh bypasses the console's single flight.

*Back office.* The PIN is shown once, in an answer that may be lost
(`employee-form.tsx:114-120`). A shift's label is stale after a PATCH
(`employeeService.ts:266`, `models/Shift.ts:5-7`). The console says that a biometric
baseline was regenerated though its failure is swallowed (`employee-detail.tsx:48-52`,
`employeeService.ts:280`). A leave decision whose balance or notification fails says
"Decision not saved" though the status is (`leaveService.ts:63-72`, `leave-queue.tsx:45`).
`PATCH employees/:id` with `is_active` asks for less than `DELETE`. HR's settings page
asks for alerts HR may not read (`settings-view.tsx:23-27`, `superadmin.routes.ts:32-34`).
`recordAuditEntry` has no caller. The accounts page reads `role_name`, the list has `role`
(`superAdminService.ts:30-37`). The toast on a saved policy promises an effect
(`admin-views.tsx:117`), `performCheckin` reads no policy.

*Live views and reports.* A fetch of the attendance that failed is shown as "No check-ins
in this range" (`attendance-view.tsx:236-244`). "Present now" counts people who have
checked out (`present-now-tile.tsx:83-86`). `live-presence.tsx:18-19` speaks of refetching
on socket events, `use-socket.ts:72-76` does not invalidate the live map; its failed first
fetch shows "Nobody on site". The roster's search keeps the page; "Export list" exports
one page (`employees-view.tsx:47-59`). Cancelling a replaced photo does not cancel its
upload. "Uploading anyway" (`photo-upload.tsx:70`) is always refused by `presign.py:46`.
The save of a geofence closes whatever form is open by then. A map panned round the globe
gives a longitude that is refused. The "After 9:15" footnote is fixed while the cutoff is
the policy's; late arrivals are counted per check-in, presence per employee.

*Start.* `runtime.py:108-109` says that a misconfigured CMK fails at boot; it fails at
first use. The nonce's lifetime and the freshness window are not compared
(`TtlAssumption`). `max_body_bytes` is below what four liveness frames take. A stub
embedder is warned of although the real model runs when its file is there. `env.ts:16-18`
"fail at boot, not at first use" does not cover RS256 keys, geo keys and the shared
secret. Crossed bands stop the import although `main.py:198-201` says otherwise. After a
change of the key provider old envelopes are refused (`fle.py:217`) although
`keyproviders.py:22-23` says that they keep opening.

## 4. Proofs

`tlapm` checks every theorem from the constants' named assumptions alone; none
depends on the instance of a run.

* **`LruDictProofs`**: `UsedProperties` says what one use does to a bounded ordered
  dictionary. It rests on two lemmas on removing a key from a sequence without
  duplicates.
* **`PinLockoutProofs`**: the invariant adds to the properties that failures never
  exceed the budget and that the guesses not yet recorded are accounted for:
  `spent[u]` is at most the failures recorded plus the threads between comparison
  and recording (and, once locked, plus the threads admitted before). Without the
  account of threads in flight `OverspendBounded` is not inductive: a thread's
  comparison raises `spent` with nothing else to bound it. The counting of threads
  uses the library's facts on finite sets.
* **`CheckinProofs`**: the invariant says what each stage of the handler has already
  established (`FromPin`, `FromGeofence`, `FromVerify`), which verdict a stage may
  follow, and what an answer means. `LogEarned` follows; a second invariant relates
  answers and alerts (`AlertsHonest`), a third relates accepted
  photos and request ids to the guards' memory and the restart count (`UsedOnce`).
  The refinement uses the first two: a step of the handler settles at most its own
  attempt and only from `open`, a step of the phone tells at most one attempt and
  only what its answer supports, and every other step stutters.

* **`ConsoleSessionProofs`**: two strengthenings carry it. `RefreshOwned`: a refresh
  on the wire for a call belongs to the call that leads; without it an answer could
  end a refresh that is not running. `BootAlone`: during boot no page's call, no
  sign-in and no sign-out runs, and the boot's token is still there when its
  profile arrives; without it `AuthenticatedHasToken` is not inductive.

* **`AiServiceProofs`**. `NonceInv` follows a thread from its check to its insertion: what
  it found fresh it still holds within `Stall` (`ThreadOK`), and the id of a body that
  passed is in the store, unexpired for as long as the body is fresh, unless it was
  evicted (`PassedOK`). The second rests on `TtlAssumption`; without the first the
  insertion could come later than the expiry. `RateHeld` needs the history behind the
  counter (`Windowed`): the readings still stored are the last ones let through, those
  popped before them are out of the window of whatever is let through later, and readings
  are out of order by at most `MeterStall`. `PhotoServedOnce` is the same for a window of
  a fixed length (`LastOnes`). `RevocationTakesEffect` dates each call and each cached key
  by the last moment the grant stood (`LastGrant`): a call between KMS's decision and the
  store is at most one `CallStall` past it, which the stored expiry inherits. `KeyInv`
  says of each stored envelope, and of each record in the script's file, under which
  setting it opens to what its employee enrolled, and of the file's progress what is
  imported; `MigrationSafe` follows, for any number of migrations that are broken off
  anywhere. `ScoredByFittedCalibration` follows from what a reload that waits for the lock
  has checked (`RuntimeInv`). Of the start, `Checked` says at each stage of the boot what
  has been looked at; `StartupSpec` starts from every configuration, TLC's instance from
  those that differ from a good one in two settings.
* **`PhoneProofs`**. Tokens follow the session because the two are kept and dropped
  together (`TokensOwned`) and, while they are the last login's, so is the profile shown and
  each that is on its way (`OwnProfile`), of which there is one unless the form was
  submitted while busy (`OneSubmit`); the beats are chained
  because the timers that are set are the one that is named. `RunsFollowScreens`: a run
  that shows something belongs to the screen that is open, which carries
  `PhoneCheckinSound`. `FormSound` is inductive once it is known who is watched and
  asked for what (`WatchesKnown`), that a PIN on its way belongs to the tap
  (`SentIsPending`) and that a flash is short. For `EvidenceHonest`, `KnownSoFar` says at
  each step of the sequence what the phone has learnt; that a photo stays above the
  floor is an argument about each turn of the encoder's loop (`Encoding`). `HomeSound`:
  a login that does not overlap is alone (`LoginAlone`), the tokens are of the employee its
  profile is asked for (`ProfilesOwn`), and ledgers hold their owner's records in order
  (`LedgersOwn`). `VerdictsFair`: at each guard of each stage the answer it
  gives tells the flaw it found (`GateTells` to `VerifyTells`, a row of each guard table
  at a time); `VerdictInv` adds what has been decided, entered and compared by then.
* **`BackOfficeProofs`**. Uniqueness of codes is the index's, of the forms' reports an
  invariant on each stage of the handler; a face matches its photo because an update that
  overlaps none embeds the photo it wrote. For `Offices` the drafts and the posted
  requests carry the invariant: what a tab submits was confirmed, or was read from what is
  stored, and stays what it was when the form goes on changing. `DeactivationEnds`, a half
  of `AccessSound`, is not inductive: `AccessInv` adds that a request for tokens has read
  its account at most `SignStall` ago, and nobody's who is out of service since.
  `OutageNeverBlocks` needs the account of requests that were rejected but not yet counted
  (`StrikesCounted`: strikes and such requests together are at most the rejections), which
  uses the library's facts on finite sets, and so assumes finitely many slots. Then:
  - *Days.* `DaysRoundTrip` is an argument about intervals on a circle of seven days.
    `DaysCounted`: Dhaka's days divide the instants (`DayOfInstant`, `StartOfDay`), each
    query's count is of one day (`CountHolds`), and check-ins only grow (`KpisHold`).
  - *Screens.* `FenceSound`: a draft's position was placed or listed (`DraftsSeen`), and
    the map follows it (`MapFollows`). `BoardSound`: one invariant each for socket, map and
    tile; handlers of a map that is not loaded wait in order (`HandlersWait`).
    `QueuesAgree`: lists have a row once, whatever was listed has arrived, and a decided
    row is off every list that is not about to be fetched (`DecidedIsOff`).
  - *Photos.* `WidgetFollows`: a widget shows the one upload that is under way or the one
    that ended last, and what was uploaded fits what was signed (`OnlyWhatFits`).
  - *Leave.* `ApprovalsCharged` sums over the requests by the community modules' fold.
    That a sum over a finite set exists, and takes one more request by adding its charge,
    is shown by induction on the size of the set (`SumsExist`, `SumUnfolds`). The
    library's induction theorems have an operator as parameter, so the induction goes
    through the least counterexample instead (`NumbersInTurn`, from `WFMin`).
  - *Pages.* `Matching` is built entry by entry (`KeptUnfolds`), and one that comes in
    pushes each row on by at most one place (`Grown`). `ExportUnderWay` says what an
    export has fetched and what lies ahead; between the two reads of a page it is torn
    only by a row that came in or went (`disturbed`).
  - *The table.* Every page on the way to the one looked at, fetched or held was turned to
    on a total that reaches it (`WayPromised`, `HeldPromised`), and logs are never deleted
    (`NeverFewer`), so of all logs no page turned to is empty; `PagesExplained` follows
    from what an answer is made of (`AnswersRead`).
  - *Permissions.* `ConsoleMatchesApi`, the other half of `AccessSound`, compares tables:
    every page's calls are routed with permissions of its readers (`OfferedIsAnswered`),
    no call has routes with different permissions and every permission of the console is
    one some page needs (`AnsweredIsOffered`).
* **`PartsProofs`**: a behaviour of `MCParts` is a behaviour of each part (`...Follows`: its
  first state is, and each step is a step or a stutter), and `focus` never changes. So
  each property of `parts` whose name stands for several, and `TypeOK`, follows from
  those of the parts.

Assumptions of constants are in the modules, next to them. Most say that a bound is a
number; those with content are `TtlAssumption` (true of the defaults, not enforced by
the settings), finitely many slots and requests, `HomeAssumption` (what one page fetches
fits what the phone keeps), `TableAssumption` (the page size is positive and one filter is
"all"), `FenceCircleAssumption` and `NoZoneIsNoCircle` (the null
value is no proper one).

`DeadlineIsFixed` and `ReplaysAreRenewed` are action properties: each follows from
the invariant and one step.

Only model-checked: the liveness properties (`LockExpires`, `HandlerEnds`,
`EveryCallReturns`, `BootEnds`), which the prover's backends do not reach. Every other
property of a passing run is a theorem. What a violation refutes has no theorem, of course;
the counterexample is in the run.

## 5. Not modelled, and why

* Face models, quality and liveness measurements: numeric; their outcome is an input
  of `Checkin`, `Verdicts` and `PhoneEvidence`.
* Cryptography: signatures, hashes and ciphers do what they are meant to do. Of an
  envelope it is modelled under which key and data it opens.
* Policies and billing: single-document reads and writes, with no property beyond the
  assignment.
* The console's shell, lists and forms beyond those above: presentation.
* The backend's request log, audit log, response headers; the in-memory store of the
  AI service's tests; `clear` and other seams nothing calls.
* Deployment, seeds, contracts and the documents.
* Abstracted inside the modules: lengths of backoffs and windows where only their
  order counts, wording except in `Verdicts`, the metric of the sphere, the query
  library and socket.io beyond what each header names, tokens' signatures.

What a next step would prove: the refutations' positive sides, such as what the review
queue keeps of a failed decision when no two overlap, and what a logout leaves when no
refresh is on the wire.
