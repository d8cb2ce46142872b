# TatkalFlow: a TLA+ verification project

TatkalFlow is a web application that prepares train bookings for the Tatkal
quota: a Fastify API over PostgreSQL (`apps/api`), a React application
(`apps/web`) and a package both share (`packages/shared`). This directory holds
TLA+ models of its logic, the TLC configurations that check them on small
instances, and theorems about them checked by TLAPS. Paths below are relative to
the repository.

## 1. Inventory

| Part | State | Operations | What makes it correct |
|---|---|---|---|
| Token service (`modules/auth/token.service.ts`, `auth.routes.ts`) | `auth_sessions`: one row per refresh token, linked into families | issue, rotate, verifyAccess, revokeByRefreshToken, revokeAllForUser | one live token per family; a token is exchanged once; a reader of a rotated token finds its successor; a revocation kills what it could see and is final; an honest race of tabs is not theft |
| OTP service (`modules/auth/otp.service.ts`) | `otp_sessions`: status, attempts, sends | request, resend, verify | a guess costs an attempt, a code signs in once, sends are spaced and capped, closed sessions stay closed, limits and lockout hold |
| Sign-in (`auth.service.ts`) | `users` | verifyAndSignIn | one user per mobile |
| Browser session manager (`packages/shared/src/client/session-manager.ts`) | per tab: access token, expiry, state, in-flight refresh; per browser: cookie, Web Lock, channel | getAccessToken, refresh, logout, request, bootstrap, acceptSignIn, onMessage | one refresh at a time, a signed-out browser stays signed out, the right user is shown |
| Web session cache (`apps/web/src/lib`) | query cache, previous user | clears on change of user | one user's data is never shown to the next |
| Journeys and templates (`modules/journeys`, `schemas/journey-config.ts`) | journeys and templates with ordered passenger, train and class lists | create, edit, duplicate, list operations, from-template, delete | every record can be booked from, its passengers are the owner's, limits hold, edits that do not race lose nothing, copies leave removed passengers out |
| Readiness (`packages/shared/src/journeys`) | none (pure) | computeReadiness, relevantRuleKeys, rule snapshots | "ready" has everything a booking needs; only relevant rules matter |
| Railway rules (`modules/rules`) | `railway_rules`, a 60 s copy in each server | syncFromRegistry, expireLapsed, get, getForBooking | values are immutable per start date, active periods never overlap, a registry is applied as written, a server is at most a minute behind |
| Stations (`modules/stations`) | stations, datasets, favourites, a 60 s search index | importDataset, search, requireActive, setFavourite, recordUse, mine | the active stations are those of the one active dataset, mass removal is refused, searches are at most a minute behind |
| Station search (`packages/shared/src/stations/search.ts`) | none (pure) | editDistance, searchStations | matches rank by kind, typos are counted right |
| Passengers (`modules/passengers`) | passengers | create, edit, soft delete | at most 50 |
| Journey editor (`apps/web/src/features/journeys/editor`) | a draft, the step, errors, a save under way, cached answers | the fields of six steps, next, back, save, errors of the server | what it lets through is accepted, an edit changes what was touched |
| Station picker (`apps/web/src/features/stations/StationPicker.tsx`, `lib/queries.ts`) | the text, the debounced text, the query cache, the marked option | type, arrows, Enter, click, clear | Enter takes a station of the text that is there |
| Trains, profile, HTTP layer, audit, redaction, configuration, scripts, other web views | little or none of their own | | see "Not modelled" |

How they interact: the HTTP handlers call the services; the services share only
the database, so everything that can go wrong between two requests goes wrong
between two SQL statements. The browser talks to the token service through a
cookie its tabs share. Journeys read stations, passengers, trains and rules and
store snapshots of them. Journeys, rules and stations write in transactions what
they decided outside of them.

The editor and the picker work with answers they have cached, and the
scripts that import stations and rules run in processes of their own, so what the
API keeps in memory (the copy of the rules, the search index) is never told.

What is hard here: interleavings of statements (nothing is serialised except by
row locks and conditional updates), requests abandoned between two statements,
a browser that retries what was already done, decisions taken on rows, copies and
answers read earlier, and limits that are counted before they are used up.
`PROJECT.json` lists each of these hazards at its line with the properties that
cover it.

## 2. Modules

| Module | Models |
|---|---|
| `SessionFamilies` | abstract specification of token families: open, exchange, revoke |
| `TokenService` | every operation on `auth_sessions`, one action per SQL statement |
| `MCTokenService` | instances of it for TLC |
| `TokenServiceProofs` | its theorems, and that it implements `SessionFamilies` |
| `OtpService` | one-time codes and sign-in, one action per SQL statement |
| `MCOtpService` | instances of it for TLC |
| `OtpServiceProofs` | its theorems |
| `SessionManager` | the tabs of one browser: session manager, query cache, cookie, lock, channel, and the server as they see it |
| `MCSessionManager`, `SessionManagerProofs` | instances of it; its theorems |
| `JourneyConfig` | journeys, templates and saved passengers: every handler, read by read and write by write |
| `MCJourneyConfig`, `JourneyConfigProofs` | instances of it; its theorems |
| `RailwayRules` | the registry sync, row by row, and the copy of the rules a server keeps |
| `MCRailwayRules`, `RailwayRulesProofs` | instances of it; its theorems |
| `Readiness` | the readiness check list and the rule snapshot as pure operators |
| `JourneyEditor` | EXTENDS `Readiness`: the editor, what it caches, its requests and the facts that change meanwhile |
| `MCJourneyEditor`, `JourneyEditorProofs` | instances of it; its theorems, and those about readiness |
| `StationSearch`, `StationSearchProofs` | ranking and edit distance as pure operators; what they compute for every text |
| `Stations` | EXTENDS `StationSearch`: imports, the search index, favourites |
| `StationPicker` | EXTENDS `Stations`: the picker and its query cache over that API |
| `MCStationPicker`, `StationPickerProofs` | instances of it; the theorems about imports, index and picker |

### TokenService

The columns of `auth_sessions` are functions of the row; `revokedAt` and
`revokedReason` are always written together and are one column, `status`. A
request in flight is a member of `Proc` with a program counter. `rotate` is
`SendRefresh, Lookup`, then either `Race` (the token was already exchanged) or
the transaction `Claim, Insert, CommitRotation`, with `Lost` for a claim that
matched nothing. The revocations are `SendLogout` or `SendLogoutAll` (or `Race`,
for a detected replay), then the transaction of `revokeWhere`: `Scan` takes the
first UPDATE's snapshot, `Revoke` updates one selected row, `Rescan` begins the
second UPDATE, `CommitRevoke` commits. `Abort` rolls a transaction back.

The database is PostgreSQL at READ COMMITTED, the default the code does not
change: a statement sees what was committed when it began; an UPDATE that meets
a row another transaction has written waits for that transaction and then tests
its WHERE clause on the new version; locks are held until the end. `written` is
the set of rows a transaction has locked, and a status changes only at a commit.
`SerialTx = TRUE` is PGlite, the database of development and of the tests, which
runs one transaction at a time (`docs/pglite-postgres-compatibility.md`).

Data abstracted: a refresh token is its row (hashing is injective for this
purpose), a device is an (IP hash, user agent) pair, an access token is the row
it was minted with. `user.deletedAt` is never set by any code and is left out,
so are the audit rows written after the effect: one that fails turns the answer
into an error after the commit, which for the state is a lost response, and
`Return` does not say whether the response arrived.

### OtpService

Nothing in the OTP service runs in a transaction: every action is one
autocommitted statement or one call of the delivery provider, and `Crash`
abandons a request between any two. `request` is `SendRequest`, the three counts
of `enforceRequestLimits` (`CheckLimit`), `ExpireOlder`, `Create`, `Deliver`;
`resend` is `SendResend, ReadForResend, Resend, Deliver`; `verify` is
`SendVerify, ClaimAttempt, Check` and then `Lapse`, `LockSession` or `Consume`,
after which `verifyAndSignIn` goes on with `LookupUser, UpsertUser, IssueTokens`.

Codes are not spelled out: every send makes a new random code, so a code is the
number of the send it went out with, guess *k* is right while `sendCount` is *k*,
and guess 0 never is. (The development provider may have one fixed code for
everything; that is outside the model.) `ticket` and `compared` are history: the
attempt number a request's claim produced and those whose guess was compared.

### SessionManager

The other side of the token service. A tab has its `accessToken` (`acc`), the
state it shows (`view`, `shown`), the private data its query cache holds (`cache`:
whose it is and what wrote it) and at most one refresh in flight (`flight`); a caller
(`Call`, at home in a tab) makes a query, an update of the profile, a bootstrap, a
sign-in or a logout (`kind`). A purge cancels queries only: the answer of a query that was
under way is ignored (`dropped`), that of an update (`useUpdateMe`, the one mutation
that writes what it is answered into the cache) is not. `held` is history: whose tokens
a tab has had since it changed the user it shows. JavaScript runs one event at
a time, so an action is an event with everything up to the next `await`; when a
refresh ends, the callers that joined it all go on in the same action (`Finish`).
The variable `env` says what browser and network a behaviour is about;
`HasLocks`, `Prompt`, `Lag` and the like read its fields. `line` is the queue of
the Web Lock; without Web Locks (`HasLocks` FALSE) each tab waits only for itself,
as `InMemoryLock` does. `inbox` holds the messages of
the BroadcastChannel, in order and arbitrarily late, or, if `Prompt`,
handled before anything else happens. A response changes the cookie (`jar`) when
it arrives. The server takes one step per request; the interleavings inside it are
`TokenService`'s. A token of a higher number expires later, or in the same second if
both are of one tick; a message with a token of the same second may be ignored
(`SameTick`), as `onMessage` compares whole seconds. Left out: the refresh token's own 30 days,
IP and user agent (one browser), 403 and 429 answers (they behave as a lost
response: an error, and no change of the cookie; 403 does not occur on the app's
own origin), the second call of React's strict mode.

### JourneyConfig

A request goes through `Load` (findJourney, findTemplate), one `ReadList` per list
it depends on (Prisma reads each relation with a SELECT of its own), `Decide` (the
merged route, the item that is there already, the limit), `Resolve` (the passengers
are the user's and saved) and `Insert` or `Update`; `Count` is the cap of templates
and passengers. A transaction that writes is one step: its first statement is a
conditional UPDATE that takes the row lock, or an INSERT of a new row. `Planned` is
what is written: a PATCH always writes the whole route and the quota, merged with
what was read, and the lists it was sent; the list operations write the list that was
read with an item more or less. `Fail` stands for a request that is abandoned and for
every refusal that is not modelled. `stale`, `raced` and `gone` are history.

Data abstracted: dates, names, options and berth preferences are only stored; the
stations' and trains' existence are refusals like `Fail`; priorities are the order of a
list, which `writeJourneyLists` numbers 1..n as it rewrites it. Every journey is a
DRAFT, the only state any code sets. `Limit` gives every quota a limit; a quota without
a configured rule is one with a limit no list reaches.

### RailwayRules

A sync is `Start` (the file is parsed as a whole), `ReadExisting` (the rows of all
entries at once) and then, entry by entry, those first that were found, `Look` (the
transaction's checks) and `Write`; `ExpireLapsed` ends it, an error does so earlier
(`End`), with the entries before it applied. READ COMMITTED makes the look and the
write two steps. A reader is a request of one server: `Ask` takes the copy if it is
young, `Fetch` and `Store` make one; two fills may overtake each other. `InForce` and
`ForBooking` are what it answers. Source, URL and notes are left out, and whether
there is evidence (source URL, date, verifier) is one bit of the row. `alone`,
`raced` and `lastWrite` are history.

### Readiness and JourneyEditor

`ComputeReadiness` gives the items of the check list, a key and a status each,
from a configuration, the facts of the moment and the snapshot of the rules; a rule
is an identity, a value, its status and whether it is verified or due for review.

`JourneyEditor` has the draft, the step and the errors of the page, the requests and
answers under way, the record and the facts on the server, and the answers the browser
has cached (`held`), each as old as it may be: `Refetch` may come at any time, or
never. `Open` makes a draft of the cached record, each field has its action, `NextStep`
and `Save` check as `validateStep` does with what the page knew at its last render,
`Handle` is the server (its interleavings are `JourneyConfig`'s) and `Answer` what the
page makes of its answer, which may be lost. What `Handle` refuses is what the schemas
and the services refuse (`SchemaFields`, `BadFields`, `Refuses`), the 404 of a record that
is gone, the 409 at the cap of templates (`NoPlace`) and UNKNOWN_TRAIN included; the facts
it looks at are the day, the active stations, the saved passengers, the rules, how many
templates there are, whether the record is deleted, and the trains of the provider
(without a provider there are none, and any number is taken). `scene` says which fields
the user touches and what happens meanwhile: midnight, an import that drops a station,
another rule, a removed passenger, another device that saves or deletes the record, or
saves and deletes other templates. A page that the user has left is "away", whichever page
follows: a success after that still takes the user to the record's page.

### StationSearch, Stations and StationPicker

A word is a sequence of letters, already normalised, and a station a code with
names; `Words` are the places where its words begin and end. `Score` and
`SearchStations` follow the code's numbers (1000, 850, 25 ...). `Distances` is the whole
table of `editDistance`, a function on pairs of positions; `EditDistance` gives up where
the code does, at the lengths or at a row that is all over the bound. A sorted or filtered
list says what stands at each place (the k-th is the one that k - 1 come before), which
is what `sort`, `filter` and `replace` do when no two sort keys are equal.

An import is `Submit`, `ReadDatasets` (the checksum is the set of records),
`ReadStations` with the guard against mass removal, and then its transaction: `Write`
the stations (it waits for another transaction that has written one of them), `Archive`
the datasets its statement sees as ACTIVE, `Commit` the new one unless the version was
taken. Rows become visible at the commit. A search is `Ask`, and if the index is too
old `ReadVersion`, `ReadRows`, `Store`. `Mine` is every answer the favourites and
recent stations may have.

The picker composes with that API: `Debounce` makes the text the observed one,
`Observe`, `Deliver` and `Lose` are the query cache of react-query as the code uses it
(`staleTime`, `placeholderData`, no abort, answers in any order), `EnterTakes` is what
the key would take. Its favourites and recents (`scene.suggested`) are fixed.

### Fault variants

An operator named `<action>_<fault>` and commented "Fault:" stands before the
action it deviates from. It is that action with one plausible slip, is used by no
specification, and shows that the properties notice such a slip when it takes
the place of the original.

## 3. Runs

| Run | Shows |
|---|---|
| `token_devices` | two devices, two concurrent requests of any kind, three tokens of one family, one clock tick: the inductive invariant of the proofs (one live token, one successor), a revocation kills all it could see, and the model implements `SessionFamilies` |
| `token_live` | one browser, two families of a user, one tick, which is the whole grace period: an honest race is never taken for theft (`SameBrowserRaceIsNotTheft`), and every request is answered (`Answered`, liveness) |
| `token_logout` | on PostgreSQL a logout need not revoke its whole family (a violation, see Findings) |
| `otp_guesses` | three concurrent requests on one session, any of which may be abandoned, two attempts, two sends, failing deliveries: guesses, single use, cooldown, closing |
| `otp_limits` | two concurrent requests for one mobile, four sessions, one attempt each: hourly limits and live codes are exceeded by less than one session per request (`OneLiveCodePerRequest` is one live code if one request at a time runs), sessions locked within the lockout period stay within the threshold and the codes and requests under way (`LockoutHolds`), and a session without attempts is closed (`ExhaustedIsClosed`) |
| `web_browsers` | two tabs of four browsers: with locks and late messages, the same with two users, with a slow device clock, without locks. No exchanged token is sent again (`NothingReplayed`), a quiet tab's token is of the cookie's session, a cleared cookie comes back with a sign-in only, what queries have cached is of users whose tokens the tab has held (`QueriesOfItsTokens`), and without locks races, with all retries, neither revoke the session nor lose its cookie |
| `web_live` | two tabs, lost responses and server errors: every call ends, so the lock is always released; the same for one tab that two users sign in to in turn, with queries and profile updates |
| `journeys` | two requests at a time in nine mixes of verbs and bodies: every record can be booked from (`RecordsWellFormed`), exceeds its limit only if edits raced; caps are passed by less than one row per request at a time (`CapsHoldUpToConcurrency`); an edit that did not race does what it says and nothing else (`UnracedEditsApply`); copies leave removed passengers out |
| `rules` | two scripts with any of five registries (a rule closed with a successor, another value, an overlap, retired rules), or one under two requests of a server: immutability, no overlap unless both write at once, successors find room whatever the order of the file, a lone sync applies its file, answers are at most the TTL old |
| `stations` | imports by two scripts from an empty or installed master, the index while one commits, sixteen query texts, favourites, and the picker with two texts, refetches and lost answers |
| `editor` | fourteen scenes: what the editor lets through is accepted, but for facts it does not ask for or cannot know (`AcceptedIfKnown`), an edit changes what was touched (`EditKeepsTheRest`), READY has everything (`ReadyIsSafe`), rules that are not relevant do not matter (`OthersDontMatter`), a second record takes a lost answer (`OneRecordPerSave`) |
| `editor_stale` | the editor can start with a removed passenger (a violation, see Findings) |

Further properties stand in the modules beside those, for a reader who changes the
code they are about. They hold on the same instances, and for every value of the
constants where they are proved: `TypeOK` everywhere (proved); `AtMostOneLive`,
`ExchangedOnce`, `RotatedHasSuccessor` (conjuncts of `IInv`), `ConflictHasWinner`,
`DeadFamilyStaysDead` and `RevocationIsFinal` of the token service (proved); `IInv` of the OTP service
(proved); `OwnersOnly` and `PassengersOwned` of `JourneyConfig` (proved);
`NoMassRemoval` (proved) and `MineIsComplete` of `Stations`. One does not hold, and no run
checks it: `OneUsersData` of `SessionManager`, the promise of `session-cache.ts:48-52`
(see Findings).

Bounds. Most runs quantify over a set of scenes, settings or mixes in `Init`: each is
an instance of its own, kept small, and a run checks them all. Races here are between
two requests and the row they share; two slots show every pairwise interleaving, and
`otp_guesses` adds a third because an attempt limit of two needs three guesses to be
exceeded. Three rows let a family
be rotated twice, so a token can be replayed when its successor has itself been
rotated; `token_live` has two, one per family or a rotation of one, because its
liveness property cannot use symmetry. `MaxTime` is the least that lets each window
(grace, expiry, cooldown, hour) be open, at its edge and, where it matters, over; all
clocks read the service clock, which `Tick` advances at any moment. `otp_limits` has one
mobile and one network, so the smaller of their limits binds. `RoomForOne` accepts a new
code request only while the bounded table has room for its row.

In the browser, two tabs and two callers show every race for the cookie, and
`MaxTime = 1` with a token life of one tick lets a token be fresh, expire while it
is used and be renewed; `Lag` makes a device believe an expired token fresh, which
leads through the 401 branch of `request`. In
`Strangers` u1 may return with the cookie of an earlier visit and u2 signs in, in either
tab; no token expires there, so that refreshes come from bootstraps and from tokens that
a logout has revoked. Tokens (`MaxRows`) and sessions
(`MaxFamilies`) are enough for each tab to renew once or twice. `web_browsers` and
`web_live` say CHECK_DEADLOCK FALSE because a browser may really come to rest: once
the bounds on rows and time are used up nobody has to do anything. Three limits are
assumptions about the world and not bounds: `NothingReplayed` supposes that no
response is lost (a browser that never gets the response of a refresh will replay
its token); `RacesKeepTheSession` that the tabs are quicker than the grace period; and
`QuietTokensAgree` supposes one session per browser, a BroadcastChannel and prompt
messages, because a sign-in takes no lock, and a tab that is not told of a logout, or
told late of a token, keeps it.

In `JourneyConfig` two slots show every race for a record, three templates let a cap of
one be passed by two requests (`CapsHoldUpToConcurrency`; nobody begins
with more passengers than two requests at a time can have made), and lists have up to two items so that an order can
change and a limit of one or two be exceeded. In `RailwayRules` two ticks give a period
an inside, an end and a successor, and the TTL of one tick lets a copy be young, at its
edge and old; every registry can meet what any other has left. `ClosedMakesRoom` and `SyncApplies`
speak of registries in which no row stands twice (`NoRepeats`). In `Stations` two ticks
do the same for the index and the favourites, `MinDataset` and `MaxDropPercent` are such
that datasets of one to three stations fall on both sides of both checks, and `Take` and
`Slice` are less than the stations there are. The fuzzy match allows an edit from four
letters and two from seven in the code, and from three and five here (`MidWord`,
`LongWord`; `Enough` is two for three), so that words of at most five letters reach
every branch; the bounds enter no other place. `TyposAreCounted` compares every word
of a query with every word of a station for the bounds 0, 1 and 2. The picker has two
texts, which is what an answer and a placeholder of another text take. `stations` says
CHECK_DEADLOCK FALSE: a server without requests and without an import to come stops.
In the editor the cap of templates is one (`MaxTemplates`), and their number goes from none
to one above it. One to four fields are touched per scene; the effects of the fields are
independent but for route, quota and passengers, which have scenes together. It is not
opened again while a save is under way.

Fairness. `token_live` and `web_live` assume some. In the browser: granted locks
are used, requests answered or reported as failed, messages delivered and timers
fired (weak fairness of each tab's and each caller's steps); nobody has to start
anything. In the service, the server goes on with each accepted
request (weak fairness of its steps); row locks are granted in the order they
were asked for, so a claim or update that can run again and again does run
(strong fairness of `Claim` and `Revoke`); PostgreSQL's deadlock detector aborts
a member of a cycle of waiting transactions (weak fairness of `Deadlocked /\
Abort`). `NoRowLeft` ends a rotation the bound on `Row` leaves no row.

## 4. Findings

* `token_logout`: a rotation that is open when a logout's first UPDATE takes its
  snapshot commits its successor after it. The successor stays live, although the
  logout was answered 204. The comment at `token.service.ts:217` and the test at
  `multi-tab-refresh.test.ts:204` say the whole family ends revoked; the test runs on
  PGlite, where it does (set `SerialTx = TRUE` in `token_logout.cfg` and the run
  passes). Browsers with Web Locks do not send the two requests at the same time.
* `editor_stale`: removing a passenger refreshes the list of passengers
  (`lib/queries.ts:109-115`) but not the cached journeys. An editor opened next makes
  its draft of the cached answer (`EditTrip.tsx:25`), with the removed passenger, who
  cannot be deselected because the list does not show her any more; the save is
  refused. `draft.ts:84` says the editor leaves removed passengers out.

What else the code does that a reader might not expect, found with the same
modules on these or other instances:

* A 500 during a refresh clears the cookie of a live session, while
  `auth.routes.ts:58` says the cookie is cleared only when the session is gone.
* Two concurrent requests for a mobile both expire the older codes before either
  inserts its own, and both codes work (`otp.service.ts:62` says only one does).
* The lockout of `LockThreshold` sessions can reach `LockThreshold + 2 * n - 2` with *n*
  requests at a time: *n* codes may be live when the threshold is reached and *n* - 1
  requests already past the test.
* A request that dies between the claim of the last attempt and the lock
  (`otp.service.ts:170`) leaves a PENDING session without attempts: nobody can use it, and
  it does not count towards the lockout. `otp_limits` has no such request.
* A delivery that fails after the session was locked overwrites LOCKED with EXPIRED
  (`otp.service.ts:207`), and the session no longer counts towards the lockout.
* `session-cache.ts:48-52` says that the purge comes "so one user's data can never be
  shown to the next". The purge cancels queries; a mutation under way goes on. When the
  answer of PATCH /api/me comes after the user has signed out and another has signed in,
  `onSuccess` of `useUpdateMe` (`queries.ts:74`) puts the profile of the first where the
  second's is shown. `web_live.cfg` with `INVARIANTS OneUsersData` is violated in the
  setting `Visitors`, with one tab and nothing else out of order.
* A request that is answered 401 is sent again with the token the tab has by then
  (`session-manager.ts:257`). If another user has signed in meanwhile it is hers, so a
  change of the profile made by one user is applied to the other's.
* A tab that refreshes before it has heard that another user signed in elsewhere keeps the
  name and the cached data of its user and adds the other's to them: `refreshNow` cannot
  tell, as the response does not say whose token it is. It takes a message that is late, a
  bootstrap whose `/api/me` is, or a browser without BroadcastChannel, which `api.ts:33`
  provides for: `web_browsers.cfg` with `INVARIANTS OneUsersData` is violated in the
  setting `Strangers`. That is why `QueriesOfItsTokens` speaks of the tokens a tab has held
  and not of the user it shows.
* Without BroadcastChannel a tab also keeps its token, and what it shows, after another
  tab has logged out; the token works until the server looks at its revoked row.
* A bootstrap whose `/api/me` answer arrives after another tab logged out ends
  authenticated with no token; its next request signs it out.
* Two concurrent additions to one list lose one of the items
  (`config-lists.routes.ts:74-81`), and a PATCH of the quota with a concurrent addition
  of a passenger exceeds the limit of the new quota. That is why `LimitHoldsUnlessRaced`
  and `UnracedEditsApply` speak of edits that did not race. Where no limit is
  configured, adding passengers one by one also goes past `MAX_JOURNEY_PASSENGERS`.
* A sync writes VERIFIED again for a rule whose period has ended, and then EXPIRED,
  each time it runs; a server that reads in between sees it verified. Two syncs of
  different registries can leave overlapping periods; the later start wins. Among
  entries that exist already the order of the file still matters. A registry that lists
  one row twice is not refused: the entries are applied one after the other, and what the
  file says of the row is then not what is there.
* Two imports of disjoint datasets at the same time leave two ACTIVE datasets, and one
  that went by stations another one has changed since leaves stations of neither. The
  script cannot invalidate the index of the API, which is a minute behind.
* In the picker, Enter within the 150 ms after a key takes an option of the text
  before. When a searched text is cleared, `isPlaceholderData` keeps `fresh` false, and
  Enter does nothing on the favourites. ArrowDown on an empty list marks option -1.
  Favourites beyond the 50 rows that `mine` reads are not shown.
* A save from the editor sends every field of the draft, so it undoes what another
  device has changed since the cached answer; changes made while a save is under way are
  lost when it succeeds; when the answer of a creating save is lost, saving again
  creates a second journey; an empty name leaves the old one, although the hint of
  `steps.tsx:46` says the route becomes the name. If the answer of a save is lost that
  left out a boarding point because it was the new origin, the draft still has it, and a
  later save with another origin puts it back.
* The editor asks neither how many templates there are nor whether its record is still
  there: with all templates used up (`templates.routes.ts:41`), or the record deleted on
  another device, it leads through all six steps to a save that is refused, with a message
  on the last. The same happens with a train number that was taken while no provider was
  configured, once there is one that does not know it. `AcceptedIfKnown` lists these.
* The GeoJSON parser of `import-stations` drops the aliases that its header
  (`station-parsers.ts:7`) lists among the fields of a feature.

## 5. Proofs

For every value of the constants allowed by the assumptions of the modules, that is any
number of rows, families, devices, sessions, tabs, journeys, items, registries, stations,
scenes and concurrent requests. The assumptions (`TokenAssumption`, `OtpAssumption`,
`SessionAssumption`, `JourneyAssumption`, `CapAssumption`, `RulesAssumption`,
`SearchAssumption`, `StationsAssumption`, `PickerAssumption`, `EditorAssumption` and the
`SceneAssumption`s) give the constants their types and say that "none" is no member of a
set. What they say beyond that:

* `OtpAssumption` and `CapAssumption`: finitely many requests at a time, without which
  "limits hold up to concurrency" would say nothing; and nobody begins with more saved
  passengers than such requests can have made.
* `CodesAssumption`: station codes have at most eight letters (`station.ts:5`), every station
  has a name, and `Rank`, the order of `localeCompare`, tells codes apart.
* `RulesAssumption`, `StationsAssumption`: the copy of the rules and the index live for at
  least a tick (both are 60 s in the code).
* `SceneAssumption` of the editor: records are such as the API stores (what `TypeCorrect`
  then maintains), and a configured passenger limit is between 1 and
  `MAX_JOURNEY_PASSENGERS`, as `ruleValueSchemas` demands.
* `PickerAssumption`: the texts of the picker are not empty, and other clients
  ask other texts, so that the text of a request says whose it is.

**TokenService.** None of the safety properties is inductive alone: that a family
has one live token depends on who may still insert one. `IInv` adds, to the types
and the three table properties, `RotationInv` (a rotation between its claim and
its commit holds the lock of a row that is still live, and its successor's row is
filled in but invisible), `LockInv` (a row is written by one open transaction,
successors of open rotations are distinct) and `SeenInv` (every row a revocation
saw is dead, or still to be reached, or locked by it). `NextIInv` goes through
the actions and under each through the conjuncts. The commit of a rotation is the
interesting case: no second live row can appear because the first is locked and
stops being live in the same step. `VisibleSteps` shows that only a sign-in and
the two commits change what others can read; the action properties and the
refinement (`StepSimulation`, then `Refinement`) follow from it.

`RacesAreNotTheft` needs to know why a loser finds what `isBenignRace` looks for. Time
runs along a family (`OrderInv`), so a live row is young enough whenever there is one; a
row marked rotated belongs to a family that still has a live row (`HeirInv`); and a
revocation keeps it so although its two statements do not see the same rows, because the
second reaches every rotated row that the first could not (`RescanInv`). That is what the
second statement of `revokeWhere` is for. What is still taken for theft is a token of a
family that a logout has ended, where nothing is left to revoke (`TheftInv`).

**OtpService.** `IInv` says who holds what: claimed attempts are distinct and at
most `attempts` (`TicketInv`), the winner of a session is unique and the session
not PENDING (`WinnerInv`), and what a resend read is still true as long as
`sendCount` is (`ResendInv`). `GuessesAreLimited`, `CodeUsedOnce`, `CooldownHolds`
and `ClosedForGood` follow. `ExhaustionCloses` assumes that requests do not crash
and uses `CloserInv`: while a session without attempts is PENDING, a request that
will close it is on its way.

The limits are counting arguments. `QuotaInv` counts, with the sessions of the last hour,
the requests a limit has let through and which have not made theirs: the sum stays below
the limit and the number of requests, since the last one let through saw less than the
limit. `LiveInv` counts live codes and requests about to make one, which have expired the
others before. For the lockout, `Risk` is the sum of locks, live codes and requests past
the test; a lock uses up a live code, a code uses up a request, and a new request is let
through only below the threshold. The clock makes sessions leave a window and never enter
it.

**SessionManager.** With Web Locks, whoever is between the grant and the end of a refresh
or a logout stands at the head of the queue, so there is one (`LockInv`). Then the cookie is
not removed while it is being exchanged (`CookieInv`), and is an exchanged token only while
the response that replaces it is on its way, with nothing sent meanwhile (`ExchangeInv`):
`NoReplay` and `RemovedCookieStaysAway`. `RowInv`, `RefInv` and `FlightInv` say that tokens in
use were issued and that a tab's variables fit its refresh; `SignedInv` that the token of
a sign-in under way is nowhere else. Without locks, `QuickInv` gives `RacesAreHarmless`: a
rotated token has a live successor no older than the rotation, so its bearer gets a 409 and
retries. `TabsAgree` distinguishes three times of the one session: not heard of yet
(`BeforeInv`), with a cookie, and over; then a tab that still holds the token has the
message of the logout before it (`AgreeInv`).

`DataStayApart` is about what session-cache.ts does achieve, in every behaviour: with any
number of tabs, calls and users, with or without locks and channel, what queries have
cached in a tab is of users whose tokens it has held since it changed the user it shows.
`HeldInv` is what has to be maintained: besides that, the token a tab has is among those it
has held, and so is that of every call in flight that no purge has cancelled. A step keeps
the user of a tab (`Keeps`), adding at most one answer to its cache (`Adds`), or shows
another and cancels what is in flight (`Purges`). That the user shown is the owner of the
tokens is not claimed, and updates of the profile are left out: neither is so (Findings).

**JourneyConfig.** `IInv` says that records are well formed (`RecordInv`), that bodies
are what the schemas let through (`BodyInv`), and that what a request has read is a
part of some well-formed record, complete once it decides (`SeenInv`); so whatever it
merges with what is there now is well formed again. The case of `Update` is the
interesting one: the route is always written as a whole, so a stale route replaces the
current one and never mixes with it. `HeldInv`: an edit or copy in progress holds a
record that exists and is its user's. `PassengerInv`: the passengers a request holds are
its user's and, for a new record, none of them was gone when the request came; it gives
`PassengersAreTheOwners` and `NoRemovedPassengers`. `FreshInv`: an edit that is not stale
holds what the record has, and whoever is about to save is within the limit; it gives
`LimitIsKept`, and with a case for every verb (`UpdateEdits`) `EditsDoWhatTheySay`.
`CapInv` counts a user's rows with the requests for more that were let through, as in the
OTP service; it gives `CapsHold`.

**RailwayRules.** `WriteInv`: a sync that is about to write is at an entry of its
registry, and the rows it found are still there; `ValuesNeverChange` follows, as a write
to a row that was found leaves its value alone. `RoomInv`: while no two syncs have
written at once, a sync at its write has room for the period it writes; only its own
writes can change that, hence `PeriodsStayApart`. `LoneInv`: every row of a registry whose
sync is alone is as the file says if the sync is done with its entry, and else as the sync
found it. An entry's turn is its rank, the number of entries that go before it (entries
that were found go first), so that no induction over the file is needed; `RankOrder` shows
that ranks are distinct. `SuccessorsFindRoom` and `RegistryApplied` follow. `CopyInv`: a
copy, stored or being made, equals the ACTIVE rows if the table has not changed since it was
begun; `QuietAnswersAreFresh` follows because a copy is used for less than the TTL.

**Stations.** Two transactions that write one row are not open at a time (`Apart`), so the
statement that archives sees what the other has inserted, and a dataset it misses has no
station in common with its own (`Captured`): `ActivesAreDisjoint`. While no other import
has committed, what an import has read is what is there, and what it archives all that is
ACTIVE (`Unovertaken`): `StationsAreTheDataset`, and with `LetThrough`, `RemovalsAreGuarded`.
`SearchInv`: what the index, or a request that makes one, has read at some moment is up to
date if no import has committed since; `AnswersFresh` follows because an index is used for
less than `IndexTTL`. This is the server's search; how old the answers are that the picker
keeps is nobody's claim (its cache holds them for its own `StaleTime`, and longer until
something asks again). `CacheInv`: whatever the picker's cache holds for a text is what the
search makes of that text for some state of the stations, so the list that Enter takes from
is empty or such a list for the debounced text (`ListsAreOfTheText`).

**StationSearch.** What the search computes is proved for every alphabet, every text and
every list of stations. There is no induction over data here: a finite set that is ordered
has, for each k less than its size, an element that k others come before (`Ranks`), so it
has a least element, and a property that fails at some place fails at a first one
(`Least`). In this way `Recursion` shows that a function defined by recursion
on an ordered finite set exists and is what its equation says, which `DistancesTable` uses
for the table of `editDistance`; `LengthsDiffer` and `RowsAfter` that a cell is
at least the difference of the lengths, and that nothing after a row that is all over the
bound is within it; hence `EarlyReturnsAreExact` and `TyposCounted`. `Ranks` also says what
the sorted list is (`ResultsOf`). `NameScores` and `KindScores` put each kind of
match into a band of scores, so a result of a worse kind cannot have the better score
(`ResultsAreRanked`); code prefixes stay above names because codes are short. A list has
only stations of positive score for its text, which with `ListsAreOfTheText` gives
`EntersMatch`.

**Readiness and JourneyEditor.** `TypeCorrect` includes that lists stay free of repetitions,
which rests on what `filter` keeps: its items stand in places with the k-th having k - 1
before it, and `Places` shows, by counting, that there is such a place for each k.
`RequestInv`: one request at a time, and what is on its way was checked. With it
`KnownSavesAreAccepted` compares `validateStep` with the schemas and the service, field by
field, for saves where nothing is wrong that `validateStep` does not look at: the day, the
stations, the passengers and the limit are those the editor knew, the record exists, a new
template is below the cap, the trains are the provider's. `KeepInv`: until somebody else saves, the draft and the request made of it have the
record's value in every field that was not touched, for the three reasons `Kept` lists;
`UntouchedFieldsStay` is its consequence at `Handle`. `CreatedInv`: while a request is on
its way, each record made belongs to a lost answer. `ReadyMeansSafe` and `RelevantRulesDecide`
are lemmas about `ComputeReadiness` for every record, facts and snapshot of their types;
`ReadyJourneysAreSafe` and `OtherRulesDontMatter` are their consequences.

Only model-checked:

* `Answered` and `CallsEnd`: liveness under fairness is out of the prover's reach.
* `MineIsComplete`, about the answers of favourites and recent stations.
* The violations `token_logout` and `editor_stale`.

## 6. Plan

What would be worth adding next:

1. The proof of `MineIsComplete`; and a run for `OneUsersData`, once updates under way are
   bound to the user who made them and a refresh knows whose token it got.
2. The trip pages' use of the cached answers, with the invalidations of
   `lib/queries.ts`, as one model of the query cache that picker, editor and session
   cache share.
3. The redaction of audit data and logs against a reference definition.

## 7. Not modelled

* The content of the profile and the PATCH of a passenger: updates of single rows that
  nothing else decides on. When the answer of a profile update arrives is in
  `SessionManager`; that an IRCTC account is linked is a fact in `JourneyEditor`.
* The search for trains: a read-only catalogue. Whether a train serves a route is in
  `Readiness`, and that a provider refuses trains it does not know in `JourneyEditor` (in
  `JourneyConfig` it is one of the refusals of `Fail`).
* The HTTP layer and configuration: set-up of Fastify and its plug-ins. What its
  handlers do with the cookie is in `SessionManager`.
* Audit log and redaction: rows that are only appended and never read back, and a pure
  rewriting of keys.
* The tables of later phases, and the Tatkal date engine: a schema without code, and an
  interface without an implementation.
* The other views: they show what the API answers and keep nothing.
* The seed, and the argument handling of the scripts.
