# Pragatishala in TLA+

TLA+ models of the Pragatishala skill-development application (a FastAPI
backend in `src/backend/app`, a React single-page application in
`src/frontend/src`), the TLC configurations that check them on small instances,
and proofs for TLAPS. Every action and operator names the code it stands for in
`PROJECT.json` ("map"). Paths below are relative to `src/`.

## 1. The system

The backend is one asyncio process. A handler runs without interruption from
one `await` that really suspends (the database, the LLM provider, a queue, a
send) to the next, so those are the borders of the actions. The browser's
JavaScript runs to completion in the same way between two `fetch` results.

| Component | State | Operations | Correct when |
|---|---|---|---|
| **Rate limiter** `backend/app/ratelimit.py` `SlidingWindowLimiter` | one deque of hit times per key, a counter of admissions | `check`, `refund`, `reset`, a sweep every 512 admissions | no key exceeds its budget in any window; `Retry-After` is neither early nor late; the deque is the recent part of what was admitted |
| **Middleware and refresh budget** `RateLimitMiddleware`, `routers/market.py` | the limiter, the requests inside the application | admit, reject with 429, refund a redirect, draw from the hourly budget | a redirect never costs twice; at most one request goes uncounted per redirect |
| **Event bus and SSE streams** `events.py`, `routers/events.py` | subscribers and sequence number per user, a bounded queue per stream | `subscribe`, `unsubscribe`, `publish`; connect, send, keep-alive, disconnect, clean-up | every event is delivered in order or its number is missing; no stream is cut off by another; one that ends by itself is unregistered |
| **Market report cache** `services.get_market_insights`, table `market_reports` | one row per role | SELECT, generate, INSERT or UPDATE, re-read | age of answers, honest `refreshed_at`, a row from one outcome unless refreshes overlap, cold-start race answered; only the engine can fail a request |
| **AI workflows** `services.run_assessment`, `generate_learning_path`, `generate_resume`, `update_resume` | tables of assessments, paths, résumés | look up, engine, commit, publish; load, edit, commit, re-read | events name committed rows of their user, every row is announced, paths use the owner's newest assessment, concurrent edits keep each other's columns |
| **Browser session** `api/client.ts`, `auth/AuthContext.tsx`, pages | tokens in `localStorage`, `user`, `initializing`, requests in flight | bootstrap, sign-in, registration, refresh and retry, logout, reload | the user shown owns the stored tokens; a retry keeps its account; flows and the spinner end |
| **Accounts and tokens** `services.register_user`, `authenticate_user`, `apply_profile_update`, `security.py`, `deps.py`, `routers/auth.py`, `routers/users.py` | table `users`, issued JWTs | register, login, refresh, profile update, look-up of the bearer | one account per address; a token is accepted only as what it was issued for |
| **Schema upgrades** `database.py` | columns present, versions recorded | create tables, ALTER, record, at each start | a recorded version has its column; a crash or a second process does no lasting harm |
| **LLM providers** `ai/provider.py` | none | call, parse, validate | a call ends with the provider's answer, the rules' answer, or an error that changes nothing |
| **Rule-based engine** `ai/engine.py`, `ai/skills_data.py` | none | analyse text, plan a path, draft a résumé, market snapshot | levels and years are those of the skill's own clause, plans cover the gaps first |
| **Settings** `config.py` | the environment, and what a process has cached of it | validate, read once per process | no invalid value reaches the process, and no two configurations meet in one |
| **Wiring and health** `main.py`, `routers/health.py` | the application, its provider, its debug routes | import, lifespan, answer `/healthz` | what a process uses and discloses is of one configuration; a start that fails half-way spoils nothing |
| Schemas, presentation | none of their own | | |

How they interact: the browser calls the API through the middleware; a
workflow calls the engine, commits its row and publishes on the bus; a stream
reads the bus; the market router calls the limiter that the middleware uses
(one instance in `app.state`); everything behind a bearer token resolves the
user first; all of them read the settings the process has cached.

What is hard to test, and where it bites, is the list "hazards" of
`PROJECT.json`: interleavings at the suspension points, one limiter for two
windows, full queues, cancelled waits, a slow request that finishes last,
column-level updates, late answers after a logout, stops between two
statements, an environment edited while a process starts, words that are a
skill's name only where the text says so.

## 2. Modules

| Module | Models | Composes |
|---|---|---|
| `SlidingWindow` | what a rate limiter promises: the abstract specification | |
| `SlidingWindowLimiter` | the class of that name | implements `SlidingWindow` |
| `SlidingWindowLimiterProofs` | theorems | `SlidingWindowLimiter`, TLAPS |
| `RequestGate` | the middleware and the refresh budget | `SlidingWindowLimiter` |
| `RequestGateProofs` | theorems | `RequestGate`, `SlidingWindowLimiterProofs` at the gate's keys |
| `EventBus` | the bus and the SSE streams | |
| `EventBusProofs` | theorems | `EventBus`, TLAPS |
| `MarketCache` | `get_market_insights` for one role | |
| `Workflows` | the three AI workflows and the edits of résumés | `EventBus` |
| `WorkflowsProofs` | theorems | `Workflows`, `EventBusProofs` |
| `SessionClient` | the browser session | |
| `SessionClientProofs` | theorems | `SessionClient`, TLAPS |
| `Accounts` | registration, sign-in, tokens, profile edits | |
| `AccountsProofs` | theorems | `Accounts`, TLAPS |
| `SkillScoring` | how the engine reads skills and levels out of a text | |
| `SkillEngine` | the engine's calls, the provider's replies, path planning | `SkillScoring` |
| `EngineProofs` | theorems about the engine, and about the cache of its market reports | `SkillEngine`, `MarketCache`, TLAPS |
| `SchemaUpgrades` | starting on any database, with stops | |
| `Deployment` | the life of a process: environment, settings, provider, database, tokens | `SchemaUpgrades` |
| `DeploymentProofs` | theorems about both | `Deployment`, TLAPS |
| `MC...` | the instances TLC checks | the module of that name |

Operators introduced by "Wrong on purpose" are what a plausible bug would make
of the definition that follows them; nothing refers to them. Each of them makes
TLC refute one of the properties, which shows that the property depends on that
line of the code ("mutants" in `PROJECT.json`).

**SlidingWindowLimiter.** `hits` is `_hits` (an absent key and an empty deque
read alike), `checks` is `_checks` modulo `_SWEEP_EVERY`. `CheckAllowed` and
`CheckRejected` are the two ways through `check`: prune by this key's cutoff,
compare with the limit, record and perhaps sweep, or quote `retry_after`. The
sweep uses the cutoff *of the check that triggered it* for all deques, as the
code does. No method awaits, so each is one action. `log` is a history variable.
Limits are positive: callers skip the limiter for others.

**RequestGate.** `Arrive` is `__call__` up to the call of the application,
`Answer` the start of its response; in between, other requests run. A request
is its route class, host, user and whether its path ends in a slash (which
Starlette answers with a redirect). The refund takes the latest hit of the
bucket, whoever's it is.

**EventBus.** The bus's lock is held across no `await`, hence never contended,
and its methods are atomic. `phase` is the suspension point of a stream's
generator. `Abandon` is a response dropped before its generator began: Python
runs no `finally` block of a generator that never started, so the subscription
remains. `RegisteredWhileOpen` is stated one way for each case (a client that is
there is registered; a stream that was cleaned up is not) and claims nothing of
an abandoned stream. The keep-alive period is taken as positive.

**MarketCache.** The phases are the suspension points of
`get_market_insights`. `Written` is SQLAlchemy's UPDATE, which names only the
columns whose value differs from the one loaded; `refreshed_at` always differs,
because an aware time replaces a naive one. The engine call ends with a report
(`Generate`) or with an exception that is no `AIError` (`EngineRaises`), which
ends the request; its session has written nothing by then. `EngineAnswersServed`
says that nothing else ends a request without a report. One role: the
normalised role selects the row, and rows share nothing.

**Workflows.** `job[r]` holds the local variables of request `r`; the stages
are its suspension points. `Commit` is atomic, and `session.refresh` only
reads the row back. A stop of the process at any point leaves the rows and
nothing else, so a restart is an `Init` with old rows. `created` is
`created_at`, a rank: the flush reads the clock before the INSERT gives the id,
so that ids need not be in the order of creation, and `Newest` goes by the
stamp first, as the query does. `Fetch`, `Update` and `Reread` are
`update_resume`, with SQLAlchemy's UPDATE as in `MarketCache`; `overtaken` is a
history variable that says which columns other edits named meanwhile.

**SessionClient.** A stored token pair is represented by the account it belongs
to, a request by the account of the token it carries. A step is one response or
one click with everything that runs up to the next `fetch`. One tab; React's
StrictMode, which runs effects twice in development, is not modelled.

**Accounts.** `conn[c]` holds the local variables of the request on connection
`c`; a handler is cut at its look-up and its commit. A token is its user, type
and time of issue: what the library rejects (signature, issuer, audience) is not
a token here. `Written` is SQLAlchemy's UPDATE again: only columns whose value
is no longer the loaded one. Nothing in the code deletes an account, so the
"user is gone" answers cannot occur and are left out.

**SchemaUpgrades.** `exists`, `columns` and `recorded` are what the connection
sees, `kept` what a stop would leave. `Ddl` decides which statements are durable
at once: always where the database commits implicitly (MySQL), and outside a
transaction in SQLite, whose driver opens one at the first INSERT. The list of
upgrades is a constant of any length (it has one entry today); a release knows a
prefix of it, and the next start may be of any release. One process at a time,
as `docs/deployment.md` demands.

**Deployment.** `Import` is `create_app` at the import of `app.main`, which
fills the cache of `get_settings`; `Lifespan` builds the provider and hands
over to `SchemaUpgrades` (`Boot`), whose other actions are `Upgrade`; `Exit` is
its `Stop`. `Edit` changes the environment, at any time. A definition that
reads the settings does so through `GetSettings`, as its code does. The signing
secret is its name and what the validator measures of it; a token is its
signature and the process that issued it (`Accounts` has the rest of it). An
invalid environment makes the import raise, so there is no process; a provider
without its key ends the process before the database is opened.

**SkillScoring.** A text is a sequence of words and separators, its
abbreviations' dots masked, a comma or a stop hanging on the word before it.
Years are a word of their own ("5 years"), so that positions between a figure
and a mention are the tokens the code counts there. What the regular
expressions find is expressed over positions: the mentions (longest alias
first, left to right), the scope of a mention, the gap between a figure and a
mention, the level words that count for it.

A sentence break is a character. A stop is a word that is nothing else; a name
such as "Node.js" or ".net" has one inside (`BreakAt` says where), which the mask
leaves alone: it ends the sentence for whatever stands beside the name, and not
for the name. `SentenceBounds` is the sentence in whole words, for what looks at
words; `Sentence` its ends in characters, for the windows, which may begin with
the "js" of a name.

An alias that is also an ordinary word ("go", "led", "lambda") counts only in
the context the code asks for: a verb of use before it, talk of skills within
24 characters of its own sentence, or a preposition before it and another
mention nearby; and against it stand its vetoes and missing cues. These windows
are in characters and may end inside a word, whose beginning is then read as a
word: the constants that stand for patterns say which beginnings of a word the
pattern takes (`EndsOf`). `Vouches`, `Vetoes`, `Cues`, `Usage` and `Causative`
are the patterns' constants. The vetoes of "swift" and "node" (several words,
white space at the end), a dot inside a word that is no alias, hyphens, and "led
a team" as context of another alias are left out.

These operators were compared with the results of the Python code: levels on
every four-word text over fourteen words and thousands of longer random ones,
homographs on 25,000 random texts of up to eleven words with the code's
windows, names with dots on 24,000 of up to ten. They agreed on all of them.

**SkillEngine.** A user writes a narrative word by word, so that the run covers
every text up to the bound, then has it assessed and asks for paths and
résumés. Each call computes the rules' answer first and then waits for the
reply, which is of one of the classes `complete_json` tells apart: valid, turned
into an `AIError` (the rules' answer is returned), or let through. A target role
is its set of words, and `RoleProfile` the choice of the family whose title
shares most of them. Of a résumé only the calls that raise are modelled, of an
assessment the gaps and the readiness, of a path its skills. `ResumeRaises` was compared with the code on all texts of up
to five lines that are empty, white space, bullet characters or prose.

## 3. Runs

| Run | Instance | Shows |
|---|---|---|
| `limiter` | 2 keys with windows 3 and 5, limits 2 and 1, sweep every 2, clock to 7, 2 ticks per second | `ShortKeyBudget`, `HitsAreRecentLog`, `RetryAfterHonest`, refinement of `SlidingWindow` at the shortest-window keys |
| `refresh_budget` (violation) | the same | `EveryKeyBudget` fails: a check of a 60-second bucket sweeps away hourly hits |
| `gate` | 2 connections, 1 host, 1 user, 5 requests, clock to 3 | `NeverOverCounted`, `UnderCountPerRedirect` |
| `event_bus` | 2 users, 2 streams, queues of 1, 3 and 1 events | `Accounted`, `GapMeansDropped`, `RegisteredWhileOpen`; `Delivered`, `CleansUp` under fairness |
| `market` | 3 requests, 2 LLM contents, TTL 1, requests of up to 2, clock to 3 | `EngineAnswersServed`, `AnswerAge`, `RefreshedHonest`, `IntactWithoutOverlap` |
| `session` | 2 accounts, 4 actions | `SessionCoherent`, `OneAccountPerFlow`; `EveryFlowEnds`, `SpinnerEnds` under fairness |
| `workflows` | 2 users, up to 2 old assessments in any order of stamps or an old résumé, 2 requests, 3 bodies of edits, 1 stream | `EventsNameRows`, `PathsOfOwnAssessments`, `PathFromNewest`, `ResumeEditsKept`; `EveryRowAnnounced` under fairness |
| `accounts` | 1 address in 2 spellings, 2 passwords, 2 connections, 3 requests, access tokens live 1, refresh tokens 2 | `OneAccountPerAddress`, `RegisteredCanSignIn`, `BearerFresh`, `EditsExact` |
| `duplicate_registration` (violation) | the same, 2 requests | `DuplicateIsConflict` fails: the loser of the race gets a server error |
| `schema` | 2 tables, 3 upgrades, 3 stops, both kinds of DDL; 5 environments, of which 2 serve, 2 edits | `RecordedHasColumn`, `StartsClean`, `ServesConforming`, `OneConfiguration` |
| `skill_engine` | texts of up to 5 words over 4 vocabularies: 9 words for levels (3 skills, one named by two words of which the second is a level word; proximity 2), 7 around "go" and 7 around "led", "LED" and "lambda" with the code's windows, 8 around "node.js" and ".net"; 3 role families, 4 roles; one family has a skill without a module; paths of up to 3; 3 provider answers | `EvidenceIsOwn`, `PathCoversGaps` |
| `level_sharing` (violation) | the same, the vocabulary of levels | `SiblingsShareLevel` fails: the word "learning" of "Deep Learning" is taken for a level |

Why these bounds are enough to mean something. *limiter*: one window passes
while the other key's does not, the deque fills, is pruned and swept, and
Retry-After has a fraction to round. *gate*: two requests overlap in the
application, which is all a refund can confuse, and the budget is met and
exceeded within one window. *event_bus*: with room for one event, three events
make a delivery, a drop and a delivery after the gap; the second user's event
shows that queues do not mix. *market*: one request fills the row, two overlap
on the stale one; a request can outlast the TTL. *session*: sign in, start a
request, log out and sign in as the other account are four actions. *workflows*:
a path is built while an assessment of the same or another user is committed,
the older of two assessments has the larger id, and two edits of one résumé
overlap at every step; the third body changes nothing, which is what the
column-level UPDATE turns on.
*accounts*: two requests race, a third comes before or after; `Init` may start
with an account and its tokens, so that edits need no requests to get there.
*schema*: two upgrades of one table put an ALTER inside the transaction that the
first INSERT opened; three stops allow a release, its roll-back and its return,
each stopped half-way; two edits change the environment to one that does not
serve and back, or to the other that serves, at any two points of a start, and
the values of the environments sit on the validators' boundaries.
*skill_engine*: of two skills, a level word and a
separator five words make every order; proximity 2 is shorter than the text, so
that a figure can be out of reach; a path of three modules is too short for the
longest list of gaps and too long for the shortest. The words around "go" make
every way of vouching and the veto, and with a break among five words each of
them also stands in another sentence. The dotted names are one with the dot
inside and one, ambiguous, with the dot first, so that a window can begin or end
in the middle of a name. Vocabularies are not mixed: what one
homograph reads in the text is unaffected by another, except as a mention, which
"python" stands for.
`CHECK_DEADLOCK FALSE` is set where a bound stops the system: clocks, event
numbers, requests and actions run out. The engine always has a next call, and
its runs check for deadlock.

Each property of a passing run has a mutant that the same instance refutes
("mutants").

The violation runs are disagreements between the code and what a document, a
comment or a test says of it; each is quoted in `PROJECT.json` ("findings").
More facts the models show, where no run claims the contrary ("note" of the
hazards):

- a provider's body that is not JSON, or a message without content, escapes the
  fallback and ends the request with a 500, of an assessment, path, résumé or
  market report, although the rules' result is there (`Escaping`,
  `EngineRaises`); `engine.py:4-6` and `docs/architecture.md:44` promise the
  fallback "on any failure";
- the dots of names are sentence breaks to the skills beside them: "Expert in
  Node.js, Python" leaves Python a beginner, as "Expert in Machine Learning,
  Python" does for the reason that `level_sharing` shows;
- a subscription whose stream never began is never removed (`Abandon`), although
  `docs/architecture.md:70-71` says that a stream "unsubscribes on disconnect";
- an event dropped by a full queue and followed by none leaves no gap a client
  could see;
- two overlapping refreshes of one market report can leave a row with the
  columns of both, which `IntactWithoutOverlap` excepts;
- a request overtaken by a logout or a sign-in can store tokens, or show a user,
  of another account, which `SessionCoherent` excepts; `bootstrap` clears the
  tokens on a network error as well;
- a line of nothing but bullet characters in a résumé's texts ends the request
  with a 500 before the provider is asked;
- the rate limits are those of the import, although their docstring says that changes of the
  environment apply;
- a "to" within twenty characters after "led" voids it, in "Led the migration to
  Kubernetes" and across a sentence break, which `EvidenceIsOwn` excepts
  (`VoidedAcross`).

`Workflows` takes a call of the engine as one step that ends with an answer or
with an exception; `SkillEngine` says which of the two, and what the answer is.

### Fairness

`EventBus!FairSpec`: weak fairness of a stream's own steps. The event loop runs
what is ready, and a connected client is taken to read what it is sent.
Neither the keep-alive timer nor disconnections nor publications are fair.
`Workflows!FairSpec`: weak fairness of each request's steps: the provider has a
timeout and the database answers. `SessionClient!FairSpec`: a `fetch` resolves
or rejects. The user is never assumed to act. The limiter, the gate and the
cache need no fairness: their properties are safety.

## 4. Proofs

`SlidingWindowLimiterProofs` proves, for all keys, limits, windows, ticks per
second, sweep periods and without a bound on time (the clock's bound `MaxTime`
is any natural number), from `LimiterAssumption` alone:

- `TypeCorrect`, `HitsRecent`, `Budget`: `Spec => []TypeOK`,
  `[]HitsAreRecentLog`, `[]ShortKeyBudget`;
- `RetryHonest`: `Spec => []RetryAfterHonest`;
- `Implements`: `Spec => ImplementsSlidingWindow`, the refinement.

`ShortKeyBudget` is not inductive: it speaks of the history `log`, and whether a
new admission may be added to it depends on the deque `hits`. `IInv` ties the
two together for each key (`KeyInv`): the deque is the tail of the history, the
history is in clock order and not in the future, and, *for a key of the
shortest window*, what is in the history and no longer in the deque has left the
window (`Expired`). With it, an admission with fewer than the limit in the
pruned deque leaves the time `Limit` places before it a window behind
(`Spaced`). The last part is where the restriction to shortest-window keys is
needed: another key's sweep has a cutoff no later than this key's own. The
proof goes through lemmas about one deque and one history (pruning, appending,
removing the last, sweeping) and then the actions.

`RequestGateProofs` proves, from `GateAssumption` (all it says of the windows is
that the buckets' is not the longer: a minute and an hour), `GateTyped`,
`NoDoubleCount`, `RefundBounded`, `ServedBounded` (the type invariant,
`NeverOverCounted`, `UnderCountPerRedirect`, `ServedWithinBudget`; the run
checks the middle two, from which the last follows), `LimiterUsed`
(the gate, seen at the limiter, is a behaviour of `SlidingWindowLimiter`) and
`BucketBudget` (the buckets keep their limits although the hourly keys sweep
them). The two inequalities between the hits, the requests served and the
redirects speak of the window that ends now; a redirect removes a hit and a
request of different times, so what holds of one window says nothing of the
next. `GateInv` has them for *every* time a window can begin at (`CountsAgree`).
That the latest hit is popped is essential: the deque is in clock order, so when
its last hit is outside a window, all are. This order, and what pruning and
sweeping do, come from the limiter's own `IInv`; its lemmas are used through
`INSTANCE SlidingWindowLimiterProofs WITH Keys <- GateKeys, ...`.

`EventBusProofs` proves, from `BusAssumption`, for every set of users and
streams and every capacity: `BusTyped`, `EverythingAccounted`, `GapsAreDrops`
and `Registered`. These speak of open streams, or of the owner a stream happens
to have. `BusInv` adds that a stream which is not idle has exactly one owner and
an idle one has nothing (`OwnedAt`), and that whatever a stream has or had, even
when it is closed, was published to that owner (`PublishedAt`): the next number
published is then new to every pipeline, so that the order and the accounting
survive it. Not even the types are inductive alone, because the clean-up removes
the stream from its owner's set.

`EngineProofs` proves of the cache, from `CacheAssumption` and
`SentinelAssumption` (no report is taken for its absence), for any relation of
the TTL to the duration of a request: `AnsweredUnlessEngineFails`
(`EngineAnswersServed`), `AnswersYoung`, `StampsHonest` and `RowsIntact`. The two ages are bounds over several requests. `CacheInv` adds that
a request is within its duration (`InTime`), and that what others wrote while it
ran is recent seen from its beginning (`Recent`): a re-read after a lost race, or
an UPDATE that leaves another request's columns, can then not bring up an older
report than the bound allows.

`AccountsProofs` proves, from `AccountsAssumption`, for any canonical form
(`Lower` is idempotent, nothing else is used of it) and any token lives:
`AccountsTyped`, `AddressesUnique`, `RegistrationsLast`, `BearersFresh` and the
action property `ProfileEditsExact`. Uniqueness rests on the constraint of the
table and on every stored address being canonical (`TableInv`), of which the
look-up before the INSERT guarantees nothing in a race; `RequestsInv` says what
each local record holds at each stage: the bearer of an edit was accepted when
the request arrived.

`SessionClientProofs` proves, from `SessionAssumption`, for every set of
accounts: `SessionTyped`, `SessionsCoherent` and `FlowsKeepAccount`.
`SessionInv` adds what runs when (`FlowsInv`): while bootstrap, sign-in or
registration is in flight nobody is shown and no other flow runs, and a flow of
a page is of the user shown. A refresh can therefore only store tokens of the
account they are stored under. All of it holds as long as no request in flight
is overtaken by a logout or a sign-in, as the properties say.

`WorkflowsProofs` proves, from `WorkflowAssumption`, for every number of users,
requests and streams: `WorkflowsTyped`, `EventsAfterRows`, `PathsStayHome`,
`PathsFromNewest` and `EditsKept`. `WorkflowsInv` has four parts: ids are no
larger than their table and the stamps count up without a gap, so that a flush
never meets an existing id or time (`RowsInv`); a job that has its assessment
keeps a row of its own user that was newest when it was chosen (`SourceOf`); an
edit's row holds, outside the columns others named meanwhile, what the request
loaded and then what it wrote (`EditInv`); each announced event names a row
(`AnnouncedInv`). The bus inside the model is that of `EventBus`, and its
invariant is carried by citing `EventBusProofs`, not by proving it again.
`BusUsed` says what justifies this: seen at the bus, the workflows are a
behaviour of `EventBus`, so that its theorems hold of them. A publication is the
one step where that takes the invariant, which knows the user of a stage's job.

`DeploymentProofs` begins with `SchemaUpgrades` and proves, for every set of
tables, every list of upgrades and any number of stops, from `SchemaAssumption`:
`RecordedSound`, `NoStartFails`, `ServingConforms` and the type invariant. None
of the three properties is inductive. `SchemaInv` adds `LoopInv`: the loop has
passed only upgrades whose column is there (so that reaching its end means a
conforming database), `alter` and `record` are reached with what the look-ups
found (so that neither statement can fail), and outside a transaction what is
kept is what is seen (so that a stop leads back into the invariant). The one
lemma about `Ddl` covers both ways of committing.

Then, from `DeploymentAssumption` as well, for every set of environments:
`SchemaLife`, that a deployment is a behaviour of `SchemaUpgrades`, with which
the theorems above hold of it (`SchemaSound`); `ConfigurationIsOne`:
`DeploymentSpec => []OneConfiguration`; and `DeploymentTyped`.
`OneConfiguration` speaks of processes that have a database; `ConfigInv` adds
what is true before that (the cache is empty or holds what the process was
imported with, and is not empty when there is a database) and, for the tokens,
that none has the number of a process that has not started, which a new import
would otherwise have to accept.

`EngineProofs` proves of the engine, from `ScoringAssumption`,
`HomographAssumption` and `EngineAssumption`, for every text of any length,
every table of aliases, levels, years and patterns, all role families and all
answers of the provider: `EngineTyped`, `PathsCover` and `EvidenceStaysOwn`
(`EngineTypeOK`, `PathCoversGaps` and `EvidenceIsOwn` of the run). The
assumptions say that patterns match within a word (`IsReading`), that a word
with a break in it has it at one of its characters, that a stop is a word of its
own, of one character, and part of no name, that no acronym in capitals has a
break (aliases with dots inside are all allowed), that templates are
strings, that the default path is not empty and teaches nothing twice, and that
the provider's assessments are valid (`complete_json` validates them).
`EngineInv` adds to the types that there is at most one assessment and none
before the narrative has been assessed, and where a path comes from: it is the
rules' answer to the gaps of that assessment and some role (`RuleBasedFrom`).
What carries the theorems are facts about the operators.

- *What is computed word by word* (the spans of a text, character offsets, the
  missing skills, the ordered path) is a recursive function on `0 .. n`.
  `Recursion` shows that such a function exists, and `UpTo` is induction up to a
  number, stated of a set instead of a predicate, because the provers cannot
  instantiate the library's induction rules; it rests on the well-foundedness of
  the natural numbers (`LeastNumber`).
- *Paths.* `OrderedSteps` and `OrderedFacts`: after n names the path is
  injective, holds each teachable name met so far and nothing else, and never
  changes what it has (`OrderedGrows`); hence a gap precedes whatever came later
  (`EarlierFirst`), and the cut keeps a beginning of it.
- *Reasons* (`Warranted`). What `RankOf` picks lies in the mention's scope; a
  scope ends at the sentence and before the next mention of another skill
  (`IsScope`), so that no such mention is between the evidence and the mention.
- *Sentences apart.* A part of a text is what it has between two stops
  (`Part`). No alias contains a stop, so the whole finds in the part the spans
  the part has by itself, moved by the words before it, although spans are
  chosen from the left and depend on all before (`Agree`, `SpansOfPart`). From
  there everything that is read around a mention moves along, one lemma for each
  function of the code: sentence, offsets, window, context, vetoes and cues,
  scope, figures, shared level words, counts, rank. Only the causative `to` is
  sought beyond the sentence (`CausativeMoved`), which is why `VoidedAcross` is
  in the property.

TLC has checked all inductive invariants on the small instances as well. The bounds of the models (`MaxTime`, `MaxRequests`, `MaxSeq`,
`MaxStops`, `MaxWords`, ...) are any natural numbers in the proofs.

Every invariant and every safety property of the passing runs is a theorem.
Only model-checked: the liveness properties (`Delivered`, `CleansUp`,
`EveryRowAnnounced`, `EveryFlowEnds`, `SpinnerEnds`), which are out of the
prover's reach, as is `ENABLED`; and what the violation runs refute, which
is false.

## 5. Not modelled

Wording, logging, headers and layout; the strengths, summaries and hours of the
engine's answers; the vetoes of "swift" and "node", dots in words that are no
alias, and hyphens (see `SkillScoring`); request and response schemas, which hold no state; the
composition of routers and CORS; the connection pool, whose limits the code
leaves to the library (requests hold their session while the provider is
awaited, a stream until its client leaves); a keep-alive period of zero or less.
The reads that only list rows change nothing and are not actions.

## 6. Plan

1. *Core (done)*: the limiter, its abstraction and its proofs; the gate; the
   bus; the cache; the workflows; the session.
2. *Start and accounts (done)*: `SchemaUpgrades` with its proofs; `Accounts`.
3. *Engine and providers (done)*: `SkillScoring`, `SkillEngine`.
4. *Edits of résumés, `Deployment` with its proofs, homographs and role profiles
   (done)*.
5. *Proofs of the invariants (done)*: `RequestGate`, `EventBus`, `MarketCache`,
   `Accounts`, `SessionClient`, `Workflows`.
6. *Proofs of the engine and of the use of the bus (done)*: `EngineProofs`,
   `BusUsed`.

What a continuation could add: the vetoes of "swift" and "node" and hyphens in
`SkillScoring`, with the wider windows they need; several browser tabs in
`SessionClient`.
