# A TLA+ model of api-registro-femicidios

The API keeps a registry of femicide cases and a board of news articles that may report new ones.
It is a Koa service over one PostgreSQL database, deployed as several short-lived instances; a
scheduler calls one of its endpoints every six hours. The handlers are small. What is hard about
them happens between them: every `await` is a point where other requests run, every statement can
fail or lose its reply, and the same rows are written by hand-kept lists of columns in several places.

All paths below are relative to the root of the repository.

## 1. The system

| Part | Code | State it keeps | Operations |
|---|---|---|---|
| Case endpoints | `src/routers/cases.js` | tables `cases`, `victims`, `aggressors` | create, update, get, list, statistics |
| Case schema and validation | `src/openapi/schemas/case.js`, `src/openapi/validations.js` | none | validate and coerce a body, check cross-field rules |
| Statistics | `src/data/caseStats.js` | browser cache of the answer | aggregate the filtered rows |
| Feed board | `src/routers/feed.js`, `src/data/feedItem.js`, `src/services/google/alerts.js` | table `feedItems` | refresh, list, and six transitions |
| Keyset pagination | `src/lib/keysetPagination.js`, `src/middleware/cursorError.js` | the cursor the client holds | encode, decode, page |
| Sign-in | `src/routers/auth.js`, `src/lib/oauth.js`, `src/lib/crypto.js`, `src/services/google/openid.js` | xsrf cookie, signed code and token, all held by the browser | authorize, callback, token |
| Users | `src/data/user.js` | table `users` | upsert |
| Request authentication | `src/middleware/auth.js`, `src/openapi/securitySchemes.js` | none | check a bearer token or the internal key |
| Database access | `src/services/knex.js` | connection pool | transactions, text matching |
| Historic import | `historic-data/` | input file, dead-letter file | transform, post line by line, compare |
| Shell | `src/app.js`, `src/config`, logging, OpenAPI document, profiles, enumerations, migrations | none at run time | |

How they interact. A request passes authentication, validation and then its handler
(`src/openapi/index.js`). The handlers share nothing but the database: there is no in-process state
two requests both write, so instances matter only through the tables and the pool. The refresh is
called by the scheduler and reads from Google; users triage the items it inserts; a case is entered
by hand by whoever read the article, so the board and the registry share only the users. The historic
import is a client of the create endpoint.

What makes each part correct:

- *Case endpoints*: a create or an update is one document that takes effect once, whole, or not at
  all, and is answered accordingly; a case has exactly one victim and one aggressor of its own; what
  is returned can be edited and sent back.
- *Feed board*: no article is lost or repeated, however refreshes overlap or break off; only users
  triage; only who has taken an item completes it.
- *Pagination*: a walk visits every row that stays put, once.
- *Sign-in*: a token names the account that consented in the sign-in whose verifier is presented, in
  time; an account is one user, for ever; an operation that reads its user runs on what a sign-in left
  behind, never on the scheduler's key.
- *Statistics*: every row is counted once in each breakdown; equal data give equal figures; nothing
  shown is older than the cache allows.
- *Import*: every line of the input is a case or in the dead-letter file; only a commit in doubt and a
  file that is run twice make two cases of a line; a yes is what the sheet says.

## 2. Modules

| Module | What it is |
|---|---|
| `CaseRules` | What a body must satisfy and what rows it is written as: the schema with Ajv's coercion of nulls, `caseValidations`, INSERT and UPDATE, `omitNullValues`. Operators only. |
| `CaseForm` | One case, requests run one after the other, at the level of fields: `Refuse`, `Create`, `EditMissing`, `Edit`. |
| `CaseFormProofs` | Theorems about `CaseForm`. |
| `CaseRegistry` | The abstract specification: a registry of whole documents, requests that take effect at one instant between being asked and being answered. |
| `CaseStore` | The same requests, interleaved statement by statement over the three tables. |
| `CaseStoreProps` | Its properties, the refinement mapping to `CaseRegistry`, the inductive invariant. |
| `CaseStoreProofs` | Theorems about `CaseStore`. |
| `CaseRegistryProofs` | The theorem that `CaseStore` implements `CaseRegistry`. |
| `FeedBoard` | The refresh and the transitions over `feedItems`, interleaved at their awaits, with its properties. |
| `FeedBoardProofs` | Theorems about `FeedBoard`. |
| `KeysetPagination` | The paginator: cursors and what they lose, their validation, the comparison and the order. Operators only. |
| `ListWalk` | A client that walks a list page by page while the table changes, with its properties. |
| `ListWalkProofs` | Theorems about `ListWalk`. |
| `AuthFlow` | Browsers, Google, the callback, the token endpoint and the table of users; which request may run which operation. |
| `AuthFlowProofs` | Theorems about `AuthFlow`. |
| `CaseFigures` | The filters and the aggregations of the statistics. Operators only. |
| `CaseStats` | Tabs and browser caches that show them while cases change, with its properties. |
| `CaseStatsProofs` | Theorems about `CaseStats`. |
| `HistoricRow` | How a row of the old spreadsheets becomes the body of a create. Operators only. |
| `HistoricImport` | The conversion of a sheet and the posting loop, its failures and its re-runs. |
| `HistoricImportProofs` | Theorems about `HistoricImport`. |
| `MC...` | Instances for TLC. |

`CaseForm`, `CaseStore` and, through `HistoricRow`, `HistoricImport` extend `CaseRules`: the import is
refused by the same rules as the form. `CaseStoreProps` instantiates `CaseRegistry` with
`registry <- Registered`, the tables seen through the join of the GET handler.

### CaseRules and CaseForm

A body is three functions (case, victim, aggressor) from the fields it carries to values, so
`undefined` is a field outside the domain and JSON `null` is `Null`. The fields kept are those some
rule reads, plus one required field the update handler gives no default (`place`), one optional field with
a list of values (`nationality`) and, in each part, one optional field no rule reads. `ListedValues` is the
`enum` of the first two, of which two values each are kept. `CoercedPart` is what Ajv does in place before the handler reads
the body: `null` becomes `0`, `""` or `FALSE`, and fails a list or an enum. The truthiness of each
type is written out (`NonZero`, `NonEmpty`; a list is truthy even when empty). `UpdatedRow` keeps a
column that is in neither the body nor the handler's list of defaults, which is how an UPDATE behaves
and why a forgotten default shows.

### CaseStore

One action per SQL statement. `txn[r]` holds the uncommitted writes of request `r`; `Commit` merges
them, every failure drops them. A statement waits while another transaction has written the row it
wants (`RowFree`, `CaseIdFree`: the unique index waits for an uncommitted key). `Lookup` is the query
the PUT handler makes outside its transaction. Sequences are never given back (`serial`), `MaxId`
stands for their end. A body's own `id`, which the schema lists as `readOnly` and nothing enforces, is
inserted as the key by a create and sets the key by an update (`CaseKey`, `KeyTaken`, `gone`).

Failures: `StatementFails` (any statement, with its connection), `StatementRefused` (primary key,
sequence), `PoolTimeout`, `CommitUnconfirmed` (applied, reply lost), `Lose` (the instance or the
client is gone). `effect` is a history variable: whether the request has committed.

### FeedBoard

A row is named by the article it was made from, with the columns the transitions write. An article
has the two unique columns (`key`, `link`), the `story` that `dedupeFeedItems` compares (normalised
title and site), and whether `feedItemFromRss` throws on it. Every statement is its own transaction.
`Fetch` is all feeds or none (`Promise.all`); then one `INSERT ... ON CONFLICT DO NOTHING` per feed,
each of which can fail and end the refresh. `Inserted` says which rows one such statement keeps: those
that conflict neither with the table nor with a row it kept before. `matched[r]` records whether a
transition's UPDATE changed a row, which is what its answer says.

### KeysetPagination and ListWalk

A paginator is a sequence of keys, as in the code; a row is a record; a moment is a number, of which
the database tells `PerMs` apart in one millisecond. `Encoded` is what a key becomes in a cursor: a day
stays a day, a moment is cut to milliseconds (`ToMs`). `Decodes` is the validation whose failure is
answered 400. `IsPage` is what `ORDER BY ... LIMIT` promises: a first part of the rows, with ties in
any order, possibly another order in each query.

`ListWalk` walks the case list or the feed list with one of its statuses (`Lists`). `NextPage` is one
GET. Meanwhile cases are created and edited (`WriteCase`), articles inserted by a refresh
(`InsertItem`, stamped with the database's clock) and transitions change items: `Stamp` is the
`new Date()` of `src/data/feedItem.js:167` and its like, `Transition` the statement that writes it some
time later. `visits`, `touched` and `cursors` are history: how often a row was on a page, which rows
were created or changed since the walk began, and the cursors given. A body may carry any integer as the id of its case, 0 included since a null is coerced to it: a create
inserts it and an update moves the case to it (`MoveCase`). An id in a cursor must be positive
(`src/lib/keysetPagination.js:9`), so a page that ends at such a case gives a cursor that is answered 400
(`CursorRefused`), and the walk is over ("refused"). Days are taken to keep their value
when the driver reads a `date` as local midnight and `encode` cuts the UTC string, which holds where
the process runs at UTC or west of it.

### AuthFlow

The service remembers nothing between the requests of a sign-in but the users: what a sign-in needs
travels in a cookie and in redirects. A sign-in `f` of the model stands for its xsrf token and for its
PKCE pair, both random. `Authorize` picks the token; its answer (`Redirect`) sets the cookie later,
when Google's configuration is known, so the answers of two tabs can overtake each other. `CookieSent`
is what the browser sends back, nothing once `maxAge` has passed. When the configuration cannot be fetched the
answer is a 500, and the cookie goes out with it (`AuthorizeFails`, `Store`): `logRequest`, the outermost
middleware, catches the error and only changes the status (`src/middleware/log.js:16-21`), so the headers set
so far stay. `Callback` can be reloaded and signs
a new code each time. A post to the token endpoint goes through `Verify` (code, expiry, PKCE),
`Exchange` (Google gives an account out once per code) and `Upsert` (`ON CONFLICT ... MERGE`, which
draws an id from the sequence even when the row is there); each of the two awaits can fail before or
after it took effect. Clients are honest: they present codes and verifiers their browser holds, mixed
up between its tabs, late or twice. `RequireAuth` tries the checkers an operation lists. What passes as a
bearer is any JWT of the one key (`SignedJwts`), since nothing in a JWT says what it is for
(`src/lib/crypto.js:36-53`): access tokens, and codes, whose payload has no id. The requests of `FeedBoard`
are those that carry an access token.

Seen while modelling, and kept as the code has it: without a `state` parameter the client gets back
the text "undefined" (`src/routers/auth.js:53`); a user who declines at Google comes back to a code
whose exchange ends in 500; each login burns a value of the sequence of `users.id`.

### CaseFigures and CaseStats

`Selected` is `applyCaseFilters`: a lower bound that is included, an upper one that is not, and
equality on the rest. `CountBy` groups in order of appearance and sorts stably by `Compare`, as the code
does; the rows come in any order, the query having no `ORDER BY`. In `CaseStats` an answer is computed in
one step (the handler reads with one query), arrives any time later, and is stored by the browser for
its URL. An order of the rows is a permutation of their ids, sorting is by rank (`Rank` counts what
comes before an element), and groups are told apart by the list of values of their first row, as
`Object.groupBy` does. The age of a stored answer is counted from the request that brought it. `writes` is history:
the times of the writes, so an answer's version says how many it saw.

### HistoricRow and HistoricImport

`HistoricRow` keeps the cells that the rules of the form relate, three required cells and the
nationality. On this one `buildVictim` calls a method whether it is there or not: one row without it,
such as the empty one after a final newline, and nothing is converted. It is also the only one of the
form's listed texts that is sent as the sheet has it (`ParseNationality`), and is refused when it is not
in the list. The others are looked up, and a value that is not found is left out; but the list of
categories has one that the form does not (`Categories`, `CaseCategories`). In the body, `place` stands
for all the required fields (`RequiredFields`): it is missing when one is, and has a value the form
refuses when one has. The layout in the repository leaves out three columns the code reads
(`historic-data/lib/tsv-transform.js:31-32, 105`); sheets with and without them are checked.
`HistoricImport` is the loop of `import-all`. Its `set -e` ends the script when curl fails, so the test
of `CURL_EXIT` (`historic-data/import-all:32`) is never reached with an error; whoever runs it may run it
again on `cases.json`, on the dead letters of any earlier run that were kept under another name, or on
`deadletter.json` itself, which is emptied before it is read. `files` has the lines of each of these
files, and any of them may be run at any time, after a run that broke off too. The URL is taken not to
redirect: a 401 (a wrong key) and a 500 are the errors the service answers with whatever the line
(`Failed`). `Filled` says what the columns of a sheet may hold: the two forms of "no data", yes, no and
nothing in a yes/no column, numbers or nothing in a count, any text elsewhere. `used` (how often each
file was run), `madeNow`, `failed` and `doubtful` are history.

## 3. What TLC checks

| Run | Question | Bounds |
|---|---|---|
| `case_form` | Over any history of edits: can what GET returns be sent back unchanged, do stored facts keep their premises, does an edit leave a residue? | every filling (absent, null, each truth value) of each group of related fields, one group at a time |
| `case_store` | Do the tables implement the registry of documents? Do the ids looked up stay right? | 3 requests, 2 documents that differ in every part and one refused, ids 1..2, pool of 2 |
| `case_store_body_ids` | 1:1 and no orphans when bodies carry ids; is every request answered? | 3 requests for one document and one path, bodies without id and with the other one, pool of 2 |
| `feed_ingest` | One row per article, no story lost, triage untouched by refreshes | 3 refreshes, 4 snapshots, 6 articles that agree in key, link or story, 1 user |
| `feed_triage` | Who may complete, and what done means | 2 users, 3 transitions, 2 articles |
| `list_walk` | Is every row left alone on exactly one page? Are cursors taken back? Does a walk end? | cases, backlog and all items; 3 rows, ids 0, 2 and 3, limits 0 to 2 and none, 2 days, 2 publication moments, 2 moments in a millisecond, 1 transition |
| `sign_in` | Whom a token names, how long codes live, who is turned away, on what an operation runs that reads its user | 2 sign-ins in 1 or 2 browsers, 2 posts, 3 accounts of which 2 belong, clock to 4, lives of 2 |
| `case_stats` | Do the figures add up, repeat and agree? How stale can they be? | 2 tabs of one browser, 3 cases, 1 write, 2 requests, clock to 2, max-age 2 |
| `historic_import` | Is a line lost or doubled? Which rows are refused? Which yes is invented? | sheets with every filling of one group of cells, 3 runs on any of the files |

The bounds are enough for the interesting cases. Three requests with two connections exhaust the
pool; two ids with three creates reach the end of a sequence; two edits and a create, or three edits of
one case, give every order of their statements. The rules never relate two groups of fields, so the
groups of `case_form` need not be crossed. Three refreshes over snapshots that list the same story
under another key, another link and in another order give a conflict of each kind, within a feed,
between feeds and between refreshes. With three transitions an item is taken, taken over and
completed. Three rows on two days, with limits 1 and 2, tie within a page, across two and with a row
edited or inserted in between; two moments in one millisecond make a cursor stand before its own row.
Two sign-ins in one browser take each other's cookie, present each other's codes and log in the same account
for the first time at once; a clock twice as long as the lives lets everything expire. Two requests with a
write between them give an answer that overtakes another and one that is served from the cache. Id 0 comes
last on its day: a page can end at it, and its cursor is refused, or go on to a case of another day. Three runs
are a run, one of its dead letters, and one more of either, after either broke off: every way of repeating a line.
Deadlock is not checked in the concurrent runs, because a behaviour ends when its requests
are answered or its walk has ended; that none waits for ever is `EveryRequestIsAnswered`, that a walk
ends is `WalkEnds`.

Fairness is used twice. In `CaseStore`, `FairSpec` asks that a request that can make progress does
(`WF_vars(Progress(r))`), because PostgreSQL answers statements and hands over released locks, and Node
runs every callback. Failures are not fair and arrivals are not either. Weak fairness is enough since a
request whose row or connection is free again may be overtaken only by finitely many others. In
`ListWalk` it asks that the client goes on asking (`WF_vars(NextPage \/ CursorRefused)`), and nothing of
anybody else: a walk ends because of the cursors, not because the writers rest, who may change rows without end. What
`Ids` bounds is how many articles can be inserted ahead of a walk of the backlog: a client slower than
the refreshes would follow it for ever. The sign-in, the statistics and the import state no liveness: a
user may leave at any point, and a script may be stopped.

### Disagreements found

| Run | What the repository says | What the code does |
|---|---|---|
| `foreign_id` | `id` is `readOnly` (`src/openapi/schemas/case.js:21`) | an update whose body carries another id moves the case to it |
| `backlog_ties` | "keyset pagination walks every backlog item without gaps or duplicates" (`test/integration/feed-list.test.js:81`) | of two items published at the same moment, the next page skips the one the page before did not reach |
| `import_sin_datos` | "sin datos" in any case is no data (`historic-data/parse.js:33` and the other parsers) | `parseBoolean` knows only "Sin Datos"; in any other case it begins with "si" and becomes a yes |

Six more were met while modelling and have no run of their own. The rule on coverage notes tests
`hasMediaGenderPerspective === null` (`src/routers/cases.js:170`) after coercion has made the null `false`.
The rule on judicial measures, "si tiene al menos una medidas judicial seleccionada"
(`src/routers/cases.js:151`), refuses an empty list too. The operation that "Removes the flag irrelevant for a
given feed item" (`src/routers/feed.js:186`) also reopens and unassigns the item, flagged or not. A case
whose body gives it an id of 0 or less is stored, and a page of the list that ends at it gives a cursor the
service refuses (`OwnCursorsDecode`). An authorization code passes as an access token that names no user
(`UserOperationsComeFromSignIns`). And of the spreadsheets, a nationality in any other words than the form's and
a category "Crímenes de Odio" are converted and then refused with 422 (`RefusalsHaveAReason`), although the
conversion has a list of the categories it knows.

`case_store` is run without foreign ids because of `foreign_id`: with them a case can be moved away, and
both `LookupStillHolds` and the registry (ids are never reused, cases never lost) are then false.

## 4. What is proved

The theorems hold for every value of the constants: any finite set of requests, any bodies, any ids
bodies carry, any pool and any end of the sequences (`StoreAssumption`, `OrdersAssumption`); any
articles, snapshots, users and refreshes (`BoardAssumption`, `NoRequestAssumption`); any tables of typed rows
(`RowsAssumption`) and any sheets of rows the columns may hold (`SheetsAssumption`). TLC evaluates each
assumption on the instances of section 3.

`CaseStoreProofs`: `TypeCorrect`, `CasesOneToOne`, `NoOrphanRows`. None is inductive. `OneToOne` is
broken by a commit unless what it writes is known, and nothing in the tables says so; `IndInv` adds, for
every request, what its transaction holds at each step of its handler (`OverlayInv`), that a create's
ids come from the sequences and are in no table (`PostInv`, `SerialInv`) nor in another transaction
(`Apart`), and that no two transactions have touched the same case id (`PairInv`), which is what the
row locks are for. The proof has one lemma per action, each step under it one conjunct the action can
disturb. `UpdateEqualsInsert` is the lemma that makes rows whole documents: updating any row of a case
gives the row an insert of the same body would have given, because the defaults and the required
fields cover all columns.

`FeedBoardProofs`: `ArticlesAreUnique`, `RefreshLosesNoStory`, `OnlyTakersComplete`,
`DoneItemsWereDecided`, `TriageIsTheUsers`. The strengthening says how far a refresh has come (every
feed before `next` is on the board) and that the owner of a row took it by a request of his own. That
the story is not lost rests on two choices of a first element: the first article of a story in the
feed, and the first article kept that conflicts with it.

`ListWalkProofs`: `WalkTypes`, `CursorsComeBack`, `CasesAreVisited`, `OnlyTies`, `NoRepeats`, for
tables, days, moments, limits and clocks of any size (`WalkAssumption`, `PerMsAssumption`; publication
moments are whole milliseconds, which is what feeds carry; ids are any integers). `CursorsComeBack` says that
dates and moments always make a cursor the service takes back, and a positive id too: what it refuses is only
the cursor of a page that ended at an id of 0 or less. What a walk has to remember is where each
row stands: `WalkInv` says that a row left alone is either ahead of the cursor and not met, or behind it
and met once, or it tied with a cursor of the feed. `Turn` is the lemma about one page, and the only
place where the order matters: everything on the page is behind the new cursor, nothing that was
behind the old one is ahead again, and what was ahead and is not on the page stays ahead or ties. For
the cases it rests on the id, which makes the order total; for the feed on rounding down being
monotone (`Rounding`). In the backlog it holds of changed rows too, since no transition writes
`publishedAt`.

`LookupsStayTrue` assumes that bodies carry no foreign id. Then no commit removes or renames a case
(`CommitKeepsCases`, from `IndInv`), so the two ids an edit has read stay those of its case (`KeptInv`).

`CaseRegistryProofs`: `StoreImplementsRegistry`, under the same assumption on ids. The mapping sends the
three tables to the registry whose documents are what the join of the GET handler sees; every step but
four leaves it as it is. `Ask`, the lookup that finds nothing, the answers and the failures are the
registry's own steps, and a COMMIT, confirmed or not, is the instant at which its request takes effect. Beyond
`IndInv` and `KeptInv` the proof needs `EffectInv`, that a request has taken effect only from its
COMMIT on and is answered last, and `Wrote`, that an edit about to commit has written its case. `Placed` says
what a commit does to the registry: one document, the body's, at one id, and every other as before.

`CaseFormProofs`: `FormTypes`, `ReturnedIsResubmittable`, `FactsHavePremises`, `NoResidue`, for any bodies, with
any of the fields and any values (`NullAssumption`: null is no boolean, nor the zero or the empty text Ajv makes
of it). The invariant is that the stored case is what some one accepted body would be inserted as,
whatever the history; it rests on `UpdatedIsInserted`. That the case can be sent back follows from
three facts about coercion: it leaves no null, keeps the fields and changes nothing the second time
(`CoercedPartHasNoNull`), so what was stored reads back as what the handlers saw (`DocumentReadsBack`).

`AuthFlowProofs`: one theorem for each property of `AuthFlow`, for any sign-ins, browsers, accounts,
posts, lives and clocks (`AuthAssumption`). Whom a token names needs the chain behind it: a post that
passed `Verify` presents the verifier of its code's sign-in, the account Google gave out is the one
that consented there, and the id in the token is that account's row, which later upserts keep.

`HistoricImportProofs`: `ImportTypes`, `LinesAreAccountedFor`, `DeadLettersAreSafeToRepeat`,
`RepeatsMakeNoDuplicates`, for sheets of any length and any runs on any of the files. The last is the deepest
of these. Its invariant is `PlacedOnce`: a line that was never in doubt and that no file run twice holds is in
at most one place where it can still become a case (still to be read, in `deadletter.json`, or in one file
that has not been run), and while it is there it has no case. Running a file for the first time moves its
lines from there to what is to be read; putting a line aside moves it to the letters; renaming the letters
makes them a file; a run that breaks off leaves its lines nowhere but in a file that has been run.

`OnlyReasonedRefusals` and `EveryYesIsKept` are about the rows, for sheets that hold any `Filled` row
(`SheetsAssumption`; TLC crosses one group of cells at a time, the theorems all of them). `RowAccepted` is the
lemma: a row that has its required fields, listed texts, and a number of children where it has ages, is converted to a body
that satisfies the schema and every rule of the form. It goes through what the conversion builds of each group
of cells (`ComplaintsOfRow`, `OrganizedOfRow`, `MediaOfRow`, `VictimOfRow`, `AggressorOfRow`), and through how
the rules read a field that was `undefined`, `NaN`, `null` or a value once JSON and Ajv have been at it
(`ReadsOfSent`). It takes the markers for what they stand for, values no cell and no constant of the code is
(`MarkersAssumption`). The invariant is that a dead letter no error of the service explains is a refusal
(`RefusedOnly`). `AnswersOfRow` is stronger than the property: the registry answers yes if and only if the row
says so, in a word that begins with "si" and is not "Sin Datos", or its other cells show it.

`CaseStatsProofs`: `FiguresAreNotOlder`, for any tabs, browsers, queries and delays. `StatsInv` says of
every answer in flight, stored or shown that the writes it did not see came after it was asked for.

The figures themselves are proved for tables of any finite size whose columns hold values of their types (`RowsAssumption`),
and queries of any kind. `FiguresOfAnyOrder` is the lemma the others rest on: the rows of the same cases in any
two orders give the same figures, groups of equal size included. `ValuesAreOrdered` says that `compareValues`
is a total order of the values a column holds; so lists of values are ordered totally (`KeysAreOrdered`), and the
groups, by falling count and then by their values (`CompareOrders`); a sort has then one result
(`SortedPlaces`, `OneOrder`), whatever order its input had. That the counts of the groups sum to the rows
(`CountsAddUp`) is an induction over the number of groups. The library's induction theorem takes the formula
as a parameter, so it is done with its well-foundedness instead: a set of naturals has a least element
(`LeastNatural`), and the least number for which the claim fails cannot be.

The invariant `FiguresInv` says of every answer, in flight, stored or shown, that there is an order of the rows
of a table the registry has held of which it has the figures (`Past`: there is one table for each write, the
last of which is the one of now). With it
`FiguresAlwaysAddUp`, `FiguresAreOfTheCases` (dashboards that saw the same writes show the same, from any cache) and
`DrillDownsAlwaysAgree` (a province of the whole country is the dashboard of that province; two periods that meet
on a day share no case and miss none) are facts about one table and one or two orders of its rows.

Not proved, only model-checked: `EveryRequestIsAnswered` and `WalkEnds`, since liveness is out of the prover's
reach. Every other property of a passing run is a theorem. `IndInv` is no longer a property of a run, since
it is proved.

## 5. What is not modelled

`updatedAt` of `feedItems` is left out of `FeedBoard` because only the lists read it, and is what
`ListWalk` is about; the totals of the lists, a second query nothing depends on, are left out of both, as
are the filters on names. `GET /auth/pkce` returns a random pair and keeps nothing; signatures and hashes
are taken not to collide. `profiles` returns values of the token. `compare-metrics` prints counts of a
file. The other enumerations, formats, text matching, logging (but for what
`logRequest` does with an error), configuration, the OpenAPI document and the
migrations hold no state and take no decision at run time. Google, PostgreSQL, knex, Ajv and browsers are modelled
only as far as the code relies on them, and marked external in `PROJECT.json`.

What the conversion of a sheet does to cells left out of `HistoricRow` shows in the code alone: a value that
is in none of the lists of `historic-data/parse.js` is dropped without a word (`!x in map` is always false).
The nationality has no such list, and is modelled. Ages without a number of children become `NaN`, then
`null`, then `0`, which is refused (`RefusalsHaveAReason` allows for it).

## 6. Plan

The filters on names and the totals in `ListWalk`, if something comes to depend on them.
