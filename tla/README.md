# VertKit, specified

TLA+ modules, TLC runs and TLAPS proofs for VertKit: the Go CRM API with its two
stores, and the TypeScript agent service that calls it. `PROJECT.json` lists every
run, theorem, hazard and finding, and maps every definition to the lines it models.

## The system

| component | state | operations | modelled in |
|---|---|---|---|
| HTTP API, `internal/api/server.go` | none of its own; each request's locals | 31 routes, 25 of them behind `tenantScoped` | `CrmApi` |
| Memory store, `internal/storage/memory` | one map per kind behind one RWMutex | Create, Get, List, Update, Delete, ListActive | `Stores` (records as values), `MemoryStore` (their maps, slices and pointers) |
| Postgres store, `internal/storage/postgres` | one table per kind (`schema.sql`) | the same, one SQL statement each | `Stores` |
| Server process, `cmd/server/main.go` | the stores it opened | start, shutdown | `CrmApi` (`Restart`) |
| Domain types, `internal/domain` | none | constructors, money, address | `CrmApi` (stamps, defaults), `Money` |
| Rules engine, `internal/rules` | none | Evaluate | `RuleEngine`, `DealDesk` |
| Agent runtime, `apps/agent/src/runtime` | run id counter; each run's locals | run, handleToolCall | `AgentRuntime` |
| Permission policies | static decisions | check | `AgentRuntime` |
| Audit log, `apps/agent/src/audit` | the events | append, list | `AgentRuntime` |
| Tool registry, providers | registered tools | execute, next | `AgentRuntime` (what they answer) |
| CRM tools, `apps/agent/src/tools` | none; a request under way | request, get, post | `AgentCrm` |
| Agent server, CLI | none | POST /agent/jobs, run | `AgentRuntime` (`Start`, `Return`) |

How they interact. A request runs in its own goroutine and makes up to five separate
store calls: tenant check, Get of the stored record, Get of each reference, and the final
call. Each call is atomic and nothing spans two of them, so requests interleave between
calls. The agent service runs jobs concurrently on one runtime; between two `await`s a job
runs alone, at every `await` others may run. Its tools are HTTP requests to the API.

What is hard: check-then-act across store calls; PUT as an unversioned read, merge and
write; errors of a store call whose cause the handler does not look at; two stores that
should behave alike; a statement that took effect although the call failed; a restart at any
point; records built of maps, slices and pointers that two goroutines must not share; values
that reach the rules engine as different Go types over the two stores; amounts at the limits
of int64 and float64; concurrent jobs that share an audit log; a permission that must precede
its call; a request whose answer is lost, and a job submitted again because of it, while
other clients change the same records.

What makes each part correct:

* API and stores: no request sees or touches another tenant's data; no row without its
  tenant; references were there when checked; stamps stay ordered; updates lose only to
  overlapping updates; the status tells what happened; every request is answered; what
  exists changes only by creation and deletion (`EntityLifecycle`).
* Agent: a tool is executed only after its own permission; the trail of a run tells that run
  from start to end; results and status follow from the trail; steps are bounded; every job
  returns.
* Memory store: it is a store of values (`ValueStore`), although a record is a tree of
  references.
* Rules engine: a rule reads the JSON document its author sees; a missing field never matches;
  both stores answer alike; a deal above a limit is stopped.
* Money: an amount that fits an int64 is exact.
* Agent and CRM together: success is reported only for what was done, once in each life of a
  record; a completed run and the CRM agree on what it did; every effect is on record; the
  default policy never writes.

## Modules

* `Stores`: the storage layer as operators over the tables. Ids are sequences of tokens so
  that joining a tenant and an id with a colon can collide, as `ruleKey` can.
  `CONSTANT Backend` chooses memory or Postgres; the two differ in the key of a rule, the
  foreign key to `tenants`, the cascade of a tenant's delete, what the delete of a missing
  tenant answers, and in what a restart leaves.
* `CrmApi`: the handlers. `pc[c]` is the step client `c`'s handler is at, `req` its request,
  `existing` the record its Get returned, `draft` the record it is about to store, `resp` the
  answer. A step that makes a store call is one action. One operator per handler has the
  handler's name and is the disjunction of its steps. `since` and `restarts` are history
  variables: `since[c]` is what other requests removed or wrote while `c`'s was served.
* `EntityLifecycle`: the abstract specification of which tenants and entities there are.
* `CrmApiProperties`, `CrmApiMC`: properties; instances and the requests each run issues.
  `Panics(c)` says when the evaluation of rules may panic: the answer is then never written,
  and `Deliver` ends the request without one.
* `CrmApiProofs`, `CrmApiSafetyProofs`, `CrmApiRefinement`, `CrmApiRaces`: theorems.
* `MemoryStore`: the memory store again, seen through its heap. A cell is a map, a slice or
  the target of a pointer, `Parent` the tree of cells of each kind of record, nested as deep
  as `cloneAny` has a case for. A clone function is the set of places it copies; whatever it
  leaves out stays a reference to the original. Callers decode, edit and drop records, and
  `KeepCustomFields` is the PUT that stores the map it has read. Regions are named after who
  holds them and garbage is collected, so that heaps that differ in addresses alone are one.
* `ValueStore`: the abstract specification of `storage.go`'s interfaces: values go in and come
  out. `MemoryStoreProperties`: the refinement, and the instance. `MemoryStoreProofs`: theorems.
* `Money`: `NewMoney`, `Add`, `Multiply`, `FromMajor` with the width of int64 (`Wrap`) and the
  precision of float64 as constants. A float64 is counted in `1/Fraction`, the smallest step
  there is: `Doubles` are the multiples of the `Powers` of two by a significand of at most
  `Mantissa`, `Floats` the whole numbers among them. `Nearest` is the float64 nearest to a
  fraction and `Float` the one nearest to a whole number, of two as near the one with the even
  significand (`Rounds`). `FromMajor` is what the code does: it takes a float64, rounds the
  product with `Cents` to a float64, and then to a whole number, halves up.
* `RuleEngine`: `Evaluate` and all it calls. A Go value is a record with its dynamic type, for
  the engine's behaviour depends on it: `json.Number` and `float64`, `Money` and `*Money`, a
  nil pointer in an interface and nil. Each operator has the name of its function. A loop that
  stops at the first item that settles it is the least such place of the list.
* `DealDesk`: an amount is priced, added to and multiplied, or decoded. `Price` starts from a
  decimal price: `Prices` parses it to the nearest float64 and hands that to `FromMajor`.
  `worth` is the exact amount, and `rounded` says that the price was not one in whole minor
  units, or too large for a float64 to tell quarters of a minor unit apart. The `currency` of
  a snapshot is a field of its own: `NewOpportunity` sets it to that of the amount, but a
  posted snapshot is decoded and never goes through it, so it may be another or none. The
  snapshot is put to the tenant's rules over both stores, each of which hands them out as the
  Go values it holds. `DealDeskProperties` says from the JSON document what the answer should
  be, without the engine; `DealDeskMC`: the rules and snapshots of the runs; `DealDeskProofs`:
  theorems.
* `AgentRuntime`: `run` and `handleToolCall` for a set of jobs; an action is the code from
  one `await` to the next. The log is kept per run, as `list(runId)` shows it; nothing reads
  it otherwise. `calls` is a history variable: the handlers called, with the length of the
  trail at that moment. `max_steps` is any JSON number (`server.ts:86`): a fraction `n / d`,
  negative ones included, or Infinity (`n / 0`), which a number too large for a float64 is
  parsed to. `MaxTurns` bounds the turns of a job with that limit, and of no other.
* `AgentProperties`, `AgentMC`: properties; instances. `AgentProofs`: theorems.
* `AgentCrm`: the actions of `AgentRuntime` with tools that send requests. `Send` is
  `execute` up to `fetch`; `Handle` serves a request (one that is lost is never handled),
  `Succeed` and `Fail` are what the handler then does, `HandleLate` serves a request of a
  process that is gone, `Restart` empties log and counter. The CRM is reduced to what
  `EntityLifecycle` says of one tenant and one kind: a record is created when it is not there,
  by the agent or by another client (`OtherCreate`), and is lost (`Lose`) when a client deletes
  it, its parent over Postgres or its tenant, or when the API is restarted over the memory
  store. `done` and `told` are histories: the creates that requests of the agent brought about,
  and those its runs were told of, each with the run, the restart of the agent and the life of
  the record, which `life` counts. `AgentCrmProperties`: properties and the instance.
  `AgentCrmProofs`: theorems.

Operators commented as faults sit before the definition they mutate: each is a plausible bug,
and `PROJECT.json` names for each property of each passing run the fault that violates it.

What the models abstract:

* `val` stands for every field that has a default on POST and may be left out of a PUT
  (Status, Stage, Probability, Active, CustomFields; a Probability of 0 counts as left out,
  as in the code). For a rule it stands for `is_active`, which is not kept when left out.
  Fields that are only copied are not in the record.
* A request's `ok` bit covers decoding, required fields, constructor validation and the check
  that the id is unchanged: all answer 400, whichever comes first, and change nothing.
* Ids are not empty and hold no NUL character. All rules are for opportunities.
* `RuleEngine` finds a field by its JSON name alone; that a Go name or another spelling finds
  it too (`normalizeName`) is left out, as are messages. Texts are tokens, with `Substrings`
  saying which contains which. The value of a condition is a scalar or a list of scalars;
  a rule may hold an object or a list of lists as well, which only `eq`, `neq` and `in` could
  ever match. Of the snapshot the amount, its currency, a pointer to Money, a pointer to a time
  and the custom fields are there, one of each Go type. The order of results is that of the
  rules. What
  `DealDesk` asks of the engine is one snapshot at a time: the engine keeps no state.
* A decimal price is a whole number of halves of a minor unit, from the parts in `Parts`: a
  price such as 1.005 USD, which the code makes 100 and not 101, counts as rounded, and what
  becomes of it is any outcome of `FromMajor`. NaN and the infinities are left out.
* In `AgentCrm` a record lost with its parent is lost like any other, and records are of one
  kind.
* `MemoryStore` follows one kind of record at a time; the clone functions of the five kinds
  touch no other kind.
* `now` never goes back. `MaxTime` bounds it; with `MaxTime = 0` time stands still in the
  runs that are not about time.
* One SQL statement is atomic. The role that runs the API owns the tables, so row-level
  security, which `schema.sql` enables but does not force, does not apply.
* Provider and tools of the agent are external: a provider decides anything or fails, a
  handler returns or throws.

## Runs

Passing, all exhaustive:

| run | what it checks | bounds |
|---|---|---|
| `PgContacts` | `TypeOK`, `NoOrphans`, `ServerErrorOnlyByRace`, `DanglingOnlyByRace`, `ImplementsLifecycle` | 2 clients, 1 tenant, 1 id, accounts and contacts, failing calls, 1 restart |
| `PgOpportunities` | `DanglingOnlyByRace` | 2 clients, 1 tenant, 1 id, accounts, contacts, opportunities |
| `MemRules` | `TenantIsolation` | 2 clients, 2 tenants and 2 ids whose rule keys collide, requests without the service token, 1 restart |
| `MemProducts` | `StampsOrdered`, `StampsRegressOnlyByRace`, `OmittedFieldsKept`, `EveryRequestAnswered` | 2 clients, 1 product, 2 clock values, 2 field values, invalid requests |
| `MemSharing` | `NothingShared`, `ImplementsValueStore` | each of the 5 kinds, 2 keys, 2 callers, 1 edit |
| `DealDesk` | `RulesReadTheDocument`, `MissingFieldNeverPassesAGate`, `OrderNeverReversed`, `StoresAnswerAlike`, `LargeDealsAreStopped`, `AmountsExactWhenTheyFit` | int64 of 7 bits, float64 exact up to 32 and with steps down to 1/1024, 11 minor units, amounts worth up to 100, snapshots with the amount's currency, another or none, every operator on every kind of field |
| `AgentJobs` | `TypeOK`, `TrailTellsOneRun`, `CallsFollowPermission`, `OnlyPermittedTools`, `ResultsMatchTrail`, `CompletedMeansAllSucceeded`, `MaxStepProtection`, `EveryJobReturns` | 2 jobs, each policy, read, write and external tools, one of them denied by default, limits of -1, 0, 1.5 and Infinity, the last cut at 2 turns |
| `AgentCrm` | `ToldMeansDone`, `CompletedMeansServed`, `EffectsOnRecord`, `DefaultPolicyNeverWrites` | 2 jobs of 2 steps, each policy, 1 record, which the CRM may lose once, 1 restart |

Why the bounds are enough. Every race of the API is between one request that looks and acts
and others that change what it looked at; a client issues any number of requests in turn, so
two clients already put any sequence of changes between two steps of a request. Keys of
different entities interact through the colon of rule keys alone, and `MemRules` has that
collision. Two clock values make a stamp older than or equal to another, and with two
overlapping requests the order of stamps differ from the order of writes. In `MemSharing` one
edit is enough to show through a shared cell, and every state in which a cell could be shared
is reached before it: two keys and two callers are all the holders a cell can have two of. The
7-bit int64 and the 5-bit mantissa keep the order of the real widths: there are amounts that
are exact, that round, that round to a neighbour of a limit, and that wrap, and `MaxWorth`
lies beyond the first wrap. Eleven minor units, unlike a power of two, make decimal prices
that no float64 holds, and products below the whole number they should be: a conversion that
drops the fraction is noticed (`FromMajorTruncated`). Conditions are evaluated alone in most
rule sets, because a rule is a conjunction cut short at the first that fails; two rule sets
have longer rules. Jobs of the agent share only the counter and the log; two jobs with up to
two steps reach the first and the last step, zero steps and every interleaving of them. In
`AgentCrm` the second job is the retry of the first; one record is the one both want to
create, and one loss lets it be created again. The jobs there are alike, so TLC may permute
them.

Findings, each a run that violates one property a document or comment states:

* `MemOrphans`: the memory store keeps the entities of a deleted tenant.
* `MemRuleConflict`: in memory, colliding rule keys refuse a tenant its own id.
* `PgOutage`: 404 "tenant not found" for a tenant that is there, when the database fails.
* `RuleMissing`: a rule that compares `expected_revenue` or `close_date` itself makes the
  evaluation of a snapshot without it panic (`engine.go:68` lets a nil pointer inside an
  interface pass for a value), where the comment beside it says a missing field never matches.
  `MissingFieldNeverPassesAGate` is what remains: no rule matches because such a field is
  missing. The amount and the currency are not among them: left out of the JSON they read as 0
  and "", and `amount lt n` does match then.

Other behaviour met on the way, which the passing properties delimit:

* A PUT that races a DELETE of the same entity, and a DELETE of a tenant that races another
  over Postgres, is answered 500, and a POST that races the delete of its tenant over
  Postgres 409, where
  `skills/vertkit-crm-builder/references/backend-foundation.md:46` promises 404.
  `ServerErrorOnlyByRace` shows that a 500 has no other cause but a failing database.
* `contains` never holds of a currency, which is not a Go `string`, although
  `skills/vertkit-crm-builder/references/backend-foundation.md:69` wants currency comparisons
  in rules to work against JSON strings (`eq`, `neq` and `in` do); times and the id types equal
  no JSON text. `RulesReadTheDocument` leaves these out.
* The large-deal gate of the repository's `README.md:187` goes by the amount and by the
  snapshot's own `currency`: a snapshot of 12000000 USD in `amount` with no `currency`, or another one, passes it,
  although `README.md:198` says "Deals over $100k USD require manager approval". The two are
  separate fields (`opportunity.go:24-25`), which the evaluation never compares
  (`server.go:1038-1047`). `LargeDealsAreStopped` says so, and shows that
  arithmetic and comparison let no large deal pass as long as the amount fits.
* A price between two minor units may be rounded down where its decimal would be rounded up:
  1.005 USD becomes 100. `AmountsExactWhenTheyFit` is about prices in whole minor units, which
  are always converted exactly below a quarter of 2^53.
* `max_steps` of `1.5` allows two steps, a negative one none, and one that is parsed to
  Infinity, such as `1e400`, protects from nothing: a provider that never completes then keeps
  its job going. `MaxStepProtection` says so, and `EveryJobReturns` leaves those jobs out.
* Over memory a rule's number is a `json.Number`, which also has a text: it equals a text
  field that spells it, and is found in a list of decoded numbers, over memory only.
  `StoresAnswerAlike` leaves out these mixed conditions (`Mixed`) and shows there are no
  others.
* Amounts beyond 2^53 minor units are compared as float64: neighbours may count as equal, but
  their order is never reversed (`OrderNeverReversed`).

Deadlock is checked in every run but the agent's two, where all jobs end and the system stops.

Fairness. `CrmApi!FairSpec` assumes weak fairness of each client's handler: the Go scheduler
runs every runnable goroutine, the RWMutex starves nobody, a database call returns. It does
not assume that clients send requests or that the clock moves. `AgentRuntime!FairSpec` assumes
weak fairness of each job: the event loop resumes settled promises, and the HTTP requests
behind providers and tools settle (`fetch` has its own limits; the code sets none). It assumes
nothing of what a provider decides, so `EveryJobReturns` is about jobs with a finite limit.

The composition `AgentCrm` is checked for safety alone: its liveness would need 300 s and more
of TLC, and adds to `EveryJobReturns` only that a `fetch` settles, which is assumed anyway.

## Proofs

For every value of the constants that satisfies the `ASSUME`s, checked by tlapm.

The API (`CrmApiProofs`, `CrmApiSafetyProofs`, `CrmApiRefinement`, `CrmApiRaces`):

* `TypeCorrect`: `Spec => []TypeOK`. `TypeOK` is not inductive: a handler's `existing` and
  `draft` must hold a record of the kind its request is about, and the step it is at must be
  one of the steps of its handler. `TypeInv` adds `HandlerFits`, which says so, and
  `HandlersTyped` proves `Spec => []TypeInv`.
* `TenantIsolated`: `Spec => []TenantIsolation`, for both stores and for all ids, hence for
  all collisions of rule keys. It rests on: a row sits under the key of its own tenant and
  id (a write puts the draft under the key of the request it was built from), and `Lookup`
  returns a record of the tenant asked for only.
* `NoOrphansOverPostgres`: with `Backend = "postgres"`, `Spec => []NoOrphans`. A row appears
  only by an insert whose tenant is there, or by an update of a row that is there; a tenant
  goes only with its rows. Over memory the property is false (`MemOrphans`).
* `StampsAlwaysOrdered`: `Spec => []StampsOrdered`, strengthened by what is known of
  `existing` whenever a handler is about to build a record from it.

* `LifecycleImplemented`: with `Backend = "postgres"`, `Spec => ImplementsLifecycle`. An
  accepted write takes the step of `EntityLifecycle` its request names, everything else is a
  stutter; `NoOrphans` and the invariant of `TenantIsolated` make the cascade exactly the
  entities of the tenant.
* `ServerErrorsAreRaces`, `DanglingIsARace`, `StampsRegressInRacesOnly`,
  `OmittedFieldsAreKept`: `ServerErrorOnlyByRace` as an invariant and the other three as
  action properties, for any number of concurrent requests. Each speaks of the last step of a
  handler and depends on the steps before it, so all four follow from `RaceInv`: what a
  handler has found (its target, the references it has checked) is still there, or `since`
  says who has taken it away (`TargetKnown`, `ReferencesKnown`); what it is about to store was
  made of the request and of the record it read (`DraftKnown`); a 500 has its cause on record
  (`ErrorKnown`). A step of another request keeps this because it is on record for everyone
  being served (`StepRecorded`, `StaysThere`, `OthersKnown`), and each step of the handler
  itself establishes its part (`LoadKnown`, `DecodeKnown`, `ReferenceKnown`, `BuildKnown`,
  `WriteKnown`).

Each is a proof by invariance: one lemma per shape of step (read, load, build, write, reset),
one step per action of `Next`, closed by PTL. `RequestsAssumption` says of the requests what
the bodies can hold: an account in contacts and opportunities only, a contact in
opportunities only.

The agent (`AgentProofs`), for any number of jobs, any tools, risks, decisions and limits:

* `TypeCorrect`, `TrailsTell`, `PermissionFirst`, `OnlyPermitted`, `CompletedSucceeded`:
  `Spec => []P` for `TypeOK`, `TrailTellsOneRun`, `CallsFollowPermission`,
  `OnlyPermittedTools` and `CompletedMeansAllSucceeded`. None is inductive, and all follow
  from one invariant, `Inv` (`JobsFit` proves `Spec => []Inv`). `Fits(j)` ties what job `j`
  awaits to the end of its trail (`TrailFits`), to its locals (`LocalsFit`), to its calls
  (`CallsFit`) and to its results (`ResultsFit`); `OwnRuns` says that run ids are given out
  once each and that `nextRunId` counts the jobs that have started, without which the type
  of `nextRunId` and the privacy of trails would not hold. The argument is local: a step of
  `run` changes its own job's variables and appends at most one event to its own trail
  (`OwnStep`), so that it suffices to prove of each action that it leaves its own job fitting
  (`OwnStepKeeps`).
* `StepsBounded`: `Spec => []MaxStepProtection`, from `Inv` and `StepsInv`, which ties the
  number of decisions in the trail and the number of calls to `step`, at each `await`. The
  limit is any fraction, rounded up, or Infinity, for which the property says nothing.
* `ResultsMatch`: `Spec => []ResultsMatchTrail`, from `Inv` and `ResultsInv`, which counts: the
  k-th `tool_finished` of a trail is the one with k of them up to its place, and its tool is
  the k-th result. A step appends at most one event, so the places before it keep their count.

The agent and the CRM (`AgentCrmProofs`), for any number of jobs, records, restarts and losses:

* `ToldIsDone`, `CompletedIsServed`, `EffectsRecorded`, `DefaultNeverWrites`:
  `CrmSpec => []P` for `ToldMeansDone`, `CompletedMeansServed`, `EffectsOnRecord` and
  `DefaultPolicyNeverWrites`. Every step of a job is a step of `AgentRuntime` (`JobStep`), so
  `Inv` is used as it stands, and a restart brings every job back to a start that fits. What it
  lacks is the wire: `CrmInv` says that a job has sent one request for each of its calls, that
  a create was sent for a create tool the trail has permitted and started (`RequestFits`), that
  a run still unbroken has had all its answers and been told of them (`Unbroken`, `Reported`),
  that a request which outlived its process withholds what the policy withholds (`LateFits`),
  that what the present process brought about, an answered request on its wire did
  (`OriginsFit`), and that a record is created at most once in each of its lives and is there
  unless that life is over (`DoneFits`). `EffectsOnRecord` alone is not inductive: a request
  served late adds an effect, and only what was known when it was sent puts that on record.

The memory store (`MemoryStoreProofs`), for every kind of record, any keys, callers and values:

* `NoCellShared`: `Spec => []NothingShared`. That no two records share a cell is not inductive,
  for a cell may refer anywhere. `MemInv` says more: a record lives in one region, each of its
  fields and each reference in its cells leads there or is nil (`Sound`), and no two records
  have a region in common (`Apart`). A clone function that copies the whole tree of cells
  keeps this; for each of the five it is shown from the places the function copies.
* `ValuesImplemented`: `Spec => ImplementsValueStore`. A method takes the step of `ValueStore`
  of its name, because a clone has the value of what it was made of, and an edit leaves the
  value of every record in another region alone; collecting garbage is a stutter.

Rules and amounts (`DealDeskProofs`), for every width of int64 and float64, all rules and all
snapshots:

* `FloatKeepsOrder`: rounding to the nearest float64 is exact up to the mantissa, idempotent,
  and never reverses an order. There is a nearest one, and ties have one answer
  (`NearestExists`, `TieBroken`), so that the `CHOOSE` in `Float` chooses something.
* `AmountsExact`: `Spec => []AmountsExactWhenTheyFit`. A price in whole minor units is rounded
  twice before `math.Round`, when it is parsed and when it is multiplied. Either error is at
  most one part in `Mantissa` (`NearestError`, from `PrecisionAssumption`); below a quarter of
  `Mantissa` the two together stay below half a minor unit (`TwiceRounded`), so the conversion
  is exact (`PriceFits`) for every `Cents`. For what follows, the property is not inductive:
  once an amount has left int64 it says nothing, and a sum may come back. `DeskInv` has
  instead that the amount is off by a whole number of turns of int64 (`OffByTurns`), which a
  sum, a product and a wrap keep, and which is no turn at all when the exact amount fits.
  `DeskInv` also has that an answer is the one to the present rules and snapshot
  (`AnswerCurrent`), which makes the rest statements about the engine:
* `RulesAnsweredAsRead`, `MissingNeverPasses`, `NumbersKeepTheirOrder`, `StoresAgree`,
  `GatesHold`: `Spec => []P` for `RulesReadTheDocument`, `MissingFieldNeverPassesAGate`,
  `OrderNeverReversed`, `StoresAnswerAlike` and `LargeDealsAreStopped`. `FieldStands` is the
  centre: the Go value `getFieldValue` finds at a path of any length stands for what the JSON
  document says there (`Stands`), by following the path in the Go values and in the document
  at once (`Twins`). From there one condition at a time: it answers as the document reads when
  it is plain (`ReadsPlainly`), alike over both stores when it is not mixed (`AnswersAlike`),
  never yes to a missing field (`AbsentNever`), and panics on nothing but a nil pointer
  (`PanicsOnly`); numbers compare as two float64s (`NumbersCompare`), to which
  `FloatKeepsOrder` applies. `MatchesWhenAllHold`, `Evaluated` and `AnswerSays` carry this to
  the rule, the evaluation and the summary.

What is assumed of constants, besides that they are of their types: in `MemoryStore`, that
there are more spare names for regions than records, as memory does not run out; in `Money`
(`PrecisionAssumption`), that the powers of two a float64 counts in leave no gap, that a
significand has more than one bit, and that a minor unit is a number of full precision, as it is
for 100, 2^53 and 2^1074; in `DealDesk`, that the
values of rules and custom fields are what JSON can hold (with the limit on a rule's value
named above) and that amounts decoded or added are int64s.

Only model-checked: the liveness properties `EveryRequestAnswered` and `EveryJobReturns`, for
liveness under fairness is beyond the prover. Every other property of a passing run is a
theorem. The four properties that the violation runs refute are false, and have none.

## Not modelled, and the plan

Next: `Postgres` against the same abstract specification as the memory store; the bound on the
answers of a request's handler (how many store calls it makes) as a step towards
`EveryRequestAnswered`; a rule's value that is an object or a list of lists.

Left out for good:

* `Money.Format` and `MustNewMoney`: text for people, and constants that panic at start.
* `Address`: validation and formatting of a value no handler stores or reads.
* `ListByAccount` and `ProductStore.ListActive`, which nothing calls.
* Parsing of provider answers, bodies and command lines, flags, logging, the shutdown timer,
  the documents and manifests.
