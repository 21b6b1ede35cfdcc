# CREXi AgentCore workshop: a TLA+ verification project

Paths are relative to the repository root. The system is a chat application for
commercial real estate: a browser front end, a FastAPI backend that drives two
agents hosted by AgentCore ("harnesses"), Lambda tools that the agents call
through gateways, a legacy web application that an agent operates with a
browser, and the CDK stacks and scripts that deploy one copy of all this per
participant of the workshop (`WORKSHOP_ID`).

The project has six specifications of the code and five of what it promises, checked by
TLC on small instances and proved about by TLAPS for every value of their constants:

| Module | Models | Proofs |
| --- | --- | --- |
| `ListingOps` | a confirmed price change, from the broker's answer to the changelog: backend, Lambda, three DynamoDB tables | `ListingOps_proofs`, `ListingOps_ledger`, `ListingOps_history` |
| `Reseed` | `ListingOps` while the seed handler puts the tables back | `Reseed_proofs` |
| `AguiRuns` | chat runs in the backend: concurrent requests, pauses, resumes, the underwriting gate, cuts and restarts | `AguiRuns_proofs` |
| `AguiTranslate` | the translation of one harness stream, event by event | `AguiTranslate_proofs` |
| `Frontend` | the browser tab composed with `AguiRuns`, and the token check of every request | `Frontend_proofs` |
| `Workshop` | several participants who bootstrap, deploy, destroy and use their copies in one account | `Workshop_proofs` |

| Abstract module | Promises | Implemented by |
| --- | --- | --- |
| `PriceLedger` | a price moves only by spending a broker's grant, once, on the version it is for | `ListingOps`, in `ListingOps_ledger` |
| `LedgerOfLives` | the same, while listings are reset and begin new lives | `Reseed`, in `Reseed_proofs` |
| `ToolStream` | one stream: what the agent called, what it awaits and how the stream ends | `AguiTranslate`, in `AguiTranslate_proofs` |
| `ChatRun` | a run works, waits for the broker or is over; every call is answered once | `AguiRuns`, in `AguiRuns_proofs`; `Frontend`, in `Frontend_proofs` |
| `OwnCopies` | each participant is alone with a copy of the system | `Workshop`, in `Workshop_proofs` |

`MCListingOps`, `MCReseed`, `MCAguiRuns`, `MCAguiTranslate`, `MCFrontend` and
`MCWorkshop` instantiate them for TLC.

## 1. Inventory

| Component | State it keeps | Operations | Status |
| --- | --- | --- | --- |
| Listing-ops tool, `services/mcp_listing_ops/handler.py` | tables listings, approvals, changelog (shared) | `update_listing_price`, `get_change_log` (read) | modelled: `ListingOps` |
| Price-change confirmation, `backend/confirmation.py` | rows of approvals | mint, decline; `resolve_legacy_credentials` (read) | modelled: `ListingOps` |
| Chat runs, `backend/main.py` | `_paused_runs`, `_code_interpreter_completed_runs`, in memory | `/agui` new turn and resume, `_drain_and_resolve` | modelled but for pricing: `AguiRuns` |
| Stream translator, `backend/agui_translate.py` | tables of one stream | `translate_stream` | modelled: `AguiTranslate` |
| Harness client, `backend/harness_client.py` | none | `invoke`, `resume_with_tool_results` | as the opening of a stream |
| Authentication, `backend/auth.py` | cached JWKS | login, verify, group to harness | partly: `Frontend` |
| Front end, `frontend/src/App.jsx`, `api.js` | messages, tool chips, pending interrupt, thread and run ids | reducer of run events, send, answer, logout | modelled: `Frontend` |
| Seeding, `services/seed/` | listings, changelog, users, deals | custom-resource handlers, `make seed` | listings and changelog: `Reseed` |
| Legacy deal desk, `services/legacy_deal_desk/app.py` | signed cookies with an expiry, deals table | login, logout, list, record page | cookie and record page: `Workshop` |
| Deployment, `Makefile`, `scripts/` | `agentcore.json`, `aws-targets.json`, `deployed-state.json`, `backend/.env` | bootstrap, deploy, seed, destroy, wire-backend-env | modelled: `Workshop`, `Reseed` |
| Infrastructure, `infra/stacks/` | none | declarations | table keys, TTL attribute, Lambda timeout, the desk's URL |
| Agents, `app/`, `agentcore/tool-schemas/` | the model's context | choose tools and arguments | any choice |
| Pricing, `backend/pricing.py` | the current model, a global of the process | `set_model`, `usage_to_cost` | not modelled: never set by the shipped front end |
| Artifacts, live view, health, `backend/main.py:332-358` | none | reads | not modelled: no state |
| Market-data tool, `services/mcp_market_data/handler.py` | none | reads one table | not modelled: no state |
| AgentCore CDK app, `agentcore/cdk/` | | | not modelled: generated scaffolding |
| End-to-end drivers, `scripts/*_test*.py`, `test_*.py` | | | not modelled: need a deployed system; read for what they say of the harness |

How they interact. The front end posts a message to `/agui` and reads
server-sent events. The backend opens a stream of the user's harness
(`harness_client`), translates its events (`agui_translate`) and, when the agent
calls an *inline function*, answers it: it fetches credentials, judges an
underwriting submission, or, for `confirm_listing_change`, records the call in
`_paused_runs` and sends the client an interrupt. The client's resume takes the
call from `_paused_runs`; on a yes the backend mints an approval token
(`confirmation`) and tells the agent, in a new stream; the agent passes the
token to `update_listing_price` through its gateway, and the Lambda checks,
consumes and applies it. Backend and Lambda share the DynamoDB tables and
nothing else; requests of the backend share its two dictionaries.

What is hard about it, and what makes each part correct:

- *Confirmed change.* Several mints and invocations interleave between any two
  table calls; calls fail before or after they took effect; either program dies
  half-way; reads may lag; the TTL sweeps. Correct: a token is spent once, a
  write is exactly what a broker confirmed, no concurrent change is overwritten,
  the changelog tells what happened, refusals say why.
- *Chat runs.* A run spans many streams and several requests; clients repeat
  themselves; requests are cut; a restart empties the dictionaries. Correct: a
  call is answered once, the gate sees the whole run and no other, one terminal
  event per request, flags do not pile up, a run waits only for an answer that
  somebody was asked for.
- *Translator.* Block indices are reused from message to message and a result
  names its call only by one. Correct: pending calls are those the agent waits
  for, results are credited to their calls, no flag is set for code that did not run,
  the client's events nest.
- *Front end.* One run id, one dialog and one busy state serve all requests of the
  tab, and readers of old requests go on after a sign-out. Correct: nobody answers for
  another session, an answer reaches the call that was shown, a dialog on screen asks
  what is still open, the input comes back whatever breaks, no question is lost in
  silence.
- *Reseeding.* The handler overwrites listings and clears logs while mints and
  invocations are under way and knows nothing of the approvals. Correct: in each life
  of a listing its versions still number its writes; what the handler found it clears.
- *Deployment.* Names are global in the account, files are shared in a checkout,
  ARNs and URLs are literals in rendered files, every make may stop half-way, and
  nothing keeps two makes of one checkout apart. Correct: participants do not meet, or
  only in a checkout where their makes did; what was rendered refers to what there is,
  a bootstrap repairs and a destroy takes only its own.

## 2. The specifications and the code

### ListingOps

One mint per token and any number of invocations. Every call to a table is an
action of its own, and the local state of a program between two calls is in
`mint[t]` and `call[i]`:

| Code | Actions |
| --- | --- |
| `main.py` pause, `event_stream` resume | `Propose`, `Approve`, `Decline` |
| `confirmation.py:43-59` `get_item`, `put_item` | `MintGet`, `MintRefused`, `MintPut`, `MintFails` |
| `handler.py:68-80` arguments, `get_item` and checks | `Call`, `GetNothing`, `GetApproval` |
| `handler.py:82-89` conditional delete | `DeleteApproval` |
| `handler.py:91-101` conditional update | `WriteListing` |
| `handler.py:103-115` changelog | `AppendLog` |
| Lambda's timeout, the table's TTL, time | `Stopped`, `TtlSweep`, `Tick` |

Choices. The agent is a language model, so `Call` takes any listing, price and
token, in any order, as often as there are invocations, and `Propose` takes any old
price: the one it has just read, as its prompt asks (`ReadPrice`, kept as `asRead`), or
one it made up (`Misnamed`). `get_item` is not a
consistent read: a mint may see any earlier edition of the listing, and the
Lambda may see a row that is gone or miss one that is there. With `Faults` a
conditional delete or update, or the append, may fail *after* it took effect: the
handler's `except` clauses then report "consumed" or "failed" for what happened.
Amounts are in tenths of a dollar, so that the rounding of the dialog (`Shown`)
and the truncation of the approval (`ToInt`) differ as in the code. All clocks
are one clock of whole seconds. A token is a model value that names its mint from
the proposal on; the code draws the uuid at the mint, and a token that was never
drawn is one the Lambda does not find. Arguments that do not parse end an
invocation before it touches a table and are left out.

### PriceLedger

Grants: a broker's yes to one price for one listing against one version. A price
moves only by spending a grant, once, while the version still is the grant's;
grants may be lost. `ListingOps` implements it under the mapping `Ledger`: the
grants are the rows in the table and the one held by an invocation that has
deleted its row and not written yet.

### LedgerOfLives

`PriceLedger` with a reset: a listing goes back to its opening price and version 1, and
grants stay. What a grant is for is an edition that existed in whichever life; it is
spent on the edition of this life that has its number, or lost. `Reseed` implements it
under the same mapping (`Lives`), with `existed` read from the listings and the writes:
every put of the handler is a reset, and its other calls change nothing that the ledger
sees. A token that survives a reset (section 6) is then in the abstract specification,
where a reader of its promises finds it: single use and "only on the version it is for"
outlive a reset, "the price the broker saw" does not.

### AguiRuns

Requests of `/agui`, each with a program counter, and the two dictionaries. A
request runs in a thread of its own and blocks where it waits for the harness or
yields an event. Between two such points it touches only the entries of its own
run, each with one atomic dictionary operation, so the code between them is one
action: `Turn` or `Resume`, `Answer`, then for
each stream one of `StreamError`, `StreamFinished`, `StreamPending` with the whole
branch of `_drain_and_resolve`, `PopFlag` after `RUN_FINISHED` was sent, and `Ask`,
which words the interrupt after the run was recorded as paused. `Cut` is an
exception or a client that went away; `Restart` empties both dictionaries. The
harness decides how a stream ends, what it leaves pending (`Batch`) and whether
the code interpreter completed in it. Names that matter to the code are kept:
the two calls that the backend answers itself (`credentials`, `submit`), a submission
it cannot parse (`malformed`), the confirmation, and any other.

A resume may name any run, at any time and as often as there are requests: the
backend knows a client's right to answer only by the run id.
History (`answers`, `ranCode`, `verdicts`) serves the properties only.
One harness session per run; runs of one thread share the dictionaries and, in
`Frontend`, the tab.

### ChatRun

A run with no request, dictionary or event: it works, waits for the broker's answer to
one call, or is over; it opens one stream after another, an answer goes into the next
stream only, and a submission is accepted if and only if code has run. Whatever works or
waits may be lost. Under the mapping `Chat` a run is at work while a request drains its
stream, and a call waits while it is in `_paused_runs` or held by the request that took
it from there. A resume that finds nothing, the wording of the question and the pop of the
flag change nothing that a run sees. What the mapping forgets is what the promise does
not depend on: which request does the work, and the flag, of which `ran` is the truth.

### AguiTranslate

One harness stream. The harness half of the module is the grammar that the
translator's docstring and end-to-end drivers describe: assistant messages of
text and toolUse blocks, a user message with the results of the calls it ran
itself, the end of the stream after any message that is not followed by results,
an error anywhere. Each action is one event and its branch of the loop.

Whether a result's block index repeats that of its call cannot be told from the
repository: the translator looks it up in a table that outlives the message
(`tool_call_ids_by_index`), its docstring says that indices are per message. So a result
comes at any index (`ResultIndex`), also at one that no call has. `results`, `strayed`
and `credited` are history: the calls whose result came, those whose result came at
another index than the call, and those whose result was taken for theirs. What can then
be said of the code-interpreter flag is that it is never set for code that did not run
(`FlagIsTrue`): a stray result may be taken for another call's, but only for one whose
own result is due or has come. The converse cannot be said: a code interpreter's result
that strays may be missed, and the gate then refuses a submission that it could accept.

### ToolStream

What `AguiRuns` takes as one step: a stream in which the agent makes some calls, gets
all results or leaves the stream to the backend, and that ends once, finished with
nothing awaited or pending with exactly what is awaited. `AguiTranslate` implements it
with its tables (`current_message_tools`, `tool_call_ids_by_index`) hidden: `pending` is
what the outcome names, and `told`, the code-interpreter flag as reported at the end, may
be false though code `ran` and never the reverse. `AguiRuns` therefore speaks of what a
stream reports.

### Frontend

`AguiRuns` with a real client. The variables are the tab's refs and states that
decide something:

| Code | Variables and actions |
| --- | --- |
| `App.jsx` `threadIdRef`, `session`, `runIdRef`, `running`, `pendingInterrupt`, `messages` | `session`, `token`, `runId`, `running`, `dialog`, `screen` |
| `handleLogin`, `main.py` `/auth/login` | `LogIn` |
| `handleLogout` | `LogOut` |
| `handleSend`, `handleInterruptAnswer` | `SendMessage`, `AnswerDialog`, each with the backend's `Turn` or `Resume` or a refusal |
| `handleEvent` | `Show`, `Deliver` |
| `api.js` reader, `catch` and `finally` | `BrokenOff`, `ConnectionLost` |
| `auth.py` `_get_jwks`, `verify_token`, `group_for_claims` | `KeyInUse`, `Fetch`, `Accepted`, `Refused`; `CacheAges`, `Rotate` |

Choices. A request is sent and begun by the backend in one step; its events arrive
later, in order, and other requests' events in between. A token is known by the key
it was signed with; whether it has expired, and whether its user is in a group, is
left open at each request, so a refusal is always possible. React applies updates in
the order in which they are called. On the screen stand runs, not deltas. The backend
moves by `AguiRuns!Step`, `Cut` and `Restart`, unchanged (`Behind`); streams that run the
code interpreter are left to `AguiRuns`.

Two histories name what the properties of the screen are conditional on, because in the
rest the tab really shows what it should not (section 6). `clean`: no stream was open at
the last sign-out, and no connection failed since after its outcome had been told while
another request was under way. `passed`: the runs over whose dialog a message was sent.
`warned` are the runs that were the tab's when an error came on the screen, so an error
of one run excuses no other.

### Reseed

`ListingOps` unchanged (`Meanwhile`), and the handler of the custom resource: `SeedPut`
for each listing, in any order as a batch may be, then for each listing `SeedQuery` and
`SeedDelete` row by row; `SeedFails` between any two calls; `SeedStart` again. A put
begins a new *life* of the listing, in which version numbers come again:
`undone` holds the writes of earlier lives, and a mint may read an edition of one if a
replica lags (`MintGetEarlier`). The query is one page of a read that is not consistent, and
returns any of the listing's entries (`SeedQuery`). `found` is history: the entries that
queries of this run of the handler returned and that were not put again.

### Workshop

| Code | Variables and actions |
| --- | --- |
| `Makefile` recipes, line by line | `job`, `MakeStart`, `MakeFails`, `Do` |
| `cdk deploy`, `cdk destroy` | `cdk`, `CdkDeploy`, `CdkDestroy` |
| `ensure-aws-target.sh`, `remove-aws-target.sh` | `targets`, `state`, `EnsureTarget`, `RemoveTarget` |
| `render_agentcore_config.py` | `config`, `RenderGateways`, `RenderHarnesses` |
| `agentcore deploy`, `delete-stack` | `stack`, `state`, `Push`, `DeleteStack` |
| `wire-backend-env.sh`, `config.py` | `env`, `WireBackend` |
| deal desk: `/login`, `_verify_cookie`, `?listing=` | `visit`, `DeskLogin`, `CookieGone`, `Serves` |

Choices. The participant's two harnesses come and go together, and so do the two
gateways: one id stands for each pair. Ids are drawn afresh, from those that nothing
refers to (`Draw`), which is what random suffixes mean. Who works in which checkout
is anybody's choice and then fixed. A make runs in a terminal, one at a time in each;
makes in different terminals interleave step by step, in one checkout too, because no
recipe and no script takes a lock. A script or a deployment is one step: two that write
one file in the same instant are not followed further, but whenever two makes of a
checkout overlap at all, `met` (the makes, until they end) and `crossed` (the checkout,
for good) record it, and what is claimed of a checkout that was never crossed does not
depend on what would happen then. The
checked-in `agentcore.json`, `aws-targets.json` and
`deployed-state.json` are those of one participant (`First`, dev01), whose deployment
may or may not still run; its target is bound to the account that the participants
share. `torn` is history: those whose `deployed-state.json` may name a gateway that is
gone, because a destroy stopped after its first command or because the file came
with the repository.

### OwnCopies

The same participants with no files, checkouts or makes: each has a desk, a stack and
cookies, every step is of one participant's copy and reads nothing of another's. A
deployment keeps the gateway and the harness there are; a harness is deployed where there
is a desk and is sent to that desk as long as it lives, and it is given the gateway there
is, or a remembered one if its participant is in `torn`. `Workshop` implements it under
`Copies`, which drops `job`, `config`, `targets` and `state`: that these are shared by
name or by checkout is what the theorem has to see through. Those who work in a crossed
checkout are `muddled`: their copies may go anyhow, and take nothing from the others.

## 3. What TLC checks

Twelve runs, of two minutes at most.

| Run | Instance | States | Shows |
| --- | --- | --- | --- |
| `listing_faults` | 1 listing and an id with no row, 2 tokens, 2 invocations, faults, `Ttl` 0, 3 seconds | 835 k | `TypeOK`, `SingleUse`, `LinearHistory`, `LogTellsHistory`, `WriteSoonAfterExpiry`, `ImplementsLedger` |
| `listing_arguments` | 2 listings, 2 brokers, 2 amounts, an old price that was never read, 2 tokens, 2 invocations | 6.9 M | `WritesAreApproved`, `LogKeepsChanges`, `RefusalsAreHonest` |
| `listing_race` | 1 listing, 2 tokens, 2 invocations, fairness | 127 k | `RaceIsDecided` |
| `reseed` | 1 listing, 3 tokens, 3 invocations, 2 runs of the handler | 764 k | `LifeIsLinear`, `FoundIsCleared`, `ImplementsLives` |
| `runs` | 2 runs, 3 requests, 3 streams per run, faults, mixed batches | 1.7 M | `FlagsBounded`, `PausedIsAsked`, `AnsweredOnce`, `GateIsExact`, `OneTerminal`, `ImplementsChat` |
| `translate` | 5 messages of up to 2 blocks, results at any of 3 indices | 261 k | `PendingIsWaiting`, `ResultsReachTheirCall`, `EventsNest`, `FlagIsTrue`, `ImplementsToolStream` |
| `screen` | 2 sign-ins, 2 keys, 2 runs, 3 requests, 2 streams per run, faults, fairness | 683 k | `AppTypeOK`, `OwnAnswer`, `AnswersWhatItShows`, `DialogStillAsks`, `BusyIsTrue`, `NoSilentLoss`, `OwnScreen`, `InputReturns`, `LoginReturns` |
| `workshop` | 2 participants, 1 or 2 checkouts in use, 2 terminals, 4 makes, 3 ids of a kind | 1.2 M | `OwnNames`, `PageIsOwn`, `GatewaysLive`, `BootstrapRepairs`, `DestroyIsOwn`, `DeployKeepsBackends`, `ImplementsCopies` |
| `old_price_confirmed`, `updated_is_recorded`, `runs_paused`, `participants_collide` | as small as shows the case | | a documented statement that does not hold (section 5) |

The properties, in words, with the code they are about, stand above their definitions in
the modules. The type invariants of `Reseed`, `AguiRuns`, `AguiTranslate` and `Workshop`
were checked before they were proved and are in no run any more. What each passing run
is for:

- *listing_faults*: whatever fails, tokens stay single-use, no write is lost, the
  changelog contains only changes that happened and never in the wrong order, and
  a write comes after its token's expiry by less than one invocation.
- *listing_arguments*: whatever the agent passes to the tool, only a confirmed
  change is written; an entry is lost only to a change minted in the same second;
  and, with no fault, a refusal means what it says.
- *listing_race*: of the approvals of one edition, one gets through.
- *reseed*: versions and prices form a chain in each life of a listing even when
  tokens of an earlier life are spent in it, a finished reset leaves no entry that it
  found, and the whole is a ledger with resets.
- *runs*: a clean run of the gate, pauses and resumes under repeats, cuts and restarts,
  seen by the agent and the broker as the life of a run.
- *translate*: every stream of the bounded size, with results at any index, seen by
  `AguiRuns` as one step.
- *screen*: what the tab shows and sends is right, or wrong only where `clean` and
  `passed` say, through sign-outs, refusals, broken streams, restarts of the backend and
  key rotations, and it does not get stuck. Both exceptions occur in the run.
- *workshop*: participants do not meet and references do not dangle, whichever makes
  are run in whichever order and wherever they stop; each is alone with a copy, but for
  those of a checkout where two makes ran at a time, who meet each other and nobody else.

Why the bounds are enough. Each hazard of `ListingOps` is a race of two mints or two
invocations on one token, one edition or one second: a third would repeat one of
the two parts. Two listings are needed only where arguments may be mixed up, two
amounts where they may be wrong, one of them with a fraction. `Ttl` 0 puts a mint,
its expiry and a write after it into three seconds: only the order of the three
instants matters, and the runs without faults use a positive one. In `reseed` a token
of the first life, one of the second that takes the same version, and one more on top of
them need three tokens; two runs of the handler are one that stops and one that
repairs it, or two lives after the opening one. Its clock stands still, for expiry is
`listing_faults`'s concern. A run of
`AguiRuns` needs a stream that pauses, one that resumes and one more to be gated,
corrected or paused again; three requests are a turn, a resume and its repetition,
two runs show that one does not touch the other. In `AguiTranslate` a message's
indices can be confused with those of the message before, and results come between
two assistant messages: five messages hold two exchanges and the last word. Two
blocks hold two calls, or a text and a call, and a result at the wrong one of two
indices or at neither. In `Frontend` the hazards are between two users,
two keys, or the run on screen and the one before; three requests are a message, its
answer and the next message, or two messages and an answer. Its streams do not run
the code interpreter and ask one question: the gate and mixed batches are checked in
`runs`. In `Workshop` two participants meet in the account and in a checkout, two terminals hold
the makes that cross; four makes are two that cross and one of each to find what
they left, or a bootstrap, a destroy that stops, and two after it.
Three ids of a kind are the old one, the one in use and the one to be drawn: `Draw`
needs only one that nothing refers to.

`CHECK_DEADLOCK FALSE` everywhere: tokens, invocations, requests, streams, sign-ins and
makes are finite, and when all are over the system rests.

Symmetry. Tokens and invocations, runs and requests are interchangeable, and the runs of
invariants use it; so are checkouts and terminals in `workshop`, whose properties are invariants and
action properties. `listing_race` and `screen` check liveness, so they do not. The
refinements are checked under symmetry as safety properties: the abstract specifications
have no fairness, and their mappings do not distinguish tokens, runs, checkouts or terminals.

Fairness. `ListingOps!FairSpec` asks one thing: an invocation that has started takes its
steps (`WF` on `LambdaStep`). Lambda runs it or, at its timeout, stops it, and `Stopped`
is one of those steps. Nothing is asked of the agent or the broker, who may stop at
any time; `RaceIsDecided` therefore starts where an
invocation holds an approval, and admits that the invocation runs out of time.
`Frontend!AppFairSpec` asks three: a request that is being worked on goes on (`Work`), as
the harness's stream ends, fails or times out; the browser reads what has been sent or
learns that the connection is gone (`Deliver`, `BrokenOff`); an hour passes
(`CacheAges`). Users need not do anything, connections need not fail, keys need not
rotate. `MaxStreams` is a bound on what an agent makes of a request, so `InputReturns`
says nothing of an agent that calls for ever (see the hazard at `main.py:236`).

Every property of a passing run has a mutant in `PROJECT.json`: a plausible bug of
the mapped code under which the run finds the property violated.

## 4. What TLAPS proves

For any number of listings, prices, brokers, tokens, invocations, reseeds, runs,
requests, batches, messages, blocks, sign-ins, keys, participants, checkouts, terminals and makes,
with and without faults.

| Theorem | Says |
| --- | --- |
| `ListingOps_proofs!TypeCorrect` | `Spec => []TypeOK` |
| `ListingOps_proofs!SingleUseHolds` | `Spec => []SingleUse` |
| `ListingOps_proofs!WritesAreApprovedHolds` | `Spec => []WritesAreApproved` |
| `ListingOps_ledger!ImplementsLedgerHolds` | `Spec => ImplementsLedger` |
| `ListingOps_history!LinearHistoryHolds` | `Spec => []LinearHistory` |
| `ListingOps_history!WriteSoonAfterExpiryHolds` | `Spec => []WriteSoonAfterExpiry` |
| `ListingOps_history!LogTellsHistoryHolds` | `Spec => []LogTellsHistory` |
| `ListingOps_history!LogKeepsChangesHolds` | `Spec => []LogKeepsChanges` |
| `ListingOps_history!RefusalsAreHonestHolds` | `Spec => []RefusalsAreHonest` |
| `ListingOps_history!WithinADollarHolds` | `Spec => []WithinADollar` |
| `ListingOps_history!RecordedApartHolds` | `Spec => []RecordedApart` |
| `ListingOps_history!OldPriceWasHolds` | `Spec => []OldPriceWas` |
| `ListingOps_history!RacesSettleHold` | `Spec => RacesSettle` |
| `Reseed_proofs!ReseedTypeCorrect` | `ReseedSpec => []ReseedTypeOK` |
| `Reseed_proofs!SingleUseOverReseeds` | `ReseedSpec => []SingleUse` |
| `Reseed_proofs!ConfirmedOverReseeds` | `ReseedSpec => [](WritesAreApproved /\ WithinADollar /\ LogIsOfWrites)` |
| `Reseed_proofs!LifeIsLinearHolds` | `ReseedSpec => []LifeIsLinear` |
| `Reseed_proofs!FoundIsClearedHolds` | `ReseedSpec => []FoundIsCleared` |
| `Reseed_proofs!ImplementsLivesHolds` | `ReseedSpec => ImplementsLives` |
| `AguiRuns_proofs!TypeCorrect` | `Spec => []TypeOK` |
| `AguiRuns_proofs!AnsweredOnceHolds` | `Spec => []AnsweredOnce` |
| `AguiRuns_proofs!GateIsExactHolds` | `Spec => []GateIsExact` |
| `AguiRuns_proofs!OneTerminalHolds` | `Spec => []OneTerminal` |
| `AguiRuns_proofs!FlagsBoundedHolds` | `Spec => []FlagsBounded` |
| `AguiRuns_proofs!PausedIsAskedHolds` | `Spec => []PausedIsAsked` |
| `AguiRuns_proofs!PausedAsPromptedHolds` | `Spec => [](ConfirmsFirst => PausedAsPrompted)` |
| `AguiRuns_proofs!ImplementsChatHolds` | `Spec => ImplementsChat` |
| `AguiTranslate_proofs!TypeCorrect` | `Spec => []TypeOK` |
| `AguiTranslate_proofs!PendingIsWaitingHolds` | `Spec => []PendingIsWaiting` |
| `AguiTranslate_proofs!ResultsReachHolds` | `Spec => []ResultsReachTheirCall` |
| `AguiTranslate_proofs!FlagIsTrueHolds` | `Spec => []FlagIsTrue` |
| `AguiTranslate_proofs!EventsNestHolds` | `Spec => []EventsNest` |
| `AguiTranslate_proofs!ImplementsToolStreamHolds` | `Spec => ImplementsToolStream` |
| `Frontend_proofs!AppTypeCorrect` | `AppSpec => []AppTypeOK` |
| `Frontend_proofs!AppImplementsRuns` | `AppSpec => AguiRuns!Spec` |
| `Frontend_proofs!AppImplementsChat` | `AppSpec => ImplementsChat` |
| `Frontend_proofs!AppKeepsRuns` | `AppSpec => []` of `AnsweredOnce`, `OneTerminal`, `FlagsBounded` and `PausedIsAsked` |
| `Frontend_proofs!OwnAnswerHolds` | `AppSpec => []OwnAnswer` |
| `Frontend_proofs!BusyIsTrueHolds` | `AppSpec => []BusyIsTrue` |
| `Frontend_proofs!OwnScreenHolds` | `AppSpec => []OwnScreen` |
| `Frontend_proofs!DialogStillAsksHolds` | `AppSpec => []DialogStillAsks` |
| `Frontend_proofs!AnswersWhatItShowsHolds` | `AppSpec => AnswersWhatItShows` |
| `Frontend_proofs!NoSilentLossHolds` | `AppSpec => []NoSilentLoss` |
| `Workshop_proofs!WorkshopTypeCorrect` | `WorkshopSpec => []WorkshopTypeOK` |
| `Workshop_proofs!OwnNamesHolds` | `WorkshopSpec => []OwnNames` |
| `Workshop_proofs!PageIsOwnHolds` | `WorkshopSpec => []PageIsOwn` |
| `Workshop_proofs!GatewaysLiveHolds` | `WorkshopSpec => []GatewaysLive` |
| `Workshop_proofs!BootstrapRepairsHolds` | `WorkshopSpec => BootstrapRepairs` |
| `Workshop_proofs!DestroyIsOwnHolds` | `WorkshopSpec => DestroyIsOwn` |
| `Workshop_proofs!DeployKeepsBackendsHolds` | `WorkshopSpec => DeployKeepsBackends` |
| `Workshop_proofs!ImplementsCopiesHolds` | `WorkshopSpec => ImplementsCopies` |

Assumptions: the `ASSUME`s of the modules on their constants (ids are ids, amounts
and times are naturals, the markers for "nothing" are not data: in `Workshop` not the ARN
of a gateway either), and no others.

*ListingOps.* `TypeOK` is not inductive: a row that was minted has the type of a
row only because the mint found the listing, and the approval an invocation holds
is a row only because it was checked. `TInv` adds both. `SInv` adds why a token is
single-use: a row is determined by its token (`Fresh`), a row that was ever issued
is in the table, or held by the *one* invocation that deleted it (`Exclusive`), or
spent by one write and by nobody ever again (`Spent`). The conditional delete is
the step from the first to the second, the update that from the second to the
third; a failed call loses a grant and never doubles it. `WritesAreApproved` then
follows from `Spent` and `Fresh`.

*The ledger.* `LInv` adds that an edition a mint has read exists (`MintSeen`), as
versions only grow. Then every step is mapped: a put issues, an applied update
spends, a failed or stopped invocation, a sweep and a refused update lose, and the
conditional delete moves a row from the table to its invocation, which the ledger
does not see.

*What the tables tell.* `Line` states the chain of editions write by write, with no
induction over versions: there is a write for each version below the table's, and each
found the price that the one before it left; a conditional update adds the next one.
`LinearHistory` is `Line` and `SInv`. `HInv` adds the times: a mint is no earlier than
the mint of the edition it read (`Times`), and an invocation that holds an approval
checked its expiry and has not used up its time (`Punctual`); `WriteSoonAfterExpiry`
follows, and the order in `LogTellsHistory`. `CInv` adds that an invocation about to
append has written what it appends (`Appenders`), that entries are writes (`Entries`) and
that an entry gives way only to one of the same second (`Kept`). `RefusalsAreHonest`
needs, with no faults, that a row which was put is in the table, expired, or
taken by an invocation that did not report it as consumed (`Accounted`), and that the
version in an approval is no later than the table's. `RacesSettle` is what `RaceIsDecided`
has of safety: with no fault, nothing takes an invocation that is about to write on the
current edition out of the race but a newer edition, and its own next step writes
or times out.

*How far apart dialog and tables are.* Documented statements do not hold (section
5); three theorems here and one below say what does. `WithinADollar` follows from the
arithmetic of `Shown` and `ToInt` and `SInv`'s join of a write with its mint;
`RecordedApart` from `CInv`, since an entry is displaced only by one with its key.
`OldPriceWas` needs that the price which the agent named stays one the listing once had
(`Remembered`), up to the write (`WritesRemember`). It is stated of the approvals in
which the agent named the price it had just read (`asRead`); of one it made up nothing in
the code makes anything true.

*Reseed.* `RInv` is `SInv` and the types of the handler: nothing the handler does
touches approvals, so single use and `WritesAreApproved` carry over as they are;
`LogInv`, which is `CInv` without `Kept`, does because the handler only takes entries
out. For `LifeIsLinear`, `Line` is stated of the writes that are not `undone`: a put
makes all writes of its listing so, and the same lemma as in `ListingOps` does the
updates, for an approval of any life. `FoundIsCleared` needs what the handler still has
before it (`Remaining`): an entry that was found and is still in the log is among the
rows to be deleted. `ImplementsLives` needs that a mint has read an edition that
existed in some life (`MintRead`): that the current one did follows from `Line`, for the
write that made it is among those of this life.

*AguiRuns.* `TInv` adds that no two requests work on one run and nobody works on a
paused one (`OneWorker`), that a run with a request has a stream, and that a call which
waits for an answer was made in the last stream of its run (`Waits`). `AnsweredOnce`
adds that an answer goes into a later stream than its call: an answer opens a stream,
and only calls of the last stream are answered. `GateIsExact` needs that the flag of a
run that can go on is the truth (`Truthful`): of runs cut short it is not, after a
restart or when the flag has leaked, but these never reach the gate. `OneTerminal` needs
that a request that goes on has sent nothing. `FlagsBounded` needs that a flag is of a
run that is paused, worked on or broken off (`FlagsHeld`); `PausedIsAsked` that each
paused run has the request that is to ask, has asked or was cut. `PausedAsPrompted` is
for agents that keep to their prompt: if what a stream leaves pending has a call that
the backend answers itself or starts with the confirmation (`ConfirmsFirst`), a run
waits for nothing but a confirmation, and with no faults somebody is or will be asked.

*ChatRun.* The mapping needs no more than `TInv`: no two requests work on one run and
nobody works on a paused one, so a run's part of `ChatRun` is moved by one actor. A
verdict needs `Truthful` as `GateIsExact` does: the abstract run judges by `ran`, the
code by its flag. `AppImplementsChat` composes this with `AppImplementsRuns`, and
`AppKeepsRuns` does so for the invariants that hold with the real client without being
in `screen`'s run.

*AguiTranslate.* `TInv` adds that `tool_call_ids_by_index` and `current_message_tools`
mirror the blocks of the message they were filled from (`Mirrors`), what a message
consists of (`Grammar`), that the calls without a result are calls of the last assistant
message (`DueIsLast`) and what the outcome says of them (`Ended`). For `EventsNest` it
is also needed that calls of earlier messages are closed (`Older`).
`ResultsReachTheirCall` needs that the table still has a call that is due at its own
index (`DueIsLast`). `FlagIsTrue` needs that whatever call is in the table when a result
is looked up has its result or is about to get it (`Heard`), so that a flag which a stray
result sets early is true by the end of the user message.
`ImplementsToolStream` needs `Taken` besides: the harness answers only messages all of whose
calls it runs, and a stream that ends with calls awaited has one that it does not.

*Frontend.* `AppImplementsRuns` maps every step of tab, network, keys and backend to a
step of `AguiRuns` or to a stutter, under the identity: the theorems about runs hold
with this client. `OwnAnswer` needs that a run id in the tab was used by the present
session only (`OInv`), `BusyIsTrue` that a busy tab, clean or not, reads a stream
of its session (`Busy`) and a clean one has no other (`ReadsOne`), `OwnScreen` that in a
clean tab no reader of an earlier session is open. `DInv` relates dialog, run id, readers
and paused runs of a clean tab (`TabTrue`): a dialog on screen is `Answerable`, that
is, its run was asked last about that call, waits for it or forgot it, and nobody works
on it, and its run is the tab's or `passed` (`DialogTrue`); the one open stream is of the
tab's run, and when it has told of an interrupt, or is about to, its call is
`Answerable`, when it has told of the end the run asks nothing more (`StreamTrue`);
what still works for this session is read, or its run is `warned` of (`ReadOn`); and of
every run that waits the screen tells, or will, or may be excused (`TellsOf`). These
outlive every step of the backend, because a run on which no request goes on opens no
stream and is not paused (`Rests`). `DialogStillAsks` follows with `Later` of `AguiRuns`,
`AnswersWhatItShows` since the answer goes to the tab's run, `NoSilentLoss` because a
run is paused only by a request whose stream the tab reads.

*Workshop.* `WInv` says how far a make has come that has met no other in its checkout
(`Prepared`): before a push `config` has the names of its participant, before the last push
what was rendered is what there is, during the second phase of a bootstrap the stack has
the gateway that the files name, after the first command of a destroy there is no stack.
These survive other makes because a participant has one checkout, a make touches only
its own entries (`StepIsLocal`), and makes of one checkout at a time know of each other
(`Meet`). Around it, of a checkout never crossed: a stack is its participant's own
(`OwnStack`), the files know its gateway unless in `torn` (`Known`). Of any checkout: what
is rendered or deployed there is of somebody who works there (`Rendered`, `Within`, the
last part of `Jobs`), and a backend is wired to a harness of its own participant
(`Wired`). `ImplementsCopies` adds that there is a desk where there is a harness, and that
the harness was rendered with it (`Served`): so it is at a push only if the desk outlives
the make that rendered it (`Opened`); a step in a crossed checkout is one of a muddled
participant.

Model-checked only: `RaceIsDecided`, `InputReturns` and `LoginReturns`, because
liveness under fairness and `ENABLED` are out of the prover's reach, as is induction over
data. Every other property of a passing run has a theorem.

## 5. Where the code and its documentation disagree

- `old_price_confirmed`. The version that the update is conditional on is read at the
  mint, after the broker said yes, and the old price of the dialog is never compared
  with the listing's. A change written between the proposal and the answer goes
  unnoticed; the changelog's old value is then a price that was not replaced. It is a
  price that the listing once had, at an edition no later than the one replaced, if the
  agent named the price it had read (`OldPriceWasHolds`).
- `updated_is_recorded`. The changelog's key has whole seconds of the mint time: two
  changes of one listing minted in one second leave one entry. If no two are, every
  change reported as updated has its entry (`RecordedApartHolds`).
- `runs_paused`. Any call that the backend does not answer itself counts as one for the
  broker. A batch of a gateway call and a confirmation pauses on the gateway call, and
  wording the question for it raises; the run stays paused and no client is told. If the
  agent keeps to its prompt this does not happen (`PausedAsPromptedHolds`).
- `participants_collide`. The comment at `Makefile:30-31` says that names are suffixed
  before each deploy "so participants never collide". The names are in one
  `agentcore.json`, and render and deploy are two commands with no lock: of two makes in
  one checkout, one may deploy what the other rendered. `OwnNames`, `PageIsOwn` and
  `ImplementsCopies` show that nobody of another checkout is touched,
  `BootstrapRepairs` that a bootstrap which runs alone puts its participant right.
  `README.md:163-165` describes the symptom.

Read, and not a matter of a run:

- The dialog rounds a price to whole dollars (`main.py:254`), the approval truncates it
  (`confirmation.py:51`), while `app/brokerAgent/harness.json:41` speaks of an exact
  change. They are never more than a dollar apart, and the same for whole dollars
  (`WithinADollarHolds`).
- The comment at `main.py:189-191` says that a submission is trusted only if the code
  interpreter completed "earlier in THIS SAME stream", and the error text (203-205) and the
  log say "this turn". The gate asks whether it completed anywhere in the run, in streams
  of earlier requests too, as the comment at `main.py:53-62` explains and intends.
  `GateIsExact` states the latter; of the former a run would only repeat that a second
  stream may be accepted, which `main.py:53-62` asks for.
- `services/seed/seed_handler.py:33-36` wants no stale changelog row to survive a reset. The
  query (40-42) is one page and not a consistent read, so a finished reset may leave some;
  `FoundIsCleared` says what it does not leave.
- `services/seed/seed_handler.py:2-3` says that re-running `cdk deploy` always resets the
  scenario. The handler runs on an Update event, and `infra/stacks/data_stack.py:112-114`
  gives the custom resource a constant `SeedVersion`, so that CloudFormation sends no
  Update for a plain redeployment; its own comment says that the string has to be
  changed. `Reseed` therefore runs the handler by `make seed`, and `CdkDeploy` seeds what
  it creates only.

## 6. What the models leave, and what they show beside the properties

Some behaviours that the models contain are not excluded by a property, because the
code has them and nothing in the repository says otherwise:

- A sign-out does not stop the streams of the tab. Their text, dialog and end
  then arrive at the next user, against `OwnScreen` and `DialogStillAsks`; an old
  `RUN_FINISHED` enables the input while a request of the next user is under way
  (`App.jsx:99-107`), against the second half of `BusyIsTrue`. These are stated of a
  `clean` tab for that reason. An answer of that user is sent without the old run's id and
  reaches nobody (`OwnAnswer`, of any tab).
- A message sent over an open dialog replaces the run id, and the dialog stays
  (`passed`). Three things may follow. The new run ends: `App.jsx:101-104` closes the
  dialog, the old run stays paused, and nothing tells the broker (the exception of
  `NoSilentLoss`). The new run pauses and its stream breaks off before the new question
  arrives: the answer to the old dialog goes to the new run's call, because a resume names
  a run and `interrupt_id` is not compared (the exception of `AnswersWhatItShows`). The
  message is refused: the answer names a run that nobody started, and reaches nobody.
- Two makes in one checkout cross (section 5, `crossed`).
- A code interpreter's result that comes at another block index than its call may be
  missed by the gate, and a text result shown under another call: see `AguiTranslate`.
- A token minted before a reseed, for an edition whose number comes again, may be spent
  on the new edition of that number. The approval's row has no mark of the life of the
  listing it belongs to; `LifeIsLinear` shows that the versions stay a chain, and
  `ImplementsLives` that this is all a reset adds to the ledger.
- A deploy after a destroy that stopped, or with the checked-in state of a deployment
  that is gone, renders the ARN of a gateway that no longer exists (`torn`); the next
  bootstrap repairs it (`BootstrapRepairs`).

Not modelled:

- Wording, layout, logging, token counts, the contents of artifacts, the cost events.
- Pricing: arithmetic, and a global that the shipped front end never sets, since
  `api.js` sends no `forwardedProps`.
- What an agent makes of a batch answered in part, of an unanswered call in its
  history, or of an answer that was given though the call raised: the harness is not
  in the repository. The text of the underwriting heuristic is a choice (`figures`) in
  the stream that finishes.
- `expires_at` of an interrupt: sent, and read by nobody.
- Tables that are seeded and only read (comps, documents, users, deals), the
  market-data tool, the desk's list page: no state that changes.
- The order in which React runs state updaters: the hazard at `App.jsx:40` depends on it.
- CDK and AgentCore: `cdk deploy` and `agentcore deploy` are taken to succeed or to
  fail as a whole, as CloudFormation's rollback has it, and in one step, as is each
  script; `remove-aws-target.sh` writes its two files (22-24, 34-36) in one step too. A
  participant works in one checkout.

Small differences that change no property: `RUN_ERROR` and the pop of the flag
(`agui_translate.py:145`, `main.py:142`) are one step (`StreamError`), as nothing reads the
flag of a run that failed; a new turn has a run id that was never used, which is what
`App.jsx` sends; `ConnectionLost` is of a stream that has not told its outcome, since
`BrokenOff` covers one that has; `Restart` keeps the cached keys, since `CacheAges` right
after it gives the same state; `config` starts with nothing rendered although the
checked-in `agentcore.json` lists dev01's harnesses, since every make renders before it
deploys. With its bounds `listing_arguments` has no invocation that loses its row to the expiry
(the expired disjunct of `RefusalsAreHonest`); the theorem covers it.

Next, if the project is continued: a harness session per thread, once the harness's
treatment of unanswered calls is known.
