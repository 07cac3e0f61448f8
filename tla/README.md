# Verification of Supply Chain Monkey

TLA+ models of the supply-chain-monkey service and its clients, the TLC runs
that check them on small instances, and theorems proved by TLAPS for all of
them. Paths are relative to the repository; line numbers are of the commit the
project was written against.

## 1. The system

A FastAPI service answers part searches and part-number lookups from four
suppliers (JLCPCB, LCSC, DigiKey, Mouser) behind one envelope with a status
(`ok`, `not_found`, `provider_error`, and `partial` for batches). Python and
Rust clients, a command line and a broker crate consume it.

| Part | State it keeps | Operations | Talks to |
|---|---|---|---|
| SSE stream (`server/routers/stream.py`) | per request: targets, dict of pending tasks, batch of settled tasks; shared: a pool of 8 threads and its queue | open or refuse, run one search per target, time out, report, done, disconnect | adapters, from pool threads |
| Search and detail endpoints (`routers/search.py`, `detail.py`) | two pools of 4 threads | one lookup per request | adapters |
| SPN endpoints (`routers/spn.py`) | a pool of 4 threads; per batch: chunk, items | single lookup, chunked batch | adapters |
| Service shell (`auth.py`, `settings.py`, `main.py`, `health.py`, `contract_response.py`) | none after start-up | token check, status pages, response validation | codec |
| DigiKey client (`providers/digikey.py`) | token and its expiry, time of last request, rate-limit snapshot | throttle, refresh, try and retry, convert | DigiKey OAuth and Product API |
| JLCPCB adapter (`providers/jlc.py`, `jlc_openapi.py`, `jlc_scraper.py`) | none between calls | public search, C-code resolution, signed API, scraper, batch | JLC, LCSC adapter |
| LCSC adapter (`providers/lcsc.py`, `lcsc_api.py`) | none | primary and third-party search, deduplication, detail | LCSC |
| Mouser adapter (`providers/mouser.py`) | none | search, batch of ten | Mouser |
| Python client (`client.py`) | a thread pool per `search_all` | endpoints, fan-out, bounded read | the service |
| Contract codec (`contract_codec.py`, `scm-contracts/src/codec.rs`) | cached schemas | strict decode and encode | both ends |
| Rust client and broker (`scm-client`, `tests/consumers/alexandria-scm`) | the builder; requests in flight and what has been read of their answers | build, endpoints, fan-out, cancellation | the service |
| Command line (`scm-cli`) | per run: command, CA file, suppliers, rows, notes, exit code | parse, build the client, resolve suppliers, run, report | Rust client |
| Contract generation (`src/tsp`, `src/ts`, `scm-codegen`, scripts) | the generated files | TypeSpec to schemas; schemas to Rust types | build only |

A request makes its own adapter object, so adapters share no state between
requests; what requests do share are the thread pools and, through them, time.
The hard behaviour is therefore (1) the stream, where an event loop, timers and
a shared pool interleave; (2) the DigiKey client, where throttle, token expiry
and retry interact in time; (3) partial failure: batches of chunks and chains
of fallbacks in which one of several upstream calls fails; (4) fan-out in the
clients, with bounds, duplicates and cancellation; (5) limits and ranges at the
wire, which two languages must judge alike; (6) files that a generator writes
one by one and may be killed over. `PROJECT.json` lists every hazard at its line.

What makes each part correct:

- **Stream**: one truthful event per target, done last; nothing is lost or said
  twice however timers and answers race; every stream ends although providers
  hang; the pool's books balance and the pool is given back.
- **DigiKey client**: no request carries an expired token, requests keep their
  distance, a 429 is obeyed, failures are reported after the last try only,
  every call returns.
- **SPN batch and adapters**: one item per part number asked, in order; a failed
  chunk costs its own items; a failure never reads as a miss.
- **Search**: a part that a source lists is in the answer whatever the filters,
  limits and fallbacks between them; a fallback is used exactly when its
  predecessor had nothing; no part is answered twice.
- **Clients**: every supplier asked has one result, never more than the bound in
  flight, one failure leaves the others alone, exit codes tell the outcome.
- **Rust client and command line**: a bearer token stays at home, an answer is
  whole or an error, an exit code is the worst of what happened.
- **Codec**: nothing outside the byte budget or the I-JSON range passes, what one
  language writes the other reads, and nothing changes on the way.
- **Generator**: a run that says ok is right about every file, whatever came
  before it.

## 2. The plan

| # | Modules | Contents | Composes | State |
|---|---|---|---|---|
| 1 | `StreamContract`, `StreamSearch` | the stream and the pool | detailed implements abstract | checked, proved |
| 2 | `DigikeyClient` | the client in time | | checked, proved |
| 3 | `SpnBatch` | `_do_spn`, `_do_spn_batch` over the four adapters' lookups | adapters as operators | checked, proved |
| 4 | `FanOutContract`, `SearchFanOut` | `search_all` of both clients, `search_until`, the pool of `/v1/search` | clients and service; detailed implements abstract | checked, proved |
| 5 | `ScmCodegen` | the generator of the Rust bindings and its files | | checked, proved |
| 6 | `WireTypes`, `ContractCodec` | the generated types; the two codecs | a document travels between the two | checked, proved |
| 7 | `ScmClient`, `ScmCli` | builder and exchange; the command line over them | commands over the client | checked, proved |
| 8 | `PartSearch` | one search of each supplier: sources, filters, limits, fallbacks | the adapters' sources in turn | checked, proved |

Each `MC...` module gives one component its small instance; each `...Proofs`
module has its theorems. The type invariants, the inductive invariants and the properties
`OneEventPerTarget`, `SettledOnce`, `CancelledNeverRuns`,
`RetriesBeforeGivingUp`, `ResultsComplete`, `EndedMeansEnded` and
`BundleIsBounded` are theorems and are not repeated in the runs.

## 3. The stream

`StreamSearch.tla` has two kinds of actors. The **event loop** is one thread:
its steps are `Open`, `Refuse`, `Submit`, `Deliver`, `Timeout`, `Wait`, `Emit`,
`Abort`, `Finish`, `Disconnect`. The **pool's threads** take `StartWork` and
`FinishWork`. A search is a task `<<s, i>>`, target `i` of stream `s`, and has
two lives: `work[t]` in the pool (the future of `run_in_executor`) and
`task[t]` in the loop (the asyncio task of `_run_one`); `asyncio.wait_for` is
what couples them.

| Code (`stream.py`) | Model |
|---|---|
| validation, 173-204 | `Targets`, `Refuse` (400, 401) |
| `asyncio.create_task` per target, 226 | `Open`: `task = "created"`, `pending` |
| first step of `_run_one`, 212-218 | `Submit`: joins the queue, timer starts |
| `_executor`, 34 | `queue`, `worker`, `StartWork`, `FinishWork` |
| `wait_for` ends, 213-224 | `Deliver` (answer first) or `Timeout` (timer first; cancels queued work only) |
| `asyncio.wait(FIRST_COMPLETED)`, 228-229 | `Wait`: `batch` is the `done` set |
| the `for` over `done`, `pending.pop`, three arms, 230-262 | `Emit`, `Report`; `Abort` when the timeout arm raises |
| done event, 264-265 | `Finish` |
| the response is closed | `Disconnect` |

`LoopFree` says that callbacks of the loop run in order: the first steps of the
tasks a stream just created come before anything else the loop does. Timeouts
are classified by what they do (`finite` fires, `unbounded` never does,
`unencodable` fires at once and cannot be written as an I-JSON integer); the
clock itself is left out, so a timer may fire at any time after submission,
which covers every length. What an adapter does inside `_search_provider_sync`
is one step with any of its outcomes. `Disconnect` may happen whenever the
stream is open.

`StreamContract.tla` is what the browser is promised: every target owes one
event; done comes when nothing is owed. `Contract` in `StreamSearch` maps
`owed` to the generator's `pending` dict and `sent` to the reported statuses.

### Runs

| Run | Instance | Shows |
|---|---|---|
| `stream_safety` | 2 streams, 2 threads, up to 2 targets; repeated, unknown and missing suppliers; timeouts that can and cannot be written; answers that come and searches that raise; symmetry | `EventsTellTheTruth`, `PoolAccounts`, the contract's safety |
| `stream_ends` | 2 streams, 1 thread, providers may hang | `StreamEnds`; `ContractSpec` (with the contract's liveness); `PoolIsGivenBack`, for behaviours in which providers do answer |
| `stream_slow_blocks_fast` (violation) | 2 streams, 2 threads, finite timeouts | ADR-007's "Slow providers do not block fast provider results" |

Two streams with two targets and two threads are the smallest instance in which
the pool is full with work queued behind it, two tasks settle between a `Wait`
and the next, one stream's orphans compete with another's work, and two threads
could take the same search. The proofs remove the bound for safety.

Fairness. `LoopFairness` is weak fairness of each task's submission, delivery
and timer and of each stream's generator: the event loop runs every ready
callback. Nothing is assumed of the pool, so `StreamEnds` holds although every
provider hangs. `PoolFairness` (idle threads take work, searches end) is the
hypothesis of `PoolIsGivenBack` only: it rests on the timeouts every adapter
passes to its HTTP calls. A stream whose timeout is `nan` or cannot be written
breaks off inside the timeout arm (stream.py:242-249); `StreamEnds` is about
the other ones, and `EventsTellTheTruth` and the contract about all.

## 4. The DigiKey client

`DigikeyClient.tla` is one `DigikeySupplier` that serves several calls in a row
(a batch of part numbers). Time is a counter: each step says how long it took,
and every duration up to its timeout is tried.

| Code (`digikey.py`) | Model |
|---|---|
| `_make_request`, throttle, 269-272 | `Call`, `Throttle` |
| `_get_access_token`, 202-249 | `UseCached`, `Refresh`, `RefreshFails` |
| headers, `wait_time = 1`, 274-288 | `Authorized` |
| one try, 289-344 | `RateLimitedAfter`, `RateLimited`, `Fails`, `Answers` |
| sleep and retry, or raise | `Again`, `GiveUp` |

`deadline` is when DigiKey stops honouring the token: it runs from the issue,
the client's `expires` from the arrival of the answer. Assumed: the clock the
client reads does not jump (`time.time()` may, in reality), and the `timeout=`
of a request bounds the time of a try (in `requests` it bounds each wait for
bytes, not their sum).

| Run | Shows |
|---|---|
| `digikey_calls` | with waits in proportion to the code's (buffer longer than two timed-out tries and their sleeps): `TokenLiveWhenSent`, `PoliteSpacing`, `RetryAfterHeard`, `CallsReturn` |

`RetryAfterHeard` is the promise as far as the code keeps it: unless some call
ended rate limited. Such a call reads its last Retry-After and drops it
(digikey.py:305-320), and the next call on the same client goes out after the
200 ms interval only.

Retry-After is 0, 1 or 2 ticks. One of 0 makes wait_time 0 (digikey.py:305-313):
the retry follows at once, and so does one after a later error, since 0 doubles
to 0. `PoliteSpacing` states what is left of the interval: a request is closer to
the last one only in a call that DigiKey asked to come back sooner, never closer
than it asked for (the variable `asked` remembers the shortest such pause, for
the property only), and the next call keeps the interval again.

Ticks scale the code's seconds down; the order of the constants is what the
properties depend on. Three tries are the code's own number. Two calls are the
fewest in which a cached token and the interval between calls appear. `FairSpec`
lets the client's thread take its next step; a try ends because it has a
timeout.

## 5. Lookups by part number

`SpnBatch.tla` follows one request of `routers/spn.py`. What the supplier has
for each number is drawn in `Init` (`api`, `page`): a part, a part that does not
fit the response model, one that cannot be written, one under another spelling
(an API's only), none, or a failure. Everything after that is the code's doing.

| Code | Model |
|---|---|
| `_do_spn`, spn.py:49-106 | `NoAdapter`, `LookupOne` |
| blank numbers dropped, 130-138 | `Cleaned`, `Receive` |
| the loop over chunks, 144-172 | `Chunk`; `ChunkRaises` (DigiKey), `ChunkAnswers` (LCSC, Mouser, DigiKey), `StoreChunk` |
| `get_part_details_batch` of JLCPCB, jlc.py:300-345 | `AskApi`, `ApiFails`, `SkipApi`, then `Scrape` once per missing code |
| `_batch_status`, 36-46 | `BatchStatus`, `Finish` |

| Run | Shows |
|---|---|
| `spn_batch` | `ItemsAligned`, `AgreesWithSingle`, `FailuresStayInTheirChunk`, `EnvelopeSpeaksForAll`, `UpstreamBounded`, `ServerErrorsHaveACause` |
| `spn_failure_is_a_miss` (violation) | a failed request of Mouser, LCSC or the scraper is answered as `not_found` |

`ServerErrorsHaveACause` says where an HTTP 500 may come from: a part that does
not fit makes a single lookup one (spn.py:97 is outside its `try`) and costs a
batch one item; a part that cannot be written makes one of both. The part may be
the API's or a page's. A lookup alone adds the page to what the JLC API has
(`Enriched`, jlc.py:267-275), which can mend that part or spoil it, and a batch
does not: `AgreesWithSingle` compares an item with all that a lookup of its number
alone may say.

Instance: two numbers in lists of up to three with blanks and a repetition,
chunks of two where the code has ten or a thousand, and every combination of
answers. That is a full chunk, a last short one, a number in both, and every
adapter path. A page of JLCPCB's is a part, one that does not fit (half a
surrogate pair in its description, jlc_scraper.py:631-644), one that cannot be
written (a stock of too many digits, 647-677), nothing, or a failure; reading it
never raises (527-529). The service configures JLCPCB's hybrid backend only, so
the other backends are left out. An answer of the JLC API that cannot be read
without the page, but could with it (jlc.py:517-519 takes the manufacturer from
the page first), is a failure here, alone as in a batch.

## 6. Fan-out

`SearchFanOut.tla` puts `search_all` of both clients in front of the pool of
`/v1/search`. A request `<<c, i>>` is position `i` in the list of call `c`, so a
supplier listed twice is two requests and one result.

| Code | Model |
|---|---|
| `suppliers or SUPPLIERS`, client.py:181 | `Targets`, `Begin` |
| `buffer_unordered(max_concurrency)`, client.rs:328-331; a thread per supplier, client.py:184-187 | `WindowOf`, `WindowHasRoom`, `Pull` |
| the map, client.rs:330, client.py:188-197 | `Arrives`, `GivesUp` (timeout or connection), `Collect`, `Told` |
| the return value | `Return` |
| `select!` drops the search, alexandria-scm lib.rs:76-80 | `Drop` |
| search.py:30, 100-120 | `Refuse`, `Serve`, `Respond` |

`FanOutContract.tla` is what a caller sees: a map that has a result for every
supplier asked when it is returned.

The run `fan_out` has a Rust and a Python call, a window of one, one thread and
a service that need not answer. Lists are empty, repeat a supplier, or name an
unknown one, so a list longer than the window, answers out of order (the Python
call), two requests for one result, refused requests and a pool smaller than
what is asked of it all occur. It shows `ResultsAreAnswers`, `WindowBooks`,
`CallsReturn` and the contract. Wider windows and longer lists are the proofs'
business.

Fairness is of the clients only (`FairSpec`): they run, and their requests have
timeouts (client.py:50, config.rs:11). The Python timeout bounds each wait for bytes
rather than their sum; the service sends an answer in one piece.

## 7. The generator of the Rust bindings

`ScmCodegen.tla` is `scm-codegen`: it loads the schemas, bundles each root of
the catalog with everything it references, and compares or writes two
directories.

| Code (`scm-codegen/src/main.rs`) | Model |
|---|---|
| `main` up to the loop, `load_schemas`, 15-37, 62-96 | `Start`, `Loadable` |
| one root, `bundle_schema`, 212-250 | `BeginRoot`; `Skip`, `Collect` on the worklist; `EndRoot` |
| name collisions, 318-330 | `Collides` |
| registry and resources, 39-50 | `EndRoots` |
| `enforce_inventory`, 414-441 | `Inspect` per directory entry, `EndInventory` |
| `write_or_check`, 443-457 | `Verify` with `--check`; `Truncate`, `Fill` without |
| `bail!`, `?`, the end of `main` | `Fail`, `Exit`, `Finish` |
| outside the program | `Kill`, `Recompile`, `Touch` |

A schema is the list of identities it refers to; a bundle is the set of
definitions under their prefixed names. What typify makes of a bundle is a
function of it; a root typify refuses is a fact of the contract (`untypable`).
The outputs are visited in one fixed order, as the `BTreeMap` of the code does.
People edit the contract and the files between runs, and not while one is
running: the code assumes the same. `fs::write` truncates before it writes, so
a run can be killed with one file torn.

The run `codegen` has a contract with a cycle, a smaller one that makes files
stale, and one for each way a contract can be broken; stray, edited, torn and
irregular files; two troubles (kill, edit, new contract) per behaviour, which is
what a stale directory that is then torn, or torn twice, takes. It shows
`BundleExact` (the worklist computes the least closed set), `OkIsTrue`,
`FailureHasACause`, `CheckNeverWrites`, `WritesTowardsExpected` and, with weak
fairness of the running program (`WF_vars(Step)`), `RunsEnd`. Deadlock is
checked: a run can always be started.

## 8. The wire types and the two codecs

`WireTypes.tla` has one definition per generated type: each member, with its
scalar or type, whether it is a list and of what length, may be null, must be
there. `ContractCodec.tla` is `codec.rs` and `contract_codec.py` with a document
between them: it starts as bytes somebody wrote or as a native value a program
built, is read and written by either language in turn, and must survive.

| Code | Model |
|---|---|
| `strict_value`, `check_ijson`, codec.rs:77-116 | `strict_value`, `check_ijson`, `IntegerLiterals` |
| `GENERATED_SCHEMAS`, generated/mod.rs:135-321 | the same list, and what each root `Needs` of it |
| `build_validators`, `validate`, codec.rs:118-151 | `build_validators` (one missing schema fails them all), `validate`, `Accepts` |
| the lexers; `from_value`, `model_validate` | `Lexed`; `Converts`, `Native`, `Held`; `Holds` and `Leftover` for the flattened event |
| `decode`, `encode`, codec.rs:42-75 | `Reads`, `Decode`; `Serialized`, `Writes`, `Encode` |

A document is well formed except, perhaps, at one member, where one of about
thirty values stands: those are the values that some check of either language
tells apart (lexing of numbers at 2^31, 2^53, 2^63 and 2^64, negative zero,
fractions of integral value, repeated and unknown members, lone surrogates,
list bounds). Two wrong members at once would only pick which error comes
first. The bytes fit their budget or do not, chosen at each writing, since a
codec may lengthen what it read. Five hops are a document that has been written
by each language after being read by each.

The run `contract_codec` takes every root of the catalog, every member and
every value, and shows `OnceVettedAlwaysVetted`, `NothingChangesOnTheWay`,
`StreamEventIsOneThing` and `DifferOnlyOnNumbersAndTimes`. `codecs_agree`
(violation) shows one document that Rust accepts and Python refuses.

What is known to get lost or to be judged differently is part of these
properties. serde_json is built without `float_roundtrip` (rust/Cargo.toml:36),
so a double whose literal has more digits than a double holds may be read as its
neighbour: 2^53-1 in a number member is such a literal, `9007199254740991.0`, as
soon as it has been a double once. The pattern of a timestamp is compiled by
three engines: to Python's `re` a digit is one of any script and `$` may stand
before a last line feed, to pydantic only the former, to Rust neither. So a
timestamp in wide digits passes Python and is a `Schema` error in Rust, and one
with a line feed is a `Model` error in Python and a `Schema` error in Rust.

Not modelled: how deep a value nests, and the validator's own walk (a schema
accepts what it says). A NaN that a Python program puts in raw data is written
or replaced depending on the version of pydantic: both are tried.

## 9. The Rust client and its command line

`ScmClient.tla` has the builder, whose methods may be called in any order, and
one exchange per request: sent, body read chunk by chunk against the budget,
decoded. `ScmCli.tla` runs one of the six commands of `scm` over it, or (driver
`program`) a program that uses the builder itself.

| Code | Model |
|---|---|
| builder methods and `build`, config.rs:29-124 | `NewBuilder`, `BearerToken`, `SetBounds`, `AddRootCertificates`, `SetProxy`, `Build`, `SchemeError`, `Proxied` |
| `request`, `execute`, `read_bounded`, client.rs:334-426 | `Ask`, `Respond`, `Chunk`, `EndOfBody`, `Fail`, `Break` |
| `Cli::parse`, `build_client`, `read_ca_bundle`, main.rs:24-179 | `Parse`, `Url_`, `TakeToken`, `OpenBundle`, `OpenPipe`, `ReadBundle`, `BuildClient` |
| `execute`, `resolve_suppliers`, main.rs:181-268 | `Execute`, `Resolve` |
| `search_all_with_options`, client.rs:298-332 | `Search`, `InFlight`, `AllSearched` |
| `render`, `exit_code`, output.rs:54-115, 173-207 | `Render`, `note`, `exit_code` |

The declared length of a body may be absent or wrong; the environment may name
a proxy; a request may fail at any moment, which is also how its timeout looks.
`FairSpec` is weak fairness of `main` and of every exchange: the client has a
timeout for each (config.rs:11). It is not assumed that somebody writes to a
named pipe given as the CA bundle (`OpenPipe`): `File::open` waits for that
before the check for a regular file (main.rs:163-167), and `CliExits` excepts it.

The run `rust_cli` has two suppliers searched one at a time, bodies up to twice
the limit of one unit, each way a URL is refused, and each kind of host without
TLS. It shows `TokenStaysHome`, `AnswersAreWhole`, `OnlyConfigured`,
`ExitTellsTheWorst` (all four codes; `--help` exits 0 with nothing asked),
`NobodyIsSilent` (of every search that got as far as its table, the ones that
exit with 1 because of one supplier included) and `CliExits`. One unit of limit and two
of body are an empty, a fitting and an oversized answer; the proofs have any
limits. Left out: columns, prices and the wording of `--json`, and how the path
of a base URL is normalised.

## 10. The search of one supplier

`PartSearch.tla` is one search from the choice of the adapter to the answer. How
the models of the parts compare with the keyword, and whether that names a model,
has only dashes and blanks, or is empty, is drawn in `Init` (`model`, `keyword`):
an empty keyword matches every part for the public search and none for LCSC.
What each source holds, what of it converts (`packs`), and what each lookup of a
part says, is free. Of what LCSC and the public search hold (`held`) the limit
asks for a page (`page_size`); they may send all of it instead, for the code
does not cut what they send.

| Code | Model |
|---|---|
| `_do_search`, routers/search.py:33-91 | `NoAdapter`; `NotFound`, `Answer` (the cut at the limit, parts that do not fit) |
| Mouser, mouser.py:137-198; a part that does not convert is left out, 355-357 | `AskMouser`, `Convertible` |
| DigiKey, digikey.py:366-417; one entry for each packaging that converts, 472-500 | `DigikeyFails`, `AskDigikey`, `exact_then_products`, `packagings` |
| its doubles, digikey.py:398-401: the part number letter by letter, the keyword for a product without one, 517 | `SameMpn` |
| JLCPCB's public search, jlc.py:161-178, 398-446; an item that does not convert fails it | `AskPublic`, `Read`, `PublicResults` |
| LCSC's two endpoints, lcsc_api.py:53-100, 180-204 | `AskPrimary`, `AskThird`, `deduplicate_products` |
| the page asked for: lcsc.py:49, jlc.py:206, 398-399, lcsc_api.py:55 | `page_size`, `HearPage` |
| LCSC's filter, lcsc.py:45-64 | `LcscResults` |
| a product of LCSC's that either adapter cannot handle, outside its `try`: search.py:53-63 | `ProductRaises` |
| C-codes from LCSC, jlc.py:185-188, 199-298 | `Resolving`, `Resolve` per code, `Resolved` |
| the scraper, jlc_scraper.py:354-477 | `PageFails`, `PageRows`, `PageCodes`, `Verify` per code, `Verified`, `AskClaude` |

The run `part_search` shows

- `NothingFoundIsLost`: the first parts that a source holds, as many as the limit
  asks for, are seen (a hundred at most; ten where there is no limit); what is
  seen and passes the source's rule is found, unless the limit is full of parts;
  and what is found is answered up to the limit. Three exceptions are the
  code's: DigiKey skips a product when an earlier result has its part number,
  and a result without one has the keyword for it, so that an exact product
  behind an unnamed one is skipped; with a limit below zero the public search
  stops at its first match (jlc.py:444), and the answer goes without the last
  results (search.py:76); a part behind more non-matching ones than the limit is
  never seen, because the limit is the page size. The limit is applied before,
  inside and after the loops; were it to count lookups instead of parts (the
  mutant), a refused part would cost a good one its place.
- `FallbacksInOrder`: a source is asked only when those before it had nothing
  that matches; the scraper only when the public search failed, which is decided
  many requests after it was asked; `not_found` is not said before the last
  source was asked; the answer is of the source asked last.
- `OnceAtItsBest`: a part is answered once where the service merges lists, and
  by LCSC with the best offer it heard.

Instance: two parts with C-codes and one without; lists of offers that are
empty, of one, of both codes in reverse with two packagings of the first, and
one of a part, an offer that does not convert, another part and a better offer
of the first; every kind of match for LCSC and JLCPCB, and for DigiKey two
spellings of the keyword, a longer model, a blank one and none; limits of -1, 0,
1 and 2. That is a limit below, at and above what is found, a page that cuts the
list before its match, a filter that leaves none, one and all, and a path
through every source. Deadlock is not checked: a search ends.

Left out: the pages after the first, which no adapter asks for; DigiKey's and
Mouser's page sizes, which are constants of the request and not the limit; the
cap of a page at a hundred is in the definition and the proof, but no list of
the instance is as long. The rows of the scraper's page always convert: their
fields are text and their stock a number by construction
(jlc_scraper.py:313-349), and a failure there would be `PageFails` anyway
(jlc.py:190-197).

## 11. What is proved

The `...Proofs` modules hold the theorems; every leaf is checked by TLAPS, for
every value of the constants that satisfies the named assumption of the module.
Each has the same shape: the properties do not follow from each other step by
step, so an inductive invariant `IInv` is proved from `Init` and by one lemma
per action, and type correctness, the safety properties, the action properties
and the refinements come from it.

**Stream** (`StreamAssumption`). Whether an event is truthful depends on the
task, the task on the future, the future on queue and threads. `IInv` is
`TypeOK`; `GeneratorBooks` (a popped target was reported exactly once, a batch
holds settled pending tasks only, an ended stream owes nothing); `TaskBooks` (an
answered task says what its future says, a report what its task says);
`PoolAccounts` (the queue has no repetition and holds exactly the waiting work
plus cancelled leftovers, a running search is on exactly one thread).
`EventsExactlyOnce`, `EventsTruthful`, `PoolSound` follow; `SettledForGood` and
`CancelledStaysCancelled` are action properties; `ImplementsContract` maps every
step to a step of `StreamContract` or a stutter.

**DigiKey client** (`DigikeyAssumption` and the hypotheses of each theorem).
`TokenOutlivesTries`: if every sleep is at most `base` times the backoff and `2
* RequestTimeout + 6 * base + TokenTimeout <= Buffer`, no try carries an expired
token. With the code's 15 s, 10 s and 60 s this covers Retry-After values of up
to 3 s; beyond that a retry may carry an expired token, since the token is taken
once, before the tries (digikey.py:275). The invariant bounds what is left of
the token's life at each try by what the remaining tries can still spend.
`SpacingKept`, `PausesKept` and `GivesUpLast` hold for any Retry-After; the first
rests on the order of two constants of the code, 0.2 s and 1 s, which is part of
`DigikeyAssumption`.

**Lookups** (`SpnAssumption`). `RequestBooks` says where the loop over chunks
stands (`handled` is a multiple of the chunk size), `ChunkBooks` what may have
become of each number of the chunk at hand: what a lookup of it alone would
say, unless something happened to its company (`Known`, `Excused`). From them
follow `ItemsInOrder`, `BatchAgrees`, `FailuresContained`, `EnvelopeSpeaks`,
`CostBounded` and `ServerErrorsExplained`. What the recursive function `Cleaned`
returns is shown by a least counterexample (`NatMin`), since the induction
theorems of the library take operators.

**Fan-out** (`FanOutAssumption`). That a returned map is full depends on where
each position of the list is. `IInv` adds `WindowBooks` (a position is unpulled,
in flight, or has its result; the service has nothing of an unpulled one),
`ResultsAreAnswers`, and `EndBooks` (a call that returned has nothing left).
`Complete`, `WindowSound`, `AnswersOwned` follow; `EndsForGood` is the action
property and `ImplementsContract` the refinement of `FanOutContract`.

**Generator** (`CodegenAssumption`: titles of the catalog are distinct and give
distinct module names). `Worklist` (what is bundled refers to what is bundled or
pending, and all of it is reachable), `OutputsGrow` (the outputs are those of
the roots bound so far), `FilesFollow` (no stray is left of an inspected entry,
no wrong file of a written one) and `Verdicts`. `BundlesAreExact` is the
correctness of the worklist for any graph of references; `OkMeansOk` and
`FailuresHaveCauses` are about any history of kills and edits;
`CheckIsReadOnly` and `WritesAreDue` are action properties.

**Client and command line** (`ClientAssumption`, `CliAssumption`). `ClientBooks` (a
client that was built may send its token, and only it sends), `AnswerBooks` (an
answer is kept while it is whole so far), `SearchBooks` (a search asks what was
resolved before it) and `ExitBooks` (main exits before it has asked anything,
when a search cannot be resolved, or with a code and a table that were read off
settled requests). `TokensStayHome`, `AnswersComeWhole`, `BundlesAreBounded`,
`SearchesAreResolved`, `ExitCodesTell` and `EverySupplierIsHeardOf` follow.

**Search** (`SearchAssumption`: any parts, models, lists, suppliers and limits). The
properties speak of the end of a search and of sources asked long before it, so
`IInv` adds `SourceBooks` (a source that was not heard has listed nothing, a
supplier asks its own sources), `PhaseBooks` (which sources have been asked at
each phase), `PageBooks` (what was listed is what the source holds, or its first
page), `LookupBooks` (every candidate of a loop is to be looked up, found
or refused, and only one of these; what a fallback presupposes of the sources
before it) and `ResultBooks` (the properties of the results before the limit
and the response model have their say). `NoPartLost`, `OrderKept` and
`AnsweredOnce` follow. Under them are lemmas about the lists: that `Picked`
enumerates the positions it is given in their order (`PickedNumbers`,
`PickedFacts`), what slicing and first occurrences keep, that merging offers
keeps every part once at its best (`DedupFacts`) and that DigiKey's join loses
only namesakes (`DigikeyFacts`), and that the first offers of a source are on its
page whatever the page's size (`PagesAreSeen`). The recursive functions are treated along the
list, by a least number at which the fact would fail (`NatMin`).

**Codecs** (`CodecAssumption`). The state space of the runs is every root,
member and value, but a bounded number of hops; the theorems are for any roots
and any number of hops. `IInv` adds one thing to three of the properties:
`Vetting`, by which a document that no codec has accepted yet is still what it
was at first, and one that was accepted is `Settled`: every check of both
languages passes it (unless it is a time that only Python's patterns match), and
no lexer takes an integer in it for a double. That it is not
enough to pass the checks of the codec at hand is what makes the invariant
necessary: the next hop is by the other language. Under it are lemmas on the
types of `WireTypes`: what is accepted where a number is due (`AcceptedNumber`),
what a lexer makes of it (`LexedIs`), and that the two halves of the generated
stream event together convert what its members do (`Halves`), so that the union
loses nothing. `ValidatorsBuild` says that every schema a root needs is built
into the crate. `VettedForGood`, `NothingChanges` and
`EventsAreOneThing` follow; `ReadersDifferAsStated` needs only `TypeOK`.
`WireTypes` writes its own merge of records in place of the `@@` of `TLC`, of
which the provers know nothing.

**Variants.** Liveness itself is out of the prover's reach. What can be proved is
the half of it that the code is about: a measure that every step of a component
takes down, along with a step that can always be taken. What remains is that the
process is scheduled and that its timers fire, which is the fairness of the runs.

- `StreamsAreNeverStuck`, `StreamsEnd`: an open stream whose timeouts can fire
  always has a step of the event loop to take, and each takes it down: targets
  not reported, then the batch in hand, then tasks not settled. It needs one
  invariant beyond `IInv`, `HasTasks`: nothing is waited for that nobody runs.
- `CallsAreNeverStuck`, `CallsEnd`: a running `search_all` call has room, a
  request of its own or nothing left, and `2 * unpulled + in flight` falls with
  its own steps and is untouched by all others.
- `CallsEndInTime` is about time and not only about steps: if no Retry-After
  exceeds `base`, a DigiKey call is over within the minimum interval, one token
  timeout, three request timeouts and `6 * base`. (One client is used by one
  thread: a request makes its own adapter.)
  The condition is the point of it: the code caps neither Retry-After nor its
  sleep (digikey.py:305-314), so that without it no bound holds.
- `SearchesEnd`, `RequestsEnd`: searches and lookups of every adapter; failed
  sources, chunks and pages are left behind like any other. With them go
  `AskedOnce` (a source is not asked again within a search, and its answer is not
  forgotten) and `ItemsAreFinal` (an item of a batch does not change when later
  chunks fail).
- `CommandsEnd`: a command goes to a later stage or takes one request further.
- `StepsEnd`: a run of the generator, on any graph of references: an identity is
  bundled once and a reference looked at once.

Only model-checked: liveness (`StreamEnds`, `PoolIsGivenBack`, `CallsReturn` of
both modules, `RunsEnd`, `CliExits`, the liveness of `ContractSpec`), which the
prover does not reach beyond the variants above.

## 12. Where code and documents disagree

Each is the counterexample of one run, listed under `findings` with its quote:

1. `stream_slow_blocks_fast`: slow searches fill the shared pool, and a search of
   a fast provider times out in the queue.
2. `spn_failure_is_a_miss`: ADR-005 forbids reporting a failure as `not_found`;
   three of the four adapters do.
3. `codecs_agree`: an integer literal of 2^64 or more is a double to serde_json,
   which accepts it at a flexible or number member; Python refuses it as no I-JSON.

More were met on the way and are modelled as the code has them. A Retry-After of
0 lets a retry follow within the 200 ms that a comment promises (digikey.py:170);
`PoliteSpacing` says when (section 4). A stream
whose timeout is `nan` or out of range ends with no done event (stream.py:242).
The token is taken once, before the tries (digikey.py:275): a Retry-After longer
than the 60 s buffer sends an expired one, which is what the condition of
`TokenOutlivesTries` excludes. The last Retry-After of a call is forgotten
(digikey.py:318). A part that does not fit makes a single lookup an HTTP 500
(spn.py:97). DigiKey's "Skip if already in exact matches" (digikey.py:398) skips
what shares its part number with any result so far, so of two namesakes among
the products the second is left out. A search that failed at Mouser, LCSC or
JLCPCB is `not_found` too, as in 2. What 1 says of the stream's pool holds of
`/v1/search` too: four threads, no timeout, and the work of clients that gave up
stays (`SearchFanOut`).

## 13. Not modelled

- The service shell (token check, settings, status pages): no state after
  start-up. Its decision, authorised or not, is an input of `StreamSearch`.
- The fields of a part: the conversion of provider JSON, `resolve_stock`, prices.
  Pure functions of one answer; the models tell parts apart by what becomes of
  them.
- The patterns over page text of the JLCPCB scraper (jlc_scraper.py:80-306,
  532-670): what they read off a page is free in `PartSearch`.
- The LCSC page scraper, which no adapter imports, and the parts of the
  language-model helper other than `find_c_code_with_claude`.
- The TypeSpec emitter and the npm and release scripts: they call one another
  and keep nothing. To the generator they are another contract between two runs.
- TLS, HTTP, JSON Schema validation, typify: libraries, by how the code uses them.
