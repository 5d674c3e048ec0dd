# PageMap: a verification project

PageMap (`src/src/pagemap`) is a Python MCP server. An agent calls its tools
over STDIO, HTTP or WebSocket; the server drives a Chromium browser through
Playwright, turns a web page into a *page map* (numbered interactive elements,
pruned text, metadata) and lets the agent act on the numbers, the *refs*.

This directory holds TLA+ modules translated from that code, the TLC
configurations that check them on small instances, and theorems that TLAPS
checks for every value of the constants. `PROJECT.json` lists components, runs,
mutants, the source lines every definition stands for, findings, hazards and
theorems. Paths below are relative to `src/src/pagemap/`.

Sections: 1 inventory, 2 modules, 3 runs and bounds, 4 findings, 5 smaller
differences between the code and what is said of it, 6 proofs, 7 what is not
modelled, 8 what is left.

## 1. Inventory

| component | state | operations | what makes it correct |
|---|---|---|---|
| `server/browser_pool.py` BrowserPool | semaphore, `_available_slots`, `_contexts` (id to context), shared browser, reaper task | `acquire`, `session()`, `release`, `_reaper_loop`, `shutdown`, `health` | a slot is never freed twice or lost; one context per id; no open context is forgotten; waiters are served |
| `server/session_manager.py` HttpSessionManager | `_sessions`, `_tenant_session_counts`, `_sessions_lock`; per entry: browser, cache, `tool_lock`, `session_lock`, age | `get_context` (lookup, TTL expiry, creation), `_get_session_for_entry` (recycling, SSRF guard), `remove_session`, `shutdown` | tenant counts are exact, limits hold, one tool per browser, removal releases the context |
| `server/__init__.py` ServerState, tools | STDIO session, page cache, `tool_lock`, tabs, web sessions | the MCP tools; `get_session` with health check and recycling | a ref is resolved only in the map the agent was shown; cached answers describe the page |
| `core/cache.py` PageMapCache | active entry, URL LRU, statistics | `store`, `store_in_lru_only`, `invalidate`, `invalidate_all`, `lookup` | bounded, one entry per normalised URL, no answer about another page |
| `server/browser_session.py` BrowserSession | browser or driver, context, page, pending popup, batch pages | `start` in four modes, `stop`, `navigate`, `switch_page`, popups, batch pages | resources are closed on every path; every open page is accounted for |
| `server/multi_tab.py` MultiTabSession | named tabs with a page, a cache and a lock each | `open_tab`, `switch_tab`, `close_tab`, `prune`, `close_all` | quota; a tab entry has a session, a session has an entry; the active tab is open |
| `server/ws_session_manager.py` | connections, token buckets | `on_connect`, `on_disconnect`, `check_rate_limit` | the rate is bounded; the pool's slots are conserved |
| `pipeline/retriever/sessions.py` SessionManager, web tools | web sessions by id, idle times | `resolve_session_arg`, `get`, `close`, `_evict_idle`; search, fetch, batch | the default session is found; a fetch answers about its own URL |
| `pipeline/retriever/httpfetch.py`, `http/backends/*` | the backend of the process, its client, each session's cookies | fetch over curl_cffi, httpx or urllib | cookies are not lost, the sessions' jars stay apart; a replaced client is closed |
| `server/http_server.py` | workers, middleware chain, readiness, drain flag | boot, serving, signals, clean-up | an order of shutdown in which workers end before what they use; answers a browser can read in every deployment |
| `core/page_map_builder.py` | none of its own | five kinds of build, two rebuilds | refs, hints and barriers name the elements of the final list |
| `core/template_cache.py` | templates by key, statistics | lookup, learn, validate, expire, evict | the counters add up under concurrent builds |
| `core/ecommerce/` | none | barriers, actions, options, cart flow | "ready to add" only when nothing is left to choose |
| `core/pruning/`, `core/pruned_context_builder.py` | none | AOM filter, grouping, rules, scores, budget, tiers, merge; compressors by page type | what is dropped is the least; a page with text gives a context, within the budget |
| `core/serializer.py` | none | full prompt, diff | diffs add up to the full prompt |
| `core/dom_change_detector.py` | none | fingerprints, structural comparison, change verdict | equal verdicts for equal structure |
| `server/barrier_dismisser.py`, `core/diagnostics/*` | remap counter | one dismissal per map, one remap per cache, scroll merge | never leaves the agent with refs of another page |
| classifiers, metadata, i18n, extractors, URL validation, CLI | none to speak of | pattern matching, formatting | see 7 |

`pagemap.telemetry`, `.security`, `.resilience`, `.repository`, `.cloud` and
`.metering` are imported but are not part of the repository.

**Interaction.** A tool call gets a `RequestContext` (from ServerState in STDIO
mode, from HttpSessionManager in HTTP mode), waits for the context's
`tool_lock` under `asyncio.timeout(150)`, calls `get_session()`, which may
replace the browser, and then alternates between awaits on Playwright and
updates of the cache. HttpSessionManager takes browsers from BrowserPool and
gives them back; the pool's reaper and `shutdown` act on the same contexts. A
build reads the page, asks the template cache what to expect of it, runs the
pruning stages and compressors, assembles refs, hints and barriers and is
answered by the serializer, whole or as a diff against the map the cache holds.

**Hard behaviours.** All concurrency is asyncio: tasks interleave at awaits
only, but a timeout or a cancellation may end a task at any of them. State is
read before an await and used after it (the reaper's list, the entry of an
expired session, the map `execute_action` resolves a ref in, the tab a call was
issued for, the template a build has looked up); resources are freed on several
paths; the page changes, navigates and opens popups when it likes; the browser
dies. In the sequential code the order of stages is what is hard: refs are
taken before elements are dropped and renumbered, scores are rewritten by three
stages, elements are removed while decisions made before are still used. Every
place where this bites is a hazard of `PROJECT.json`, with the properties that
watch it or the reason why none does.

## 2. Modules

| module | models | state and actions |
|---|---|---|
| `BrowserPool` | `browser_pool.py`, the start and stop of a pooled session | `sem`, `waiters`: the asyncio semaphore of CPython 3.11, the oldest the project supports, with its FIFO queue and its woken tasks (a woken task passes a value still above zero on to the next); `available`, `contexts`, `entry` the pool's fields; `bs` the life of each session; `call` the await every task is at; `reaper`, `down` the two background coroutines. One action per stretch of code between two awaits. |
| `HttpSessions` | `session_manager.py` with the tool wrapper of `server/__init__.py` and the playground of `http_server.py` | extends `BrowserPool`: a request's actions contain the pool's actions as conjuncts, so pool and manager run as one system. `session_lock` needs no variable, it is only taken under `tool_lock`. |
| `PageMapCache` | `core/cache.py` | operators on a cache value `[active, lru, remaps]` |
| `PageTools` | the browser tools on the page of a STDIO session, auto-dismiss, auto-remap, the browser mode of `web_fetch` | `page`, `popup`, `up` the browser; `cache`; `tool` the call in progress and the await it is at; `agent` what its answers have told the caller; `web` the browser attached to the web session |
| `RefContract` | what the tools promise of refs | the abstract specification: `shown`, `told`, `usable`, `working`, `busy`; a call begins, is answered, or a ref is refused. `PageTools` instantiates it: `KeepsContract` is a property of its run and of a theorem |
| `TabContract` | what the tab tools promise of the open tabs | the abstract specification: `table`, `front`, `used`, `asked`; a call asks, and then opens, switches, closes or ends in one step, closing expired tabs before. `TabTools` instantiates it: `KeepsTable` is a property of its run and of a theorem |
| `TabTools` | `multi_tab.py`, the tab tools, the tab part of `get_session` | `multi` the MultiTabSession, `tab` the life of each tab's session, `turn` the call each agent has under way with what it captured before the lock |
| `WebSessions` | `sessions.py`, `web_search`, `web_fetch`, `batch_web_fetch`, `web_close_session` | `registry`, `webobj`; `visit` a call, `job` its URLs, each at its await on the shared page |
| `WsSessions` | `ws_session_manager.py` | `conn`, `bucket` with the clock `now`, the pool reduced to `slots` and `pooled` |
| `BrowserSession` | `browser_session.py` | `sess` the attributes, `chrome` browser and driver, `open`, `born`, `heard` the pages of the context and the listeners that have yet to run, `act` and `load` the calls under way |
| `HttpServer` | `_run_http_server`, readiness | `life`, `owns`, `chain`, `worker`, `pending`, and `steps`, what the finally block has yet to do |
| `TemplateBuilds` | `template_cache.py` as builds use it, the metadata fall-back | `entries`, `stats`, and `build`, each builder between its lookup and its verdict |
| `MapAssembly` | the assembly of a page map: barrier, budget filter, hints, e-commerce engine, cart flow; offline builds; both rebuilds | `assembly`: the stage, the page, the element list, what was found on it |
| `PrunedContext` | `pruned_context_builder.py` | `context`: the document as lines, the compressor its type and schema select, what it answers |
| `AomFilter` | `core/pruning/aom_filter.py` | `tree` the document as the filter removes and rescues elements, `filter` its decisions |
| `ChunkPruning` | `core/pruning` after the filter | `prune`: the call of `prune_page`, stage by stage |
| `FastFetch` | `httpfetch.py`, the three backends, `_fast_fetch_page` | `jar`, `remembered`, `curl`, `fetch` each call at its await |
| `Listing` | | the members of a set of places in an order, and the sum of a list: used by `MapAssembly`, `ChunkPruning`, `AomFilter` and `PrunedContext`. `SelectSeq` and `SetToSortSeq` do the same and cannot be reasoned about |
| `PromptDiff` | `core/serializer.py` | `answered` the map answered last, `view` what the agent has put together |
| `MCServerSessions`, `MCPageBuild` | | compose the modules of two families for TLC, see 3 |
| other `MC*` | | model values for TLC |
| `*Proofs` | | TLAPS proofs, see 6 |

**Correspondence.** An action is the whole code from one await to the next,
with the saves and counters it contains; the comment above it names the
function, `map` the lines. Python exceptions are disjuncts of their own
(`StartFail`, `BuildFails`, ...), cancellation too (`CancelStart`, `TimeOut`,
`TimesOut`, `Cancel`, `CutShort`). In the sequential modules an action is one
stage of the function, and what a pattern would recognise in the text is chosen
with the input.

**Abstractions.** A page is `[url, dom]`. A DOM is what `DomFingerprint` tells
apart (counts, title, hash of the first 2 KB of text) and `Struct` maps it to
the part `fingerprints_structurally_equal` looks at. A page map of `PageTools`
is the URL it was built at, the DOM its refs come from and the DOM its content
comes from: tier B of `get_page_map` keeps the first and renews the second. In
`MapAssembly` a map is its list of elements and the refs that speak of them; an
element is its role, its region and the set of patterns its label matches. A
line of `PrunedContext` and a chunk of `ChunkPruning` are their lengths, their
tokens and the patterns they match; scores are in thousandths, ratios in
percent. Ages are choices: `Expire`, `Age` and the `expired` of a lookup happen
at any time; only the token bucket has a clock. Answers are reduced to what
they tell the agent.

**Environment.** `Faults` switches on what BrowserPool's callers may do:
`"overlap"` several owners of one id, `"cancel"` cancellation inside a call.
`Env` switches on what happens around the page tools: the page changes
`"between"` tools or `"during"` them, the browser meets its `"death"`, the
150 s limit can `"cancel"` a tool; `TabEnv` does the same for tabs. `Telemetry`
is FALSE for the repository as it is: the import on the recycle path then
raises. `Used` restricts the tools an instance calls, `AutoDismiss` is the
environment variable of that name. `Reraised` says whether uvicorn raises a
captured signal again when `serve()` returns, as 0.29 and later do. `Installs`
and `Deployments` are the packages a machine has.

External behaviour that is assumed: Playwright tells the `page` listeners of a
context of every page made in it, those of `new_page()` included, and runs
async listeners as tasks; a graceful uvicorn shutdown ends requests before
`serve()` returns; curl_cffi's and httpx's long-lived clients keep cookies of
their own.

## 3. Runs

| run | instance | shows |
|---|---|---|
| `pool_contract` | 2 tasks, 2 ids, 3 sessions, 1 slot, no faults, fairness | every slot is free or held (`SlotConservation`); no live context is unreachable (`NoOrphanContext`); a queued task is served although no owner releases (`WaiterServed`) |
| `http_sessions` | two groups of initial states (`owner`), 2 slots, both faults: the pool called by 2 tasks on 2 ids with 3 sessions that keep to no contract; the manager with 2 requests, 3 ids (one of the playground), 2 entries, 2 sessions, 1 tenant with limit 1 | a slot is never freed twice (`NoInflation`), the counter mirrors the semaphore (`MirrorsSemaphore`), no slot lies idle while a task queues for one (`NobodyWaitsForAFreeSlot`); exact tenant accounting and limit; one tool per browser while no session outlives its TTL and nothing shuts down |
| `page_tools` | 4 pages (two structures, one blocked URL), LRU of 1, every tool, auto-dismiss on, page changes between tools, deaths, cancellation | `RefsAreShown`, `AnswerDescribesPage`, `LruSound`, and the refinement `KeepsContract`, which says besides that a ref declared expired is refused |
| `server_sessions` | five kinds of behaviour (`kind`): `TabTools`, `WebSessions`, `WsSessions`, `HttpServer`, `BrowserSession` | the tab table and its contexts, that a tab call takes effect in one step (the refinement `KeepsTable`), the tabs' browser, sequential fetches, the default session, the token bucket, the server's shutdown and middleware, the pages of a browser session |
| `page_build` | seven kinds of behaviour (`part`): `TemplateBuilds`, `MapAssembly`, `PrunedContext`, `AomFilter`, `ChunkPruning`, `FastFetch`, `PromptDiff` | the accounts of the template cache, refs of the final list, the context's budget and minimum, what filter and budget remove, the sessions' cookies and the curl_cffi sessions, diffs |
| `pool_idle`, `http_shared_browser`, `page_stale`, `page_diff`, `web_batch`, `batch_popup`, `client_cookies` | the same modules on smaller instances; the manager with the telemetry package, one part of a build | seven places where the code does not do what is said of it, see 4 |

`server_sessions` and `page_build` each put modules side by side that share no
variable. `kind` and `part` are chosen once; a behaviour then moves the
variables of one module and leaves the others in their initial state, so the
states of the run are the union, not the product, of the modules' states.

**Bounds.** Counters that grow for ever are bounded by the sets of fresh
objects: a call that may start a context needs a `BrowserSession` left
(`SessionsLeft`), a request needs a `SessionEntry` left (`EntriesLeft`), a tab a
`TabInstance`, a fetch is made once. An owner keeps its slot when its call has
returned, so with two slots two tasks can both queue, one of them woken; three
sessions let an id be evicted and re-created while another one is being stopped.
Three tasks gave the same verdicts, too slowly to keep. Two entries give an expired
session and its successor, the most that one id can have in the code; two
requests are enough to put two tools on one browser, and `OneToolPerBrowser`
also held of three (893,189 states), which is too slow to keep. An LRU of one
entry makes every second URL evict; `page_diff` uses two. Three DOMs are two of
one structure (tier B) and one of another (tier C).

*Tabs*: two agents, two browsers (one that dies, hangs or is recycled and its
successor), three names and tab objects over a quota of two. *Web*: two calls of one client and of two
URLs, three web sessions of two names (the default one, which `"new:default"`
may have made, and another), batches of width 1 and 2. *WebSockets*: two
connections of one client, a burst of 2, a clock of 3 periods (`MaxTime`): the
bucket empties, refills and caps. *Pages*: three pages, so that the session's
own, a popup and a batch page are there together. *HTTP server*: six
deployments, from everything to nothing.

*Templates*: two builders, two keys, one template (`MaxTemplates`), four builds
(`MaxBuilds`): a template is evicted and learned again between another build's
lookup and its verdict. *Assembly*: every list of up to three of nine elements
on six pages under three cookie policies, with room for three or five
elements, and a rebuild on the page as it was or blocked (`Later`). *Context*: up to
three lines of six kinds for every page type and five schema pairs with
`MaxTokens` 100, so that one long line is over the budget. *Filter*: every tree of three elements of
nine kinds and of four of three kinds under `<body>`. *Chunks*: up to three of
six kinds, budgets of 0 (none), 40 and 100 tokens. *Fetch*: three fetches, two
sessions, one site, one cookie name, two impersonations, three curl sessions. A
client's memory is a function of the site, a fetch reads that of its own site only,
and a response may set cookies for any: one site is where cookies meet.
*Diff*: lists of up to two elements, one of them with a mark of how its name was found.

Fresh objects that are equal until they are used are taken with CHOOSE where the code
allocates; the result does not depend on which one it is, as no definition
tells them apart.

**Symmetry and views.** Symmetric are tasks, ids, sessions and entries of the
pool and the manager as the `MC` modules say, tab names, builders and jars;
the two agents, the two users (of one client) and their two URLs are swapped together
(`Swap`), as no behaviour has both agents and users. None of these runs checks
liveness (`pool_contract` does, and uses none).
`SessionsView` forgets what a web session holds that nothing refers to, the
argument of a call that looks nothing up any more, whether the context of a tab
that was closed is open, and how a browser ended that nothing refers to;
`BuildView` what a finished build had found. No action of these modules and no
property of the two runs reads them.

`CHECK_DEADLOCK FALSE` is set only where the system stops by design (shutdown
done, objects used up, a build answered).

**Fairness.** `PoolFairness` (in `ContractSpec`, which is `PoolSpec` without the
cancellations that `Faults = {}` rules out) assumes weak fairness of what the event loop and
the timers do by themselves: a woken task runs, an awaited start or stop comes
back, the body of `async with session()` ends, entries age and the reaper wakes
up every minute. Nothing is assumed of timeouts (`GiveUp`) or of owners that
would have to release, nor of crashes. The other specifications state safety
and carry no fairness.

## 4. Findings

* **The reaper evicts busy sessions** (`pool_idle`): its list is made before the
  first awaited `stop()`.
* **One browser, two tools** (`http_shared_browser`): a session expires while
  its first tool waits in `pool.acquire()`; nothing is released and the
  successor entry gets the same `BrowserSession`.
* **Refs of the page before** (`page_stale`): `get_page_map(url)` invalidates
  after `navigate`, so an exception that comes after the page has left keeps the
  old map active.
* **A diff against a map the agent does not have** (`page_diff`): with no active
  map the URL LRU supplies `old_page_map`, and the answer is "Refs: 1-N still
  valid" without the refs.
* **Fetches of a batch share one page** (`web_batch`): in browser mode a fetch
  that awaits between `goto` and `content` answers with what another fetch of
  the batch has navigated to.
* **A batch's page becomes the popup** (`batch_popup`): `create_batch_page` adds
  the page to `_batch_pages` after `new_page()` has returned; the listener may
  run before and take it for a popup, which the next popup closes and the next
  action switches to. The session's own page is announced in the same way at the
  start: it becomes the pending popup, and the first `switch_page` closes the page it
  switches to. This rests on Playwright announcing pages made by `new_page()`;
  `PageTools` looks at popups that are other pages.
* **A client's own cookies** (`client_cookies`): httpx's client and the curl_cffi
  session keep cookies of their own, for all web sessions, where the httpx backend
  says "we do *not* share a single `httpx.Cookies` across sessions". `JarsStayApart`
  says that this memory is the only way: the sessions' dicts never mix.

Each is the counterexample TLC prints for the run.

## 5. Smaller differences

Modelling the code meets places where it does not do what a comment, a
docstring or a name says, or what one would expect, that no run is devoted to.
The modules translate what the code does.

*Pool and sessions.* `session()` gives its slot back and leaves its context in
the pool (`browser_pool.py:167`), so there can be more contexts than
`max_contexts`. `start_from_pool()` that raises leaves the context it made open
(`browser_pool.py:248`). A timeout that cuts the installation of the SSRF guard
is not an `Exception`: the entry never learns of its context, and a removed
session's context survives; a start or a guard that fails after the page exists
leaves a session the next `get_session` takes for live (`server/__init__.py:654`).
A lookup that waits while `shutdown()` clears `_sessions` creates a fresh entry
on the same pooled session, which is why `OneToolPerBrowser` speaks of a manager
that is not shutting down. A page of ServerState's session that hangs for five
seconds fails the health check, and `get_session` then stops the browser with
every tab on it (`server/__init__.py:620`); only recycling asks for open tabs. When
`stop()` raises there, the browser runs on and nobody has it.

*Tabs, web sessions, WebSockets.* `start_from_pool()` is awaited outside of the
`try` of `open_tab` (`multi_tab.py:221`), so a start that raises after
`new_context()` leaves its context on the shared browser, where the tests ask that
the "Session must have been cleaned up" (`tests/test_multi_tab.py:604`); a `close()`
that raises inside `stop()` is suppressed, and a cancelled call stops nothing, with
the same outcome. `ContextsOwned` says what does hold: a context that started is
accounted for until `stop()` is called on it or its call is cancelled.
`session="new:default"` makes a default web session that is not `is_default`
(`sessions.py:244`); calls that leave the argument out are given it, and
`_evict_idle`, "never auto-evict the default" (279), evicts it: a batch on it then
ends with SessionNotFound. `on_disconnect` passes the `BrowserSession` where the pool
wants the id (`ws_session_manager.py:155`), so the context that the docstrings
say "is destroyed on disconnect" (6) stays until the reaper takes it
(`pool_contract` shows that it does); until then the same client, when it
connects again, finds its cookies.

*Browser session.* `switch_page` leaves the scanner's CDP session on the page it
closes (`browser_session.py:751`); a failing `connect_over_cdp` leaves the
driver running (270-273).

*HTTP server.* The limiter is wrapped outside of the security headers and of CORS
(`http_server.py:1064`), though the comment on the request flow (769) lists it
inside of the former. The circuit breaker, the deadline, the versioning, the gateway
and the webhooks answer from outside as well, so a browser client cannot read what
they say; `AnswersReadable` speaks of the answers from inside. uvicorn raises SIGTERM again when `serve()` returns, so the
finally block is skipped, and Ctrl-C cuts it at its first await. A worker whose
`shutdown()` raises is passed over (`http_server.py:1393`): it may outlive the
repository and the shutdown (`"astray"`), and is the exception of `ShutdownOrder`.
The outbox count in
readiness is awaited without a limit, `_playground_rate` is never evicted.
STDIO's `_sync_cleanup` handler does not exit, and as an atexit function it
runs after its loop is closed. `main()` never calls `_init_pipeline`, so the
pipeline's configuration is dead.

*Building.* Hints of a template are set on the map of the build they were
learned from; rejected chunks cannot be saved by the adjacency boost; the
budget filter may leave an empty list under the MCG comment "never return
empty"; the cookie policy is ignored by the match that supplies a ref; the JS-API
tier is dropped on the way; a stale barrier ref is kept when the final list is
empty; tier B loses barrier and e-commerce and accumulates warnings; a product
out of stock without options is "ready_to_add", and so is one whose open option
fell to the budget filter (`page_map_builder.py:822`) while its button did not; `rebuild_interactables_only`,
which nothing in the repository calls, keeps the e-commerce refs of the list it
replaces (stage "relisted", left out of the two properties on refs).
The AOM filter's decisions are kept by path, which shifts when siblings are
removed; tails go with removed elements; merged siblings are ordered by tag name.
The raw page is used when the budget drops every chunk. `_derive_label` takes
the first heading; inline text between block children is lost; an article
without a heading gives its metadata title only; the line on pagination comes
on top of the budget. `_check_response_size` truncates long answers.

*Fetching.* The error of a curl_cffi session's `aclose()` is suppressed and the
reference overwritten (`curl_cffi.py:144`), so such a session is leaked, where
`_get_session` says "without leaking sessions"; if the installed `AsyncSession` has
no `aclose()`, every replacement does this. `CurlSessionKept` says that
interleaving, failing and cancellation add no other leak. urllib without redirects has no cookie processor and sends no cookies at
all (`CookiesContinuous` excepts it); `HttpRetriever` ignores the fast-backend preference; urllib's worker thread iterates a dict that
the loop may grow ("dictionary changed size").

*Diffs.* They never show the barrier, warnings or diagnostics, do not pass the
secure wrapper and leave "[context pruned]", "[via:...]" and "[CDP-detected]"
marks stale: `_interactables_equal` compares none of them, and `DiffsAddUp` speaks
of the sections and of the parts of an action that are compared.

## 6. Proofs

All theorems are about the specification the runs check, for every value of its
constants under the assumption its module states. The assumptions type the
constants and say what the code's configuration guarantees:

| module | assumes |
|---|---|
| `BrowserPool`, `HttpSessions` | finitely many callers, ids and sessions, at least one context |
| `PageMapCache`, `PageTools` | pages are pairs of URL and DOM, at least one entry; the page the browser starts with is a page |
| `TabTools` | finitely many names, `MaxTabs` at least 1 |
| `WebSessions`, `WsSessions` | finitely many calls, URLs and connections; limits are numbers |
| `BrowserSession`, `HttpServer` | the four start modes, the three stores |
| `TemplateBuilds`, `FastFetch`, `PromptDiff` | at least one template and one kind of page; `Installs` are sets of the two optional packages |
| `MapAssembly`, `PrunedContext`, `ChunkPruning` | elements, documents and pages are of their types (lists of any length), `MaxTokens` at least 1 |
| `AomFilter` | a document is a tree under `<html>` and `<body>`, listed in document order |

Every safety invariant and refinement of the passing runs is stated by a theorem. The argument is the same throughout: the
property speaks of answers, or of the time between calls, and is not inductive;
an invariant that says what each await or stage relies on is, and implies it.

**`BrowserPoolProofs`**: `PoolTypeCorrect`, `PoolNeverInflates`,
`PoolMirrorsSemaphore` from `SlotInv`, that is types, `Shape` (what a task refers
to at each await), `MirrorsSemaphore` and `NoInflation`. The last two need each
other: freeing a slot is safe because the freed holder leaves `SlotHolders` in
the same step, and a woken task may count itself because the counter and the
semaphore differ by exactly the woken tasks. `PoolLosesNoContext` and
`PoolConservesSlots` from `OwnInv` on top of it: `Owners`
(a session is stored, started, stopped and held under one id), `OneOwner` (what
the contract of one owner per id means at each await), `NoOrphanContext` and
`NoSlotLost`, the last two under an empty `Faults`. `PoolServesTheQueue`
(`NobodyWaitsForAFreeSlot`) from `QueueInv`: the semaphore's queue holds each
task that is waiting or woken once (`Queued`), without which the task that leaves
could leave a second place behind, and a value above zero finds a woken task
wherever one is waiting (`HandedOn`). Whoever leaves the queue takes one place out
of it (`WithoutIs`), and where somebody waits somebody is the first (`SomebodyFirst`),
so `Wake` never passes a waiting task by.

**`HttpSessionsProofs`**: `ManagerImplementsPool` is a refinement, `HttpSpec =>
PoolSpec`: every step of the manager is a step of the pool or leaves it alone,
so the pool's theorems hold of the whole (`ManagerNeverInflates`,
`ManagerServesTheQueue`). `TenantCountsAreExact` and `TenantLimitHolds` rest on
`HttpInv`: the counters equal the registered sessions *and* every registered
entry carries the id it is registered under, without which an expiry could
decrement the wrong tenant; a request that awaits a cleanup holds
`_sessions_lock`, so nobody registers its id meanwhile. `ToolsKeepApart`
(`OneToolPerBrowser`) needs a second invariant, `UseInv`: while no session has
outlived its TTL and `shutdown()` has not begun (`Young`), a request works on the
entry registered under its id and, past the queue, under that entry's
`tool_lock` (`Registers`), and a browser that an entry or a request refers to
is, or was, stored in the pool under that one's id, the same for all who refer
to it (`OneId`). Two requests that drive one browser then have one id, hence
one entry, hence one lock. A removal ends a registration too, but only of an id
the playground made up (`OneShot`), which no other request has. `Hands` says
what `acquire()` may return; `AgedAreBorn` makes `Young` a premise that is
never regained.

**`PageToolsProofs`** opens with lemmas on the operators of `PageMapCache`, for
any set G of entries: a cache whose entries are in G, with a bounded LRU and
distinct keys, stays one under every operation, and which entry is active
afterwards. `PageTypeCorrect`, `RefsAlwaysShown`, `ExpiredRefsAreRefused`,
`AnswersDescribePage` and `LruIsSound` rest on `PageInv`, which adds to types and
to a cache of *good* entries (an entry with a fingerprint describes the DOM of
that fingerprint) what holds inside a tool: `ShownPart` (the active map was
shown, or is the one about to be shown), `ExpiredPart`, and `QuietPart` (what
`get_page_map` knows of the page at each await). The theorems hold for every
`Env`; `AnswersDescribePage` promises something only when the page rests during
a tool. `ToolsKeepContract` is the refinement of `RefContract`: from `PageInv`,
every step is a call that begins, a refusal, an answer, or a stutter of the
contract.

**`TabToolsProofs`**: `TabTypeCorrect`, `TabTableStaysSound`, `TabContextsOwned`,
`SomeTabIsActive`, `TabsNeverLoseBrowser`. The promises speak of the table of
tabs between calls, but `open_tab` checks the quota and the name before two
awaits and inserts after them, and `close_tab` takes a tab out of the dict
before it closes its context. `TabInv` says what each stage of a call relies on
(`StagePart`) and that stages past the queue belong to the holder of `tool_lock`
(`LockPart`), so that only one call has a tab in hand that is in no dict
(`OwnedPart`); `ActivePart` allows the active name to be the one being closed.
`TabToolsKeepTable` is the refinement of `TabContract`. The table is mapped to
the dict, the tab in front to the active name if that name is open, the calls
under way to what they still ask for: `switch_tab` has what it wants before it
reads the URL, `close_tab` before it stops the session, `open_tab` only when the
tab enters the dict, which is why a tab in hand counts as not used yet
(`Taken`). From `TabInv` and `ClosesOne` (`close_tab` never has expired tabs to
close after its own) each step is one of the contract or a stutter: the name and
the quota that were checked before two awaits still hold at the insertion,
because the holder of `tool_lock` is the only call with a tab in hand
(`OthersWait`).

**`ClientSessionsProofs`**: *WebSockets*. `RateIsBounded` from `BucketInv` (tokens
plus requests passed are at most the burst plus what the periods up to the last
refill gave); `SlotsAreBounded` from `SlotsInv`; `WsTypeCorrect`. *Web sessions*.
`WebTypeCorrect`, `SequentialFetchesAreTheirs`, `DefaultIsAlwaysFound` from
`WebInv`: a call at work holds the lock of its client, of a call that takes its
URLs one by one at most one job is past the semaphore (`OneByOne`), and while it
is, nobody else moves the page it reads (`PageIsMine`); a batch on a default
session that is `is_default` finds it under its name, because eviction passes it over and
only another such session takes its place (`DefaultPart`). *HTTP
server*. `ShutdownInOrder` from `LifeInv`, which says of each position in the
finally block what has been stopped by then (`Left(k)`, `EndingAt(k)`), for every
deployment and both values of `Reraised`, of workers that are not `"astray"`;
`AnswersAreReadable` from `ChainInv`, how far the layers have been wrapped, and from
the places of those that answer by themselves (`LayerPlaces`, `OutermostAnswer`).

**`BrowserSessionProofs`**: `SessionTypeCorrect`, `StopReleasesAll`,
`NoPageIsStray`: the invariants say which stages have a page, a context and a
browser (`Pageless`, `OwnsInv`) and that pages the listener has yet to hear of
are born and known (`Known`, `KeptInv`). `DrivenPageIsKept` from `DriveInv`: a
page is announced once (`HeardInv`); the session's page, the pending popup, the
popup an action holds and the pages of a batch are different pages
(`ApartInv`, `LoadsInv`), unless the listener took a page of the session's own
making for a popup, which is the finding of `batch_popup` and the exception the
property makes.

**`PageBuildProofs`**: *Diffs*. `DiffsAlwaysAddUp` from `DiffInv`: what the agent
has put together is what the full prompt of the map in the cache says.
*Templates*. `TemplatesAreAccounted` from `TemplateInv`: a cache is `Sound` (one entry per key, a
template still below its failure limit, counters that balance) and every
operation of a build leaves it so, wherever the other builds are. *Fetching*.
`FastTypeCorrect`; `CurlSessionIsKept` from `CurlInv` (who closes the session in
place holds the lock and has asked for another target); `CookiesAreContinuous`
and `JarsAreApart` from `CookieInv`, which says of the jars, of the
copies that calls carry and of what the clients remember what the properties say
of the wire: a bag has only cookies of its own session (`Own`) and, for every
merge it may know of, that cookie or one merged later (`Covers`).

**`PageMapProofs`**: lists, trees and texts of any length. *Assembly*.
`AssemblyTypeCorrect`, `RefsAlwaysFit`, `BarrierButtonIsThere` from `AssemblyInv`: at each stage the map holds rising places of the detected
list; refs found before the budget filter fit only after the rematch. *Chunks*.
`BudgetAlwaysDropsLeast` from `PruneInv`: the loop drops the first m chunks of an
order and stops as soon as it may. *Filter*. `OnlyNoiseIsGone` and
`RescuedStayInOrder` from `AomInv`: whatever hangs off the tree was cut off, and
why; the place kept for a removed element is the number of its siblings before
it; a recorded path is the path of a chain of parents in the tree it was read
from, and only while no sibling has gone does it name one chain. *Context*.
`ContextFitsBudget` from `ContextInv`: every compressor, fallback and minimum
yields a list of lines, whatever the page, and a cut line takes what is left of
the budget. `ContextKeepsMinimum` from `MinimumInv`: what a compressor read is of
the page. The guarantee stops adding lines at half of the budget in *estimated*
characters, so that the promise cannot hold of every page: one line of thousands of
characters in a token or two fills that half. `Dense` is what a line must be, and is all the
property asks of a page: half of the budget, at the least 1.5 characters per token, holds ten
tokens of it (112 characters per token where `max_tokens` is 1500, its default);
`MaxTokens` at least 80 keeps OG data alone from filling that half. Line by line,
either every line worth it has been added or the text has reached the half
(`ToppedEnough`), and then it has ten tokens, because what holds of each line
holds of the sums (`DenseSum`). Every document of the run is of that kind.

Folds over lists would need induction, which is out of the prover's reach (its
theorems take an operator as parameter). Three facts replace it: a non-empty set
of numbers has a least member (`LeastExists`), so that what fails after some step
of a loop fails after a first one; a fold is a function of the beginnings of its
list that takes one step from each to the next (`FoldExists`, `FoldSteps`); and
the members of a set listed by their rank are the set, in order, each once
(`InOrderLists`, `SortedLists`).

**Only model-checked**: `WaiterServed`, which is liveness under fairness, out of
the prover's reach; and the seven violations, which are counterexamples.

## 7. Not modelled

* Extractors, i18n, metadata patterns, page classifier, sanitizer, HTML
  compression, the interactive element detector and most diagnostics: regular
  expressions and parsing, without state; a property of them would be about
  strings. Where their results steer other code they are inputs.
* The pipeline core and its plugins: the server's tools never run them.
* URL validation, robots, tool authorisation: predicates, which appear as sets
  of refused URLs.
* MCP models and the command line: data classes and a front end.
* Dialogs, screenshots, scrolling and the scanner's reports of a browser
  session; playground, metrics, SLA reports and OpenAPI routes of the HTTP
  server: they answer from counters.
* The packages that are not in the repository.
* `FetchContext.cookies`, which would replace the session's cookies for one call
  of `HttpRetriever` (`httpfetch.py:106`): nothing in `src/` fills it.
* The requests of a redirect that a client follows; the cookies it gets on the way are.

## 8. What is left

Dialogs and the reconnection of a CDP browser in `BrowserSession`; the STDIO life
cycle next to `HttpServer`; the readiness probe's limits under a slow
repository; a refinement of an abstract specification for the pool's slots, as
`RefContract` is one for refs and `TabContract` one for tabs.
