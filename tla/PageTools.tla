----------------------------- MODULE PageTools -----------------------------
(***************************************************************************)
(* server/__init__.py in STDIO mode: the browser tools on the one page of    *)
(* ServerState and its PageMapCache.                                        *)
(*                                                                         *)
(* Tools run one at a time under tool_lock, so tool is the single call in    *)
(* progress and tool.at the await it is suspended in; a step runs from one   *)
(* await to the next.  Around the tools act the web page itself, the browser *)
(* process and the 150 s limit of _TOOL_LOCK_TIMEOUT, which cancels a tool   *)
(* at any await.  What the caller (the agent) was last told about its refs   *)
(* is kept in agent.  Tabs, HTTP mode and the answers' text are left out.    *)
(***************************************************************************)
EXTENDS PageMapCache

CONSTANTS
  BlankPage,     \* about:blank
  Blocked,       \* URLs the SSRF validation refuses
  Struct,        \* the part of a fingerprint that fingerprints_structurally_equal compares
  PopupPages,    \* what a popup may show
  AutoDismiss,   \* _AUTO_DISMISS_ENABLED
  Used,          \* the tools the agent calls
  Env            \* subset of {"between", "during", "death", "cancel"}, see the environment

Timed == {"execute_action", "fill_form", "wait_for"}   \* the whole body under asyncio.wait_for
ToolNames == Timed \cup {"get_page_map", "navigate_back", "scroll_page", "take_screenshot",
                         "get_page_state", "batch_get_page_map", "web_fetch"}

ASSUME ToolsAssumption ==
  /\ BlankPage \in Pages /\ PopupPages \subseteq Pages
  /\ Blocked \subseteq Urls /\ DOMAIN Struct = Doms
  /\ AutoDismiss \in BOOLEAN /\ Used \subseteq ToolNames
  /\ Env \subseteq {"between", "during", "death", "cancel"}
  /\ None \notin Pages \cup Entry \cup Map

VARIABLES
  page,     \* what BrowserSession._page shows
  popup,    \* _pending_new_page: what it shows, or None
  up,       \* BrowserSession.is_alive() of ServerState.session; FALSE while there is none
  web,      \* WebSession.browser of the default web session: none, the live session or a stopped one
  cache,    \* ServerState.cache
  agent,    \* the last map of the page shown (a batch shows other pages) and what was said of its refs since
  tool      \* the tool call in progress

vars == <<page, popup, up, web, cache, agent, tool>>

GettingSession == {"session", "diagnose", "remap_session"}
Stage == GettingSession \cup
  {"idle", "navigate", "fingerprint", "tier", "build", "validate", "dismiss", "rebuild", "refingerprint",
   "answer", "before", "act", "settled", "popup", "url", "after", "remap", "back", "scroll", "wait",
   "look", "batch", "fetch"}

Tool == [name : ToolNames \cup {"none"}, at : Stage,
         url : BOOLEAN,                 \* get_page_map was given a URL
         map : Map \cup {None},         \* the map a tool works with
         fp : Doms \cup {None},         \* the fingerprint it has taken
         base : Map \cup {None},        \* old_page_map of a tier A or B answer
         popup : Pages \cup {None},     \* the popup it consumed
         clicked : BOOLEAN]             \* an auto-dismiss click was made and reported as failed

NoTool == [name |-> "none", at |-> "idle", url |-> FALSE, map |-> None, fp |-> None,
           base |-> None, popup |-> None, clicked |-> FALSE]

PageTypeOK ==
  /\ page \in Pages
  /\ popup \in PopupPages \cup {None}
  /\ up \in BOOLEAN
  /\ web \in {"none", "live", "stale"}
  /\ cache \in Cache
  /\ agent \in [map : Map \cup {None}, told : {"nothing", "shown", "expired", "retry"}]
  /\ tool \in Tool

Init ==
  /\ page = BlankPage /\ popup = None /\ up = FALSE /\ web = "none"
  /\ cache = NewCache
  /\ agent = [map |-> None, told |-> "nothing"]
  /\ tool = NoTool

At(stage) == tool.at = stage
Goto(stage) == tool' = [tool EXCEPT !.at = stage]
ToolIs(names) == tool.name \in names

\* The ways a tool call ends: silent on the refs, or saying that get_page_map is needed.
Silent == tool' = NoTool /\ UNCHANGED agent
Says(told) == tool' = NoTool /\ agent' = [agent EXCEPT !.told = told]
Expire(reason) == cache' = Invalidated(cache, reason) /\ Says("expired")

\* A fingerprint of page p, or None on any failure.
Fingerprints(p) == IF up THEN {p.dom, None} ELSE {None}

\* build_page_map_live, and rebuild_content_only, which keeps the refs of a cached map.
Built(p) == [url |-> p.url, refs |-> p.dom, dom |-> p.dom]
Refreshed(m, p) == [url |-> p.url, refs |-> m.refs, dom |-> p.dom]

-----------------------------------------------------------------------------
(***************************************************************************)
(* A call begins.  Calls refused for their arguments change nothing and are  *)
(* not steps.  execute_action and fill_form read the active map here, before *)
(* the first await.                                                         *)
(***************************************************************************)
Start(name) ==
  /\ tool = NoTool
  /\ \E url \in BOOLEAN :
       /\ url => name = "get_page_map"
       /\ tool' = [NoTool EXCEPT !.name = name, !.at = "session", !.url = url]
  /\ UNCHANGED <<page, popup, up, web, cache, agent>>

StartWithRef(name) ==
  /\ tool = NoTool
  /\ cache.active # None
  /\ tool' = [NoTool EXCEPT !.name = name, !.at = "session", !.map = ActiveMap(cache)]
  /\ UNCHANGED <<page, popup, up, web, cache, agent>>

\* "No active Page Map.  Call get_page_map".
RefuseRef ==
  /\ tool = NoTool
  /\ cache.active = None
  /\ agent' = [agent EXCEPT !.told = "expired"]
  /\ UNCHANGED <<page, popup, up, web, cache, tool>>

\* web_fetch takes the browser attached to its web session, or attaches the current one.
StartFetch ==
  /\ tool = NoTool
  /\ tool' = [NoTool EXCEPT !.name = "web_fetch", !.at = IF web = "none" THEN "session" ELSE "fetch"]
  /\ UNCHANGED <<page, popup, up, web, cache, agent>>

-----------------------------------------------------------------------------
(***************************************************************************)
(* ServerState.get_session.                                                 *)
(***************************************************************************)
FirstStage ==
  CASE ToolIs({"get_page_map"}) -> IF tool.url THEN "navigate" ELSE "fingerprint"
    [] ToolIs({"execute_action", "fill_form"}) -> "before"
    [] ToolIs({"navigate_back"}) -> "back"
    [] ToolIs({"scroll_page"}) -> "scroll"
    [] ToolIs({"wait_for"}) -> "wait"
    [] ToolIs({"take_screenshot", "get_page_state"}) -> "look"
    [] ToolIs({"batch_get_page_map"}) -> "batch"
    [] OTHER -> "fetch"

\* What follows get_session() when the page at hand shows url.  A failed action is
\* diagnosed: a changed URL or a second failure on this cache rules a remap out.
WithSession(url) ==
  \/ At("session") /\ Goto(FirstStage) /\ UNCHANGED agent
  \/ At("diagnose") /\ url = tool.map.url /\ cache.remaps = 0 /\ Goto("remap_session") /\ UNCHANGED agent
  \/ At("diagnose") /\ Silent
  \/ At("remap_session") /\ Goto("remap") /\ UNCHANGED agent

\* The web session of a web_fetch gets the browser session.
Attached(w) == IF tool.name = "web_fetch" THEN "live" ELSE w

\* The session is stopped and forgotten with everything that was on its page.
SessionDropped ==
  /\ page' = BlankPage /\ popup' = None
  /\ cache' = Cleared(cache)

Detached == IF web = "live" THEN "stale" ELSE web

SessionReady ==
  /\ tool.at \in GettingSession /\ up
  /\ WithSession(page.url)
  /\ web' = Attached(web)
  /\ UNCHANGED <<page, popup, up, cache>>

\* No session yet, a dead one, or one due for recycling: a new browser is started.
SessionRenewed ==
  /\ tool.at \in GettingSession
  /\ SessionDropped /\ up' = TRUE
  /\ web' = Attached(Detached)
  /\ WithSession(BlankPage.url)

\* The new browser does not start, or it starts and its route guard is not installed.  The
\* diagnosis then assumes an unchanged URL; the first get_session() of execute_action fails
\* into that diagnosis.
SessionFails ==
  /\ tool.at \in GettingSession
  /\ SessionDropped /\ up' \in BOOLEAN
  /\ web' = Detached
  /\ \/ At("diagnose") /\ cache.remaps = 0 /\ Goto("remap_session") /\ UNCHANGED agent
     \/ At("session") /\ ToolIs({"execute_action"}) /\ Goto("diagnose") /\ UNCHANGED agent
     \/ At("session") /\ ToolIs(Timed \cup {"navigate_back", "scroll_page", "take_screenshot"}) /\ Says("expired")
     \/ ~(At("session") /\ ToolIs({"execute_action"})) /\ Silent

-----------------------------------------------------------------------------
(***************************************************************************)
(* get_page_map: navigate, fingerprint, choose a tier, build, store, answer. *)
(***************************************************************************)
\* session.navigate(url): redirects may lead anywhere.
Navigate ==
  /\ At("navigate") /\ up
  /\ \E p \in Pages : page' = p
  /\ cache' = Invalidated(cache, "navigation")
  /\ Goto("fingerprint")
  /\ UNCHANGED <<popup, up, web, agent>>

\* page.goto raises, before or after the page has left: the cache is not touched.
NavigateFails ==
  /\ At("navigate")
  /\ \E p \in IF up THEN Pages ELSE {page} : page' = p
  /\ Silent
  /\ UNCHANGED <<popup, up, web, cache>>

TakeFingerprint ==
  /\ At("fingerprint")
  /\ \E fp \in Fingerprints(page) : tool' = [tool EXCEPT !.fp = fp, !.at = "tier"]
  /\ UNCHANGED <<page, popup, up, web, cache, agent>>

\* The entry the tiers compare with: the active one, or the LRU's for the current URL.
FromLru == cache.active = None /\ ~tool.url
Candidate(expired) == IF FromLru THEN Found(cache.lru, page.url, expired) ELSE cache.active

\* Mutant of ChooseTier: tier A asks for the same structure only.
ChooseTier_StructOnly ==
  /\ At("tier")
  /\ \E expired \in BOOLEAN, severity \in 0..2 :
       LET e == Candidate(expired)
           same == e # None /\ tool.fp # None /\ e.fp # None /\ Struct[tool.fp] = Struct[e.fp]
       IN  /\ cache' = IF FromLru THEN [cache EXCEPT !.lru = LookedUp(@, page.url, expired)] ELSE cache
           /\ tool' = CASE same /\ severity = 0 ->
                             [tool EXCEPT !.at = "validate", !.map = e.map, !.base = e.map]
                        [] same /\ severity = 1 -> [tool EXCEPT !.at = "build", !.base = e.map]
                        [] OTHER -> [tool EXCEPT !.at = "build", !.base = None]
  /\ UNCHANGED <<page, popup, up, web, agent>>

\* Tier A: same fingerprint and no tampering, the cached map is the answer.  Tier B: same
\* structure, refs are kept and content is rebuilt.  Tier C: a full build.  severity is what
\* the page's mutation observer reports.
ChooseTier ==
  /\ At("tier")
  /\ \E expired \in BOOLEAN, severity \in 0..2 :
       LET e == Candidate(expired)
           known == e # None /\ tool.fp # None /\ e.fp # None
           hit == known /\ tool.fp = e.fp /\ severity = 0
           refresh == known /\ Struct[tool.fp] = Struct[e.fp] /\ severity < 2
       IN  /\ cache' = IF FromLru THEN [cache EXCEPT !.lru = LookedUp(@, page.url, expired)] ELSE cache
           /\ tool' = CASE hit -> [tool EXCEPT !.at = "validate", !.map = e.map, !.base = e.map]
                        [] refresh /\ ~hit -> [tool EXCEPT !.at = "build", !.base = e.map]
                        [] OTHER -> [tool EXCEPT !.at = "build", !.base = None]
  /\ UNCHANGED <<page, popup, up, web, agent>>

\* Tier B when base is set, tier C otherwise.
Build ==
  /\ At("build") /\ up
  /\ tool' = [tool EXCEPT !.at = "validate",
                          !.map = IF tool.base = None THEN Built(page) ELSE Refreshed(tool.base, page)]
  /\ UNCHANGED <<page, popup, up, web, cache, agent>>

BuildFails ==
  /\ At("build")
  /\ Silent
  /\ UNCHANGED <<page, popup, up, web, cache>>

BuildTimesOut ==
  /\ At("build")
  /\ Expire("timeout")
  /\ UNCHANGED <<page, popup, up, web>>

\* The page is on a blocked URL: an error, nothing is stored.
Refuse ==
  /\ At("validate") /\ page.url \in Blocked
  /\ Silent
  /\ UNCHANGED <<page, popup, up, web, cache>>

\* The map is stored, and dropped again from the active slot on a bot-block page.
Store ==
  /\ At("validate") /\ page.url \notin Blocked
  /\ LET c == Stored(cache, EntryOf(tool.map, tool.fp))
     IN  cache' \in {c, Invalidated(c, "bot_blocked")}
  /\ \/ Goto("answer")
     \/ AutoDismiss /\ Goto("dismiss")
  /\ UNCHANGED <<page, popup, up, web, agent>>

\* try_auto_dismiss clicked the barrier away.
Dismiss ==
  /\ At("dismiss") /\ up
  /\ \E p \in Pages : page' = p
  /\ cache' = Invalidated(cache, "barrier_dismissed")
  /\ Goto("rebuild")
  /\ UNCHANGED <<popup, up, web, agent>>

\* It failed, before the click or after it (the click led to another URL: "abort").
DismissFails ==
  /\ At("dismiss")
  /\ \/ UNCHANGED page /\ Goto("answer")
     \/ /\ up /\ \E p \in Pages : page' = p
        /\ tool' = [tool EXCEPT !.at = "answer", !.clicked = TRUE]
  /\ UNCHANGED <<popup, up, web, cache, agent>>

\* The page is built again; an error or a timeout is swallowed and the old map is shown.
Rebuild ==
  /\ At("rebuild") /\ up
  /\ tool' = [tool EXCEPT !.at = "refingerprint", !.map = Built(page)]
  /\ UNCHANGED <<page, popup, up, web, cache, agent>>

RebuildFails ==
  /\ At("rebuild")
  /\ Goto("answer")
  /\ UNCHANGED <<page, popup, up, web, cache, agent>>

StoreAgain ==
  /\ At("refingerprint")
  /\ \E fp \in Fingerprints(page) :
       /\ cache' = Stored(cache, EntryOf(tool.map, fp))
       /\ tool' = [tool EXCEPT !.at = "answer", !.fp = fp]
  /\ UNCHANGED <<page, popup, up, web, agent>>

\* The answer: the map in full, or for tiers A and B a diff against base.  No await
\* separates it from the store, so nothing interferes at this stage.
Answer ==
  /\ At("answer")
  /\ agent' = [map |-> tool.map, told |-> "shown"]
  /\ tool' = NoTool
  /\ UNCHANGED <<page, popup, up, web, cache>>

AnswerInFull == Answer
AnswerWithDiff == tool.base # None /\ Answer

-----------------------------------------------------------------------------
(***************************************************************************)
(* execute_action, and fill_form, which does the same for one field after    *)
(* another and neither diagnoses nor remaps.                                *)
(***************************************************************************)
FingerprintBefore ==
  /\ At("before")
  /\ \E fp \in Fingerprints(page) : tool' = [tool EXCEPT !.fp = fp, !.at = "act"]
  /\ UNCHANGED <<page, popup, up, web, cache, agent>>

\* What acting on an element may do to the page and to the pending popup.
PageReacts ==
  /\ \E p \in Pages : page' = p
  /\ \E q \in PopupPages \cup {popup} : popup' = q

\* The action with its retries and the wait that follows it.
Act ==
  /\ At("act") /\ up
  /\ PageReacts
  /\ Goto("settled")
  /\ UNCHANGED <<up, web, cache, agent>>

\* The element is not found, or Playwright raises after an attempt or more.
ActFails ==
  /\ At("act")
  /\ IF up THEN PageReacts ELSE UNCHANGED <<page, popup>>
  /\ \/ Silent
     \/ ToolIs({"execute_action"}) /\ Goto("diagnose") /\ UNCHANGED agent
  /\ UNCHANGED <<up, web, cache>>

\* consume_new_page(); a popup that has been closed meanwhile counts as none.
CheckPopup ==
  /\ At("settled")
  /\ popup' = None
  /\ \/ Goto("url")
     \/ popup # None /\ tool' = [tool EXCEPT !.at = "popup", !.popup = popup]
  /\ UNCHANGED <<page, up, web, cache, agent>>

PopupBlocked ==
  /\ At("popup") /\ tool.popup.url \in Blocked
  /\ Silent
  /\ UNCHANGED <<page, popup, up, web, cache>>

\* Mutant of SwitchToPopup: the old page's map stays active.
SwitchToPopup_KeepsCache ==
  /\ At("popup") /\ tool.popup.url \notin Blocked
  /\ page' = tool.popup
  /\ Says("expired")
  /\ UNCHANGED <<popup, up, web, cache>>

SwitchToPopup ==
  /\ At("popup") /\ tool.popup.url \notin Blocked
  /\ page' = tool.popup
  /\ Expire("new_tab")
  /\ UNCHANGED <<popup, up, web>>

\* A page on a blocked URL is sent to about:blank, unless that fails as well.
LeaveBlocked(p) == page' \in {p, BlankPage} /\ Expire("ssrf_blocked")

\* The URL differs from the map's.
Navigated ==
  /\ At("url") /\ page.url # tool.map.url
  /\ IF page.url \in Blocked THEN LeaveBlocked(page) ELSE UNCHANGED page /\ Expire("navigation")
  /\ UNCHANGED <<popup, up, web>>

\* The URL is the map's: fill_form takes its next field or, like execute_action, ends by
\* looking for changes of the DOM, if it has a fingerprint to compare with.
SameUrl ==
  /\ At("url") /\ page.url = tool.map.url
  /\ \/ ToolIs({"fill_form"}) /\ Goto("act") /\ UNCHANGED agent
     \/ tool.fp # None /\ Goto("after") /\ UNCHANGED agent
     \/ tool.fp = None /\ Silent
  /\ UNCHANGED <<page, popup, up, web, cache>>

\* detect_dom_changes: a change of structure is major, or minor if it is small.
DomChanged ==
  /\ At("after") /\ up /\ Struct[page.dom] # Struct[tool.fp]
  /\ Expire("dom_major")
  /\ UNCHANGED <<page, popup, up, web>>

DomUnchanged ==
  /\ At("after")
  /\ Silent
  /\ UNCHANGED <<page, popup, up, web, cache>>

\* Mutant of Remap: the rebuilt map is stored but not shown.
Remap_NotShown ==
  /\ At("remap") /\ up
  /\ LET m == Built(page) IN
       /\ cache' = [Stored(cache, EntryOf(m, None)) EXCEPT !.remaps = cache.remaps + 1]
       /\ Silent
  /\ UNCHANGED <<page, popup, up, web>>

\* maybe_auto_remap rebuilds the map and puts it into the error answer, whose refs_expired is
\* said of the refs the failed action had.
Remap ==
  /\ At("remap") /\ up
  /\ LET m == Built(page) IN
       /\ cache' = [Stored(cache, EntryOf(m, None)) EXCEPT !.remaps = cache.remaps + 1]
       /\ agent' = [map |-> m, told |-> "shown"]
  /\ tool' = NoTool
  /\ UNCHANGED <<page, popup, up, web>>

RemapFails ==
  /\ At("remap")
  /\ Silent
  /\ UNCHANGED <<page, popup, up, web, cache>>

-----------------------------------------------------------------------------
(***************************************************************************)
(* The other tools.                                                         *)
(***************************************************************************)
WentBack ==
  /\ At("back") /\ up
  /\ \E p \in Pages :
       IF p.url \in Blocked THEN LeaveBlocked(p) ELSE page' = p /\ Expire("navigation")
  /\ UNCHANGED <<popup, up, web>>

\* No history, or an error that may come after the page has left.
BackFails ==
  /\ At("back")
  /\ \E p \in IF up THEN Pages ELSE {page} : page' = p
  /\ Silent
  /\ UNCHANGED <<popup, up, web, cache>>

BackTimesOut ==
  /\ At("back")
  /\ \E p \in IF up THEN Pages ELSE {page} : page' = p
  /\ Expire("timeout")
  /\ UNCHANGED <<popup, up, web>>

\* Scrolling may load content; the LRU keeps the entry for the next get_page_map.
Scroll ==
  /\ At("scroll")
  /\ \E p \in IF up THEN {q \in Pages : q.url = page.url} ELSE {page} : page' = p
  /\ \/ up /\ Expire("scroll")
     \/ UNCHANGED cache /\ Silent
     \/ Expire("timeout")
  /\ UNCHANGED <<popup, up, web>>

\* The text was there already, or never came: nothing changes.  It came (or went): the
\* page has changed.
WaitFor ==
  /\ At("wait")
  /\ \/ up /\ (\E p \in Pages : page' = p) /\ Expire("wait_for")
     \/ UNCHANGED <<page, cache>> /\ Silent
  /\ UNCHANGED <<popup, up, web>>

\* take_screenshot and get_page_state.
Look ==
  /\ At("look")
  /\ Silent
  /\ UNCHANGED <<page, popup, up, web, cache>>

\* One URL of a batch is built on a page of its own and kept for later lookups.
BatchStore ==
  /\ At("batch") /\ up
  /\ \E p \in Pages : \E fp \in Fingerprints(p) :
       p.url \notin Blocked /\ cache' = StoredInLru(cache, EntryOf(Built(p), fp))
  /\ UNCHANGED <<page, popup, up, web, agent, tool>>

\* All URLs done, or the 120 s are over and the answers are lost.
BatchEnds ==
  /\ At("batch")
  /\ Silent
  /\ UNCHANGED <<page, popup, up, web, cache>>

\* web_fetch in browser mode drives the page of the attached browser session, which is
\* the page of the other tools while that session is the live one.
Fetch ==
  /\ At("fetch")
  /\ \E p \in IF web = "live" /\ up THEN Pages ELSE {page} : page' = p
  /\ Silent
  /\ UNCHANGED <<popup, up, web, cache>>

\* An error that _is_browser_dead_error recognises.
BrowserDead ==
  /\ ~up
  /\ \/ tool.at \in {"act", "back", "scroll", "wait"}
     \/ At("look") /\ ToolIs({"take_screenshot"})
  /\ Expire("browser_dead")
  /\ UNCHANGED <<page, popup, up, web>>

\* A tool cut at its await leaves what it was doing half done: the page may have reacted, and
\* get_session() may have stopped the old browser, or also dropped it and its cache.
CutPage ==
  IF up /\ tool.at \in {"navigate", "act", "back", "scroll", "dismiss", "fetch"}
  THEN PageReacts ELSE UNCHANGED <<page, popup>>

CutSession == tool.at \in GettingSession /\ SessionDropped /\ up' \in BOOLEAN /\ web' = Detached
CutElsewhere ==
  /\ CutPage
  /\ up' \in IF tool.at \in GettingSession THEN {up, FALSE} ELSE {up}
  /\ UNCHANGED web

\* Mutant of TimesOut: the map stays active.
TimesOut_KeepsCache ==
  /\ ToolIs(Timed) /\ tool.at \notin {"diagnose", "remap_session", "remap"}
  /\ \/ CutSession /\ Says("expired")
     \/ CutElsewhere /\ Says("expired") /\ UNCHANGED cache

\* The wait_for around execute_action, fill_form or wait_for expires.
TimesOut ==
  /\ ToolIs(Timed) /\ tool.at \notin {"diagnose", "remap_session", "remap"}
  /\ \/ CutSession /\ Says("expired")
     \/ CutElsewhere /\ Expire("timeout")

-----------------------------------------------------------------------------
(***************************************************************************)
(* The environment: the page changes by itself "between" tools and "during"  *)
(* them, and so do popups open; the browser may meet its "death"; "cancel"   *)
(* lets _TOOL_LOCK_TIMEOUT end a tool, with the answer "Server busy".        *)
(***************************************************************************)
Awaiting == tool.at \notin {"idle", "answer"}
Restless == (tool = NoTool /\ "between" \in Env) \/ (Awaiting /\ "during" \in Env)

PageChanges ==
  /\ Restless /\ up
  /\ \E p \in Pages : page' = p
  /\ UNCHANGED <<popup, up, web, cache, agent, tool>>

\* _on_new_page: the previous popup, never consumed, is closed.
PopupOpens ==
  /\ Restless /\ up
  /\ \E q \in PopupPages : popup' = q
  /\ UNCHANGED <<page, up, web, cache, agent, tool>>

BrowserDies ==
  /\ "death" \in Env /\ up /\ tool.at # "answer"
  /\ up' = FALSE
  /\ UNCHANGED <<page, popup, web, cache, agent, tool>>

Cancel ==
  /\ "cancel" \in Env /\ Awaiting
  /\ Says("retry")
  /\ CutSession \/ (CutElsewhere /\ UNCHANGED cache)

-----------------------------------------------------------------------------
Begins ==
  \/ \E name \in Used \ {"execute_action", "fill_form", "web_fetch"} : Start(name)
  \/ \E name \in Used \cap {"execute_action", "fill_form"} : StartWithRef(name) \/ RefuseRef
  \/ "web_fetch" \in Used /\ StartFetch
GetSession == SessionReady \/ SessionRenewed \/ SessionFails
GetPageMap ==
  \/ Navigate \/ NavigateFails \/ TakeFingerprint \/ ChooseTier
  \/ Build \/ BuildFails \/ BuildTimesOut \/ Refuse \/ Store
  \/ Dismiss \/ DismissFails \/ Rebuild \/ RebuildFails \/ StoreAgain
  \/ AnswerInFull \/ AnswerWithDiff
ActOnRef ==
  \/ FingerprintBefore \/ Act \/ ActFails \/ CheckPopup \/ PopupBlocked \/ SwitchToPopup
  \/ Navigated \/ SameUrl \/ DomChanged \/ DomUnchanged \/ Remap \/ RemapFails
OtherTools ==
  \/ WentBack \/ BackFails \/ BackTimesOut \/ Scroll \/ WaitFor \/ Look
  \/ BatchStore \/ BatchEnds \/ Fetch
Cut == BrowserDead \/ TimesOut
Environment == PageChanges \/ PopupOpens \/ BrowserDies \/ Cancel

Next == Begins \/ GetSession \/ GetPageMap \/ ActOnRef \/ OtherTools \/ Cut \/ Environment

Spec == Init /\ [][Next]_vars

-----------------------------------------------------------------------------
(***************************************************************************)
(* Properties.                                                              *)
(***************************************************************************)
\* The refs execute_action resolves are those the agent was last shown: whatever tools ran,
\* failed, were cut or recycled the browser, the active map is the map last shown.  Only a
\* get_page_map cancelled while it dismisses a barrier leaves a stored map unshown.
RefsAreShown ==
  tool = NoTool =>
    cache.active = None \/ ActiveMap(cache) = agent.map \/ (AutoDismiss /\ agent.told = "retry")

\* Once the agent was told that its refs expired, or to call get_page_map, no ref is accepted
\* until it is shown a map again.
ExpiredRefsRefused == tool = NoTool /\ agent.told = "expired" => cache.active = None

\* The two-layer cache never answers with a map of another page: while the page changes only
\* between tools, a map about to be shown by get_page_map, whichever tier it comes from, shows
\* the DOM on display with refs found on a DOM of the same structure.  Excepted are a map that
\* is no longer active and one shown after an auto-dismiss click that failed.
AnswerDescribesPage ==
  At("answer") /\ "during" \notin Env =>
    \/ cache.active = None \/ tool.clicked
    \/ tool.map.dom = page.dom /\ Struct[tool.map.refs] = Struct[page.dom]

\* The contract on refs that these tools implement, seen through: the active map between two
\* calls, and the map execute_action and fill_form took when they began.
Contract == INSTANCE RefContract WITH
  NoMap <- None, Maps <- Map, Loose <- AutoDismiss,
  shown <- agent.map,
  told <- agent.told,
  usable <- IF tool = NoTool THEN ActiveMap(cache) ELSE None,
  working <- IF ToolIs({"execute_action", "fill_form"}) THEN tool.map ELSE None,
  busy <- tool # NoTool

\* Every behaviour of the tools, with their failures, timeouts, cancellations and recycled
\* browsers, keeps the contract on refs: a call resolves its refs in one map, the one last
\* shown, and no answer leaves the agent with refs the server resolves elsewhere.
KeepsContract == Contract!ContractSpec

\* The LRU holds at most one entry under a key and never exceeds its capacity.
LruSound ==
  /\ Len(cache.lru) <= MaxEntries
  /\ \A i, j \in DOMAIN cache.lru : KeyOf(cache.lru[i]) = KeyOf(cache.lru[j]) => i = j

\* core/cache.py, the docstring of active: "The current page's cached PageMap, or None".
ActiveIsCurrentPage ==
  tool = NoTool /\ cache.active # None => Key[ActiveMap(cache).url] = Key[page.url]

\* core/serializer.py, the answer to an unchanged page: the refs the agent has are "still
\* valid", so a diff is taken against the map the agent was last shown.
DiffAgainstLastShown == [][AnswerWithDiff => tool.base = agent.map]_vars

=============================================================================
