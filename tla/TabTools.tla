------------------------------ MODULE TabTools ------------------------------
(***************************************************************************)
(* server/multi_tab.py and the tab tools of server/__init__.py: the named    *)
(* tabs of MultiTabSession, each a BrowserContext of its own on one shared   *)
(* browser, next to the single session of ServerState.                      *)
(*                                                                         *)
(* A tool call captures its request context (ctx.multi_tab and, for a page   *)
(* tool, the active tab) when it is issued, waits for tool_lock, and only    *)
(* then works with what it captured.  A step runs from one await to the      *)
(* next.  The dict of tabs is a function of the name: its insertion order    *)
(* decides which tab becomes active after a close and which tabs expire      *)
(* together, and is left open here.  A tab's PageMapCache follows the tab.   *)
(***************************************************************************)
EXTENDS Naturals, FiniteSets

CONSTANTS
  Agents,     \* tool calls that may be under way together
  TabNames,   \* tab names (TAB_NAME_PATTERN is checked before anything changes)
  Tabs,       \* TabInstance objects, each opened at most once
  Browsers,   \* browser processes, each launched at most once
  NoTab,      \* Python's None
  MaxTabs,    \* MAX_TABS
  TabEnv      \* subset of {"death", "cancel", "hang"}, see Crash, CutShort and Answers

ASSUME TabAssumption ==
  /\ IsFiniteSet(TabNames) /\ MaxTabs \in Nat \ {0}
  /\ NoTab \notin Agents \cup TabNames \cup Tabs \cup Browsers
  /\ TabEnv \subseteq {"death", "cancel", "hang"}

VARIABLES
  lock,     \* the call that holds tool_lock, or None; any call queued may be next
  base,     \* the browser of ServerState.session, or None
  fate,     \* what became of each browser process
  multi,    \* ServerState.multi_tab
  tab,      \* life of each tab's BrowserSession and context
  turn      \* the call each agent has under way

tvars == <<lock, base, fate, multi, tab, turn>>

(***************************************************************************)
(* Types.  A "stray" context was left open by a start that failed or by a     *)
(* stop() whose close() failed, a "cut" one by a call cancelled while it      *)
(* opened or closed the tab: nobody refers to either, and nobody closes it.   *)
(* A browser was stopped by recycling, or because it failed a health check.   *)
(***************************************************************************)
TabStage == {"idle", "validate", "queued", "session", "work", "closing", "starting",
             "opening", "undoing", "url"}
Turn == [op : {"none", "page", "open", "switch", "close"}, at : TabStage,
         name : TabNames \cup {NoTab},     \* the tab named by the call
         ctx : BOOLEAN,                    \* ctx.multi_tab is not None
         tab : Tabs \cup {NoTab},          \* the tab captured, opened or closed
         todo : SUBSET TabNames,           \* expired tabs still to close
         shut : TabNames \cup {NoTab}]     \* the tab close_tab is closing

Free == [op |-> "none", at |-> "idle", name |-> NoTab, ctx |-> FALSE, tab |-> NoTab,
         todo |-> {}, shut |-> NoTab]
NoMulti == [browser |-> NoTab, tabs |-> [n \in TabNames |-> NoTab], active |-> NoTab]

TabTypeOK ==
  /\ lock \in Agents \cup {NoTab}
  /\ base \in Browsers \cup {NoTab}
  /\ fate \in [Browsers -> {"unborn", "up", "crashed", "recycled", "failed"}]
  /\ multi \in [browser : Browsers \cup {NoTab}, tabs : [TabNames -> Tabs \cup {NoTab}],
                active : TabNames \cup {NoTab}]
  /\ tab \in [Tabs -> {"unborn", "starting", "open", "closed", "stray", "cut"}]
  /\ turn \in [Agents -> Turn]

TabInit ==
  /\ lock = NoTab /\ base = NoTab
  /\ fate = [b \in Browsers |-> "unborn"]
  /\ multi = NoMulti
  /\ tab = [t \in Tabs |-> "unborn"]
  /\ turn = [a \in Agents |-> Free]

\* The next object not yet used: which one it is makes no difference.
Unborn(life) ==
  LET left == {x \in DOMAIN life : life[x] = "unborn"} IN IF left = {} THEN {} ELSE {CHOOSE x \in left : TRUE}

Made == multi.browser # NoTab
OpenNames == {n \in TabNames : multi.tabs[n] # NoTab}
IsMultiTab == Made /\ OpenNames # {}

InTurn(a, stage) == turn[a].at = stage /\ lock = (IF stage = "queued" THEN NoTab ELSE a)

Set(a, r) == turn' = [turn EXCEPT ![a] = r]
Go(a, stage) == Set(a, [turn[a] EXCEPT !.at = stage]) /\ lock' = a

\* The call returns or raises, and `async with lock` is left.
Done(a) == Set(a, Free) /\ lock' = IF lock = a THEN NoTab ELSE lock

-----------------------------------------------------------------------------
(***************************************************************************)
(* Issuing a call: _create_stdio_context, _resolve_multi_tab_context, the    *)
(* URL validation of open_tab and get_page_map(url), the queue of the lock.  *)
(***************************************************************************)

\* The active tab, or None when there is none or its name is no longer in the dict.
ActiveTab == IF multi.active = NoTab THEN NoTab ELSE multi.tabs[multi.active]

Issue(a, op, n) ==
  /\ turn[a] = Free
  /\ (n = NoTab) <=> (op = "page")
  /\ \E at \in {"validate", "queued"} :
       /\ op = "open" => at = "validate"
       /\ op \in {"switch", "close"} => at = "queued"
       /\ Set(a, [Free EXCEPT !.op = op, !.at = at, !.name = n, !.ctx = Made,
                              !.tab = IF op = "page" THEN ActiveTab ELSE NoTab])
  /\ UNCHANGED <<lock, base, fate, multi, tab>>

\* The DNS lookup accepts or refuses the URL.
Validated(a) ==
  /\ turn[a].at = "validate"
  /\ \/ Set(a, [turn[a] EXCEPT !.at = "queued"])
     \/ Set(a, Free)
  /\ UNCHANGED <<lock, base, fate, multi, tab>>

-----------------------------------------------------------------------------
(***************************************************************************)
(* The tab table.  m and life are multi_tab and the tabs' lives as they      *)
(* stand in the middle of a step.                                           *)
(***************************************************************************)
Names(m) == {n \in TabNames : m.tabs[n] # NoTab}

\* close_tab up to its await: the tab leaves the dict before its session is stopped.
\* todo are the expired tabs still to close after this one.
Pop(a, m, life, n, todo) ==
  /\ multi' = [m EXCEPT !.tabs[n] = NoTab]
  /\ tab' = life
  /\ Set(a, [turn[a] EXCEPT !.at = "closing", !.tab = m.tabs[n], !.shut = n, !.todo = todo])
  /\ lock' = a

\* Mutant of Full: `>` where the code tests `>=`.
Full_OneTooMany(m) == Cardinality(Names(m)) > MaxTabs

Full(m) == Cardinality(Names(m)) >= MaxTabs

\* open_tab and switch_tab once the expired tabs are gone: a duplicate, a tab too many or
\* an unknown tab is refused; otherwise a session starts, or the tab becomes active and its
\* URL is read.
Body(a, m, life) ==
  LET n == turn[a].name IN
  \/ /\ turn[a].op = "open" /\ n \notin Names(m) /\ ~Full(m)
     /\ \E t \in Unborn(life) :
          /\ tab' = [life EXCEPT ![t] = "starting"]
          /\ Set(a, [turn[a] EXCEPT !.at = "starting", !.tab = t, !.shut = NoTab])
     /\ multi' = m /\ lock' = a
  \/ /\ turn[a].op = "switch" /\ n \in Names(m)
     /\ Set(a, [turn[a] EXCEPT !.at = "url", !.tab = m.tabs[n], !.shut = NoTab])
     /\ multi' = [m EXCEPT !.active = n]
     /\ tab' = life /\ lock' = a
  \/ /\ IF turn[a].op = "open" THEN n \in Names(m) \/ Full(m) ELSE n \notin Names(m)
     /\ multi' = m /\ tab' = life /\ Done(a)

\* What becomes of a context whose session is stopped, or did not start: start_from_pool
\* closes nothing when it raises, and stop() suppresses a close() that raises.
Left == IF Made /\ fate[multi.browser] = "up" THEN {"closed", "stray"} ELSE {"closed"}

\* Mutant of AfterClose: the active tab is not moved on.
AfterClose_KeepsActive(n) == {multi}

\* close_tab after its await: another tab takes over from a closed active tab.
AfterClose(n) ==
  IF multi.active # n THEN {multi}
  ELSE {[multi EXCEPT !.active = k] : k \in IF OpenNames = {} THEN {NoTab} ELSE OpenNames}

Closed(a) ==
  /\ InTurn(a, "closing")
  /\ \E m \in AfterClose(turn[a].shut), left \in Left :
       LET life == [tab EXCEPT ![turn[a].tab] = left] IN
       \/ turn[a].op = "close" /\ multi' = m /\ tab' = life /\ Done(a)
       \/ \E n \in turn[a].todo : Pop(a, m, life, n, turn[a].todo \ {n})
       \/ turn[a].op # "close" /\ turn[a].todo = {} /\ Body(a, m, life)
  /\ UNCHANGED <<base, fate>>

\* prune_expired_tabs: some open tabs are past TAB_TTL_SECONDS, or none is.
Prune(a) ==
  \/ Body(a, multi, tab)
  \/ \E old \in SUBSET OpenNames : \E n \in old : Pop(a, multi, tab, n, old \ {n})

\* start_from_pool has returned, or raised outside of open_tab's try block: a context it
\* had opened by then stays open.
Started(a) ==
  /\ InTurn(a, "starting")
  /\ \/ /\ fate[multi.browser] = "up"
        /\ tab' = [tab EXCEPT ![turn[a].tab] = "open"]
        /\ Go(a, "opening")
     \/ /\ \E left \in Left : tab' = [tab EXCEPT ![turn[a].tab] = left]
        /\ Done(a)
  /\ UNCHANGED <<base, fate, multi>>

\* Mutant of Opened: a failed opening raises without stopping the session.
Opened_NoStop(a) ==
  /\ InTurn(a, "opening")
  /\ Done(a)
  /\ \/ multi' = [multi EXCEPT !.tabs[turn[a].name] = turn[a].tab, !.active = turn[a].name]
     \/ UNCHANGED multi
  /\ UNCHANGED <<base, fate, tab>>

\* Mutant of Opened: while a tab is active, another one opens behind it.
Opened_Behind(a) ==
  /\ InTurn(a, "opening")
  /\ \/ /\ multi' = [multi EXCEPT !.tabs[turn[a].name] = turn[a].tab,
                                 !.active = IF multi.active = NoTab THEN turn[a].name ELSE multi.active]
        /\ Done(a)
     \/ Go(a, "undoing") /\ UNCHANGED multi
  /\ UNCHANGED <<base, fate, tab>>

\* The route guard, the cookies and the navigation succeeded, and the tab enters the dict
\* and becomes active; or one of them raised.
Opened(a) ==
  /\ InTurn(a, "opening")
  /\ \/ /\ multi' = [multi EXCEPT !.tabs[turn[a].name] = turn[a].tab, !.active = turn[a].name]
        /\ Done(a)
     \/ Go(a, "undoing") /\ UNCHANGED multi
  /\ UNCHANGED <<base, fate, tab>>

Undone(a) ==
  /\ InTurn(a, "undoing")
  /\ \E left \in Left : tab' = [tab EXCEPT ![turn[a].tab] = left]
  /\ Done(a)
  /\ UNCHANGED <<base, fate, multi>>

-----------------------------------------------------------------------------
(***************************************************************************)
(* The lock is granted.  A page tool has its tab's session at once, or asks  *)
(* ServerState for its own; open_tab makes the MultiTabSession first;        *)
(* switch_tab and close_tab look at the reference they captured.            *)
(***************************************************************************)
NoTabsOpen(a) == ~(turn[a].ctx /\ IsMultiTab)

Run(a) ==
  /\ InTurn(a, "queued")
  /\ \/ /\ turn[a].op = "page"
        /\ Go(a, IF turn[a].tab = NoTab THEN "session" ELSE "work")
        /\ UNCHANGED <<multi, tab>>
     \/ turn[a].op = "open" /\ ~Made /\ Go(a, "session") /\ UNCHANGED <<multi, tab>>
     \/ turn[a].op = "open" /\ Made /\ Prune(a)
     \/ turn[a].op \in {"switch", "close"} /\ NoTabsOpen(a) /\ Done(a) /\ UNCHANGED <<multi, tab>>
     \/ turn[a].op = "switch" /\ ~NoTabsOpen(a) /\ Prune(a)
     \/ /\ turn[a].op = "close" /\ ~NoTabsOpen(a)
        /\ IF turn[a].name \in OpenNames
             THEN Pop(a, multi, tab, turn[a].name, {})
             ELSE Done(a) /\ UNCHANGED <<multi, tab>>
  /\ UNCHANGED <<base, fate>>

\* is_alive: the browser is connected and the page answers within five seconds.  The page of
\* a browser that is up may hang, or have crashed.
Answers(b) ==
  IF b = NoTab \/ fate[b] # "up" THEN {FALSE} ELSE IF "hang" \in TabEnv THEN BOOLEAN ELSE {TRUE}

\* Mutant of MayRecycle: recycling does not ask for open tabs.
MayRecycle_Always == TRUE

\* A session that answers is recycled only while no tab is open.
MayRecycle == ~IsMultiTab

\* stop() of ServerState's session, which suppresses whatever raises: the browser may run on.
StopBase(why) ==
  IF base = NoTab \/ fate[base] # "up" THEN {fate} ELSE {fate, [fate EXCEPT ![base] = why]}

\* get_session stops the session it has: because the health check failed, whatever tabs are
\* open on the same browser, or to recycle it.
Replaced == UNION {IF alive THEN (IF MayRecycle THEN StopBase("recycled") ELSE {}) ELSE StopBase("failed")
                     : alive \in Answers(base)}

\* get_session() has returned with browser b: the tool works, or open_tab goes on.
WithBase(a, b) ==
  \/ turn[a].op = "page" /\ Go(a, "work") /\ UNCHANGED <<multi, tab>>
  \/ turn[a].op = "open" /\ Body(a, [NoMulti EXCEPT !.browser = b], tab)

\* ServerState.get_session: the session it has, or a new browser in its place, which may
\* not start.
Session(a) ==
  /\ InTurn(a, "session")
  /\ \/ TRUE \in Answers(base) /\ WithBase(a, base) /\ UNCHANGED <<base, fate>>
     \/ \E end \in Replaced :
          \/ \E b \in Unborn(fate) :
               /\ base' = b /\ fate' = [end EXCEPT ![b] = "up"]
               /\ WithBase(a, b)
          \/ /\ base' = NoTab /\ fate' = end
             /\ Done(a) /\ UNCHANGED <<multi, tab>>

\* The page tool has done its work (PageTools says what), or switch_tab has the URL.
Finish(a) ==
  /\ InTurn(a, "work") \/ InTurn(a, "url")
  /\ Done(a)
  /\ UNCHANGED <<base, fate, multi, tab>>

-----------------------------------------------------------------------------
(***************************************************************************)
(* Faults.                                                                  *)
(***************************************************************************)

\* A browser process dies.
Crash(b) ==
  /\ "death" \in TabEnv
  /\ fate[b] = "up"
  /\ fate' = [fate EXCEPT ![b] = "crashed"]
  /\ UNCHANGED <<lock, base, multi, tab, turn>>

\* The client cancels the call, or _TOOL_LOCK_TIMEOUT does: `except Exception` and
\* suppress(Exception) let the CancelledError through, so what an await was to be followed
\* by is left undone.
CutShort(a) ==
  /\ "cancel" \in TabEnv
  /\ turn[a].at # "idle"
  /\ Done(a)
  /\ tab' = IF turn[a].at \in {"closing", "starting", "opening", "undoing"}
              THEN [tab EXCEPT ![turn[a].tab] = "cut"] ELSE tab
  /\ \/ UNCHANGED <<base, fate>>
     \/ /\ turn[a].at = "session"
        /\ base' = NoTab /\ fate' \in Replaced
  /\ UNCHANGED multi

TabStep(a) ==
  \/ Validated(a) \/ Run(a) \/ Session(a) \/ Finish(a)
  \/ Closed(a) \/ Started(a) \/ Opened(a) \/ Undone(a)

TabNext ==
  \/ \E a \in Agents :
       \/ \E op \in {"page", "open", "switch", "close"}, n \in TabNames \cup {NoTab} : Issue(a, op, n)
       \/ TabStep(a)
       \/ CutShort(a)
  \/ \E b \in Browsers : Crash(b)

TabSpec == TabInit /\ [][TabNext]_tvars

-----------------------------------------------------------------------------
(***************************************************************************)
(* What the tabs promise.                                                   *)
(***************************************************************************)

\* "Unique tab identifier", "Maximum 5 tabs": open_tab checks both before two awaits and
\* inserts after them; no order of concurrent calls gives one context to two names or opens
\* a tab too many.
TabTableSound ==
  /\ Cardinality(OpenNames) <= MaxTabs
  /\ \A n, k \in OpenNames : multi.tabs[n] = multi.tabs[k] => n = k

Owned(t) ==
  \/ \E n \in OpenNames : multi.tabs[n] = t
  \/ \E a \in Agents : turn[a].tab = t /\ turn[a].at \in {"opening", "undoing", "closing"}

\* A context that started is of a tab in the dict or in the hands of a call at work, until
\* stop() has been called on it or the call was cancelled: the failure of a navigation, of a
\* cookie or of another tab's start loses none.  A tab in the dict has its context.  (A failed
\* start, a failed stop and a cancelled call may leave one open: "stray" and "cut".)
ContextsOwned ==
  /\ \A t \in Tabs : tab[t] = "open" => Owned(t)
  /\ \A n \in OpenNames : tab[multi.tabs[n]] = "open"

\* Between calls that ran to their end, some tab is active exactly when one is open: no
\* page tool falls back to ServerState's own page while the agent has tabs.
ActiveTabOpen ==
  (/\ \A t \in Tabs : tab[t] # "cut"
   /\ \A a \in Agents : turn[a].at # "closing")
    => IF OpenNames = {} THEN multi.active = NoTab ELSE multi.active \in OpenNames

\* Recycling never takes the browser from under open tabs, neither from those that were open
\* when get_session decided nor from those opened since.  Only a health check does: it asks
\* ServerState's own page, and when that page hangs, the browser goes with every tab on it.
TabsKeepBrowser == OpenNames # {} => fate[multi.browser] # "recycled"

\* Which names are open and which tab is in front: an active name that is in no dict counts
\* as none.  Tabs that a call is opening are not used yet.
Front == IF multi.active \in OpenNames THEN multi.active ELSE NoTab
Taken == {t \in Tabs : tab[t] # "unborn"}
          \ {turn[a].tab : a \in {b \in Agents : turn[b].at \in {"starting", "opening", "undoing"}}}

\* What a call still asks for: switch_tab has what it wants before it reads the URL, and
\* close_tab before it stops the session.
Asked(r) ==
  LET over == r.at \in {"idle", "url"} \/ (r.op = "close" /\ r.at = "closing") IN
  [op |-> IF over THEN "none" ELSE r.op, name |-> IF over THEN NoTab ELSE r.name,
   tab |-> IF r.op = "page" /\ ~over THEN r.tab ELSE NoTab]

Table == INSTANCE TabContract WITH
  table <- multi.tabs, front <- Front, used <- Taken, asked <- [a \in Agents |-> Asked(turn[a])]

\* "Unique tab identifier", "Open a new named browser tab", "Switch the active tab": though a
\* call checks the table before its awaits and changes it after them, and may close expired
\* tabs one by one on the way, it is as if it did what it was asked in one step, once or not at
\* all, and nothing else: no call moves the agent off the tab in front but one that was asked to.
KeepsTable == Table!ContractSpec
=============================================================================
