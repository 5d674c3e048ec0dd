---------------------------- MODULE HttpSessions ----------------------------
(***************************************************************************)
(* server/session_manager.py: HttpSessionManager, on top of the pool.       *)
(*                                                                         *)
(* A request is an asyncio task: it looks its SessionEntry up, queues for    *)
(* the entry's tool_lock, runs one tool and may call get_session() while it  *)
(* does.  Its calls of the pool are the actions of BrowserPool.  A request   *)
(* on an id of OneShot is the playground endpoint, which removes the session *)
(* when it ends (http_server.py).                                           *)
(*                                                                         *)
(* session_lock is not a variable: every get_session() runs under the        *)
(* entry's tool_lock, which is.  Tabs (multi_tab) and the page cache of an   *)
(* entry are left out; the nav-count, age and tab-quota limits are reached   *)
(* at any time.                                                             *)
(***************************************************************************)
EXTENDS BrowserPool

CONSTANTS
  Entries,       \* SessionEntry objects; each is created at most once
  Tenants,       \* tenant ids; a request without one has tenant None
  TenantLimit,   \* MAX_SESSIONS_PER_TENANT, 0 for no limit
  OneShot,       \* the ids the playground makes up
  Telemetry      \* the package pagemap.telemetry, absent from the repository, is installed

ASSUME HttpAssumption ==
  /\ None \notin Entries \cup Tenants
  /\ IsFiniteSet(Ids)
  /\ TenantLimit \in Nat /\ Telemetry \in BOOLEAN /\ OneShot \subseteq Ids

VARIABLES
  sessions,      \* _sessions
  tenantCount,   \* _tenant_session_counts, 0 for a missing key
  sessionsLock,  \* the task holding _sessions_lock, or None
  ent,           \* the SessionEntry objects
  req,           \* what each request is doing
  closing        \* shutdown(): the entries it has still to clean up

hvars == <<sessions, tenantCount, sessionsLock, ent, req, closing>>
httpVars == <<pvars, hvars>>

ReqStage == {"idle", "lookup", "expiring", "queued", "tool", "alive", "renew", "fresh", "acquire",
             "guard", "unguard", "remove", "removing", "closing"}
Req == [at : ReqStage, id : Ids \cup {None}, tenant : Tenants \cup {None},
        entry : Entries \cup {None}, page : Sessions \cup {None}]
SessionEntry == [id : Ids \cup {None}, tenant : Tenants \cup {None}, browser : Sessions \cup {None},
                 tool : Callers \cup {None}, expired : BOOLEAN]

Idle == [at |-> "idle", id |-> None, tenant |-> None, entry |-> None, page |-> None]
Unborn == [id |-> None, tenant |-> None, browser |-> None, tool |-> None, expired |-> FALSE]

HttpTypeOK ==
  /\ sessions \in [Ids -> Entries \cup {None}]
  /\ tenantCount \in [Tenants -> Nat]
  /\ sessionsLock \in Callers \cup {None}
  /\ ent \in [Entries -> SessionEntry]
  /\ req \in [Callers -> Req]
  /\ closing \in [at : {"no", "closing", "done"}, todo : SUBSET Entries]

HttpInit ==
  /\ PoolInit
  /\ sessions = [i \in Ids |-> None]
  /\ tenantCount = [t \in Tenants |-> 0]
  /\ sessionsLock = None
  /\ ent = [e \in Entries |-> Unborn]
  /\ req = [c \in Callers |-> Idle]
  /\ closing = [at |-> "no", todo |-> {}]

At(c, stage) == req[c].at = stage
Goto(c, stage) == req' = [req EXCEPT ![c].at = stage]

-----------------------------------------------------------------------------
(***************************************************************************)
(* Looking the entry up: get_context and _get_or_create_entry_with_tenant.  *)
(***************************************************************************)

\* Bound: a request arrives only while a SessionEntry object is left for it.
EntriesLeft ==
  Cardinality({e \in Entries : ent[e].id = None})
    > Cardinality({c \in Callers : req[c].at \in {"lookup", "expiring"}})

\* A made-up id is new.
NewId(i) == /\ sessions[i] = None /\ contexts[i] = None
            /\ \A d \in Callers : req[d].id # i

\* The fast path returns an unexpired entry without the lock.
Arrive(c, i, t) ==
  /\ At(c, "idle") /\ closing.at = "no" /\ EntriesLeft
  /\ i \in OneShot => NewId(i) /\ t = None
  /\ LET e == sessions[i] IN
     req' = [req EXCEPT ![c] =
       IF e # None /\ ~ent[e].expired
         THEN [at |-> "queued", id |-> i, tenant |-> t, entry |-> e, page |-> None]
         ELSE [at |-> "lookup", id |-> i, tenant |-> t, entry |-> None, page |-> None]]
  /\ UNCHANGED <<pvars, sessions, tenantCount, sessionsLock, ent, closing>>

\* created_at is session_ttl seconds ago.
Expire(e) ==
  /\ ent[e].id # None /\ ~ent[e].expired
  /\ ent' = [ent EXCEPT ![e].expired = TRUE]
  /\ UNCHANGED <<pvars, sessions, tenantCount, sessionsLock, req, closing>>

\* _decrement_tenant_counter
Decremented(t) ==
  IF t = None THEN tenantCount
  ELSE [tenantCount EXCEPT ![t] = IF @ > 0 THEN @ - 1 ELSE 0]

\* Mutant of OverLimit: one session too many.
OverLimit_OffByOne(t, counts) == t # None /\ TenantLimit > 0 /\ counts[t] > TenantLimit

OverLimit(t, counts) == t # None /\ TenantLimit > 0 /\ counts[t] >= TenantLimit

\* The limit check, the creation and the count, from the map, counts and entries left by
\* the expiry; the lock is released.
Create(c, ss, counts, es) ==
  LET i == req[c].id  t == req[c].tenant IN
  /\ sessionsLock' = None
  /\ \/ /\ OverLimit(t, counts)
        /\ sessions' = ss /\ tenantCount' = counts /\ ent' = es
        /\ req' = [req EXCEPT ![c] = Idle]
     \/ /\ ~OverLimit(t, counts)
        /\ \E e \in Entries :
             /\ es[e].id = None
             /\ ent' = [es EXCEPT ![e] = [Unborn EXCEPT !.id = i, !.tenant = t]]
             /\ sessions' = [ss EXCEPT ![i] = e]
             /\ req' = [req EXCEPT ![c].at = "queued", ![c].entry = e]
        /\ tenantCount' = IF t = None THEN counts ELSE [counts EXCEPT ![t] = @ + 1]

\* _cleanup_entry awaits a release only for an entry that has a browser.
HasContext(e) == ent[e].browser # None /\ contexts[ent[e].id] # None

WithoutBrowser(e) == [ent EXCEPT ![e].browser = None]

\* Mutant of LookupSlow: the entry is not looked up again under the lock.
LookupSlow_NoRecheck(c) ==
  /\ At(c, "lookup") /\ sessionsLock = None
  /\ Create(c, sessions, tenantCount, ent)
  /\ UNCHANGED <<pvars, closing>>

\* Under _sessions_lock: an unexpired entry is returned, an expired one is dropped first.
LookupSlow(c) ==
  LET i == req[c].id  e == sessions[i] IN
  /\ At(c, "lookup") /\ sessionsLock = None
  /\ \/ /\ e # None /\ ~ent[e].expired
        /\ req' = [req EXCEPT ![c].at = "queued", ![c].entry = e]
        /\ UNCHANGED <<pvars, sessions, tenantCount, sessionsLock, ent>>
     \/ /\ e = None
        /\ Create(c, sessions, tenantCount, ent)
        /\ UNCHANGED pvars
     \/ /\ e # None /\ ent[e].expired /\ ~HasContext(e)
        /\ Create(c, [sessions EXCEPT ![i] = None], Decremented(ent[e].tenant), WithoutBrowser(e))
        /\ UNCHANGED pvars
     \/ /\ e # None /\ ent[e].expired /\ HasContext(e)
        /\ ReleaseBegin(c, i)
        /\ sessions' = [sessions EXCEPT ![i] = None]
        /\ tenantCount' = Decremented(ent[e].tenant)
        /\ sessionsLock' = c
        /\ req' = [req EXCEPT ![c].at = "expiring", ![c].entry = e]
        /\ UNCHANGED ent
  /\ UNCHANGED closing

ExpireDone(c) ==
  /\ At(c, "expiring")
  /\ ReleaseDone(c)
  /\ Create(c, sessions, tenantCount, WithoutBrowser(req[c].entry))
  /\ UNCHANGED closing

-----------------------------------------------------------------------------
(***************************************************************************)
(* The tool, and get_session() inside it.                                   *)
(***************************************************************************)

\* Mutant of TakeToolLock: the lock is not taken.
TakeToolLock_Unlocked(c) ==
  /\ At(c, "queued")
  /\ Goto(c, "tool")
  /\ UNCHANGED <<pvars, sessions, tenantCount, sessionsLock, ent, closing>>

TakeToolLock(c) ==
  /\ At(c, "queued") /\ ent[req[c].entry].tool = None
  /\ ent' = [ent EXCEPT ![req[c].entry].tool = c]
  /\ Goto(c, "tool")
  /\ UNCHANGED <<pvars, sessions, tenantCount, sessionsLock, closing>>

\* The tool returns, raises or is cancelled: its lock is released, and the playground goes
\* on to remove its session.
EndTool(c, es) ==
  /\ req' = [req EXCEPT ![c] = IF req[c].id \in OneShot THEN [@ EXCEPT !.at = "remove", !.page = None] ELSE Idle]
  /\ ent' = [e \in Entries |-> IF es[e].tool = c THEN [es[e] EXCEPT !.tool = None] ELSE es[e]]

Return(c) ==
  /\ At(c, "tool")
  /\ EndTool(c, ent)
  /\ UNCHANGED <<pvars, sessions, tenantCount, sessionsLock, closing>>

\* _get_session_for_entry.  "fresh" is the call of pool.acquire() about to be made.
GetSession(c) ==
  /\ At(c, "tool")
  /\ LET s == ent[req[c].entry].browser IN
     req' = [req EXCEPT ![c].at = IF s = None THEN "fresh" ELSE "alive", ![c].page = s]
  /\ UNCHANGED <<pvars, sessions, tenantCount, sessionsLock, ent, closing>>

\* The tool goes on after a dead or recycled browser has been released.  A recycle imports
\* pagemap.telemetry, which raises when the package is missing.
Renewed(c, why) ==
  LET es == WithoutBrowser(req[c].entry) IN
  IF why = "recycle" /\ ~Telemetry
    THEN EndTool(c, es)
    ELSE req' = [req EXCEPT ![c].at = "fresh", ![c].page = None] /\ ent' = es

\* is_alive() has answered for the browser the entry had when it was asked.  A dead or
\* recycled one is released by session id, whatever the pool has under that id by now.
AliveChecked(c) ==
  LET e == req[c].entry  i == req[c].id  alive == bs[req[c].page] # "closed" IN
  /\ At(c, "alive")
  /\ \/ \E why \in {"dead", "recycle"} :
          /\ why = "recycle" => alive
          /\ \/ /\ contexts[i] = None
                /\ Renewed(c, why)
                /\ UNCHANGED pvars
             \/ /\ contexts[i] # None
                /\ ReleaseBegin(c, i)
                /\ Goto(c, "renew") /\ UNCHANGED ent
     \/ /\ alive                                 \* too many tabs, or cleaned up meanwhile
        /\ EndTool(c, ent)
        /\ UNCHANGED pvars
     \/ /\ alive /\ ent[e].browser # None
        /\ req' = [req EXCEPT ![c].at = "tool", ![c].page = ent[e].browser]
        /\ UNCHANGED <<pvars, ent>>
  /\ UNCHANGED <<sessions, tenantCount, sessionsLock, closing>>

RenewDone(c) ==
  /\ At(c, "renew")
  /\ ReleaseDone(c)
  /\ \E why \in {"dead", "recycle"} : Renewed(c, why)
  /\ UNCHANGED <<sessions, tenantCount, sessionsLock, closing>>

\* After a step of pool.acquire(): still inside, failed, or with a browser whose SSRF guard
\* is being installed.
AfterAcquire(c) ==
  \/ call'[c].at # "idle" /\ Goto(c, "acquire") /\ UNCHANGED ent
  \/ call'[c].at = "idle" /\ call'[c].sess = None /\ EndTool(c, ent)
  \/ call'[c].at = "idle" /\ call'[c].sess # None /\ Goto(c, "guard") /\ UNCHANGED ent

Acquire(c) ==
  /\ \/ At(c, "fresh") /\ Begin(c, "acquire", req[c].id)
     \/ At(c, "acquire") /\ (Resume(c) \/ StartOk(c) \/ StartFail(c) \/ GiveUp(c))
  /\ AfterAcquire(c)
  /\ UNCHANGED <<sessions, tenantCount, sessionsLock, closing>>

GuardOk(c) ==
  LET s == call[c].sess IN
  /\ At(c, "guard")
  /\ ent' = [ent EXCEPT ![req[c].entry].browser = s]
  /\ req' = [req EXCEPT ![c].at = "tool", ![c].page = s]
  /\ UNCHANGED <<pvars, sessions, tenantCount, sessionsLock, closing>>

\* install_ssrf_route_guard raised: the context is released and the tool fails.
GuardFail(c) ==
  /\ At(c, "guard")
  /\ \/ contexts[req[c].id] = None /\ EndTool(c, ent) /\ UNCHANGED pvars
     \/ contexts[req[c].id] # None /\ ReleaseBegin(c, req[c].id) /\ Goto(c, "unguard") /\ UNCHANGED ent
  /\ UNCHANGED <<sessions, tenantCount, sessionsLock, closing>>

UnguardDone(c) ==
  /\ At(c, "unguard")
  /\ ReleaseDone(c)
  /\ EndTool(c, ent)
  /\ UNCHANGED <<sessions, tenantCount, sessionsLock, closing>>

\* asyncio.timeout around the lock and the tool cancels the task at its current await.
TimeOut(c) ==
  /\ req[c].at \in {"queued", "tool", "alive", "renew", "acquire", "guard", "unguard"}
  /\ \/ call[c].at = "idle" /\ UNCHANGED pvars
     \/ GiveUp(c) \/ CancelStart(c) \/ CancelRelease(c)
  /\ EndTool(c, ent)
  /\ UNCHANGED <<sessions, tenantCount, sessionsLock, closing>>

-----------------------------------------------------------------------------
(***************************************************************************)
(* remove_session and shutdown.                                             *)
(***************************************************************************)

\* The entry leaves the map under the lock and is cleaned up after it.
Remove(c) ==
  LET i == req[c].id  e == sessions[i] IN
  /\ At(c, "remove") /\ sessionsLock = None
  /\ \/ /\ e = None
        /\ req' = [req EXCEPT ![c] = Idle]
        /\ UNCHANGED <<pvars, sessions, tenantCount, ent>>
     \/ /\ e # None
        /\ sessions' = [sessions EXCEPT ![i] = None]
        /\ tenantCount' = Decremented(ent[e].tenant)
        /\ \/ /\ HasContext(e)
              /\ ReleaseBegin(c, i)
              /\ req' = [req EXCEPT ![c].at = "removing", ![c].entry = e]
              /\ UNCHANGED ent
           \/ /\ ~HasContext(e)
              /\ req' = [req EXCEPT ![c] = Idle]
              /\ ent' = WithoutBrowser(e)
              /\ UNCHANGED pvars
  /\ UNCHANGED <<sessionsLock, closing>>

RemoveDone(c) ==
  /\ At(c, "removing")
  /\ ReleaseDone(c)
  /\ ent' = WithoutBrowser(req[c].entry)
  /\ req' = [req EXCEPT ![c] = Idle]
  /\ UNCHANGED <<sessions, tenantCount, sessionsLock, closing>>

\* shutdown() takes a snapshot and clears the map and the counts, then cleans up each entry.
CloseBegin(c) ==
  /\ At(c, "idle") /\ closing.at = "no" /\ sessionsLock = None
  /\ closing' = [at |-> "closing", todo |-> {sessions[i] : i \in {j \in Ids : sessions[j] # None}}]
  /\ sessions' = [i \in Ids |-> None]
  /\ tenantCount' = [t \in Tenants |-> 0]
  /\ Goto(c, "closing")
  /\ UNCHANGED <<pvars, sessionsLock, ent>>

CloseNext(c) ==
  /\ At(c, "closing") /\ call[c].at = "idle"
  /\ \/ \E e \in closing.todo :
          /\ closing' = [closing EXCEPT !.todo = @ \ {e}]
          /\ \/ /\ HasContext(e)
                /\ ReleaseBegin(c, ent[e].id)
                /\ req' = [req EXCEPT ![c].entry = e]
                /\ UNCHANGED ent
             \/ /\ ~HasContext(e)
                /\ ent' = WithoutBrowser(e)
                /\ UNCHANGED <<pvars, req>>
     \/ /\ closing.todo = {}
        /\ closing' = [closing EXCEPT !.at = "done"]
        /\ req' = [req EXCEPT ![c] = Idle]
        /\ UNCHANGED <<pvars, ent>>
  /\ UNCHANGED <<sessions, tenantCount, sessionsLock>>

CloseReleased(c) ==
  /\ At(c, "closing")
  /\ ReleaseDone(c)
  /\ ent' = WithoutBrowser(req[c].entry)
  /\ UNCHANGED <<sessions, tenantCount, sessionsLock, req, closing>>

\* The pool's own tasks; `async with pool` ends after the manager's shutdown.
PoolBackground ==
  /\ Background
  /\ down'.at # "no" => closing.at = "done"
  /\ UNCHANGED hvars

-----------------------------------------------------------------------------
Lookup(c) == (\E i \in Ids, t \in Tenants \cup {None} : Arrive(c, i, t)) \/ LookupSlow(c) \/ ExpireDone(c)

Tool(c) ==
  \/ TakeToolLock(c) \/ Return(c) \/ GetSession(c) \/ AliveChecked(c) \/ RenewDone(c)
  \/ Acquire(c) \/ GuardOk(c) \/ GuardFail(c) \/ UnguardDone(c) \/ TimeOut(c)

Teardown(c) == Remove(c) \/ RemoveDone(c) \/ CloseBegin(c) \/ CloseNext(c) \/ CloseReleased(c)

HttpNext ==
  \/ \E c \in Callers : Lookup(c) \/ Tool(c) \/ Teardown(c)
  \/ \E e \in Entries : Expire(e)
  \/ PoolBackground

HttpSpec == HttpInit /\ [][HttpNext]_httpVars

(***************************************************************************)
(* What the manager promises.                                              *)
(***************************************************************************)

Registered(t) == {i \in Ids : sessions[i] # None /\ ent[sessions[i]].tenant = t}

\* The tenant counter is exactly the number of the tenant's registered sessions, whatever
\* the order of creations, expiries with their awaited cleanup, removals and shutdown.
TenantCountExact == \A t \in Tenants : tenantCount[t] = Cardinality(Registered(t))

\* "P0-2: check + create + counter increment runs atomically under _sessions_lock to
\* prevent TOCTOU races" (session_manager.py:195): no tenant exceeds its limit.
TenantWithinLimit ==
  TenantLimit > 0 => \A t \in Tenants : Cardinality(Registered(t)) <= TenantLimit

\* Two tools never drive one browser while no session outlives its TTL and shutdown() has
\* not cleared the map: requests of one session share an entry, whose tool_lock keeps them
\* apart through recycling, failures, timeouts and evictions.
Driving(c) == req[c].at \in {"tool", "alive"} /\ req[c].page # None

DistinctBrowsers ==
  \A c, d \in Callers : c # d /\ Driving(c) /\ Driving(d) => req[c].page # req[d].page

OneToolPerBrowser ==
  (closing.at = "no" /\ \A e \in Entries : ~ent[e].expired) => DistinctBrowsers

\* "Each HTTP session gets its own PageMapCache, asyncio.Lock, and BrowserSession"
\* (session_manager.py:169): so two entries' tools never drive one browser.
OwnBrowserSession == DistinctBrowsers


=============================================================================
