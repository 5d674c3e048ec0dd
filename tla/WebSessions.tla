---------------------------- MODULE WebSessions ----------------------------
(***************************************************************************)
(* web_search, web_fetch, batch_web_fetch and web_close_session of           *)
(* server/__init__.py, over the registry of pipeline/retriever/sessions.py.  *)
(*                                                                         *)
(* A tool call works inside the tool_lock of its client: one lock in STDIO   *)
(* mode, one per HTTP session, while the registry and the browser that       *)
(* _get_session() hands out belong to the process.  A call is a set of jobs,  *)
(* one per URL (a search is one job, its URL the query's result page); a     *)
(* batch runs several jobs at once under its semaphore.  Each job drives the  *)
(* one page of the browser attached to its WebSession.  A step runs from one  *)
(* await to the next.                                                       *)
(***************************************************************************)
EXTENDS Integers, FiniteSets

CONSTANTS
  Users,        \* tool calls that may be under way together
  Client,       \* the client, hence the tool_lock, of each of them
  SessionNames, \* names of web sessions besides the default one
  DefaultName,  \* DEFAULT_SESSION_ID
  WebObjects,   \* WebSession objects; one nobody refers to any more may stand for a new one
  Targets,      \* URLs that pass the validation
  Requested,    \* values of max_concurrency that callers pass
  MaxPages,     \* _BATCH_WEB_FETCH_MAX_CONCURRENCY
  Nil           \* Python's None

WebNames == SessionNames \cup {DefaultName}
Clients == {Client[u] : u \in Users}

ASSUME WebAssumption ==
  /\ DOMAIN Client = Users
  /\ DefaultName \notin SessionNames
  /\ Nil \notin WebNames \cup WebObjects \cup Targets \cup Users
  /\ Requested \subseteq Int /\ MaxPages \in Nat \ {0}
  /\ IsFiniteSet(Users) /\ IsFiniteSet(Targets)

VARIABLES
  registry,   \* SessionManager._sessions
  webobj,     \* the WebSession objects: attached browser, idle past the TTL, is_default
  shows,      \* what the page of ServerState's browser shows
  held,       \* the call that holds each client's tool_lock
  visit,      \* the call each user has under way
  job         \* its jobs

wvars == <<registry, webobj, shows, held, visit, job>>

(***************************************************************************)
(* A browser attached to a WebSession is "live" while it is ServerState's,   *)
(* and "stale" once get_session() has stopped it and taken another.  A call's *)
(* session argument is None, "new:<name>" ("new" is one with a name of its    *)
(* own), or the id of a session; DEFAULT_SESSION_ID is a name and an id like   *)
(* any other, and only None makes the default session that is_default.       *)
(***************************************************************************)
WebObject == [browser : {"none", "live", "stale"}, idle : BOOLEAN, pinned : BOOLEAN]
Visit == [op : {"none", "fetch", "search", "batch"}, at : {"idle", "attach", "jobs"},
          name : WebNames \cup {Nil}, arg : {"None", "new", "id"}, fast : BOOLEAN,
          width : 0..MaxPages, sess : WebObjects \cup {Nil}]
Job == [at : {"none", "wait", "attach", "goto", "content", "guard", "backend", "done"},
        sess : WebObjects \cup {Nil},
        got : Targets \cup {Nil},                    \* whose content was read
        end : {"none", "ok", "error", "lost"}]       \* lost: SessionNotFound

NewObject == [browser |-> "none", idle |-> FALSE, pinned |-> FALSE]
NoVisit == [op |-> "none", at |-> "idle", name |-> Nil, arg |-> "None", fast |-> FALSE,
            width |-> 0, sess |-> Nil]
NoJob == [at |-> "none", sess |-> Nil, got |-> Nil, end |-> "none"]

WebTypeOK ==
  /\ registry \in [WebNames -> WebObjects \cup {Nil}]
  /\ webobj \in [WebObjects -> WebObject]
  /\ shows \in Targets \cup {Nil}
  /\ held \in [Clients -> Users \cup {Nil}]
  /\ visit \in [Users -> Visit]
  /\ job \in [Users -> [Targets -> Job]]

WebInit ==
  /\ registry = [n \in WebNames |-> Nil]
  /\ webobj = [o \in WebObjects |-> NewObject]
  /\ shows = Nil
  /\ held = [c \in Clients |-> Nil]
  /\ visit = [u \in Users |-> NoVisit]
  /\ job = [u \in Users |-> [t \in Targets |-> NoJob]]

-----------------------------------------------------------------------------
(***************************************************************************)
(* The registry.                                                            *)
(***************************************************************************)

\* Mutant of Evicted: is_default is not looked at.
Evicted_Default ==
  [n \in WebNames |-> IF registry[n] # Nil /\ webobj[registry[n]].idle THEN Nil ELSE registry[n]]

\* _evict_idle, which every lookup and creation runs first.
Evicted ==
  [n \in WebNames |-> IF registry[n] # Nil /\ webobj[registry[n]].idle /\ ~webobj[registry[n]].pinned
                        THEN Nil ELSE registry[n]]

\* An object nothing refers to; which one it is makes no difference.
Referred == {registry[n] : n \in WebNames} \cup {visit[u].sess : u \in Users}
              \cup {job[u][t].sess : u \in Users, t \in Targets}
Unreferred ==
  LET left == WebObjects \ Referred IN IF left = {} THEN {} ELSE {CHOOSE o \in left : TRUE}

\* A session argument and the name it stands for.
Argument(n, arg) == arg = "None" => n = DefaultName

\* resolve_session_arg: get_or_create_default, create (idempotent), or get; o is the
\* session it returns, None when it raises SessionNotFound.
Resolve(n, arg, o) ==
  \/ /\ Evicted[n] = o /\ (o # Nil \/ arg = "id")
     /\ registry' = Evicted /\ UNCHANGED webobj
  \/ /\ Evicted[n] = Nil /\ arg # "id"
     /\ o \in Unreferred
     /\ registry' = [Evicted EXCEPT ![n] = o]
     /\ webobj' = [webobj EXCEPT ![o] = [NewObject EXCEPT !.pinned = arg = "None"]]

\* record(): last_used is now.
Used(o) == [webobj EXCEPT ![o].idle = FALSE]

-----------------------------------------------------------------------------
(***************************************************************************)
(* Calls.                                                                   *)
(***************************************************************************)
Running(u) == {t \in Targets : job[u][t].at \notin {"none", "wait", "done"}}

Granted(u) == held[Client[u]] = Nil

End(u) ==
  /\ visit' = [visit EXCEPT ![u] = NoVisit]
  /\ job' = [job EXCEPT ![u] = [t \in Targets |-> NoJob]]
  /\ held' = [held EXCEPT ![Client[u]] = IF @ = u THEN Nil ELSE @]

Jobs(ts) == [t \in Targets |-> IF t \in ts THEN [NoJob EXCEPT !.at = "wait"] ELSE NoJob]

\* A call enters with the lock; nothing was read while it waited for it.  A fetch and a
\* search resolve their session and attach the browser inside their only job.
Enter(u, op, n, t) ==
  /\ visit[u] = NoVisit /\ Granted(u)
  /\ \E arg \in {"None", "new", "id"}, fast \in BOOLEAN :
       /\ op = "search" => ~fast
       /\ Argument(n, arg)
       /\ visit' = [visit EXCEPT ![u] = [op |-> op, at |-> "jobs", name |-> n, arg |-> arg,
                                         fast |-> fast, width |-> 1, sess |-> Nil]]
  /\ held' = [held EXCEPT ![Client[u]] = u]
  /\ job' = [job EXCEPT ![u] = Jobs({t})]
  /\ UNCHANGED <<registry, webobj, shows>>

\* effective_concurrency.
Clamped(w) == IF w < 1 THEN 1 ELSE IF w > MaxPages THEN MaxPages ELSE w

\* A batch does both before its jobs; an unknown session ends it.  Its jobs name the session
\* by its id.
EnterBatch(u, n, ts) ==
  /\ visit[u] = NoVisit /\ Granted(u)
  /\ \E arg \in {"None", "new", "id"}, fast \in BOOLEAN, w \in Requested, o \in WebObjects :
       /\ Argument(n, arg)
       /\ Resolve(n, arg, o)
       /\ visit' = [visit EXCEPT ![u] =
                      [op |-> "batch", at |-> IF webobj'[o].browser = "none" THEN "attach" ELSE "jobs",
                       name |-> n, arg |-> arg, fast |-> fast, width |-> Clamped(w), sess |-> o]]
  /\ held' = [held EXCEPT ![Client[u]] = u]
  /\ job' = [job EXCEPT ![u] = Jobs(ts)]
  /\ UNCHANGED <<shows>>

\* ServerState.get_session inside _ensure_browser_attached: the running browser; a new one
\* in its place (dead, or due for recycling); or an exception, swallowed, that leaves none.
Stopped == [o \in WebObjects |-> IF webobj[o].browser = "live"
                                   THEN [webobj[o] EXCEPT !.browser = "stale"] ELSE webobj[o]]

Obtain(o) ==
  \/ webobj' = [webobj EXCEPT ![o].browser = "live"] /\ UNCHANGED shows
  \/ webobj' = [Stopped EXCEPT ![o].browser = "live"] /\ shows' = Nil
  \/ webobj' = Stopped /\ shows' = Nil

BatchAttach(u) ==
  /\ visit[u].at = "attach"
  /\ Obtain(visit[u].sess)
  /\ visit' = [visit EXCEPT ![u].at = "jobs"]
  /\ UNCHANGED <<registry, held, job>>

-----------------------------------------------------------------------------
(***************************************************************************)
(* Jobs: _web_fetch_impl, _web_search_impl.                                 *)
(***************************************************************************)
JobAt(u, t, stage) == visit[u].at = "jobs" /\ job[u][t].at = stage
Now(u, t, stage) == job' = [job EXCEPT ![u][t].at = stage]
Over(u, t, end) == job' = [job EXCEPT ![u][t].at = "done", ![u][t].end = end]

\* What follows the attachment: the HTTP backend, or the page of the attached browser.
Transport(u, o) ==
  IF visit[u].fast \/ (visit[u].op = "search" /\ webobj'[o].browser = "none") THEN "backend" ELSE "goto"

\* Mutant of MayStart: the semaphore of a batch counts its jobs one short.
MayStart_OneMore(u) == Cardinality(Running(u)) <= visit[u].width

MayStart(u) == Cardinality(Running(u)) < visit[u].width

\* `async with semaphore` is entered and the job resolves its session: for a batch under
\* the id of the session the batch holds.
JobStart(u, t) ==
  LET v == visit[u] IN
  /\ JobAt(u, t, "wait") /\ MayStart(u)
  /\ \E o \in WebObjects \cup {Nil} :
       /\ Resolve(v.name, IF v.op = "batch" THEN "id" ELSE v.arg, o)
       /\ IF o = Nil THEN Over(u, t, "lost")
          ELSE job' = [job EXCEPT ![u][t].sess = o,
                                  ![u][t].at = IF webobj'[o].browser = "none" THEN "attach" ELSE Transport(u, o)]
  /\ UNCHANGED <<shows, held, visit>>

JobAttach(u, t) ==
  /\ JobAt(u, t, "attach")
  /\ Obtain(job[u][t].sess)
  /\ Now(u, t, Transport(u, job[u][t].sess))
  /\ UNCHANGED <<registry, held, visit>>

HasPage(u, t) == webobj[job[u][t].sess].browser = "live"

\* Reading the page fails for its own reasons, always on a browser that is gone.  A search
\* then asks the HTTP endpoint, unless the page could not even be had; a fetch is an error.
Fails(u, t) ==
  IF visit[u].op = "search" /\ HasPage(u, t) THEN Now(u, t, "backend") ELSE Over(u, t, "error")

\* page.goto(url) has returned: the one page of the browser shows it.
Navigate(u, t) ==
  /\ JobAt(u, t, "goto")
  /\ \/ /\ HasPage(u, t)
        /\ shows' = t
        /\ Now(u, t, "content")
     \/ Fails(u, t) /\ UNCHANGED shows
  /\ UNCHANGED <<registry, webobj, held, visit>>

\* page.content() and page.title() read what the page shows by now.
Content(u, t) ==
  /\ JobAt(u, t, "content")
  /\ \/ /\ HasPage(u, t)
        /\ job' = [job EXCEPT ![u][t].at = "guard", ![u][t].got = shows]
     \/ Fails(u, t)
  /\ UNCHANGED <<registry, webobj, shows, held, visit>>

\* The HTTP backend answers for the URL it was given; its failure is an error string.
Backend(u, t) ==
  /\ JobAt(u, t, "backend")
  /\ \/ job' = [job EXCEPT ![u][t].at = "guard", ![u][t].got = t]
     \/ Over(u, t, "error")
  /\ UNCHANGED <<registry, webobj, shows, held, visit>>

\* Redirect check and extraction; only a success is recorded in the session.
Guard(u, t) ==
  /\ JobAt(u, t, "guard")
  /\ \/ Over(u, t, "ok") /\ webobj' = Used(job[u][t].sess)
     \/ Over(u, t, "error") /\ UNCHANGED webobj
  /\ UNCHANGED <<registry, shows, held, visit>>

\* Every job is done and the results are returned; a batch records itself.
Answer(u) ==
  /\ visit[u].at = "jobs"
  /\ \A t \in Targets : job[u][t].at \in {"none", "done"}
  /\ webobj' = IF visit[u].op = "batch" THEN Used(visit[u].sess) ELSE webobj
  /\ End(u)
  /\ UNCHANGED <<registry, shows>>

\* The timeout of the tool, or its client, cancels the call with its jobs; a get_session()
\* cut in the middle leaves no running browser behind.
Abort(u) ==
  /\ visit[u].at # "idle"
  /\ End(u)
  /\ \/ UNCHANGED <<webobj, shows>>
     \/ /\ visit[u].at = "attach" \/ \E t \in Targets : job[u][t].at = "attach"
        /\ webobj' = Stopped /\ shows' = Nil
  /\ UNCHANGED registry

-----------------------------------------------------------------------------
\* web_close_session: the default session is reset, another one leaves the registry.
CloseSession(u, n) ==
  /\ visit[u] = NoVisit /\ Granted(u)
  /\ \/ /\ n # DefaultName /\ registry[n] # Nil
        /\ registry' = [registry EXCEPT ![n] = Nil] /\ UNCHANGED webobj
     \/ /\ n = DefaultName
        /\ \E o \in Unreferred :
             /\ registry' = [registry EXCEPT ![n] = o]
             /\ webobj' = [webobj EXCEPT ![o] = [NewObject EXCEPT !.pinned = TRUE]]
  /\ UNCHANGED <<shows, held, visit, job>>

\* web_list_sessions evicts what is idle.
ListSessions(u) ==
  /\ visit[u] = NoVisit /\ Granted(u)
  /\ registry' = Evicted
  /\ UNCHANGED <<webobj, shows, held, visit, job>>

\* ttl_seconds have passed since the session's last record().
Idle(o) ==
  /\ \E n \in WebNames : registry[n] = o
  /\ webobj' = [webobj EXCEPT ![o].idle = TRUE]
  /\ UNCHANGED <<registry, shows, held, visit, job>>

WebStep(u) ==
  \/ BatchAttach(u) \/ Answer(u)
  \/ \E t \in Targets :
       JobStart(u, t) \/ JobAttach(u, t) \/ Navigate(u, t) \/ Content(u, t) \/ Backend(u, t) \/ Guard(u, t)

WebNext ==
  \/ \E u \in Users :
       \/ \E op \in {"fetch", "search"}, n \in WebNames, t \in Targets : Enter(u, op, n, t)
       \/ \E n \in WebNames, ts \in SUBSET Targets : EnterBatch(u, n, ts)
       \/ WebStep(u)
       \/ Abort(u)
       \/ \E n \in WebNames : CloseSession(u, n)
       \/ ListSessions(u)
  \/ \E o \in WebObjects : Idle(o)

WebSpec == WebInit /\ [][WebNext]_wvars

-----------------------------------------------------------------------------
(***************************************************************************)
(* What the web tools promise.                                              *)
(***************************************************************************)

\* A call that fetches one URL at a time is answered with that URL's content: the client's
\* lock, the semaphore of the batch and the recycling of the browser keep another fetch of
\* the client off the page between goto() and content().
SequentialFetchIsOfItsUrl ==
  Cardinality(Clients) = 1 =>
    \A u \in Users, t \in Targets :
      visit[u].width = 1 /\ job[u][t].got # Nil => job[u][t].got = t

\* A default session that is_default is never lost: however long the URLs before it took, and
\* whatever other clients close or let expire meanwhile, a URL of a batch on it finds it, and a
\* fetch or a search whose argument is None always has a session.  (A fetch that names "default"
\* by its id may come before anybody made it.)
DefaultAlwaysFound ==
  \A u \in Users, t \in Targets :
    job[u][t].end = "lost" /\ visit[u].name = DefaultName =>
      IF visit[u].op = "batch" THEN ~webobj[visit[u].sess].pinned ELSE visit[u].arg = "id"

\* "Fetch multiple URLs in parallel and return per-URL results" (batch_web_fetch).
ResultOfItsUrl == \A u \in Users, t \in Targets : job[u][t].got \in {Nil, t}
=============================================================================
