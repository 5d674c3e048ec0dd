----------------------------- MODULE HttpServer -----------------------------
(***************************************************************************)
(* The life of the HTTP server: _run_http_server of server/http_server.py.   *)
(* Boot opens the repository, the browser pool and the session manager,       *)
(* wraps the application in its middleware, starts the background workers and *)
(* serves; whatever ends that, the finally block stops them in a fixed order. *)
(*                                                                         *)
(* The packages it wires (rate limiting, authentication, payments,           *)
(* resilience, telemetry) are not in the repository: which of them a          *)
(* deployment has, and what it switches on, is an input.                    *)
(***************************************************************************)
EXTENDS Integers, Sequences, FiniteSets

CONSTANTS
  Deployments,  \* [db, packages, wants]: the database, the packages, the switches and settings
  Reraised      \* uvicorn raises a captured signal again when serve() is over (0.29 and later)

Workers == {"outbox", "usage", "webhooks", "retention", "degrade", "capture", "cqp"}
Required == {"limiter", "credit", "rest", "auth", "headers"}
ASSUME ServerAssumption ==
  /\ Reraised \in BOOLEAN
  /\ \A d \in Deployments : d.db \in {"supabase", "sqlite", "memory"}

VARIABLES
  deployment,  \* the deployment that runs
  life,        \* where _run_http_server is
  owns,        \* repository, pool and manager: which are open
  chain,       \* the middleware around the application: places in WrapOrder
  worker,      \* the background tasks; "astray" is one whose shutdown() raised
  draining,    \* srv._draining
  pending,     \* the signal that came, or a CancelledError still to be raised
  steps        \* what the finally block has yet to do

hsvars == <<deployment, life, owns, chain, worker, draining, pending, steps>>

ServerTypeOK ==
  /\ deployment \in Deployments
  /\ life \in {"off", "limiter", "pool", "wiring", "starting", "serving", "ending",
               "complete", "cut", "killed", "failed"}
  /\ owns \subseteq {"repository", "pool", "manager"}
  /\ chain \subseteq 1..15
  /\ worker \in [Workers -> {"none", "running", "stopped", "astray"}]
  /\ draining \in BOOLEAN
  /\ pending \in {"none", "term", "int", "cancel"}
  /\ steps \in Seq(STRING)

ServerInit ==
  /\ deployment \in Deployments
  /\ life = "off" /\ owns = {} /\ chain = {}
  /\ worker = [w \in Workers |-> "none"]
  /\ draining = FALSE /\ pending = "none" /\ steps = <<>>

Has(p) == p \in deployment.packages
Wants(s) == s \in deployment.wants

-----------------------------------------------------------------------------
(***************************************************************************)
(* Boot.                                                                    *)
(***************************************************************************)

\* The repository is opened, or its package or settings are missing.
OpenRepository ==
  /\ life = "off"
  /\ \/ life' = "limiter" /\ owns' = {"repository"}
     \/ life' = "failed" /\ UNCHANGED owns
  /\ UNCHANGED <<deployment, chain, worker, draining, pending, steps>>

\* The limiter: Redis, or in-process when Redis fails.  No finally block guards this yet.
OpenLimiter ==
  /\ life = "limiter"
  /\ life' = IF Has("limiter") THEN "pool" ELSE "failed"
  /\ UNCHANGED <<deployment, owns, chain, worker, draining, pending, steps>>

\* `async with pool`: the browser starts, or the exception leaves the repository open.
OpenPool ==
  /\ life = "pool"
  /\ \/ life' = "wiring" /\ owns' = owns \cup {"pool", "manager"}
     \/ life' = "failed" /\ UNCHANGED owns
  /\ UNCHANGED <<deployment, chain, worker, draining, pending, steps>>

\* Mutant of WrapOrder: CORS is wrapped before authentication.
WrapOrder_CorsInside ==
  <<"credit", "rest", "ab", "bola", "cors", "auth", "headers", "paddle", "creem", "rate", "breaker",
    "deadline", "versioning", "gateway", "trace">>

\* The order in which the application is wrapped: the last is the first to see a request.
WrapOrder ==
  <<"credit", "rest", "ab", "bola", "auth", "cors", "headers", "paddle", "creem", "rate", "breaker",
    "deadline", "versioning", "gateway", "trace">>

Wrapped(layer) ==
  CASE layer \in {"credit", "rest", "auth", "headers", "rate"} -> TRUE
    [] layer \in {"bola", "versioning"} -> Has(layer)
    [] layer \in {"cors", "paddle", "creem", "gateway"} -> Wants(layer)
    [] layer = "trace" -> Wants("trace") /\ Wants("telemetry") /\ Has("trace")
    [] OTHER -> Wants(layer) /\ Has(layer)

\* Mutant of StopOrder: the repository is closed before those who use it.
StopOrder_RepositoryFirst ==
  <<"repository", "outbox", "usage", "webhooks", "retention", "degrade", "flush", "capture", "sequences",
    "cqp", "metrics", "manager">>

StopOrder ==
  <<"outbox", "usage", "webhooks", "retention", "degrade", "flush", "capture", "sequences",
    "cqp", "metrics", "manager", "repository">>

\* The finally block is entered.
Ending == life' = "ending" /\ steps' = StopOrder

\* A package that is missing ends the boot inside the try block.
Wire ==
  /\ life = "wiring"
  /\ \/ /\ Required \subseteq deployment.packages
        /\ life' = "starting" /\ UNCHANGED steps
        /\ chain' = {i \in DOMAIN WrapOrder : Wrapped(WrapOrder[i])}
     \/ /\ ~(Required \subseteq deployment.packages)
        /\ Ending /\ UNCHANGED chain
  /\ UNCHANGED <<deployment, owns, worker, draining, pending>>

\* Which workers the deployment runs.  The outbox falls back to the synchronous handler, and a
\* CQP stack that fails to initialise is only logged.
Employed ==
  {w \in Workers :
     CASE w = "outbox" -> Wants("paddle") /\ Wants("outbox") /\ Has("outbox")
       [] w = "usage" -> Wants("paddle") /\ Wants("metering") /\ Has("metering")
       [] w = "webhooks" -> Wants("paddle") /\ Has("webhooks")
       [] w = "retention" -> Has("retention")
       [] w = "degrade" -> deployment.db = "supabase" /\ Has("degrade")
       [] w = "cqp" -> Wants("telemetry")
       [] OTHER -> Wants("telemetry") /\ Has("cqp")}

AtWork(ws) == [w \in Workers |-> IF w \in ws THEN "running" ELSE "none"]

StartWorkers ==
  /\ life = "starting"
  /\ \/ /\ \E failed \in SUBSET (Employed \cap {"capture"}) : worker' = AtWork(Employed \ failed)
        /\ life' = "serving" /\ UNCHANGED steps
     \/ /\ \E some \in SUBSET Employed : worker' = AtWork(some)   \* one raises, or Ctrl-C
        /\ Ending
  /\ UNCHANGED <<deployment, owns, chain, draining, pending>>

-----------------------------------------------------------------------------
(***************************************************************************)
(* Serving, and the end.                                                    *)
(***************************************************************************)

\* A signal: drain mode, then uvicorn's own handle_exit.
Signal(s) ==
  /\ life = "serving" /\ pending = "none"
  /\ pending' = s /\ draining' = TRUE
  /\ UNCHANGED <<deployment, life, owns, chain, worker, steps>>

\* serve() is over: the listener failed, or the signal was obeyed.  uvicorn then restores the
\* handlers and raises the signal again: SIGTERM's default action kills the process, SIGINT's
\* cancels the main task, which notices at its next await.
ServeOver ==
  /\ life = "serving"
  /\ \/ pending = "term" /\ Reraised /\ life' = "killed" /\ UNCHANGED <<pending, steps>>
     \/ /\ ~(pending = "term" /\ Reraised)
        /\ Ending
        /\ pending' = IF pending = "int" /\ Reraised THEN "cancel" ELSE "none"
  /\ UNCHANGED <<deployment, owns, chain, worker, draining>>

\* The steps that await, and those of them that swallow a CancelledError with the task they
\* await.
Awaits(s) ==
  CASE s \in Workers -> worker[s] = "running"
    [] s = "flush" -> Wants("telemetry") /\ Has("cqp")
    [] OTHER -> s \in {"manager", "repository"}
Swallows(s) == s \in {"outbox", "degrade", "cqp"}

\* The workers whose shutdown may raise, which is suppressed: such a worker may run on.
MayRaise == {"outbox", "usage", "webhooks", "retention", "capture"}

\* What a step leaves when it is done.
Stop(s) ==
  /\ IF s \in Workers /\ worker[s] = "running"
       THEN \E left \in {"stopped"} \cup (IF s \in MayRaise THEN {"astray"} ELSE {}) :
              worker' = [worker EXCEPT ![s] = left]
       ELSE UNCHANGED worker
  /\ owns' = owns \ {s}
  /\ steps' = Tail(steps)

\* `async with pool` is left, however the block ended.
Leave(how) == life' = how /\ steps' = <<>>

\* One step of the finally block; the last resets the drain flag.
StopNext ==
  /\ life = "ending" /\ steps # <<>>
  /\ LET s == Head(steps) IN
     \/ /\ Awaits(s) /\ pending = "cancel" /\ ~Swallows(s)     \* the rest is skipped
        /\ Leave("cut") /\ owns' = owns \ {"pool"}
        /\ UNCHANGED <<worker, draining, pending>>
     \/ /\ Awaits(s) => pending # "cancel" \/ Swallows(s)
        /\ Stop(s)
        /\ pending' = IF Awaits(s) THEN "none" ELSE pending
        /\ UNCHANGED <<life, draining>>
     \/ /\ s \in {"manager", "repository"} /\ pending # "cancel"  \* its exception is not suppressed
        /\ Leave("cut") /\ owns' = owns \ {"pool"}
        /\ UNCHANGED <<worker, draining, pending>>
  /\ UNCHANGED <<deployment, chain>>

StopDone ==
  /\ life = "ending" /\ steps = <<>>
  /\ life' = "complete" /\ draining' = FALSE /\ owns' = owns \ {"pool"}
  /\ UNCHANGED <<deployment, chain, worker, pending, steps>>

ServerNext ==
  \/ OpenRepository \/ OpenLimiter \/ OpenPool \/ Wire \/ StartWorkers
  \/ \E s \in {"term", "int"} : Signal(s)
  \/ ServeOver \/ StopNext \/ StopDone

ServerSpec == ServerInit /\ [][ServerNext]_hsvars

-----------------------------------------------------------------------------
(***************************************************************************)
(* Requests.                                                                *)
(***************************************************************************)
\* The layers that answer some requests themselves, for reasons of their own: credit spent, a
\* REST route, another one's object, a payment's webhook, a limit, an open circuit, a deadline
\* passed, an unknown version, an untrusted proxy.  Which requests, their packages decide.
OwnAnswers == {"credit", "rest", "bola", "paddle", "creem", "rate", "breaker", "deadline", "versioning",
               "gateway"}

HttpRequest == [preflight : BOOLEAN, origin : BOOLEAN, key : BOOLEAN, stop : OwnAnswers \cup {"none"}]

\* Which layers answer a request themselves: CORS a preflight of an allowed origin,
\* authentication a request without credentials, another one the request it stops.
AnswersItself(layer, r) ==
  \/ layer = "cors" /\ r.preflight /\ r.origin
  \/ layer = "auth" /\ ~r.key
  \/ layer = r.stop

\* The layer that answers, by its place; 0 is the application.
Answerer(r) ==
  LET at == {i \in chain : AnswersItself(WrapOrder[i], r)} IN
  IF at = {} THEN 0 ELSE CHOOSE i \in at : \A k \in at : k <= i

\* The answer passes the layers outside of the one that gave it.
Passes(r, layer) == \E i \in chain : WrapOrder[i] = layer /\ i >= Answerer(r)

\* /ready: 503 when the pool's browser is not connected; whatever else it reports on, or
\* fails to, is only told.
Ready(connected) == IF "manager" \in owns /\ ~connected THEN 503 ELSE 200

\* /readyz: 503 while draining, else as /ready.
Readyz(connected) == IF draining THEN 503 ELSE Ready(connected)

\* /startupz: the same of the pool's browser, but without a session manager nothing has started.
Startupz(connected) == IF "manager" \in owns THEN Ready(connected) ELSE 503

-----------------------------------------------------------------------------
(***************************************************************************)
(* What the server promises.                                                *)
(***************************************************************************)

\* What answers from outside of CORS: the webhooks and everything wrapped after them.
Outermost == {"paddle", "creem", "rate", "breaker", "deadline", "versioning", "gateway"}

\* "Must wrap outside AuthMiddleware so preflight requests (no credentials) are answered
\* before the auth layer rejects them": in every deployment with CORS, a preflight of an
\* allowed origin needs no credentials, and an answer that authentication, the layers inside
\* of it or the application give to an allowed origin carries the CORS and the security
\* headers.  What a layer outside of CORS answers itself carries neither: a browser client
\* cannot read that it is over its limit, that a circuit is open or a deadline passed.
AnswersReadable ==
  life = "serving" /\ Wants("cors") =>
    \A r \in HttpRequest : r.origin /\ r.stop \notin Outermost =>
      /\ r.preflight => Answerer(r) # 0 /\ WrapOrder[Answerer(r)] = "cors"
      /\ Passes(r, "cors") /\ Passes(r, "headers")

\* However boot or serving ended, and wherever the finally block was left: the workers run on
\* an open repository only, the session manager is down before the repository is, a shutdown
\* that completes leaves nothing behind, and a server that listens is started and ready as
\* long as its browser is connected and no signal has come.  A worker whose shutdown() raised
\* is excepted: the error is suppressed, and it may outlive the repository and the shutdown.
ShutdownOrder ==
  /\ (\E w \in Workers : worker[w] = "running") \/ "manager" \in owns => "repository" \in owns
  /\ life = "complete" => owns = {} /\ ~draining /\ \A w \in Workers : worker[w] # "running"
  /\ life = "serving" => \A connected \in BOOLEAN :
       /\ Startupz(connected) = 200 <=> connected
       /\ Readyz(connected) = 200 <=> connected /\ pending = "none"
=============================================================================
