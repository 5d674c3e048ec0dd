-------------------------- MODULE MCServerSessions --------------------------
(***************************************************************************)
(* The kinds of session a server keeps besides the pooled ones: tabs, web      *)
(* sessions and WebSocket connections; one BrowserSession from the inside;    *)
(* and the life of the HTTP server.  They share no state but the browser,     *)
(* which each models from its own side, so a behaviour exercises one and      *)
(* leaves the others at rest.                                               *)
(***************************************************************************)
EXTENDS TabTools, WebSessions, WsSessions, HttpServer, BrowserSession, TLC

CONSTANTS u1, u2, c1, c2
OneClient == (u1 :> "stdio") @@ (u2 :> "stdio")
SameClient == (c1 :> "k") @@ (c2 :> "k")
OneClientId == {"k"}

\* Deployments with everything, with nothing but the required, and with a package missing.
Optional == {"ab", "bola", "breaker", "deadline", "versioning", "trace", "outbox", "metering",
             "webhooks", "retention", "degrade", "cqp"}
Switches == {"ab", "cors", "paddle", "creem", "breaker", "deadline", "gateway", "trace", "telemetry",
             "outbox", "metering"}
SomeDeployments ==
  {[db |-> "supabase", packages |-> Required \cup Optional, wants |-> Switches],
   [db |-> "supabase", packages |-> Required \cup {"degrade", "retention"}, wants |-> {"cors", "paddle"}],
   [db |-> "sqlite", packages |-> Required \cup Optional, wants |-> {"cors", "telemetry"}],
   [db |-> "memory", packages |-> Required, wants |-> {"cors", "gateway", "outbox", "trace"}],
   [db |-> "memory", packages |-> {"limiter", "auth"}, wants |-> {}],
   [db |-> "sqlite", packages |-> {}, wants |-> Switches]}

VARIABLE kind

SessionsInit == kind \in {"tabs", "web", "ws", "http", "page"}
                /\ TabInit /\ WebInit /\ WsInit /\ ServerInit /\ SessionInit
                /\ (kind # "http" => deployment.db = "memory" /\ deployment.wants = {})
                /\ (kind # "page" => mode = "standalone")

SessionsNext ==
  /\ UNCHANGED kind
  /\ \/ kind = "tabs" /\ TabNext /\ UNCHANGED <<wvars, wsvars, hsvars, bsvars>>
     \/ kind = "web" /\ WebNext /\ UNCHANGED <<tvars, wsvars, hsvars, bsvars>>
     \/ kind = "ws" /\ WsNext /\ UNCHANGED <<tvars, wvars, hsvars, bsvars>>
     \/ kind = "http" /\ ServerNext /\ UNCHANGED <<tvars, wvars, wsvars, bsvars>>
     \/ kind = "page" /\ SessionNext /\ UNCHANGED <<tvars, wvars, wsvars, hsvars>>

SessionsSpec == SessionsInit /\ [][SessionsNext]_<<kind, tvars, wvars, wsvars, hsvars, bsvars>>

\* One permutation for the agents, the users (of one client, see OneClient) and their URLs: no
\* behaviour has both agents and users.
Swap == CHOOSE p \in Permutations(Agents \cup Users \cup Targets) :
          /\ \A S \in {Agents, Users, Targets} : \A x \in S : p[x] \in S /\ p[x] # x
SessionsSymmetry == Permutations(TabNames) \cup {Swap}

\* What makes no difference to what follows is left out of the view: how a browser ended, or
\* that it runs on, once neither ServerState nor the tabs refer to it; whether a closed tab's
\* context did close; what an object holds that nothing refers to any more; what a call was
\* given when it has no URL left that asks for it.
Fate(b) ==
  IF fate[b] # "unborn" /\ (b \notin {base, multi.browser} \/ fate[b] = "failed") THEN "crashed" ELSE fate[b]

Asking(u) ==
  LET asks == \E t \in Targets : job[u][t].at = "wait" \/ job[u][t].end = "lost" IN
  [visit[u] EXCEPT !.name = IF asks THEN @ ELSE Nil,
                   !.arg = IF asks /\ visit[u].op # "batch" THEN @ ELSE "id",
                   !.fast = @ /\ \E t \in Targets : job[u][t].at \in {"wait", "attach"}]

SessionsView ==
  <<kind, lock, base, multi, turn, [b \in Browsers |-> Fate(b)],
    [t \in Tabs |-> IF tab[t] = "stray" THEN "closed" ELSE tab[t]],
    wsvars, hsvars, bsvars, registry, shows, held, job,
    [o \in WebObjects |-> IF o \in Referred THEN webobj[o] ELSE NewObject],
    [u \in Users |-> Asking(u)]>>
=============================================================================
