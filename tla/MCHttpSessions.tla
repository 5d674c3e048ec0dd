--------------------------- MODULE MCHttpSessions ---------------------------
(* A small instance of HttpSessions for TLC, and of BrowserPool under callers that keep   *)
(* to no contract: both are explored, from two groups of initial states.                  *)
EXTENDS HttpSessions, TLC

CONSTANTS c1, c2, i1, i2, p1, s1, s2, s3, e1, e2, t1

VARIABLE owner   \* whose tasks call the pool: "manager", or "anyone"

MCVars == <<httpVars, owner>>

MCCallers == {c1, c2}
MCIds == {i1, i2, p1}
MCOneShot == {p1}
MCSessions == {s1, s2, s3}
MCEntries == {e1, e2}
MCTenants == {t1}

\* Bound of the manager's part: two sessions, one of them left for each task that queues.
ManagerBound ==
  /\ bs'[s3] = "unborn"
  /\ Cardinality({c \in Callers : call'[c].at \in {"waiting", "granted"}})
       <= Cardinality({s \in {s1, s2} : bs'[s] = "unborn"})

\* Bounds of the pool's own part: two ids.  A fresh session is as good as another, so s3 is
\* the last to be taken.
PoolBounds ==
  /\ \A c \in Callers : call'[c].id \notin OneShot
  /\ bs'[s3] # "unborn" => bs[s1] # "unborn" /\ bs[s2] # "unborn"

MCInit == HttpInit /\ owner \in {"manager", "anyone"}

MCNext ==
  /\ \/ owner = "manager" /\ HttpNext /\ ManagerBound
     \/ owner = "anyone" /\ PoolNext /\ PoolBounds /\ UNCHANGED hvars
  /\ UNCHANGED owner

MCSpec == MCInit /\ [][MCNext]_MCVars

MCManagerSpec == MCSpec /\ owner = "manager"

Symmetry ==
  Permutations(Callers) \cup Permutations({i1, i2}) \cup Permutations({s1, s2}) \cup Permutations(Entries)
=============================================================================
