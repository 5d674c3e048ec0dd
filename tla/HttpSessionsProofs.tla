------------------------- MODULE HttpSessionsProofs -------------------------
(***************************************************************************)
(* TLAPS proofs about HttpSessions: it uses the pool only through the        *)
(* pool's operations, so the pool's theorems hold of it; its tenant          *)
(* accounting is exact; and until a session ages or shutdown() begins no two  *)
(* tools drive one browser, for every set of requests, sessions and tenants. *)
(***************************************************************************)
EXTENDS HttpSessions, BrowserPoolProofs

-----------------------------------------------------------------------------
(* The inductive invariant. *)

\* What a request refers to at each stage; the one that awaits an expired session's cleanup
\* holds _sessions_lock, so nobody has registered its id again.
HttpShape ==
  \A c \in Callers :
    /\ req[c].at \notin {"idle", "closing"} => req[c].id \in Ids
    /\ req[c].at \in {"queued", "tool", "alive", "renew", "fresh", "acquire", "guard", "unguard"}
         => req[c].entry \in Entries
    /\ req[c].at = "expiring" => sessionsLock = c /\ sessions[req[c].id] = None

RegisteredIn(t, ss, es) == {i \in Ids : ss[i] # None /\ es[ss[i]].tenant = t}

\* A map of sessions and the counts kept beside it agree.
Accounts(ss, counts, es) ==
  /\ \A i \in Ids : ss[i] # None => es[ss[i]].id = i
  /\ \A t \in Tenants : counts[t] = Cardinality(RegisteredIn(t, ss, es))
  /\ TenantLimit > 0 => \A t \in Tenants : Cardinality(RegisteredIn(t, ss, es)) <= TenantLimit

\* An entry that shutdown() has still to clean up was registered once.
ClosingShape == \A e \in closing.todo : ent[e].id \in Ids

HttpInv == HttpTypeOK /\ HttpShape /\ ClosingShape /\ Accounts(sessions, tenantCount, ent)

\* Entries that differ only in their browser, lock and age are the same to the accounts.
SameAccounts(es, fs) == \A e \in Entries : fs[e].id = es[e].id /\ fs[e].tenant = es[e].tenant

-----------------------------------------------------------------------------
(* Accounting. *)

LEMMA FiniteRegistered ==
  ASSUME NEW STATE ss, NEW STATE es, NEW t
  PROVE  IsFiniteSet(RegisteredIn(t, ss, es)) /\ Cardinality(RegisteredIn(t, ss, es)) \in Nat
<1>1. RegisteredIn(t, ss, es) \subseteq Ids
  BY DEF RegisteredIn
<1> QED BY <1>1, HttpAssumption, FS_Subset, FS_CardinalityType

LEMMA AccountsOfSame ==
  ASSUME NEW STATE ss, ss \in [Ids -> Entries \cup {None}], NEW STATE counts,
         NEW STATE es, NEW STATE fs, SameAccounts(es, fs), Accounts(ss, counts, es)
  PROVE  Accounts(ss, counts, fs)
<1>1. \A i \in Ids : ss[i] # None => ss[i] \in Entries
  OBVIOUS
<1>2. \A t \in Tenants : RegisteredIn(t, ss, fs) = RegisteredIn(t, ss, es)
  BY <1>1 DEF RegisteredIn, SameAccounts
<1>3. \A i \in Ids : ss[i] # None => fs[ss[i]].id = i
  BY <1>1 DEF Accounts, SameAccounts
<1> QED BY <1>2, <1>3 DEF Accounts

LEMMA DecrementedType ==
  ASSUME tenantCount \in [Tenants -> Nat], NEW STATE t
  PROVE  Decremented(t) \in [Tenants -> Nat]
<1>1. CASE t = None
  BY <1>1 DEF Decremented
<1>2. CASE t # None
  <2>1. Decremented(t) = [tenantCount EXCEPT ![t] = IF tenantCount[t] > 0 THEN tenantCount[t] - 1 ELSE 0]
    BY <1>2 DEF Decremented
  <2>2. t \in Tenants => (IF tenantCount[t] > 0 THEN tenantCount[t] - 1 ELSE 0) \in Nat
    OBVIOUS
  <2> QED BY <2>1, <2>2
<1> QED BY <1>1, <1>2

\* Dropping one session from the map and one from its tenant's count.
LEMMA AccountsAfterDrop ==
  ASSUME HttpInv, NEW STATE i, i \in Ids, sessions[i] # None
  PROVE  Accounts([sessions EXCEPT ![i] = None], Decremented(ent[sessions[i]].tenant), ent)
<1> DEFINE e == sessions[i]
           u == ent[e].tenant
           ss == [sessions EXCEPT ![i] = None]
           counts == Decremented(u)
<1>1. /\ sessions \in [Ids -> Entries \cup {None}] /\ e \in Entries /\ u \in Tenants \cup {None}
      /\ tenantCount \in [Tenants -> Nat] /\ None \notin Tenants
      /\ Accounts(sessions, tenantCount, ent)
  BY HttpAssumption DEF HttpInv, HttpTypeOK, SessionEntry
<1>2. \A j \in Ids : ss[j] = IF j = i THEN None ELSE sessions[j]
  BY <1>1
<1>3. \A j \in Ids : ss[j] # None => ent[ss[j]].id = j
  BY <1>1, <1>2 DEF Accounts
<1>4. ASSUME NEW t \in Tenants
      PROVE  /\ counts[t] = Cardinality(RegisteredIn(t, ss, ent))
             /\ Cardinality(RegisteredIn(t, ss, ent)) <= Cardinality(RegisteredIn(t, sessions, ent))
  <2> DEFINE R == RegisteredIn(t, sessions, ent)
  <2>1. IsFiniteSet(R) /\ Cardinality(R) \in Nat /\ tenantCount[t] = Cardinality(R)
    BY <1>1, FiniteRegistered DEF Accounts
  <2>2. CASE t = u
    <3>1. i \in R /\ RegisteredIn(t, ss, ent) = R \ {i}
      BY <1>1, <1>2, <2>2 DEF RegisteredIn
    <3>2. Cardinality(R \ {i}) = Cardinality(R) - 1
      BY <2>1, <3>1, FS_RemoveElement
    <3>3. Cardinality(R \ {i}) \in Nat
      BY <2>1, FS_RemoveElement, FS_CardinalityType
    <3>4. counts[t] = IF tenantCount[t] > 0 THEN tenantCount[t] - 1 ELSE 0
      BY <1>1, <2>2 DEF Decremented
    <3>5. Cardinality(RegisteredIn(t, ss, ent)) = Cardinality(R) - 1
      BY <3>1, <3>2
    <3> HIDE DEF ss, counts
    <3> QED BY <2>1, <3>2, <3>3, <3>4, <3>5
  <2>3. CASE t # u
    <3>1. RegisteredIn(t, ss, ent) = R
      BY <1>1, <1>2, <2>3 DEF RegisteredIn
    <3>2. counts[t] = tenantCount[t]
      BY <1>1, <2>3 DEF Decremented
    <3> QED BY <2>1, <3>1, <3>2
  <2> QED BY <2>2, <2>3
<1>5. TenantLimit > 0 => \A t \in Tenants : Cardinality(RegisteredIn(t, ss, ent)) <= TenantLimit
  <2> SUFFICES ASSUME TenantLimit > 0, NEW t \in Tenants
               PROVE  Cardinality(RegisteredIn(t, ss, ent)) <= TenantLimit
    OBVIOUS
  <2>1. Cardinality(RegisteredIn(t, sessions, ent)) <= TenantLimit
    BY <1>1 DEF Accounts
  <2>2. Cardinality(RegisteredIn(t, ss, ent)) <= Cardinality(RegisteredIn(t, sessions, ent))
    BY <1>4
  <2> HIDE DEF ss
  <2> QED BY <2>1, <2>2, FiniteRegistered, HttpAssumption
<1> QED BY <1>3, <1>4, <1>5 DEF Accounts

\* The checked creation of an entry keeps the accounts.
LEMMA CreateStep ==
  ASSUME HttpInv, NEW c \in Callers, req[c].id \in Ids,
         \A d \in Callers \ {c} : req[d].at # "expiring",
         NEW STATE ss, ss \in [Ids -> Entries \cup {None}], ss[req[c].id] = None,
         NEW STATE counts, counts \in [Tenants -> Nat],
         NEW STATE es, es \in [Entries -> SessionEntry], SameAccounts(ent, es),
         Accounts(ss, counts, es), Create(c, ss, counts, es), UNCHANGED closing
  PROVE  HttpInv'
<1> DEFINE i == req[c].id
           u == req[c].tenant
<1>1. /\ req \in [Callers -> Req] /\ u \in Tenants \cup {None} /\ i \in Ids
      /\ None \notin Tenants /\ None \notin Entries /\ None \notin Ids
      /\ closing' \in [at : {"no", "closing", "done"}, todo : SUBSET Entries]
      /\ sessionsLock' \in Callers \cup {None}
      /\ \A e \in closing.todo : e \in Entries /\ es[e].id \in Ids
  BY HttpAssumption, PoolAssumption DEF HttpInv, HttpTypeOK, Req, Create, ClosingShape, SameAccounts
<1>2. ASSUME sessions' = ss, tenantCount' = counts, ent' = es, req' = [req EXCEPT ![c] = Idle]
      PROVE  HttpInv'
  <2>1. Idle \in Req /\ Idle.at = "idle"
    BY DEF Idle, Req, ReqStage
  <2>2. req' \in [Callers -> Req] /\ HttpShape'
    BY <1>1, <1>2, <2>1 DEF HttpShape, HttpInv
  <2>3. Accounts(sessions', tenantCount', ent')
    BY <1>2
  <2>4. ClosingShape'
    BY <1>1, <1>2 DEF ClosingShape
  <2> QED BY <1>1, <1>2, <2>2, <2>3, <2>4 DEF HttpInv, HttpTypeOK, Accounts, RegisteredIn
<1>3. ASSUME NEW e \in Entries, es[e].id = None, ~OverLimit(u, counts),
             ent' = [es EXCEPT ![e] = [Unborn EXCEPT !.id = i, !.tenant = u]],
             sessions' = [ss EXCEPT ![i] = e],
             req' = [req EXCEPT ![c].at = "queued", ![c].entry = e],
             tenantCount' = IF u = None THEN counts ELSE [counts EXCEPT ![u] = @ + 1]
      PROVE  HttpInv'
  <2>1. /\ [Unborn EXCEPT !.id = i, !.tenant = u] \in SessionEntry
        /\ [Unborn EXCEPT !.id = i, !.tenant = u].id = i
        /\ [Unborn EXCEPT !.id = i, !.tenant = u].tenant = u
    BY <1>1 DEF Unborn, SessionEntry
  <2>2. /\ ent' \in [Entries -> SessionEntry] /\ ent'[e].id = i /\ ent'[e].tenant = u
        /\ \A f \in Entries \ {e} : ent'[f] = es[f]
    BY <1>3, <2>1
  <2>3. /\ sessions' \in [Ids -> Entries \cup {None}]
        /\ \A j \in Ids : sessions'[j] = IF j = i THEN e ELSE ss[j]
    BY <1>1, <1>3
  <2>4. \A j \in Ids : ss[j] # e
    BY <1>1, <1>3 DEF Accounts
  <2>5. tenantCount' \in [Tenants -> Nat]
    BY <1>1, <1>3
  <2>6. \A j \in Ids : sessions'[j] # None => ent'[sessions'[j]].id = j
    <3> SUFFICES ASSUME NEW j \in Ids, sessions'[j] # None PROVE ent'[sessions'[j]].id = j
      OBVIOUS
    <3>1. CASE j = i
      BY <2>2, <2>3, <3>1
    <3>2. CASE j # i
      <4>1. sessions'[j] = ss[j] /\ ss[j] \in Entries \ {e}
        BY <2>3, <2>4, <3>2
      <4> QED BY <2>2, <4>1 DEF Accounts
    <3> QED BY <3>1, <3>2
  <2>7. ASSUME NEW t \in Tenants
        PROVE  /\ tenantCount'[t] = Cardinality(RegisteredIn(t, sessions', ent'))
               /\ TenantLimit > 0 => Cardinality(RegisteredIn(t, sessions', ent')) <= TenantLimit
    <3> DEFINE R == RegisteredIn(t, ss, es)
    <3>1. /\ IsFiniteSet(R) /\ Cardinality(R) \in Nat /\ counts[t] = Cardinality(R)
          /\ TenantLimit > 0 => Cardinality(R) <= TenantLimit
      BY FiniteRegistered DEF Accounts
    <3>2. CASE t = u
      <4>1. RegisteredIn(t, sessions', ent') = R \cup {i} /\ i \notin R
        <5>1. i \notin R
          BY <1>1 DEF RegisteredIn
        <5>2. ASSUME NEW j \in Ids
              PROVE  j \in RegisteredIn(t, sessions', ent') <=> j \in R \cup {i}
          <6>1. CASE j = i
            BY <1>1, <2>2, <2>3, <3>2, <6>1 DEF RegisteredIn
          <6>2. CASE j # i
            <7>1. sessions'[j] = ss[j] /\ (ss[j] # None => ss[j] \in Entries \ {e})
              BY <2>3, <2>4, <6>2
            <7> QED BY <2>2, <6>2, <7>1 DEF RegisteredIn
          <6> QED BY <6>1, <6>2
        <5>3. RegisteredIn(t, sessions', ent') \subseteq Ids /\ R \cup {i} \subseteq Ids
          BY <1>1 DEF RegisteredIn
        <5> QED BY <5>1, <5>2, <5>3
      <4>2. Cardinality(R \cup {i}) = Cardinality(R) + 1
        BY <3>1, <4>1, FS_AddElement
      <4>3. tenantCount'[t] = counts[t] + 1
        BY <1>1, <1>3, <3>2
      <4>4. TenantLimit > 0 => counts[t] < TenantLimit
        BY <1>1, <1>3, <3>2, HttpAssumption DEF OverLimit
      <4> HIDE DEF R
      <4> QED BY <3>1, <4>1, <4>2, <4>3, <4>4, HttpAssumption
    <3>3. CASE t # u
      <4>1. RegisteredIn(t, sessions', ent') = R
        <5>1. ASSUME NEW j \in Ids
              PROVE  j \in RegisteredIn(t, sessions', ent') <=> j \in R
          <6>1. CASE j = i
            BY <1>1, <2>2, <2>3, <3>3, <6>1 DEF RegisteredIn
          <6>2. CASE j # i
            <7>1. sessions'[j] = ss[j] /\ (ss[j] # None => ss[j] \in Entries \ {e})
              BY <2>3, <2>4, <6>2
            <7> QED BY <2>2, <6>2, <7>1 DEF RegisteredIn
          <6> QED BY <6>1, <6>2
        <5>2. RegisteredIn(t, sessions', ent') \subseteq Ids /\ R \subseteq Ids
          BY DEF RegisteredIn
        <5> QED BY <5>1, <5>2
      <4>2. tenantCount'[t] = counts[t]
        BY <1>1, <1>3, <3>3
      <4> QED BY <3>1, <4>1, <4>2
    <3> QED BY <3>2, <3>3
  <2>8. Accounts(sessions, tenantCount, ent)'
    BY <2>6, <2>7 DEF Accounts, RegisteredIn
  <2>9. req' \in [Callers -> Req] /\ HttpShape'
    <3>0. req[c] \in Req /\ [req[c] EXCEPT !.at = "queued"] \in Req
      BY <1>1 DEF Req, ReqStage
    <3>1. [[req[c] EXCEPT !.at = "queued"] EXCEPT !.entry = e] \in Req
      BY <3>0 DEF Req
    <3>2. /\ req' \in [Callers -> Req] /\ req'[c].id = i /\ req'[c].entry = e /\ req'[c].at = "queued"
          /\ \A d \in Callers \ {c} : req'[d] = req[d]
      BY <1>1, <1>3, <3>1 DEF Req
    <3> QED BY <1>1, <3>2 DEF HttpShape, HttpInv
  <2>10. ClosingShape'
    <3>1. \A f \in closing.todo : f # e
      BY <1>1, <1>3
    <3> QED BY <1>1, <2>2, <3>1 DEF ClosingShape
  <2> QED BY <1>1, <2>2, <2>3, <2>5, <2>8, <2>9, <2>10 DEF HttpInv, HttpTypeOK
<1> QED BY <1>2, <1>3 DEF Create

-----------------------------------------------------------------------------
(* Steps of requests that leave the accounts alone. *)

LEMMA StageStep ==
  ASSUME HttpInv, NEW c \in Callers,
         req' \in [Callers -> Req], \A d \in Callers \ {c} : req'[d] = req[d],
         req'[c].at # "expiring",
         req'[c].at \notin {"idle", "closing"} => req'[c].id \in Ids,
         req'[c].at \in {"queued", "tool", "alive", "renew", "fresh", "acquire", "guard", "unguard"}
           => req'[c].entry \in Entries,
         ent' \in [Entries -> SessionEntry],
         \A e \in Entries : ent'[e].id = ent[e].id /\ ent'[e].tenant = ent[e].tenant,
         UNCHANGED <<sessions, tenantCount, sessionsLock>>,
         closing' \in [at : {"no", "closing", "done"}, todo : SUBSET Entries],
         closing'.todo \subseteq closing.todo
  PROVE  HttpInv'
<1>1. HttpShape'
  BY DEF HttpInv, HttpShape
<1>2. HttpTypeOK'
  BY DEF HttpInv, HttpTypeOK
<1>3. Accounts(sessions, tenantCount, ent)'
  <2>1. \A i \in Ids : sessions[i] # None => sessions[i] \in Entries
    BY DEF HttpInv, HttpTypeOK
  <2>2. \A t \in Tenants : RegisteredIn(t, sessions, ent)' = RegisteredIn(t, sessions, ent)
    BY <2>1 DEF RegisteredIn
  <2>3. \A i \in Ids : sessions'[i] # None => ent'[sessions'[i]].id = i
    BY <2>1 DEF Accounts, HttpInv
  <2> QED BY <2>2, <2>3 DEF Accounts, HttpInv
<1>4. ClosingShape'
  BY DEF HttpInv, HttpTypeOK, ClosingShape
<1> QED BY <1>1, <1>2, <1>3, <1>4 DEF HttpInv

\* The end of a tool, from whatever stage it had reached.
LEMMA EndToolStep ==
  ASSUME HttpInv, NEW c \in Callers, req[c].at \notin {"idle", "closing"},
         NEW STATE es, es \in [Entries -> SessionEntry], SameAccounts(ent, es), EndTool(c, es),
         UNCHANGED <<sessions, tenantCount, sessionsLock, closing>>
  PROVE  HttpInv'
<1>1. /\ req \in [Callers -> Req] /\ req[c].id \in Ids /\ req[c] \in Req
  BY DEF HttpInv, HttpTypeOK, HttpShape
<1>2. [[req[c] EXCEPT !.at = "remove"] EXCEPT !.page = None] \in Req
  <2>1. [req[c] EXCEPT !.at = "remove"] \in Req
    BY <1>1 DEF Req, ReqStage
  <2> QED BY <2>1 DEF Req
<1>3. Idle \in Req /\ Idle.at = "idle"
  BY DEF Idle, Req, ReqStage
<1>4. /\ req' \in [Callers -> Req] /\ \A d \in Callers \ {c} : req'[d] = req[d]
      /\ req'[c].at \notin {"idle", "closing"} => req'[c].id \in Ids
      /\ req'[c].at \notin {"queued", "tool", "alive", "renew", "fresh", "acquire", "guard", "unguard", "expiring"}
  <2>1. CASE req[c].id \in OneShot
    <3>1. req' = [req EXCEPT ![c] = [[req[c] EXCEPT !.at = "remove"] EXCEPT !.page = None]]
      BY <2>1 DEF EndTool
    <3>2. /\ [[req[c] EXCEPT !.at = "remove"] EXCEPT !.page = None].at = "remove"
          /\ [[req[c] EXCEPT !.at = "remove"] EXCEPT !.page = None].id = req[c].id
      BY <1>1 DEF Req
    <3> QED BY <1>1, <1>2, <3>1, <3>2
  <2>2. CASE req[c].id \notin OneShot
    BY <1>1, <1>3, <2>2 DEF EndTool
  <2> QED BY <2>1, <2>2
<1>5. /\ ent' \in [Entries -> SessionEntry]
      /\ \A e \in Entries : ent'[e].id = ent[e].id /\ ent'[e].tenant = ent[e].tenant
  <2>1. ASSUME NEW e \in Entries
        PROVE  /\ ent'[e] \in SessionEntry
               /\ ent'[e].id = ent[e].id /\ ent'[e].tenant = ent[e].tenant
    <3>1. es[e] \in SessionEntry /\ es[e].id = ent[e].id /\ es[e].tenant = ent[e].tenant
      BY DEF SameAccounts
    <3>2. ent'[e] = IF es[e].tool = c THEN [es[e] EXCEPT !.tool = None] ELSE es[e]
      BY DEF EndTool
    <3> QED BY <3>1, <3>2 DEF SessionEntry
  <2>2. ent' = [e \in Entries |-> ent'[e]]
    BY DEF EndTool
  <2> QED BY <2>1, <2>2
<1>6. closing' \in [at : {"no", "closing", "done"}, todo : SUBSET Entries] /\ closing' = closing
  BY DEF HttpInv, HttpTypeOK
<1> QED BY <1>4, <1>5, <1>6, StageStep

\* A request that moves on to another stage, with another page or entry perhaps.
LEMMA MoveStep ==
  ASSUME HttpInv, NEW c \in Callers, req[c].at \notin {"idle", "closing"},
         NEW STATE r, r \in Req, req' = [req EXCEPT ![c] = r], r.id = req[c].id,
         r.at # "expiring",
         r.at \in {"queued", "tool", "alive", "renew", "fresh", "acquire", "guard", "unguard"}
           => r.entry \in Entries,
         ent' \in [Entries -> SessionEntry],
         \A e \in Entries : ent'[e].id = ent[e].id /\ ent'[e].tenant = ent[e].tenant,
         UNCHANGED <<sessions, tenantCount, sessionsLock, closing>>
  PROVE  HttpInv'
<1>1. req \in [Callers -> Req] /\ req[c].id \in Ids
  BY DEF HttpInv, HttpTypeOK, HttpShape
<1>2. req' \in [Callers -> Req] /\ req'[c] = r /\ \A d \in Callers \ {c} : req'[d] = req[d]
  BY <1>1
<1>3. closing' \in [at : {"no", "closing", "done"}, todo : SUBSET Entries] /\ closing' = closing
  BY DEF HttpInv, HttpTypeOK
<1> QED BY <1>1, <1>2, <1>3, StageStep

LEMMA WithoutBrowserSame ==
  ASSUME HttpInv, NEW STATE e
  PROVE  WithoutBrowser(e) \in [Entries -> SessionEntry] /\ SameAccounts(ent, WithoutBrowser(e))
<1>1. ent \in [Entries -> SessionEntry]
  BY DEF HttpInv, HttpTypeOK
<1>2. ASSUME NEW f \in Entries
      PROVE  /\ WithoutBrowser(e)[f] \in SessionEntry
             /\ WithoutBrowser(e)[f].id = ent[f].id /\ WithoutBrowser(e)[f].tenant = ent[f].tenant
  <2>1. WithoutBrowser(e)[f] = IF f = e THEN [ent[f] EXCEPT !.browser = None] ELSE ent[f]
    BY <1>1 DEF WithoutBrowser
  <2>2. ent[f] \in SessionEntry
    BY <1>1
  <2> QED BY <2>1, <2>2 DEF SessionEntry
<1>3. WithoutBrowser(e) = [f \in Entries |-> WithoutBrowser(e)[f]]
  BY <1>1 DEF WithoutBrowser
<1> QED BY <1>2, <1>3 DEF SameAccounts

LEMMA EntUnchanged ==
  ASSUME HttpInv, UNCHANGED ent
  PROVE  /\ ent' \in [Entries -> SessionEntry]
         /\ \A e \in Entries : ent'[e].id = ent[e].id /\ ent'[e].tenant = ent[e].tenant
BY DEF HttpInv, HttpTypeOK

LEMMA EntAsIs ==
  ASSUME HttpInv
  PROVE  ent \in [Entries -> SessionEntry] /\ SameAccounts(ent, ent)
BY DEF HttpInv, HttpTypeOK, SameAccounts

-----------------------------------------------------------------------------
(* One lemma per action of a request. *)

LEMMA ArriveStep ==
  ASSUME HttpInv, NEW c \in Callers, NEW i \in Ids, NEW t \in Tenants \cup {None}, Arrive(c, i, t)
  PROVE  HttpInv'
<1> DEFINE e == sessions[i]
<1>1. e \in Entries \cup {None} /\ req \in [Callers -> Req]
  BY DEF HttpInv, HttpTypeOK
<1>2. PICK r \in Req :
        /\ req' = [req EXCEPT ![c] = r] /\ r.id = i
        /\ r.at = "lookup" \/ (r.at = "queued" /\ r.entry \in Entries)
  <2>1. CASE e # None /\ ~ent[e].expired
    <3> DEFINE r == [at |-> "queued", id |-> i, tenant |-> t, entry |-> e, page |-> None]
    <3>1. req' = [req EXCEPT ![c] = r]
      BY <2>1 DEF Arrive
    <3>2. r \in Req
      BY <1>1 DEF Req, ReqStage
    <3> QED BY <1>1, <2>1, <3>1, <3>2
  <2>2. CASE ~(e # None /\ ~ent[e].expired)
    <3> DEFINE r == [at |-> "lookup", id |-> i, tenant |-> t, entry |-> None, page |-> None]
    <3>1. req' = [req EXCEPT ![c] = r]
      BY <2>2 DEF Arrive
    <3>2. r \in Req
      BY DEF Req, ReqStage
    <3> QED BY <3>1, <3>2
  <2> QED BY <2>1, <2>2
<1>3. req' \in [Callers -> Req] /\ req'[c] = r /\ \A d \in Callers \ {c} : req'[d] = req[d]
  BY <1>1, <1>2
<1>4. /\ UNCHANGED <<sessions, tenantCount, sessionsLock, ent, closing>>
      /\ ent' \in [Entries -> SessionEntry]
      /\ closing' \in [at : {"no", "closing", "done"}, todo : SUBSET Entries]
  BY DEF Arrive, HttpInv, HttpTypeOK
<1> QED BY <1>2, <1>3, <1>4, StageStep

LEMMA ExpireStep ==
  ASSUME HttpInv, NEW e \in Entries, Expire(e)
  PROVE  HttpInv'
<1>1. /\ ent \in [Entries -> SessionEntry] /\ ent' = [ent EXCEPT ![e].expired = TRUE]
      /\ UNCHANGED <<sessions, tenantCount, sessionsLock, req, closing>>
  BY DEF Expire, HttpInv, HttpTypeOK
<1>2. ent' \in [Entries -> SessionEntry]
      /\ \A f \in Entries : ent'[f].id = ent[f].id /\ ent'[f].tenant = ent[f].tenant
  BY <1>1 DEF SessionEntry
<1>3. HttpTypeOK' /\ HttpShape'
  BY <1>1, <1>2 DEF HttpInv, HttpTypeOK, HttpShape
<1>5. ClosingShape'
  BY <1>1, <1>2 DEF HttpInv, HttpTypeOK, ClosingShape
<1>4. Accounts(sessions, tenantCount, ent)'
  <2>1. \A i \in Ids : sessions[i] # None => sessions[i] \in Entries
    BY DEF HttpInv, HttpTypeOK
  <2>2. \A t \in Tenants : RegisteredIn(t, sessions, ent)' = RegisteredIn(t, sessions, ent)
    BY <1>1, <1>2, <2>1 DEF RegisteredIn
  <2>3. \A i \in Ids : sessions'[i] # None => ent'[sessions'[i]].id = i
    BY <1>1, <1>2, <2>1 DEF Accounts, HttpInv
  <2> QED BY <1>1, <2>2, <2>3 DEF Accounts, HttpInv
<1> QED BY <1>3, <1>4, <1>5 DEF HttpInv

\* Nobody else is expiring a session when the lock is free or held by c.
LEMMA AloneUnderLock ==
  ASSUME HttpInv, NEW c \in Callers, sessionsLock \in {None, c}
  PROVE  \A d \in Callers \ {c} : req[d].at # "expiring"
BY PoolAssumption DEF HttpInv, HttpShape

\* The slow path: return the entry, create one, or drop the expired one first.
LEMMA LookupSlowStep ==
  ASSUME HttpInv, NEW c \in Callers, LookupSlow(c)
  PROVE  HttpInv'
<1> DEFINE i == req[c].id
           e == sessions[i]
<1>1. /\ req[c].at = "lookup" /\ sessionsLock = None /\ UNCHANGED closing
      /\ i \in Ids /\ req[c] \in Req /\ e \in Entries \cup {None}
      /\ sessions \in [Ids -> Entries \cup {None}] /\ tenantCount \in [Tenants -> Nat]
      /\ ent \in [Entries -> SessionEntry] /\ req \in [Callers -> Req]
  BY DEF LookupSlow, At, HttpInv, HttpTypeOK, HttpShape
<1>2. \A d \in Callers \ {c} : req[d].at # "expiring"
  BY <1>1, AloneUnderLock
<1>3. CASE /\ e # None
           /\ req' = [req EXCEPT ![c].at = "queued", ![c].entry = e]
           /\ UNCHANGED <<sessions, tenantCount, sessionsLock, ent>>
  <2> DEFINE r == [[req[c] EXCEPT !.at = "queued"] EXCEPT !.entry = e]
  <2>1. [req[c] EXCEPT !.at = "queued"] \in Req
    BY <1>1 DEF Req, ReqStage
  <2>2. r \in Req /\ r.at = "queued" /\ r.entry = e /\ r.id = req[c].id
    BY <1>1, <2>1 DEF Req
  <2>3. req' = [req EXCEPT ![c] = r]
    BY <1>1, <1>3
  <2> HIDE DEF r
  <2> QED BY <1>1, <1>3, <2>2, <2>3, MoveStep
<1>4. CASE e = None /\ Create(c, sessions, tenantCount, ent)
  BY <1>1, <1>2, <1>4, EntAsIs, CreateStep DEF HttpInv
<1>5. CASE e # None /\ Create(c, [sessions EXCEPT ![i] = None], Decremented(ent[e].tenant), WithoutBrowser(e))
  <2> DEFINE ss == [sessions EXCEPT ![i] = None]
             counts == Decremented(ent[e].tenant)
             es == WithoutBrowser(e)
  <2>1. ss \in [Ids -> Entries \cup {None}] /\ ss[i] = None
    BY <1>1
  <2>2. counts \in [Tenants -> Nat]
    BY <1>1, DecrementedType
  <2>3. es \in [Entries -> SessionEntry] /\ SameAccounts(ent, es)
    BY WithoutBrowserSame
  <2>4. Accounts(ss, counts, ent)
    BY <1>1, <1>5, AccountsAfterDrop
  <2>5. Create(c, ss, counts, es)
    BY <1>5
  <2> HIDE DEF ss, counts, es
  <2>6. Accounts(ss, counts, es)
    BY <2>1, <2>3, <2>4, AccountsOfSame
  <2> QED BY <1>1, <1>2, <2>1, <2>2, <2>3, <2>5, <2>6, CreateStep
<1>6. CASE /\ e # None
           /\ sessions' = [sessions EXCEPT ![i] = None]
           /\ tenantCount' = Decremented(ent[e].tenant)
           /\ sessionsLock' = c
           /\ req' = [req EXCEPT ![c].at = "expiring", ![c].entry = e]
           /\ UNCHANGED ent
  <2>1. [req[c] EXCEPT !.at = "expiring"] \in Req
    BY <1>1 DEF Req, ReqStage
  <2>2. /\ [[req[c] EXCEPT !.at = "expiring"] EXCEPT !.entry = e] \in Req
        /\ [[req[c] EXCEPT !.at = "expiring"] EXCEPT !.entry = e].at = "expiring"
        /\ [[req[c] EXCEPT !.at = "expiring"] EXCEPT !.entry = e].id = i
    BY <1>1, <2>1 DEF Req
  <2>3. /\ req' \in [Callers -> Req] /\ req'[c].at = "expiring" /\ req'[c].id = i
        /\ \A d \in Callers \ {c} : req'[d] = req[d]
    BY <1>1, <1>6, <2>2
  <2>4. sessions' \in [Ids -> Entries \cup {None}] /\ sessions'[i] = None
    BY <1>1, <1>6
  <2>5. tenantCount' \in [Tenants -> Nat]
    BY <1>1, <1>6, DecrementedType
  <2>6. HttpShape'
    BY <1>1, <1>2, <1>6, <2>3, <2>4 DEF HttpShape, HttpInv
  <2>7. HttpTypeOK'
    BY <1>1, <1>6, <2>3, <2>4, <2>5 DEF HttpInv, HttpTypeOK
  <2>8. Accounts(sessions, tenantCount, ent)'
    <3>1. Accounts([sessions EXCEPT ![i] = None], Decremented(ent[e].tenant), ent)
      BY <1>1, <1>6, AccountsAfterDrop
    <3> QED BY <1>6, <3>1 DEF Accounts, RegisteredIn
  <2>9. ClosingShape'
    BY <1>1, <1>6 DEF ClosingShape, HttpInv
  <2> QED BY <2>6, <2>7, <2>8, <2>9 DEF HttpInv
<1> QED BY <1>3, <1>4, <1>5, <1>6 DEF LookupSlow

LEMMA ExpireDoneStep ==
  ASSUME HttpInv, NEW c \in Callers, ExpireDone(c)
  PROVE  HttpInv'
<1> DEFINE es == WithoutBrowser(req[c].entry)
<1>1. /\ req[c].at = "expiring" /\ req[c].id \in Ids /\ sessionsLock = c
      /\ sessions[req[c].id] = None /\ UNCHANGED closing
      /\ sessions \in [Ids -> Entries \cup {None}] /\ tenantCount \in [Tenants -> Nat]
      /\ Create(c, sessions, tenantCount, es)
  BY DEF ExpireDone, At, HttpInv, HttpTypeOK, HttpShape
<1>2. \A d \in Callers \ {c} : req[d].at # "expiring"
  BY <1>1, AloneUnderLock
<1>3. es \in [Entries -> SessionEntry] /\ SameAccounts(ent, es)
  BY WithoutBrowserSame
<1> HIDE DEF es
<1>4. Accounts(sessions, tenantCount, es)
  BY <1>1, <1>3, AccountsOfSame DEF HttpInv
<1> QED BY <1>1, <1>2, <1>3, <1>4, CreateStep

-----------------------------------------------------------------------------
(* The tool and get_session(). *)

ToolStages == {"queued", "tool", "alive", "renew", "fresh", "acquire", "guard", "unguard"}

\* A tool moves from one stage to another, with another page perhaps.
LEMMA ToolStageStep ==
  ASSUME HttpInv, NEW c \in Callers, req[c].at \in ToolStages, NEW stage \in ToolStages,
         NEW STATE s, s \in Sessions \cup {None},
         \/ Goto(c, stage)
         \/ req' = [req EXCEPT ![c].at = stage, ![c].page = s],
         ent' \in [Entries -> SessionEntry],
         \A e \in Entries : ent'[e].id = ent[e].id /\ ent'[e].tenant = ent[e].tenant,
         UNCHANGED <<sessions, tenantCount, sessionsLock, closing>>
  PROVE  HttpInv'
<1> DEFINE r1 == [req[c] EXCEPT !.at = stage]
           r2 == [r1 EXCEPT !.page = s]
<1>1. req[c] \in Req /\ req[c].entry \in Entries /\ req[c].at \notin {"idle", "closing"}
  BY DEF HttpInv, HttpTypeOK, HttpShape, ToolStages
<1>2. r1 \in Req /\ r1.at = stage /\ r1.entry = req[c].entry /\ r1.id = req[c].id
  BY <1>1 DEF Req, ReqStage, ToolStages
<1>3. r2 \in Req /\ r2.at = stage /\ r2.entry = req[c].entry /\ r2.id = req[c].id
  BY <1>2 DEF Req
<1>4. stage # "expiring"
  BY DEF ToolStages
<1>5. CASE req' = [req EXCEPT ![c] = r1]
  <2> HIDE DEF r1
  <2> QED BY <1>1, <1>2, <1>4, <1>5, MoveStep
<1>6. CASE req' = [req EXCEPT ![c] = r2]
  <2> HIDE DEF r1, r2
  <2> QED BY <1>1, <1>3, <1>4, <1>6, MoveStep
<1> QED BY <1>5, <1>6 DEF Goto

LEMMA TakeToolLockStep ==
  ASSUME HttpInv, NEW c \in Callers, TakeToolLock(c)
  PROVE  HttpInv'
<1>1. /\ req[c].at = "queued" /\ req[c].entry \in Entries /\ ent \in [Entries -> SessionEntry]
      /\ ent' = [ent EXCEPT ![req[c].entry].tool = c] /\ Goto(c, "tool")
      /\ UNCHANGED <<sessions, tenantCount, sessionsLock, closing>>
  BY DEF TakeToolLock, At, HttpInv, HttpTypeOK, HttpShape
<1>2. /\ ent' \in [Entries -> SessionEntry]
      /\ \A e \in Entries : ent'[e].id = ent[e].id /\ ent'[e].tenant = ent[e].tenant
  BY <1>1 DEF SessionEntry
<1>3. "queued" \in ToolStages /\ "tool" \in ToolStages
  BY DEF ToolStages
<1> QED BY <1>1, <1>2, <1>3, ToolStageStep

LEMMA GetSessionStep ==
  ASSUME HttpInv, NEW c \in Callers, GetSession(c)
  PROVE  HttpInv'
<1>1. PICK s \in Sessions \cup {None} : s = ent[req[c].entry].browser
  <2>1. req[c].entry \in Entries
    BY DEF GetSession, At, HttpInv, HttpShape
  <2> QED BY <2>1 DEF HttpInv, HttpTypeOK, SessionEntry
<1>2. PICK stage \in {"fresh", "alive"} : req' = [req EXCEPT ![c].at = stage, ![c].page = s]
  BY <1>1 DEF GetSession
<1>3. /\ req[c].at \in ToolStages /\ stage \in ToolStages
      /\ UNCHANGED <<sessions, tenantCount, sessionsLock, ent, closing>>
  BY DEF GetSession, At, ToolStages
<1> QED BY <1>2, <1>3, EntUnchanged, ToolStageStep

\* What Renewed, EndTool and a plain move of stage do, from any stage of a tool.
LEMMA ToolGoesOn ==
  ASSUME HttpInv, NEW c \in Callers, req[c].at \in ToolStages,
         UNCHANGED <<sessions, tenantCount, sessionsLock, closing>>,
         \/ \E why \in {"dead", "recycle"} : Renewed(c, why)
         \/ EndTool(c, ent)
         \/ \E stage \in ToolStages : Goto(c, stage) /\ UNCHANGED ent
  PROVE  HttpInv'
<1>1. req[c].at \notin {"idle", "closing"} /\ "fresh" \in ToolStages
  BY DEF ToolStages
<1>2. ASSUME NEW why \in {"dead", "recycle"}, Renewed(c, why)
      PROVE  HttpInv'
  <2> DEFINE es == WithoutBrowser(req[c].entry)
  <2>1. es \in [Entries -> SessionEntry] /\ SameAccounts(ent, es)
    BY WithoutBrowserSame
  <2>2. CASE EndTool(c, es)
    <3> HIDE DEF es
    <3> QED BY <1>1, <2>1, <2>2, EndToolStep
  <2>3. CASE req' = [req EXCEPT ![c].at = "fresh", ![c].page = None] /\ ent' = es
    <3>1. ent' \in [Entries -> SessionEntry]
          /\ \A e \in Entries : ent'[e].id = ent[e].id /\ ent'[e].tenant = ent[e].tenant
      BY <2>1, <2>3 DEF SameAccounts
    <3>2. PICK s \in Sessions \cup {None} : req' = [req EXCEPT ![c].at = "fresh", ![c].page = s]
      BY <2>3
    <3> HIDE DEF es
    <3> QED BY <1>1, <3>1, <3>2, ToolStageStep
  <2> QED BY <1>2, <2>2, <2>3 DEF Renewed
<1>3. CASE EndTool(c, ent)
  BY <1>1, <1>3, EntAsIs, EndToolStep
<1>4. ASSUME NEW stage \in ToolStages, Goto(c, stage), UNCHANGED ent
      PROVE  HttpInv'
  <2>1. PICK s \in Sessions \cup {None} : s = None
    OBVIOUS
  <2> QED BY <1>4, EntUnchanged, ToolStageStep
<1> QED BY <1>2, <1>3, <1>4

LEMMA ReturnStep ==
  ASSUME HttpInv, NEW c \in Callers, Return(c)
  PROVE  HttpInv'
BY ToolGoesOn DEF Return, At, ToolStages

LEMMA AliveCheckedStep ==
  ASSUME HttpInv, NEW c \in Callers, AliveChecked(c)
  PROVE  HttpInv'
<1>1. /\ req[c].at = "alive" /\ req[c].at \in ToolStages /\ req[c].entry \in Entries
      /\ UNCHANGED <<sessions, tenantCount, sessionsLock, closing>>
  BY DEF AliveChecked, At, HttpInv, HttpShape, ToolStages
<1>2. ASSUME NEW why \in {"dead", "recycle"}, Renewed(c, why)
      PROVE  HttpInv'
  BY <1>1, <1>2, ToolGoesOn
<1>3. ASSUME Goto(c, "renew"), UNCHANGED ent
      PROVE  HttpInv'
  BY <1>1, <1>3, ToolGoesOn DEF ToolStages
<1>4. CASE EndTool(c, ent)
  BY <1>1, <1>4, ToolGoesOn
<1>5. ASSUME req' = [req EXCEPT ![c].at = "tool", ![c].page = ent[req[c].entry].browser], UNCHANGED ent
      PROVE  HttpInv'
  <2>1. PICK s \in Sessions \cup {None} : s = ent[req[c].entry].browser
    BY <1>1 DEF HttpInv, HttpTypeOK, SessionEntry
  <2>2. req' = [req EXCEPT ![c].at = "tool", ![c].page = s]
    BY <1>5, <2>1
  <2>3. "tool" \in ToolStages
    BY DEF ToolStages
  <2> QED BY <1>1, <1>5, <2>2, <2>3, EntUnchanged, ToolStageStep
<1> QED BY <1>2, <1>3, <1>4, <1>5 DEF AliveChecked

LEMMA RenewDoneStep ==
  ASSUME HttpInv, NEW c \in Callers, RenewDone(c)
  PROVE  HttpInv'
BY ToolGoesOn DEF RenewDone, At, ToolStages

LEMMA AcquireStep ==
  ASSUME HttpInv, NEW c \in Callers, Acquire(c)
  PROVE  HttpInv'
<1>1. /\ req[c].at \in ToolStages /\ "acquire" \in ToolStages /\ "guard" \in ToolStages
      /\ UNCHANGED <<sessions, tenantCount, sessionsLock, closing>>
      /\ AfterAcquire(c)
  BY DEF Acquire, At, ToolStages
<1> QED BY <1>1, ToolGoesOn DEF AfterAcquire

LEMMA GuardOkStep ==
  ASSUME HttpInv, PoolTypeOK, NEW c \in Callers, GuardOk(c)
  PROVE  HttpInv'
<1>1. PICK s \in Sessions \cup {None} : s = call[c].sess
  BY DEF PoolTypeOK, Call
<1>2. /\ req[c].at \in ToolStages /\ "tool" \in ToolStages /\ req[c].entry \in Entries
      /\ ent' = [ent EXCEPT ![req[c].entry].browser = s]
      /\ req' = [req EXCEPT ![c].at = "tool", ![c].page = s]
      /\ UNCHANGED <<sessions, tenantCount, sessionsLock, closing>>
      /\ ent \in [Entries -> SessionEntry]
  BY <1>1 DEF GuardOk, At, HttpInv, HttpTypeOK, HttpShape, ToolStages
<1>3. /\ ent' \in [Entries -> SessionEntry]
      /\ \A e \in Entries : ent'[e].id = ent[e].id /\ ent'[e].tenant = ent[e].tenant
  BY <1>2 DEF SessionEntry
<1> QED BY <1>2, <1>3, ToolStageStep

LEMMA GuardFailStep ==
  ASSUME HttpInv, NEW c \in Callers, GuardFail(c)
  PROVE  HttpInv'
<1>1. /\ req[c].at \in ToolStages /\ "unguard" \in ToolStages
      /\ UNCHANGED <<sessions, tenantCount, sessionsLock, closing>>
      /\ EndTool(c, ent) \/ (Goto(c, "unguard") /\ UNCHANGED ent)
  BY DEF GuardFail, At, ToolStages
<1> QED BY <1>1, ToolGoesOn

LEMMA UnguardDoneStep ==
  ASSUME HttpInv, NEW c \in Callers, UnguardDone(c)
  PROVE  HttpInv'
BY ToolGoesOn DEF UnguardDone, At, ToolStages

LEMMA TimeOutStep ==
  ASSUME HttpInv, NEW c \in Callers, TimeOut(c)
  PROVE  HttpInv'
<1>1. /\ req[c].at \in ToolStages /\ EndTool(c, ent)
      /\ UNCHANGED <<sessions, tenantCount, sessionsLock, closing>>
  BY DEF TimeOut, ToolStages
<1> QED BY <1>1, ToolGoesOn

-----------------------------------------------------------------------------
(* remove_session and shutdown. *)

\* A request that is over.
LEMMA IdleStep ==
  ASSUME HttpInv, NEW c \in Callers, req' = [req EXCEPT ![c] = Idle]
  PROVE  /\ req' \in [Callers -> Req] /\ req'[c].at = "idle"
         /\ \A d \in Callers \ {c} : req'[d] = req[d]
<1>1. req \in [Callers -> Req]
  BY DEF HttpInv, HttpTypeOK
<1>2. Idle \in Req /\ Idle.at = "idle"
  BY DEF Idle, Req, ReqStage
<1> QED BY <1>1, <1>2

LEMMA RemoveStep ==
  ASSUME HttpInv, NEW c \in Callers, Remove(c)
  PROVE  HttpInv'
<1> DEFINE i == req[c].id
           e == sessions[i]
<1>1. /\ req[c].at = "remove" /\ sessionsLock = None /\ UNCHANGED <<sessionsLock, closing>>
      /\ i \in Ids /\ req[c] \in Req /\ e \in Entries \cup {None}
      /\ sessions \in [Ids -> Entries \cup {None}] /\ tenantCount \in [Tenants -> Nat]
      /\ ent \in [Entries -> SessionEntry] /\ req \in [Callers -> Req]
      /\ closing \in [at : {"no", "closing", "done"}, todo : SUBSET Entries]
  BY DEF Remove, At, HttpInv, HttpTypeOK, HttpShape
<1>2. CASE e = None
  <2>1. /\ req' = [req EXCEPT ![c] = Idle]
        /\ UNCHANGED <<sessions, tenantCount, sessionsLock, closing, ent>>
    BY <1>1, <1>2 DEF Remove
  <2> QED BY <1>1, <2>1, IdleStep, EntUnchanged, StageStep
<1>3. CASE e # None
  <2>1. PICK r \in Req : req' = [req EXCEPT ![c] = r] /\ r.at \in {"idle", "removing"} /\ r.id \in Ids \cup {None}
                         /\ (r.at = "removing" => r.id = i)
    <3>1. CASE req' = [req EXCEPT ![c] = Idle]
      <4>1. Idle \in Req /\ Idle.at = "idle" /\ Idle.id = None
        BY DEF Idle, Req, ReqStage
      <4> QED BY <3>1, <4>1
    <3>2. CASE req' = [req EXCEPT ![c].at = "removing", ![c].entry = e]
      <4>1. [req[c] EXCEPT !.at = "removing"] \in Req
        BY <1>1 DEF Req, ReqStage
      <4>2. /\ [[req[c] EXCEPT !.at = "removing"] EXCEPT !.entry = e] \in Req
            /\ [[req[c] EXCEPT !.at = "removing"] EXCEPT !.entry = e].at = "removing"
            /\ [[req[c] EXCEPT !.at = "removing"] EXCEPT !.entry = e].id = i
        BY <1>1, <4>1 DEF Req
      <4> QED BY <1>1, <3>2, <4>2
    <3> QED BY <1>3, <3>1, <3>2 DEF Remove
  <2>2. req' \in [Callers -> Req] /\ req'[c] = r /\ \A d \in Callers \ {c} : req'[d] = req[d]
    BY <1>1, <2>1
  <2>3. \A d \in Callers : req[d].at # "expiring"
    BY <1>1, PoolAssumption DEF HttpInv, HttpShape
  <2>4. HttpShape'
    BY <1>1, <2>1, <2>2, <2>3 DEF HttpShape, HttpInv
  <2>5. ent' \in [Entries -> SessionEntry] /\ SameAccounts(ent, ent')
    <3>1. ent' = ent \/ ent' = WithoutBrowser(e)
      BY <1>3 DEF Remove
    <3> QED BY <3>1, EntAsIs, WithoutBrowserSame
  <2>6. /\ sessions' = [sessions EXCEPT ![i] = None]
        /\ tenantCount' = Decremented(ent[e].tenant)
    BY <1>3 DEF Remove
  <2>7. sessions' \in [Ids -> Entries \cup {None}] /\ tenantCount' \in [Tenants -> Nat]
    BY <1>1, <2>6, DecrementedType
  <2>8. Accounts(sessions', tenantCount', ent)
    <3>1. Accounts([sessions EXCEPT ![i] = None], Decremented(ent[e].tenant), ent)
      BY <1>1, <1>3, AccountsAfterDrop
    <3> QED BY <2>6, <3>1
  <2>9. Accounts(sessions', tenantCount', ent')
    BY <2>5, <2>7, <2>8, AccountsOfSame
  <2>10. ClosingShape'
    BY <1>1, <2>5 DEF ClosingShape, HttpInv, SameAccounts
  <2>11. HttpTypeOK'
    BY <1>1, <2>2, <2>5, <2>7 DEF HttpTypeOK, HttpInv
  <2> QED BY <2>4, <2>9, <2>10, <2>11 DEF HttpInv, Accounts, RegisteredIn
<1> QED BY <1>2, <1>3

LEMMA RemoveDoneStep ==
  ASSUME HttpInv, NEW c \in Callers, RemoveDone(c)
  PROVE  HttpInv'
<1>1. /\ ent' = WithoutBrowser(req[c].entry) /\ req' = [req EXCEPT ![c] = Idle]
      /\ UNCHANGED <<sessions, tenantCount, sessionsLock, closing>>
      /\ closing \in [at : {"no", "closing", "done"}, todo : SUBSET Entries]
  BY DEF RemoveDone, HttpInv, HttpTypeOK
<1>2. /\ ent' \in [Entries -> SessionEntry]
      /\ \A e \in Entries : ent'[e].id = ent[e].id /\ ent'[e].tenant = ent[e].tenant
  BY <1>1, WithoutBrowserSame DEF SameAccounts
<1> QED BY <1>1, <1>2, IdleStep, StageStep

LEMMA CloseBeginStep ==
  ASSUME HttpInv, NEW c \in Callers, CloseBegin(c)
  PROVE  HttpInv'
<1>1. /\ req[c].at = "idle" /\ sessionsLock = None
      /\ closing' = [at |-> "closing", todo |-> {sessions[i] : i \in {j \in Ids : sessions[j] # None}}]
      /\ sessions' = [i \in Ids |-> None] /\ tenantCount' = [t \in Tenants |-> 0]
      /\ req' = [req EXCEPT ![c].at = "closing"] /\ UNCHANGED <<sessionsLock, ent>>
      /\ req[c] \in Req /\ req \in [Callers -> Req] /\ sessions \in [Ids -> Entries \cup {None}]
      /\ sessionsLock \in Callers \cup {None} /\ ent \in [Entries -> SessionEntry]
  BY DEF CloseBegin, At, Goto, HttpInv, HttpTypeOK
<1>2. closing'.todo \subseteq Entries /\ closing' \in [at : {"no", "closing", "done"}, todo : SUBSET Entries]
  BY <1>1
<1>3. ClosingShape'
  BY <1>1 DEF HttpInv, Accounts, ClosingShape
<1>4. [req[c] EXCEPT !.at = "closing"] \in Req /\ [req[c] EXCEPT !.at = "closing"].at = "closing"
  BY <1>1 DEF Req, ReqStage
<1>5. req' \in [Callers -> Req] /\ req'[c].at = "closing" /\ \A d \in Callers \ {c} : req'[d] = req[d]
  BY <1>1, <1>4
<1>6. \A d \in Callers : req[d].at # "expiring"
  BY <1>1, PoolAssumption DEF HttpInv, HttpShape
<1>7. HttpShape'
  BY <1>5, <1>6 DEF HttpShape, HttpInv
<1>8. HttpTypeOK'
  BY <1>1, <1>2, <1>5 DEF HttpTypeOK
<1>9. Accounts(sessions, tenantCount, ent)'
  <2>1. \A t \in Tenants : RegisteredIn(t, sessions, ent)' = {}
    BY <1>1 DEF RegisteredIn
  <2>2. Cardinality({}) = 0
    BY FS_EmptySet
  <2>3. \A t \in Tenants : Cardinality(RegisteredIn(t, sessions', ent')) = 0 /\ tenantCount'[t] = 0
    BY <1>1, <2>1, <2>2 DEF RegisteredIn
  <2>4. \A i \in Ids : sessions'[i] = None
    BY <1>1
  <2> QED BY <2>3, <2>4, HttpAssumption DEF Accounts, RegisteredIn
<1> QED BY <1>3, <1>7, <1>8, <1>9 DEF HttpInv

LEMMA CloseNextStep ==
  ASSUME HttpInv, NEW c \in Callers, CloseNext(c)
  PROVE  HttpInv'
<1>1. /\ req[c].at = "closing" /\ UNCHANGED <<sessions, tenantCount, sessionsLock>>
      /\ req[c] \in Req /\ req \in [Callers -> Req]
      /\ closing \in [at : {"no", "closing", "done"}, todo : SUBSET Entries]
  BY DEF CloseNext, At, HttpInv, HttpTypeOK
<1>2. /\ closing' \in [at : {"no", "closing", "done"}, todo : SUBSET Entries]
      /\ closing'.todo \subseteq closing.todo
  BY <1>1 DEF CloseNext
<1>3. /\ ent' \in [Entries -> SessionEntry]
      /\ \A e \in Entries : ent'[e].id = ent[e].id /\ ent'[e].tenant = ent[e].tenant
  <2>1. ent' = ent \/ \E e \in Entries : ent' = WithoutBrowser(e)
    BY <1>1 DEF CloseNext
  <2> QED BY <2>1, EntUnchanged, WithoutBrowserSame DEF SameAccounts
<1>4. /\ req' \in [Callers -> Req] /\ \A d \in Callers \ {c} : req'[d] = req[d]
      /\ req'[c].at \in {"idle", "closing"}
  <2>1. CASE req' = [req EXCEPT ![c] = Idle]
    BY <2>1, IdleStep
  <2>2. ASSUME NEW e \in Entries, req' = [req EXCEPT ![c].entry = e]
        PROVE  /\ req' \in [Callers -> Req] /\ \A d \in Callers \ {c} : req'[d] = req[d]
               /\ req'[c].at \in {"idle", "closing"}
    <3>1. [req[c] EXCEPT !.entry = e] \in Req /\ [req[c] EXCEPT !.entry = e].at = "closing"
      BY <1>1 DEF Req
    <3> QED BY <1>1, <2>2, <3>1
  <2>3. CASE req' = req
    BY <1>1, <2>3
  <2>4. req' = req \/ req' = [req EXCEPT ![c] = Idle] \/ \E e \in Entries : req' = [req EXCEPT ![c].entry = e]
    BY <1>1 DEF CloseNext
  <2> QED BY <2>1, <2>2, <2>3, <2>4
<1> QED BY <1>1, <1>2, <1>3, <1>4, StageStep

LEMMA CloseReleasedStep ==
  ASSUME HttpInv, NEW c \in Callers, CloseReleased(c)
  PROVE  HttpInv'
<1>1. /\ req[c].at = "closing" /\ ent' = WithoutBrowser(req[c].entry)
      /\ UNCHANGED <<sessions, tenantCount, sessionsLock, req, closing>>
      /\ req \in [Callers -> Req]
      /\ closing \in [at : {"no", "closing", "done"}, todo : SUBSET Entries]
  BY DEF CloseReleased, At, HttpInv, HttpTypeOK
<1>2. /\ ent' \in [Entries -> SessionEntry]
      /\ \A e \in Entries : ent'[e].id = ent[e].id /\ ent'[e].tenant = ent[e].tenant
  BY <1>1, WithoutBrowserSame DEF SameAccounts
<1> QED BY <1>1, <1>2, StageStep

-----------------------------------------------------------------------------
(* The induction. *)

LEMMA InitHttpInv == HttpInit => HttpInv
<1> SUFFICES ASSUME HttpInit PROVE HttpInv
  OBVIOUS
<1>1. HttpTypeOK
  BY DEF HttpInit, HttpTypeOK, Idle, Unborn, Req, ReqStage, SessionEntry
<1>2. HttpShape /\ ClosingShape
  BY DEF HttpInit, HttpShape, ClosingShape, Idle
<1>3. Accounts(sessions, tenantCount, ent)
  <2>1. \A t \in Tenants : RegisteredIn(t, sessions, ent) = {}
    BY DEF HttpInit, RegisteredIn
  <2>2. Cardinality({}) = 0
    BY FS_EmptySet
  <2> QED BY <2>1, <2>2, HttpAssumption DEF HttpInit, Accounts
<1> QED BY <1>1, <1>2, <1>3 DEF HttpInv

LEMMA NextHttpInv == HttpInv /\ PoolTypeOK /\ [HttpNext]_httpVars => HttpInv'
<1> SUFFICES ASSUME HttpInv, PoolTypeOK, [HttpNext]_httpVars PROVE HttpInv'
  OBVIOUS
<1>1. CASE UNCHANGED hvars
  BY <1>1 DEF hvars, HttpInv, HttpTypeOK, HttpShape, ClosingShape, Accounts, RegisteredIn
<1>2. ASSUME NEW c \in Callers, Lookup(c) PROVE HttpInv'
  BY <1>2, ArriveStep, LookupSlowStep, ExpireDoneStep DEF Lookup
<1>3. ASSUME NEW c \in Callers, Tool(c) PROVE HttpInv'
  BY <1>3, TakeToolLockStep, ReturnStep, GetSessionStep, AliveCheckedStep, RenewDoneStep, AcquireStep,
     GuardOkStep, GuardFailStep, UnguardDoneStep, TimeOutStep DEF Tool
<1>4. ASSUME NEW c \in Callers, Teardown(c) PROVE HttpInv'
  BY <1>4, RemoveStep, RemoveDoneStep, CloseBeginStep, CloseNextStep, CloseReleasedStep DEF Teardown
<1> QED BY <1>1, <1>2, <1>3, <1>4, ExpireStep DEF HttpNext, PoolBackground, httpVars

\* Every step of the manager is a step of the pool or leaves it alone.
LEMMA StepImplementsPool == HttpInv /\ [HttpNext]_httpVars => [PoolNext]_pvars
<1> SUFFICES ASSUME HttpInv, [HttpNext]_httpVars PROVE PoolNext \/ UNCHANGED pvars
  OBVIOUS
<1>1. ASSUME NEW c \in Callers, Proceed(c) PROVE PoolNext
  BY <1>1 DEF PoolNext
<1>2. ASSUME NEW c \in Callers, NEW i \in Ids, ReleaseBegin(c, i) \/ Begin(c, "acquire", i) PROVE PoolNext
  BY <1>2 DEF PoolNext
<1>3. ASSUME NEW c \in Callers, Lookup(c) PROVE PoolNext \/ UNCHANGED pvars
  <2>1. CASE \E i \in Ids, t \in Tenants \cup {None} : Arrive(c, i, t)
    BY <2>1 DEF Arrive
  <2>2. CASE LookupSlow(c)
    <3>1. req[c].id \in Ids
      BY <2>2 DEF LookupSlow, At, HttpInv, HttpShape
    <3> QED BY <1>2, <2>2, <3>1 DEF LookupSlow
  <2>3. CASE ExpireDone(c)
    BY <1>1, <2>3 DEF ExpireDone, Proceed
  <2> QED BY <1>3, <2>1, <2>2, <2>3 DEF Lookup
<1>4. ASSUME NEW c \in Callers, Tool(c) PROVE PoolNext \/ UNCHANGED pvars
  <2>1. CASE TakeToolLock(c) \/ Return(c) \/ GetSession(c) \/ GuardOk(c)
    BY <2>1 DEF TakeToolLock, Return, GetSession, GuardOk
  <2>2. CASE AliveChecked(c) \/ GuardFail(c)
    <3>1. req[c].id \in Ids
      BY <2>2 DEF AliveChecked, GuardFail, At, HttpInv, HttpShape
    <3> QED BY <1>2, <2>2, <3>1 DEF AliveChecked, GuardFail
  <2>3. CASE RenewDone(c) \/ UnguardDone(c)
    BY <1>1, <2>3 DEF RenewDone, UnguardDone, Proceed
  <2>4. CASE Acquire(c)
    <3>1. req[c].id \in Ids
      BY <2>4 DEF Acquire, At, HttpInv, HttpShape
    <3> QED BY <1>1, <1>2, <2>4, <3>1 DEF Acquire, Proceed
  <2>5. CASE TimeOut(c)
    BY <1>1, <2>5 DEF TimeOut, Proceed
  <2> QED BY <1>4, <2>1, <2>2, <2>3, <2>4, <2>5 DEF Tool
<1>5. ASSUME NEW c \in Callers, Teardown(c) PROVE PoolNext \/ UNCHANGED pvars
  <2>1. CASE Remove(c)
    <3>1. req[c].id \in Ids
      BY <2>1 DEF Remove, At, HttpInv, HttpShape
    <3> QED BY <1>2, <2>1, <3>1 DEF Remove
  <2>2. CASE RemoveDone(c) \/ CloseReleased(c)
    BY <1>1, <2>2 DEF RemoveDone, CloseReleased, Proceed
  <2>3. CASE CloseBegin(c)
    BY <2>3 DEF CloseBegin
  <2>4. CASE CloseNext(c)
    <3>1. \A e \in closing.todo : ent[e].id \in Ids
      BY DEF HttpInv, ClosingShape
    <3> QED BY <1>2, <2>4, <3>1 DEF CloseNext
  <2> QED BY <1>5, <2>1, <2>2, <2>3, <2>4 DEF Teardown
<1>6. ASSUME NEW e \in Entries, Expire(e) PROVE UNCHANGED pvars
  BY <1>6 DEF Expire
<1>7. CASE PoolBackground
  BY <1>7 DEF PoolBackground, PoolNext
<1>8. CASE UNCHANGED httpVars
  BY <1>8 DEF httpVars
<1> QED BY <1>3, <1>4, <1>5, <1>6, <1>7, <1>8 DEF HttpNext

LEMMA HttpInvariant == HttpSpec => [](HttpInv /\ SlotInv)
<1>1. HttpInit => HttpInv /\ SlotInv
  BY InitHttpInv, InitSlotInv DEF HttpInit
<1>2. HttpInv /\ SlotInv /\ [HttpNext]_httpVars => (HttpInv /\ SlotInv)'
  <2>1. SlotInv => PoolTypeOK
    BY DEF SlotInv
  <2> QED BY <2>1, NextHttpInv, NextSlotInv, StepImplementsPool
<1> QED BY <1>1, <1>2, PTL DEF HttpSpec

-----------------------------------------------------------------------------

\* HttpSessionManager implements BrowserPool: whatever its requests, expiries, timeouts,
\* removals and shutdown do to the pool, the pool could do by itself.
THEOREM ManagerImplementsPool == HttpSpec => PoolSpec
<1>1. HttpInit => PoolInit
  BY DEF HttpInit
<1> QED BY <1>1, HttpInvariant, StepImplementsPool, PTL DEF HttpSpec, PoolSpec

\* Every variable of the manager keeps its type.
THEOREM HttpTypeCorrect == HttpSpec => []HttpTypeOK
<1>1. HttpInv => HttpTypeOK
  BY DEF HttpInv
<1> QED BY <1>1, HttpInvariant, PTL

\* The tenant counters are exact: _tenant_session_counts is the number of registered
\* sessions of each tenant in every state.
THEOREM TenantCountsAreExact == HttpSpec => []TenantCountExact
<1>1. HttpInv => TenantCountExact
  BY DEF HttpInv, Accounts, RegisteredIn, TenantCountExact, Registered
<1> QED BY <1>1, HttpInvariant, PTL

\* MAX_SESSIONS_PER_TENANT holds of the sessions themselves, not only of the counters.
THEOREM TenantLimitHolds == HttpSpec => []TenantWithinLimit
<1>1. HttpInv => TenantWithinLimit
  BY DEF HttpInv, Accounts, RegisteredIn, TenantWithinLimit, Registered
<1> QED BY <1>1, HttpInvariant, PTL

\* However requests use the pool, through timeouts and cancelled starts too, no slot is
\* freed twice.
THEOREM ManagerNeverInflates == HttpSpec => []NoInflation
<1> QED BY ManagerImplementsPool, PoolNeverInflates, PTL

\* Nor does a slot lie idle while a request queues for it: whoever times out, fails to start
\* or expires, the semaphore hands the slot on.
THEOREM ManagerServesTheQueue == HttpSpec => []NobodyWaitsForAFreeSlot
<1> QED BY ManagerImplementsPool, PoolServesTheQueue, PTL

-----------------------------------------------------------------------------
(***************************************************************************)
(* One tool per browser.                                                    *)
(***************************************************************************)

(* What the pool's steps do to a session somebody refers to: a started session stays      *)
(* started, and its entry keeps its id or loses it for good.                              *)
PoolKeeps ==
  \A s \in Sessions : Begun(s) => Begun(s)' /\ entry'[s].id \in {entry[s].id, None}

LEMMA QuietKeeps ==
  ASSUME UNCHANGED pvars
  PROVE  PoolKeeps /\ \A d \in Callers : SameTask(d)
BY DEF pvars, PoolKeeps, Begun, SameTask

LEMMA ReleaseBeginKeeps ==
  ASSUME SlotInv, NEW c \in Callers, NEW i \in Ids, ReleaseBegin(c, i)
  PROVE  PoolKeeps /\ SameOthers(c)
<1>1. PoolKeeps
  BY DEF ReleaseBegin, PoolKeeps, Begun
<1>2. \A d \in Callers \ {c} : call'[d] = call[d]
  BY DEF ReleaseBegin, SlotInv, PoolTypeOK
<1> QED BY <1>1, <1>2 DEF SameOthers, SameTask

LEMMA ReleaseDoneKeeps ==
  ASSUME SlotInv, NEW c \in Callers, ReleaseDone(c)
  PROVE  PoolKeeps /\ SameOthers(c) /\ call'[c].at = "idle"
<1>1. call[c].sess \in Sessions /\ AfterStop(call[c].sess, [call EXCEPT ![c] = Returned(None)])
  BY DEF ReleaseDone, SlotInv, Shape
<1>2. call'[c].at = "idle" /\ SameOthers(c)
  BY <1>1, EndsByStop
<1>3. PoolKeeps
  BY <1>1 DEF AfterStop, PoolKeeps, Begun, NoEntry, SlotInv, PoolTypeOK
<1> QED BY <1>2, <1>3

LEMMA CancelReleaseKeeps ==
  ASSUME SlotInv, NEW c \in Callers, CancelRelease(c)
  PROVE  PoolKeeps /\ SameOthers(c)
<1>1. SameOthers(c)
  BY EndsQuietly DEF CancelRelease
<1>2. PoolKeeps
  BY DEF CancelRelease, PoolKeeps, Begun, NoEntry, SlotInv, PoolTypeOK, Shape
<1> QED BY <1>1, <1>2

\* A start that does not succeed ends the call without a session.
LEMMA StartEndsKeeps ==
  ASSUME SlotInv, OwnInv, NEW c \in Callers, StartFail(c) \/ CancelStart(c) \/ GiveUp(c)
  PROVE  PoolKeeps /\ SameOthers(c)
<1>a. /\ bs \in [Sessions -> {"unborn", "starting", "live", "partial", "closed"}]
      /\ waiters \in Seq(Callers) /\ sem \in Nat /\ Without(waiters, c) \in Seq(Callers)
      /\ call[c].at = "starting" => call[c].sess \in Sessions /\ bs[call[c].sess] = "starting"
      /\ call[c].at # "idle" => call[c].id \in Ids
  BY PoolAssumption, WithoutType DEF OwnInv, Owners, SlotInv, PoolTypeOK, Shape
<1>1. CASE StartFail(c)
  <2>1. SameOthers(c)
    BY <1>1, EndsBySlot DEF StartFail
  <2>2. entry' = entry \/ (call[c].id \in Ids /\ entry' = TouchById(call[c].id))
    BY <1>a, <1>1 DEF StartFail
  <2>3. PoolKeeps
    BY <1>a, <1>1, <2>2, TouchKeeps DEF StartFail, PoolKeeps, Begun
  <2> QED BY <2>1, <2>3
<1>2. CASE CancelStart(c)
  <2>1. SameOthers(c)
    <3>1. CASE call[c].op = "session"
      BY <1>2, <3>1, EndsBySlot DEF CancelStart
    <3>2. CASE call[c].op # "session"
      BY <1>2, <3>2, EndsQuietly DEF CancelStart
    <3> QED BY <3>1, <3>2
  <2>2. entry' = entry \/ (call[c].id \in Ids /\ entry' = TouchById(call[c].id))
    BY <1>a, <1>2 DEF CancelStart
  <2>3. PoolKeeps
    BY <1>a, <1>2, <2>2, TouchKeeps DEF CancelStart, PoolKeeps, Begun
  <2> QED BY <2>1, <2>3
<1>3. CASE GiveUp(c)
  <2>1. CASE call[c].at = "granted"
    <3>1. sem + 1 \in Nat \ {0}
      BY <1>a
    <3>2. SameOthers(c)
      BY <1>3, <1>a, <2>1, <3>1, EndsByWake DEF GiveUp
    <3> QED BY <1>3, <3>2 DEF GiveUp, PoolKeeps, Begun
  <2>2. CASE call[c].at = "waiting"
    <3>1. SameOthers(c)
      BY <1>3, <2>2, EndsQuietly DEF GiveUp
    <3> QED BY <1>3, <3>1 DEF GiveUp, PoolKeeps, Begun
  <2> QED BY <1>3, <2>1, <2>2 DEF GiveUp
<1> QED BY <1>1, <1>2, <1>3

\* What acquire() hands out is a started session whose entry has the id: one stored before,
\* or one that no one can have referred to.  Until then the call is an acquire() of the id.
Hands(c, i) ==
  /\ call'[c].at = "idle" /\ call'[c].sess # None =>
       /\ call'[c].sess \in Sessions
       /\ Begun(call'[c].sess) => entry[call'[c].sess].id = i
       /\ bs'[call'[c].sess] \notin {"unborn", "starting"}
       /\ entry'[call'[c].sess].id = i
  /\ call'[c].at # "idle" => call'[c].op = "acquire" /\ call'[c].id = i

LEMMA WithSlotHands ==
  ASSUME SlotInv, OwnInv, NEW c \in Callers, NEW i \in Ids,
         NEW STATE cl, LikeCall(cl, c), NEW STATE w, w \in Seq(Callers), NEW STATE v, v \in Nat,
         WithSlot(c, "acquire", i, cl, w, v)
  PROVE  PoolKeeps /\ SameOthers(c) /\ Hands(c, i)
<1>a. /\ contexts \in [Ids -> Sessions \cup {None}] /\ cl \in [Callers -> Call] /\ Owners
      /\ bs \in [Sessions -> {"unborn", "starting", "live", "partial", "closed"}]
  BY DEF OwnInv, SlotInv, PoolTypeOK, LikeCall
<1>m. SlotMoves(c, "acquire", i)
  BY WithSlotMoves
<1>1. PoolKeeps /\ SameOthers(c)
  BY <1>a, <1>m DEF SlotMoves, PoolKeeps, Begun
<1>2. CASE contexts[i] # None
  <2>1. PICK s \in Sessions : s = contexts[i]
    BY <1>2, <1>a
  <2>2. call' = [cl EXCEPT ![c] = Returned(s)] /\ bs' = bs
    BY <1>2, <2>1 DEF WithSlot
  <2>3. call'[c].sess = s /\ call'[c].at = "idle"
    BY <1>a, <2>2 DEF Returned
  <2>4. Begun(s) /\ entry[s].id = i
    BY <1>a, <1>2, <2>1 DEF Owners, OwnId, Stored
  <2>5. entry'[s].id = i
    BY <1>m, <2>4 DEF SlotMoves
  <2> QED BY <1>1, <2>2, <2>3, <2>4, <2>5 DEF Hands, Begun
<1>3. CASE contexts[i] = None
  <2>1. CASE Wake([cl EXCEPT ![c] = Returned(None)], w, v + 1)
    <3> DEFINE ce == [cl EXCEPT ![c] = Returned(None)]
    <3>1. ce \in [Callers -> Call] /\ ce[c].at = "idle" /\ ce[c].sess = None
      BY <1>a, ReturnedType DEF Returned
    <3>2. Wake(ce, w, v + 1) /\ v + 1 \in Nat \ {0}
      BY <2>1
    <3> HIDE DEF ce
    <3>3. call'[c] = ce[c] \/ Woken(ce, c)
      BY <3>1, <3>2, WakeCounts
    <3>4. call'[c].sess = None /\ call'[c].at = "idle"
      BY <3>1, <3>3 DEF Woken
    <3> QED BY <1>1, <3>4 DEF Hands
  <2>2. CASE \E s \in Sessions :
               call' = [cl EXCEPT ![c] = [op |-> "acquire", id |-> i, at |-> "starting", sess |-> s]]
    BY <1>1, <1>a, <2>2 DEF Hands
  <2> QED BY <1>3, <2>1, <2>2 DEF WithSlot
<1> QED BY <1>2, <1>3

LEMMA BeginHands ==
  ASSUME SlotInv, OwnInv, NEW c \in Callers, NEW i \in Ids, Begin(c, "acquire", i)
  PROVE  PoolKeeps /\ SameOthers(c) /\ Hands(c, i)
<1>a. sem \in Nat /\ waiters \in Seq(Callers) /\ call \in [Callers -> Call]
  BY PoolAssumption DEF SlotInv, PoolTypeOK
<1>1. CASE ~Locked /\ WithSlot(c, "acquire", i, call, waiters, sem - 1)
  <2>1. sem - 1 \in Nat /\ LikeCall(call, c)
    BY <1>1, <1>a, LikeItself DEF Locked
  <2> QED BY <1>1, <1>a, <2>1, WithSlotHands
<1>2. CASE /\ call' = [call EXCEPT ![c] = [op |-> "acquire", id |-> i, at |-> "waiting", sess |-> None]]
           /\ UNCHANGED <<sem, available, entry, bs>>
  BY <1>2, <1>a DEF PoolKeeps, Begun, SameOthers, SameTask, Hands
<1> QED BY <1>1, <1>2 DEF Begin

LEMMA ResumeHands ==
  ASSUME SlotInv, OwnInv, NEW c \in Callers, Resume(c), call[c].op = "acquire"
  PROVE  PoolKeeps /\ SameOthers(c) /\ Hands(c, call[c].id)
<1>1. Without(waiters, c) \in Seq(Callers) /\ call[c].id \in Ids
  BY WithoutType DEF Resume, SlotInv, PoolTypeOK, Shape
<1>2. PICK cl \in [Callers -> Call], v \in Nat :
        LikeCall(cl, c) /\ WithSlot(c, "acquire", call[c].id, cl, Without(waiters, c), v)
  BY ResumeTakes
<1> QED BY <1>1, <1>2, WithSlotHands

LEMMA StartOkHands ==
  ASSUME SlotInv, OwnInv, NEW c \in Callers, StartOk(c), call[c].op = "acquire"
  PROVE  PoolKeeps /\ SameOthers(c) /\ Hands(c, call[c].id)
<1>1. PICK s \in Sessions, i \in Ids : s = call[c].sess /\ i = call[c].id
  BY DEF StartOk, SlotInv, Shape
<1>2. /\ entry' = [entry EXCEPT ![s] = [id |-> i, holds |-> TRUE, idle |-> FALSE]]
      /\ bs' = [bs EXCEPT ![s] = "live"]
      /\ call' = [call EXCEPT ![c] = Returned(s)]
  BY <1>1 DEF StartOk
<1>3. call[c].at = "starting" /\ bs[s] = "starting"
  BY <1>1 DEF StartOk, OwnInv, Owners
<1>4. SameOthers(c) /\ call'[c].sess = s /\ call'[c].at = "idle"
  BY <1>2, EndsQuietly DEF Returned, SlotInv, PoolTypeOK
<1>5. PoolKeeps
  BY <1>2, <1>3 DEF PoolKeeps, Begun, SlotInv, PoolTypeOK
<1>6. ~Begun(s) /\ bs'[s] = "live" /\ entry'[s].id = i
  BY <1>2, <1>3 DEF Begun, SlotInv, PoolTypeOK
<1> QED BY <1>1, <1>4, <1>5, <1>6 DEF Hands

\* The pool's own tasks.
LEMMA BackgroundKeeps ==
  ASSUME SlotInv, OwnInv, Background
  PROVE  PoolKeeps /\ \A d \in Callers : SameTask(d)
<1>a. /\ Owners /\ entry \in [Sessions -> Entry] /\ call \in [Callers -> Call]
      /\ contexts \in [Ids -> Sessions \cup {None}]
      /\ bs \in [Sessions -> {"unborn", "starting", "live", "partial", "closed"}]
  BY DEF OwnInv, SlotInv, PoolTypeOK
<1>1. ASSUME NEW i \in Ids, Age(i) PROVE PoolKeeps /\ \A d \in Callers : SameTask(d)
  <2>1. PICK s \in Sessions : s = contexts[i]
    BY <1>a, <1>1 DEF Age
  <2>2. entry' = [entry EXCEPT ![s].idle = TRUE] /\ UNCHANGED <<bs, call>>
    BY <1>1, <2>1 DEF Age
  <2> QED BY <1>a, <2>2 DEF PoolKeeps, Begun, SameTask, Entry
<1>2. CASE ReaperWake
  BY <1>2 DEF ReaperWake, PoolKeeps, Begun, SameTask
<1>3. CASE ReaperStopped
  <2>1. AfterStop(reaper.sess, call) /\ reaper.sess \in Sessions
    BY <1>3 DEF ReaperStopped, SlotInv, Shape
  <2>2. \A d \in Callers : SameTask(d)
    BY <2>1, ReaperStopTasks
  <2>3. PoolKeeps
    BY <1>a, <2>1 DEF AfterStop, NoEntry, PoolKeeps, Begun
  <2> QED BY <2>2, <2>3
<1>4. CASE BrowserCrash \/ ShutdownBrowserClosed
  <2>1. UNCHANGED <<entry, call>> /\ bs' = Die(bs)
    BY <1>4 DEF BrowserCrash, ShutdownBrowserClosed
  <2> QED BY <2>1, DieKeeps DEF PoolKeeps, Begun, SameTask
<1>5. CASE ShutdownBegin
  <2>1. call' = call
    BY <1>5 DEF ShutdownBegin
  <2>2. CASE reaper.at = "stopping"
    <3>1. /\ entry' = [entry EXCEPT ![reaper.sess] = NoEntry]
          /\ bs' \in {[bs EXCEPT ![reaper.sess] = "closed"],
                      [bs EXCEPT ![reaper.sess] = IF @ = "live" THEN "partial" ELSE @]}
      BY <1>5, <2>2 DEF ShutdownBegin
    <3> QED BY <1>a, <2>1, <3>1 DEF NoEntry, PoolKeeps, Begun, SameTask
  <2>3. CASE reaper.at # "stopping"
    BY <1>5, <2>1, <2>3 DEF ShutdownBegin, PoolKeeps, Begun, SameTask
  <2> QED BY <2>2, <2>3
<1>6. CASE ShutdownSnapshot
  BY <1>6 DEF ShutdownSnapshot, PoolKeeps, Begun, SameTask
<1>7. CASE ShutdownStopped
  BY <1>a, <1>7 DEF ShutdownStopped, PoolKeeps, Begun, SameTask
<1> QED BY <1>1, <1>2, <1>3, <1>4, <1>5, <1>6, <1>7 DEF Background

\* A failed start and a wait given up hand nothing out.
LEMMA EndsEmpty ==
  ASSUME SlotInv, NEW c \in Callers, StartFail(c) \/ GiveUp(c)
  PROVE  call'[c].sess = None
<1> DEFINE cl == [call EXCEPT ![c] = Returned(None)]
<1>1. /\ call \in [Callers -> Call] /\ sem + 1 \in Nat \ {0} /\ waiters \in Seq(Callers)
      /\ Without(waiters, c) \in Seq(Callers)
  BY PoolAssumption, WithoutType DEF SlotInv, PoolTypeOK
<1>2. cl \in [Callers -> Call] /\ cl[c].at = "idle" /\ cl[c].sess = None
  BY <1>1, ReturnedType DEF Returned
<1>3. call' = cl \/ \E w \in Seq(Callers) : Wake(cl, w, sem + 1)
  BY <1>1 DEF StartFail, GiveUp, GiveSlotBack
<1> HIDE DEF cl
<1>4. call'[c] = cl[c] \/ Woken(cl, c)
  BY <1>1, <1>2, <1>3, WakeCounts
<1> QED BY <1>2, <1>4 DEF Woken

-----------------------------------------------------------------------------
(* The invariant: while no session has outlived its TTL and the manager is not closing, a  *)
(* request works on the entry registered under its id and under that entry's lock, and a   *)
(* browser that an entry or a request refers to is, or was, stored in the pool under the    *)
(* id of that entry or request, which is the same for all.                                  *)

Young == closing.at = "no" /\ \A e \in Entries : ~ent[e].expired

AgedAreBorn == \A e \in Entries : ent[e].expired => ent[e].id # None

Registers ==
  \A c \in Callers :
    /\ req[c].at \notin {"expiring", "closing"}
    /\ req[c].at \in ToolStages => sessions[req[c].id] = req[c].entry
    /\ req[c].at \in ToolStages \ {"queued"} => ent[req[c].entry].tool = c
    /\ req[c].at \in {"remove", "removing"} => req[c].id \in OneShot
    /\ \A d \in Callers \ {c} : req[d].id = req[c].id => req[c].id \notin OneShot

AtPool ==
  \A c \in Callers :
    /\ req[c].at = "acquire" => call[c].op = "acquire" /\ call[c].id = req[c].id
    /\ req[c].at = "guard" => call[c].at = "idle"

Refers(s, i) ==
  \/ \E e \in Entries : ent[e].browser = s /\ ent[e].id = i
  \/ \E c \in Callers : req[c].page = s /\ req[c].id = i
  \/ \E c \in Callers : req[c].at = "guard" /\ call[c].sess = s /\ req[c].id = i

OneId ==
  \A s \in Sessions, i \in Ids : Refers(s, i) =>
    /\ Begun(s) /\ entry[s].id \in {i, None}
    /\ \A j \in Ids : Refers(s, j) => i = j

UseInv == AgedAreBorn /\ (Young => Registers /\ AtPool /\ OneId)

\* A session that acquire() has just handed out.
Taken(s, i) == /\ Begun(s) => entry[s].id = i
               /\ Begun(s)' /\ entry'[s].id = i

LEMMA OneIdKept ==
  ASSUME OneId, PoolKeeps,
         \A s \in Sessions, i \in Ids : Refers(s, i)' => Refers(s, i) \/ Taken(s, i)
  PROVE  OneId'
<1> SUFFICES ASSUME NEW s \in Sessions, NEW i \in Ids, Refers(s, i)'
             PROVE  /\ Begun(s)' /\ entry'[s].id \in {i, None}
                    /\ \A j \in Ids : Refers(s, j)' => i = j
  BY DEF OneId
<1>1. ASSUME NEW j \in Ids, Refers(s, j)'
      PROVE  Begun(s)' /\ entry'[s].id \in {j, None} /\ (Begun(s) => entry[s].id \in {j, None})
  BY <1>1 DEF OneId, PoolKeeps, Taken
<1>2. ASSUME NEW j \in Ids, Refers(s, j)' PROVE i = j
  <2>1. Refers(s, i) \/ Taken(s, i)
    OBVIOUS
  <2>2. Refers(s, j) \/ Taken(s, j)
    BY <1>2
  <2>3. CASE Refers(s, i) /\ Refers(s, j)
    BY <2>3 DEF OneId
  <2>4. CASE Refers(s, i) /\ Taken(s, j)
    <3>1. Begun(s) /\ entry[s].id \in {i, None} /\ entry[s].id = j
      BY <2>4 DEF OneId, Taken
    <3> QED BY <3>1, PoolAssumption
  <2>5. CASE Taken(s, i) /\ Refers(s, j)
    <3>1. Begun(s) /\ entry[s].id \in {j, None} /\ entry[s].id = i
      BY <2>5 DEF OneId, Taken
    <3> QED BY <3>1, PoolAssumption
  <2>6. CASE Taken(s, i) /\ Taken(s, j)
    BY <2>6 DEF Taken
  <2> QED BY <2>1, <2>2, <2>3, <2>4, <2>5, <2>6
<1> QED BY <1>1, <1>2

\* What a step of c must not touch for the registration to stay in order, and what it owes.
LEMMA RegistersKept ==
  ASSUME Registers, NEW c \in Callers, \A d \in Callers \ {c} : req'[d] = req[d],
         \A d \in Callers \ {c} : /\ req[d].at \in ToolStages => sessions'[req[d].id] = sessions[req[d].id]
                                  /\ req[d].at \in ToolStages \ {"queued"}
                                       => ent'[req[d].entry].tool = ent[req[d].entry].tool,
         req'[c].at \notin {"expiring", "closing"},
         req'[c].at \in ToolStages => sessions'[req'[c].id] = req'[c].entry,
         req'[c].at \in ToolStages \ {"queued"} => ent'[req'[c].entry].tool = c,
         req'[c].at \in {"remove", "removing"} => req'[c].id \in OneShot,
         \/ req'[c].id \in {req[c].id, None}
         \/ req'[c].id \in OneShot => \A d \in Callers : req[d].id # req'[c].id
  PROVE  Registers'
<1>1. None \notin OneShot
  BY PoolAssumption, HttpAssumption
<1>2. ASSUME NEW d \in Callers \ {c} PROVE req'[d].id = req'[c].id => req'[c].id \notin OneShot
  BY <1>1 DEF Registers
<1>3. ASSUME NEW b \in Callers
      PROVE  /\ req'[b].at \notin {"expiring", "closing"}
             /\ req'[b].at \in ToolStages => sessions'[req'[b].id] = req'[b].entry
             /\ req'[b].at \in ToolStages \ {"queued"} => ent'[req'[b].entry].tool = b
             /\ req'[b].at \in {"remove", "removing"} => req'[b].id \in OneShot
  BY DEF Registers
<1>4. ASSUME NEW b \in Callers, NEW d \in Callers \ {b}, req'[d].id = req'[b].id
      PROVE  req'[b].id \notin OneShot
  <2>1. CASE b = c
    BY <1>2, <1>4, <2>1
  <2>2. CASE d = c
    BY <1>2, <1>4, <2>2
  <2>3. CASE b # c /\ d # c
    BY <1>4, <2>3 DEF Registers
  <2> QED BY <2>1, <2>2, <2>3
<1> QED BY <1>3, <1>4 DEF Registers

\* A step of c in which no other call of the pool changes its kind.
LEMMA AtPoolKept ==
  ASSUME AtPool, NEW c \in Callers, \A d \in Callers \ {c} : req'[d] = req[d], SameOthers(c),
         req'[c].at = "acquire" => call'[c].op = "acquire" /\ call'[c].id = req'[c].id,
         req'[c].at = "guard" => call'[c].at = "idle"
  PROVE  AtPool'
<1>1. ASSUME NEW d \in Callers \ {c}
      PROVE  /\ req'[d].at = "acquire" => call'[d].op = "acquire" /\ call'[d].id = req'[d].id
             /\ req'[d].at = "guard" => call'[d].at = "idle"
  BY DEF AtPool, SameOthers, SameTask
<1> QED BY <1>1 DEF AtPool

\* Where a step of c may take a browser it refers to from: its own request, its entry, or
\* the pool.
LEMMA RefersKept ==
  ASSUME HttpInv, NEW c \in Callers, \A d \in Callers \ {c} : req'[d] = req[d], SameOthers(c),
         \A e \in Entries :
           \/ ent'[e].browser = None
           \/ /\ ent'[e].id = ent[e].id
              /\ \/ ent'[e].browser = ent[e].browser
                 \/ ent[e].id = req[c].id /\ req[c].at = "guard" /\ ent'[e].browser = call[c].sess,
         \/ req'[c].page = None
         \/ /\ req'[c].id = req[c].id
            /\ \/ req'[c].page = req[c].page
               \/ req[c].at = "guard" /\ req'[c].page = call[c].sess
               \/ \E e \in Entries : ent[e].id = req[c].id /\ req'[c].page = ent[e].browser,
         \A s \in Sessions, i \in Ids : req'[c].at = "guard" /\ call'[c].sess = s /\ req'[c].id = i => Taken(s, i)
  PROVE  \A s \in Sessions, i \in Ids : Refers(s, i)' => Refers(s, i) \/ Taken(s, i)
<1> SUFFICES ASSUME NEW s \in Sessions, NEW i \in Ids, Refers(s, i)' PROVE Refers(s, i) \/ Taken(s, i)
  OBVIOUS
<1>0. s # None
  BY PoolAssumption
<1>1. ASSUME NEW e \in Entries, ent'[e].browser = s, ent'[e].id = i PROVE Refers(s, i)
  BY <1>0, <1>1 DEF Refers
<1>2. ASSUME req'[c].page = s, req'[c].id = i PROVE Refers(s, i)
  BY <1>0, <1>2 DEF Refers
<1>3. ASSUME NEW d \in Callers \ {c}, req'[d].page = s, req'[d].id = i PROVE Refers(s, i)
  BY <1>3 DEF Refers
<1>4. ASSUME NEW d \in Callers \ {c}, req'[d].at = "guard", call'[d].sess = s, req'[d].id = i PROVE Refers(s, i)
  BY <1>4 DEF Refers, SameOthers, SameTask
<1> QED BY <1>1, <1>2, <1>3, <1>4 DEF Refers

\* Nothing grows younger.
LEMMA AgeKept ==
  ASSUME UseInv, closing'.at = "no" => closing.at = "no",
         \A e \in Entries : \/ ent'[e].id = ent[e].id /\ (ent'[e].expired <=> ent[e].expired)
                            \/ ent[e].id = None /\ ~ent'[e].expired,
         Young => Registers' /\ AtPool' /\ OneId'
  PROVE  UseInv'
<1>1. AgedAreBorn'
  BY DEF UseInv, AgedAreBorn
<1>2. Young' => Young
  BY DEF UseInv, AgedAreBorn, Young
<1> QED BY <1>1, <1>2 DEF UseInv

\* Entries as they are, but for browsers that are dropped.
Fewer(es) ==
  \A e \in Entries : /\ es[e].id = ent[e].id /\ es[e].tool = ent[e].tool
                     /\ es[e].expired <=> ent[e].expired
                     /\ es[e].browser \in {ent[e].browser, None}

LEMMA WithoutBrowserFewer ==
  ASSUME HttpInv, NEW STATE x
  PROVE  Fewer(WithoutBrowser(x)) /\ Fewer(ent)
<1>1. ent \in [Entries -> SessionEntry]
  BY DEF HttpInv, HttpTypeOK
<1>2. ASSUME NEW e \in Entries
      PROVE  /\ WithoutBrowser(x)[e].id = ent[e].id /\ WithoutBrowser(x)[e].tool = ent[e].tool
             /\ WithoutBrowser(x)[e].expired <=> ent[e].expired
             /\ WithoutBrowser(x)[e].browser \in {ent[e].browser, None}
  <2>1. WithoutBrowser(x)[e] = IF e = x THEN [ent[e] EXCEPT !.browser = None] ELSE ent[e]
    BY <1>1 DEF WithoutBrowser
  <2>2. ent[e] \in SessionEntry
    BY <1>1
  <2> QED BY <2>1, <2>2 DEF SessionEntry
<1>3. Fewer(ent)
  BY DEF Fewer
<1> QED BY <1>2, <1>3 DEF Fewer

\* What a tool that ends leaves of its request and of its lock.
LEMMA EndToolUse ==
  ASSUME HttpInv, NEW c \in Callers, req[c].at \in ToolStages,
         NEW STATE es, es \in [Entries -> SessionEntry], Fewer(es), EndTool(c, es)
  PROVE  /\ \A d \in Callers \ {c} : req'[d] = req[d]
         /\ req'[c].at \in {"idle", "remove"} /\ req'[c].page = None /\ req'[c].id \in {req[c].id, None}
         /\ req'[c].at = "remove" => req'[c].id \in OneShot
         /\ \A e \in Entries : /\ ent'[e].id = ent[e].id
                               /\ ent'[e].expired <=> ent[e].expired
                               /\ ent'[e].browser \in {ent[e].browser, None}
                               /\ ent[e].tool # c => ent'[e].tool = ent[e].tool
<1>1. req \in [Callers -> Req] /\ req[c] \in Req
  BY DEF HttpInv, HttpTypeOK
<1>2. ASSUME NEW e \in Entries
      PROVE  /\ ent'[e].id = ent[e].id
             /\ ent'[e].expired <=> ent[e].expired
             /\ ent'[e].browser \in {ent[e].browser, None}
             /\ ent[e].tool # c => ent'[e].tool = ent[e].tool
  <2>1. /\ es[e] \in SessionEntry
        /\ es[e].id = ent[e].id /\ es[e].tool = ent[e].tool
        /\ es[e].expired <=> ent[e].expired
        /\ es[e].browser \in {ent[e].browser, None}
    BY DEF Fewer
  <2>2. ent'[e] = IF es[e].tool = c THEN [es[e] EXCEPT !.tool = None] ELSE es[e]
    BY DEF EndTool
  <2> QED BY <2>1, <2>2 DEF SessionEntry
<1>3. CASE req[c].id \in OneShot
  <2>1. req' = [req EXCEPT ![c] = [[req[c] EXCEPT !.at = "remove"] EXCEPT !.page = None]]
    BY <1>3 DEF EndTool
  <2>2. [req[c] EXCEPT !.at = "remove"] \in Req /\ [req[c] EXCEPT !.at = "remove"].id = req[c].id
    BY <1>1 DEF Req, ReqStage
  <2>3. /\ [[req[c] EXCEPT !.at = "remove"] EXCEPT !.page = None].at = "remove"
        /\ [[req[c] EXCEPT !.at = "remove"] EXCEPT !.page = None].page = None
        /\ [[req[c] EXCEPT !.at = "remove"] EXCEPT !.page = None].id = req[c].id
    BY <1>1, <2>2 DEF Req
  <2> QED BY <1>1, <1>2, <1>3, <2>1, <2>3
<1>4. CASE req[c].id \notin OneShot
  BY <1>1, <1>2, <1>4 DEF EndTool, Idle
<1> QED BY <1>3, <1>4

LEMMA ToolEndsUse ==
  ASSUME HttpInv, UseInv, NEW c \in Callers, req[c].at \in ToolStages,
         NEW STATE es, es \in [Entries -> SessionEntry], Fewer(es), EndTool(c, es),
         UNCHANGED <<sessions, closing>>, PoolKeeps, SameOthers(c)
  PROVE  UseInv'
<1>1. /\ \A d \in Callers \ {c} : req'[d] = req[d]
      /\ req'[c].at \in {"idle", "remove"} /\ req'[c].page = None /\ req'[c].id \in {req[c].id, None}
      /\ req'[c].at = "remove" => req'[c].id \in OneShot
      /\ \A e \in Entries : /\ ent'[e].id = ent[e].id
                            /\ ent'[e].expired <=> ent[e].expired
                            /\ ent'[e].browser \in {ent[e].browser, None}
                            /\ ent[e].tool # c => ent'[e].tool = ent[e].tool
  BY EndToolUse
<1>2. ASSUME Young PROVE Registers' /\ AtPool' /\ OneId'
  <2>1. Registers /\ AtPool /\ OneId
    BY <1>2 DEF UseInv
  <2>2. \A d \in Callers \ {c} : req[d].at \in ToolStages \ {"queued"}
                                   => req[d].entry \in Entries /\ ent[req[d].entry].tool = d
    BY <2>1 DEF Registers, HttpInv, HttpShape, ToolStages
  <2>3. Registers'
    BY <1>1, <2>1, <2>2, RegistersKept DEF ToolStages
  <2>4. AtPool'
    BY <1>1, <2>1, AtPoolKept
  <2>5. \A s \in Sessions, i \in Ids : Refers(s, i)' => Refers(s, i) \/ Taken(s, i)
    BY <1>1, RefersKept
  <2> QED BY <2>1, <2>3, <2>4, <2>5, OneIdKept
<1> QED BY <1>1, <1>2, AgeKept

\* What a tool that goes on owes the invariant.
LEMMA ToolMovesUse ==
  ASSUME HttpInv, UseInv, NEW c \in Callers, req[c].at \in ToolStages,
         UNCHANGED <<sessions, closing>>, PoolKeeps, SameOthers(c),
         \A d \in Callers \ {c} : req'[d] = req[d],
         req'[c].at \in ToolStages \ {"queued"}, req'[c].id = req[c].id, req'[c].entry = req[c].entry,
         \/ req'[c].page \in {req[c].page, None}
         \/ req[c].at = "guard" /\ req'[c].page = call[c].sess
         \/ Young => req'[c].page = ent[req[c].entry].browser,
         \A e \in Entries :
           /\ ent'[e].id = ent[e].id
           /\ ent'[e].expired <=> ent[e].expired
           /\ ent'[e].tool = ent[e].tool \/ ent[e].tool \in {c, None}
           /\ \/ ent'[e].browser \in {ent[e].browser, None}
              \/ e = req[c].entry /\ req[c].at = "guard" /\ ent'[e].browser = call[c].sess,
         Young => ent'[req[c].entry].tool = c,
         req'[c].at = "acquire" => call'[c].op = "acquire" /\ call'[c].id = req[c].id,
         req'[c].at = "guard" => /\ call'[c].at = "idle"
                                 /\ \A s \in Sessions, i \in Ids :
                                      call'[c].sess = s /\ req[c].id = i => Taken(s, i)
  PROVE  UseInv'
<1>1. ASSUME Young PROVE Registers' /\ AtPool' /\ OneId'
  <2>1. Registers /\ AtPool /\ OneId
    BY <1>1 DEF UseInv
  <2>2. \A d \in Callers \ {c} : req[d].at \in ToolStages \ {"queued"}
                                   => req[d].entry \in Entries /\ ent[req[d].entry].tool = d /\ d # None
    BY <2>1, PoolAssumption DEF Registers, HttpInv, HttpShape, ToolStages
  <2>3. Registers'
    <3>1. req'[c].at \notin {"expiring", "closing", "remove", "removing"}
      BY DEF ToolStages
    <3>2. sessions'[req'[c].id] = req'[c].entry /\ ent'[req'[c].entry].tool = c
      BY <1>1, <2>1 DEF Registers
    <3>3. \A d \in Callers \ {c} : req[d].at \in ToolStages \ {"queued"}
                                     => ent'[req[d].entry].tool = ent[req[d].entry].tool
      BY <2>2
    <3> QED BY <2>1, <3>1, <3>2, <3>3, RegistersKept
  <2>4. AtPool'
    BY <2>1, AtPoolKept
  <2>5. req[c].entry \in Entries /\ ent[req[c].entry].id = req[c].id
    <3>1. req[c].id \in Ids /\ req[c].entry \in Entries /\ None \notin Entries
      BY HttpAssumption DEF HttpInv, HttpShape, ToolStages
    <3>2. sessions[req[c].id] = req[c].entry
      BY <2>1 DEF Registers
    <3> QED BY <3>1, <3>2 DEF HttpInv, Accounts
  <2>6. \A s \in Sessions, i \in Ids : Refers(s, i)' => Refers(s, i) \/ Taken(s, i)
    <3>1. \A e \in Entries :
            \/ ent'[e].browser = None
            \/ /\ ent'[e].id = ent[e].id
               /\ \/ ent'[e].browser = ent[e].browser
                  \/ ent[e].id = req[c].id /\ req[c].at = "guard" /\ ent'[e].browser = call[c].sess
      BY <2>5
    <3>2. \/ req'[c].page = None
          \/ /\ req'[c].id = req[c].id
             /\ \/ req'[c].page = req[c].page
                \/ req[c].at = "guard" /\ req'[c].page = call[c].sess
                \/ \E e \in Entries : ent[e].id = req[c].id /\ req'[c].page = ent[e].browser
      BY <1>1, <2>5
    <3> QED BY <3>1, <3>2, RefersKept
  <2> QED BY <2>1, <2>3, <2>4, <2>6, OneIdKept
<1>2. \A e \in Entries : ent'[e].id = ent[e].id /\ (ent'[e].expired <=> ent[e].expired)
  OBVIOUS
<1> QED BY <1>1, <1>2, AgeKept

\* A request that moves to another stage of its tool, as a record.
LEMMA GotoUse ==
  ASSUME HttpInv, NEW c \in Callers, NEW stage \in ReqStage, NEW STATE s, s \in Sessions \cup {None},
         Goto(c, stage) \/ req' = [req EXCEPT ![c].at = stage, ![c].page = s]
  PROVE  /\ \A d \in Callers \ {c} : req'[d] = req[d]
         /\ req'[c].at = stage /\ req'[c].id = req[c].id /\ req'[c].entry = req[c].entry
         /\ req'[c].page = (IF Goto(c, stage) THEN req[c].page ELSE s)
<1> DEFINE r1 == [req[c] EXCEPT !.at = stage]
           r2 == [r1 EXCEPT !.page = s]
<1>1. req \in [Callers -> Req] /\ req[c] \in Req
  BY DEF HttpInv, HttpTypeOK
<1>2. r1 \in Req /\ r1.at = stage /\ r1.entry = req[c].entry /\ r1.id = req[c].id /\ r1.page = req[c].page
  BY <1>1 DEF Req
<1>3. r2 \in Req /\ r2.at = stage /\ r2.entry = req[c].entry /\ r2.id = req[c].id /\ r2.page = s
  BY <1>2 DEF Req
<1>4. Goto(c, stage) <=> req' = [req EXCEPT ![c] = r1]
  BY DEF Goto
<1>5. Goto(c, stage) \/ req' = [req EXCEPT ![c] = r2]
  BY DEF Goto
<1> HIDE DEF r1, r2
<1> QED BY <1>1, <1>2, <1>3, <1>4, <1>5

-----------------------------------------------------------------------------
(* One lemma per action: the tool. *)

LEMMA QuietUse ==
  ASSUME UNCHANGED pvars, NEW c \in Callers
  PROVE  PoolKeeps /\ SameOthers(c) /\ call' = call
BY QuietKeeps DEF SameOthers, pvars

LEMMA TakeToolLockUse ==
  ASSUME HttpInv, UseInv, NEW c \in Callers, TakeToolLock(c)
  PROVE  UseInv'
<1>1. /\ req[c].at = "queued" /\ req[c].entry \in Entries /\ ent \in [Entries -> SessionEntry]
      /\ ent[req[c].entry].tool = None /\ ent' = [ent EXCEPT ![req[c].entry].tool = c]
      /\ Goto(c, "tool") /\ UNCHANGED <<sessions, closing>> /\ UNCHANGED pvars
      /\ "tool" \in ReqStage /\ req[c].at \in ToolStages
  BY DEF TakeToolLock, At, HttpInv, HttpTypeOK, HttpShape, ToolStages, ReqStage
<1>2. /\ \A e \in Entries : /\ ent'[e].id = ent[e].id
                            /\ ent'[e].expired <=> ent[e].expired
                            /\ ent'[e].browser = ent[e].browser
                            /\ ent'[e].tool = ent[e].tool \/ ent[e].tool = None
      /\ ent'[req[c].entry].tool = c
  BY <1>1 DEF SessionEntry
<1>3. PICK s \in Sessions \cup {None} : s = None
  OBVIOUS
<1>4. /\ \A d \in Callers \ {c} : req'[d] = req[d]
      /\ req'[c].at = "tool" /\ req'[c].id = req[c].id /\ req'[c].entry = req[c].entry
      /\ req'[c].page = req[c].page
  BY <1>1, GotoUse
<1>5. PoolKeeps /\ SameOthers(c)
  BY <1>1, QuietUse
<1> QED BY <1>1, <1>2, <1>4, <1>5, ToolMovesUse DEF ToolStages

LEMMA ReturnUse ==
  ASSUME HttpInv, UseInv, NEW c \in Callers, Return(c)
  PROVE  UseInv'
<1>1. /\ req[c].at \in ToolStages /\ EndTool(c, ent) /\ UNCHANGED <<sessions, closing>> /\ UNCHANGED pvars
  BY DEF Return, At, ToolStages
<1> QED BY <1>1, QuietUse, EntAsIs, WithoutBrowserFewer, ToolEndsUse

LEMMA LockHeld ==
  ASSUME UseInv, Young, NEW c \in Callers, req[c].at \in ToolStages \ {"queued"}
  PROVE  ent[req[c].entry].tool = c
BY DEF UseInv, Registers

\* A tool that goes on with its entry unchanged.
LEMMA SameEntUse ==
  ASSUME UNCHANGED ent, NEW c \in Callers
  PROVE  \A e \in Entries : /\ ent'[e].id = ent[e].id
                            /\ ent'[e].expired <=> ent[e].expired
                            /\ ent'[e].tool = ent[e].tool \/ ent[e].tool \in {c, None}
                            /\ ent'[e].browser \in {ent[e].browser, None}
OBVIOUS

LEMMA GetSessionUse ==
  ASSUME HttpInv, UseInv, NEW c \in Callers, GetSession(c)
  PROVE  UseInv'
<1>1. /\ req[c].at = "tool" /\ req[c].entry \in Entries /\ UNCHANGED <<sessions, ent, closing>>
      /\ UNCHANGED pvars
  BY DEF GetSession, At, HttpInv, HttpShape
<1>2. PICK s \in Sessions \cup {None} : s = ent[req[c].entry].browser
  BY <1>1 DEF HttpInv, HttpTypeOK, SessionEntry
<1>3. PICK stage \in {"fresh", "alive"} : req' = [req EXCEPT ![c].at = stage, ![c].page = s]
  BY <1>2 DEF GetSession
<1>4. stage \in ReqStage /\ stage \in ToolStages \ {"queued", "acquire", "guard"} /\ req[c].at \in ToolStages \ {"queued"}
  BY <1>1 DEF ReqStage, ToolStages
<1>5. /\ \A d \in Callers \ {c} : req'[d] = req[d]
      /\ req'[c].at = stage /\ req'[c].id = req[c].id /\ req'[c].entry = req[c].entry
      /\ req'[c].page \in {req[c].page, ent[req[c].entry].browser}
  <2>1. /\ \A d \in Callers \ {c} : req'[d] = req[d]
        /\ req'[c].at = stage /\ req'[c].id = req[c].id /\ req'[c].entry = req[c].entry
        /\ req'[c].page \in {req[c].page, s}
    BY <1>3, <1>4, GotoUse
  <2> QED BY <1>2, <2>1
<1>6. PoolKeeps /\ SameOthers(c)
  BY <1>1, QuietUse
<1>7. Young => ent'[req[c].entry].tool = c
  BY <1>1, <1>4, LockHeld
<1> QED BY <1>1, <1>4, <1>5, <1>6, <1>7, SameEntUse, ToolMovesUse

\* A plain move to a stage where the tool waits for the pool to release its browser.
LEMMA WaitsUse ==
  ASSUME HttpInv, UseInv, NEW c \in Callers, req[c].at \in ToolStages \ {"queued"},
         NEW stage \in {"renew", "unguard"}, Goto(c, stage), UNCHANGED <<sessions, ent, closing>>,
         PoolKeeps, SameOthers(c)
  PROVE  UseInv'
<1>1. stage \in ReqStage /\ stage \in ToolStages \ {"queued", "acquire", "guard"}
  BY DEF ReqStage, ToolStages
<1>2. PICK s \in Sessions \cup {None} : s = None
  OBVIOUS
<1>3. /\ \A d \in Callers \ {c} : req'[d] = req[d]
      /\ req'[c].at = stage /\ req'[c].id = req[c].id /\ req'[c].entry = req[c].entry
      /\ req'[c].page = req[c].page
  BY <1>1, GotoUse
<1>4. Young => ent'[req[c].entry].tool = c
  BY LockHeld
<1> QED BY <1>1, <1>3, <1>4, SameEntUse, ToolMovesUse

LEMMA RenewedUse ==
  ASSUME HttpInv, UseInv, NEW c \in Callers, req[c].at \in ToolStages \ {"queued"},
         NEW why, Renewed(c, why), UNCHANGED <<sessions, closing>>, PoolKeeps, SameOthers(c)
  PROVE  UseInv'
<1> DEFINE es == WithoutBrowser(req[c].entry)
<1>1. es \in [Entries -> SessionEntry] /\ Fewer(es)
  BY WithoutBrowserSame, WithoutBrowserFewer
<1>2. CASE EndTool(c, es)
  <2> HIDE DEF es
  <2> QED BY <1>1, <1>2, ToolEndsUse
<1>3. CASE req' = [req EXCEPT ![c].at = "fresh", ![c].page = None] /\ ent' = es
  <2>1. PICK s \in Sessions \cup {None} : s = None
    OBVIOUS
  <2>2. PICK stage \in ReqStage : stage = "fresh"
    BY DEF ReqStage
  <2>3. /\ \A d \in Callers \ {c} : req'[d] = req[d]
        /\ req'[c].at = "fresh" /\ req'[c].id = req[c].id /\ req'[c].entry = req[c].entry
        /\ req'[c].page \in {req[c].page, None}
    BY <1>3, <2>1, <2>2, GotoUse
  <2>4. req[c].entry \in Entries
    BY DEF HttpInv, HttpShape, ToolStages
  <2>5. \A e \in Entries : /\ ent'[e].id = ent[e].id
                           /\ ent'[e].expired <=> ent[e].expired
                           /\ ent'[e].tool = ent[e].tool
                           /\ ent'[e].browser \in {ent[e].browser, None}
    BY <1>1, <1>3 DEF Fewer
  <2>6. Young => ent'[req[c].entry].tool = c
    BY <2>4, <2>5, LockHeld
  <2>7. "fresh" \in ToolStages \ {"queued", "acquire", "guard"}
    BY DEF ToolStages
  <2> HIDE DEF es
  <2> QED BY <2>3, <2>5, <2>6, <2>7, ToolMovesUse
<1> QED BY <1>2, <1>3 DEF Renewed

LEMMA AliveCheckedUse ==
  ASSUME SlotInv, HttpInv, UseInv, NEW c \in Callers, AliveChecked(c)
  PROVE  UseInv'
<1>1. /\ req[c].at \in ToolStages \ {"queued"} /\ req[c].entry \in Entries /\ req[c].id \in Ids
      /\ UNCHANGED <<sessions, closing>>
  BY DEF AliveChecked, At, HttpInv, HttpShape, ToolStages
<1>2. ASSUME UNCHANGED pvars PROVE PoolKeeps /\ SameOthers(c)
  BY <1>2, QuietUse
<1>3. ASSUME NEW why, Renewed(c, why), UNCHANGED pvars PROVE UseInv'
  BY <1>1, <1>2, <1>3, RenewedUse
<1>4. ASSUME ReleaseBegin(c, req[c].id), Goto(c, "renew"), UNCHANGED ent PROVE UseInv'
  <2>1. PICK i \in Ids : i = req[c].id
    BY <1>1
  <2>2. PoolKeeps /\ SameOthers(c)
    BY <1>4, <2>1, ReleaseBeginKeeps
  <2> QED BY <1>1, <1>4, <2>2, WaitsUse
<1>5. ASSUME EndTool(c, ent), UNCHANGED pvars PROVE UseInv'
  BY <1>1, <1>2, <1>5, EntAsIs, WithoutBrowserFewer, ToolEndsUse
<1>6. ASSUME req' = [req EXCEPT ![c].at = "tool", ![c].page = ent[req[c].entry].browser],
             UNCHANGED pvars, UNCHANGED ent
      PROVE  UseInv'
  <2>1. PICK s \in Sessions \cup {None} : s = ent[req[c].entry].browser
    BY <1>1 DEF HttpInv, HttpTypeOK, SessionEntry
  <2>2. PICK stage \in ReqStage : stage = "tool"
    BY DEF ReqStage
  <2>3. /\ \A d \in Callers \ {c} : req'[d] = req[d]
        /\ req'[c].at = "tool" /\ req'[c].id = req[c].id /\ req'[c].entry = req[c].entry
        /\ req'[c].page \in {req[c].page, s}
    BY <1>6, <2>1, <2>2, GotoUse
  <2>4. req'[c].page \in {req[c].page, None} \/ (Young => req'[c].page = ent[req[c].entry].browser)
    BY <2>1, <2>3
  <2>5. Young => ent'[req[c].entry].tool = c
    BY <1>1, <1>6, LockHeld
  <2>6. "tool" \in ToolStages \ {"queued", "acquire", "guard"}
    BY DEF ToolStages
  <2> QED BY <1>1, <1>2, <1>6, <2>3, <2>4, <2>5, <2>6, SameEntUse, ToolMovesUse
<1> QED BY <1>3, <1>4, <1>5, <1>6 DEF AliveChecked

LEMMA RenewDoneUse ==
  ASSUME SlotInv, HttpInv, UseInv, NEW c \in Callers, RenewDone(c)
  PROVE  UseInv'
<1>1. req[c].at \in ToolStages \ {"queued"} /\ UNCHANGED <<sessions, closing>> /\ ReleaseDone(c)
  BY DEF RenewDone, At, ToolStages
<1>2. PoolKeeps /\ SameOthers(c)
  BY <1>1, ReleaseDoneKeeps
<1> QED BY <1>1, <1>2, RenewedUse DEF RenewDone

LEMMA GuardOkUse ==
  ASSUME SlotInv, HttpInv, UseInv, NEW c \in Callers, GuardOk(c)
  PROVE  UseInv'
<1>1. PICK s \in Sessions \cup {None} : s = call[c].sess
  BY DEF SlotInv, PoolTypeOK, Call
<1>2. /\ req[c].at = "guard" /\ req[c].at \in ToolStages \ {"queued"} /\ req[c].entry \in Entries
      /\ ent' = [ent EXCEPT ![req[c].entry].browser = s]
      /\ req' = [req EXCEPT ![c].at = "tool", ![c].page = s]
      /\ UNCHANGED <<sessions, closing>> /\ UNCHANGED pvars
      /\ ent \in [Entries -> SessionEntry]
  BY <1>1 DEF GuardOk, At, HttpInv, HttpTypeOK, HttpShape, ToolStages
<1>3. PICK stage \in ReqStage : stage = "tool"
  BY DEF ReqStage
<1>4. /\ \A d \in Callers \ {c} : req'[d] = req[d]
      /\ req'[c].at = "tool" /\ req'[c].id = req[c].id /\ req'[c].entry = req[c].entry
      /\ req'[c].page \in {req[c].page, s}
  BY <1>2, <1>3, GotoUse
<1>5. \A e \in Entries : /\ ent'[e].id = ent[e].id
                         /\ ent'[e].expired <=> ent[e].expired
                         /\ ent'[e].tool = ent[e].tool
                         /\ \/ ent'[e].browser = ent[e].browser
                            \/ e = req[c].entry /\ ent'[e].browser = s
  BY <1>2 DEF SessionEntry
<1>6. Young => ent'[req[c].entry].tool = c
  BY <1>2, <1>5, LockHeld
<1>7. PoolKeeps /\ SameOthers(c) /\ "tool" \in ToolStages \ {"queued", "acquire", "guard"}
  BY <1>2, QuietUse DEF ToolStages
<1>8. \/ req'[c].page \in {req[c].page, None}
      \/ req[c].at = "guard" /\ req'[c].page = call[c].sess
  BY <1>1, <1>2, <1>4
<1>9. \A e \in Entries : \/ ent'[e].browser \in {ent[e].browser, None}
                         \/ e = req[c].entry /\ req[c].at = "guard" /\ ent'[e].browser = call[c].sess
  BY <1>1, <1>2, <1>5
<1> QED BY <1>2, <1>4, <1>5, <1>6, <1>7, <1>8, <1>9, ToolMovesUse

LEMMA GuardFailUse ==
  ASSUME SlotInv, HttpInv, UseInv, NEW c \in Callers, GuardFail(c)
  PROVE  UseInv'
<1>1. /\ req[c].at \in ToolStages \ {"queued"} /\ req[c].id \in Ids
      /\ UNCHANGED <<sessions, closing>>
  BY DEF GuardFail, At, HttpInv, HttpShape, ToolStages
<1>2. CASE EndTool(c, ent) /\ UNCHANGED pvars
  BY <1>1, <1>2, QuietUse, EntAsIs, WithoutBrowserFewer, ToolEndsUse
<1>3. CASE ReleaseBegin(c, req[c].id) /\ Goto(c, "unguard") /\ UNCHANGED ent
  <2>1. PICK i \in Ids : i = req[c].id
    BY <1>1
  <2>2. PoolKeeps /\ SameOthers(c)
    BY <1>3, <2>1, ReleaseBeginKeeps
  <2> QED BY <1>1, <1>3, <2>2, WaitsUse
<1> QED BY <1>2, <1>3 DEF GuardFail

LEMMA UnguardDoneUse ==
  ASSUME SlotInv, HttpInv, UseInv, NEW c \in Callers, UnguardDone(c)
  PROVE  UseInv'
<1>1. /\ req[c].at \in ToolStages /\ UNCHANGED <<sessions, closing>> /\ ReleaseDone(c) /\ EndTool(c, ent)
  BY DEF UnguardDone, At, ToolStages
<1> QED BY <1>1, ReleaseDoneKeeps, EntAsIs, WithoutBrowserFewer, ToolEndsUse

LEMMA TimeOutUse ==
  ASSUME SlotInv, OwnInv, HttpInv, UseInv, NEW c \in Callers, TimeOut(c)
  PROVE  UseInv'
<1>1. req[c].at \in ToolStages /\ UNCHANGED <<sessions, closing>> /\ EndTool(c, ent)
  BY DEF TimeOut, ToolStages
<1>2. PoolKeeps /\ SameOthers(c)
  BY QuietUse, StartEndsKeeps, CancelReleaseKeeps DEF TimeOut
<1> QED BY <1>1, <1>2, EntAsIs, WithoutBrowserFewer, ToolEndsUse

\* pool.acquire() for a request's id, up to its next await.
LEMMA AcquireHands ==
  ASSUME SlotInv, OwnInv, HttpInv, AtPool, NEW c \in Callers, Acquire(c)
  PROVE  PoolKeeps /\ SameOthers(c) /\ Hands(c, req[c].id)
<1>1. PICK i \in Ids : i = req[c].id
  BY DEF Acquire, At, HttpInv, HttpShape
<1>2. CASE Begin(c, "acquire", req[c].id)
  BY <1>1, <1>2, BeginHands
<1>3. CASE At(c, "acquire") /\ (Resume(c) \/ StartOk(c))
  <2>1. call[c].op = "acquire" /\ call[c].id = i
    BY <1>1, <1>3 DEF AtPool, At
  <2> QED BY <1>1, <1>3, <2>1, ResumeHands, StartOkHands
<1>4. CASE StartFail(c) \/ GiveUp(c)
  <2>1. PoolKeeps /\ SameOthers(c) /\ call'[c].sess = None
    BY <1>4, StartEndsKeeps, EndsEmpty
  <2>2. call'[c].at = "idle"
    <3>1. CASE StartFail(c)
      BY <3>1, EndsBySlot DEF StartFail
    <3>2. CASE GiveUp(c)
      <4> DEFINE cl == [call EXCEPT ![c] = Returned(None)]
      <4>1. /\ cl \in [Callers -> Call] /\ cl[c].at = "idle" /\ sem + 1 \in Nat \ {0}
            /\ Without(waiters, c) \in Seq(Callers)
        BY PoolAssumption, ReturnedType, WithoutType DEF SlotInv, PoolTypeOK, Returned
      <4>2. call' = cl \/ Wake(cl, Without(waiters, c), sem + 1)
        BY <3>2 DEF GiveUp
      <4> HIDE DEF cl
      <4>3. call'[c] = cl[c] \/ Woken(cl, c)
        BY <4>1, <4>2, WakeCounts
      <4> QED BY <4>1, <4>3 DEF Woken
    <3> QED BY <1>4, <3>1, <3>2
  <2> QED BY <2>1, <2>2 DEF Hands
<1> QED BY <1>2, <1>3, <1>4 DEF Acquire

LEMMA AcquireUse ==
  ASSUME SlotInv, OwnInv, HttpInv, UseInv, NEW c \in Callers, Acquire(c)
  PROVE  UseInv'
<1>1. /\ req[c].at \in ToolStages \ {"queued"} /\ UNCHANGED <<sessions, closing>> /\ AfterAcquire(c)
  BY DEF Acquire, At, ToolStages
<1>2. CASE ~Young
  <2>1. CASE EndTool(c, ent)
    <3>1. \A e \in Entries : ent'[e].id = ent[e].id /\ (ent'[e].expired <=> ent[e].expired)
      BY <1>1, <2>1, EntAsIs, WithoutBrowserFewer, EndToolUse
    <3> QED BY <1>1, <1>2, <3>1, AgeKept
  <2>2. CASE UNCHANGED ent
    BY <1>1, <1>2, <2>2, AgeKept
  <2> QED BY <1>1, <2>1, <2>2 DEF AfterAcquire
<1>3. CASE Young
  <2>1. PoolKeeps /\ SameOthers(c) /\ Hands(c, req[c].id)
    BY <1>3, AcquireHands DEF UseInv
  <2>2. CASE EndTool(c, ent)
    BY <1>1, <2>1, <2>2, EntAsIs, WithoutBrowserFewer, ToolEndsUse
  <2>3. ASSUME NEW stage \in {"acquire", "guard"}, Goto(c, stage), UNCHANGED ent,
               stage = "acquire" => call'[c].at # "idle",
               stage = "guard" => call'[c].at = "idle" /\ call'[c].sess # None
        PROVE  UseInv'
    <3>1. stage \in ReqStage /\ stage \in ToolStages \ {"queued"}
      BY DEF ReqStage, ToolStages
    <3>2. PICK p \in Sessions \cup {None} : p = None
      OBVIOUS
    <3>3. /\ \A d \in Callers \ {c} : req'[d] = req[d]
          /\ req'[c].at = stage /\ req'[c].id = req[c].id /\ req'[c].entry = req[c].entry
          /\ req'[c].page = req[c].page
      BY <2>3, <3>1, <3>2, GotoUse
    <3>4. Young => ent'[req[c].entry].tool = c
      BY <1>1, <2>3, LockHeld
    <3>5. req'[c].at = "acquire" => call'[c].op = "acquire" /\ call'[c].id = req[c].id
      BY <2>1, <2>3, <3>3 DEF Hands
    <3>6. req'[c].at = "guard" => /\ call'[c].at = "idle"
                                  /\ \A s \in Sessions, i \in Ids :
                                       call'[c].sess = s /\ req[c].id = i => Taken(s, i)
      <4> SUFFICES ASSUME req'[c].at = "guard", NEW s \in Sessions, NEW i \in Ids,
                          call'[c].sess = s, req[c].id = i
                   PROVE  call'[c].at = "idle" /\ Taken(s, i)
        BY <2>3, <3>3
      <4>1. call'[c].at = "idle" /\ call'[c].sess # None
        BY <2>3, <3>3
      <4>2. /\ Begun(s) => entry[s].id = i
            /\ bs'[s] \notin {"unborn", "starting"}
            /\ entry'[s].id = i
        BY <2>1, <4>1 DEF Hands
      <4> QED BY <4>1, <4>2 DEF Taken, Begun
    <3> QED BY <1>1, <2>1, <2>3, <3>1, <3>3, <3>4, <3>5, <3>6, SameEntUse, ToolMovesUse
  <2> QED BY <1>1, <2>2, <2>3 DEF AfterAcquire
<1> QED BY <1>2, <1>3

-----------------------------------------------------------------------------
(* Looking the entry up, removal and shutdown. *)

LEMMA ArriveUse ==
  ASSUME HttpInv, UseInv, NEW c \in Callers, NEW i \in Ids, NEW t \in Tenants \cup {None}, Arrive(c, i, t)
  PROVE  UseInv'
<1> DEFINE e == sessions[i]
<1>1. /\ e \in Entries \cup {None} /\ req \in [Callers -> Req]
      /\ UNCHANGED <<sessions, ent, closing>> /\ UNCHANGED pvars
      /\ i \in OneShot => \A d \in Callers : req[d].id # i
  BY DEF Arrive, NewId, HttpInv, HttpTypeOK
<1>2. PICK r \in Req : /\ req' = [req EXCEPT ![c] = r] /\ r.id = i /\ r.page = None
                       /\ r.at = "lookup" \/ (r.at = "queued" /\ r.entry = e)
  <2>1. CASE e # None /\ ~ent[e].expired
    <3> DEFINE r == [at |-> "queued", id |-> i, tenant |-> t, entry |-> e, page |-> None]
    <3>1. req' = [req EXCEPT ![c] = r]
      BY <2>1 DEF Arrive
    <3>2. r \in Req
      BY <1>1 DEF Req, ReqStage
    <3> QED BY <3>1, <3>2
  <2>2. CASE ~(e # None /\ ~ent[e].expired)
    <3> DEFINE r == [at |-> "lookup", id |-> i, tenant |-> t, entry |-> None, page |-> None]
    <3>1. req' = [req EXCEPT ![c] = r]
      BY <2>2 DEF Arrive
    <3>2. r \in Req
      BY DEF Req, ReqStage
    <3> QED BY <3>1, <3>2
  <2> QED BY <2>1, <2>2
<1>3. req'[c] = r /\ \A d \in Callers \ {c} : req'[d] = req[d]
  BY <1>1, <1>2
<1>4. PoolKeeps /\ SameOthers(c)
  BY <1>1, QuietUse
<1>5. ASSUME Young PROVE Registers' /\ AtPool' /\ OneId'
  <2>1. Registers /\ AtPool /\ OneId
    BY <1>5 DEF UseInv
  <2>2. Registers'
    BY <1>1, <1>2, <1>3, <2>1, RegistersKept DEF ToolStages
  <2>3. AtPool'
    BY <1>2, <1>3, <1>4, <2>1, AtPoolKept
  <2>4. \A s \in Sessions, j \in Ids : Refers(s, j)' => Refers(s, j) \/ Taken(s, j)
    BY <1>1, <1>2, <1>3, <1>4, RefersKept
  <2> QED BY <1>4, <2>1, <2>2, <2>3, <2>4, OneIdKept
<1> QED BY <1>1, <1>5, AgeKept

\* A creation leaves every entry as it is but one that was not made.
LEMMA CreateUse ==
  ASSUME HttpInv, NEW c \in Callers, NEW STATE ss, NEW STATE counts,
         NEW STATE es, es \in [Entries -> SessionEntry], Fewer(es), Create(c, ss, counts, es)
  PROVE  \A e \in Entries : \/ ent'[e] = es[e]
                            \/ ent[e].id = None /\ ~ent'[e].expired /\ ent'[e].browser = None
<1>1. CASE ent' = es
  BY <1>1
<1>2. ASSUME NEW e \in Entries, es[e].id = None,
             ent' = [es EXCEPT ![e] = [Unborn EXCEPT !.id = req[c].id, !.tenant = req[c].tenant]]
      PROVE  \A f \in Entries : \/ ent'[f] = es[f]
                                \/ ent[f].id = None /\ ~ent'[f].expired /\ ent'[f].browser = None
  <2>1. /\ ~[Unborn EXCEPT !.id = req[c].id, !.tenant = req[c].tenant].expired
        /\ [Unborn EXCEPT !.id = req[c].id, !.tenant = req[c].tenant].browser = None
    BY DEF Unborn
  <2>2. ent'[e] = [Unborn EXCEPT !.id = req[c].id, !.tenant = req[c].tenant]
        /\ \A f \in Entries \ {e} : ent'[f] = es[f]
    BY <1>2
  <2>3. ent[e].id = None
    BY <1>2 DEF Fewer
  <2> QED BY <2>1, <2>2, <2>3
<1> QED BY <1>1, <1>2 DEF Create

LEMMA LookupSlowUse ==
  ASSUME SlotInv, HttpInv, UseInv, NEW c \in Callers, LookupSlow(c)
  PROVE  UseInv'
<1> DEFINE i == req[c].id
           e == sessions[i]
<1>1. /\ req[c].at = "lookup" /\ UNCHANGED closing
      /\ i \in Ids /\ req[c] \in Req /\ e \in Entries \cup {None}
      /\ sessions \in [Ids -> Entries \cup {None}]
      /\ ent \in [Entries -> SessionEntry] /\ req \in [Callers -> Req]
  BY DEF LookupSlow, At, HttpInv, HttpTypeOK, HttpShape
<1>2. \A f \in Entries : \/ ent'[f].id = ent[f].id /\ (ent'[f].expired <=> ent[f].expired)
                         \/ ent[f].id = None /\ ~ent'[f].expired
  <2>1. UNCHANGED ent \/ Create(c, sessions, tenantCount, ent)
        \/ Create(c, [sessions EXCEPT ![i] = None], Decremented(ent[e].tenant), WithoutBrowser(e))
    BY DEF LookupSlow
  <2>2. CASE UNCHANGED ent
    BY <2>2
  <2>3. CASE Create(c, sessions, tenantCount, ent)
    BY <1>1, <2>3, EntAsIs, WithoutBrowserFewer, CreateUse
  <2>4. CASE Create(c, [sessions EXCEPT ![i] = None], Decremented(ent[e].tenant), WithoutBrowser(e))
    <3> DEFINE es == WithoutBrowser(e)
    <3>1. es \in [Entries -> SessionEntry] /\ Fewer(es)
      BY WithoutBrowserSame, WithoutBrowserFewer
    <3>2. Create(c, [sessions EXCEPT ![i] = None], Decremented(ent[e].tenant), es)
      BY <2>4
    <3> HIDE DEF es
    <3>3. \A f \in Entries : ent'[f] = es[f] \/ (ent[f].id = None /\ ~ent'[f].expired)
      BY <3>1, <3>2, CreateUse
    <3> QED BY <3>1, <3>3 DEF Fewer
  <2> QED BY <2>1, <2>2, <2>3, <2>4
<1>3. ASSUME Young PROVE Registers' /\ AtPool' /\ OneId'
  <2>1. Registers /\ AtPool /\ OneId
    BY <1>3 DEF UseInv
  <2>2. e # None => ~ent[e].expired
    BY <1>1, <1>3 DEF Young
  <2>3. UNCHANGED pvars
    BY <2>2 DEF LookupSlow
  <2>4. PoolKeeps /\ SameOthers(c)
    BY <2>3, QuietUse
  <2> DEFINE Result == /\ \A d \in Callers \ {c} : req'[d] = req[d]
                       /\ req'[c].at \in {"idle", "queued"}
                       /\ req'[c].at = "queued" => sessions'[req'[c].id] = req'[c].entry
                       /\ req'[c].id \in {req[c].id, None}
                       /\ req'[c].page = None \/ (req'[c].page = req[c].page /\ req'[c].id = req[c].id)
                       /\ \A j \in Ids : j # i => sessions'[j] = sessions[j]
                       /\ e # None => UNCHANGED sessions
                       /\ \A f \in Entries : \/ ent'[f] = ent[f]
                                             \/ ent[f].id = None /\ ent'[f].browser = None
  <2>5. Result
    <3>1. CASE e # None
      <4>1. req' = [req EXCEPT ![c].at = "queued", ![c].entry = e] /\ UNCHANGED <<sessions, ent>>
        BY <2>2, <3>1 DEF LookupSlow
      <4>2. /\ [req[c] EXCEPT !.at = "queued"] \in Req /\ [req[c] EXCEPT !.at = "queued"].id = i
            /\ [req[c] EXCEPT !.at = "queued"].page = req[c].page
        BY <1>1 DEF Req, ReqStage
      <4>3. /\ [[req[c] EXCEPT !.at = "queued"] EXCEPT !.entry = e].at = "queued"
            /\ [[req[c] EXCEPT !.at = "queued"] EXCEPT !.entry = e].entry = e
            /\ [[req[c] EXCEPT !.at = "queued"] EXCEPT !.entry = e].id = i
            /\ [[req[c] EXCEPT !.at = "queued"] EXCEPT !.entry = e].page = req[c].page
        BY <4>2 DEF Req, ReqStage
      <4> QED BY <1>1, <4>1, <4>3
    <3>2. CASE e = None
      <4>1. Create(c, sessions, tenantCount, ent)
        BY <2>2, <3>2 DEF LookupSlow
      <4>2. \A f \in Entries : ent'[f] = ent[f] \/ (ent[f].id = None /\ ent'[f].browser = None)
        BY <1>1, <4>1, EntAsIs, WithoutBrowserFewer, CreateUse
      <4>3. CASE sessions' = sessions /\ req' = [req EXCEPT ![c] = Idle]
        BY <1>1, <4>2, <4>3, <3>2 DEF Idle
      <4>4. ASSUME NEW f \in Entries, sessions' = [sessions EXCEPT ![i] = f],
                   req' = [req EXCEPT ![c].at = "queued", ![c].entry = f]
            PROVE  Result
        <5>1. /\ [req[c] EXCEPT !.at = "queued"] \in Req /\ [req[c] EXCEPT !.at = "queued"].id = i
              /\ [req[c] EXCEPT !.at = "queued"].page = req[c].page
          BY <1>1 DEF Req, ReqStage
        <5>2. /\ [[req[c] EXCEPT !.at = "queued"] EXCEPT !.entry = f].at = "queued"
              /\ [[req[c] EXCEPT !.at = "queued"] EXCEPT !.entry = f].entry = f
              /\ [[req[c] EXCEPT !.at = "queued"] EXCEPT !.entry = f].id = i
              /\ [[req[c] EXCEPT !.at = "queued"] EXCEPT !.entry = f].page = req[c].page
          BY <5>1 DEF Req, ReqStage
        <5>3. /\ req'[c] = [[req[c] EXCEPT !.at = "queued"] EXCEPT !.entry = f]
              /\ \A d \in Callers \ {c} : req'[d] = req[d]
          BY <1>1, <4>4
        <5>4. sessions'[i] = f /\ \A j \in Ids : j # i => sessions'[j] = sessions[j]
          BY <1>1, <4>4
        <5> QED BY <1>1, <3>2, <4>2, <5>2, <5>3, <5>4
      <4> QED BY <4>1, <4>3, <4>4 DEF Create
    <3> QED BY <3>1, <3>2
  <2> HIDE DEF Result
  <2>6. Registers'
    <3>1. ASSUME NEW d \in Callers \ {c}, req[d].at \in ToolStages
          PROVE  /\ sessions'[req[d].id] = sessions[req[d].id]
                 /\ ent'[req[d].entry].tool = ent[req[d].entry].tool
      <4>1. req[d].id \in Ids /\ req[d].entry \in Entries /\ sessions[req[d].id] = req[d].entry /\ None \notin Entries
        BY <2>1, <3>1, HttpAssumption DEF Registers, HttpInv, HttpShape, ToolStages
      <4>2. ent[req[d].entry].id = req[d].id /\ req[d].id # None
        BY <4>1, PoolAssumption DEF HttpInv, Accounts
      <4>3. req[d].id = i => e # None
        BY <4>1
      <4> QED BY <2>5, <4>1, <4>2, <4>3 DEF Result
    <3> QED BY <2>1, <2>5, <3>1, RegistersKept DEF Result, ToolStages
  <2>7. AtPool'
    BY <2>1, <2>4, <2>5, AtPoolKept DEF Result
  <2>8. \A s \in Sessions, j \in Ids : Refers(s, j)' => Refers(s, j) \/ Taken(s, j)
    BY <2>4, <2>5, RefersKept DEF Result
  <2> QED BY <2>1, <2>4, <2>6, <2>7, <2>8, OneIdKept
<1> QED BY <1>1, <1>2, <1>3, AgeKept

\* Once a session has aged or shutdown() has begun, only AgedAreBorn is left to keep.
LEMMA NotYoung ==
  ASSUME UseInv, NEW c \in Callers, req[c].at \in {"expiring", "closing"}
  PROVE  ~Young
BY DEF UseInv, Registers

LEMMA ExpireDoneUse ==
  ASSUME HttpInv, UseInv, NEW c \in Callers, ExpireDone(c)
  PROVE  UseInv'
<1> DEFINE es == WithoutBrowser(req[c].entry)
<1>1. req[c].at = "expiring" /\ UNCHANGED closing /\ Create(c, sessions, tenantCount, es)
  BY DEF ExpireDone, At
<1>2. es \in [Entries -> SessionEntry] /\ Fewer(es)
  BY WithoutBrowserSame, WithoutBrowserFewer
<1> HIDE DEF es
<1>3. \A f \in Entries : ent'[f] = es[f] \/ (ent[f].id = None /\ ~ent'[f].expired)
  BY <1>1, <1>2, CreateUse
<1>4. \A f \in Entries : \/ ent'[f].id = ent[f].id /\ (ent'[f].expired <=> ent[f].expired)
                         \/ ent[f].id = None /\ ~ent'[f].expired
  BY <1>2, <1>3 DEF Fewer
<1> QED BY <1>1, <1>4, NotYoung, AgeKept

LEMMA ExpireUse ==
  ASSUME HttpInv, UseInv, NEW e \in Entries, Expire(e)
  PROVE  UseInv'
<1>1. /\ ent[e].id # None /\ ent' = [ent EXCEPT ![e].expired = TRUE] /\ ent \in [Entries -> SessionEntry]
  BY DEF Expire, HttpInv, HttpTypeOK
<1>2. /\ \A f \in Entries \ {e} : ent'[f] = ent[f]
      /\ ent'[e].expired /\ ent'[e].id = ent[e].id
  BY <1>1 DEF SessionEntry
<1>3. ~Young'
  BY <1>2 DEF Young
<1>4. AgedAreBorn'
  BY <1>1, <1>2 DEF UseInv, AgedAreBorn
<1> QED BY <1>3, <1>4 DEF UseInv

LEMMA CloseBeginUse ==
  ASSUME UseInv, NEW c \in Callers, CloseBegin(c)
  PROVE  UseInv'
<1>1. ~Young'
  BY DEF CloseBegin, Young
<1>2. AgedAreBorn'
  BY DEF CloseBegin, UseInv, AgedAreBorn
<1> QED BY <1>1, <1>2 DEF UseInv

LEMMA CloseNextUse ==
  ASSUME HttpInv, UseInv, NEW c \in Callers, CloseNext(c)
  PROVE  UseInv'
<1>1. req[c].at = "closing" /\ (closing'.at = "no" => closing.at = "no")
  BY DEF CloseNext, At, HttpInv, HttpTypeOK
<1>2. ent' = ent \/ \E e \in Entries : ent' = WithoutBrowser(e)
  BY DEF CloseNext, HttpInv, HttpTypeOK
<1>3. \A f \in Entries : ent'[f].id = ent[f].id /\ (ent'[f].expired <=> ent[f].expired)
  <2>1. ASSUME NEW e \in Entries, ent' = WithoutBrowser(e)
        PROVE  \A f \in Entries : ent'[f].id = ent[f].id /\ (ent'[f].expired <=> ent[f].expired)
    <3>1. Fewer(WithoutBrowser(e))
      BY WithoutBrowserFewer
    <3> QED BY <2>1, <3>1 DEF Fewer
  <2> QED BY <1>2, <2>1
<1> QED BY <1>1, <1>3, NotYoung, AgeKept

LEMMA CloseReleasedUse ==
  ASSUME HttpInv, UseInv, NEW c \in Callers, CloseReleased(c)
  PROVE  UseInv'
<1>1. req[c].at = "closing" /\ UNCHANGED closing /\ ent' = WithoutBrowser(req[c].entry)
  BY DEF CloseReleased, At
<1>2. \A f \in Entries : ent'[f].id = ent[f].id /\ (ent'[f].expired <=> ent[f].expired)
  <2>1. Fewer(WithoutBrowser(req[c].entry))
    BY WithoutBrowserFewer
  <2> QED BY <1>1, <2>1 DEF Fewer
<1> QED BY <1>1, <1>2, NotYoung, AgeKept

LEMMA RemoveUse ==
  ASSUME SlotInv, HttpInv, UseInv, NEW c \in Callers, Remove(c)
  PROVE  UseInv'
<1> DEFINE i == req[c].id
           e == sessions[i]
<1>1. /\ req[c].at = "remove" /\ UNCHANGED closing /\ i \in Ids /\ req[c] \in Req
      /\ e \in Entries \cup {None} /\ sessions \in [Ids -> Entries \cup {None}]
      /\ req \in [Callers -> Req]
  BY DEF Remove, At, HttpInv, HttpTypeOK, HttpShape
<1>2. \A f \in Entries : /\ ent'[f].id = ent[f].id /\ ent'[f].tool = ent[f].tool
                         /\ ent'[f].expired <=> ent[f].expired
                         /\ ent'[f].browser \in {ent[f].browser, None}
  <2>1. Fewer(WithoutBrowser(e)) /\ Fewer(ent)
    BY WithoutBrowserFewer
  <2>2. ent' = ent \/ ent' = WithoutBrowser(e)
    BY DEF Remove
  <2> QED BY <2>1, <2>2 DEF Fewer
<1>3. PoolKeeps /\ SameOthers(c)
  BY <1>1, QuietUse, ReleaseBeginKeeps DEF Remove
<1>4. \A j \in Ids : j # i => sessions'[j] = sessions[j]
  BY <1>1 DEF Remove
<1>5. /\ \A d \in Callers \ {c} : req'[d] = req[d]
      /\ req'[c].at \in {"idle", "removing"}
      /\ \/ req'[c].id = None /\ req'[c].page = None
         \/ req'[c].id = i /\ req'[c].page = req[c].page
      /\ req'[c].at = "removing" => req'[c].id = i
  <2>1. CASE req' = [req EXCEPT ![c] = Idle]
    BY <1>1, <2>1 DEF Idle
  <2>2. CASE req' = [req EXCEPT ![c].at = "removing", ![c].entry = e] /\ e # None
    <3>1. /\ [req[c] EXCEPT !.at = "removing"] \in Req /\ [req[c] EXCEPT !.at = "removing"].id = i
          /\ [req[c] EXCEPT !.at = "removing"].page = req[c].page
      BY <1>1 DEF Req, ReqStage
    <3>2. /\ [[req[c] EXCEPT !.at = "removing"] EXCEPT !.entry = e].at = "removing"
          /\ [[req[c] EXCEPT !.at = "removing"] EXCEPT !.entry = e].id = i
          /\ [[req[c] EXCEPT !.at = "removing"] EXCEPT !.entry = e].page = req[c].page
      BY <1>1, <2>2, <3>1 DEF Req
    <3>3. /\ req'[c] = [[req[c] EXCEPT !.at = "removing"] EXCEPT !.entry = e]
          /\ \A d \in Callers \ {c} : req'[d] = req[d]
      BY <1>1, <2>2
    <3> QED BY <3>2, <3>3
  <2> QED BY <2>1, <2>2 DEF Remove
<1> HIDE DEF i, e
<1>6. ASSUME Young PROVE Registers' /\ AtPool' /\ OneId'
  <2>1. Registers /\ AtPool /\ OneId
    BY <1>6 DEF UseInv
  <2>2. \A d \in Callers \ {c} : /\ req[d].at \in ToolStages => req[d].id \in Ids /\ req[d].entry \in Entries
                                 /\ req[d].id # i
    BY <1>1, <2>1 DEF Registers, HttpInv, HttpShape, ToolStages, i
  <2>3. req'[c].at \notin ToolStages /\ i \in OneShot
    BY <1>1, <1>5, <2>1 DEF ToolStages, Registers, i
  <2>4. Registers'
    <3>1. \A d \in Callers \ {c} : /\ req[d].at \in ToolStages => sessions'[req[d].id] = sessions[req[d].id]
                                   /\ req[d].at \in ToolStages \ {"queued"}
                                        => ent'[req[d].entry].tool = ent[req[d].entry].tool
      BY <1>2, <1>4, <2>2
    <3>2. req'[c].id \in {req[c].id, None}
      BY <1>5 DEF i
    <3>3. req'[c].at \in {"remove", "removing"} => req'[c].id \in OneShot
      BY <1>5, <2>3
    <3>4. req'[c].at \notin {"expiring", "closing"}
      BY <1>5
    <3> QED BY <1>5, <2>1, <2>3, <3>1, <3>2, <3>3, <3>4, RegistersKept
  <2>5. AtPool'
    BY <1>3, <1>5, <2>1, AtPoolKept
  <2>6. \A s \in Sessions, j \in Ids : Refers(s, j)' => Refers(s, j) \/ Taken(s, j)
    BY <1>2, <1>3, <1>5, RefersKept DEF i
  <2> QED BY <1>3, <2>1, <2>4, <2>5, <2>6, OneIdKept
<1> QED BY <1>1, <1>2, <1>6, AgeKept

LEMMA RemoveDoneUse ==
  ASSUME SlotInv, HttpInv, UseInv, NEW c \in Callers, RemoveDone(c)
  PROVE  UseInv'
<1>1. /\ req[c].at = "removing" /\ UNCHANGED <<sessions, closing>> /\ ReleaseDone(c)
      /\ req' = [req EXCEPT ![c] = Idle] /\ ent' = WithoutBrowser(req[c].entry)
      /\ req \in [Callers -> Req]
  BY DEF RemoveDone, At, HttpInv, HttpTypeOK
<1>2. \A f \in Entries : /\ ent'[f].id = ent[f].id /\ ent'[f].tool = ent[f].tool
                         /\ ent'[f].expired <=> ent[f].expired
                         /\ ent'[f].browser \in {ent[f].browser, None}
  <2>1. Fewer(WithoutBrowser(req[c].entry))
    BY WithoutBrowserFewer
  <2> QED BY <1>1, <2>1 DEF Fewer
<1>3. PoolKeeps /\ SameOthers(c)
  BY <1>1, ReleaseDoneKeeps
<1>4. /\ \A d \in Callers \ {c} : req'[d] = req[d]
      /\ req'[c].at = "idle" /\ req'[c].id = None /\ req'[c].page = None
  BY <1>1 DEF Idle
<1>5. ASSUME Young PROVE Registers' /\ AtPool' /\ OneId'
  <2>1. Registers /\ AtPool /\ OneId
    BY <1>5 DEF UseInv
  <2>2. \A d \in Callers \ {c} : req[d].at \in ToolStages => req[d].entry \in Entries
    BY DEF HttpInv, HttpShape, ToolStages
  <2>3. Registers'
    BY <1>1, <1>2, <1>4, <2>1, <2>2, RegistersKept DEF ToolStages
  <2>4. AtPool'
    BY <1>3, <1>4, <2>1, AtPoolKept
  <2>5. \A s \in Sessions, j \in Ids : Refers(s, j)' => Refers(s, j) \/ Taken(s, j)
    BY <1>2, <1>3, <1>4, RefersKept
  <2> QED BY <1>3, <2>1, <2>3, <2>4, <2>5, OneIdKept
<1> QED BY <1>1, <1>2, <1>5, AgeKept

LEMMA PoolBackgroundUse ==
  ASSUME SlotInv, OwnInv, UseInv, UNCHANGED hvars, Background \/ UNCHANGED pvars
  PROVE  UseInv'
<1>1. PoolKeeps /\ \A d \in Callers : SameTask(d)
  BY BackgroundKeeps, QuietKeeps
<1>2. UNCHANGED <<sessions, ent, req, closing>>
  BY DEF hvars
<1>3. ASSUME Young PROVE Registers' /\ AtPool' /\ OneId'
  <2>1. Registers /\ AtPool /\ OneId
    BY <1>3 DEF UseInv
  <2>2. Registers'
    BY <1>2, <2>1 DEF Registers
  <2>3. AtPool'
    BY <1>1, <1>2, <2>1 DEF AtPool, SameTask
  <2>4. \A s \in Sessions, i \in Ids : Refers(s, i)' => Refers(s, i) \/ Taken(s, i)
    <3> SUFFICES ASSUME NEW s \in Sessions, NEW i \in Ids, Refers(s, i)' PROVE Refers(s, i)
      OBVIOUS
    <3> QED BY <1>1, <1>2 DEF Refers, SameTask
  <2> QED BY <1>1, <2>1, <2>2, <2>3, <2>4, OneIdKept
<1> QED BY <1>2, <1>3, AgeKept

-----------------------------------------------------------------------------
(* The induction. *)

LEMMA InitUseInv == HttpInit => UseInv
<1> SUFFICES ASSUME HttpInit PROVE UseInv
  OBVIOUS
<1>1. AgedAreBorn
  BY DEF HttpInit, AgedAreBorn, Unborn
<1>2. Registers /\ AtPool
  BY PoolAssumption, HttpAssumption DEF HttpInit, Registers, AtPool, Idle, ToolStages
<1>3. \A s \in Sessions : s # None
  BY PoolAssumption
<1>4. OneId
  BY <1>3 DEF HttpInit, OneId, Refers, Idle, Unborn
<1> QED BY <1>1, <1>2, <1>4 DEF UseInv

LEMMA NextUseInv == SlotInv /\ OwnInv /\ HttpInv /\ UseInv /\ [HttpNext]_httpVars => UseInv'
<1> SUFFICES ASSUME SlotInv, OwnInv, HttpInv, UseInv, [HttpNext]_httpVars PROVE UseInv'
  OBVIOUS
<1>1. CASE PoolBackground \/ UNCHANGED httpVars
  BY <1>1, PoolBackgroundUse DEF PoolBackground, httpVars
<1>2. ASSUME NEW c \in Callers, Lookup(c) PROVE UseInv'
  BY <1>2, ArriveUse, LookupSlowUse, ExpireDoneUse DEF Lookup
<1>3. ASSUME NEW c \in Callers, Tool(c) PROVE UseInv'
  BY <1>3, TakeToolLockUse, ReturnUse, GetSessionUse, AliveCheckedUse, RenewDoneUse, AcquireUse,
     GuardOkUse, GuardFailUse, UnguardDoneUse, TimeOutUse DEF Tool
<1>4. ASSUME NEW c \in Callers, Teardown(c) PROVE UseInv'
  BY <1>4, RemoveUse, RemoveDoneUse, CloseBeginUse, CloseNextUse, CloseReleasedUse DEF Teardown
<1> QED BY <1>1, <1>2, <1>3, <1>4, ExpireUse DEF HttpNext

\* Two requests that drive one browser refer to it under one id, so they share an entry,
\* whose tool_lock only one of them holds.
LEMMA UseKeepsApart == HttpInv /\ UseInv => OneToolPerBrowser
<1> SUFFICES ASSUME HttpInv, UseInv, Young, NEW c \in Callers, NEW d \in Callers,
                    Driving(c), Driving(d), req[c].page = req[d].page
             PROVE  c = d
  BY DEF OneToolPerBrowser, DistinctBrowsers, Young
<1>1. Registers /\ OneId
  BY DEF UseInv
<1>2. /\ req[c].at \in ToolStages \ {"queued"} /\ req[d].at \in ToolStages \ {"queued"}
      /\ req[c].id \in Ids /\ req[d].id \in Ids /\ req[c].page \in Sessions
  BY DEF Driving, ToolStages, HttpInv, HttpShape, HttpTypeOK, Req
<1>3. PICK s \in Sessions, i \in Ids, j \in Ids : s = req[c].page /\ i = req[c].id /\ j = req[d].id
  BY <1>2
<1>4. Refers(s, i) /\ Refers(s, j)
  BY <1>3 DEF Refers
<1>5. i = j
  BY <1>1, <1>4 DEF OneId
<1>6. /\ sessions[req[c].id] = req[c].entry /\ ent[req[c].entry].tool = c
      /\ sessions[req[d].id] = req[d].entry /\ ent[req[d].entry].tool = d
  BY <1>1, <1>2 DEF Registers
<1>7. req[c].entry = req[d].entry
  BY <1>3, <1>5, <1>6
<1> QED BY <1>6, <1>7

\* However requests of one session or of several overlap, recycle, fail, time out and are
\* removed, no two tools drive one browser while no session outlives its TTL and shutdown()
\* has not begun: HttpSessionManager's per-entry tool_lock is then enough.
THEOREM ToolsKeepApart == HttpSpec => []OneToolPerBrowser
<1> DEFINE Inv == SlotInv /\ OwnInv /\ HttpInv
<1>1. HttpSpec => []Inv
  BY ManagerImplementsPool, OwnInvariant, HttpInvariant, PTL
<1>2. HttpInit => UseInv
  BY InitUseInv
<1>3. Inv /\ UseInv /\ [HttpNext]_httpVars => UseInv'
  BY NextUseInv
<1>4. Inv /\ UseInv => OneToolPerBrowser
  BY UseKeepsApart
<1> HIDE DEF Inv
<1> QED BY <1>1, <1>2, <1>3, <1>4, PTL DEF HttpSpec

=============================================================================
