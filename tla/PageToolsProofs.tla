-------------------------- MODULE PageToolsProofs --------------------------
(***************************************************************************)
(* TLAPS proofs about PageTools and the PageMapCache it works with: the       *)
(* safety invariants of the cache and of what the agent is told, for every    *)
(* set of pages, every key function, every LRU capacity and every environment. *)
(***************************************************************************)
EXTENDS PageTools, TLAPS

-----------------------------------------------------------------------------
(***************************************************************************)
(* The operators of PageMapCache: what every operation of the cache          *)
(* preserves.  Stated for an arbitrary set G of entries: a cache that holds   *)
(* entries of G only, sound in its LRU, stays one when it is given entries of *)
(* G.  The proofs about the tools instantiate G.                            *)
(***************************************************************************)
Distinct(l) == \A i, j \in DOMAIN l : KeyOf(l[i]) = KeyOf(l[j]) => i = j
Without(l, key) == \A i \in DOMAIN l : KeyOf(l[i]) # key

LruIn(l, n, G) == l \in Seq(G) /\ Len(l) <= n /\ Distinct(l)

CacheIn(c, G) ==
  /\ c \in [active : G \cup {None}, lru : Seq(G), remaps : Nat]
  /\ LruIn(c.lru, MaxEntries, G)

-----------------------------------------------------------------------------
(* Sequences. *)

LEMMA DropAtSound ==
  ASSUME NEW G, NEW l, NEW n \in Nat, LruIn(l, n, G), NEW k \in 1..Len(l)
  PROVE  /\ LruIn(DropAt(l, k), n - 1, G)
         /\ Len(DropAt(l, k)) = Len(l) - 1
         /\ \A i \in DOMAIN DropAt(l, k) : \E j \in DOMAIN l : j # k /\ DropAt(l, k)[i] = l[j]
<1> DEFINE d == DropAt(l, k)
           from(i) == IF i < k THEN i ELSE i + 1
<1>1. l \in Seq(G) /\ Len(l) \in Nat /\ Len(l) <= n /\ DOMAIN l = 1..Len(l)
  BY DEF LruIn
<1>2. \A i \in 1..(Len(l) - 1) : from(i) \in 1..Len(l) /\ from(i) # k
  BY <1>1
<1>3. d = [i \in 1..(Len(l) - 1) |-> l[from(i)]]
  BY <1>1 DEF DropAt
<1>4. \A i \in 1..(Len(l) - 1) : l[from(i)] \in G
  BY <1>1, <1>2
<1>5. Len(l) - 1 \in Nat
  BY <1>1
<1>6. d \in Seq(G) /\ Len(d) = Len(l) - 1 /\ DOMAIN d = 1..(Len(l) - 1)
  BY <1>3, <1>4, <1>5
<1>7. Distinct(d)
  <2> SUFFICES ASSUME NEW i \in DOMAIN d, NEW j \in DOMAIN d, KeyOf(d[i]) = KeyOf(d[j])
               PROVE  i = j
    BY DEF Distinct
  <2>1. i \in 1..(Len(l) - 1) /\ j \in 1..(Len(l) - 1)
    BY <1>6
  <2>2. d[i] = l[from(i)] /\ d[j] = l[from(j)]
    BY <1>3, <2>1
  <2>3. from(i) \in DOMAIN l /\ from(j) \in DOMAIN l
    BY <1>1, <1>2, <2>1
  <2> HIDE DEF d, from
  <2>4. from(i) = from(j)
    BY <2>2, <2>3 DEF LruIn, Distinct
  <2> QED BY <2>1, <2>4, <1>1 DEF from
<1>8. \A i \in DOMAIN d : \E j \in DOMAIN l : j # k /\ d[i] = l[j]
  <2> TAKE i \in DOMAIN d
  <2>1. i \in 1..(Len(l) - 1)
    BY <1>6
  <2>2. from(i) \in DOMAIN l /\ from(i) # k
    BY <1>1, <1>2, <2>1
  <2>3. d[i] = l[from(i)]
    BY <1>3, <2>1
  <2> HIDE DEF d, from
  <2> QED BY <2>2, <2>3
<1>9. Len(d) <= n - 1
  BY <1>1, <1>6
<1> HIDE DEF d
<1> QED BY <1>6, <1>7, <1>8, <1>9 DEF LruIn, d

LEMMA PopSound ==
  ASSUME NEW G, NEW l, NEW n \in Nat, LruIn(l, n, G), NEW key
  PROVE  /\ LruIn(Pop(l, key), n, G)
         /\ Positions(l, key) # {} => LruIn(Pop(l, key), n - 1, G)
         /\ Without(Pop(l, key), key)
<1>1. CASE Positions(l, key) = {}
  BY <1>1 DEF Pop, Positions, Without
<1>2. CASE Positions(l, key) # {}
  <2> DEFINE k == CHOOSE k \in Positions(l, key) : TRUE
  <2>1. k \in Positions(l, key)
    BY <1>2
  <2>2. k \in DOMAIN l /\ KeyOf(l[k]) = key /\ l \in Seq(G) /\ Len(l) \in Nat /\ Len(l) <= n
    BY <2>1 DEF Positions, LruIn
  <2> HIDE DEF k
  <2>3. k \in 1..Len(l)
    BY <2>2
  <2>4. Pop(l, key) = DropAt(l, k)
    BY <1>2 DEF Pop, k
  <2>5. /\ LruIn(DropAt(l, k), n - 1, G)
        /\ \A i \in DOMAIN DropAt(l, k) : \E j \in DOMAIN l : j # k /\ DropAt(l, k)[i] = l[j]
    BY <2>3, DropAtSound
  <2>6. Without(DropAt(l, k), key)
    BY <2>2, <2>5 DEF Without, LruIn, Distinct
  <2>7. LruIn(DropAt(l, k), n, G)
    BY <2>5 DEF LruIn
  <2> QED BY <2>4, <2>5, <2>6, <2>7
<1> QED BY <1>1, <1>2

LEMMA AppendSound ==
  ASSUME NEW G, NEW l, NEW n \in Nat, LruIn(l, n, G), NEW e \in G, Without(l, KeyOf(e))
  PROVE  LruIn(Append(l, e), n + 1, G)
<1> DEFINE m == Append(l, e)
<1>1. /\ l \in Seq(G) /\ Len(l) \in Nat /\ Len(l) <= n
      /\ DOMAIN l = 1..Len(l)
  BY DEF LruIn
<1>2. m \in Seq(G) /\ Len(m) = Len(l) + 1 /\ DOMAIN m = 1..(Len(l) + 1)
  BY <1>1
<1>3. m[Len(l) + 1] = e /\ \A i \in 1..Len(l) : m[i] = l[i]
  BY <1>1
<1> HIDE DEF m
<1>4. ASSUME NEW i \in DOMAIN m, NEW j \in DOMAIN m, KeyOf(m[i]) = KeyOf(m[j])
      PROVE  i = j
  <2>1. CASE i \in 1..Len(l) /\ j \in 1..Len(l)
    BY <1>1, <1>3, <1>4, <2>1 DEF LruIn, Distinct
  <2>2. CASE i = Len(l) + 1 /\ j \in 1..Len(l)
    BY <1>1, <1>3, <1>4, <2>2 DEF Without
  <2>3. CASE i \in 1..Len(l) /\ j = Len(l) + 1
    BY <1>1, <1>3, <1>4, <2>3 DEF Without
  <2>4. CASE i = Len(l) + 1 /\ j = Len(l) + 1
    BY <2>4
  <2> QED BY <1>1, <1>2, <2>1, <2>2, <2>3, <2>4
<1> QED BY <1>1, <1>2, <1>4 DEF LruIn, Distinct, m

LEMMA PutSound ==
  ASSUME NEW G, NEW l, LruIn(l, MaxEntries, G), NEW e \in G
  PROVE  LruIn(Put(l, e), MaxEntries, G)
<1> DEFINE m == Append(Pop(l, KeyOf(e)), e)
<1>1. MaxEntries \in Nat \ {0}
  BY CacheAssumption
<1>2. LruIn(Pop(l, KeyOf(e)), MaxEntries, G) /\ Without(Pop(l, KeyOf(e)), KeyOf(e))
  BY <1>1, PopSound
<1>3. LruIn(m, MaxEntries + 1, G)
  BY <1>1, <1>2, AppendSound
<1>4. Put(l, e) = IF Len(m) > MaxEntries THEN DropAt(m, 1) ELSE m
  BY DEF Put
<1> HIDE DEF m
<1>5. CASE Len(m) > MaxEntries
  <2>1. 1 \in 1..Len(m) /\ MaxEntries + 1 \in Nat /\ (MaxEntries + 1) - 1 = MaxEntries
    BY <1>1, <1>3, <1>5 DEF LruIn
  <2>2. LruIn(DropAt(m, 1), (MaxEntries + 1) - 1, G)
    BY <1>3, <2>1, DropAtSound
  <2> QED BY <1>4, <1>5, <2>1, <2>2
<1>6. CASE ~(Len(m) > MaxEntries)
  BY <1>1, <1>3, <1>4, <1>6 DEF LruIn
<1> QED BY <1>5, <1>6

-----------------------------------------------------------------------------
(* Operations. *)

LEMMA NewCacheSound ==
  ASSUME NEW G
  PROVE  CacheIn(NewCache, G) /\ NewCache.active = None
<1>1. Len(<<>>) <= MaxEntries /\ Distinct(<<>>)
  BY CacheAssumption DEF Distinct
<1> QED BY <1>1 DEF NewCache, CacheIn, LruIn

\* store(): the new entry is the active one.
LEMMA StoredSound ==
  ASSUME NEW G, NEW c, CacheIn(c, G), NEW e \in G
  PROVE  CacheIn(Stored(c, e), G) /\ Stored(c, e).active = e
<1>1. LruIn(Put(c.lru, e), MaxEntries, G)
  BY PutSound DEF CacheIn
<1> QED BY <1>1 DEF Stored, CacheIn, LruIn

\* store_in_lru_only(): the active entry stays.
LEMMA StoredInLruSound ==
  ASSUME NEW G, NEW c, CacheIn(c, G), NEW e \in G
  PROVE  CacheIn(StoredInLru(c, e), G) /\ StoredInLru(c, e).active = c.active
<1>1. LruIn(Put(c.lru, e), MaxEntries, G)
  BY PutSound DEF CacheIn
<1> QED BY <1>1 DEF StoredInLru, CacheIn, LruIn

\* invalidate(): no entry is active, for every reason.
LEMMA InvalidatedSound ==
  ASSUME NEW G, NEW c, CacheIn(c, G), NEW reason
  PROVE  CacheIn(Invalidated(c, reason), G) /\ Invalidated(c, reason).active = None
<1> DEFINE l == IF reason \in Hard /\ c.active # None THEN Pop(c.lru, KeyOf(c.active)) ELSE c.lru
<1>1. LruIn(l, MaxEntries, G)
  BY PopSound, CacheAssumption DEF CacheIn
<1>2. Invalidated(c, reason) = [c EXCEPT !.active = None, !.lru = l]
  BY DEF Invalidated, CacheIn
<1> HIDE DEF l
<1> QED BY <1>1, <1>2 DEF CacheIn, LruIn

LEMMA ClearedSound ==
  ASSUME NEW G, NEW c, CacheIn(c, G)
  PROVE  CacheIn(Cleared(c), G) /\ Cleared(c).active = None
<1> DEFINE l == <<>>
<1>1. LruIn(l, MaxEntries, G)
  BY CacheAssumption DEF LruIn, Distinct
<1>2. Cleared(c) = [c EXCEPT !.active = None, !.lru = l]
  BY DEF Cleared, CacheIn
<1> HIDE DEF l
<1> QED BY <1>1, <1>2 DEF CacheIn, LruIn

\* lookup(): it only moves, or drops, the entry under the key.
LEMMA LookedUpSound ==
  ASSUME NEW G, NEW c, CacheIn(c, G), NEW url, NEW expired
  PROVE  /\ Found(c.lru, url, expired) \in G \cup {None}
         /\ CacheIn([c EXCEPT !.lru = LookedUp(@, url, expired)], G)
         /\ [c EXCEPT !.lru = LookedUp(@, url, expired)].active = c.active
<1> DEFINE e == Found(c.lru, url, expired)
<1>1. LruIn(c.lru, MaxEntries, G) /\ c.lru \in Seq(G) /\ MaxEntries \in Nat
  BY CacheAssumption DEF CacheIn, LruIn
<1>2. CASE Positions(c.lru, Key[url]) = {} \/ expired
  <2>1. e = None
    BY <1>2 DEF Found
  <2>2. LookedUp(c.lru, url, expired) = Pop(c.lru, Key[url])
    BY <2>1 DEF LookedUp
  <2>3. LruIn(LookedUp(c.lru, url, expired), MaxEntries, G)
    BY <1>1, <2>2, PopSound
  <2> QED BY <2>1, <2>3 DEF CacheIn, LruIn
<1>3. CASE Positions(c.lru, Key[url]) # {} /\ ~expired
  <2>1. PICK k \in Positions(c.lru, Key[url]) : e = c.lru[k]
    BY <1>3 DEF Found
  <2>2. e \in G /\ KeyOf(e) = Key[url]
    BY <1>1, <2>1 DEF Positions
  <2>3. LruIn(Pop(c.lru, Key[url]), MaxEntries - 1, G) /\ Without(Pop(c.lru, Key[url]), Key[url])
    BY <1>1, <1>3, PopSound
  <2>4. MaxEntries - 1 \in Nat /\ (MaxEntries - 1) + 1 = MaxEntries
    BY CacheAssumption
  <2> HIDE DEF e
  <2>5. LruIn(Append(Pop(c.lru, Key[url]), e), MaxEntries, G)
    BY <2>2, <2>3, <2>4, AppendSound
  <2>6. CASE e = None
    <3>1. LookedUp(c.lru, url, expired) = Pop(c.lru, Key[url])
      BY <2>6 DEF LookedUp, e
    <3>2. LruIn(LookedUp(c.lru, url, expired), MaxEntries, G)
      BY <1>1, <3>1, PopSound
    <3> QED BY <2>2, <3>2 DEF CacheIn, LruIn, e
  <2>7. CASE e # None
    <3>1. LookedUp(c.lru, url, expired) = Append(Pop(c.lru, Key[url]), e)
      BY <2>7 DEF LookedUp, e
    <3>2. LruIn(LookedUp(c.lru, url, expired), MaxEntries, G)
      BY <2>5, <3>1
    <3> QED BY <2>2, <3>2 DEF CacheIn, LruIn, e
  <2> QED BY <2>6, <2>7
<1> QED BY <1>2, <1>3

-----------------------------------------------------------------------------
(* The inductive invariant. *)

\* m shows the DOM d, with refs found on a DOM of the same structure.
Describes(m, d) == m.dom = d /\ Struct[m.refs] = Struct[d]

\* The page changes only between tools.
Quiet == "during" \notin Env

\* The entries a cache may hold: one with a fingerprint describes the DOM of that fingerprint.
Good == {x \in Entry : Quiet /\ x.fp # None => Describes(x.map, x.fp)}

CacheGood == CacheIn(cache, Good)

\* What a stage relies on.
StageShape ==
  /\ tool.at \in {"validate", "refingerprint"} => tool.map \in Map
  /\ tool.at = "popup" => tool.popup \in Pages
  /\ tool.at \in {"dismiss", "rebuild", "refingerprint"} => AutoDismiss

\* The active map, if there is one, is the one the agent was last shown, or is about to be.
\* The exception is a get_page_map that was cancelled at the dismissal of a barrier.
ShownPart ==
  \/ cache.active = None
  \/ tool.at \notin {"answer", "dismiss", "rebuild", "refingerprint"}
       /\ (ActiveMap(cache) = agent.map \/ (AutoDismiss /\ agent.told = "retry"))
  \/ tool.at \in {"answer", "dismiss"} /\ ActiveMap(cache) = tool.map

ExpiredPart ==
  agent.told = "expired" => cache.active = None \/ tool.at \in {"answer", "dismiss"}

\* What get_page_map knows of the page at each of its stages.
QuietPart ==
  Quiet =>
    /\ tool.at \in {"tier", "build", "validate"} => tool.fp \in {None, page.dom}
    /\ tool.at = "build" /\ tool.base # None => Struct[tool.base.refs] = Struct[page.dom]
    /\ tool.at \in {"validate", "dismiss", "refingerprint"} => Describes(tool.map, page.dom)
    /\ tool.at = "answer" =>
         cache.active = None \/ tool.clicked \/ Describes(tool.map, page.dom)

PageInv == PageTypeOK /\ CacheGood /\ StageShape /\ ShownPart /\ ExpiredPart /\ QuietPart

-----------------------------------------------------------------------------
(* Data. *)

LEMMA PageFacts ==
  /\ \A p \in Pages : p.url \in Urls /\ p.dom \in Doms
  /\ BlankPage \in Pages /\ PopupPages \subseteq Pages
  /\ None \notin Urls /\ None \notin Doms /\ None \notin Pages /\ None \notin Map /\ None \notin Entry
BY CacheAssumption, ToolsAssumption DEF Urls, Doms

LEMMA BuiltFacts ==
  ASSUME NEW p \in Pages
  PROVE  /\ Built(p) \in Map /\ Describes(Built(p), p.dom)
         /\ \A m \in Map : /\ Refreshed(m, p) \in Map
                           /\ Struct[m.refs] = Struct[p.dom] => Describes(Refreshed(m, p), p.dom)
BY PageFacts DEF Built, Refreshed, Map, Describes

LEMMA EntryFacts ==
  ASSUME NEW m \in Map, NEW fp \in Doms \cup {None}, Quiet /\ fp # None => Describes(m, fp)
  PROVE  EntryOf(m, fp) \in Good /\ EntryOf(m, fp).map = m /\ EntryOf(m, fp) # None
<1>1. EntryOf(m, fp) \in Entry
  BY DEF EntryOf, Entry
<1> QED BY <1>1, PageFacts DEF EntryOf, Good

LEMMA GoodIsEntry == Good \subseteq Entry
BY DEF Good

\* A sound cache is a cache.
LEMMA CacheGoodType == CacheGood => cache \in Cache /\ LruSound
<1> SUFFICES ASSUME CacheGood PROVE cache \in Cache /\ LruSound
  OBVIOUS
<1>1. /\ cache \in [active : Good \cup {None}, lru : Seq(Good), remaps : Nat]
      /\ LruIn(cache.lru, MaxEntries, Good)
  BY DEF CacheGood, CacheIn
<1>2. cache.lru \in Seq(Entry)
  BY <1>1, GoodIsEntry
<1>3. cache \in Cache
  BY <1>1, <1>2, GoodIsEntry DEF Cache
<1> QED BY <1>1, <1>3 DEF LruIn, Distinct, LruSound

LEMMA NoToolIsTool == NoTool \in Tool /\ NoTool.at = "idle"
BY DEF NoTool, Tool, Stage, GettingSession

LEMMA FirstStages ==
  FirstStage \in {"navigate", "fingerprint", "before", "back", "scroll", "wait", "look", "batch", "fetch"}
BY DEF FirstStage, ToolIs

-----------------------------------------------------------------------------
(* Ways a step may end. *)

\* The stages at which get_page_map knows something of the page or of a map not yet shown,
\* and the one that holds a popup.
Special == {"tier", "build", "validate", "dismiss", "rebuild", "refingerprint", "answer", "popup"}
Showing == {"answer", "dismiss", "rebuild", "refingerprint"}

World ==
  /\ page \in Pages
  /\ popup \in PopupPages \cup {None}
  /\ up \in BOOLEAN
  /\ web \in {"none", "live", "stale"}

Agent == [map : Map \cup {None}, told : {"nothing", "shown", "expired", "retry"}]
Plain == tool \in Tool /\ tool.at \notin Special

LEMMA InvFacts ==
  ASSUME PageInv
  PROVE  /\ World /\ agent \in Agent /\ tool \in Tool /\ CacheGood
         /\ page.url \in Urls /\ page.dom \in Doms
         /\ cache.active \in Good \cup {None}
BY PageFacts DEF PageInv, PageTypeOK, World, Agent, CacheGood, CacheIn

LEMMA TypeFromParts ==
  ASSUME World', tool' \in Tool, agent' \in Agent, CacheGood'
  PROVE  PageTypeOK'
<1>1. (cache \in Cache)'
  BY CacheGoodType, PTL
<1> QED BY <1>1 DEF PageTypeOK, World, Agent

\* A stage outside Special asks nothing of the page or of the tool.
LEMMA PlainStep ==
  ASSUME World', Plain', CacheGood', agent' \in Agent,
         \/ cache'.active = None
         \/ ActiveMap(cache') = agent'.map
         \/ AutoDismiss /\ agent'.told = "retry",
         agent'.told = "expired" => cache'.active = None
  PROVE  PageInv'
<1>2. PageTypeOK'
  BY TypeFromParts DEF Plain
<1>3. StageShape' /\ QuietPart'
  BY DEF StageShape, QuietPart, Plain, Special
<1>4. ShownPart' /\ ExpiredPart'
  BY DEF ShownPart, ExpiredPart, Plain, Special
<1> QED BY <1>2, <1>3, <1>4 DEF PageInv

\* The active entry and what the agent knows stay.
LEMMA KeepsStep ==
  ASSUME PageInv, tool.at \notin Showing, World', Plain', CacheGood',
         cache'.active = cache.active, UNCHANGED agent
  PROVE  PageInv'
<1>1. ActiveMap(cache') = ActiveMap(cache)
  BY DEF ActiveMap
<1>2. ShownPart /\ ExpiredPart /\ agent \in Agent
  BY InvFacts DEF PageInv
<1> QED BY <1>1, <1>2, PlainStep DEF ShownPart, ExpiredPart, Showing

\* The active entry is dropped.
LEMMA DropsStep ==
  ASSUME World', Plain', CacheGood', cache'.active = None, agent' \in Agent
  PROVE  PageInv'
BY PlainStep

LEMMA GotoFacts ==
  ASSUME PageInv, NEW stage \in Stage, Goto(stage)
  PROVE  tool' \in Tool /\ tool'.at = stage /\ tool' = [tool EXCEPT !.at = stage]
<1>1. tool \in Tool
  BY InvFacts
<1> QED BY <1>1 DEF Goto, Tool

LEMMA SilentFacts ==
  ASSUME PageInv, Silent
  PROVE  Plain' /\ UNCHANGED agent
BY NoToolIsTool DEF Silent, Plain, Special

LEMMA SaysFacts ==
  ASSUME PageInv, NEW told \in {"nothing", "shown", "expired", "retry"}, Says(told)
  PROVE  Plain' /\ agent' \in Agent /\ agent'.told = told /\ agent'.map = agent.map
<1>1. agent \in Agent
  BY InvFacts
<1>2. agent' = [agent EXCEPT !.told = told] /\ tool' = NoTool
  BY DEF Says
<1> QED BY <1>1, <1>2, NoToolIsTool DEF Agent, Plain, Special

LEMMA ExpireFacts ==
  ASSUME PageInv, NEW reason, Expire(reason)
  PROVE  Plain' /\ agent' \in Agent /\ CacheGood' /\ cache'.active = None
<1>1. cache' = Invalidated(cache, reason) /\ Says("expired")
  BY DEF Expire
<1>2. CacheIn(Invalidated(cache, reason), Good) /\ Invalidated(cache, reason).active = None
  BY InvFacts, InvalidatedSound DEF CacheGood
<1>3. CacheGood' /\ cache'.active = None
  BY <1>1, <1>2 DEF CacheGood
<1> QED BY <1>1, <1>3, SaysFacts

LEMMA DroppedFacts ==
  ASSUME PageInv, SessionDropped
  PROVE  /\ page' \in Pages /\ popup' \in PopupPages \cup {None}
         /\ CacheGood' /\ cache'.active = None
<1>1. CacheIn(Cleared(cache), Good) /\ Cleared(cache).active = None
  BY InvFacts, ClearedSound DEF CacheGood
<1> QED BY <1>1, PageFacts DEF SessionDropped, CacheGood

LEMMA SameCache ==
  ASSUME PageInv, UNCHANGED cache
  PROVE  CacheGood' /\ cache'.active = cache.active
BY InvFacts DEF CacheGood

LEMMA ReactsFacts ==
  ASSUME PageInv, PageReacts
  PROVE  page' \in Pages /\ popup' \in PopupPages \cup {None}
BY InvFacts DEF PageReacts, World

LEMMA WithSessionFacts ==
  ASSUME PageInv, NEW url, WithSession(url)
  PROVE  Plain' /\ UNCHANGED agent /\ tool.at \notin Showing
<1>1. CASE At("session") /\ Goto(FirstStage) /\ UNCHANGED agent
  <2>1. FirstStage \in Stage
    BY FirstStages DEF Stage
  <2> QED BY <1>1, <2>1, GotoFacts, FirstStages DEF At, Plain, Special, Showing
<1>2. CASE At("diagnose") /\ Goto("remap_session") /\ UNCHANGED agent
  <2>1. "remap_session" \in Stage
    BY DEF Stage, GettingSession
  <2> QED BY <1>2, <2>1, GotoFacts DEF At, Plain, Special, Showing
<1>3. CASE At("diagnose") /\ Silent
  BY <1>3, SilentFacts DEF At, Showing
<1>4. CASE At("remap_session") /\ Goto("remap") /\ UNCHANGED agent
  <2>1. "remap" \in Stage
    BY DEF Stage
  <2> QED BY <1>4, <2>1, GotoFacts DEF At, Plain, Special, Showing
<1> QED BY <1>1, <1>2, <1>3, <1>4 DEF WithSession

-----------------------------------------------------------------------------
(* The beginning of a call, and get_session(). *)

LEMMA BeginsStep ==
  ASSUME PageInv, Begins
  PROVE  PageInv'
<1> USE DEF Showing
<1>1. World /\ tool \in Tool /\ agent \in Agent
  BY InvFacts
<1>2. ASSUME tool = NoTool, UNCHANGED <<page, popup, up, web, cache, agent>>, Plain'
      PROVE  PageInv'
  BY <1>1, <1>2, NoToolIsTool, SameCache, KeepsStep DEF World
<1>3. ASSUME NEW name \in Used, Start(name)
      PROVE  PageInv'
  <2>1. PICK url \in BOOLEAN : tool' = [NoTool EXCEPT !.name = name, !.at = "session", !.url = url]
    BY <1>3 DEF Start
  <2>2. name \in ToolNames
    BY ToolsAssumption
  <2>3. Plain'
    BY <2>1, <2>2 DEF Plain, Special, NoTool, Tool, Stage, GettingSession
  <2> QED BY <1>2, <1>3, <2>3 DEF Start
<1>4. ASSUME NEW name \in Used, StartWithRef(name)
      PROVE  PageInv'
  <2>1. cache.active \in Entry /\ name \in ToolNames
    BY <1>4, InvFacts, GoodIsEntry, ToolsAssumption DEF StartWithRef
  <2>2. ActiveMap(cache) \in Map
    BY <1>4, <2>1 DEF ActiveMap, Entry, StartWithRef
  <2>3. tool' = [NoTool EXCEPT !.name = name, !.at = "session", !.map = ActiveMap(cache)]
    BY <1>4 DEF StartWithRef
  <2>4. Plain'
    BY <2>1, <2>2, <2>3 DEF Plain, Special, NoTool, Tool, Stage, GettingSession
  <2> QED BY <1>2, <1>4, <2>4 DEF StartWithRef
<1>5. CASE RefuseRef
  <2>1. agent' \in Agent
    BY <1>1, <1>5 DEF RefuseRef, Agent
  <2>2. World' /\ Plain' /\ CacheGood' /\ cache'.active = None
    BY <1>1, <1>5, NoToolIsTool, SameCache DEF RefuseRef, World, Plain, Special
  <2> QED BY <2>1, <2>2, DropsStep
<1>6. CASE StartFetch
  <2>1. Plain'
    BY <1>6 DEF StartFetch, Plain, Special, NoTool, Tool, ToolNames, Stage, GettingSession
  <2> QED BY <1>2, <1>6, <2>1 DEF StartFetch
<1> QED BY <1>3, <1>4, <1>5, <1>6 DEF Begins

LEMMA GetSessionStep ==
  ASSUME PageInv, GetSession
  PROVE  PageInv'
<1>1. World /\ agent \in Agent
  BY InvFacts
<1>2. Attached(web) \in {"none", "live", "stale"} /\ Detached \in {"none", "live", "stale"}
      /\ Attached(Detached) \in {"none", "live", "stale"}
  BY <1>1 DEF Attached, Detached, World
<1>3. CASE SessionReady
  <2>1. WithSession(page.url) /\ UNCHANGED <<page, popup, up, cache>> /\ web' = Attached(web)
    BY <1>3 DEF SessionReady
  <2>2. World'
    BY <1>1, <1>2, <2>1 DEF World
  <2> QED BY <2>1, <2>2, WithSessionFacts, SameCache, KeepsStep
<1>4. CASE SessionRenewed
  <2>1. SessionDropped /\ up' = TRUE /\ web' = Attached(Detached) /\ WithSession(BlankPage.url)
    BY <1>4 DEF SessionRenewed
  <2>2. World' /\ CacheGood' /\ cache'.active = None
    BY <1>2, <2>1, DroppedFacts DEF World
  <2> QED BY <1>1, <2>1, <2>2, WithSessionFacts, DropsStep
<1>5. CASE SessionFails
  <2>1. SessionDropped /\ up' \in BOOLEAN /\ web' = Detached
    BY <1>5 DEF SessionFails
  <2>2. World' /\ CacheGood' /\ cache'.active = None
    BY <1>2, <2>1, DroppedFacts DEF World
  <2>3. \/ Goto("remap_session") /\ UNCHANGED agent
        \/ Goto("diagnose") /\ UNCHANGED agent
        \/ Says("expired")
        \/ Silent
    BY <1>5 DEF SessionFails
  <2>4. "remap_session" \in Stage /\ "diagnose" \in Stage
    BY DEF Stage, GettingSession
  <2>5. Plain' /\ agent' \in Agent
    BY <1>1, <2>3, <2>4, GotoFacts, SaysFacts, SilentFacts DEF Plain, Special
  <2> QED BY <2>2, <2>5, DropsStep
<1> QED BY <1>3, <1>4, <1>5 DEF GetSession

-----------------------------------------------------------------------------
(* execute_action and fill_form. *)

\* A step that keeps the cache and ends in a stage outside Special, or the call.
LEMMA QuickStep ==
  ASSUME PageInv, tool.at \notin Showing, UNCHANGED <<up, web, cache, agent>>,
         page' \in Pages, popup' \in PopupPages \cup {None}, Plain'
  PROVE  PageInv'
<1>1. World'
  BY InvFacts DEF World
<1> QED BY <1>1, SameCache, KeepsStep

LEMMA ActOnRefStep ==
  ASSUME PageInv, ActOnRef
  PROVE  PageInv'
<1> USE DEF Showing
<1>1. World /\ tool \in Tool /\ agent \in Agent /\ page.dom \in Doms
  BY InvFacts
<1>2. {"act", "settled", "diagnose", "url", "after"} \subseteq Stage
  BY DEF Stage, GettingSession
<1>3. CASE FingerprintBefore
  <2>1. PICK fp \in Fingerprints(page) : tool' = [tool EXCEPT !.fp = fp, !.at = "act"]
    BY <1>3 DEF FingerprintBefore
  <2>2. fp \in Doms \cup {None}
    BY <1>1 DEF Fingerprints
  <2>3. Plain'
    BY <1>1, <1>2, <2>1, <2>2 DEF Plain, Special, Tool
  <2> QED BY <1>1, <1>3, <2>3, QuickStep DEF FingerprintBefore, At, World
<1>4. CASE Act
  <2>1. Plain'
    BY <1>2, <1>4, GotoFacts DEF Act, Plain, Special
  <2> QED BY <1>4, <2>1, ReactsFacts, QuickStep DEF Act, At
<1>5. CASE ActFails
  <2>1. page' \in Pages /\ popup' \in PopupPages \cup {None}
    BY <1>1, <1>5, ReactsFacts DEF ActFails, World
  <2>2. Plain' /\ UNCHANGED agent
    BY <1>2, <1>5, GotoFacts, SilentFacts DEF ActFails, Plain, Special
  <2> QED BY <1>5, <2>1, <2>2, QuickStep DEF ActFails, At
<1>6. CASE CheckPopup
  <2>1. World' /\ CacheGood' /\ UNCHANGED <<cache, agent>>
    BY <1>1, <1>6, SameCache DEF CheckPopup, World
  <2>2. CASE Goto("url")
    <3>1. Plain'
      BY <1>2, <2>2, GotoFacts DEF Plain, Special
    <3> QED BY <1>6, <2>1, <3>1, KeepsStep DEF CheckPopup, At
  <2>3. CASE popup # None /\ tool' = [tool EXCEPT !.at = "popup", !.popup = popup]
    <3>1. popup \in Pages /\ tool.at = "settled"
      BY <1>1, <1>6, <2>3, PageFacts DEF World, CheckPopup, At
    <3>2. tool' \in Tool /\ tool'.at = "popup" /\ tool'.popup \in Pages
      BY <1>1, <2>3, <3>1 DEF Tool, Stage
    <3>3. PageTypeOK'
      BY <1>1, <2>1, <3>2, TypeFromParts
    <3>4. StageShape' /\ QuietPart'
      BY <3>2 DEF StageShape, QuietPart
    <3>5. ShownPart' /\ ExpiredPart'
      BY <2>1, <3>1, <3>2 DEF PageInv, ShownPart, ExpiredPart, ActiveMap
    <3> QED BY <2>1, <3>3, <3>4, <3>5 DEF PageInv
  <2> QED BY <1>6, <2>2, <2>3 DEF CheckPopup
<1>7. CASE PopupBlocked
  BY <1>1, <1>7, SilentFacts, QuickStep DEF PopupBlocked, At, World
<1>8. CASE SwitchToPopup
  <2>1. World'
    BY <1>1, <1>8 DEF SwitchToPopup, At, World, PageInv, StageShape
  <2> QED BY <1>8, <2>1, ExpireFacts, DropsStep DEF SwitchToPopup
<1>9. CASE Navigated
  <2>1. World'
    BY <1>1, <1>9, PageFacts DEF Navigated, LeaveBlocked, World
  <2>2. \E reason \in {"ssrf_blocked", "navigation"} : Expire(reason)
    BY <1>9 DEF Navigated, LeaveBlocked
  <2> QED BY <2>1, <2>2, ExpireFacts, DropsStep
<1>10. CASE SameUrl
  <2>1. Plain' /\ UNCHANGED agent
    BY <1>2, <1>10, GotoFacts, SilentFacts DEF SameUrl, Plain, Special
  <2> QED BY <1>1, <1>10, <2>1, QuickStep DEF SameUrl, At, World
<1>11. CASE DomChanged
  <2>1. World'
    BY <1>1, <1>11 DEF DomChanged, World
  <2> QED BY <1>11, <2>1, ExpireFacts, DropsStep DEF DomChanged
<1>12. CASE DomUnchanged
  BY <1>1, <1>12, SilentFacts, QuickStep DEF DomUnchanged, At, World
<1>13. CASE Remap
  <2> DEFINE m == Built(page)
             s == Stored(cache, EntryOf(m, None))
  <2>1. m \in Map /\ EntryOf(m, None) \in Good /\ EntryOf(m, None).map = m /\ EntryOf(m, None) # None
    BY <1>1, BuiltFacts, EntryFacts DEF World
  <2>2. CacheIn(s, Good) /\ s.active = EntryOf(m, None) /\ cache.remaps \in Nat
    BY <2>1, InvFacts, StoredSound DEF CacheGood, CacheIn
  <2>3. /\ cache' = [s EXCEPT !.remaps = cache.remaps + 1]
        /\ agent' = [map |-> m, told |-> "shown"] /\ tool' = NoTool
        /\ UNCHANGED <<page, popup, up, web>>
    BY <1>13 DEF Remap
  <2> HIDE DEF s, m
  <2>4. CacheGood' /\ cache'.active = s.active
    BY <2>2, <2>3 DEF CacheGood, CacheIn
  <2>5. ActiveMap(cache') = agent'.map /\ agent' \in Agent /\ agent'.told = "shown"
    BY <2>1, <2>2, <2>3, <2>4 DEF ActiveMap, Agent
  <2>6. World' /\ Plain'
    BY <1>1, <2>3, NoToolIsTool DEF World, Plain, Special
  <2> QED BY <2>4, <2>5, <2>6, PlainStep
<1>14. CASE RemapFails
  BY <1>1, <1>14, SilentFacts, QuickStep DEF RemapFails, At, World
<1> QED BY <1>3, <1>4, <1>5, <1>6, <1>7, <1>8, <1>9, <1>10, <1>11, <1>12, <1>13, <1>14 DEF ActOnRef

-----------------------------------------------------------------------------
(* The other tools, the ends of cut tools, and the environment. *)

LEMMA OtherToolsStep ==
  ASSUME PageInv, OtherTools
  PROVE  PageInv'
<1> USE DEF Showing
<1>1. World /\ tool \in Tool /\ agent \in Agent
  BY InvFacts
<1>2. CASE WentBack
  <2>1. World'
    BY <1>1, <1>2, PageFacts DEF WentBack, LeaveBlocked, World
  <2>2. \E reason \in {"ssrf_blocked", "navigation"} : Expire(reason)
    BY <1>2 DEF WentBack, LeaveBlocked
  <2> QED BY <2>1, <2>2, ExpireFacts, DropsStep
<1>3. CASE BackFails
  BY <1>1, <1>3, SilentFacts, QuickStep DEF BackFails, At, World
<1>4. CASE BackTimesOut
  <2>1. World'
    BY <1>1, <1>4 DEF BackTimesOut, World
  <2> QED BY <1>4, <2>1, ExpireFacts, DropsStep DEF BackTimesOut
<1>5. CASE Scroll
  <2>1. World'
    BY <1>1, <1>5 DEF Scroll, World
  <2>2. CASE UNCHANGED cache /\ Silent
    BY <1>5, <2>1, <2>2, SilentFacts, SameCache, KeepsStep DEF Scroll, At
  <2>3. CASE \E reason \in {"scroll", "timeout"} : Expire(reason)
    BY <2>1, <2>3, ExpireFacts, DropsStep
  <2> QED BY <1>5, <2>2, <2>3 DEF Scroll
<1>6. CASE WaitFor
  <2>1. World'
    BY <1>1, <1>6 DEF WaitFor, World
  <2>2. CASE UNCHANGED <<page, cache>> /\ Silent
    BY <1>6, <2>1, <2>2, SilentFacts, SameCache, KeepsStep DEF WaitFor, At
  <2>3. CASE Expire("wait_for")
    BY <2>1, <2>3, ExpireFacts, DropsStep
  <2> QED BY <1>6, <2>2, <2>3 DEF WaitFor
<1>7. CASE Look
  BY <1>1, <1>7, SilentFacts, QuickStep DEF Look, At, World
<1>8. CASE BatchStore
  <2>1. PICK p \in Pages : \E fp \in Fingerprints(p) : cache' = StoredInLru(cache, EntryOf(Built(p), fp))
    BY <1>8 DEF BatchStore
  <2> PICK fp \in Fingerprints(p) : cache' = StoredInLru(cache, EntryOf(Built(p), fp))
    BY <2>1
  <2>2. fp \in {None, p.dom} /\ p.dom \in Doms
    BY <2>1, PageFacts DEF Fingerprints
  <2>3. EntryOf(Built(p), fp) \in Good
    BY <2>2, BuiltFacts, EntryFacts
  <2>4. CacheGood' /\ cache'.active = cache.active
    BY <2>1, <2>3, InvFacts, StoredInLruSound DEF CacheGood
  <2>5. World' /\ Plain' /\ UNCHANGED agent /\ tool.at = "batch"
    BY <1>1, <1>8 DEF BatchStore, World, Plain, Special, At
  <2> QED BY <2>4, <2>5, KeepsStep
<1>9. CASE BatchEnds
  BY <1>1, <1>9, SilentFacts, QuickStep DEF BatchEnds, At, World
<1>10. CASE Fetch
  <2>1. page' \in Pages
    BY <1>1, <1>10 DEF Fetch, World
  <2> QED BY <1>1, <1>10, <2>1, SilentFacts, QuickStep DEF Fetch, At, World
<1> QED BY <1>2, <1>3, <1>4, <1>5, <1>6, <1>7, <1>8, <1>9, <1>10 DEF OtherTools

\* What a cut leaves behind.
LEMMA CutFacts ==
  ASSUME PageInv
  PROVE  /\ CutElsewhere => World'
         /\ CutSession => World' /\ CacheGood' /\ cache'.active = None
<1>1. World
  BY InvFacts
<1>2. ASSUME CutElsewhere PROVE World'
  <2>1. page' \in Pages /\ popup' \in PopupPages \cup {None}
    BY <1>1, <1>2, ReactsFacts DEF CutElsewhere, CutPage, World
  <2> QED BY <1>1, <1>2, <2>1 DEF CutElsewhere, World
<1>3. ASSUME CutSession PROVE World' /\ CacheGood' /\ cache'.active = None
  <2>1. SessionDropped /\ up' \in BOOLEAN /\ web' = Detached
    BY <1>3 DEF CutSession
  <2> QED BY <1>1, <2>1, DroppedFacts DEF World, Detached
<1> QED BY <1>2, <1>3

LEMMA CutStep ==
  ASSUME PageInv, Cut
  PROVE  PageInv'
<1>1. CASE BrowserDead
  <2>1. World'
    BY <1>1, InvFacts DEF BrowserDead, World
  <2> QED BY <1>1, <2>1, ExpireFacts, DropsStep DEF BrowserDead
<1>2. CASE CutSession /\ Says("expired")
  BY <1>2, CutFacts, SaysFacts, DropsStep
<1>3. CASE CutElsewhere /\ Expire("timeout")
  BY <1>3, CutFacts, ExpireFacts, DropsStep
<1> QED BY <1>1, <1>2, <1>3 DEF Cut, TimesOut

\* An answer is not awaited: nothing of the environment happens there.
LEMMA EnvironmentStep ==
  ASSUME PageInv, Environment
  PROVE  PageInv'
<1>1. World /\ tool \in Tool /\ agent \in Agent
  BY InvFacts
<1>2. CASE PageChanges \/ PopupOpens
  <2>1. World' /\ UNCHANGED <<cache, agent, tool>> /\ CacheGood'
    BY <1>1, <1>2, SameCache, PageFacts DEF PageChanges, PopupOpens, World
  <2>2. PageTypeOK' /\ StageShape' /\ ShownPart' /\ ExpiredPart'
    <3>1. PageTypeOK'
      BY <1>1, <2>1, TypeFromParts
    <3>2. StageShape' /\ ExpiredPart'
      BY <2>1 DEF PageInv, StageShape, ExpiredPart
    <3>3. ShownPart'
      BY <2>1 DEF PageInv, ShownPart, ActiveMap
    <3> QED BY <3>1, <3>2, <3>3
  <2>3. QuietPart'
    <3>1. CASE Quiet
      <4>1. tool = NoTool
        BY <1>2, <3>1 DEF Quiet, PageChanges, PopupOpens, Restless
      <4> QED BY <2>1, <4>1, NoToolIsTool DEF QuietPart
    <3>2. CASE ~Quiet
      BY <3>2 DEF QuietPart, Quiet
    <3> QED BY <3>1, <3>2
  <2> QED BY <2>1, <2>2, <2>3 DEF PageInv
<1>3. CASE BrowserDies
  <2>1. World' /\ UNCHANGED <<page, cache, agent, tool>> /\ CacheGood'
    BY <1>1, <1>3, SameCache DEF BrowserDies, World
  <2>2. PageTypeOK'
    BY <1>1, <2>1, TypeFromParts
  <2>3. StageShape' /\ ExpiredPart' /\ QuietPart'
    BY <2>1 DEF PageInv, StageShape, ExpiredPart, QuietPart, Quiet
  <2>4. ShownPart'
    BY <2>1 DEF PageInv, ShownPart, ActiveMap
  <2> QED BY <2>1, <2>2, <2>3, <2>4 DEF PageInv
<1>4. CASE Cancel
  <2>1. Says("retry") /\ (CutSession \/ (CutElsewhere /\ UNCHANGED cache)) /\ tool.at # "answer"
    BY <1>4 DEF Cancel, Awaiting
  <2>2. Plain' /\ agent' \in Agent /\ agent'.told = "retry" /\ agent'.map = agent.map
    BY <2>1, SaysFacts
  <2>3. CASE CutSession
    BY <2>2, <2>3, CutFacts, DropsStep
  <2>4. CASE CutElsewhere /\ UNCHANGED cache
    <3>1. World' /\ CacheGood' /\ ActiveMap(cache') = ActiveMap(cache)
      BY <2>4, CutFacts, SameCache DEF ActiveMap
    <3>2. cache.active = None \/ ActiveMap(cache) = agent.map \/ AutoDismiss
      BY <2>1 DEF PageInv, ShownPart, StageShape
    <3> QED BY <2>2, <2>4, <3>1, <3>2, PlainStep
  <2> QED BY <2>1, <2>3, <2>4
<1> QED BY <1>2, <1>3, <1>4 DEF Environment

-----------------------------------------------------------------------------
(* get_page_map. *)

\* A step that keeps the cache on the way to a map: nothing is shown or expired by it.
LEMMA MappingStep ==
  ASSUME PageInv, tool.at \notin Showing, UNCHANGED <<page, popup, up, web, agent>>,
         tool' \in Tool, tool'.at \in {"tier", "build", "validate"}, CacheGood',
         cache'.active = cache.active, StageShape', QuietPart'
  PROVE  PageInv'
<1>1. World' /\ agent' \in Agent
  BY InvFacts DEF World
<1>2. PageTypeOK'
  BY <1>1, TypeFromParts
<1>3. ShownPart' /\ ExpiredPart'
  BY DEF PageInv, ShownPart, ExpiredPart, ActiveMap, Showing
<1> QED BY <1>2, <1>3 DEF PageInv

LEMMA TakeFingerprintStep ==
  ASSUME PageInv, TakeFingerprint
  PROVE  PageInv'
<1>1. tool \in Tool /\ page.dom \in Doms
  BY InvFacts
<1>2. PICK fp \in Fingerprints(page) : tool' = [tool EXCEPT !.fp = fp, !.at = "tier"]
  BY DEF TakeFingerprint
<1>3. fp \in {page.dom, None}
  BY DEF Fingerprints
<1>4. tool' \in Tool /\ tool'.at = "tier" /\ tool'.fp = fp
  BY <1>1, <1>2, <1>3 DEF Tool, Stage
<1>5. UNCHANGED <<page, popup, up, web, cache, agent>> /\ tool.at = "fingerprint"
  BY DEF TakeFingerprint, At
<1>6. StageShape' /\ QuietPart'
  BY <1>3, <1>4, <1>5 DEF StageShape, QuietPart
<1> QED BY <1>4, <1>5, <1>6, SameCache, MappingStep DEF Showing

\* Whichever entry the tiers compare with, it is a good one.
LEMMA ChooseTierStep ==
  ASSUME PageInv, ChooseTier
  PROVE  PageInv'
<1>1. tool \in Tool /\ page.dom \in Doms /\ tool.at = "tier" /\ UNCHANGED <<page, popup, up, web, agent>>
  BY InvFacts DEF ChooseTier, At
<1>2. PICK expired \in BOOLEAN, severity \in 0..2 :
        LET x == Candidate(expired)
            known == x # None /\ tool.fp # None /\ x.fp # None
            hit == known /\ tool.fp = x.fp /\ severity = 0
            refresh == known /\ Struct[tool.fp] = Struct[x.fp] /\ severity < 2
        IN  /\ cache' = IF FromLru THEN [cache EXCEPT !.lru = LookedUp(@, page.url, expired)] ELSE cache
            /\ tool' = CASE hit -> [tool EXCEPT !.at = "validate", !.map = x.map, !.base = x.map]
                         [] refresh /\ ~hit -> [tool EXCEPT !.at = "build", !.base = x.map]
                         [] OTHER -> [tool EXCEPT !.at = "build", !.base = None]
  BY DEF ChooseTier
<1> DEFINE x == Candidate(expired)
           known == x # None /\ tool.fp # None /\ x.fp # None
<1>3. x \in Good \cup {None} /\ CacheGood' /\ cache'.active = cache.active
  <2>1. /\ Found(cache.lru, page.url, expired) \in Good \cup {None}
        /\ CacheIn([cache EXCEPT !.lru = LookedUp(@, page.url, expired)], Good)
        /\ [cache EXCEPT !.lru = LookedUp(@, page.url, expired)].active = cache.active
    BY InvFacts, LookedUpSound DEF CacheGood
  <2>2. x \in Good \cup {None}
    BY <2>1, InvFacts DEF Candidate
  <2>3. CASE FromLru
    BY <1>2, <2>1, <2>2, <2>3 DEF CacheGood
  <2>4. CASE ~FromLru
    <3>1. UNCHANGED cache
      BY <1>2, <2>4
    <3> QED BY <2>2, <3>1, SameCache
  <2> QED BY <2>3, <2>4
<1>4. x # None => x.map \in Map /\ x.fp \in Doms \cup {None} /\ x # None
                  /\ (Quiet /\ x.fp # None => Describes(x.map, x.fp))
  BY <1>3, PageFacts DEF Good, Entry
<1>5. Quiet => tool.fp \in {None, page.dom}
  BY <1>1 DEF PageInv, QuietPart
<1>6. \/ known /\ tool.fp = x.fp
           /\ tool' = [tool EXCEPT !.at = "validate", !.map = x.map, !.base = x.map]
      \/ known /\ Struct[tool.fp] = Struct[x.fp] /\ tool' = [tool EXCEPT !.at = "build", !.base = x.map]
      \/ tool' = [tool EXCEPT !.at = "build", !.base = None]
  BY <1>2
<1> HIDE DEF x
<1>7. CASE /\ known /\ tool.fp = x.fp
           /\ tool' = [tool EXCEPT !.at = "validate", !.map = x.map, !.base = x.map]
  <2>1. tool' \in Tool /\ tool'.at = "validate" /\ tool'.map = x.map /\ tool'.fp = tool.fp
    BY <1>1, <1>4, <1>7 DEF Tool, Stage
  <2>2. StageShape' /\ QuietPart'
    BY <1>1, <1>4, <1>5, <1>7, <2>1 DEF StageShape, QuietPart, Quiet
  <2> QED BY <1>1, <1>3, <2>1, <2>2, MappingStep DEF Showing
<1>8. CASE known /\ Struct[tool.fp] = Struct[x.fp] /\ tool' = [tool EXCEPT !.at = "build", !.base = x.map]
  <2>1. tool' \in Tool /\ tool'.at = "build" /\ tool'.base = x.map /\ tool'.fp = tool.fp
    BY <1>1, <1>4, <1>8 DEF Tool, Stage
  <2>2. Quiet => Struct[x.map.refs] = Struct[page.dom]
    BY <1>4, <1>5, <1>8 DEF Describes
  <2>3. StageShape' /\ QuietPart'
    BY <1>1, <1>5, <2>1, <2>2 DEF StageShape, QuietPart, Quiet
  <2> QED BY <1>1, <1>3, <2>1, <2>3, MappingStep DEF Showing
<1>9. CASE tool' = [tool EXCEPT !.at = "build", !.base = None]
  <2>1. tool' \in Tool /\ tool'.at = "build" /\ tool'.base = None /\ tool'.fp = tool.fp
    BY <1>1, <1>9 DEF Tool, Stage
  <2>2. StageShape' /\ QuietPart'
    BY <1>1, <1>5, <2>1 DEF StageShape, QuietPart, Quiet
  <2> QED BY <1>1, <1>3, <2>1, <2>2, MappingStep DEF Showing
<1> QED BY <1>6, <1>7, <1>8, <1>9

\* Either build shows the page as it is.
LEMMA BuildStep ==
  ASSUME PageInv, Build
  PROVE  PageInv'
<1> DEFINE m == IF tool.base = None THEN Built(page) ELSE Refreshed(tool.base, page)
<1>1. /\ tool \in Tool /\ page \in Pages /\ tool.at = "build"
      /\ UNCHANGED <<page, popup, up, web, cache, agent>>
      /\ tool' = [tool EXCEPT !.at = "validate", !.map = m]
  BY InvFacts DEF Build, At, World
<1>2. tool.base = None \/ tool.base \in Map
  BY <1>1 DEF Tool
<1>3. m \in Map /\ (Quiet => Describes(m, page.dom))
  BY <1>1, <1>2, BuiltFacts DEF PageInv, QuietPart
<1> HIDE DEF m
<1>4. tool' \in Tool /\ tool'.at = "validate" /\ tool'.map = m /\ tool'.fp = tool.fp
  BY <1>1, <1>3 DEF Tool, Stage
<1>5. StageShape' /\ QuietPart'
  BY <1>1, <1>3, <1>4 DEF StageShape, QuietPart, Quiet, PageInv
<1> QED BY <1>1, <1>4, <1>5, SameCache, MappingStep DEF Showing

\* A step among the stages at which a map is stored but not yet shown.
LEMMA ShowingStep ==
  ASSUME World', tool' \in Tool, tool'.at \in Showing, agent' \in Agent, CacheGood',
         \/ cache'.active = None
         \/ tool'.at \in {"answer", "dismiss"} /\ ActiveMap(cache') = tool'.map,
         StageShape', QuietPart'
  PROVE  PageInv'
<1>1. PageTypeOK'
  BY TypeFromParts
<1>2. ShownPart' /\ ExpiredPart'
  BY DEF ShownPart, ExpiredPart, Showing
<1> QED BY <1>1, <1>2 DEF PageInv

\* Storing what describes the page with the page's fingerprint keeps the cache good.
LEMMA StoreFacts ==
  ASSUME PageInv, NEW fp \in {None, page.dom}, tool.map \in Map,
         Quiet => Describes(tool.map, page.dom)
  PROVE  /\ CacheIn(Stored(cache, EntryOf(tool.map, fp)), Good)
         /\ ActiveMap(Stored(cache, EntryOf(tool.map, fp))) = tool.map
<1>1. fp \in Doms \cup {None}
  BY InvFacts
<1>2. /\ EntryOf(tool.map, fp) \in Good /\ EntryOf(tool.map, fp).map = tool.map
      /\ EntryOf(tool.map, fp) # None
  BY <1>1, EntryFacts
<1> QED BY <1>2, InvFacts, StoredSound DEF CacheGood, ActiveMap

LEMMA StoreStep ==
  ASSUME PageInv, Store
  PROVE  PageInv'
<1> DEFINE c == Stored(cache, EntryOf(tool.map, tool.fp))
<1>1. /\ World /\ tool \in Tool /\ agent \in Agent /\ tool.at = "validate" /\ tool.map \in Map
      /\ UNCHANGED <<page, popup, up, web, agent>>
      /\ page.dom \in Doms
  BY InvFacts DEF Store, At, PageInv, StageShape
<1>2. Quiet => Describes(tool.map, page.dom) /\ tool.fp \in {None, page.dom}
  BY <1>1 DEF PageInv, QuietPart
<1>3. CacheIn(c, Good) /\ ActiveMap(c) = tool.map
  <2>1. tool.fp \in Doms \cup {None} /\ (Quiet /\ tool.fp # None => Describes(tool.map, tool.fp))
    BY <1>1, <1>2 DEF Tool
  <2>2. /\ EntryOf(tool.map, tool.fp) \in Good /\ EntryOf(tool.map, tool.fp).map = tool.map
        /\ EntryOf(tool.map, tool.fp) # None
    BY <1>1, <2>1, EntryFacts
  <2> QED BY <2>2, InvFacts, StoredSound DEF CacheGood, ActiveMap
<1>4. cache' \in {c, Invalidated(c, "bot_blocked")}
  BY DEF Store
<1> HIDE DEF c
<1>5. CacheGood' /\ (cache'.active = None \/ ActiveMap(cache') = tool.map)
  BY <1>3, <1>4, InvalidatedSound DEF CacheGood
<1>6. World'
  BY <1>1 DEF World
<1>7. CASE Goto("answer")
  <2>1. tool' \in Tool /\ tool'.at = "answer" /\ tool'.map = tool.map
    BY <1>1, <1>7 DEF Goto, Tool, Stage
  <2>2. StageShape' /\ QuietPart'
    BY <1>1, <1>2, <2>1 DEF StageShape, QuietPart, Quiet
  <2> QED BY <1>1, <1>5, <1>6, <2>1, <2>2, ShowingStep DEF Showing
<1>8. CASE AutoDismiss /\ Goto("dismiss")
  <2>1. tool' \in Tool /\ tool'.at = "dismiss" /\ tool'.map = tool.map
    BY <1>1, <1>8 DEF Goto, Tool, Stage
  <2>2. StageShape' /\ QuietPart'
    BY <1>1, <1>2, <1>8, <2>1 DEF StageShape, QuietPart, Quiet
  <2> QED BY <1>1, <1>5, <1>6, <2>1, <2>2, ShowingStep DEF Showing
<1> QED BY <1>7, <1>8 DEF Store

LEMMA DismissStep ==
  ASSUME PageInv, Dismiss \/ DismissFails \/ Rebuild \/ RebuildFails \/ StoreAgain
  PROVE  PageInv'
<1> USE DEF Showing
<1>1. World /\ tool \in Tool /\ agent \in Agent /\ page \in Pages /\ page.dom \in Doms
  BY InvFacts DEF World
<1>2. CASE Dismiss
  <2>1. /\ tool' \in Tool /\ tool'.at = "rebuild" /\ AutoDismiss
    BY <1>1, <1>2 DEF Dismiss, Goto, Tool, Stage, At, PageInv, StageShape
  <2>2. World' /\ UNCHANGED agent
    BY <1>1, <1>2 DEF Dismiss, World
  <2>3. CacheGood' /\ cache'.active = None
    BY <1>2, InvFacts, InvalidatedSound DEF Dismiss, CacheGood
  <2>4. StageShape' /\ QuietPart'
    BY <2>1 DEF StageShape, QuietPart
  <2> QED BY <1>1, <2>1, <2>2, <2>3, <2>4, ShowingStep
<1>3. CASE DismissFails
  <2>1. World' /\ tool.at = "dismiss" /\ UNCHANGED <<cache, agent>>
    BY <1>1, <1>3 DEF DismissFails, At, World
  <2>2. \/ UNCHANGED page /\ tool' = [tool EXCEPT !.at = "answer"]
        \/ tool' = [tool EXCEPT !.at = "answer", !.clicked = TRUE]
    BY <1>3 DEF DismissFails, Goto
  <2>3. /\ tool' \in Tool /\ tool'.at = "answer" /\ tool'.map = tool.map
        /\ tool'.clicked \/ UNCHANGED page
    BY <1>1, <2>2 DEF Tool, Stage
  <2>4. CacheGood' /\ (cache'.active = None \/ ActiveMap(cache') = tool.map)
    BY <2>1, SameCache DEF PageInv, ShownPart, ActiveMap
  <2>5. StageShape' /\ QuietPart'
    BY <2>1, <2>3 DEF PageInv, StageShape, QuietPart, Quiet
  <2> QED BY <1>1, <2>1, <2>3, <2>4, <2>5, ShowingStep
<1>4. CASE Rebuild
  <2>1. /\ tool.at = "rebuild" /\ UNCHANGED <<page, popup, up, web, cache, agent>>
        /\ tool' = [tool EXCEPT !.at = "refingerprint", !.map = Built(page)]
    BY <1>4 DEF Rebuild, At
  <2>2. Built(page) \in Map /\ Describes(Built(page), page.dom)
    BY <1>1, BuiltFacts
  <2>3. tool' \in Tool /\ tool'.at = "refingerprint" /\ tool'.map = Built(page)
    BY <1>1, <2>1, <2>2 DEF Tool, Stage
  <2>4. StageShape' /\ QuietPart'
    BY <2>1, <2>2, <2>3 DEF PageInv, StageShape, QuietPart
  <2>5. cache.active = None
    BY <2>1 DEF PageInv, ShownPart
  <2>6. World' /\ CacheGood' /\ cache'.active = None
    BY <1>1, <2>1, <2>5, SameCache DEF World
  <2> QED BY <1>1, <2>1, <2>3, <2>4, <2>6, ShowingStep
<1>5. CASE RebuildFails
  <2>1. /\ tool.at = "rebuild" /\ UNCHANGED <<page, popup, up, web, cache, agent>>
        /\ tool' = [tool EXCEPT !.at = "answer"]
    BY <1>5 DEF RebuildFails, At, Goto
  <2>2. cache.active = None
    BY <2>1 DEF PageInv, ShownPart
  <2>3. tool' \in Tool /\ tool'.at = "answer"
    BY <1>1, <2>1 DEF Tool, Stage
  <2>4. World' /\ CacheGood' /\ cache'.active = None
    BY <1>1, <2>1, <2>2, SameCache DEF World
  <2>5. StageShape' /\ QuietPart'
    BY <2>3, <2>4 DEF StageShape, QuietPart
  <2> QED BY <1>1, <2>1, <2>3, <2>4, <2>5, ShowingStep
<1>6. CASE StoreAgain
  <2>1. PICK fp \in Fingerprints(page) :
          /\ cache' = Stored(cache, EntryOf(tool.map, fp))
          /\ tool' = [tool EXCEPT !.at = "answer", !.fp = fp]
    BY <1>6 DEF StoreAgain
  <2>2. tool.at = "refingerprint" /\ UNCHANGED <<page, popup, up, web, agent>> /\ fp \in {None, page.dom}
    BY <1>6 DEF StoreAgain, At, Fingerprints
  <2>3. tool.map \in Map /\ (Quiet => Describes(tool.map, page.dom))
    BY <2>2 DEF PageInv, StageShape, QuietPart
  <2>4. tool' \in Tool /\ tool'.at = "answer" /\ tool'.map = tool.map
    BY <1>1, <2>1, <2>2 DEF Tool, Stage
  <2>5. CacheGood' /\ ActiveMap(cache') = tool'.map
    BY <2>1, <2>2, <2>3, <2>4, StoreFacts DEF CacheGood
  <2>6. StageShape' /\ QuietPart' /\ World'
    BY <1>1, <2>2, <2>3, <2>4 DEF StageShape, QuietPart, World, Quiet
  <2> QED BY <1>1, <2>2, <2>4, <2>5, <2>6, ShowingStep
<1> QED BY <1>2, <1>3, <1>4, <1>5, <1>6

LEMMA AnswerStep ==
  ASSUME PageInv, Answer
  PROVE  PageInv'
<1>1. /\ tool.at = "answer" /\ tool' = NoTool /\ UNCHANGED <<page, popup, up, web, cache>>
      /\ agent' = [map |-> tool.map, told |-> "shown"]
      /\ tool \in Tool
  BY InvFacts DEF Answer, At
<1>2. agent' \in Agent /\ agent'.map = tool.map /\ agent'.told = "shown"
  BY <1>1 DEF Agent, Tool
<1>3. World' /\ Plain' /\ CacheGood'
  BY <1>1, InvFacts, NoToolIsTool, SameCache DEF World, Plain, Special
<1>4. cache'.active = None \/ ActiveMap(cache') = agent'.map
  BY <1>1, <1>2 DEF PageInv, ShownPart, ActiveMap
<1> QED BY <1>2, <1>3, <1>4, PlainStep

LEMMA GetPageMapStep ==
  ASSUME PageInv, GetPageMap
  PROVE  PageInv'
<1> USE DEF Showing
<1>1. World
  BY InvFacts
<1>2. CASE Navigate
  <2>1. "fingerprint" \in Stage /\ Goto("fingerprint")
    BY <1>2 DEF Stage, Navigate
  <2>2. Plain' /\ World' /\ agent' \in Agent
    BY <1>1, <1>2, <2>1, GotoFacts, InvFacts DEF Navigate, Plain, Special, World
  <2>3. CacheGood' /\ cache'.active = None
    BY <1>2, InvFacts, InvalidatedSound DEF Navigate, CacheGood
  <2> QED BY <2>2, <2>3, DropsStep
<1>3. CASE NavigateFails
  BY <1>1, <1>3, SilentFacts, QuickStep DEF NavigateFails, At, World
<1>4. CASE BuildFails
  BY <1>1, <1>4, SilentFacts, QuickStep DEF BuildFails, At, World
<1>5. CASE BuildTimesOut
  <2>1. World'
    BY <1>1, <1>5 DEF BuildTimesOut, World
  <2> QED BY <1>5, <2>1, ExpireFacts, DropsStep DEF BuildTimesOut
<1>6. CASE Refuse
  BY <1>1, <1>6, SilentFacts, QuickStep DEF Refuse, At, World
<1>7. CASE AnswerInFull \/ AnswerWithDiff
  BY <1>7, AnswerStep DEF AnswerInFull, AnswerWithDiff
<1> QED
  BY <1>2, <1>3, <1>4, <1>5, <1>6, <1>7, TakeFingerprintStep, ChooseTierStep, BuildStep, StoreStep,
     DismissStep DEF GetPageMap

-----------------------------------------------------------------------------
(* Theorems. *)

LEMMA PageInit == Init => PageInv
<1> SUFFICES ASSUME Init PROVE PageInv
  OBVIOUS
<1>1. CacheGood /\ cache.active = None
  BY NewCacheSound DEF Init, CacheGood
<1>2. PageTypeOK
  BY <1>1, PageFacts, CacheGoodType, NoToolIsTool DEF Init, PageTypeOK
<1>3. StageShape /\ QuietPart
  BY NoToolIsTool DEF Init, StageShape, QuietPart
<1>4. ShownPart /\ ExpiredPart
  BY <1>1 DEF ShownPart, ExpiredPart
<1> QED BY <1>1, <1>2, <1>3, <1>4 DEF PageInv

LEMMA PageStutter == PageInv /\ UNCHANGED vars => PageInv'
<1> SUFFICES ASSUME PageInv, UNCHANGED vars PROVE PageInv'
  OBVIOUS
<1>1. UNCHANGED <<page, popup, up, web, cache, agent, tool>>
  BY DEF vars
<1>2. PageTypeOK' /\ CacheGood' /\ StageShape'
  BY <1>1 DEF PageInv, PageTypeOK, CacheGood, StageShape
<1>3. ShownPart' /\ ExpiredPart' /\ QuietPart'
  BY <1>1 DEF PageInv, ShownPart, ExpiredPart, QuietPart, ActiveMap
<1> QED BY <1>2, <1>3 DEF PageInv

\* PageInv is inductive.
THEOREM PageInvariance == Spec => []PageInv
<1>1. PageInv /\ [Next]_vars => PageInv'
  BY BeginsStep, GetSessionStep, GetPageMapStep, ActOnRefStep, OtherToolsStep, CutStep,
     EnvironmentStep, PageStutter DEF Next
<1> QED BY <1>1, PageInit, PTL DEF Spec

\* The state of the page tools keeps its type: no tool reads a map, a popup or a cache entry
\* that is not there.
THEOREM PageTypeCorrect == Spec => []PageTypeOK
<1>1. PageInv => PageTypeOK
  BY DEF PageInv
<1> QED BY <1>1, PageInvariance, PTL

\* The refs that execute_action and fill_form resolve between two tools are those of the map
\* the agent was last shown, up to a get_page_map cancelled while it dismisses a barrier.
THEOREM RefsAlwaysShown == Spec => []RefsAreShown
<1>1. PageInv => RefsAreShown
  BY NoToolIsTool DEF PageInv, ShownPart, RefsAreShown
<1> QED BY <1>1, PageInvariance, PTL

\* An agent that was told its refs expired finds no active map until it is shown one again.
THEOREM ExpiredRefsAreRefused == Spec => []ExpiredRefsRefused
<1>1. PageInv => ExpiredRefsRefused
  BY NoToolIsTool DEF PageInv, ExpiredPart, ExpiredRefsRefused
<1> QED BY <1>1, PageInvariance, PTL

\* Every tier of get_page_map answers with a map of the page on display, when the page does
\* not change by itself during a tool: a fingerprint match is enough to reuse a map, and a
\* structural match to reuse its refs, because each entry describes the DOM it was taken on.
THEOREM AnswersDescribePage == Spec => []AnswerDescribesPage
<1>1. PageInv => AnswerDescribesPage
  BY DEF PageInv, QuietPart, Quiet, AnswerDescribesPage, At, Describes
<1> QED BY <1>1, PageInvariance, PTL

\* The URL LRU stays within max_entries and holds one entry per normalised URL.
THEOREM LruIsSound == Spec => []LruSound
<1>1. PageInv => LruSound
  BY CacheGoodType DEF PageInv
<1> QED BY <1>1, PageInvariance, PTL

-----------------------------------------------------------------------------
(***************************************************************************)
(* The tools implement RefContract.  Every step begins a call, moves one on,  *)
(* ends one, refuses a ref or is the environment's between two calls; what an *)
(* ended call leaves is what PageInv says of the next state.                *)
(***************************************************************************)
MapStages == {"navigate", "fingerprint", "tier", "build", "validate", "dismiss", "rebuild",
              "refingerprint", "answer"}

Mapped == {"dismiss", "rebuild", "answer"}

\* Only get_page_map works at its stages, and from the store on it has a map.
NameShape ==
  /\ tool.at \in MapStages => tool.name = "get_page_map"
  /\ tool.at \in Mapped => tool.map \in Map
  /\ tool.at = "idle" => tool = NoTool

Moves ==
  /\ tool.at # "idle" /\ tool'.at # "idle"
  /\ UNCHANGED agent
  /\ tool'.name = tool.name
  /\ tool'.at \in MapStages => tool.name = "get_page_map"
  /\ tool'.at \in Mapped => tool'.map \in Map
  /\ tool.name # "get_page_map" => tool'.map = tool.map

Ends ==
  /\ tool.at # "idle" /\ tool' = NoTool
  /\ \/ agent'.map \in Map /\ agent'.told = "shown"
     \/ agent'.map = agent.map /\ agent'.told \in {agent.told, "expired", "retry"}

Starts ==
  /\ tool = NoTool /\ tool'.at # "idle" /\ tool'.at \notin MapStages
  /\ UNCHANGED agent
  /\ tool'.map \in {None, ActiveMap(cache)}

Idles == tool = NoTool /\ UNCHANGED <<tool, agent, cache>>

Kind == Moves \/ Ends \/ Starts \/ Idles \/ RefuseRef

LEMMA MoveFacts ==
  ASSUME PageInv, NameShape, NEW stage, stage # "idle", tool.at # "idle",
         stage \in MapStages => tool.at \in MapStages, stage \in Mapped => tool.map \in Map,
         Goto(stage), UNCHANGED agent
  PROVE  Moves
<1>1. tool \in Tool
  BY InvFacts
<1>2. tool'.at = stage /\ tool'.name = tool.name /\ tool'.map = tool.map
  BY <1>1 DEF Goto, Tool
<1> QED BY <1>2 DEF Moves, NameShape

LEMMA EndFacts ==
  ASSUME PageInv, tool.at # "idle"
  PROVE  /\ Silent => Ends
         /\ \A told \in {"expired", "retry"} : Says(told) => Ends
         /\ \A reason : Expire(reason) => Ends
<1>1. agent \in Agent
  BY InvFacts
<1>2. Silent => Ends
  BY DEF Silent, Ends
<1>3. ASSUME NEW told \in {"expired", "retry"}, Says(told)
      PROVE  Ends
  BY <1>1, <1>3 DEF Says, Ends, Agent
<1> QED BY <1>2, <1>3 DEF Expire

LEMMA BeginsKind ==
  ASSUME PageInv, NameShape, Begins
  PROVE  Starts \/ RefuseRef
<1>1. ASSUME NEW name \in Used, Start(name)
      PROVE  Starts
  <2>1. PICK url \in BOOLEAN : tool' = [NoTool EXCEPT !.name = name, !.at = "session", !.url = url]
    BY <1>1 DEF Start
  <2> QED BY <1>1, <2>1 DEF Start, Starts, NoTool, MapStages
<1>2. ASSUME NEW name \in Used, StartWithRef(name)
      PROVE  Starts
  BY <1>2 DEF StartWithRef, Starts, NoTool, MapStages
<1>3. CASE StartFetch
  BY <1>3 DEF StartFetch, Starts, NoTool, MapStages
<1> QED BY <1>1, <1>2, <1>3 DEF Begins

LEMMA FirstStageKind ==
  ASSUME tool \in Tool
  PROVE  FirstStage \notin Mapped \cup {"idle"} /\ (FirstStage \in MapStages => tool.name = "get_page_map")
BY DEF FirstStage, MapStages, Mapped, ToolIs

LEMMA GetSessionKind ==
  ASSUME PageInv, NameShape, GetSession
  PROVE  Kind
<1> USE DEF Kind
<1>1. tool \in Tool
  BY InvFacts
<1>2. tool.at \in GettingSession /\ tool.at # "idle" /\ tool.at \notin MapStages
  BY DEF GetSession, SessionReady, SessionRenewed, SessionFails, GettingSession, MapStages
<1>3. ASSUME Goto(FirstStage), UNCHANGED agent
      PROVE  Moves
  <2>1. tool'.at = FirstStage /\ tool'.name = tool.name /\ tool'.map = tool.map
    BY <1>1, <1>3 DEF Goto, Tool
  <2> QED BY <1>1, <1>2, <1>3, <2>1, FirstStageKind DEF Moves
<1>4. ASSUME NEW stage \in {"diagnose", "remap_session", "remap"}, Goto(stage), UNCHANGED agent
      PROVE  Moves
  BY <1>2, <1>4, MoveFacts DEF MapStages, Mapped
<1>5. ASSUME NEW url, WithSession(url)
      PROVE  Kind
  BY <1>2, <1>3, <1>4, <1>5, EndFacts DEF WithSession
<1>6. CASE SessionFails
  BY <1>2, <1>4, <1>6, EndFacts DEF SessionFails
<1> QED BY <1>5, <1>6 DEF GetSession, SessionReady, SessionRenewed

LEMMA GetPageMapKind ==
  ASSUME PageInv, NameShape, GetPageMap
  PROVE  Kind
<1> USE DEF Kind, At
<1>1. tool \in Tool /\ agent \in Agent /\ page \in Pages
  BY InvFacts DEF World
<1>2. tool.at \in MapStages /\ tool.at # "idle" /\ tool.name = "get_page_map"
  BY DEF GetPageMap, Navigate, NavigateFails, TakeFingerprint, ChooseTier, Build, BuildFails,
         BuildTimesOut, Refuse, Store, Dismiss, DismissFails, Rebuild, RebuildFails, StoreAgain,
         AnswerInFull, AnswerWithDiff, Answer, MapStages, NameShape
<1>3. ASSUME UNCHANGED agent, tool'.at \in MapStages, tool'.name = tool.name,
             tool'.at \in Mapped => tool'.map \in Map
      PROVE  Moves
  BY <1>2, <1>3 DEF Moves, MapStages
<1>4. ASSUME NEW stage \in MapStages, Goto(stage), UNCHANGED agent, stage \in Mapped => tool.map \in Map
      PROVE  Moves
  <2>1. tool'.at = stage /\ tool'.name = tool.name /\ tool'.map = tool.map
    BY <1>1, <1>4 DEF Goto, Tool
  <2> QED BY <1>3, <1>4, <2>1
<1>5. CASE Navigate \/ NavigateFails \/ BuildFails \/ BuildTimesOut \/ Refuse
  BY <1>2, <1>4, <1>5, EndFacts
  DEF Navigate, NavigateFails, BuildFails, BuildTimesOut, Refuse, MapStages, Mapped
<1>6. CASE TakeFingerprint
  <2>1. tool'.at = "tier" /\ tool'.name = tool.name /\ UNCHANGED agent
    BY <1>1, <1>6 DEF TakeFingerprint, Tool
  <2> QED BY <1>3, <2>1 DEF MapStages, Mapped
<1>7. CASE ChooseTier
  <2>1. tool'.at \in {"validate", "build"} /\ tool'.name = tool.name /\ UNCHANGED agent
    BY <1>1, <1>7 DEF ChooseTier, Tool
  <2> QED BY <1>3, <2>1 DEF MapStages, Mapped
<1>8. CASE Build
  <2>1. tool'.at = "validate" /\ tool'.name = tool.name /\ UNCHANGED agent
    BY <1>1, <1>8 DEF Build, Tool
  <2> QED BY <1>3, <2>1 DEF MapStages, Mapped
<1>9. CASE Store
  <2>1. tool.map \in Map /\ (Goto("answer") \/ Goto("dismiss")) /\ UNCHANGED agent
    BY <1>9 DEF Store, PageInv, StageShape
  <2> QED BY <1>4, <2>1 DEF MapStages
<1>10. CASE Dismiss \/ RebuildFails
  <2>1. tool.map \in Map /\ (Goto("rebuild") \/ Goto("answer")) /\ UNCHANGED agent
    BY <1>10 DEF Dismiss, RebuildFails, NameShape, Mapped
  <2> QED BY <1>4, <2>1 DEF MapStages
<1>11. CASE DismissFails
  <2>1. tool.map \in Map /\ UNCHANGED agent
    BY <1>11 DEF DismissFails, NameShape, Mapped
  <2>2. tool'.at = "answer" /\ tool'.name = tool.name /\ tool'.map = tool.map
    BY <1>1, <1>11 DEF DismissFails, Goto, Tool
  <2> QED BY <1>3, <2>1, <2>2 DEF MapStages
<1>12. CASE Rebuild
  <2>1. tool'.at = "refingerprint" /\ tool'.name = tool.name /\ UNCHANGED agent
    BY <1>1, <1>12 DEF Rebuild, Tool
  <2> QED BY <1>3, <2>1 DEF MapStages, Mapped
<1>13. CASE StoreAgain
  <2>1. tool.map \in Map /\ UNCHANGED agent
    BY <1>13 DEF StoreAgain, PageInv, StageShape
  <2>2. tool'.at = "answer" /\ tool'.name = tool.name /\ tool'.map = tool.map
    BY <1>1, <1>13 DEF StoreAgain, Tool
  <2> QED BY <1>3, <2>1, <2>2 DEF MapStages
<1>14. CASE Answer
  <2>1. agent'.map = tool.map /\ agent'.told = "shown" /\ tool' = NoTool /\ tool.map \in Map
    BY <1>14 DEF Answer, NameShape, Mapped
  <2> QED BY <1>2, <2>1 DEF Ends
<1> QED BY <1>5, <1>6, <1>7, <1>8, <1>9, <1>10, <1>11, <1>12, <1>13, <1>14
        DEF GetPageMap, AnswerInFull, AnswerWithDiff

LEMMA ActOnRefKind ==
  ASSUME PageInv, NameShape, ActOnRef
  PROVE  Kind
<1> USE DEF Kind, At
<1>1. tool \in Tool /\ agent \in Agent /\ page \in Pages
  BY InvFacts DEF World
<1>2. tool.at # "idle"
  BY DEF ActOnRef, FingerprintBefore, Act, ActFails, CheckPopup, PopupBlocked, SwitchToPopup,
         Navigated, SameUrl, DomChanged, DomUnchanged, Remap, RemapFails
<1>3. ASSUME NEW stage \in {"act", "settled", "diagnose", "url", "after"}, Goto(stage), UNCHANGED agent
      PROVE  Moves
  BY <1>2, <1>3, MoveFacts DEF MapStages, Mapped
<1>4. CASE FingerprintBefore
  <2>1. tool'.at = "act" /\ tool'.name = tool.name /\ tool'.map = tool.map /\ UNCHANGED agent
    BY <1>1, <1>4 DEF FingerprintBefore, Tool
  <2> QED BY <1>2, <2>1 DEF Moves, MapStages, Mapped
<1>5. CASE Act \/ ActFails
  BY <1>2, <1>3, <1>5, EndFacts DEF Act, ActFails
<1>6. CASE CheckPopup
  <2>1. CASE Goto("url")
    BY <1>3, <1>6, <2>1 DEF CheckPopup
  <2>2. CASE tool' = [tool EXCEPT !.at = "popup", !.popup = popup]
    <3>1. tool'.at = "popup" /\ tool'.name = tool.name /\ tool'.map = tool.map /\ UNCHANGED agent
      BY <1>1, <1>6, <2>2 DEF CheckPopup, Tool
    <3> QED BY <1>2, <3>1 DEF Moves, MapStages, Mapped
  <2> QED BY <1>6, <2>1, <2>2 DEF CheckPopup
<1>7. CASE PopupBlocked \/ SwitchToPopup \/ Navigated \/ DomChanged \/ DomUnchanged \/ RemapFails
  BY <1>2, <1>7, EndFacts
  DEF PopupBlocked, SwitchToPopup, Navigated, LeaveBlocked, DomChanged, DomUnchanged, RemapFails
<1>8. CASE SameUrl
  BY <1>2, <1>3, <1>8, EndFacts DEF SameUrl
<1>9. CASE Remap
  <2>1. Built(page) \in Map
    BY <1>1, BuiltFacts
  <2>2. agent'.map = Built(page) /\ agent'.told = "shown" /\ tool' = NoTool
    BY <1>9 DEF Remap
  <2> QED BY <1>2, <2>1, <2>2 DEF Ends
<1> QED BY <1>4, <1>5, <1>6, <1>7, <1>8, <1>9 DEF ActOnRef

LEMMA OtherKind ==
  ASSUME PageInv, NameShape, OtherTools \/ Cut \/ Environment
  PROVE  Kind
<1> USE DEF Kind, At
<1>1. tool \in Tool /\ agent \in Agent
  BY InvFacts
<1>2. CASE OtherTools /\ ~BatchStore
  <2>1. tool.at # "idle"
    BY <1>2 DEF OtherTools, WentBack, BackFails, BackTimesOut, Scroll, WaitFor, Look, BatchEnds, Fetch
  <2> QED BY <1>2, <2>1, EndFacts
          DEF OtherTools, WentBack, LeaveBlocked, BackFails, BackTimesOut, Scroll, WaitFor, Look,
              BatchEnds, Fetch
<1>3. ASSUME UNCHANGED <<tool, agent>>, tool = NoTool => UNCHANGED cache
      PROVE  Idles \/ Moves
  <2>1. CASE tool.at = "idle"
    BY <1>3, <2>1 DEF Idles, NameShape
  <2>2. CASE tool.at # "idle"
    BY <1>3, <2>2 DEF Moves, NameShape
  <2> QED BY <2>1, <2>2
<1>4. CASE BatchStore
  BY <1>3, <1>4, NoToolIsTool DEF BatchStore
<1>5. CASE PageChanges \/ PopupOpens \/ BrowserDies
  BY <1>3, <1>5 DEF PageChanges, PopupOpens, BrowserDies
<1>6. CASE Cancel
  BY <1>6, EndFacts DEF Cancel, Awaiting
<1>7. CASE BrowserDead
  BY <1>7, EndFacts DEF BrowserDead
<1>8. CASE TimesOut
  <2>1. tool.at # "idle"
    BY <1>8, NoToolIsTool DEF TimesOut, NameShape, ToolIs, Timed, NoTool
  <2> QED BY <1>8, <2>1, EndFacts DEF TimesOut
<1> QED BY <1>2, <1>4, <1>5, <1>6, <1>7, <1>8 DEF Cut, Environment

LEMMA NextKind ==
  ASSUME PageInv, NameShape, Next
  PROVE  Kind
BY BeginsKind, GetSessionKind, GetPageMapKind, ActOnRefKind, OtherKind DEF Next, Kind

LEMMA NameShapeStep ==
  ASSUME PageInv, NameShape, [Next]_vars
  PROVE  NameShape'
<1>1. CASE Moves
  BY <1>1 DEF Moves, NameShape
<1>2. CASE Ends
  BY <1>2, NoToolIsTool DEF Ends, NameShape, MapStages, Mapped
<1>3. CASE Starts
  BY <1>3 DEF Starts, NameShape, MapStages, Mapped
<1>4. CASE UNCHANGED tool
  BY <1>4 DEF NameShape
<1> QED BY <1>1, <1>2, <1>3, <1>4, NextKind DEF Kind, Idles, RefuseRef, vars

\* The map execute_action and fill_form work in.
Working(t) == IF t.name \in {"execute_action", "fill_form"} THEN t.map ELSE None
Usable(t, c) == IF t = NoTool THEN ActiveMap(c) ELSE None

PromiseHolds == tool = NoTool => Usable(tool, cache) \in Contract!Promised(agent.map, agent.told)

LEMMA PromiseKept == PageInv => PromiseHolds
<1> SUFFICES ASSUME PageInv, tool = NoTool
             PROVE  Usable(tool, cache) \in Contract!Promised(agent.map, agent.told)
  BY DEF PromiseHolds
<1>1. ActiveMap(cache) \in Map \cup {None}
  BY InvFacts, GoodIsEntry DEF ActiveMap, Entry
<1>2. cache.active = None \/ ActiveMap(cache) = agent.map \/ (AutoDismiss /\ agent.told = "retry")
  BY NoToolIsTool DEF PageInv, ShownPart
<1>3. agent.told = "expired" => cache.active = None
  BY NoToolIsTool DEF PageInv, ExpiredPart
<1> QED BY <1>1, <1>2, <1>3 DEF Contract!Promised, Usable, ActiveMap

LEMMA ContractStep ==
  ASSUME PageInv, PageInv', NameShape, [Next]_vars
  PROVE  [Contract!ContractNext]_(Contract!contract)
<1> DEFINE shown == agent.map
           told == agent.told
           usable == Usable(tool, cache)
           working == Working(tool)
           busy == tool # NoTool
<1> USE DEF Contract!contract, Contract!ContractNext, ToolIs
<1>1. tool \in Tool /\ NoTool.at = "idle" /\ NoTool.name = "none" /\ NoTool.map = None
  BY InvFacts DEF NoTool
<1>2. CASE Moves
  <2>1. tool # NoTool /\ tool' # NoTool
    BY <1>1, <1>2 DEF Moves
  <2>2. UNCHANGED <<shown, told, usable, working, busy>>
    BY <1>2, <2>1 DEF Moves, Usable, Working
  <2> QED BY <2>2 DEF Usable, Working
<1>3. CASE Ends
  <2>1. tool # NoTool /\ tool' = NoTool
    BY <1>1, <1>3 DEF Ends
  <2>2. PromiseHolds'
    BY PromiseKept, PTL
  <2>3. Contract!CallEnds
    BY <1>1, <1>3, <2>1, <2>2 DEF PromiseHolds, Ends, Contract!CallEnds, Contract!Promised, Usable, Working
  <2> QED BY <2>3
<1>4. CASE Starts
  <2>1. tool = NoTool /\ tool' # NoTool
    BY <1>1, <1>4 DEF Starts
  <2>2. Contract!CallBegins
    BY <1>1, <1>4, <2>1 DEF Starts, Contract!CallBegins, Usable, Working
  <2> QED BY <2>2
<1>5. CASE Idles \/ UNCHANGED vars
  BY <1>5 DEF Idles, vars, ActiveMap
<1>6. CASE RefuseRef
  <2>1. agent'.map = agent.map /\ agent'.told = "expired" /\ UNCHANGED <<tool, cache>>
        /\ tool = NoTool /\ cache.active = None
    BY <1>6, InvFacts DEF RefuseRef, Agent
  <2>2. Contract!RefRefused
    BY <1>1, <2>1 DEF Contract!RefRefused, ActiveMap
  <2> QED BY <2>2
<1> QED BY <1>2, <1>3, <1>4, <1>5, <1>6, NextKind DEF Kind

\* The browser tools implement the contract on refs: for every set of pages, key function and
\* LRU capacity, whatever fails, times out, is cancelled or recycled, a call resolves refs in
\* the one map it began with, which is the map last shown, and an answer leaves usable at most
\* what it showed.
THEOREM ToolsKeepContract == Spec => KeepsContract
<1>1. Init => NameShape /\ Contract!ContractInit
  BY NoToolIsTool DEF Init, NameShape, MapStages, Mapped, Contract!ContractInit, NewCache, ActiveMap,
     ToolIs, NoTool
<1>2. Spec => []NameShape
  <2>1. PageInv /\ NameShape /\ [Next]_vars => NameShape'
    BY NameShapeStep
  <2> QED BY <1>1, <2>1, PageInvariance, PTL DEF Spec
<1>3. PageInv /\ PageInv' /\ NameShape /\ [Next]_vars => [Contract!ContractNext]_(Contract!contract)
  BY ContractStep
<1> QED BY <1>1, <1>2, <1>3, PageInvariance, PTL DEF Spec, KeepsContract, Contract!ContractSpec
=============================================================================
