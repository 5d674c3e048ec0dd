---------------------------- MODULE TabToolsProofs ----------------------------
(***************************************************************************)
(* What TabTools promises, for every set of tool calls, tab names, tabs and   *)
(* browsers, every MAX_TABS and every fault.                                *)
(*                                                                         *)
(* The promises speak of the table of tabs between calls.  They are not      *)
(* inductive: a call works on the table over several awaits, with a tab in   *)
(* hand that is in no dict.  TabInv says what each stage relies on; tool_lock *)
(* makes the holder the only call with a tab in hand, so that a step either  *)
(* keeps the table for the holder or leaves it at rest.  From TabInv follows  *)
(* that TabTools implements TabContract, step by step: a tool call is atomic.  *)
(***************************************************************************)
EXTENDS TabTools, FiniteSetTheorems, TLAPS

Multis == [browser : Browsers \cup {NoTab}, tabs : [TabNames -> Tabs \cup {NoTab}],
           active : TabNames \cup {NoTab}]
Lives == [Tabs -> {"unborn", "starting", "open", "closed", "stray", "cut"}]
Ends == [Browsers -> {"unborn", "up", "crashed", "recycled", "failed"}]

\* The stages at which a call holds tool_lock.
Holding == {"session", "work", "closing", "starting", "opening", "undoing", "url"}

LockPart == \A a \in Agents : turn[a].at \in Holding <=> lock = a

\* The dict of tabs: no more than allowed, each with a context of its own, all of them on a
\* browser that was not recycled.
Dict(m, life, end) ==
  /\ Cardinality(Names(m)) <= MaxTabs
  /\ \A n \in Names(m) : life[m.tabs[n]] = "open"
  /\ \A n, k \in Names(m) : m.tabs[n] = m.tabs[k] => n = k
  /\ Names(m) # {} => m.browser \in Browsers /\ end[m.browser] # "recycled"

InDict(m, t) == \E n \in Names(m) : m.tabs[n] = t

Uncut(life) == \A t \in Tabs : life[t] # "cut"

\* Some tab is active exactly when one is open.
Settled(m) ==
  /\ Names(m) = {} => m.active = NoTab
  /\ Names(m) # {} => m.active \in Names(m)

\* What holds between two calls.
AtRest(m, life, end) ==
  /\ Dict(m, life, end)
  /\ \A t \in Tabs : life[t] = "open" => InDict(m, t)
  /\ Uncut(life) => Settled(m)

\* What a call relies on while it waits: the tab it has in hand is in no dict, the name it
\* will insert is still free.
InHand(a, life) == turn[a].tab \in Tabs /\ tab[turn[a].tab] = life /\ ~InDict(multi, turn[a].tab)

StagePart(a) ==
  /\ turn[a].op = "none" => turn[a].at = "idle"
  /\ turn[a].op \in {"open", "switch", "close"} => turn[a].name \in TabNames
  /\ turn[a].at = "session" => /\ turn[a].op \in {"page", "open"}
                               /\ turn[a].op = "open" => ~Made
  /\ turn[a].at = "closing" => /\ turn[a].op # "page" /\ InHand(a, "open")
                               /\ turn[a].shut \in TabNames \ OpenNames
                               /\ turn[a].todo \subseteq OpenNames
                               /\ turn[a].op = "open" => Made
  /\ turn[a].at \in {"starting", "opening", "undoing"} => turn[a].op = "open"
  /\ turn[a].at = "starting" => InHand(a, "starting")
  /\ turn[a].at \in {"opening", "undoing"} => InHand(a, "open")
  /\ turn[a].at \in {"starting", "opening"} =>
       Made /\ turn[a].name \notin OpenNames /\ ~Full(multi)
  /\ turn[a].at = "opening" => fate[multi.browser] # "recycled"

OwnedPart ==
  \A t \in Tabs : tab[t] = "open" =>
    \/ InDict(multi, t)
    \/ \E a \in Agents : turn[a].tab = t /\ turn[a].at \in {"opening", "undoing", "closing"}

ActivePart ==
  Uncut(tab) => \/ Settled(multi)
                \/ \E a \in Agents : turn[a].at = "closing" /\ multi.active = turn[a].shut

TabInv ==
  /\ TabTypeOK /\ LockPart
  /\ \A a \in Agents : StagePart(a)
  /\ Dict(multi, tab, fate) /\ OwnedPart /\ ActivePart

-----------------------------------------------------------------------------
(***************************************************************************)
(* What holds of every step.                                                *)
(***************************************************************************)

\* A call that finds the lock free, or holds it, is the only one at work.
LEMMA OthersWait ==
  ASSUME TabInv, NEW a \in Agents, lock \in {NoTab, a}
  PROVE  \A o \in Agents : o # a => turn[o].at \notin Holding
  BY TabAssumption DEF TabInv, LockPart

\* With no call between the awaits of an opening or a closing, the table is at rest.
LEMMA TableRests ==
  ASSUME TabInv, \A o \in Agents : turn[o].at \notin {"closing", "opening", "undoing"}
  PROVE  AtRest(multi, tab, fate)
  <1>1. \A t \in Tabs : tab[t] = "open" => InDict(multi, t)
    BY DEF TabInv, OwnedPart
  <1>2. Uncut(tab) => Settled(multi)
    BY DEF TabInv, ActivePart
  <1> QED BY <1>1, <1>2 DEF TabInv, AtRest

\* What is left to show of a step of the call that holds the lock.
LEMMA HolderStep ==
  ASSUME TabInv, NEW a \in Agents, lock \in {NoTab, a}, NEW r \in Turn,
         turn' = [turn EXCEPT ![a] = r], lock' \in {NoTab, a}, r.at \in Holding <=> lock' = a,
         TabTypeOK', StagePart(a)', Dict(multi, tab, fate)', OwnedPart', ActivePart'
  PROVE  TabInv'
  <1>1. \A o \in Agents : o # a => turn[o].at \notin Holding
    BY OthersWait
  <1>2. turn'[a] = r /\ \A o \in Agents : o # a => turn'[o] = turn[o]
    BY DEF TabInv, TabTypeOK
  <1>3. LockPart'
    BY <1>1, <1>2, TabAssumption DEF LockPart
  <1>4. ASSUME NEW o \in Agents, o # a
        PROVE  StagePart(o)'
    <2>1. turn'[o] = turn[o] /\ turn[o].at \notin Holding /\ StagePart(o)
      BY <1>1, <1>2, <1>4 DEF TabInv
    <2> QED BY <2>1 DEF StagePart, Holding
  <1>5. \A o \in Agents : StagePart(o)'
    BY <1>4
  <1> QED BY <1>3, <1>5 DEF TabInv

\* A call that does not hold the lock, before the step and after, leaves the table alone.
LEMMA OutsideStep ==
  ASSUME TabInv, NEW a \in Agents, NEW r \in Turn, turn' = [turn EXCEPT ![a] = r],
         turn[a].at \notin Holding, r.at \notin Holding,
         r.op = "none" => r.at = "idle",
         r.op \in {"open", "switch", "close"} => r.name \in TabNames,
         UNCHANGED <<lock, base, fate, multi, tab>>
  PROVE  TabInv'
  <1>1. turn'[a] = r /\ \A o \in Agents : o # a => turn'[o] = turn[o]
    BY DEF TabInv, TabTypeOK
  <1>2. TabTypeOK'
    BY DEF TabInv, TabTypeOK
  <1>3. LockPart'
    BY <1>1 DEF TabInv, LockPart
  <1>4. StagePart(a)'
    BY <1>1 DEF StagePart, Holding
  <1>5. \A o \in Agents : o # a => StagePart(o)'
    BY <1>1 DEF TabInv, StagePart, InHand, InDict, Names, OpenNames, Made, Full
  <1>6. OwnedPart'
    BY <1>1 DEF TabInv, OwnedPart, InDict, Names, Holding
  <1>7. ActivePart'
    BY <1>1 DEF TabInv, ActivePart, Settled, Uncut, Names, Holding
  <1>8. Dict(multi, tab, fate)'
    BY DEF TabInv, Dict, Names
  <1> QED BY <1>2, <1>3, <1>4, <1>5, <1>6, <1>7, <1>8 DEF TabInv

\* The type invariant after a step of the holder.
LEMMA TypeAfter ==
  ASSUME TabInv, NEW a \in Agents, NEW r \in Turn, turn' = [turn EXCEPT ![a] = r],
         multi' \in Multis, tab' \in Lives, fate' \in Ends, base' \in Browsers \cup {NoTab},
         lock' \in {NoTab, a}
  PROVE  TabTypeOK' /\ turn'[a] = r /\ \A o \in Agents : o # a => turn'[o] = turn[o]
  BY DEF TabInv, TabTypeOK, Multis, Lives, Ends

\* A call that leaves the lock leaves the table at rest.
LEMMA BackToRest ==
  ASSUME TabInv, NEW a \in Agents, lock \in {NoTab, a}, Done(a),
         NEW m \in Multis, NEW life \in Lives, NEW end \in Ends, AtRest(m, life, end),
         multi' = m, tab' = life, fate' = end, base' \in Browsers \cup {NoTab}
  PROVE  TabInv'
  <1>1. Free \in Turn /\ Free.at = "idle" /\ Free.op = "none"
    BY DEF Free, Turn, TabStage
  <1>2. turn' = [turn EXCEPT ![a] = Free] /\ lock' = NoTab
    BY TabAssumption DEF Done, Set
  <1>3. TabTypeOK' /\ turn'[a] = Free
    BY <1>1, <1>2, TypeAfter
  <1>4. lock' # a /\ Free.at \notin Holding
    BY <1>1, <1>2, TabAssumption DEF Holding
  <1>5. StagePart(a)'
    BY <1>1, <1>3 DEF StagePart
  <1>6. Dict(multi, tab, fate)'
    BY DEF AtRest, Dict, Names
  <1>7. OwnedPart'
    BY DEF AtRest, OwnedPart, InDict, Names
  <1>8. ActivePart'
    BY DEF AtRest, ActivePart, Settled, Uncut, Names
  <1> QED BY <1>1, <1>2, <1>3, <1>4, <1>5, <1>6, <1>7, <1>8, HolderStep

\* close_tab takes a tab out of the table and has it in hand; what becomes of the active tab
\* is decided after its await.
LEMMA PopStep ==
  ASSUME TabInv, NEW a \in Agents, lock \in {NoTab, a}, turn[a].op \in {"open", "switch", "close"},
         NEW m \in Multis, NEW life \in Lives, NEW end \in Ends, AtRest(m, life, end),
         NEW n \in Names(m), NEW todo \in SUBSET (Names(m) \ {n}),
         turn[a].op = "open" => m.browser # NoTab,
         Pop(a, m, life, n, todo), fate' = end, base' \in Browsers \cup {NoTab}
  PROVE  TabInv'
  <1> DEFINE r == [turn[a] EXCEPT !.at = "closing", !.tab = m.tabs[n], !.shut = n, !.todo = todo]
             d == [m.tabs EXCEPT ![n] = NoTab]
             p == [m EXCEPT !.tabs = d]
  <1>1. turn[a] \in Turn /\ n \in TabNames /\ m.tabs[n] \in Tabs
    BY DEF TabInv, TabTypeOK, Multis, Names
  <1>2. /\ r \in Turn /\ r.at = "closing" /\ r.tab = m.tabs[n] /\ r.shut = n /\ r.todo = todo
        /\ r.op = turn[a].op /\ r.name = turn[a].name
    BY <1>1 DEF Turn, TabStage, Names
  <1>3. /\ p \in Multis /\ p.tabs = d /\ p.browser = m.browser /\ p.active = m.active
        /\ d \in [TabNames -> Tabs \cup {NoTab}] /\ d[n] = NoTab
        /\ \A k \in TabNames : k # n => d[k] = m.tabs[k]
    BY <1>1 DEF Multis
  <1>4. multi' = p /\ tab' = life /\ turn' = [turn EXCEPT ![a] = r] /\ lock' = a
    BY DEF Pop, Set
  <1> HIDE DEF r, d, p
  <1>5. Names(p) = Names(m) \ {n}
    BY <1>1, <1>3, TabAssumption DEF Names
  <1>6. TabTypeOK' /\ turn'[a] = r
    BY <1>2, <1>3, <1>4, TypeAfter
  <1>7. Cardinality(Names(p)) <= MaxTabs
    <2>1. IsFiniteSet(Names(m))
      BY TabAssumption, FS_Subset DEF Names
    <2>2. Cardinality(Names(p)) <= Cardinality(Names(m)) /\ Cardinality(Names(m)) \in Nat
          /\ Cardinality(Names(p)) \in Nat
      BY <1>5, <2>1, FS_Subset, FS_CardinalityType
    <2> QED BY <2>2, TabAssumption DEF AtRest, Dict
  <1>8. Dict(p, life, end)
    BY <1>3, <1>5, <1>7 DEF AtRest, Dict, Names
  <1>9. ~InDict(p, m.tabs[n]) /\ life[m.tabs[n]] = "open"
    BY <1>1, <1>3, <1>5 DEF AtRest, Dict, InDict, Names
  <1>10. \A t \in Tabs : life[t] = "open" => InDict(p, t) \/ t = m.tabs[n]
    <2> TAKE t \in Tabs
    <2> HAVE life[t] = "open"
    <2>1. PICK k \in Names(m) : m.tabs[k] = t
      BY DEF AtRest, InDict
    <2>2. k # n => k \in Names(p) /\ p.tabs[k] = t
      BY <1>3, <1>5, <2>1 DEF Names
    <2> QED BY <2>1, <2>2 DEF InDict
  <1>11. Uncut(life) => Settled(p) \/ p.active = n
    BY <1>1, <1>3, <1>5 DEF AtRest, Settled
  <1>12. Dict(multi, tab, fate)'
    BY <1>4, <1>8 DEF Dict, Names
  <1>13. OwnedPart'
    BY <1>2, <1>4, <1>6, <1>10 DEF OwnedPart, InDict, Names
  <1>14. ActivePart'
    BY <1>2, <1>4, <1>6, <1>11 DEF ActivePart, Settled, Uncut, Names
  <1>15. OpenNames' = Names(p)
    BY <1>4 DEF OpenNames, Names
  <1>16. InHand(a, "open")'
    BY <1>1, <1>2, <1>4, <1>6, <1>9 DEF InHand, InDict, Names
  <1>17. r.name \in TabNames /\ r.op \notin {"none", "page"}
    BY <1>2 DEF TabInv, StagePart
  <1>18. StagePart(a)'
    <2>1. Made' <=> p.browser # NoTab
      BY <1>4 DEF Made
    <2> QED BY <1>1, <1>2, <1>3, <1>5, <1>6, <1>15, <1>16, <1>17, <2>1 DEF StagePart
  <1> QED BY <1>2, <1>4, <1>6, <1>12, <1>13, <1>14, <1>18, HolderStep DEF Holding

\* open_tab and switch_tab after the expired tabs, on a table at rest.
LEMMA BodyStep ==
  ASSUME TabInv, NEW a \in Agents, lock \in {NoTab, a}, turn[a].op \in {"open", "switch"},
         NEW m \in Multis, NEW life \in Lives, NEW end \in Ends, AtRest(m, life, end),
         turn[a].op = "open" => m.browser # NoTab,
         Body(a, m, life), fate' = end, base' \in Browsers \cup {NoTab}
  PROVE  TabInv'
  <1> DEFINE nm == turn[a].name
  <1>1. turn[a] \in Turn /\ nm \in TabNames
    BY DEF TabInv, TabTypeOK, StagePart
  <1>2. CASE /\ turn[a].op = "open" /\ nm \notin Names(m) /\ ~Full(m)
             /\ \E t \in Unborn(life) :
                  /\ tab' = [life EXCEPT ![t] = "starting"]
                  /\ Set(a, [turn[a] EXCEPT !.at = "starting", !.tab = t, !.shut = NoTab])
             /\ multi' = m /\ lock' = a
    <2>1. PICK t \in Unborn(life) :
                  /\ tab' = [life EXCEPT ![t] = "starting"]
                  /\ Set(a, [turn[a] EXCEPT !.at = "starting", !.tab = t, !.shut = NoTab])
      BY <1>2, Zenon
    <2> DEFINE r == [turn[a] EXCEPT !.at = "starting", !.tab = t, !.shut = NoTab]
               now == [life EXCEPT ![t] = "starting"]
    <2>2. t \in Tabs /\ life[t] = "unborn"
      BY DEF Unborn, Lives
    <2>3. /\ r \in Turn /\ r.at = "starting" /\ r.tab = t /\ r.op = "open" /\ r.name = nm
      BY <1>1, <1>2, <2>2 DEF Turn, TabStage
    <2>4. /\ now \in Lives /\ now[t] = "starting"
          /\ \A x \in Tabs : x # t => now[x] = life[x]
      BY <2>2 DEF Lives
    <2>5. multi' = m /\ tab' = now /\ turn' = [turn EXCEPT ![a] = r] /\ lock' = a
      BY <1>2, <2>1 DEF Set
    <2> HIDE DEF r, now
    <2>6. TabTypeOK' /\ turn'[a] = r
      BY <2>3, <2>4, <2>5, TypeAfter
    <2>7. \A k \in Names(m) : m.tabs[k] \in Tabs /\ life[m.tabs[k]] = "open" /\ m.tabs[k] # t
      BY <2>2 DEF AtRest, Dict, Names, Multis
    <2>8. Dict(m, now, end)
      BY <2>4, <2>7 DEF AtRest, Dict
    <2>9. ~InDict(m, t)
      BY <2>7 DEF InDict
    <2>10. \A x \in Tabs : now[x] = "open" => InDict(m, x)
      BY <2>4 DEF AtRest
    <2>11. Uncut(now) => Settled(m)
      BY <2>2, <2>4 DEF AtRest, Uncut
    <2>12. Dict(multi, tab, fate)'
      BY <2>5, <2>8 DEF Dict, Names
    <2>13. OwnedPart'
      BY <2>5, <2>10 DEF OwnedPart, InDict, Names
    <2>14. ActivePart'
      BY <2>5, <2>11 DEF ActivePart, Settled, Uncut, Names
    <2>15. OpenNames' = Names(m) /\ Made' = (m.browser # NoTab) /\ Full(multi)' = Full(m)
      BY <2>5 DEF OpenNames, Names, Made, Full
    <2>16. InHand(a, "starting")'
      BY <2>2, <2>3, <2>4, <2>5, <2>6, <2>9 DEF InHand, InDict, Names
    <2>17. StagePart(a)'
      BY <1>1, <1>2, <2>3, <2>6, <2>15, <2>16 DEF StagePart
    <2> QED BY <2>3, <2>5, <2>6, <2>12, <2>13, <2>14, <2>17, HolderStep DEF Holding
  <1>3. CASE /\ turn[a].op = "switch" /\ nm \in Names(m)
             /\ Set(a, [turn[a] EXCEPT !.at = "url", !.tab = m.tabs[nm], !.shut = NoTab])
             /\ multi' = [m EXCEPT !.active = nm]
             /\ tab' = life /\ lock' = a
    <2> DEFINE r == [turn[a] EXCEPT !.at = "url", !.tab = m.tabs[nm], !.shut = NoTab]
               p == [m EXCEPT !.active = nm]
    <2>1. m.tabs[nm] \in Tabs
      BY <1>1, <1>3 DEF Multis, Names
    <2>2. r \in Turn /\ r.at = "url" /\ r.op = "switch" /\ r.name = nm
      BY <1>1, <1>3, <2>1 DEF Turn, TabStage
    <2>3. p \in Multis /\ p.tabs = m.tabs /\ p.browser = m.browser /\ p.active = nm
      BY <1>1 DEF Multis
    <2>4. multi' = p /\ tab' = life /\ turn' = [turn EXCEPT ![a] = r] /\ lock' = a
      BY <1>3 DEF Set
    <2> HIDE DEF r, p
    <2>5. TabTypeOK' /\ turn'[a] = r
      BY <2>2, <2>3, <2>4, TypeAfter
    <2>6. Names(p) = Names(m)
      BY <2>3 DEF Names
    <2>7. Dict(p, life, end)
      BY <2>3, <2>6 DEF AtRest, Dict
    <2>8. \A x \in Tabs : life[x] = "open" => InDict(p, x)
      BY <2>3, <2>6 DEF AtRest, InDict
    <2>9. Settled(p)
      BY <1>3, <2>3, <2>6 DEF Settled
    <2>10. Dict(multi, tab, fate)'
      BY <2>4, <2>7 DEF Dict, Names
    <2>11. OwnedPart'
      BY <2>4, <2>8 DEF OwnedPart, InDict, Names
    <2>12. ActivePart'
      BY <2>4, <2>9 DEF ActivePart, Settled, Names
    <2>13. StagePart(a)'
      BY <1>1, <2>2, <2>5 DEF StagePart
    <2> QED BY <2>2, <2>4, <2>5, <2>10, <2>11, <2>12, <2>13, HolderStep DEF Holding
  <1>4. CASE multi' = m /\ tab' = life /\ Done(a)
    BY <1>4, BackToRest
  <1> QED BY <1>2, <1>3, <1>4, Zenon DEF Body

-----------------------------------------------------------------------------
(***************************************************************************)
(* The actions.                                                             *)
(***************************************************************************)
LEMMA TypesNow ==
  ASSUME TabInv
  PROVE  /\ multi \in Multis /\ tab \in Lives /\ fate \in Ends /\ base \in Browsers \cup {NoTab}
         /\ \A a \in Agents : turn[a] \in Turn
  BY DEF TabInv, TabTypeOK, Multis, Lives, Ends

\* A call at one of these stages holds the lock, and no other call is at work.
LEMMA AtLock ==
  ASSUME TabInv, NEW a \in Agents, NEW stage \in Holding, InTurn(a, stage)
  PROVE  /\ lock = a /\ turn[a].at = stage
         /\ \A o \in Agents : o # a => turn[o].at \notin Holding
  BY OthersWait DEF InTurn, Holding

LEMMA NamesOpen == Names(multi) = OpenNames
  BY DEF Names, OpenNames

LEMMA IssueStep ==
  ASSUME TabInv, NEW a \in Agents, NEW op \in {"page", "open", "switch", "close"},
         NEW n \in TabNames \cup {NoTab}, Issue(a, op, n)
  PROVE  TabInv'
  <1>1. PICK at \in {"validate", "queued"} :
          Set(a, [Free EXCEPT !.op = op, !.at = at, !.name = n, !.ctx = Made,
                              !.tab = IF op = "page" THEN ActiveTab ELSE NoTab])
    BY Zenon DEF Issue
  <1> DEFINE x == IF op = "page" THEN ActiveTab ELSE NoTab
             r == [Free EXCEPT !.op = op, !.at = at, !.name = n, !.ctx = Made, !.tab = x]
  <1>2. x \in Tabs \cup {NoTab} /\ Made \in BOOLEAN
    BY TypesNow DEF ActiveTab, Multis, Made
  <1> HIDE DEF x
  <1>3. r \in Turn /\ r.op = op /\ r.at = at /\ r.name = n
    BY <1>2 DEF Free, Turn, TabStage
  <1>4. turn' = [turn EXCEPT ![a] = r]
    BY <1>1 DEF Set, x
  <1>5. op # "page" => n \in TabNames
    BY DEF Issue
  <1>6. turn[a].at \notin Holding /\ at \notin Holding
    BY DEF Issue, Free, Holding
  <1>7. UNCHANGED <<lock, base, fate, multi, tab>>
    BY DEF Issue
  <1> HIDE DEF r
  <1> QED BY <1>3, <1>4, <1>5, <1>6, <1>7, OutsideStep

LEMMA ValidatedStep ==
  ASSUME TabInv, NEW a \in Agents, Validated(a)
  PROVE  TabInv'
  <1>1. /\ turn[a].at \notin Holding /\ UNCHANGED <<lock, base, fate, multi, tab>>
        /\ turn[a] \in Turn
    BY TypesNow DEF Validated, Holding
  <1>2. CASE Set(a, [turn[a] EXCEPT !.at = "queued"])
    <2> DEFINE r == [turn[a] EXCEPT !.at = "queued"]
    <2>1. r \in Turn /\ r.op = turn[a].op /\ r.at = "queued" /\ r.name = turn[a].name
      BY <1>1 DEF Turn, TabStage
    <2>2. /\ turn[a].op # "none"
          /\ turn[a].op \in {"open", "switch", "close"} => turn[a].name \in TabNames
      BY DEF TabInv, StagePart, Validated
    <2>3. turn' = [turn EXCEPT ![a] = r] /\ "queued" \notin Holding
      BY <1>2 DEF Set, Holding
    <2> HIDE DEF r
    <2> QED BY <1>1, <2>1, <2>2, <2>3, OutsideStep
  <1>3. CASE Set(a, Free)
    <2>1. Free \in Turn /\ Free.at = "idle" /\ Free.op = "none" /\ "idle" \notin Holding
      BY DEF Free, Turn, TabStage, Holding
    <2>2. turn' = [turn EXCEPT ![a] = Free]
      BY <1>3 DEF Set
    <2> QED BY <1>1, <2>1, <2>2, OutsideStep
  <1> QED BY <1>2, <1>3 DEF Validated

LEMMA LeftClosed == Left \subseteq {"closed", "stray"}
  BY DEF Left

\* The await of close_tab is over: the tab in hand is stopped and the table is at rest.
LEMMA ClosedRests ==
  ASSUME TabInv, NEW a \in Agents, InTurn(a, "closing"), NEW m \in AfterClose(turn[a].shut),
         NEW left \in Left
  PROVE  LET life == [tab EXCEPT ![turn[a].tab] = left] IN
         /\ life \in Lives /\ m \in Multis /\ AtRest(m, life, fate)
         /\ Names(m) = OpenNames /\ m.browser = multi.browser
  <1> DEFINE t == turn[a].tab
             s == turn[a].shut
             life == [tab EXCEPT ![t] = left]
  <1>1. lock = a /\ turn[a].at = "closing" /\ \A o \in Agents : o # a => turn[o].at \notin Holding
    BY AtLock DEF Holding
  <1>2. t \in Tabs /\ tab[t] = "open" /\ ~InDict(multi, t) /\ s \in TabNames \ OpenNames
    BY <1>1 DEF TabInv, StagePart, InHand
  <1>3. /\ life \in Lives /\ life[t] \in {"closed", "stray"}
        /\ \A x \in Tabs : x # t => life[x] = tab[x]
    BY <1>2, TypesNow, LeftClosed DEF Lives
  <1>4. /\ m \in Multis /\ m.tabs = multi.tabs /\ m.browser = multi.browser
        /\ multi.active # s => m = multi
        /\ multi.active = s => /\ OpenNames = {} => m.active = NoTab
                               /\ OpenNames # {} => m.active \in OpenNames
    <2>1. CASE multi.active # s
      BY <2>1, TypesNow DEF AfterClose
    <2>2. CASE multi.active = s
      <3>1. PICK k \in IF OpenNames = {} THEN {NoTab} ELSE OpenNames : m = [multi EXCEPT !.active = k]
        BY <2>2 DEF AfterClose
      <3>2. k \in TabNames \cup {NoTab}
        BY <3>1 DEF OpenNames
      <3> QED BY <2>2, <3>1, <3>2, TypesNow DEF Multis
    <2> QED BY <2>1, <2>2
  <1> HIDE DEF life
  <1>5. Names(m) = OpenNames /\ Names(multi) = OpenNames
    BY <1>4 DEF Names, OpenNames
  <1>6. Dict(m, life, fate)
    <2>1. \A n \in Names(m) : m.tabs[n] # t /\ m.tabs[n] \in Tabs
      BY <1>2, <1>4, <1>5, TypesNow DEF InDict, Names, Multis
    <2> QED BY <1>3, <1>4, <1>5, <2>1 DEF TabInv, Dict
  <1>7. ASSUME NEW x \in Tabs, life[x] = "open"
        PROVE  InDict(m, x)
    <2>1. x # t /\ tab[x] = "open"
      BY <1>3, <1>7
    <2>2. InDict(multi, x)
      BY <1>1, <2>1 DEF TabInv, OwnedPart, Holding
    <2> QED BY <1>4, <1>5, <2>2 DEF InDict
  <1>8. Uncut(life) => Settled(m)
    <2> SUFFICES ASSUME Uncut(life) PROVE Settled(m)
      OBVIOUS
    <2>1. Uncut(tab)
      BY <1>2, <1>3 DEF Uncut
    <2>2. Settled(multi) \/ multi.active = s
      BY <1>1, <2>1 DEF TabInv, ActivePart, Holding
    <2> QED BY <1>2, <1>4, <1>5, <2>2 DEF Settled
  <1>9. AtRest(m, life, fate)
    BY <1>6, <1>7, <1>8 DEF AtRest
  <1> QED BY <1>3, <1>4, <1>5, <1>9 DEF life

LEMMA ClosedStep ==
  ASSUME TabInv, NEW a \in Agents, Closed(a)
  PROVE  TabInv'
  <1>1. InTurn(a, "closing") /\ UNCHANGED <<base, fate>>
    BY DEF Closed
  <1>2. lock = a /\ turn[a].at = "closing" /\ lock \in {NoTab, a}
    BY <1>1, AtLock DEF Holding
  <1>3. /\ turn[a].op \in {"open", "switch", "close"} /\ turn[a].todo \subseteq OpenNames
        /\ turn[a].op = "open" => Made
    BY <1>2, TypesNow DEF TabInv, StagePart, Turn
  <1>4. fate' = fate /\ fate \in Ends /\ base' \in Browsers \cup {NoTab}
    BY <1>1, TypesNow
  <1>5. PICK m \in AfterClose(turn[a].shut), left \in Left :
          LET life == [tab EXCEPT ![turn[a].tab] = left] IN
          \/ turn[a].op = "close" /\ multi' = m /\ tab' = life /\ Done(a)
          \/ \E n \in turn[a].todo : Pop(a, m, life, n, turn[a].todo \ {n})
          \/ turn[a].op # "close" /\ turn[a].todo = {} /\ Body(a, m, life)
    BY Zenon DEF Closed
  <1> DEFINE life == [tab EXCEPT ![turn[a].tab] = left]
  <1>11. \/ turn[a].op = "close" /\ multi' = m /\ tab' = life /\ Done(a)
         \/ \E n \in turn[a].todo : Pop(a, m, life, n, turn[a].todo \ {n})
         \/ turn[a].op # "close" /\ turn[a].todo = {} /\ Body(a, m, life)
    BY <1>5, Zenon
  <1>6. /\ life \in Lives /\ m \in Multis /\ AtRest(m, life, fate)
        /\ Names(m) = OpenNames /\ m.browser = multi.browser
    BY <1>1, ClosedRests
  <1>7. turn[a].op = "open" => m.browser # NoTab
    BY <1>3, <1>6 DEF Made
  <1> HIDE DEF life
  <1>8. CASE turn[a].op = "close" /\ multi' = m /\ tab' = life /\ Done(a)
    BY <1>2, <1>4, <1>6, <1>8, BackToRest
  <1>9. CASE \E n \in turn[a].todo : Pop(a, m, life, n, turn[a].todo \ {n})
    <2>1. PICK n \in turn[a].todo : Pop(a, m, life, n, turn[a].todo \ {n})
      BY <1>9
    <2> DEFINE todo == turn[a].todo \ {n}
    <2>2. n \in Names(m) /\ todo \in SUBSET (Names(m) \ {n})
      BY <1>3, <1>6
    <2> HIDE DEF todo
    <2>3. Pop(a, m, life, n, todo)
      BY <2>1 DEF todo
    <2> QED BY <1>2, <1>3, <1>4, <1>6, <1>7, <2>2, <2>3, PopStep
  <1>10. CASE turn[a].op # "close" /\ turn[a].todo = {} /\ Body(a, m, life)
    BY <1>2, <1>3, <1>4, <1>6, <1>7, <1>10, BodyStep
  <1> QED BY <1>8, <1>9, <1>10, <1>11

LEMMA PruneStep ==
  ASSUME TabInv, NEW a \in Agents, lock \in {NoTab, a}, turn[a].op \in {"open", "switch"},
         turn[a].op = "open" => Made, AtRest(multi, tab, fate),
         Prune(a), UNCHANGED <<base, fate>>
  PROVE  TabInv'
  <1> DEFINE m == multi
             life == tab
  <1>1. m \in Multis /\ life \in Lives /\ fate \in Ends /\ base' \in Browsers \cup {NoTab}
        /\ fate' = fate
    BY TypesNow
  <1>2. turn[a].op = "open" => m.browser # NoTab
    BY DEF Made
  <1>3. CASE Body(a, multi, tab)
    BY <1>1, <1>2, <1>3, BodyStep
  <1>4. CASE \E old \in SUBSET OpenNames : \E n \in old : Pop(a, multi, tab, n, old \ {n})
    <2>1. PICK old \in SUBSET OpenNames : \E n \in old : Pop(a, multi, tab, n, old \ {n})
      BY <1>4
    <2>2. PICK n \in old : Pop(a, multi, tab, n, old \ {n})
      BY <2>1
    <2>3. n \in Names(multi) /\ old \ {n} \in SUBSET (Names(multi) \ {n})
      BY <2>1, NamesOpen
    <2> QED BY <1>1, <1>2, <2>2, <2>3, PopStep
  <1> QED BY <1>3, <1>4 DEF Prune

LEMMA RunStep ==
  ASSUME TabInv, NEW a \in Agents, Run(a)
  PROVE  TabInv'
  <1>1. turn[a].at = "queued" /\ lock = NoTab /\ UNCHANGED <<base, fate>>
    BY DEF Run, InTurn
  <1>2. \A o \in Agents : turn[o].at \notin Holding
    BY <1>1, TabAssumption DEF TabInv, LockPart
  <1>3. AtRest(multi, tab, fate)
    BY <1>2, TableRests DEF Holding
  <1>4. lock \in {NoTab, a}
    BY <1>1
  <1>5. ASSUME NEW stage \in {"session", "work"}, Go(a, stage), UNCHANGED <<multi, tab>>,
               stage = "session" => /\ turn[a].op \in {"page", "open"}
                                    /\ turn[a].op = "open" => ~Made
        PROVE  TabInv'
    <2> DEFINE r == [turn[a] EXCEPT !.at = stage]
    <2>1. r \in Turn /\ r.at = stage /\ r.op = turn[a].op /\ r.name = turn[a].name
      BY TypesNow DEF Turn, TabStage
    <2>2. turn' = [turn EXCEPT ![a] = r] /\ lock' = a /\ stage \in Holding
      BY <1>5 DEF Go, Set, Holding
    <2>3. /\ multi' \in Multis /\ tab' \in Lives /\ fate' \in Ends /\ base' \in Browsers \cup {NoTab}
          /\ multi' = multi /\ tab' = tab /\ fate' = fate
      BY <1>1, <1>5, TypesNow
    <2> HIDE DEF r
    <2>4. TabTypeOK' /\ turn'[a] = r /\ \A o \in Agents : o # a => turn'[o] = turn[o]
      BY <1>4, <2>1, <2>2, <2>3, TypeAfter
    <2>5. Dict(multi, tab, fate)'
      BY <2>3 DEF TabInv, Dict, Names
    <2>6. OwnedPart'
      BY <1>3, <2>3 DEF AtRest, OwnedPart, InDict, Names
    <2>7. ActivePart'
      BY <1>3, <2>3 DEF AtRest, ActivePart, Settled, Uncut, Names
    <2>8. /\ turn[a].op # "none"
          /\ turn[a].op \in {"open", "switch", "close"} => turn[a].name \in TabNames
      BY <1>1 DEF TabInv, StagePart
    <2>9. StagePart(a)'
      BY <1>5, <2>1, <2>3, <2>4, <2>8 DEF StagePart, Made
    <2> QED BY <1>4, <2>1, <2>2, <2>4, <2>5, <2>6, <2>7, <2>9, HolderStep
  <1>6. ASSUME Done(a), UNCHANGED <<multi, tab>>
        PROVE  TabInv'
    BY <1>1, <1>3, <1>4, <1>6, BackToRest, TypesNow
  <1>7. ASSUME turn[a].op \in {"open", "switch"}, turn[a].op = "open" => Made, Prune(a)
        PROVE  TabInv'
    BY <1>1, <1>3, <1>4, <1>7, PruneStep
  <1>8. ASSUME turn[a].op = "close", turn[a].name \in OpenNames,
               Pop(a, multi, tab, turn[a].name, {})
        PROVE  TabInv'
    <2>1. turn[a].name \in Names(multi) /\ {} \in SUBSET (Names(multi) \ {turn[a].name})
      BY <1>8, NamesOpen
    <2>2. multi \in Multis /\ tab \in Lives /\ fate \in Ends /\ fate' = fate
          /\ base' \in Browsers \cup {NoTab}
      BY <1>1, TypesNow
    <2> QED BY <1>3, <1>4, <1>8, <2>1, <2>2, PopStep
  <1>9. CASE turn[a].op = "page" /\ Go(a, IF turn[a].tab = NoTab THEN "session" ELSE "work")
             /\ UNCHANGED <<multi, tab>>
    BY <1>5, <1>9
  <1>10. CASE turn[a].op = "open" /\ ~Made /\ Go(a, "session") /\ UNCHANGED <<multi, tab>>
    BY <1>5, <1>10
  <1>11. CASE turn[a].op = "close" /\ ~NoTabsOpen(a) /\
              IF turn[a].name \in OpenNames
                THEN Pop(a, multi, tab, turn[a].name, {})
                ELSE Done(a) /\ UNCHANGED <<multi, tab>>
    BY <1>6, <1>8, <1>11
  <1> QED BY <1>6, <1>7, <1>9, <1>10, <1>11, Zenon DEF Run

\* The tab that starts is still in no dict, and a tab that failed to start never was.
LEMMA StartedStep ==
  ASSUME TabInv, NEW a \in Agents, Started(a)
  PROVE  TabInv'
  <1> DEFINE t == turn[a].tab
  <1>1. /\ lock = a /\ turn[a].at = "starting" /\ UNCHANGED <<base, fate, multi>>
        /\ \A o \in Agents : o # a => turn[o].at \notin Holding
    BY AtLock DEF Started, Holding
  <1>2. /\ turn[a].op = "open" /\ t \in Tabs /\ tab[t] = "starting" /\ ~InDict(multi, t)
        /\ Made /\ turn[a].name \notin OpenNames /\ ~Full(multi) /\ turn[a].name \in TabNames
    BY <1>1 DEF TabInv, StagePart, InHand
  <1>3. AtRest(multi, tab, fate)
    BY <1>1, TableRests DEF Holding
  <1>4. ASSUME NEW left \in Left, tab' = [tab EXCEPT ![t] = left], Done(a)
        PROVE  TabInv'
    <2> DEFINE life == [tab EXCEPT ![t] = left]
    <2>1. /\ life \in Lives /\ life[t] \in {"closed", "stray"}
          /\ \A x \in Tabs : x # t => life[x] = tab[x]
      BY <1>2, TypesNow, LeftClosed DEF Lives
    <2> HIDE DEF life
    <2>2. \A n \in Names(multi) : multi.tabs[n] # t /\ multi.tabs[n] \in Tabs
      BY <1>2, TypesNow DEF InDict, Names, Multis
    <2>3. AtRest(multi, life, fate)
      BY <1>2, <1>3, <2>1, <2>2 DEF AtRest, Dict, Uncut
    <2>4. /\ multi \in Multis /\ fate \in Ends /\ base' \in Browsers \cup {NoTab}
          /\ multi' = multi /\ fate' = fate /\ lock \in {NoTab, a}
      BY <1>1, TypesNow
    <2> QED BY <1>4, <2>1, <2>3, <2>4, BackToRest DEF life
  <1>5. ASSUME fate[multi.browser] = "up", tab' = [tab EXCEPT ![t] = "open"], Go(a, "opening")
        PROVE  TabInv'
    <2> DEFINE r == [turn[a] EXCEPT !.at = "opening"]
    <2>1. r \in Turn /\ r.at = "opening" /\ r.op = "open" /\ r.name = turn[a].name /\ r.tab = t
      BY <1>2, TypesNow DEF Turn, TabStage
    <2>2. turn' = [turn EXCEPT ![a] = r] /\ lock' = a /\ lock \in {NoTab, a}
      BY <1>1, <1>5 DEF Go, Set
    <2>3. tab' \in Lives /\ tab'[t] = "open" /\ \A x \in Tabs : x # t => tab'[x] = tab[x]
      BY <1>2, <1>5, TypesNow DEF Lives
    <2>4. /\ multi' \in Multis /\ fate' \in Ends /\ base' \in Browsers \cup {NoTab}
          /\ multi' = multi /\ fate' = fate
      BY <1>1, TypesNow
    <2> HIDE DEF r
    <2>5. TabTypeOK' /\ turn'[a] = r
      BY <2>1, <2>2, <2>3, <2>4, TypeAfter
    <2>6. \A n \in Names(multi) : multi.tabs[n] # t /\ multi.tabs[n] \in Tabs
      BY <1>2, TypesNow DEF InDict, Names, Multis
    <2>7. Dict(multi, tab, fate)'
      BY <1>3, <2>3, <2>4, <2>6 DEF AtRest, Dict, Names
    <2>8. OwnedPart'
      BY <1>3, <2>1, <2>3, <2>4, <2>5 DEF AtRest, OwnedPart, InDict, Names
    <2>9. ActivePart'
      <3>1. Uncut(tab)' => Uncut(tab)
        BY <1>2, <2>3 DEF Uncut
      <3> QED BY <1>3, <2>4, <3>1 DEF AtRest, ActivePart, Settled, Uncut, Names
    <2>10. InHand(a, "open")'
      BY <1>2, <2>1, <2>3, <2>4, <2>5 DEF InHand, InDict, Names
    <2>11. StagePart(a)'
      BY <1>2, <1>5, <2>1, <2>4, <2>5, <2>10 DEF StagePart, Made, OpenNames, Full, Names
    <2> QED BY <2>1, <2>2, <2>5, <2>7, <2>8, <2>9, <2>11, HolderStep DEF Holding
  <1> QED BY <1>4, <1>5 DEF Started

\* The new tab enters the dict under a name that is still free, in a dict with room.
LEMMA InsertStep ==
  ASSUME TabInv, NEW a \in Agents, InTurn(a, "opening"), Done(a), UNCHANGED <<base, fate, tab>>,
         multi' = [multi EXCEPT !.tabs[turn[a].name] = turn[a].tab, !.active = turn[a].name]
  PROVE  TabInv'
  <1> DEFINE t == turn[a].tab
             n == turn[a].name
             d == [multi.tabs EXCEPT ![n] = t]
             q == [multi EXCEPT !.tabs = d]
             p == [q EXCEPT !.active = n]
  <1>1. /\ lock = a /\ turn[a].at = "opening"
        /\ \A o \in Agents : o # a => turn[o].at \notin Holding
    BY AtLock DEF Holding
  <1>2. /\ turn[a].op = "open" /\ t \in Tabs /\ tab[t] = "open" /\ ~InDict(multi, t)
        /\ Made /\ n \in TabNames \ OpenNames /\ ~Full(multi)
        /\ fate[multi.browser] # "recycled"
    BY <1>1 DEF TabInv, StagePart, InHand
  <1>3. /\ d \in [TabNames -> Tabs \cup {NoTab}] /\ d[n] = t
        /\ \A k \in TabNames : k # n => d[k] = multi.tabs[k]
    BY <1>2, TypesNow DEF Multis
  <1>4. multi' = p
    OBVIOUS
  <1> HIDE DEF d
  <1>5. q \in Multis /\ q.tabs = d /\ q.browser = multi.browser
    BY <1>3, TypesNow DEF Multis
  <1> HIDE DEF q
  <1>6. p \in Multis /\ p.tabs = d /\ p.browser = multi.browser /\ p.active = n
    BY <1>2, <1>5 DEF Multis
  <1> HIDE DEF p
  <1>7. Names(p) = Names(multi) \cup {n} /\ n \notin Names(multi)
    BY <1>2, <1>3, <1>6, NamesOpen, TabAssumption DEF Names
  <1>8. Cardinality(Names(p)) <= MaxTabs
    <2>1. IsFiniteSet(Names(multi))
      BY TabAssumption, FS_Subset DEF Names
    <2>2. /\ Cardinality(Names(p)) = Cardinality(Names(multi)) + 1
          /\ Cardinality(Names(multi)) \in Nat
      BY <1>7, <2>1, FS_AddElement, FS_CardinalityType
    <2> QED BY <1>2, <2>2, TabAssumption DEF Full
  <1>9. \A k \in Names(multi) : p.tabs[k] = multi.tabs[k] /\ multi.tabs[k] # t
    BY <1>2, <1>3, <1>6, <1>7 DEF Names, InDict
  <1>10. Dict(multi, tab, fate) /\ p.browser \in Browsers /\ p.tabs[n] = t
    BY <1>2, <1>3, <1>6, TypesNow DEF TabInv, Made, Multis
  <1>11. Dict(p, tab, fate)
    BY <1>2, <1>6, <1>7, <1>8, <1>9, <1>10 DEF Dict
  <1>12. ASSUME NEW x \in Tabs, tab[x] = "open"
         PROVE  InDict(p, x)
    <2>1. InDict(multi, x) \/ x = t
      BY <1>1, <1>12 DEF TabInv, OwnedPart, Holding
    <2> QED BY <1>7, <1>9, <1>10, <2>1 DEF InDict
  <1>13. Settled(p)
    BY <1>6, <1>7 DEF Settled
  <1>14. AtRest(p, tab, fate)
    BY <1>11, <1>12, <1>13 DEF AtRest
  <1>15. /\ tab \in Lives /\ fate \in Ends /\ base' \in Browsers \cup {NoTab}
         /\ tab' = tab /\ fate' = fate /\ lock \in {NoTab, a}
    BY <1>1, TypesNow
  <1> QED BY <1>4, <1>6, <1>14, <1>15, BackToRest

LEMMA OpenedStep ==
  ASSUME TabInv, NEW a \in Agents, Opened(a)
  PROVE  TabInv'
  <1>1. InTurn(a, "opening") /\ UNCHANGED <<base, fate, tab>>
    BY DEF Opened
  <1>2. CASE /\ multi' = [multi EXCEPT !.tabs[turn[a].name] = turn[a].tab, !.active = turn[a].name]
             /\ Done(a)
    BY <1>1, <1>2, InsertStep, Zenon
  <1>3. CASE Go(a, "undoing") /\ UNCHANGED multi
    <2> DEFINE r == [turn[a] EXCEPT !.at = "undoing"]
    <2>1. /\ lock = a /\ turn[a].at = "opening" /\ lock \in {NoTab, a}
          /\ \A o \in Agents : o # a => turn[o].at \notin Holding
      BY <1>1, AtLock DEF Holding
    <2>2. turn[a].op = "open" /\ InHand(a, "open") /\ turn[a].name \in TabNames
      BY <2>1 DEF TabInv, StagePart
    <2>3. r \in Turn /\ r.at = "undoing" /\ r.op = "open" /\ r.name = turn[a].name
          /\ r.tab = turn[a].tab
      BY <2>2, TypesNow DEF Turn, TabStage
    <2>4. turn' = [turn EXCEPT ![a] = r] /\ lock' = a
      BY <1>3 DEF Go, Set
    <2>5. /\ multi' \in Multis /\ tab' \in Lives /\ fate' \in Ends /\ base' \in Browsers \cup {NoTab}
          /\ multi' = multi /\ tab' = tab /\ fate' = fate
      BY <1>1, <1>3, TypesNow
    <2> HIDE DEF r
    <2>6. TabTypeOK' /\ turn'[a] = r /\ \A o \in Agents : o # a => turn'[o] = turn[o]
      BY <2>1, <2>3, <2>4, <2>5, TypeAfter
    <2>7. Dict(multi, tab, fate)'
      BY <2>5 DEF TabInv, Dict, Names
    <2>8. OwnedPart'
      BY <2>1, <2>3, <2>5, <2>6 DEF TabInv, OwnedPart, InDict, Names, Holding
    <2>9. ActivePart'
      BY <2>1, <2>3, <2>5, <2>6 DEF TabInv, ActivePart, Settled, Uncut, Names, Holding
    <2>10. InHand(a, "open")'
      BY <2>2, <2>3, <2>5, <2>6 DEF InHand, InDict, Names
    <2>11. StagePart(a)'
      BY <2>2, <2>3, <2>6, <2>10 DEF StagePart
    <2> QED BY <2>1, <2>3, <2>4, <2>6, <2>7, <2>8, <2>9, <2>11, HolderStep DEF Holding
  <1> QED BY <1>2, <1>3, Zenon DEF Opened

\* The tab of a failed opening is stopped: no dict has it.
LEMMA UndoneStep ==
  ASSUME TabInv, NEW a \in Agents, Undone(a)
  PROVE  TabInv'
  <1> DEFINE t == turn[a].tab
  <1>0. PICK left \in Left : tab' = [tab EXCEPT ![t] = left]
    BY DEF Undone
  <1> DEFINE life == [tab EXCEPT ![t] = left]
  <1>1. /\ lock = a /\ turn[a].at = "undoing" /\ UNCHANGED <<base, fate, multi>>
        /\ \A o \in Agents : o # a => turn[o].at \notin Holding
    BY AtLock DEF Undone, Holding
  <1>2. t \in Tabs /\ tab[t] = "open" /\ ~InDict(multi, t)
    BY <1>1 DEF TabInv, StagePart, InHand
  <1>3. /\ life \in Lives /\ life[t] \in {"closed", "stray"}
        /\ \A x \in Tabs : x # t => life[x] = tab[x]
    BY <1>2, TypesNow, LeftClosed DEF Lives
  <1> HIDE DEF life
  <1>4. \A n \in Names(multi) : multi.tabs[n] # t /\ multi.tabs[n] \in Tabs
    BY <1>2, TypesNow DEF InDict, Names, Multis
  <1>5. Dict(multi, life, fate)
    BY <1>3, <1>4 DEF TabInv, Dict
  <1>6. \A x \in Tabs : life[x] = "open" => InDict(multi, x)
    BY <1>1, <1>3 DEF TabInv, OwnedPart, Holding
  <1>7. Uncut(life) => Settled(multi)
    BY <1>1, <1>2, <1>3 DEF TabInv, ActivePart, Uncut, Holding
  <1>8. AtRest(multi, life, fate)
    BY <1>5, <1>6, <1>7 DEF AtRest
  <1>9. /\ multi \in Multis /\ fate \in Ends /\ base' \in Browsers \cup {NoTab}
        /\ multi' = multi /\ fate' = fate /\ lock \in {NoTab, a}
    BY <1>1, TypesNow
  <1>10. Done(a) /\ tab' = life
    BY <1>0 DEF Undone, life
  <1> QED BY <1>3, <1>8, <1>9, <1>10, BackToRest

LEMMA FinishStep ==
  ASSUME TabInv, NEW a \in Agents, Finish(a)
  PROVE  TabInv'
  <1>1. PICK stage \in {"work", "url"} : InTurn(a, stage)
    BY DEF Finish
  <1>2. /\ lock = a /\ turn[a].at \in {"work", "url"}
        /\ \A o \in Agents : o # a => turn[o].at \notin Holding
    BY <1>1, AtLock DEF Holding
  <1>3. AtRest(multi, tab, fate)
    BY <1>2, TableRests DEF Holding
  <1> QED BY <1>2, <1>3, BackToRest, TypesNow DEF Finish

-----------------------------------------------------------------------------
(***************************************************************************)
(* The browser under the tabs: ServerState recycles its browser only while   *)
(* no tab is open.  One that fails its health check goes in any case.        *)
(***************************************************************************)
LEMMA UpRests ==
  ASSUME TabInv, NEW end \in Ends, AtRest(multi, tab, end), NEW b \in Unborn(fate)
  PROVE  /\ b \in Browsers /\ [end EXCEPT ![b] = "up"] \in Ends
         /\ AtRest(multi, tab, [end EXCEPT ![b] = "up"])
  <1> DEFINE u == [end EXCEPT ![b] = "up"]
  <1>1. b \in Browsers
    BY TypesNow DEF Unborn, Ends
  <1>2. u \in Ends /\ \A x \in Browsers : end[x] # "recycled" => u[x] # "recycled"
    BY <1>1 DEF Ends
  <1> HIDE DEF u
  <1>3. AtRest(multi, tab, u)
    BY <1>2 DEF AtRest, Dict
  <1> QED BY <1>1, <1>2, <1>3 DEF u

LEMMA ReplacedRests ==
  ASSUME TabInv, AtRest(multi, tab, fate), NEW end \in Replaced
  PROVE  /\ end \in Ends /\ AtRest(multi, tab, end)
         /\ \A b \in Unborn(fate) :
              /\ b \in Browsers /\ [end EXCEPT ![b] = "up"] \in Ends
              /\ AtRest(multi, tab, [end EXCEPT ![b] = "up"])
  <1>1. PICK alive \in Answers(base) :
          end \in IF alive THEN (IF MayRecycle THEN StopBase("recycled") ELSE {}) ELSE StopBase("failed")
    BY Zenon DEF Replaced
  <1>2. ASSUME NEW why \in {"recycled", "failed"}, end \in StopBase(why)
        PROVE  /\ end \in Ends
               /\ \A x \in Browsers : fate[x] # "recycled" /\ why # "recycled" => end[x] # "recycled"
               /\ end = fate \/ base \in Browsers
    BY <1>2, TypesNow DEF StopBase, Ends
  <1>3. Names(multi) # {} => IsMultiTab
    BY NamesOpen, TabAssumption DEF IsMultiTab, Made, AtRest, Dict
  <1>4. CASE MayRecycle /\ end \in StopBase("recycled")
    <2>1. end \in Ends /\ Names(multi) = {}
      BY <1>2, <1>3, <1>4 DEF MayRecycle
    <2> QED BY <2>1, UpRests DEF AtRest, Dict
  <1>5. CASE end \in StopBase("failed")
    <2>1. end \in Ends /\ \A x \in Browsers : fate[x] # "recycled" => end[x] # "recycled"
      BY <1>2, <1>5
    <2>2. AtRest(multi, tab, end)
      BY <2>1 DEF AtRest, Dict
    <2> QED BY <2>1, <2>2, UpRests
  <1> QED BY <1>1, <1>4, <1>5

\* get_session() has returned: the table is at rest, and a MultiTabSession made now is empty.
LEMMA WithBaseStep ==
  ASSUME TabInv, NEW a \in Agents, InTurn(a, "session"), NEW b \in Browsers, WithBase(a, b),
         NEW end \in Ends, AtRest(multi, tab, end), fate' = end, base' \in Browsers \cup {NoTab}
  PROVE  TabInv'
  <1>1. /\ lock = a /\ turn[a].at = "session" /\ lock \in {NoTab, a}
        /\ \A o \in Agents : o # a => turn[o].at \notin Holding
    BY AtLock DEF Holding
  <1>2. turn[a].op = "open" => ~Made
    BY <1>1 DEF TabInv, StagePart
  <1>3. CASE turn[a].op = "page" /\ Go(a, "work") /\ UNCHANGED <<multi, tab>>
    <2> DEFINE r == [turn[a] EXCEPT !.at = "work"]
    <2>1. r \in Turn /\ r.at = "work" /\ r.op = "page"
      BY <1>3, TypesNow DEF Turn, TabStage
    <2>2. turn' = [turn EXCEPT ![a] = r] /\ lock' = a
      BY <1>3 DEF Go, Set
    <2>3. multi' \in Multis /\ tab' \in Lives /\ fate' \in Ends
          /\ multi' = multi /\ tab' = tab
      BY <1>3, TypesNow
    <2> HIDE DEF r
    <2>4. TabTypeOK' /\ turn'[a] = r
      BY <1>1, <2>1, <2>2, <2>3, TypeAfter
    <2>5. Dict(multi, tab, fate)'
      BY <2>3 DEF AtRest, Dict, Names
    <2>6. OwnedPart'
      BY <2>3 DEF AtRest, OwnedPart, InDict, Names
    <2>7. ActivePart'
      BY <2>3 DEF AtRest, ActivePart, Settled, Uncut, Names
    <2>8. StagePart(a)'
      BY <2>1, <2>4 DEF StagePart
    <2> QED BY <1>1, <2>1, <2>2, <2>4, <2>5, <2>6, <2>7, <2>8, HolderStep DEF Holding
  <1>4. CASE turn[a].op = "open" /\ Body(a, [NoMulti EXCEPT !.browser = b], tab)
    <2> DEFINE m == [NoMulti EXCEPT !.browser = b]
    <2>1. /\ m \in Multis /\ m.browser = b /\ m.active = NoTab
          /\ \A n \in TabNames : m.tabs[n] = NoTab
      BY DEF NoMulti, Multis
    <2>2. Body(a, m, tab)
      BY <1>4
    <2> HIDE DEF m
    <2>3. Names(m) = {} /\ Cardinality(Names(m)) = 0
      BY <2>1, FS_EmptySet DEF Names
    <2>4. \A t \in Tabs : tab[t] # "open"
      BY <1>2, <1>4, TabAssumption DEF AtRest, InDict, Dict, Made
    <2>5. AtRest(m, tab, end)
      BY <2>1, <2>3, <2>4, TabAssumption DEF AtRest, Dict, Settled
    <2>6. m.browser # NoTab
      BY <2>1, TabAssumption
    <2> QED BY <1>1, <1>4, <2>1, <2>2, <2>5, <2>6, BodyStep, TypesNow
  <1> QED BY <1>3, <1>4, Zenon DEF WithBase

\* A session that answers is one.
LEMMA AnswersUp == TRUE \in Answers(base) /\ TabInv => base \in Browsers
  BY TypesNow DEF Answers

LEMMA SessionStep ==
  ASSUME TabInv, NEW a \in Agents, Session(a)
  PROVE  TabInv'
  <1>1. InTurn(a, "session")
    BY DEF Session
  <1>2. /\ lock = a /\ turn[a].at = "session" /\ lock \in {NoTab, a}
        /\ \A o \in Agents : o # a => turn[o].at \notin Holding
    BY <1>1, AtLock DEF Holding
  <1>3. AtRest(multi, tab, fate)
    BY <1>2, TableRests DEF Holding
  <1>4. CASE TRUE \in Answers(base) /\ WithBase(a, base) /\ UNCHANGED <<base, fate>>
    <2>1. base \in Browsers /\ fate \in Ends /\ fate' = fate /\ base' \in Browsers \cup {NoTab}
      BY <1>4, TypesNow, AnswersUp
    <2>2. PICK b \in Browsers : b = base
      BY <2>1
    <2>3. WithBase(a, b)
      BY <1>4, <2>2
    <2> QED BY <1>1, <1>3, <2>1, <2>3, WithBaseStep
  <1>5. ASSUME NEW end \in Replaced,
               \E b \in Unborn(fate) : base' = b /\ fate' = [end EXCEPT ![b] = "up"] /\ WithBase(a, b)
        PROVE  TabInv'
    <2>1. PICK b \in Unborn(fate) : base' = b /\ fate' = [end EXCEPT ![b] = "up"] /\ WithBase(a, b)
      BY <1>5
    <2> DEFINE u == [end EXCEPT ![b] = "up"]
    <2>2. b \in Browsers /\ u \in Ends /\ AtRest(multi, tab, u)
      BY <1>3, ReplacedRests
    <2>3. fate' = u /\ base' \in Browsers \cup {NoTab} /\ WithBase(a, b)
      BY <2>1, <2>2
    <2> HIDE DEF u
    <2> QED BY <1>1, <2>2, <2>3, WithBaseStep
  <1>6. ASSUME NEW end \in Replaced, base' = NoTab, fate' = end, Done(a), UNCHANGED <<multi, tab>>
        PROVE  TabInv'
    <2>1. end \in Ends /\ AtRest(multi, tab, end)
      BY <1>3, ReplacedRests
    <2>2. multi \in Multis /\ tab \in Lives /\ multi' = multi /\ tab' = tab
          /\ base' \in Browsers \cup {NoTab}
      BY <1>6, TypesNow
    <2> QED BY <1>2, <1>6, <2>1, <2>2, BackToRest
  <1>7. CASE \E end \in Replaced :
          \/ \E b \in Unborn(fate) : base' = b /\ fate' = [end EXCEPT ![b] = "up"] /\ WithBase(a, b)
          \/ base' = NoTab /\ fate' = end /\ Done(a) /\ UNCHANGED <<multi, tab>>
    BY <1>5, <1>6, <1>7
  <1> QED BY <1>4, <1>7, Zenon DEF Session

-----------------------------------------------------------------------------
(***************************************************************************)
(* Faults.                                                                  *)
(***************************************************************************)
LEMMA CrashStep ==
  ASSUME TabInv, NEW b \in Browsers, Crash(b)
  PROVE  TabInv'
  <1>1. /\ fate' = [fate EXCEPT ![b] = "crashed"]
        /\ UNCHANGED <<lock, base, multi, tab, turn>>
    BY DEF Crash
  <1>2. fate' \in Ends /\ \A x \in Browsers : fate[x] # "recycled" => fate'[x] # "recycled"
    BY <1>1, TypesNow DEF Ends
  <1>3. TabTypeOK'
    BY <1>1, <1>2 DEF TabInv, TabTypeOK, Ends
  <1>4. LockPart' /\ OwnedPart' /\ ActivePart'
    BY <1>1 DEF TabInv, LockPart, OwnedPart, ActivePart, InDict, Settled, Uncut, Names
  <1>5. Dict(multi, tab, fate)'
    BY <1>1, <1>2 DEF TabInv, Dict, Names
  <1>6. ASSUME NEW a \in Agents
        PROVE  StagePart(a)'
    <2>1. Made => multi.browser \in Browsers
      BY TypesNow DEF Made, Multis
    <2>2. StagePart(a)
      BY DEF TabInv
    <2>3. turn'[a] = turn[a] /\ Made' = Made /\ OpenNames' = OpenNames /\ Full(multi)' = Full(multi)
      BY <1>1 DEF Made, OpenNames, Full, Names
    <2>4. /\ InHand(a, "open")' <=> InHand(a, "open")
          /\ InHand(a, "starting")' <=> InHand(a, "starting")
      BY <1>1 DEF InHand, InDict, Names
    <2> QED BY <1>1, <1>2, <2>1, <2>2, <2>3, <2>4 DEF StagePart
  <1>7. \A a \in Agents : StagePart(a)'
    BY <1>6
  <1> QED BY <1>3, <1>4, <1>5, <1>7 DEF TabInv

\* A tab whose call is cut is in no dict: what is left in the dict is at rest.
LEMMA CutShortStep ==
  ASSUME TabInv, NEW a \in Agents, CutShort(a)
  PROVE  TabInv'
  <1> DEFINE t == turn[a].tab
             life == [tab EXCEPT ![t] = "cut"]
  <1>1. Done(a) /\ multi' = multi /\ turn[a].at # "idle" /\ turn[a] \in Turn
    BY TypesNow DEF CutShort
  <1>2. CASE turn[a].at \notin Holding
    <2>1. turn[a].at \notin {"closing", "starting", "opening", "undoing", "session"} /\ lock # a
      BY <1>2 DEF TabInv, LockPart, Holding
    <2>2. UNCHANGED <<lock, base, fate, multi, tab>>
      BY <1>1, <2>1 DEF CutShort, Done
    <2>3. Free \in Turn /\ Free.at = "idle" /\ Free.op = "none" /\ "idle" \notin Holding
      BY DEF Free, Turn, TabStage, Holding
    <2>4. turn' = [turn EXCEPT ![a] = Free]
      BY <1>1 DEF Done, Set
    <2> QED BY <1>2, <2>2, <2>3, <2>4, OutsideStep
  <1>3. CASE turn[a].at \in Holding
    <2>1. lock = a /\ lock \in {NoTab, a}
      BY <1>3 DEF TabInv, LockPart
    <2>2. \A o \in Agents : o # a => turn[o].at \notin Holding
      BY <2>1, OthersWait
    <2>3. multi \in Multis /\ tab \in Lives /\ fate \in Ends /\ base \in Browsers \cup {NoTab}
      BY TypesNow
    <2>4. CASE turn[a].at \in {"closing", "starting", "opening", "undoing"}
      <3>1. t \in Tabs /\ ~InDict(multi, t)
        BY <2>4 DEF TabInv, StagePart, InHand
      <3>2. life \in Lives /\ life[t] = "cut" /\ \A x \in Tabs : x # t => life[x] = tab[x]
        BY <2>3, <3>1 DEF Lives
      <3>3. tab' = life /\ UNCHANGED <<base, fate>>
        BY <2>4 DEF CutShort
      <3> HIDE DEF life
      <3>4. \A n \in Names(multi) : multi.tabs[n] # t /\ multi.tabs[n] \in Tabs
        BY <2>3, <3>1 DEF InDict, Names, Multis
      <3>5. Dict(multi, life, fate)
        BY <3>2, <3>4 DEF TabInv, Dict
      <3>6. \A x \in Tabs : life[x] = "open" => InDict(multi, x)
        BY <2>2, <3>2 DEF TabInv, OwnedPart, Holding
      <3>7. ~Uncut(life)
        BY <3>1, <3>2 DEF Uncut
      <3>8. AtRest(multi, life, fate)
        BY <3>5, <3>6, <3>7 DEF AtRest
      <3>9. fate' = fate /\ base' \in Browsers \cup {NoTab}
        BY <2>3, <3>3
      <3> QED BY <1>1, <2>1, <2>3, <3>2, <3>3, <3>8, <3>9, BackToRest
    <2>5. CASE turn[a].at \in {"session", "work", "url"}
      <3>1. AtRest(multi, tab, fate)
        BY <2>2, <2>5, TableRests DEF Holding
      <3>2. tab' = tab
        BY <2>5 DEF CutShort
      <3>3. CASE UNCHANGED <<base, fate>>
        <4>1. fate' = fate /\ base' \in Browsers \cup {NoTab}
          BY <2>3, <3>3
        <4> QED BY <1>1, <2>1, <2>3, <3>1, <3>2, <4>1, BackToRest
      <3>4. CASE base' = NoTab /\ fate' \in Replaced
        <4>1. PICK end \in Replaced : fate' = end
          BY <3>4
        <4>2. end \in Ends /\ AtRest(multi, tab, end) /\ base' \in Browsers \cup {NoTab}
          BY <3>1, <3>4, ReplacedRests
        <4> QED BY <1>1, <2>1, <2>3, <3>2, <4>1, <4>2, BackToRest
      <3> QED BY <3>3, <3>4, Zenon DEF CutShort
    <2> QED BY <1>3, <2>4, <2>5 DEF Holding
  <1> QED BY <1>2, <1>3

-----------------------------------------------------------------------------
(***************************************************************************)
(* The theorems.                                                            *)
(***************************************************************************)
LEMMA TabInvInit == TabInit => TabInv
  <1> SUFFICES ASSUME TabInit PROVE TabInv
    OBVIOUS
  <1>1. TabTypeOK
    BY DEF TabInit, TabTypeOK, NoMulti, Free, Turn, TabStage
  <1>2. Names(multi) = {} /\ Cardinality(Names(multi)) = 0
    BY FS_EmptySet DEF TabInit, NoMulti, Names
  <1>3. \A a \in Agents : turn[a].at = "idle" /\ turn[a].op = "none"
    BY DEF TabInit, Free
  <1>4. Dict(multi, tab, fate)
    BY <1>2, TabAssumption DEF Dict
  <1>5. OwnedPart /\ ActivePart
    BY <1>2 DEF TabInit, OwnedPart, ActivePart, Settled, NoMulti
  <1>6. LockPart
    BY <1>3, TabAssumption DEF TabInit, LockPart, Holding
  <1>7. \A a \in Agents : StagePart(a)
    BY <1>3 DEF StagePart
  <1> QED BY <1>1, <1>4, <1>5, <1>6, <1>7 DEF TabInv

LEMMA TabInvStep == TabInv /\ [TabNext]_tvars => TabInv'
  <1> SUFFICES ASSUME TabInv, [TabNext]_tvars PROVE TabInv'
    OBVIOUS
  <1>1. ASSUME NEW a \in Agents, TabStep(a)
        PROVE  TabInv'
    BY <1>1, ValidatedStep, RunStep, SessionStep, FinishStep, ClosedStep, StartedStep,
       OpenedStep, UndoneStep DEF TabStep
  <1>2. CASE UNCHANGED tvars
    BY <1>2 DEF tvars, TabInv, TabTypeOK, LockPart, StagePart, Dict, OwnedPart, ActivePart,
                InHand, InDict, Names, OpenNames, Made, Full, Settled, Uncut
  <1>3. CASE TabNext
    BY <1>1, <1>3, IssueStep, CutShortStep, CrashStep DEF TabNext
  <1> QED BY <1>2, <1>3

LEMMA TabInvariant == TabSpec => []TabInv
  BY TabInvInit, TabInvStep, PTL DEF TabSpec

\* Type correctness: no stage of a tool call reads a tab, a name or a browser that is not
\* there, for any number of calls, tabs and browsers.
THEOREM TabTypeCorrect == TabSpec => []TabTypeOK
  <1>1. TabInv => TabTypeOK
    BY DEF TabInv
  <1> QED BY <1>1, TabInvariant, PTL

\* open_tab checks the name and MAX_TABS before two awaits and inserts after them: because
\* tool_lock is held over both, no order of calls, expiries, failures and cancellations opens
\* a tab too many or gives one context to two names.
THEOREM TabTableStaysSound == TabSpec => []TabTableSound
  <1>1. TabInv => TabTableSound
    BY NamesOpen DEF TabInv, Dict, TabTableSound
  <1> QED BY <1>1, TabInvariant, PTL

\* A context whose start succeeded belongs to the dict or to the call that is opening or closing
\* it, for as long as nothing but that call's stop() or cancellation has ended its life: a
\* navigation, a cookie or a route guard that fails loses none.  A tab in the dict has its context.
\* (That a failed start, a failed stop or a cancellation does leave contexts open is told in the README, 5.)
THEOREM TabContextsOwned == TabSpec => []ContextsOwned
  <1>1. TabInv => ContextsOwned
    <2> SUFFICES ASSUME TabInv PROVE ContextsOwned
      OBVIOUS
    <2>1. \A n \in OpenNames : tab[multi.tabs[n]] = "open"
      BY NamesOpen DEF TabInv, Dict
    <2>2. \A t \in Tabs : tab[t] = "open" =>
            \/ \E n \in OpenNames : multi.tabs[n] = t
            \/ \E a \in Agents : turn[a].tab = t /\ turn[a].at \in {"opening", "undoing", "closing"}
      BY NamesOpen DEF TabInv, OwnedPart, InDict
    <2> QED BY <2>1, <2>2 DEF ContextsOwned, Owned
  <1> QED BY <1>1, TabInvariant, PTL

\* Between calls that ran to their end some tab is active exactly when one is open, so a page
\* tool falls back to ServerState's own page only when the agent has no tab.
THEOREM SomeTabIsActive == TabSpec => []ActiveTabOpen
  <1>1. TabInv => ActiveTabOpen
    BY NamesOpen DEF TabInv, ActivePart, ActiveTabOpen, Settled, Uncut
  <1> QED BY <1>1, TabInvariant, PTL

\* get_session() recycles a browser that answers only while no tab is open: no order of tool calls
\* and no cancellation in the middle of a recycling leaves open tabs on a recycled browser, not
\* even tabs opened after it was decided.  (One that fails its health check is stopped with its tabs.)
THEOREM TabsNeverLoseBrowser == TabSpec => []TabsKeepBrowser
  <1>1. TabInv => TabsKeepBrowser
    BY NamesOpen DEF TabInv, Dict, TabsKeepBrowser
  <1> QED BY <1>1, TabInvariant, PTL

-----------------------------------------------------------------------------
(***************************************************************************)
(* Each tool call is atomic: TabTools implements TabContract.  A step of a call *)
(* is what it was asked for, the closing of an expired tab, its end, a new tab  *)
(* in front where there was none, or nothing the contract speaks of.         *)
(***************************************************************************)
Opening == {"starting", "opening", "undoing"}
Calls == [o \in Agents |-> Asked(turn[o])]

\* Calls that have had what they asked for, or ask for nothing.
Over(r) == r.at \in {"idle", "url"} \/ (r.op = "close" /\ r.at = "closing")
FrontOf(m) == IF m.active \in Names(m) THEN m.active ELSE NoTab

\* close_tab has no expired tabs to close.
ClosesOne == \A a \in Agents : turn[a].op = "close" => turn[a].todo = {}

LEMMA AskedOver == ASSUME NEW r, Over(r) PROVE Asked(r) = Table!NoCall
  BY DEF Over, Asked, Table!NoCall

LEMMA AskedUnder ==
  ASSUME NEW r, ~Over(r)
  PROVE  Asked(r) = [op |-> r.op, name |-> r.name, tab |-> IF r.op = "page" THEN r.tab ELSE NoTab]
  BY DEF Over, Asked

LEMMA CallsAfter ==
  ASSUME TabInv, NEW a \in Agents, NEW r, turn' = [turn EXCEPT ![a] = r]
  PROVE  /\ Calls' = [Calls EXCEPT ![a] = Asked(r)]
         /\ Calls[a] = Asked(turn[a]) /\ Calls' = [o \in Agents |-> Asked(turn'[o])]
  <1>1. turn'[a] = r /\ \A o \in Agents : o # a => turn'[o] = turn[o]
    BY DEF TabInv, TabTypeOK
  <1>2. Calls' = [o \in Agents |-> Asked(turn'[o])]
    BY DEF Calls, Asked
  <1>3. \A o \in Agents : Asked(turn'[o]) = IF o = a THEN Asked(r) ELSE Asked(turn[o])
    BY <1>1
  <1>4. Calls' = [o \in Agents |-> IF o = a THEN Asked(r) ELSE Asked(turn[o])]
    BY <1>2, <1>3
  <1> QED BY <1>2, <1>4 DEF Calls

\* A tab that was used stays so, unless a call takes it to open it.
LEMMA TakenGrows ==
  ASSUME TabInv, NEW a \in Agents, NEW r, turn' = [turn EXCEPT ![a] = r], r.at \notin Opening,
         \A t \in Tabs : tab[t] # "unborn" => tab'[t] # "unborn"
  PROVE  Taken \subseteq Taken' /\ Taken' \subseteq Tabs
  <1>1. turn'[a] = r /\ \A o \in Agents : o # a => turn'[o] = turn[o]
    BY DEF TabInv, TabTypeOK
  <1> QED BY <1>1 DEF Taken, Opening

LEMMA TakenSame ==
  ASSUME TabInv, NEW a \in Agents, NEW r, turn' = [turn EXCEPT ![a] = r],
         r.at \in Opening <=> turn[a].at \in Opening, r.at \in Opening => r.tab = turn[a].tab,
         \A t \in Tabs : tab[t] # "unborn" <=> tab'[t] # "unborn"
  PROVE  Taken' = Taken
  <1>1. turn'[a] = r /\ \A o \in Agents : o # a => turn'[o] = turn[o]
    BY DEF TabInv, TabTypeOK
  <1>2. \A o \in Agents : /\ turn'[o].at \in Opening <=> turn[o].at \in Opening
                          /\ turn[o].at \in Opening => turn'[o].tab = turn[o].tab
    BY <1>1
  <1> QED BY <1>2 DEF Taken, Opening

LEMMA FrontNow == Front = FrontOf(multi) /\ Table!OpenTabs = OpenNames
  BY NamesOpen DEF Front, FrontOf, Table!OpenTabs, OpenNames

\* What the contract sees of a table m.
LEMMA FrontAfter == ASSUME NEW m, multi' = m PROVE Front' = FrontOf(m) /\ OpenNames' = Names(m)
  BY DEF Front, FrontOf, Names, OpenNames

\* Nothing changes but, perhaps, that another tab takes the place of one that was closed.
LEMMA Quietly ==
  ASSUME TabInv, NEW a \in Agents, NEW r, turn' = [turn EXCEPT ![a] = r],
         Asked(r) = Asked(turn[a]), multi'.tabs = multi.tabs, Front' \in Table!Fronts, Taken' = Taken
  PROVE  [Table!ContractNext]_(Table!contract)
  <1>1. Calls' = Calls
    <2>1. Calls' = [Calls EXCEPT ![a] = Calls[a]]
      BY CallsAfter
    <2> QED BY <2>1 DEF Calls
  <1>2. CASE Front' = Front
    BY <1>1, <1>2 DEF Table!contract, Calls
  <1>3. CASE Front' # Front
    <2>1. Front = NoTab /\ Front' \in Table!OpenTabs
      BY <1>3 DEF Table!Fronts
    <2>2. Table!MovesOn
      BY <1>1, <2>1 DEF Table!MovesOn, Calls
    <2> QED BY <2>2 DEF Table!ContractNext
  <1> QED BY <1>2, <1>3

LEMMA FrontStays == UNCHANGED multi => Front' = Front /\ Front' \in Table!Fronts
  BY FrontNow DEF Front, Table!Fronts, OpenNames, Table!OpenTabs

\* A call ends.
LEMMA EndsStep ==
  ASSUME TabInv, NEW a \in Agents, Set(a, Free), multi'.tabs = multi.tabs, Front' \in Table!Fronts,
         \A t \in Tabs : tab[t] # "unborn" => tab'[t] # "unborn",
         turn[a].at # "idle",
         Over(turn[a]) => \A t \in Tabs : tab[t] = "unborn" => tab'[t] = "unborn"
  PROVE  [Table!ContractNext]_(Table!contract)
  <1>1. turn' = [turn EXCEPT ![a] = Free] /\ Free.at = "idle" /\ Over(Free) /\ Free.at \notin Opening
    BY DEF Set, Free, Over, Opening
  <1>2. Asked(Free) = Table!NoCall
    BY <1>1, AskedOver
  <1>3. CASE Over(turn[a])
    <2>1. turn[a].at \notin Opening
      BY <1>3 DEF Over, Opening
    <2>2. Taken' = Taken
      BY <1>1, <1>3, <2>1, TakenSame
    <2> QED BY <1>1, <1>2, <1>3, <2>2, AskedOver, Quietly
  <1>4. CASE ~Over(turn[a])
    <2>1. turn[a].op # "none"
      BY DEF TabInv, StagePart
    <2>2. Asked(turn[a]) # Table!NoCall
      BY <1>4, <2>1, AskedUnder DEF Table!NoCall
    <2>3. Calls' = [Calls EXCEPT ![a] = Table!NoCall] /\ Calls[a] # Table!NoCall
      BY <1>1, <1>2, <2>2, CallsAfter
    <2>4. Taken \subseteq Taken' /\ Taken' \subseteq Tabs
      BY <1>1, TakenGrows
    <2>5. Table!Ends(a)
      BY <2>3, <2>4 DEF Table!Ends, Table!Served, Calls
    <2> QED BY <2>5 DEF Table!ContractNext
  <1> QED BY <1>3, <1>4

\* A tab leaves the table: an expired one, or the one close_tab was asked to close.
LEMMA LeavesStep ==
  ASSUME TabInv, NEW a \in Agents, turn[a].op \in {"open", "switch", "close"},
         NEW m \in Multis, m.tabs = multi.tabs, FrontOf(m) \in Table!Fronts,
         NEW life, NEW n \in OpenNames, NEW todo, Pop(a, m, life, n, todo),
         ~Over(turn[a]), turn[a].at \notin Opening,
         \A t \in Tabs : tab[t] # "unborn" <=> life[t] # "unborn",
         turn[a].op = "close" => m = multi /\ n = turn[a].name
  PROVE  [Table!ContractNext]_(Table!contract)
  <1> DEFINE r == [turn[a] EXCEPT !.at = "closing", !.tab = m.tabs[n], !.shut = n, !.todo = todo]
             d == [m.tabs EXCEPT ![n] = NoTab]
             p == [m EXCEPT !.tabs = d]
  <1>1. turn[a] \in Turn /\ n \in TabNames /\ n \in Table!OpenTabs /\ m.tabs \in [TabNames -> Tabs \cup {NoTab}]
    BY TypesNow, FrontNow DEF OpenNames, Multis
  <1>2. r.at = "closing" /\ r.op = turn[a].op /\ r.name = turn[a].name
    BY <1>1 DEF Turn
  <1>3. p.tabs = d /\ p.active = m.active /\ d = [multi.tabs EXCEPT ![n] = NoTab]
        /\ d[n] = NoTab /\ \A k \in TabNames : k # n => d[k] = m.tabs[k]
    BY <1>1 DEF Multis
  <1>4. multi' = p /\ tab' = life /\ turn' = [turn EXCEPT ![a] = r]
    BY DEF Pop, Set
  <1> HIDE DEF r, d, p
  <1>5. Taken' = Taken
    BY <1>2, <1>4, TakenSame DEF Opening
  <1>6. Names(p) = Names(m) \ {n} /\ n \in Names(m)
    BY <1>1, <1>3 DEF Names, OpenNames
  <1>7. Front' = IF FrontOf(m) = n THEN NoTab ELSE FrontOf(m)
    <2>1. Front' = FrontOf(p)
      BY <1>4, FrontAfter
    <2>2. FrontOf(p) = IF FrontOf(m) = n THEN NoTab ELSE FrontOf(m)
      BY <1>1, <1>3, <1>6, TabAssumption DEF FrontOf
    <2> QED BY <2>1, <2>2
  <1>8. Table!Leaves(n, FrontOf(m))
    BY <1>1, <1>3, <1>4, <1>5, <1>7 DEF Table!Leaves
  <1>9. Asked(turn[a]).op = turn[a].op /\ Asked(turn[a]).name = turn[a].name
    BY AskedUnder
  <1>10. Calls[a] = Asked(turn[a]) /\ Calls' = [Calls EXCEPT ![a] = Asked(r)]
    BY <1>4, CallsAfter
  <1>11. CASE turn[a].op = "close"
    <2>1. Asked(r) = Table!NoCall
      BY <1>2, <1>11, AskedOver DEF Over
    <2>2. FrontOf(m) = Front
      BY <1>11, FrontNow
    <2>3. Table!Closes(a)
      BY <1>8, <1>9, <1>10, <1>11, <2>1, <2>2 DEF Table!Closes, Table!Served, Calls
    <2> QED BY <2>3 DEF Table!ContractNext
  <1>12. CASE turn[a].op # "close"
    <2>1. turn[a].op \in {"open", "switch"} /\ ~Over(r)
      BY <1>2, <1>12 DEF Over
    <2>2. Asked(r) = Asked(turn[a])
      BY <1>2, <2>1, AskedUnder
    <2>3. Calls' = Calls
      BY <1>10, <2>2 DEF Calls
    <2>4. Table!Expires(a)
      BY <1>1, <1>8, <1>9, <1>10, <2>1, <2>3 DEF Table!Expires, Calls
    <2> QED BY <2>4 DEF Table!ContractNext
  <1> QED BY <1>11, <1>12

\* open_tab and switch_tab, once the expired tabs are gone.
LEMMA ServesStep ==
  ASSUME TabInv, NEW a \in Agents, lock \in {NoTab, a}, turn[a].op \in {"open", "switch"},
         NEW m \in Multis, m.tabs = multi.tabs, FrontOf(m) \in Table!Fronts,
         NEW life \in Lives, Body(a, m, life),
         ~Over(turn[a]), turn[a].at \notin Opening,
         \A t \in Tabs : tab[t] # "unborn" <=> life[t] # "unborn"
  PROVE  [Table!ContractNext]_(Table!contract)
  <1> DEFINE nm == turn[a].name
  <1>1. turn[a] \in Turn /\ nm \in TabNames /\ Names(m) = OpenNames /\ Table!OpenTabs = OpenNames
    BY TypesNow, FrontNow DEF Names, OpenNames, TabInv, StagePart
  <1>2. CASE /\ turn[a].op = "open" /\ nm \notin Names(m) /\ ~Full(m)
             /\ \E t \in Unborn(life) :
                  /\ tab' = [life EXCEPT ![t] = "starting"]
                  /\ Set(a, [turn[a] EXCEPT !.at = "starting", !.tab = t, !.shut = NoTab])
             /\ multi' = m /\ lock' = a
    <2>1. PICK t \in Unborn(life) :
                  /\ tab' = [life EXCEPT ![t] = "starting"]
                  /\ Set(a, [turn[a] EXCEPT !.at = "starting", !.tab = t, !.shut = NoTab])
      BY <1>2, Zenon
    <2> DEFINE r == [turn[a] EXCEPT !.at = "starting", !.tab = t, !.shut = NoTab]
    <2>2. t \in Tabs /\ life[t] = "unborn"
      BY DEF Unborn, Lives
    <2>3. r.at = "starting" /\ r.tab = t /\ r.op = "open" /\ r.name = nm
      BY <1>1, <1>2 DEF Turn
    <2>4. turn' = [turn EXCEPT ![a] = r]
      BY <2>1 DEF Set
    <2> HIDE DEF r
    <2>5. turn'[a] = r /\ \A o \in Agents : o # a => turn'[o] = turn[o] /\ turn[o].at \notin Opening
      BY <2>4, OthersWait DEF TabInv, TabTypeOK, Opening, Holding
    <2>6. tab'[t] = "starting" /\ \A x \in Tabs : x # t => tab'[x] = life[x]
      BY <2>1, <2>2 DEF Lives
    <2>7. Taken' = Taken
      <3>1. Taken = {x \in Tabs : tab[x] # "unborn"}
        BY <2>5 DEF Taken, Opening
      <3>2. Taken' = {x \in Tabs : tab'[x] # "unborn"} \ {t}
        BY <2>3, <2>5 DEF Taken, Opening
      <3> QED BY <2>2, <2>6, <3>1, <3>2
    <2>8. Asked(r) = Asked(turn[a])
      BY <1>2, <2>3, AskedUnder DEF Over
    <2> QED BY <1>2, <2>4, <2>7, <2>8, FrontAfter, Quietly
  <1>3. CASE /\ turn[a].op = "switch" /\ nm \in Names(m)
             /\ Set(a, [turn[a] EXCEPT !.at = "url", !.tab = m.tabs[nm], !.shut = NoTab])
             /\ multi' = [m EXCEPT !.active = nm]
             /\ tab' = life /\ lock' = a
    <2> DEFINE r == [turn[a] EXCEPT !.at = "url", !.tab = m.tabs[nm], !.shut = NoTab]
               p == [m EXCEPT !.active = nm]
    <2>1. r.at = "url" /\ Over(r)
      BY <1>1 DEF Turn, Over
    <2>2. p.tabs = multi.tabs /\ p.active = nm /\ multi' = p /\ turn' = [turn EXCEPT ![a] = r]
      BY <1>3 DEF Multis, Set
    <2> HIDE DEF r, p
    <2>3. Taken' = Taken
      BY <1>3, <2>1, <2>2, TakenSame DEF Opening
    <2>4. Front' = nm
      BY <1>1, <1>3, <2>2, FrontAfter DEF FrontOf, Names
    <2>5. Calls[a].op = "switch" /\ Calls[a].name = nm /\ Calls' = [Calls EXCEPT ![a] = Table!NoCall]
      <3>1. Asked(turn[a]).op = "switch" /\ Asked(turn[a]).name = nm
        BY <1>3, AskedUnder
      <3>2. Asked(r) = Table!NoCall
        BY <2>1, AskedOver
      <3> QED BY <2>2, <3>1, <3>2, CallsAfter
    <2>6. Table!Switches(a)
      BY <1>1, <1>3, <2>2, <2>3, <2>4, <2>5 DEF Table!Switches, Table!Served, Calls
    <2> QED BY <2>6 DEF Table!ContractNext
  <1>4. CASE multi' = m /\ tab' = life /\ Done(a)
    <2>1. Set(a, Free) /\ turn[a].at # "idle"
      BY <1>4 DEF Done, Over
    <2> QED BY <1>4, <2>1, FrontAfter, EndsStep
  <1> QED BY <1>2, <1>3, <1>4, Zenon DEF Body

\* A step from await to await that does nothing the contract speaks of.
LEMMA WorksOn ==
  ASSUME TabInv, NEW a \in Agents, NEW r, turn' = [turn EXCEPT ![a] = r],
         r.op = turn[a].op, r.name = turn[a].name, r.tab = turn[a].tab, r.at # "url",
         ~Over(turn[a]), ~Over(r), UNCHANGED multi,
         r.at \in Opening <=> turn[a].at \in Opening,
         \A t \in Tabs : tab[t] # "unborn" <=> tab'[t] # "unborn"
  PROVE  [Table!ContractNext]_(Table!contract)
  <1>1. Asked(r) = Asked(turn[a])
    BY AskedUnder
  <1>2. Taken' = Taken
    BY TakenSame
  <1> QED BY <1>1, <1>2, FrontStays, Quietly

LEMMA IssueKeeps ==
  ASSUME TabInv, NEW a \in Agents, NEW op \in {"page", "open", "switch", "close"},
         NEW n \in TabNames \cup {NoTab}, Issue(a, op, n)
  PROVE  [Table!ContractNext]_(Table!contract)
  <1>1. PICK at \in {"validate", "queued"} :
          Set(a, [Free EXCEPT !.op = op, !.at = at, !.name = n, !.ctx = Made,
                              !.tab = IF op = "page" THEN ActiveTab ELSE NoTab])
    BY Zenon DEF Issue
  <1> DEFINE x == IF op = "page" THEN ActiveTab ELSE NoTab
             r == [Free EXCEPT !.op = op, !.at = at, !.name = n, !.ctx = Made, !.tab = x]
  <1>2. r.op = op /\ r.at = at /\ r.name = n /\ r.tab = x
    BY DEF Free
  <1>3. turn' = [turn EXCEPT ![a] = r]
    BY <1>1 DEF Set
  <1>4. x = IF op = "page" THEN Table!Driven ELSE NoTab
    <2>1. ActiveTab = Table!Driven
      BY TypesNow, TabAssumption DEF ActiveTab, Table!Driven, Front, OpenNames, Multis
    <2> QED BY <2>1
  <1> HIDE DEF x, r
  <1>5. turn[a] = Free /\ UNCHANGED <<lock, base, fate, multi, tab>> /\ ((n = NoTab) <=> (op = "page"))
    BY DEF Issue
  <1>6. Taken' = Taken
    <2>1. turn[a].at \notin Opening /\ r.at \notin Opening
      BY <1>2, <1>5 DEF Opening, Free
    <2> QED BY <1>3, <1>5, <2>1, TakenSame
  <1>7. Asked(r) = [op |-> op, name |-> n, tab |-> x]
    BY <1>2, <1>4, AskedUnder DEF Over
  <1>8. Asked(r) \in Table!Requests
    BY <1>4, <1>5, <1>7 DEF Table!Requests
  <1>9. Calls[a] = Table!NoCall
    BY <1>5, AskedOver DEF Calls, Free, Over
  <1>10. Calls' = [Calls EXCEPT ![a] = Asked(r)] /\ Calls'[a] = Asked(r)
    <2>1. Calls' = [Calls EXCEPT ![a] = Asked(r)]
      BY <1>3, CallsAfter
    <2>2. a \in DOMAIN Calls
      BY DEF Calls
    <2> QED BY <2>1, <2>2
  <1>11. Table!Asks(a)
    BY <1>5, <1>6, <1>8, <1>9, <1>10, FrontStays DEF Table!Asks, Calls
  <1> QED BY <1>11 DEF Table!ContractNext

LEMMA ValidatedKeeps ==
  ASSUME TabInv, NEW a \in Agents, Validated(a)
  PROVE  [Table!ContractNext]_(Table!contract)
  <1>1. turn[a].at = "validate" /\ turn[a] \in Turn /\ UNCHANGED <<lock, base, fate, multi, tab>>
    BY TypesNow DEF Validated
  <1>2. CASE Set(a, [turn[a] EXCEPT !.at = "queued"])
    <2> DEFINE r == [turn[a] EXCEPT !.at = "queued"]
    <2>1. r.at = "queued" /\ r.op = turn[a].op /\ r.name = turn[a].name /\ r.tab = turn[a].tab
      BY <1>1 DEF Turn
    <2>2. turn' = [turn EXCEPT ![a] = r]
      BY <1>2 DEF Set
    <2> HIDE DEF r
    <2> QED BY <1>1, <2>1, <2>2, WorksOn DEF Over, Opening
  <1>3. CASE Set(a, Free)
    BY <1>1, <1>3, FrontStays, EndsStep DEF Over
  <1> QED BY <1>2, <1>3 DEF Validated

\* A call goes on to another stage, with the lock.
LEMMA GoKeeps ==
  ASSUME TabInv, NEW a \in Agents, NEW stage \in {"session", "work", "opening", "undoing"}, Go(a, stage),
         ~Over(turn[a]), UNCHANGED multi, stage \in Opening <=> turn[a].at \in Opening,
         \A t \in Tabs : tab[t] # "unborn" <=> tab'[t] # "unborn"
  PROVE  [Table!ContractNext]_(Table!contract)
  <1> DEFINE r == [turn[a] EXCEPT !.at = stage]
  <1>1. r.at = stage /\ r.op = turn[a].op /\ r.name = turn[a].name /\ r.tab = turn[a].tab
    BY TypesNow DEF Turn
  <1>2. turn' = [turn EXCEPT ![a] = r]
    BY DEF Go, Set
  <1> HIDE DEF r
  <1> QED BY <1>1, <1>2, WorksOn DEF Over

\* A call that leaves the table as it is ends.
LEMMA DoneKeeps ==
  ASSUME TabInv, NEW a \in Agents, Done(a), UNCHANGED multi, turn[a].at # "idle",
         \A t \in Tabs : tab[t] # "unborn" => tab'[t] # "unborn",
         Over(turn[a]) => \A t \in Tabs : tab[t] = "unborn" => tab'[t] = "unborn"
  PROVE  [Table!ContractNext]_(Table!contract)
  BY FrontStays, EndsStep DEF Done

LEMMA PruneKeeps ==
  ASSUME TabInv, NEW a \in Agents, lock \in {NoTab, a}, turn[a].op \in {"open", "switch"},
         turn[a].at = "queued", Prune(a)
  PROVE  [Table!ContractNext]_(Table!contract)
  <1>1. multi \in Multis /\ tab \in Lives /\ FrontOf(multi) \in Table!Fronts
    BY TypesNow, FrontNow DEF Table!Fronts
  <1>2. ~Over(turn[a]) /\ turn[a].at \notin Opening
    BY DEF Over, Opening
  <1>3. CASE Body(a, multi, tab)
    BY <1>1, <1>2, <1>3, ServesStep
  <1>4. CASE \E old \in SUBSET OpenNames : \E n \in old : Pop(a, multi, tab, n, old \ {n})
    <2>1. PICK old \in SUBSET OpenNames : \E n \in old : Pop(a, multi, tab, n, old \ {n})
      BY <1>4, Zenon
    <2>2. PICK n \in old : Pop(a, multi, tab, n, old \ {n})
      BY <2>1, Zenon
    <2>3. n \in OpenNames /\ turn[a].op # "close"
      OBVIOUS
    <2> QED BY <1>1, <1>2, <2>2, <2>3, LeavesStep
  <1> QED BY <1>3, <1>4 DEF Prune

LEMMA RunKeeps ==
  ASSUME TabInv, NEW a \in Agents, Run(a)
  PROVE  [Table!ContractNext]_(Table!contract)
  <1>1. turn[a].at = "queued" /\ lock \in {NoTab, a} /\ ~Over(turn[a]) /\ turn[a].at \notin Opening
    BY DEF Run, InTurn, Over, Opening
  <1>2. CASE /\ turn[a].op = "page"
             /\ Go(a, IF turn[a].tab = NoTab THEN "session" ELSE "work")
             /\ UNCHANGED <<multi, tab>>
    BY <1>1, <1>2, GoKeeps DEF Opening
  <1>3. CASE turn[a].op = "open" /\ ~Made /\ Go(a, "session") /\ UNCHANGED <<multi, tab>>
    BY <1>1, <1>3, GoKeeps DEF Opening
  <1>4. CASE turn[a].op \in {"open", "switch"} /\ Prune(a)
    BY <1>1, <1>4, PruneKeeps
  <1>5. CASE Done(a) /\ UNCHANGED <<multi, tab>>
    BY <1>1, <1>5, DoneKeeps
  <1>6. CASE turn[a].op = "close" /\ turn[a].name \in OpenNames /\ Pop(a, multi, tab, turn[a].name, {})
    BY <1>1, <1>6, TypesNow, FrontNow, LeavesStep DEF Table!Fronts
  <1> QED BY <1>2, <1>3, <1>4, <1>5, <1>6 DEF Run

LEMMA SessionKeeps ==
  ASSUME TabInv, NEW a \in Agents, Session(a)
  PROVE  [Table!ContractNext]_(Table!contract)
  <1>1. /\ turn[a].at = "session" /\ lock \in {NoTab, a} /\ ~Over(turn[a]) /\ turn[a].at \notin Opening
        /\ turn[a].op = "open" => ~Made
    BY DEF Session, InTurn, Over, Opening, TabInv, StagePart
  <1>2. ASSUME NEW b \in Browsers, WithBase(a, b) PROVE [Table!ContractNext]_(Table!contract)
    <2>1. CASE turn[a].op = "page" /\ Go(a, "work") /\ UNCHANGED <<multi, tab>>
      BY <1>1, <2>1, GoKeeps DEF Opening
    <2>2. CASE turn[a].op = "open" /\ Body(a, [NoMulti EXCEPT !.browser = b], tab)
      <3> DEFINE m == [NoMulti EXCEPT !.browser = b]
      <3>1. /\ m \in Multis /\ m.active = NoTab /\ m.tabs = [n \in TabNames |-> NoTab]
        BY DEF NoMulti, Multis
      <3>2. OpenNames = {} /\ multi.tabs \in [TabNames -> Tabs \cup {NoTab}]
        BY <1>1, <2>2, TypesNow, NamesOpen, TabAssumption DEF TabInv, Dict, Made, Multis
      <3>3. m.tabs = multi.tabs
        BY <3>1, <3>2 DEF OpenNames
      <3>4. FrontOf(m) = NoTab
        BY <3>1, TabAssumption DEF FrontOf
      <3> HIDE DEF m
      <3>5. FrontOf(m) \in Table!Fronts
        BY <3>2, <3>4, FrontNow DEF Table!Fronts, FrontOf, Names, OpenNames
      <3> QED BY <1>1, <2>2, <3>1, <3>3, <3>5, TypesNow, ServesStep DEF m
    <2> QED BY <1>2, <2>1, <2>2 DEF WithBase
  <1>3. TRUE \in Answers(base) => base \in Browsers
    BY AnswersUp
  <1>4. CASE Done(a) /\ UNCHANGED <<multi, tab>>
    BY <1>1, <1>4, DoneKeeps
  <1>5. \A b \in Unborn(fate) : b \in Browsers
    BY TypesNow DEF Unborn, Ends
  <1> QED BY <1>2, <1>3, <1>4, <1>5 DEF Session

LEMMA ClosedKeeps ==
  ASSUME TabInv, ClosesOne, NEW a \in Agents, Closed(a)
  PROVE  [Table!ContractNext]_(Table!contract)
  <1> DEFINE s == turn[a].shut
  <1>1. InTurn(a, "closing")
    BY DEF Closed
  <1>2. turn[a].at = "closing" /\ turn[a].at \notin Opening /\ lock \in {NoTab, a}
    BY <1>1, AtLock DEF Holding, Opening
  <1>3. /\ turn[a].op \in {"open", "switch", "close"} /\ turn[a].todo \subseteq OpenNames
        /\ s \notin OpenNames /\ turn[a].tab \in Tabs /\ tab[turn[a].tab] = "open"
    BY <1>2, TypesNow DEF TabInv, StagePart, InHand, Turn
  <1>4. PICK m \in AfterClose(s), left \in Left :
          LET life == [tab EXCEPT ![turn[a].tab] = left] IN
          \/ turn[a].op = "close" /\ multi' = m /\ tab' = life /\ Done(a)
          \/ \E n \in turn[a].todo : Pop(a, m, life, n, turn[a].todo \ {n})
          \/ turn[a].op # "close" /\ turn[a].todo = {} /\ Body(a, m, life)
    BY Zenon DEF Closed
  <1> DEFINE life == [tab EXCEPT ![turn[a].tab] = left]
  <1>13. \/ turn[a].op = "close" /\ multi' = m /\ tab' = life /\ Done(a)
         \/ \E n \in turn[a].todo : Pop(a, m, life, n, turn[a].todo \ {n})
         \/ turn[a].op # "close" /\ turn[a].todo = {} /\ Body(a, m, life)
    BY <1>4, Zenon
  <1>5. life \in Lives /\ m \in Multis
    BY <1>1, ClosedRests
  <1>6. m.tabs = multi.tabs
    BY TypesNow DEF AfterClose, Multis
  <1>7. \A t \in Tabs : tab[t] # "unborn" <=> life[t] # "unborn"
    BY <1>3, TypesNow, LeftClosed DEF Lives
  <1>8. FrontOf(m) \in Table!Fronts
    <2>1. Names(m) = OpenNames
      BY <1>6 DEF Names, OpenNames
    <2>2. CASE multi.active # s
      BY <2>2, FrontNow DEF AfterClose, Table!Fronts
    <2>3. CASE multi.active = s
      <3>1. Front = NoTab
        BY <1>3, <2>3 DEF Front
      <3>2. m.active \in IF OpenNames = {} THEN {NoTab} ELSE OpenNames
        BY <2>3, TypesNow DEF AfterClose, Multis
      <3> QED BY <2>1, <3>1, <3>2, FrontNow DEF FrontOf, Table!Fronts
    <2> QED BY <2>2, <2>3
  <1> HIDE DEF life, s
  <1>9. CASE turn[a].op = "close" /\ multi' = m /\ tab' = life /\ Done(a)
    BY <1>2, <1>6, <1>7, <1>8, <1>9, FrontAfter, EndsStep DEF Done
  <1>10. turn[a].op # "close" => ~Over(turn[a])
    BY <1>2 DEF Over
  <1>11. CASE \E n \in turn[a].todo : Pop(a, m, life, n, turn[a].todo \ {n})
    <2>1. PICK n \in turn[a].todo : Pop(a, m, life, n, turn[a].todo \ {n})
      BY <1>11, Zenon
    <2>2. turn[a].op # "close" /\ n \in OpenNames
      BY <1>3 DEF ClosesOne
    <2> QED BY <1>2, <1>3, <1>5, <1>6, <1>7, <1>8, <1>10, <2>1, <2>2, LeavesStep
  <1>12. CASE turn[a].op # "close" /\ turn[a].todo = {} /\ Body(a, m, life)
    BY <1>2, <1>3, <1>5, <1>6, <1>7, <1>8, <1>10, <1>12, ServesStep
  <1> QED BY <1>9, <1>11, <1>12, <1>13

LEMMA StartedKeeps ==
  ASSUME TabInv, NEW a \in Agents, Started(a)
  PROVE  [Table!ContractNext]_(Table!contract)
  <1>1. /\ turn[a].at = "starting" /\ turn[a].tab \in Tabs /\ tab[turn[a].tab] = "starting"
        /\ UNCHANGED multi /\ ~Over(turn[a]) /\ turn[a].at \in Opening
    BY DEF Started, InTurn, TabInv, StagePart, InHand, Over, Opening
  <1>2. CASE tab' = [tab EXCEPT ![turn[a].tab] = "open"] /\ Go(a, "opening")
    BY <1>1, <1>2, TypesNow, GoKeeps DEF Lives, Opening
  <1>3. CASE (\E left \in Left : tab' = [tab EXCEPT ![turn[a].tab] = left]) /\ Done(a)
    BY <1>1, <1>3, TypesNow, LeftClosed, DoneKeeps DEF Lives
  <1> QED BY <1>2, <1>3 DEF Started

\* The tab enters the table, in front: the one step in which open_tab has its effect.
\* TabContract's Cardinality is that of FiniteSets, seen through INSTANCE.
LEMMA SameSize == ASSUME NEW S PROVE Table!Cardinality(S) = Cardinality(S)
  BY DEF Table!Cardinality, Cardinality

LEMMA OpenedKeeps ==
  ASSUME TabInv, NEW a \in Agents, Opened(a)
  PROVE  [Table!ContractNext]_(Table!contract)
  <1> DEFINE nm == turn[a].name
             t == turn[a].tab
             d == [multi.tabs EXCEPT ![nm] = t]
             p == [multi EXCEPT !.tabs = d, !.active = nm]
  <1>1. /\ turn[a].at = "opening" /\ turn[a].op = "open" /\ nm \in TabNames /\ t \in Tabs
        /\ tab[t] = "open" /\ nm \notin OpenNames /\ ~Full(multi)
    BY DEF Opened, InTurn, TabInv, StagePart, InHand
  <1>2. ~Over(turn[a]) /\ turn[a].at \in Opening /\ UNCHANGED <<base, fate, tab>>
    BY <1>1 DEF Over, Opening, Opened
  <1>3. CASE Go(a, "undoing") /\ UNCHANGED multi
    BY <1>2, <1>3, GoKeeps DEF Opening
  <1>4. CASE multi' = [multi EXCEPT !.tabs[nm] = t, !.active = nm] /\ Done(a)
    <2>1. turn' = [turn EXCEPT ![a] = Free]
      BY <1>4 DEF Done, Set
    <2>2. /\ multi' = p /\ p.tabs = d /\ p.active = nm /\ d[nm] = t
      BY <1>1, <1>4, TypesNow DEF Multis
    <2>3. lock \in {NoTab, a}
      BY DEF Opened, InTurn
    <2>4. /\ turn'[a].at = "idle" /\ turn'[a] = Free
          /\ \A o \in Agents : o # a => turn'[o] = turn[o] /\ turn[o].at \notin Opening
      BY <2>1, <2>3, OthersWait DEF TabInv, TabTypeOK, Opening, Holding, Free
    <2>5. Taken = {x \in Tabs : tab[x] # "unborn"} \ {t} /\ Taken' = {x \in Tabs : tab[x] # "unborn"}
      BY <1>1, <1>2, <2>4 DEF Taken, Opening
    <2>6. t \in Tabs \ Taken /\ Taken' = Taken \cup {t}
      BY <1>1, <2>5
    <2>7. Front' = nm
      <3>1. p.tabs[nm] = t /\ t # NoTab /\ p.active = nm
        BY <1>1, <2>2, TabAssumption
      <3>2. nm \in Names(p)
        BY <1>1, <3>1 DEF Names
      <3> QED BY <2>2, <3>1, <3>2, FrontAfter DEF FrontOf
    <2>8. Cardinality(Table!OpenTabs) < MaxTabs
      <3>1. Cardinality(OpenNames) \in Nat
        BY TabAssumption, FS_Subset, FS_CardinalityType DEF OpenNames
      <3> QED BY <1>1, <3>1, FrontNow, NamesOpen, TabAssumption DEF Full
    <2>9. Calls[a].op = "open" /\ Calls[a].name = nm /\ Calls' = [Calls EXCEPT ![a] = Table!NoCall]
      <3>1. Asked(turn[a]).op = "open" /\ Asked(turn[a]).name = nm
        BY <1>1, <1>2, AskedUnder
      <3>2. Asked(Free) = Table!NoCall
        BY AskedOver DEF Over, Free
      <3> QED BY <2>1, <3>1, <3>2, CallsAfter
    <2>10. multi'.tabs = [multi.tabs EXCEPT ![nm] = t] /\ nm \notin Table!OpenTabs
      BY <1>1, <2>2, FrontNow
    <2>11. Front' = Calls[a].name /\ multi'.tabs = [multi.tabs EXCEPT ![Calls[a].name] = t]
           /\ Calls[a].name \notin Table!OpenTabs
      BY <2>7, <2>9, <2>10
    <2> HIDE DEF nm, t, d, p
    <2>12. \E x \in Tabs \ Taken :
             multi'.tabs = [multi.tabs EXCEPT ![Calls[a].name] = x] /\ Taken' = Taken \cup {x}
      BY <2>6, <2>11
    <2>13. Table!Served(a)
      BY <2>9 DEF Table!Served, Calls
    <2>14. Table!Opens(a)
      BY <2>8, <2>9, <2>11, <2>12, <2>13, SameSize DEF Table!Opens, Calls
    <2> QED BY <2>14 DEF Table!ContractNext
  <1> QED BY <1>3, <1>4 DEF Opened

LEMMA UndoneKeeps ==
  ASSUME TabInv, NEW a \in Agents, Undone(a)
  PROVE  [Table!ContractNext]_(Table!contract)
  <1>1. /\ turn[a].at = "undoing" /\ turn[a].tab \in Tabs /\ UNCHANGED multi /\ ~Over(turn[a])
        /\ \E left \in Left : tab' = [tab EXCEPT ![turn[a].tab] = left]
        /\ Done(a) /\ turn[a].op = "open" /\ tab[turn[a].tab] = "open"
    BY DEF Undone, InTurn, TabInv, StagePart, InHand, Over
  <1>2. \A t \in Tabs : tab[t] # "unborn" <=> tab'[t] # "unborn"
    BY <1>1, TypesNow, LeftClosed DEF Lives
  <1> QED BY <1>1, <1>2, DoneKeeps

LEMMA FinishKeeps ==
  ASSUME TabInv, NEW a \in Agents, Finish(a)
  PROVE  [Table!ContractNext]_(Table!contract)
  BY DoneKeeps DEF Finish, InTurn

LEMMA CutShortKeeps ==
  ASSUME TabInv, NEW a \in Agents, CutShort(a)
  PROVE  [Table!ContractNext]_(Table!contract)
  <1>1. Done(a) /\ UNCHANGED multi /\ turn[a].at # "idle"
    BY DEF CutShort
  <1>2. CASE turn[a].at \in {"closing", "starting", "opening", "undoing"}
    <2>1. turn[a].tab \in Tabs /\ tab[turn[a].tab] # "unborn"
      BY <1>2 DEF TabInv, StagePart, InHand
    <2>2. tab' = [tab EXCEPT ![turn[a].tab] = "cut"]
      BY <1>2 DEF CutShort
    <2>3. \A t \in Tabs : tab[t] # "unborn" <=> tab'[t] # "unborn"
      BY <2>1, <2>2, TypesNow DEF Lives
    <2> QED BY <1>1, <2>3, DoneKeeps
  <1>3. CASE turn[a].at \notin {"closing", "starting", "opening", "undoing"}
    BY <1>1, <1>3, DoneKeeps DEF CutShort
  <1> QED BY <1>2, <1>3

LEMMA KeepsStep ==
  TabInv /\ ClosesOne /\ [TabNext]_tvars => [Table!ContractNext]_(Table!contract)
  <1> SUFFICES ASSUME TabInv, ClosesOne, [TabNext]_tvars
               PROVE  [Table!ContractNext]_(Table!contract)
    OBVIOUS
  <1>1. ASSUME NEW a \in Agents, TabStep(a)
        PROVE  [Table!ContractNext]_(Table!contract)
    BY <1>1, ValidatedKeeps, RunKeeps, SessionKeeps, FinishKeeps, ClosedKeeps, StartedKeeps,
       OpenedKeeps, UndoneKeeps DEF TabStep
  <1>2. CASE UNCHANGED <<multi, tab, turn>>
    BY <1>2 DEF Table!contract, Front, Taken, OpenNames
  <1>3. ASSUME NEW b \in Browsers, Crash(b)
        PROVE  UNCHANGED <<multi, tab, turn>>
    BY <1>3 DEF Crash
  <1> QED BY <1>1, <1>2, <1>3, IssueKeeps, CutShortKeeps DEF TabNext, tvars

LEMMA ClosesOneStep ==
  ASSUME TabInv, ClosesOne, [TabNext]_tvars
  PROVE  ClosesOne'
  <1>1. TabTypeOK
    BY DEF TabInv
  <1>2. ASSUME NEW a \in Agents, NEW r, turn' = [turn EXCEPT ![a] = r], r.op = "close" => r.todo = {}
        PROVE  ClosesOne'
    BY <1>1, <1>2 DEF TabTypeOK, ClosesOne
  <1>3. ASSUME NEW a \in Agents, Done(a)
        PROVE  ClosesOne'
    BY <1>2, <1>3 DEF Done, Set, Free
  <1>4. ASSUME NEW a \in Agents, NEW s, Set(a, [turn[a] EXCEPT !.at = s])
        PROVE  ClosesOne'
    <2>1. turn[a].op = "close" => turn[a].todo = {}
      BY DEF ClosesOne
    <2>2. [turn[a] EXCEPT !.at = s].op = turn[a].op /\ [turn[a] EXCEPT !.at = s].todo = turn[a].todo
      BY <1>1 DEF TabTypeOK, Turn
    <2> QED BY <1>2, <1>4, <2>1, <2>2 DEF Set
  <1>5. ASSUME NEW a \in Agents, NEW s, Go(a, s)
        PROVE  ClosesOne'
    BY <1>4, <1>5 DEF Go
  <1>6. ASSUME NEW a \in Agents, NEW m, NEW life, NEW n, NEW todo, Pop(a, m, life, n, todo),
               turn[a].op = "close" => todo = {}
        PROVE  ClosesOne'
    <2> DEFINE r == [turn[a] EXCEPT !.at = "closing", !.tab = m.tabs[n], !.shut = n, !.todo = todo]
    <2>1. r.op = turn[a].op /\ r.todo = todo
      BY <1>1 DEF TabTypeOK, Turn
    <2>2. turn' = [turn EXCEPT ![a] = r]
      BY <1>6 DEF Pop, Set
    <2> HIDE DEF r
    <2> QED BY <1>2, <1>6, <2>1, <2>2
  <1>7. ASSUME NEW a \in Agents, NEW m, NEW life, Body(a, m, life), turn[a].op # "close"
        PROVE  ClosesOne'
    <2>1. ASSUME NEW t, NEW s, Set(a, [turn[a] EXCEPT !.at = s, !.tab = t, !.shut = NoTab])
          PROVE  ClosesOne'
      <3> DEFINE r == [turn[a] EXCEPT !.at = s, !.tab = t, !.shut = NoTab]
      <3>1. r.op = turn[a].op
        BY <1>1 DEF TabTypeOK, Turn
      <3>2. turn' = [turn EXCEPT ![a] = r]
        BY <2>1 DEF Set
      <3> HIDE DEF r
      <3> QED BY <1>2, <1>7, <3>1, <3>2
    <2> QED BY <1>3, <1>7, <2>1 DEF Body
  <1>8. ASSUME NEW a \in Agents, Prune(a), turn[a].op # "close"
        PROVE  ClosesOne'
    BY <1>6, <1>7, <1>8 DEF Prune
  <1>9. ASSUME NEW a \in Agents, NEW op \in {"page", "open", "switch", "close"},
               NEW n \in TabNames \cup {NoTab}, Issue(a, op, n)
        PROVE  ClosesOne'
    <2>1. PICK at : Set(a, [Free EXCEPT !.op = op, !.at = at, !.name = n, !.ctx = Made,
                                 !.tab = IF op = "page" THEN ActiveTab ELSE NoTab])
      BY <1>9 DEF Issue
    <2> DEFINE r == [Free EXCEPT !.op = op, !.at = at, !.name = n, !.ctx = Made,
                                 !.tab = IF op = "page" THEN ActiveTab ELSE NoTab]
    <2>2. r.todo = {}
      BY DEF Free
    <2>3. turn' = [turn EXCEPT ![a] = r]
      BY <2>1 DEF Set
    <2> HIDE DEF r
    <2> QED BY <1>2, <2>2, <2>3
  <1>10. ASSUME NEW a \in Agents, Validated(a)
         PROVE  ClosesOne'
    <2>1. Free.op # "close"
      BY DEF Free
    <2> QED BY <1>2, <1>4, <1>10, <2>1 DEF Validated, Set
  <1>11. ASSUME NEW a \in Agents, Run(a)
         PROVE  ClosesOne'
    BY <1>3, <1>5, <1>6, <1>8, <1>11 DEF Run
  <1>12. ASSUME NEW a \in Agents, Session(a)
         PROVE  ClosesOne'
    BY <1>3, <1>5, <1>7, <1>12 DEF Session, WithBase
  <1>13. ASSUME NEW a \in Agents, Closed(a)
         PROVE  ClosesOne'
    <2>1. turn[a].op = "close" => turn[a].todo = {}
      BY DEF ClosesOne
    <2> QED BY <1>3, <1>6, <1>7, <1>13, <2>1 DEF Closed
  <1>14. ASSUME NEW a \in Agents, Finish(a) \/ Started(a) \/ Opened(a) \/ Undone(a) \/ CutShort(a)
         PROVE  ClosesOne'
    BY <1>3, <1>5, <1>14 DEF Finish, Started, Opened, Undone, CutShort
  <1>15. CASE UNCHANGED turn
    BY <1>15 DEF ClosesOne
  <1> QED BY <1>9, <1>10, <1>11, <1>12, <1>13, <1>14, <1>15 DEF TabNext, TabStep, tvars, Crash

LEMMA KeepsInit == TabInit => ClosesOne /\ Table!ContractInit
  <1> SUFFICES ASSUME TabInit PROVE ClosesOne /\ Table!ContractInit
    OBVIOUS
  <1>1. /\ multi.tabs = [n \in TabNames |-> NoTab] /\ tab = [t \in Tabs |-> "unborn"]
        /\ multi.active = NoTab /\ turn = [o \in Agents |-> Free]
    BY DEF TabInit, NoMulti
  <1>2. ClosesOne
    BY <1>1 DEF ClosesOne, Free
  <1>3. Front = NoTab /\ Taken = {}
    BY <1>1 DEF Front, Taken, OpenNames
  <1>4. Asked(Free) = Table!NoCall
    BY AskedOver DEF Over, Free
  <1>5. [o \in Agents |-> Asked(turn[o])] = [o \in Agents |-> Table!NoCall]
    BY <1>1, <1>4
  <1> QED BY <1>1, <1>2, <1>3, <1>5 DEF Table!ContractInit

\* Although a call checks the table of tabs before its awaits and changes it after them, closes
\* expired tabs one by one on the way, may fail at each stage and may be cancelled in any, what
\* the agent sees is TabContract: each call does what it was asked in one step, once or not at
\* all, and nothing but such a call moves the agent off the tab in front while it is open.
THEOREM TabToolsKeepTable == TabSpec => KeepsTable
  <1>1. TabInit => ClosesOne /\ Table!ContractInit
    BY KeepsInit
  <1>2. TabInv /\ ClosesOne /\ [TabNext]_tvars => ClosesOne'
    BY ClosesOneStep
  <1>3. TabInv /\ ClosesOne /\ [TabNext]_tvars => [Table!ContractNext]_(Table!contract)
    BY KeepsStep
  <1> QED BY <1>1, <1>2, <1>3, TabInvariant, PTL DEF TabSpec, KeepsTable, Table!ContractSpec

=============================================================================
