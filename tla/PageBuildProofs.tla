-------------------------- MODULE PageBuildProofs --------------------------
(***************************************************************************)
(* What is proved of building and fetching pages, for every value of the       *)
(* constants.                                                                *)
(*                                                                         *)
(* PromptDiff: DiffsAddUp.  The agent's view is wrong forever once a diff     *)
(* calls a section unchanged that is not, so the invariant carries the whole   *)
(* history; it is inductive by itself, given that equal sections have equal    *)
(* lines.                                                                   *)
(*                                                                         *)
(* TemplateBuilds: TemplatesAccounted.  The counters of the cache agree with    *)
(* its size only if no key has two entries and no operation takes out one it   *)
(* does not count, so Sound says both of a cache, and each operation keeps it.  *)
(*                                                                         *)
(* FastFetch: CurlSessionKept needs to know who may close the session in place  *)
(* (the holder of the lock, for another target).  The cookie properties speak   *)
(* of what is on the wire; CookieInv says the same of the jars, of the copies   *)
(* that calls carry and of what the clients remember, from which headers are    *)
(* made.  Each step is first summed up as what it makes of its call.           *)
(***************************************************************************)
EXTENDS PromptDiff, FastFetch, TemplateBuilds, FiniteSetTheorems, TLAPS

-----------------------------------------------------------------------------
(***************************************************************************)
(* Prompts and their diffs.                                                 *)
(***************************************************************************)
\* What is compared, section by section; of the actions the refs and what _interactables_equal compares.
Shown(m, s) ==
  IF s = "actions" THEN [i \in DOMAIN m.actions |-> <<i, m.actions[i].is>>] ELSE Prompt(m)[s]
Seen(v, s) ==
  IF s = "actions" THEN [i \in DOMAIN v[s] |-> <<v[s][i][1], v[s][i][2]>>] ELSE v[s]

DiffInv == answered \in AnswerMap /\ \A s \in Compared : Seen(view, s) = Shown(answered, s)

LEMMA DiffInvIsPromise == DiffInv => DiffsAddUp
  BY DEF DiffInv, DiffsAddUp, Seen, Shown

\* A full answer shows a map as it is.
LEMMA PromptShows ==
  ASSUME NEW m \in AnswerMap, NEW s \in Compared, NEW v, v[s] = Prompt(m)[s]
  PROVE  Seen(v, s) = Shown(m, s)
  <1>1. CASE s = "actions"
    <2>1. s \in Told
      BY DEF Told
    <2>2. v[s] = [i \in DOMAIN m.actions |-> <<i, m.actions[i].is, m.actions[i].how, m.marked>>]
      BY <1>1, <2>1 DEF Prompt, ActionLines
    <2>3. DOMAIN v[s] = DOMAIN m.actions
      BY <2>2
    <2>4. \A i \in DOMAIN m.actions : v[s][i][1] = i /\ v[s][i][2] = m.actions[i].is
      BY <2>2
    <2> QED BY <1>1, <2>3, <2>4 DEF Seen, Shown
  <1>2. CASE s # "actions"
    BY <1>2 DEF Seen, Shown
  <1> QED BY <1>1, <1>2

\* A section that compares as the same is shown the same.
LEMMA SameIsShownSame ==
  ASSUME NEW old \in AnswerMap, NEW new \in AnswerMap, NEW s \in Compared, SameSection(s, old, new)
  PROVE  Shown(old, s) = Shown(new, s)
  <1>1. CASE s = "actions"
    <2>1. old.actions \in Seq(Action) /\ new.actions \in Seq(Action)
      BY DiffAssumption DEF AnswerMap
    <2>2. Len(old.actions) = Len(new.actions) /\ \A i \in DOMAIN old.actions : old.actions[i].is = new.actions[i].is
      BY <1>1 DEF SameSection, SameActions
    <2>3. DOMAIN old.actions = DOMAIN new.actions
      BY <2>1, <2>2
    <2> QED BY <1>1, <2>2, <2>3 DEF Shown
  <1>2. CASE s # "actions"
    <2>1. s \in Told /\ s \in {"ecommerce", "navigation", "info", "images"} /\ old[s] = new[s]
      BY <1>2 DEF Compared, Told, SameSection
    <2>2. Prompt(old)[s] = Prompt(new)[s]
      BY <2>1 DEF Prompt, AnswerMap
    <2> QED BY <1>2, <2>2 DEF Shown
  <1> QED BY <1>1, <1>2

\* Without data a section has no lines.
LEMMA NothingShown ==
  ASSUME NEW m \in AnswerMap, NEW s \in Compared, LacksData(s, m)
  PROVE  Prompt(m)[s] = NoLines
  <1>1. CASE s = "actions"
    <2>1. m.actions = <<>> /\ s \in Told
      BY <1>1 DEF LacksData, Told
    <2>2. DOMAIN m.actions = {}
      BY <2>1
    <2> QED BY <1>1, <2>1, <2>2 DEF Prompt, ActionLines, NoLines
  <1>2. CASE s # "actions"
    <2>1. s \in Told /\ s \in {"ecommerce", "navigation", "info", "images"} /\ m[s] = "none"
      BY <1>2 DEF Compared, Told, LacksData
    <2> QED BY <2>1 DEF Prompt, EcommerceLines, LinesOf, AnswerMap
  <1> QED BY <1>1, <1>2

LEMMA DiffInitInv == DiffInit => DiffInv
  <1> SUFFICES ASSUME DiffInit PROVE DiffInv
    OBVIOUS
  <1>1. answered \in AnswerMap /\ view = Prompt(answered)
    BY DEF DiffInit
  <1>2. \A s \in Compared : Seen(view, s) = Shown(answered, s)
    BY <1>1, PromptShows
  <1> QED BY <1>1, <1>2 DEF DiffInv

LEMMA FullKeepsView == ASSUME NEW m \in AnswerMap, AnswerFull(m) PROVE DiffInv'
  <1>1. answered' \in AnswerMap /\ view' = Prompt(answered') /\ answered' = m
    BY DEF AnswerFull
  <1>2. \A s \in Compared : Seen(view', s) = Shown(answered', s)
    BY <1>1, PromptShows
  <1> QED BY <1>1, <1>2 DEF DiffInv

LEMMA DiffKeepsView == ASSUME DiffInv, NEW m \in AnswerMap, AnswerDiff(m) PROVE DiffInv'
  <1> DEFINE d == Diff(answered, m)
  <1>1. answered' = m /\ view' = [s \in Told |-> IF d[s].kept \/ s = "notices" THEN view[s] ELSE d[s].lines]
    BY DEF AnswerDiff, ReadAs
  <1>2. answered \in AnswerMap /\ \A s \in Compared : Seen(view, s) = Shown(answered, s)
    BY DEF DiffInv
  <1>3. ASSUME NEW s \in Compared PROVE Seen(view', s) = Shown(m, s)
    <2>1. s \in Told /\ s # "notices"
      BY DEF Compared, Told
    <2>2. CASE d[s].kept
      <3>1. SameSection(s, answered, m)
        BY <1>3, <2>1, <2>2 DEF Diff, Section, Resent
      <3>2. view'[s] = view[s]
        BY <1>1, <2>1, <2>2
      <3>3. Seen(view', s) = Seen(view, s)
        BY <3>2 DEF Seen
      <3> QED BY <1>2, <1>3, <3>1, <3>3, SameIsShownSame
    <2>3. CASE ~d[s].kept
      <3>1. view'[s] = d[s].lines
        BY <1>1, <2>1, <2>3
      <3>2. d[s].lines = Prompt(m)[s]
        <4>1. d[s] = Section(s, answered, m)
          BY <1>3, <2>1, <2>3 DEF Diff, Marker
        <4>2. CASE ~SameSection(s, answered, m)
          BY <2>1, <4>1, <4>2 DEF Section, Resent
        <4>3. CASE SameSection(s, answered, m)
          <5>1. LacksData(s, m) /\ d[s] = Resent(NoLines)
            BY <2>1, <2>3, <4>1, <4>3 DEF Section, Marker
          <5> QED BY <5>1, <1>3, NothingShown DEF Resent
        <4> QED BY <4>2, <4>3
      <3> QED BY <1>3, <3>1, <3>2, PromptShows
    <2> QED BY <2>2, <2>3
  <1> QED BY <1>1, <1>3 DEF DiffInv

LEMMA DiffStep == DiffInv /\ [DiffNext]_dvars => DiffInv'
  <1> SUFFICES ASSUME DiffInv, [DiffNext]_dvars PROVE DiffInv'
    OBVIOUS
  <1>1. CASE BuiltAnew
    BY <1>1, FullKeepsView DEF BuiltAnew
  <1>2. CASE HitAgain
    BY <1>2, DiffKeepsView DEF HitAgain, DiffInv
  <1>3. CASE ContentRebuilt
    BY <1>3, DiffKeepsView, FullKeepsView DEF ContentRebuilt
  <1>4. CASE RebuiltAfterDismiss
    BY <1>4, DiffKeepsView DEF RebuiltAfterDismiss
  <1>5. CASE UNCHANGED dvars
    BY <1>5 DEF dvars, DiffInv
  <1> QED BY <1>1, <1>2, <1>3, <1>4, <1>5 DEF DiffNext

\* DiffsAddUp: an agent that reads full answers and diffs in any order knows of every section
\* that is compared what a full prompt of the current map would say, up to what
\* _interactables_equal leaves out of an action's line.
THEOREM DiffsAlwaysAddUp == DiffSpec => []DiffsAddUp
  BY DiffInitInv, DiffStep, DiffInvIsPromise, PTL DEF DiffSpec

-----------------------------------------------------------------------------
(***************************************************************************)
(* The template cache: TemplatesAccounted.                                   *)
(***************************************************************************)
Counters == [created : Nat, evictions : Nat, invalidations : Nat]
CacheState == [e : Seq(Template), s : Counters, x : Nat]
OnePerKey(e) == \A i, j \in DOMAIN e : e[i].key = e[j].key => i = j

\* A cache state that is within its size, has one template per key, and whose counters add up.
Sound(c) ==
  /\ c \in CacheState
  /\ Len(c.e) <= MaxTemplates /\ OnePerKey(c.e)
  /\ c.s.created = Len(c.e) + c.s.evictions + c.s.invalidations + c.x

\* What is left of a sequence from which one place is removed.
LEMMA RemovedAt ==
  ASSUME NEW S, NEW s \in Seq(S), NEW i \in DOMAIN s
  PROVE  /\ RemoveAt(s, i) \in Seq(S) /\ Len(RemoveAt(s, i)) = Len(s) - 1
         /\ \A j \in DOMAIN RemoveAt(s, i) : RemoveAt(s, i)[j] = IF j < i THEN s[j] ELSE s[j + 1]
  <1> DEFINE a == SubSeq(s, 1, i - 1)
             b == SubSeq(s, i + 1, Len(s))
  <1>1. a \in Seq(S) /\ Len(a) = i - 1 /\ \A j \in 1..(i - 1) : a[j] = s[j]
    OBVIOUS
  <1>2. b \in Seq(S) /\ Len(b) = Len(s) - i /\ \A j \in 1..(Len(s) - i) : b[j] = s[i + j]
    OBVIOUS
  <1>3. RemoveAt(s, i) = a \o b
    BY DEF RemoveAt
  <1> HIDE DEF a, b
  <1>4. /\ a \o b \in Seq(S) /\ Len(a \o b) = Len(s) - 1
        /\ \A j \in 1..Len(a \o b) : (a \o b)[j] = IF j < i THEN a[j] ELSE b[j - (i - 1)]
    BY <1>1, <1>2
  <1>5. i \in 1..Len(s) /\ Len(s) \in Nat /\ DOMAIN (a \o b) = 1..(Len(s) - 1)
    BY <1>4
  <1>6. ASSUME NEW j \in 1..(Len(s) - 1)
        PROVE  (a \o b)[j] = IF j < i THEN s[j] ELSE s[j + 1]
    <2>1. CASE j < i
      <3>1. j \in 1..(i - 1)
        BY <1>5, <2>1
      <3> QED BY <1>1, <1>4, <1>5, <2>1, <3>1
    <2>2. CASE ~(j < i)
      <3>1. j - (i - 1) \in 1..(Len(s) - i) /\ i + (j - (i - 1)) = j + 1
        <4>1. i \in Int /\ j \in Int /\ Len(s) \in Int /\ i <= j /\ j <= Len(s) - 1
          BY <1>5, <2>2
        <4> QED BY <4>1
      <3>2. b[j - (i - 1)] = s[j + 1]
        BY <1>2, <3>1
      <3> QED BY <1>4, <1>5, <2>2, <3>2
    <2> QED BY <2>1, <2>2
  <1> QED BY <1>3, <1>4, <1>5, <1>6

\* One template less, one more dropped: the counters still add up.
LEMMA Balance ==
  ASSUME NEW c, Sound(c)
  PROVE  /\ c.s.created = (Len(c.e) - 1) + c.s.evictions + c.s.invalidations + (c.x + 1)
         /\ c.s.created = (Len(c.e) - 1) + c.s.evictions + (c.s.invalidations + 1) + c.x
         /\ Len(c.e) - 1 <= MaxTemplates
  <1>1. PICK l : l = Len(c.e)
    OBVIOUS
  <1>2. l \in Nat /\ c.s.evictions \in Nat /\ c.s.invalidations \in Nat /\ c.x \in Nat
    BY <1>1 DEF Sound, CacheState, Counters
  <1>3. c.s.created = l + c.s.evictions + c.s.invalidations + c.x /\ l <= MaxTemplates
    BY <1>1 DEF Sound
  <1>4. /\ c.s.created = (l - 1) + c.s.evictions + c.s.invalidations + (c.x + 1)
        /\ c.s.created = (l - 1) + c.s.evictions + (c.s.invalidations + 1) + c.x
        /\ l - 1 <= MaxTemplates
    BY <1>2, <1>3, TemplateAssumption
  <1> QED BY <1>1, <1>4, Zenon

\* A key's template is where it is looked for.
LEMMA FoundInSlot ==
  ASSUME NEW c, c \in CacheState, NEW k, Has(c, k)
  PROVE  /\ Slot(c, k) \in DOMAIN c.e /\ c.e[Slot(c, k)].key = k
         /\ At(c, k) \in Template /\ At(c, k).key = k
  <1>1. Slot(c, k) \in Find(c, k)
    BY DEF Has, Slot
  <1> QED BY <1>1 DEF Find, At, CacheState

\* Without a key's template the cache is one template shorter, if it had one.
LEMMA WithoutOne ==
  ASSUME NEW c, Sound(c), NEW k
  PROVE  /\ Without(c, k) \in CacheState /\ Without(c, k).s = c.s /\ Without(c, k).x = c.x
         /\ Len(Without(c, k).e) = IF Has(c, k) THEN Len(c.e) - 1 ELSE Len(c.e)
         /\ OnePerKey(Without(c, k).e)
         /\ \A i \in DOMAIN Without(c, k).e : Without(c, k).e[i].key # k
  <1> DEFINE w == RemoveAt(c.e, Slot(c, k))
  <1>1. CASE Has(c, k)
    <2>1. Slot(c, k) \in DOMAIN c.e /\ c.e[Slot(c, k)].key = k /\ c.e \in Seq(Template)
      BY <1>1, FoundInSlot DEF Sound, CacheState
    <2>2. /\ w \in Seq(Template) /\ Len(w) = Len(c.e) - 1
          /\ \A j \in DOMAIN w : w[j] = IF j < Slot(c, k) THEN c.e[j] ELSE c.e[j + 1]
      BY <2>1, RemovedAt
    <2>3. Without(c, k) = [c EXCEPT !.e = w]
      BY <1>1 DEF Without
    <2> HIDE DEF w
    <2>4. Without(c, k) \in CacheState /\ Without(c, k).e = w /\ Without(c, k).s = c.s /\ Without(c, k).x = c.x
      BY <2>2, <2>3 DEF Sound, CacheState
    <2>5. \A j \in DOMAIN w : LET n == IF j < Slot(c, k) THEN j ELSE j + 1 IN
                               w[j] = c.e[n] /\ n \in DOMAIN c.e \ {Slot(c, k)}
      <3>1. DOMAIN w = 1..Len(w) /\ DOMAIN c.e = 1..Len(c.e) /\ Len(c.e) \in Nat
        BY <2>1, <2>2
      <3> QED BY <2>1, <2>2, <3>1
    <2>6. DOMAIN w \subseteq Nat /\ Slot(c, k) \in Nat
      BY <2>1, <2>2
    <2>7. OnePerKey(w) /\ \A i \in DOMAIN w : w[i].key # k
      <3>1. OnePerKey(c.e)
        BY DEF Sound
      <3>2. \A j \in DOMAIN w : w[j].key # k
        BY <2>1, <2>5, <3>1 DEF OnePerKey
      <3>3. ASSUME NEW i \in DOMAIN w, NEW j \in DOMAIN w, w[i].key = w[j].key PROVE i = j
        <4> DEFINE m == IF i < Slot(c, k) THEN i ELSE i + 1
                   n == IF j < Slot(c, k) THEN j ELSE j + 1
        <4>1. m = n
          BY <2>5, <3>1, <3>3 DEF OnePerKey
        <4> QED BY <2>6, <4>1
      <3> QED BY <3>2, <3>3 DEF OnePerKey
    <2> QED BY <1>1, <2>2, <2>4, <2>7
  <1>2. CASE ~Has(c, k)
    BY <1>2 DEF Without, Sound, Has, Find
  <1> QED BY <1>1, <1>2

\* A template is put at the end, in a cache that has none of its key.
LEMMA AppendsOne ==
  ASSUME NEW e \in Seq(Template), OnePerKey(e), NEW t \in Template,
         \A i \in DOMAIN e : e[i].key # t.key
  PROVE  /\ Append(e, t) \in Seq(Template) /\ Len(Append(e, t)) = Len(e) + 1
         /\ OnePerKey(Append(e, t))
  BY DEF OnePerKey

LEMMA TailHasOne ==
  ASSUME NEW e \in Seq(Template), OnePerKey(e), e # <<>>
  PROVE  Tail(e) \in Seq(Template) /\ Len(Tail(e)) = Len(e) - 1 /\ OnePerKey(Tail(e))
  BY DEF OnePerKey

LEMMA LookupSound == ASSUME NEW c, Sound(c), NEW k PROVE Sound(Lookup(c, k))
  <1> DEFINE w == Without(c, k)
  <1>1. /\ w \in CacheState /\ w.s = c.s /\ w.x = c.x /\ OnePerKey(w.e)
        /\ Len(w.e) = IF Has(c, k) THEN Len(c.e) - 1 ELSE Len(c.e)
        /\ \A i \in DOMAIN w.e : w.e[i].key # k
    BY WithoutOne
  <1> HIDE DEF w
  <1>2. CASE Has(c, k) /\ ~At(c, k).old
    <2>1. At(c, k) \in Template /\ At(c, k).key = k
      BY <1>2, FoundInSlot DEF Sound
    <2> DEFINE l == Append(w.e, At(c, k))
    <2>2. l \in Seq(Template) /\ Len(l) = Len(c.e) /\ OnePerKey(l)
      BY <1>1, <1>2, <2>1, AppendsOne DEF CacheState, Sound
    <2>3. Lookup(c, k) = [w EXCEPT !.e = l]
      BY <1>2 DEF Lookup, w
    <2> HIDE DEF l
    <2>4. Lookup(c, k) \in CacheState /\ Lookup(c, k).e = l /\ Lookup(c, k).s = c.s /\ Lookup(c, k).x = c.x
      BY <1>1, <2>2, <2>3 DEF CacheState
    <2> QED BY <2>2, <2>4 DEF Sound
  <1>3. CASE Has(c, k) /\ At(c, k).old
    <2>1. Lookup(c, k) = [w EXCEPT !.x = @ + 1]
      BY <1>3 DEF Lookup, Missed, w
    <2>2. /\ Lookup(c, k) \in CacheState /\ Lookup(c, k).e = w.e /\ Lookup(c, k).s = c.s
          /\ Lookup(c, k).x = c.x + 1
      BY <1>1, <2>1 DEF CacheState
    <2>3. Len(w.e) = Len(c.e) - 1
      BY <1>1, <1>3
    <2>4. c.s.created = Len(w.e) + c.s.evictions + c.s.invalidations + (c.x + 1) /\ Len(w.e) <= MaxTemplates
      BY <2>3, Balance, Zenon
    <2> QED BY <1>1, <2>2, <2>4 DEF Sound
  <1>4. CASE ~Has(c, k)
    BY <1>4 DEF Lookup, Missed
  <1> QED BY <1>2, <1>3, <1>4

LEMMA StoreSound == ASSUME NEW c, Sound(c), NEW t \in Template PROVE Sound(Store(c, t))
  <1> DEFINE w == Without(c, t.key)
             l == Append(w.e, t)
             m == IF Has(c, t.key) THEN c.s.created ELSE c.s.created + 1
             i == [w EXCEPT !.e = l]
             d == [i EXCEPT !.s.created = m]
             f == [d EXCEPT !.e = Tail(@)]
  <1>1. /\ w \in CacheState /\ w.s = c.s /\ w.x = c.x /\ OnePerKey(w.e)
        /\ Len(w.e) = IF Has(c, t.key) THEN Len(c.e) - 1 ELSE Len(c.e)
        /\ \A n \in DOMAIN w.e : w.e[n].key # t.key
    BY WithoutOne
  <1>2. Store(c, t) = IF Len(d.e) <= MaxTemplates THEN d ELSE [f EXCEPT !.s.evictions = @ + 1]
    <2>1. i.s.created = c.s.created
      BY <1>1 DEF CacheState
    <2> QED BY <2>1, <1>1 DEF Store
  <1> HIDE DEF w
  <1>3. l \in Seq(Template) /\ Len(l) = Len(w.e) + 1 /\ OnePerKey(l)
    BY <1>1, AppendsOne DEF CacheState
  <1> HIDE DEF l
  <1>4. i \in CacheState /\ i.e = l /\ i.s = c.s /\ i.x = c.x
    BY <1>1, <1>3 DEF CacheState
  <1> HIDE DEF i
  <1>5. m \in Nat
    BY DEF Sound, CacheState, Counters
  <1> HIDE DEF m
  <1>6. /\ d \in CacheState /\ d.e = l /\ d.x = c.x /\ d.s.created = m
        /\ d.s.evictions = c.s.evictions /\ d.s.invalidations = c.s.invalidations
    BY <1>4, <1>5 DEF CacheState, Counters
  <1> HIDE DEF d
  <1>7. m = Len(l) + c.s.evictions + c.s.invalidations + c.x
    BY <1>1, <1>3 DEF m, Sound, CacheState, Counters
  <1>8. CASE Len(d.e) <= MaxTemplates
    BY <1>2, <1>3, <1>6, <1>7, <1>8 DEF Sound
  <1>9. CASE ~(Len(d.e) <= MaxTemplates)
    <2>1. l # <<>> /\ Len(l) \in Nat /\ Len(w.e) \in Nat /\ MaxTemplates \in Nat /\ Len(c.e) \in Nat
      BY <1>1, <1>3, TemplateAssumption DEF CacheState, Sound
    <2>2. Tail(l) \in Seq(Template) /\ Len(Tail(l)) = Len(l) - 1 /\ OnePerKey(Tail(l))
      BY <1>3, <2>1, TailHasOne
    <2>3. f \in CacheState /\ f.e = Tail(l) /\ f.s = d.s /\ f.x = d.x
      BY <1>6, <2>2 DEF CacheState
    <2> HIDE DEF f
    <2> DEFINE g == [f EXCEPT !.s.evictions = @ + 1]
    <2>4. /\ g \in CacheState /\ g.e = Tail(l) /\ g.x = c.x /\ g.s.created = m
          /\ g.s.evictions = c.s.evictions + 1 /\ g.s.invalidations = c.s.invalidations
      BY <1>6, <2>3 DEF CacheState, Counters
    <2>5. Store(c, t) = g
      BY <1>2, <1>9
    <2> HIDE DEF g
    <2>6. Len(l) <= MaxTemplates + 1
      BY <1>1, <1>3, <2>1 DEF Sound
    <2>7. c.s.evictions \in Nat /\ c.s.invalidations \in Nat /\ c.x \in Nat
      BY DEF Sound, CacheState, Counters
    <2>8. m = Len(Tail(l)) + (c.s.evictions + 1) + c.s.invalidations + c.x /\ Len(Tail(l)) <= MaxTemplates
      BY <1>5, <1>7, <2>1, <2>2, <2>6, <2>7
    <2> QED BY <2>2, <2>4, <2>5, <2>8 DEF Sound
  <1> QED BY <1>8, <1>9

LEMMA InvalidateSound == ASSUME NEW c, Sound(c), NEW k PROVE Sound(Invalidate(c, k))
  <1> DEFINE w == Without(c, k)
             d == [w EXCEPT !.s.invalidations = @ + 1]
  <1>1. /\ w \in CacheState /\ w.s = c.s /\ w.x = c.x /\ OnePerKey(w.e)
        /\ Len(w.e) = IF Has(c, k) THEN Len(c.e) - 1 ELSE Len(c.e)
    BY WithoutOne
  <1>2. Invalidate(c, k) = IF Has(c, k) THEN d ELSE c
    BY DEF Invalidate
  <1> HIDE DEF w
  <1>3. /\ d \in CacheState /\ d.e = w.e /\ d.x = c.x /\ d.s.created = c.s.created
        /\ d.s.evictions = c.s.evictions /\ d.s.invalidations = c.s.invalidations + 1
    BY <1>1 DEF CacheState, Counters
  <1> HIDE DEF d
  <1>4. Has(c, k) => /\ c.s.created = Len(w.e) + c.s.evictions + (c.s.invalidations + 1) + c.x
                     /\ Len(w.e) <= MaxTemplates
    BY <1>1, Balance, Zenon
  <1> QED BY <1>1, <1>2, <1>3, <1>4 DEF Sound

LEMMA SetFailsSound ==
  ASSUME NEW c, Sound(c), NEW k, NEW n \in 0..(MAX_CONSECUTIVE_FAILURES - 1)
  PROVE  Sound(SetFails(c, k, n))
  <1> DEFINE l == [i \in DOMAIN c.e |-> IF c.e[i].key = k THEN [c.e[i] EXCEPT !.fails = n] ELSE c.e[i]]
  <1>1. c.e \in Seq(Template) /\ DOMAIN l = 1..Len(c.e) /\ Len(c.e) \in Nat
    BY DEF Sound, CacheState
  <1>2. ASSUME NEW i \in DOMAIN c.e PROVE l[i] \in Template /\ l[i].key = c.e[i].key
    <2>1. c.e[i] \in Template
      BY <1>1
    <2>2. [c.e[i] EXCEPT !.fails = n] \in Template /\ [c.e[i] EXCEPT !.fails = n].key = c.e[i].key
      BY <2>1 DEF Template
    <2> QED BY <2>1, <2>2
  <1>3. SetFails(c, k, n) = [c EXCEPT !.e = l]
    BY DEF SetFails
  <1> HIDE DEF l
  <1>4. l \in Seq(Template) /\ Len(l) = Len(c.e)
    <2>1. l \in [1..Len(c.e) -> Template]
      <3>1. DOMAIN l = 1..Len(c.e) /\ \A i \in 1..Len(c.e) : l[i] \in Template
        BY <1>1, <1>2
      <3>2. l = [i \in 1..Len(c.e) |-> l[i]]
        BY <1>1 DEF l
      <3> QED BY <3>1, <3>2
    <2> QED BY <1>1, <2>1
  <1>5. /\ SetFails(c, k, n) \in CacheState /\ SetFails(c, k, n).e = l
        /\ SetFails(c, k, n).s = c.s /\ SetFails(c, k, n).x = c.x
    BY <1>3, <1>4 DEF Sound, CacheState
  <1>6. OnePerKey(l)
    BY <1>1, <1>2 DEF OnePerKey, Sound
  <1> QED BY <1>4, <1>5, <1>6 DEF Sound

LEMMA FailureSound == ASSUME NEW c, Sound(c), NEW k PROVE Sound(RecordFailure(c, k))
  <1>1. CASE ~Has(c, k)
    BY <1>1 DEF RecordFailure
  <1>2. CASE Has(c, k) /\ At(c, k).fails + 1 >= MAX_CONSECUTIVE_FAILURES
    BY <1>2, InvalidateSound DEF RecordFailure
  <1>3. CASE Has(c, k) /\ ~(At(c, k).fails + 1 >= MAX_CONSECUTIVE_FAILURES)
    <2>1. At(c, k).fails \in 0..(MAX_CONSECUTIVE_FAILURES - 1)
      BY <1>3, FoundInSlot DEF Sound, Template
    <2>2. At(c, k).fails + 1 \in 0..(MAX_CONSECUTIVE_FAILURES - 1)
      BY <1>3, <2>1 DEF MAX_CONSECUTIVE_FAILURES
    <2> QED BY <1>3, <2>2, SetFailsSound DEF RecordFailure
  <1> QED BY <1>1, <1>2, <1>3

-----------------------------------------------------------------------------
(***************************************************************************)
(* The builds that share the cache.                                          *)
(***************************************************************************)
CacheInv == Sound(Cache)
BuildsInv == build \in [Builders -> Build] /\ begun \in 0..MaxBuilds
TemplateInv == CacheInv /\ BuildsInv

LEMMA CacheBecomes == ASSUME NEW c, Sound(c), Becomes(c) PROVE CacheInv'
  <1>1. c = [e |-> c.e, s |-> c.s, x |-> c.x]
    BY DEF Sound, CacheState
  <1>2. Cache' = c
    BY <1>1 DEF Cache, Becomes
  <1> QED BY <1>2 DEF CacheInv, Sound

LEMMA CacheStays == ASSUME CacheInv, UNCHANGED <<entries, stats, expired>> PROVE CacheInv'
  BY DEF CacheInv, Sound, Cache

\* What a build learns is a template.
LEMMA LearnedIsTemplate ==
  ASSUME NEW k \in Keys, NEW l \in Look, NEW meta PROVE Learned(k, l, meta) \in Template
  <1>1. Source(l, meta) \in Sources
    BY DEF Source, Sources
  <1>2. l.param \in Params /\ l.main \in BOOLEAN /\ l.aom \in 0..10 /\ l.share \in 0..10
    BY DEF Look
  <1>3. (IF k \in Listings THEN l.param ELSE "none") \in Params
    BY <1>2 DEF Params
  <1> DEFINE d == [source |-> Source(l, meta), param |-> IF k \in Listings THEN l.param ELSE "none",
                   main |-> l.main, aom |-> l.aom, share |-> l.share]
  <1>4. d \in Data
    BY <1>1, <1>2, <1>3 DEF Data
  <1>5. Learned(k, l, meta) = [key |-> k, fails |-> 0, old |-> FALSE, data |-> d]
    BY DEF Learned
  <1> HIDE DEF d
  <1> QED BY <1>4, <1>5 DEF Template, MAX_CONSECUTIVE_FAILURES

LEMMA TaughtSound ==
  ASSUME TemplateInv, NEW b \in Builders, NEW meta PROVE Sound(Taught(b, meta))
  <1>1. Sound(Cache) /\ build[b] \in Build
    BY DEF TemplateInv, CacheInv, BuildsInv
  <1>2. build[b].look \in Look /\ (build[b].key # NoKey => build[b].key \in Keys)
    BY <1>1, TemplateAssumption DEF Build
  <1>3. build[b].key # NoKey => Sound(Store(Cache, Learned(build[b].key, build[b].look, meta)))
    BY <1>1, <1>2, LearnedIsTemplate, StoreSound
  <1>4. Sound(RecordPass(Cache, build[b].key))
    BY <1>1, SetFailsSound DEF RecordPass, MAX_CONSECUTIVE_FAILURES
  <1>5. Sound(RecordFailure(Cache, build[b].key))
    BY <1>1, FailureSound
  <1> QED BY <1>1, <1>3, <1>4, <1>5 DEF Taught

LEMMA NoBuildIsBuild == NoBuild \in Build
  <1>1. (CHOOSE l \in Looks : TRUE) \in Looks
    BY TemplateAssumption
  <1>2. NoData \in Data /\ NoMeta \in [Fields -> Origins]
    BY DEF NoData, Data, Sources, Params, NoMeta, Origins
  <1> QED BY <1>1, <1>2 DEF NoBuild, Build

\* A build that looks its template up.
LEMMA UsingIsBuild ==
  ASSUME CacheInv, NEW r \in Build, NEW k \in Keys \cup {NoKey}
  PROVE  Using(r, k) \in Build /\ Using(r, k).at = r.at /\ Using(r, k).op = r.op
  <1> DEFINE d == IF Served(Cache, k) THEN At(Cache, k).data ELSE NoData
             q == [r EXCEPT !.key = k]
             h == Served(Cache, k)
             s == [q EXCEPT !.hit = h]
  <1>1. d \in Data
    <2>1. NoData \in Data
      BY DEF NoData, Data, Sources, Params
    <2>2. Served(Cache, k) => At(Cache, k).data \in Data
      BY FoundInSlot DEF Served, CacheInv, Sound, Template
    <2> QED BY <2>1, <2>2
  <1>2. h \in BOOLEAN
    BY Zenon DEF Served, Has
  <1>3. Using(r, k) = [s EXCEPT !.data = d]
    BY Zenon DEF Using
  <1> HIDE DEF d, h
  <1>4. q \in Build /\ q.at = r.at /\ q.op = r.op
    BY DEF Build
  <1> HIDE DEF q
  <1>5. s \in Build /\ s.at = r.at /\ s.op = r.op
    BY <1>2, <1>4 DEF Build
  <1> HIDE DEF s
  <1> QED BY <1>1, <1>3, <1>5 DEF Build

LEMMA TemplatesInit == TemplateInit => TemplateInv
  <1> SUFFICES ASSUME TemplateInit PROVE TemplateInv
    OBVIOUS
  <1>1. build \in [Builders -> Build] /\ begun \in 0..MaxBuilds
    BY NoBuildIsBuild, TemplateAssumption DEF TemplateInit
  <1>2. Sound(Cache)
    BY TemplateAssumption DEF TemplateInit, Sound, Cache, CacheState, Counters, OnePerKey
  <1> QED BY <1>1, <1>2 DEF TemplateInv, CacheInv, BuildsInv

LEMMA BeginStep ==
  ASSUME TemplateInv, NEW b \in Builders, NEW op \in {"live", "batch", "content"}, NEW l \in Looks,
         NEW k \in Keys \cup {NoKey}, Begin(b, op, l, k)
  PROVE  TemplateInv' /\ \E r \in Build : r.at = "gather" /\ build' = [build EXCEPT ![b] = r]
  <1> DEFINE p == [NoBuild EXCEPT !.op = op]
             q == [p EXCEPT !.at = "gather"]
             r == [q EXCEPT !.look = l]
  <1>1. p \in Build
    BY NoBuildIsBuild DEF Build
  <1>2. r = [NoBuild EXCEPT !.op = op, !.at = "gather", !.look = l]
    BY Zenon
  <1> HIDE DEF p
  <1>3. q \in Build /\ q.at = "gather"
    BY <1>1 DEF Build
  <1> HIDE DEF q
  <1>4. r \in Build /\ r.at = "gather"
    BY <1>3 DEF Build
  <1> HIDE DEF r
  <1>5. begun' \in 0..MaxBuilds
    BY TemplateAssumption DEF Begin, TemplateInv, BuildsInv
  <1>6. CASE Becomes(Lookup(Cache, k)) /\ build' = [build EXCEPT ![b] = Using(r, k)]
    <2>1. CacheInv'
      BY <1>6, LookupSound, CacheBecomes DEF TemplateInv, CacheInv
    <2>2. Using(r, k) \in Build /\ Using(r, k).at = "gather"
      BY <1>4, UsingIsBuild DEF TemplateInv
    <2> QED BY <1>5, <1>6, <2>1, <2>2 DEF TemplateInv, BuildsInv
  <1>7. CASE build' = [build EXCEPT ![b] = r] /\ UNCHANGED <<entries, stats, expired>>
    BY <1>4, <1>5, <1>7, CacheStays DEF TemplateInv, BuildsInv
  <1> QED BY <1>2, <1>6, <1>7, Zenon DEF Begin

LEMMA ClassifyStep ==
  ASSUME TemplateInv, NEW b \in Builders, NEW k \in Keys \cup {NoKey}, Classify(b, k)
  PROVE  TemplateInv' /\ \E r \in Build : r.at = "prune" /\ build' = [build EXCEPT ![b] = r]
  <1> DEFINE q == [build[b] EXCEPT !.at = "prune"]
             n == (k # NoKey)
             r == [q EXCEPT !.known = n]
  <1>1. q \in Build /\ q.at = "prune"
    BY DEF Build, TemplateInv, BuildsInv
  <1>2. r = [build[b] EXCEPT !.at = "prune", !.known = (k # NoKey)]
    BY Zenon
  <1>3. n \in BOOLEAN
    OBVIOUS
  <1> HIDE DEF q, n
  <1>4. r \in Build /\ r.at = "prune"
    BY <1>1, <1>3 DEF Build
  <1> HIDE DEF r
  <1>5. begun' \in 0..MaxBuilds
    BY DEF Classify, TemplateInv, BuildsInv
  <1>6. CASE Becomes(Lookup(Cache, k)) /\ build' = [build EXCEPT ![b] = Using(r, k)]
    <2>1. CacheInv'
      BY <1>6, LookupSound, CacheBecomes DEF TemplateInv, CacheInv
    <2>2. Using(r, k) \in Build /\ Using(r, k).at = "prune"
      BY <1>4, UsingIsBuild DEF TemplateInv
    <2> QED BY <1>5, <1>6, <2>1, <2>2 DEF TemplateInv, BuildsInv
  <1>7. CASE build' = [build EXCEPT ![b] = r] /\ UNCHANGED <<entries, stats, expired>>
    BY <1>4, <1>5, <1>7, CacheStays DEF TemplateInv, BuildsInv
  <1> QED BY <1>2, <1>6, <1>7, Zenon DEF Classify

LEMMA FailStep ==
  ASSUME TemplateInv, NEW b \in Builders, Fail(b)
  PROVE  TemplateInv' /\ \E r \in Build : r.at = "idle" /\ build' = [build EXCEPT ![b] = r]
  BY CacheStays, NoBuildIsBuild DEF Fail, TemplateInv, BuildsInv, NoBuild

LEMMA PruneStep == ASSUME TemplateInv, NEW b \in Builders, Prune(b) PROVE TemplateInv'
  <1>1. PICK meta \in {Metadata(build[b].look, Hint(build[b])), NoMeta}, pruned \in BOOLEAN :
          /\ build' = [build EXCEPT ![b].at = "done", ![b].meta = meta, ![b].pages = PagesShown(build[b])]
          /\ IF pruned THEN Becomes(Taught(b, meta)) ELSE UNCHANGED <<entries, stats, expired>>
    BY Zenon DEF Prune
  <1>2. CacheInv'
    BY <1>1, TaughtSound, CacheBecomes, CacheStays DEF TemplateInv
  <1> DEFINE g == PagesShown(build[b])
             p == [build[b] EXCEPT !.at = "done"]
             q == [p EXCEPT !.meta = meta]
             r == [q EXCEPT !.pages = g]
  <1>3. meta \in [Fields -> Origins]
    BY DEF Metadata, NoMeta, Origins
  <1>4. g \in BOOLEAN
    BY Zenon DEF PagesShown
  <1>5. build' = [build EXCEPT ![b] = r]
    BY <1>1 DEF TemplateInv, BuildsInv
  <1> HIDE DEF g
  <1>6. p \in Build
    BY DEF Build, TemplateInv, BuildsInv
  <1> HIDE DEF p
  <1>7. q \in Build
    BY <1>3, <1>6 DEF Build
  <1> HIDE DEF q
  <1>8. r \in Build
    BY <1>4, <1>7 DEF Build
  <1> HIDE DEF r
  <1> QED BY <1>2, <1>5, <1>8 DEF TemplateInv, BuildsInv, Prune

LEMMA AgeStep == ASSUME TemplateInv, NEW i \in DOMAIN entries, Age(i) PROVE TemplateInv'
  <1> DEFINE t == [entries[i] EXCEPT !.old = TRUE]
  <1>1. entries \in Seq(Template) /\ Sound(Cache)
    BY DEF TemplateInv, CacheInv, Sound, Cache, CacheState
  <1>2. t \in Template /\ t.key = entries[i].key
    <2>1. entries[i] \in Template
      BY <1>1
    <2> QED BY <2>1 DEF Template
  <1>3. entries' = [entries EXCEPT ![i] = t]
    BY DEF Age
  <1> HIDE DEF t
  <1>4. entries' \in Seq(Template) /\ Len(entries') = Len(entries)
    BY <1>1, <1>2, <1>3
  <1>5. OnePerKey(entries')
    BY <1>1, <1>2, <1>3 DEF OnePerKey, Sound, Cache
  <1>6. CacheInv'
    BY <1>1, <1>4, <1>5 DEF CacheInv, Sound, Cache, CacheState, Age
  <1> QED BY <1>6 DEF TemplateInv, BuildsInv, Age

LEMMA TemplatesStep == TemplateInv /\ [TemplateNext]_bvars => TemplateInv'
  <1> SUFFICES ASSUME TemplateInv, [TemplateNext]_bvars PROVE TemplateInv'
    OBVIOUS
  <1>1. CASE UNCHANGED bvars
    BY <1>1, CacheStays DEF bvars, TemplateInv, BuildsInv
  <1> QED BY <1>1, BeginStep, ClassifyStep, FailStep, PruneStep, AgeStep DEF TemplateNext

LEMMA TemplateInvariant == TemplateSpec => []TemplateInv
  BY TemplatesInit, TemplatesStep, PTL DEF TemplateSpec

\* TemplatesAccounted, and the types with it: however builds of one key learn, fail, are cut off
\* and see their template expire, one template per key is kept, within the size, and each that
\* was created is there or was counted when it went.
THEOREM TemplatesAreAccounted == TemplateSpec => [](TemplateTypeOK /\ TemplatesAccounted)
  <1>1. TemplateInv => TemplateTypeOK /\ TemplatesAccounted
    BY DEF TemplateInv, CacheInv, BuildsInv, Sound, Cache, CacheState, Counters, OnePerKey,
           TemplateTypeOK, TemplatesAccounted
  <1> QED BY <1>1, TemplateInvariant, PTL

-----------------------------------------------------------------------------
(***************************************************************************)
(* Fetching without a browser: types of the calls, and what a step makes of   *)
(* the call it is about.                                                    *)
(***************************************************************************)
Cookie == [name : CookieNames, by : Fetches]
Call == [at : {"idle", "lock", "closing", "thread", "copying", "wire", "body", "done"},
         via : {"server", "retriever"}, jar : Jars \cup {NoOne}, site : Sites \cup {NoOne},
         target : Impersonations \cup {NoOne}, follow : BOOLEAN,
         on : CurlIds \cup {NoOne}, carry : Bag, sent : SUBSET Cookie,
         sets : SUBSET CookieNames, after : Nat]
Curl == [now : CurlIds \cup {NoOne}, target : Impersonations \cup {NoOne},
         lock : Fetches \cup {NoOne}, open : SUBSET CurlIds, born : SUBSET CurlIds,
         stuck : SUBSET CurlIds, asked : SUBSET Impersonations]

Busy(r) == r.at \notin {"idle", "done"}

\* A call under way has a backend, a jar, a site and a target.
CallInv ==
  \A f \in Fetches : Busy(fetch[f]) =>
    /\ fetch[f].jar \in Jars /\ fetch[f].site \in Sites /\ fetch[f].target \in Impersonations
    /\ transport[fetch[f].via] \in Backends
    /\ fetch[f].at = "closing" => fetch[f].on \in CurlIds

TypesInv ==
  /\ transport \in [{"server", "retriever"} -> Backends \cup {NoOne}]
  /\ curl \in Curl
  /\ remembered \in [Backends -> [Sites -> Bag]] /\ jar \in [Jars -> Bag]
  /\ fetch \in [Fetches -> Call] /\ merges \in Seq(Fetches)
  /\ CallInv

\* What stays of a call while it is sent.
SameCall(q, r) ==
  /\ q.via = r.via /\ q.jar = r.jar /\ q.site = r.site
  /\ q.target = r.target /\ q.follow = r.follow /\ q.sets = r.sets /\ q.after = r.after

\* A call whose fields are all there, whether it is under way yet or not.
Ready(r) ==
  /\ r \in Call /\ r.jar \in Jars /\ r.site \in Sites /\ r.target \in Impersonations
  /\ transport[r.via] \in Backends

LEMMA NoCookiesIsBag == NoCookies \in Bag
  BY DEF NoCookies, Bag

LEMMA CookiesType == ASSUME NEW b \in Bag PROVE Cookies(b) \subseteq Cookie
  BY DEF Cookies, Held, Bag, Cookie

LEMMA HeaderType ==
  ASSUME TypesInv, NEW r, Ready(r), NEW b \in Bag PROVE Header(r, b) \subseteq Cookie
  <1>1. remembered[transport[r.via]][r.site] \in Bag
    BY DEF TypesInv, Ready
  <1> QED BY <1>1, CookiesType DEF Header

LEMMA CarriedType == ASSUME TypesInv, NEW r, Ready(r) PROVE Carried(r) \in Bag
  BY DEF Carried, TypesInv, Ready, Call

LEMMA UnmadeIsCall == Unmade \in Call
  BY NoCookiesIsBag DEF Unmade, Call

\* The changes of a call's fields that its steps are made of.
LEMMA SetAt ==
  ASSUME NEW r \in Call,
         NEW a \in {"idle", "lock", "closing", "thread", "copying", "wire", "body", "done"}
  PROVE  /\ [r EXCEPT !.at = a] \in Call /\ [r EXCEPT !.at = a].at = a
         /\ SameCall([r EXCEPT !.at = a], r) /\ [r EXCEPT !.at = a].on = r.on
         /\ [r EXCEPT !.at = a].carry = r.carry /\ [r EXCEPT !.at = a].sent = r.sent
  BY DEF Call, SameCall

LEMMA SetOn ==
  ASSUME NEW r \in Call, NEW c \in CurlIds \cup {NoOne}
  PROVE  /\ [r EXCEPT !.on = c] \in Call /\ [r EXCEPT !.on = c].on = c
         /\ SameCall([r EXCEPT !.on = c], r) /\ [r EXCEPT !.on = c].at = r.at
         /\ [r EXCEPT !.on = c].carry = r.carry /\ [r EXCEPT !.on = c].sent = r.sent
  BY DEF Call, SameCall

LEMMA SetSent ==
  ASSUME NEW r \in Call, NEW s, s \subseteq Cookie
  PROVE  /\ [r EXCEPT !.sent = s] \in Call /\ [r EXCEPT !.sent = s].sent = s
         /\ SameCall([r EXCEPT !.sent = s], r) /\ [r EXCEPT !.sent = s].at = r.at
         /\ [r EXCEPT !.sent = s].carry = r.carry /\ [r EXCEPT !.sent = s].on = r.on
  BY DEF Call, SameCall

LEMMA SetCarry ==
  ASSUME NEW r \in Call, NEW b \in Bag
  PROVE  /\ [r EXCEPT !.carry = b] \in Call /\ [r EXCEPT !.carry = b].carry = b
         /\ SameCall([r EXCEPT !.carry = b], r) /\ [r EXCEPT !.carry = b].at = r.at
         /\ [r EXCEPT !.carry = b].sent = r.sent /\ [r EXCEPT !.carry = b].on = r.on
  BY DEF Call, SameCall

LEMMA SameCallChain ==
  ASSUME NEW p, NEW q, NEW r, SameCall(p, q), SameCall(q, r) PROVE SameCall(p, r)
  BY DEF SameCall

LEMMA OnWireFields ==
  ASSUME TypesInv, NEW r, Ready(r)
  PROVE  /\ OnWire(r) \in Call /\ OnWire(r).at = "wire" /\ OnWire(r).sent = Header(r, Carried(r))
         /\ SameCall(OnWire(r), r) /\ OnWire(r).on = r.on /\ OnWire(r).carry = r.carry
  <1> DEFINE p == [r EXCEPT !.at = "wire"]
             h == Header(r, Carried(r))
  <1>1. p \in Call /\ p.at = "wire" /\ SameCall(p, r) /\ p.on = r.on /\ p.carry = r.carry
    BY SetAt DEF Ready
  <1>2. h \subseteq Cookie
    BY HeaderType, CarriedType
  <1>3. OnWire(r) = [p EXCEPT !.sent = h]
    BY Zenon DEF OnWire
  <1> HIDE DEF p, h
  <1>4. LET q == [p EXCEPT !.sent = h] IN
        /\ q \in Call /\ q.sent = h /\ SameCall(q, p) /\ q.at = p.at /\ q.carry = p.carry /\ q.on = p.on
    BY <1>1, <1>2, SetSent
  <1> QED BY <1>1, <1>3, <1>4, SameCallChain DEF h

LEMMA OverFields ==
  ASSUME NEW r \in Call
  PROVE  /\ Over(r) \in Call /\ Over(r).at = "done"
         /\ r.at \in {"wire", "body"} =>
              Over(r).via = r.via /\ Over(r).jar = r.jar /\ Over(r).on = r.on /\ Over(r).sets = r.sets
         /\ r.at \notin {"wire", "body"} => Over(r).sets = {}
  <1> DEFINE p == [Unmade EXCEPT !.at = "done"]
             v == [p EXCEPT !.via = r.via]
             i == [v EXCEPT !.jar = r.jar]
             n == [i EXCEPT !.on = r.on]
             o == [n EXCEPT !.sets = r.sets]
  <1>1. p \in Call /\ p.at = "done" /\ p.sets = {}
    BY UnmadeIsCall DEF Call, Unmade
  <1>2. Over(r) = IF r.at \notin {"wire", "body"} THEN p ELSE o
    BY Zenon DEF Over
  <1> HIDE DEF p
  <1>3. v \in Call /\ v.at = "done" /\ v.via = r.via
    BY <1>1 DEF Call
  <1> HIDE DEF v
  <1>4. i \in Call /\ i.at = "done" /\ i.via = r.via /\ i.jar = r.jar
    BY <1>3 DEF Call
  <1> HIDE DEF i
  <1>5. n \in Call /\ n.at = "done" /\ n.via = r.via /\ n.jar = r.jar /\ n.on = r.on
    BY <1>4 DEF Call
  <1> HIDE DEF n
  <1>6. o \in Call /\ o.at = "done" /\ o.via = r.via /\ o.jar = r.jar /\ o.on = r.on /\ o.sets = r.sets
    BY <1>5 DEF Call
  <1> HIDE DEF o
  <1> QED BY <1>1, <1>2, <1>6

\* The call that a fetch begins with.
Fresh(via, j, s, o) ==
  [Unmade EXCEPT !.via = via, !.jar = j, !.site = s, !.target = o[1],
                 !.follow = o[2], !.carry = jar[j], !.after = Len(merges)]

LEMMA FreshFields ==
  ASSUME TypesInv, NEW via \in {"server", "retriever"}, NEW j \in Jars, NEW s \in Sites,
         NEW o \in Impersonations \X BOOLEAN, transport[via] # NoOne
  PROVE  LET r == Fresh(via, j, s, o) IN
         /\ Ready(r) /\ r.at = "idle" /\ r.jar = j /\ r.sets = {} /\ r.carry = jar[j]
         /\ r.after = Len(merges)
  <1> DEFINE n == Len(merges)
             t == o[1]
             w == o[2]
             c == jar[j]
             r1 == [Unmade EXCEPT !.via = via]
             r2 == [r1 EXCEPT !.jar = j]
             r3 == [r2 EXCEPT !.site = s]
             r4 == [r3 EXCEPT !.target = t]
             r5 == [r4 EXCEPT !.follow = w]
             r6 == [r5 EXCEPT !.carry = c]
             r7 == [r6 EXCEPT !.after = n]
  <1>1. n \in Nat /\ t \in Impersonations /\ w \in BOOLEAN /\ c \in Bag
    BY DEF TypesInv
  <1>2. Fresh(via, j, s, o) = r7
    BY Zenon DEF Fresh
  <1> HIDE DEF n, t, w, c
  <1>3. r1 \in Call /\ r1.at = "idle" /\ r1.via = via /\ r1.sets = {}
    BY UnmadeIsCall DEF Call, Unmade
  <1> HIDE DEF r1
  <1>4. r2 \in Call /\ r2.at = "idle" /\ r2.via = via /\ r2.sets = {} /\ r2.jar = j
    BY <1>3 DEF Call
  <1> HIDE DEF r2
  <1>5. r3 \in Call /\ r3.at = "idle" /\ r3.via = via /\ r3.sets = {} /\ r3.jar = j /\ r3.site = s
    BY <1>4 DEF Call
  <1> HIDE DEF r3
  <1>6. /\ r4 \in Call /\ r4.at = "idle" /\ r4.via = via /\ r4.sets = {} /\ r4.jar = j /\ r4.site = s
        /\ r4.target = t
    BY <1>1, <1>5 DEF Call
  <1> HIDE DEF r4
  <1>7. /\ r5 \in Call /\ r5.at = "idle" /\ r5.via = via /\ r5.sets = {} /\ r5.jar = j /\ r5.site = s
        /\ r5.target = t
    BY <1>1, <1>6 DEF Call
  <1> HIDE DEF r5
  <1>8. /\ r6 \in Call /\ r6.at = "idle" /\ r6.via = via /\ r6.sets = {} /\ r6.jar = j /\ r6.site = s
        /\ r6.target = t /\ r6.carry = c
    BY <1>1, <1>7 DEF Call
  <1> HIDE DEF r6
  <1>9. /\ r7 \in Call /\ r7.at = "idle" /\ r7.via = via /\ r7.sets = {} /\ r7.jar = j /\ r7.site = s
        /\ r7.target = t /\ r7.carry = c /\ r7.after = n
    BY <1>1, <1>8 DEF Call
  <1> HIDE DEF r7
  <1>10. transport[via] \in Backends
    BY DEF TypesInv
  <1> QED BY <1>1, <1>2, <1>9, <1>10 DEF Ready, c, n, t

-----------------------------------------------------------------------------
(***************************************************************************)
(* What sending a call comes to: q is the call r afterwards.                *)
(***************************************************************************)
Locks(l, t) ==    \* the lock is l's, and target t was asked for
  /\ curl' \in Curl /\ curl'.lock = l /\ curl'.asked = curl.asked \cup {t}

Reuses(r, q) ==
  /\ curl.now # NoOne /\ curl.target = r.target
  /\ q.at = "wire" /\ q.on = curl.now /\ q.sent = Header(r, Carried(r))
  /\ Locks(NoOne, r.target) /\ remembered' = remembered
  /\ curl'.now = curl.now /\ curl'.target = curl.target /\ curl'.open = curl.open /\ curl'.stuck = curl.stuck

Closes(f, r, q) ==
  /\ curl.now # NoOne /\ curl.target # r.target
  /\ q.at = "closing" /\ q.on = curl.now
  /\ Locks(f, r.target) /\ remembered' = remembered
  /\ curl'.now = curl.now /\ curl'.target = curl.target /\ curl'.open = curl.open /\ curl'.stuck = curl.stuck

Recreates(r, q) ==
  /\ q.at = "wire" /\ q.on \in CurlIds /\ q.sent = Cookies(Carried(r))
  /\ Locks(NoOne, r.target)
  /\ curl'.now = q.on /\ curl'.target = r.target
  /\ \E left \in SUBSET {r.on} :
       curl'.open = (curl.open \ ({r.on} \ left)) \cup {q.on} /\ curl'.stuck = curl.stuck \cup left
  /\ remembered' = [remembered EXCEPT !["curl_cffi"] = [s \in Sites |-> NoCookies]]

\* Without the client that keeps a session there is nothing to lock.
Sends(r, q) ==
  /\ transport[r.via] # "curl_cffi"
  /\ \/ q.at = "wire" /\ q.sent = Header(r, Carried(r))
     \/ q.at = "thread"
  /\ UNCHANGED <<curl, remembered>>

Waits(r, q) ==
  /\ transport[r.via] = "curl_cffi" /\ q.at = "lock"
  /\ UNCHANGED <<curl, remembered>>

\* The call f, which was r, is q.
Moves(f, r, q) == q \in Call /\ SameCall(q, r) /\ q.carry = r.carry /\ fetch' = [fetch EXCEPT ![f] = q]

LEMMA RecreatedFields ==
  ASSUME TypesInv, NEW r, Ready(r), NEW c \in CurlIds, NEW left \in SUBSET CurlIds
  PROVE  LET d == Recreated(r, c, left) IN
         /\ d \in Curl /\ d.now = c /\ d.target = r.target /\ d.lock = NoOne
         /\ d.open = (curl.open \ ({r.on} \ left)) \cup {c} /\ d.stuck = curl.stuck \cup left
         /\ d.asked = curl.asked \cup {r.target}
  <1> DEFINE t == r.target
             o == (curl.open \ ({r.on} \ left)) \cup {c}
             u == curl.stuck \cup left
             b == curl.born \cup {c}
             a == curl.asked \cup {r.target}
             d1 == [curl EXCEPT !.now = c]
             d2 == [d1 EXCEPT !.target = t]
             d3 == [d2 EXCEPT !.lock = NoOne]
             d4 == [d3 EXCEPT !.open = o]
             d5 == [d4 EXCEPT !.born = b]
             d6 == [d5 EXCEPT !.stuck = u]
             d7 == [d6 EXCEPT !.asked = a]
  <1>1. curl \in Curl /\ t \in Impersonations
    BY DEF TypesInv, Ready
  <1>2. o \subseteq CurlIds /\ b \subseteq CurlIds /\ u \subseteq CurlIds /\ a \subseteq Impersonations
    BY <1>1 DEF Curl
  <1>3. Recreated(r, c, left) = d7
    BY <1>1 DEF Recreated, Curl
  <1> HIDE DEF t, o, b, u, a
  <1>4. d1 \in Curl /\ d1.now = c
    BY <1>1 DEF Curl
  <1> HIDE DEF d1
  <1>5. d2 \in Curl /\ d2.now = c /\ d2.target = t
    BY <1>1, <1>4 DEF Curl
  <1> HIDE DEF d2
  <1>6. d3 \in Curl /\ d3.now = c /\ d3.target = t /\ d3.lock = NoOne
    BY <1>5 DEF Curl
  <1> HIDE DEF d3
  <1>7. d4 \in Curl /\ d4.now = c /\ d4.target = t /\ d4.lock = NoOne /\ d4.open = o
    BY <1>2, <1>6 DEF Curl
  <1> HIDE DEF d4
  <1>8. d5 \in Curl /\ d5.now = c /\ d5.target = t /\ d5.lock = NoOne /\ d5.open = o
    BY <1>2, <1>7 DEF Curl
  <1> HIDE DEF d5
  <1>9. /\ d6 \in Curl /\ d6.now = c /\ d6.target = t /\ d6.lock = NoOne /\ d6.open = o
        /\ d6.stuck = u
    BY <1>2, <1>8 DEF Curl
  <1> HIDE DEF d6
  <1>10. /\ d7 \in Curl /\ d7.now = c /\ d7.target = t /\ d7.lock = NoOne /\ d7.open = o
         /\ d7.stuck = u /\ d7.asked = a
    BY <1>2, <1>9 DEF Curl
  <1> HIDE DEF d7
  <1> QED BY <1>3, <1>10 DEF t, o, u, a

LEMMA NewMoves ==
  ASSUME TypesInv, NEW f \in Fetches, NEW r, Ready(r), NEW left \in SUBSET {r.on}, left \subseteq CurlIds,
         New(f, r, left)
  PROVE  \E q : Moves(f, r, q) /\ Recreates(r, q)
  <1> DEFINE c == CHOOSE n \in CurlIds : n \notin curl.born
             w == Cookies(Carried(r))
             p == [r EXCEPT !.at = "wire"]
             i == [p EXCEPT !.on = c]
             q == [i EXCEPT !.sent = w]
  <1>1. c \in CurlIds
    BY DEF New, TypesInv, Curl
  <1>2. w \subseteq Cookie
    BY CarriedType, CookiesType
  <1>3. /\ remembered' = [remembered EXCEPT !["curl_cffi"] = [s \in Sites |-> NoCookies]]
        /\ curl' = Recreated(r, c, left) /\ fetch' = [fetch EXCEPT ![f] = q]
    BY Zenon DEF New, Put
  <1> HIDE DEF c, w
  <1>4. p \in Call /\ p.at = "wire" /\ SameCall(p, r) /\ p.carry = r.carry
    BY SetAt DEF Ready
  <1> HIDE DEF p
  <1>5. i \in Call /\ i.on = c /\ SameCall(i, p) /\ i.at = p.at /\ i.carry = p.carry
    BY <1>1, <1>4, SetOn
  <1> HIDE DEF i
  <1>6. /\ q \in Call /\ q.sent = w /\ SameCall(q, i) /\ q.at = i.at /\ q.carry = i.carry
        /\ q.on = i.on
    BY <1>2, <1>5, SetSent
  <1> HIDE DEF q
  <1>7. SameCall(q, r)
    BY <1>4, <1>5, <1>6, SameCallChain
  <1>8. Moves(f, r, q)
    BY <1>3, <1>4, <1>5, <1>6, <1>7 DEF Moves
  <1>9. Recreates(r, q)
    <2>1. LET d == curl' IN
          /\ d \in Curl /\ d.now = c /\ d.target = r.target /\ d.lock = NoOne
          /\ d.open = (curl.open \ ({r.on} \ left)) \cup {c} /\ d.stuck = curl.stuck \cup left
          /\ d.asked = curl.asked \cup {r.target}
      BY <1>1, <1>3, RecreatedFields
    <2> QED BY <1>1, <1>3, <1>4, <1>5, <1>6, <2>1 DEF Recreates, Locks, w
  <1> QED BY <1>8, <1>9

LEMMA LockedMoves ==
  ASSUME TypesInv, NEW f \in Fetches, NEW r, Ready(r), WithLock(f, r)
  PROVE  \E q : Moves(f, r, q) /\ (Reuses(r, q) \/ Closes(f, r, q) \/ (curl.now = NoOne /\ Recreates(r, q)))
  <1> DEFINE k == [curl EXCEPT !.lock = NoOne]
             d == [k EXCEPT !.asked = curl.asked \cup {r.target}]
             m == [curl EXCEPT !.lock = f]
             e == [m EXCEPT !.asked = curl.asked \cup {r.target}]
  <1>1. curl \in Curl /\ r \in Call /\ r.target \in Impersonations
    BY DEF TypesInv, Ready
  <1>2. d \in Curl /\ d.lock = NoOne /\ d.asked = curl.asked \cup {r.target} /\ d.now = curl.now
        /\ d.target = curl.target /\ d.open = curl.open /\ d.stuck = curl.stuck
    <2>1. k \in Curl /\ k.lock = NoOne /\ k.now = curl.now /\ k.target = curl.target
          /\ k.open = curl.open /\ k.stuck = curl.stuck
      BY <1>1 DEF Curl
    <2> HIDE DEF k
    <2>2. curl.asked \cup {r.target} \subseteq Impersonations
      BY <1>1 DEF Curl
    <2> QED BY <2>1, <2>2 DEF Curl
  <1>3. e \in Curl /\ e.lock = f /\ e.asked = curl.asked \cup {r.target} /\ e.now = curl.now
        /\ e.target = curl.target /\ e.open = curl.open /\ e.stuck = curl.stuck
    <2>1. m \in Curl /\ m.lock = f /\ m.now = curl.now /\ m.target = curl.target
          /\ m.open = curl.open /\ m.stuck = curl.stuck
      BY <1>1 DEF Curl
    <2> HIDE DEF m
    <2>2. curl.asked \cup {r.target} \subseteq Impersonations
      BY <1>1 DEF Curl
    <2> QED BY <2>1, <2>2 DEF Curl
  <1>4. d = [curl EXCEPT !.lock = NoOne, !.asked = @ \cup {r.target}]
    BY <1>1 DEF Curl
  <1>5. e = [curl EXCEPT !.lock = f, !.asked = @ \cup {r.target}]
    BY <1>1 DEF Curl
  <1> HIDE DEF d, e
  <1>6. CASE curl.now # NoOne /\ curl.target = r.target
    <2> DEFINE n == curl.now
               w == OnWire(r)
               q == [w EXCEPT !.on = n]
    <2>1. fetch' = [fetch EXCEPT ![f] = q] /\ curl' = d /\ remembered' = remembered
      BY <1>4, <1>6, Zenon DEF WithLock, Put, New
    <2>2. n \in CurlIds
      BY <1>1, <1>6 DEF Curl
    <2>3. /\ w \in Call /\ w.at = "wire" /\ w.sent = Header(r, Carried(r)) /\ SameCall(w, r)
          /\ w.carry = r.carry
      BY OnWireFields
    <2> HIDE DEF n, w
    <2>4. /\ q \in Call /\ q.on = n /\ SameCall(q, w) /\ q.at = w.at /\ q.carry = w.carry
          /\ q.sent = w.sent
      BY <2>2, <2>3, SetOn
    <2> HIDE DEF q
    <2>5. SameCall(q, r)
      BY <2>3, <2>4, SameCallChain
    <2>6. Moves(f, r, q)
      BY <2>1, <2>3, <2>4, <2>5 DEF Moves
    <2>7. Reuses(r, q)
      BY <1>2, <1>6, <2>1, <2>3, <2>4 DEF Reuses, Locks, n
    <2> QED BY <2>6, <2>7
  <1>7. CASE curl.now # NoOne /\ curl.target # r.target
    <2> DEFINE n == curl.now
               w == [r EXCEPT !.at = "closing"]
               q == [w EXCEPT !.on = n]
    <2>1. fetch' = [fetch EXCEPT ![f] = q] /\ curl' = e /\ remembered' = remembered
      BY <1>5, <1>7, Zenon DEF WithLock, Put, New
    <2>2. n \in CurlIds
      BY <1>1, <1>7 DEF Curl
    <2>3. w \in Call /\ w.at = "closing" /\ SameCall(w, r) /\ w.carry = r.carry
      BY <1>1, SetAt
    <2> HIDE DEF n, w
    <2>4. q \in Call /\ q.on = n /\ SameCall(q, w) /\ q.at = w.at /\ q.carry = w.carry
      BY <2>2, <2>3, SetOn
    <2> HIDE DEF q
    <2>5. SameCall(q, r)
      BY <2>3, <2>4, SameCallChain
    <2>6. Moves(f, r, q)
      BY <2>1, <2>3, <2>4, <2>5 DEF Moves
    <2>7. Closes(f, r, q)
      BY <1>3, <1>7, <2>1, <2>3, <2>4 DEF Closes, Locks, n
    <2> QED BY <2>6, <2>7
  <1>8. CASE curl.now = NoOne
    <2>1. New(f, r, {})
      BY <1>8 DEF WithLock
    <2>2. \E q : Moves(f, r, q) /\ Recreates(r, q)
      BY <2>1, NewMoves
    <2> QED BY <1>8, <2>2
  <1> QED BY <1>6, <1>7, <1>8

LEMMA DispatchMoves ==
  ASSUME TypesInv, NEW f \in Fetches, NEW r, Ready(r), Dispatch(f, r)
  PROVE  \E q : /\ Moves(f, r, q)
                /\ \/ /\ transport[r.via] = "curl_cffi" /\ LockFree
                      /\ Reuses(r, q) \/ Closes(f, r, q) \/ (curl.now = NoOne /\ Recreates(r, q))
                   \/ Waits(r, q)
                   \/ Sends(r, q)
  <1>1. CASE transport[r.via] = "curl_cffi" /\ LockFree /\ WithLock(f, r)
    BY <1>1, LockedMoves
  <1>2. CASE /\ transport[r.via] = "curl_cffi"
             /\ Put(f, [r EXCEPT !.at = "lock"]) /\ UNCHANGED <<curl, remembered>>
    <2> DEFINE q == [r EXCEPT !.at = "lock"]
    <2>1. q \in Call /\ q.at = "lock" /\ SameCall(q, r) /\ q.carry = r.carry
      BY SetAt DEF Ready
    <2>2. fetch' = [fetch EXCEPT ![f] = q]
      BY <1>2 DEF Put
    <2> HIDE DEF q
    <2>3. Moves(f, r, q) /\ Waits(r, q)
      BY <1>2, <2>1, <2>2 DEF Moves, Waits
    <2> QED BY <2>3
  <1>3. CASE /\ transport[r.via] = "httpx"
             /\ Put(f, OnWire(r)) /\ UNCHANGED <<curl, remembered>>
    BY <1>3, OnWireFields DEF Put, Moves, Sends
  <1>4. CASE /\ transport[r.via] = "urllib"
             /\ Put(f, [r EXCEPT !.at = "thread"]) /\ UNCHANGED <<curl, remembered>>
    <2> DEFINE q == [r EXCEPT !.at = "thread"]
    <2>1. q \in Call /\ q.at = "thread" /\ SameCall(q, r) /\ q.carry = r.carry
      BY SetAt DEF Ready
    <2>2. fetch' = [fetch EXCEPT ![f] = q]
      BY <1>4 DEF Put
    <2> HIDE DEF q
    <2>3. Moves(f, r, q) /\ Sends(r, q)
      BY <1>4, <2>1, <2>2 DEF Moves, Sends
    <2> QED BY <2>3
  <1> QED BY <1>1, <1>2, <1>3, <1>4 DEF Dispatch

-----------------------------------------------------------------------------
(***************************************************************************)
(* The steps of a fetch, each as what it makes of the call.                  *)
(***************************************************************************)
Outcome(f, r, q) ==
  \/ /\ transport[r.via] = "curl_cffi" /\ LockFree
     /\ Reuses(r, q) \/ Closes(f, r, q) \/ (curl.now = NoOne /\ Recreates(r, q))
  \/ fetch[f].at = "closing" /\ r = fetch[f] /\ Recreates(r, q)
  \/ Waits(r, q)
  \/ Sends(r, q)

\* A call is sent, as far as it gets.
Sending(f, r, q) ==
  /\ Ready(r) /\ Moves(f, r, q) /\ Outcome(f, r, q)
  /\ UNCHANGED <<transport, jar, merges>>
  /\ \/ fetch[f].at = "idle" /\ r.sets = {} /\ r.carry = jar[r.jar] /\ r.after = Len(merges)
     \/ fetch[f].at \in {"lock", "closing"} /\ r = fetch[f]

\* urllib's part copies the jar, or sends.
Copying(f, q) ==
  /\ q \in Call /\ SameCall(q, fetch[f]) /\ fetch' = [fetch EXCEPT ![f] = q]
  /\ UNCHANGED <<transport, curl, remembered, jar, merges>>
  /\ \/ fetch[f].at = "thread" /\ q.at = "copying" /\ q.carry = jar[fetch[f].jar]
     \/ /\ fetch[f].at = "thread" /\ q.at = "wire" /\ q.carry = fetch[f].carry
        /\ q.sent = Header(fetch[f], Carried(fetch[f]))
     \/ /\ fetch[f].at = "copying" /\ q.at = "wire" /\ q.sent = Header(fetch[f], q.carry)
        /\ \A n \in CookieNames : q.carry[n] \in {fetch[f].carry[n], jar[fetch[f].jar][n]}

\* The head of the response is in.
Heading(f, kept, q) ==
  /\ q \in Call /\ fetch' = [fetch EXCEPT ![f] = q] /\ fetch[f].at = "wire"
  /\ q.at = "body" /\ q.sent = {}
  /\ q.via = fetch[f].via /\ q.jar = fetch[f].jar /\ q.site = fetch[f].site
  /\ q.target = fetch[f].target /\ q.on = fetch[f].on /\ q.carry = fetch[f].carry
  /\ q.after = fetch[f].after
  /\ UNCHANGED <<transport, curl, jar, merges>> /\ Keeps(f, kept)

\* The call is over.
Ending(f) == Busy(fetch[f]) /\ fetch' = [fetch EXCEPT ![f] = Over(fetch[f])] /\ transport' = transport

LEMMA BusyIsReady ==
  ASSUME TypesInv, NEW f \in Fetches, Busy(fetch[f]) PROVE Ready(fetch[f])
  BY DEF TypesInv, CallInv, Ready

LEMMA BeginSends ==
  ASSUME TypesInv, NEW f \in Fetches, NEW via \in {"server", "retriever"}, NEW j \in Jars,
         NEW s \in Sites, BeginFetch(f, via, j, s)
  PROVE  \E r, q : Sending(f, r, q)
  <1>1. f \in Unbegun
    BY DEF BeginFetch
  <1>2. fetch[f].at = "idle" /\ transport[via] # NoOne /\ UNCHANGED <<transport, jar, merges>>
    BY <1>1 DEF Unbegun, BeginFetch
  <1>3. PICK o \in (IF via = "server" THEN {<<DefaultImpersonation, TRUE>>} ELSE Options) :
          Dispatch(f, Fresh(via, j, s, o))
    BY Zenon DEF BeginFetch, Fresh
  <1>4. o \in Impersonations \X BOOLEAN
    <2>1. DefaultImpersonation \in Impersonations /\ Options \subseteq Impersonations \X BOOLEAN
      BY FastAssumption
    <2>2. o = <<DefaultImpersonation, TRUE>> \/ o \in Options
      BY <1>3
    <2>3. <<DefaultImpersonation, TRUE>> \in Impersonations \X BOOLEAN
      BY <2>1
    <2> QED BY <2>1, <2>2, <2>3, Zenon
  <1> DEFINE r == Fresh(via, j, s, o)
  <1>5. /\ Ready(r) /\ r.at = "idle" /\ r.jar = j /\ r.sets = {} /\ r.carry = jar[j]
        /\ r.after = Len(merges)
    BY <1>2, <1>4, FreshFields
  <1> HIDE DEF r
  <1>6. PICK q : /\ Moves(f, r, q)
                 /\ \/ /\ transport[r.via] = "curl_cffi" /\ LockFree
                       /\ Reuses(r, q) \/ Closes(f, r, q) \/ (curl.now = NoOne /\ Recreates(r, q))
                    \/ Waits(r, q)
                    \/ Sends(r, q)
    BY <1>3, <1>5, DispatchMoves DEF r
  <1> QED BY <1>2, <1>5, <1>6 DEF Sending, Outcome

LEMMA GetLockSends ==
  ASSUME TypesInv, NEW f \in Fetches, transport[fetch[f].via] = "curl_cffi", GetLock(f)
  PROVE  \E r, q : Sending(f, r, q)
  <1>1. fetch[f].at = "lock" /\ LockFree /\ UNCHANGED <<transport, jar, merges>>
    BY DEF GetLock
  <1>2. Ready(fetch[f])
    BY <1>1, BusyIsReady DEF Busy
  <1>3. PICK q : /\ Moves(f, fetch[f], q)
                 /\ \/ Reuses(fetch[f], q) \/ Closes(f, fetch[f], q)
                    \/ curl.now = NoOne /\ Recreates(fetch[f], q)
    BY <1>2, LockedMoves DEF GetLock
  <1> QED BY <1>1, <1>2, <1>3 DEF Sending, Outcome

LEMMA OldClosedSends ==
  ASSUME TypesInv, NEW f \in Fetches, OldClosed(f) PROVE \E r, q : Sending(f, r, q)
  <1>1. fetch[f].at = "closing" /\ UNCHANGED <<transport, jar, merges>>
    BY DEF OldClosed
  <1>2. Ready(fetch[f])
    BY <1>1, BusyIsReady DEF Busy
  <1>3. fetch[f].on \in CurlIds
    BY <1>1 DEF TypesInv, CallInv, Busy
  <1>4. PICK left \in SUBSET {fetch[f].on} : New(f, fetch[f], left)
    BY DEF OldClosed
  <1>5. PICK q : Moves(f, fetch[f], q) /\ Recreates(fetch[f], q)
    BY <1>2, <1>3, <1>4, NewMoves
  <1> QED BY <1>1, <1>2, <1>5 DEF Sending, Outcome

LEMMA StartCopyCopies ==
  ASSUME TypesInv, NEW f \in Fetches, StartCopy(f) PROVE \E q : Copying(f, q)
  <1> DEFINE r == fetch[f]
             b == jar[r.jar]
             p == [r EXCEPT !.at = "copying"]
             q == [p EXCEPT !.carry = b]
  <1>1. r.at = "thread" /\ UNCHANGED <<transport, curl, remembered, jar, merges>>
    BY DEF StartCopy
  <1>2. Ready(r) /\ r \in Call
    BY <1>1, BusyIsReady DEF Busy, Ready
  <1>3. b \in Bag
    BY <1>2 DEF Ready, TypesInv
  <1>4. fetch' = [fetch EXCEPT ![f] = q] \/ fetch' = [fetch EXCEPT ![f] = OnWire(r)]
    BY Zenon DEF StartCopy, Put
  <1>5. p \in Call /\ p.at = "copying" /\ SameCall(p, r)
    BY <1>2, SetAt
  <1> HIDE DEF b, p
  <1>6. q \in Call /\ q.carry = b /\ SameCall(q, p) /\ q.at = p.at
    BY <1>3, <1>5, SetCarry
  <1> HIDE DEF q
  <1>7. SameCall(q, r)
    BY <1>5, <1>6, SameCallChain
  <1>8. CASE fetch' = [fetch EXCEPT ![f] = q]
    <2>1. Copying(f, q)
      BY <1>1, <1>5, <1>6, <1>7, <1>8 DEF Copying, b
    <2> QED BY <2>1
  <1>9. CASE fetch' = [fetch EXCEPT ![f] = OnWire(r)]
    <2>1. Copying(f, OnWire(r))
      BY <1>1, <1>2, <1>9, OnWireFields DEF Copying
    <2> QED BY <2>1
  <1> QED BY <1>4, <1>8, <1>9

LEMMA CopiedCopies ==
  ASSUME TypesInv, NEW f \in Fetches, Copied(f)
  PROVE  \/ \E q : Copying(f, q)
         \/ Ending(f) /\ UNCHANGED <<curl, remembered, jar, merges>>
  <1> DEFINE r == fetch[f]
  <1>1. r.at = "copying" /\ UNCHANGED <<transport, curl, remembered, jar, merges>>
    BY Zenon DEF Copied
  <1>2. Ready(r) /\ r \in Call
    BY <1>1, BusyIsReady DEF Busy, Ready
  <1>3. CASE fetch' = [fetch EXCEPT ![f] = Over(r)]
    BY <1>1, <1>3 DEF Ending, Busy
  <1>4. CASE \E seen \in {b \in Bag : \A n \in CookieNames : b[n] \in {r.carry[n], jar[r.jar][n]}} :
               Put(f, [r EXCEPT !.at = "wire", !.carry = seen, !.sent = Header(r, seen)])
    <2>1. PICK seen \in Bag : /\ \A n \in CookieNames : seen[n] \in {r.carry[n], jar[r.jar][n]}
                              /\ Put(f, [r EXCEPT !.at = "wire", !.carry = seen, !.sent = Header(r, seen)])
      BY <1>4, Zenon
    <2> DEFINE h == Header(r, seen)
               p == [r EXCEPT !.at = "wire"]
               i == [p EXCEPT !.carry = seen]
               q == [i EXCEPT !.sent = h]
    <2>2. fetch' = [fetch EXCEPT ![f] = q]
      BY <2>1, Zenon DEF Put
    <2>3. h \subseteq Cookie
      BY <1>2, HeaderType
    <2>4. p \in Call /\ p.at = "wire" /\ SameCall(p, r)
      BY <1>2, SetAt
    <2> HIDE DEF h, p
    <2>5. i \in Call /\ i.carry = seen /\ SameCall(i, p) /\ i.at = p.at
      BY <2>4, SetCarry
    <2> HIDE DEF i
    <2>6. q \in Call /\ q.sent = h /\ SameCall(q, i) /\ q.at = i.at /\ q.carry = i.carry
      BY <2>3, <2>5, SetSent
    <2> HIDE DEF q
    <2>7. SameCall(q, r)
      BY <2>4, <2>5, <2>6, SameCallChain
    <2>8. Copying(f, q)
      BY <1>1, <2>1, <2>2, <2>4, <2>5, <2>6, <2>7 DEF Copying, h
    <2> QED BY <2>8
  <1> QED BY <1>3, <1>4, Zenon DEF Copied, Put

LEMMA HeadInHeads ==
  ASSUME TypesInv, NEW f \in Fetches, NEW names \in SUBSET CookieNames, NEW kept, HeadIn(f, names, kept)
  PROVE  \E q : Heading(f, kept, q)
  <1> DEFINE r == fetch[f]
             p == [r EXCEPT !.at = "body"]
             n == [p EXCEPT !.sets = names]
             q == [n EXCEPT !.sent = {}]
  <1>1. r.at = "wire" /\ UNCHANGED <<transport, curl, jar, merges>> /\ Keeps(f, kept)
    BY Zenon DEF HeadIn
  <1>2. fetch' = [fetch EXCEPT ![f] = q]
    BY Zenon DEF HeadIn, Put
  <1>3. r \in Call
    BY DEF TypesInv
  <1>4. /\ p \in Call /\ p.at = "body" /\ p.via = r.via /\ p.jar = r.jar /\ p.site = r.site
        /\ p.target = r.target /\ p.on = r.on /\ p.carry = r.carry /\ p.after = r.after
    BY <1>3 DEF Call
  <1> HIDE DEF r, p
  <1>5. /\ n \in Call /\ n.at = "body" /\ n.via = r.via /\ n.jar = r.jar /\ n.site = r.site
        /\ n.target = r.target /\ n.on = r.on /\ n.carry = r.carry /\ n.after = r.after
    BY <1>4 DEF Call
  <1> HIDE DEF n
  <1>6. /\ q \in Call /\ q.at = "body" /\ q.via = r.via /\ q.jar = r.jar /\ q.site = r.site
        /\ q.target = r.target /\ q.on = r.on /\ q.carry = r.carry /\ q.after = r.after
        /\ q.sent = {}
    BY <1>5 DEF Call
  <1> HIDE DEF q
  <1> QED BY <1>1, <1>2, <1>6 DEF Heading, r

-----------------------------------------------------------------------------
(***************************************************************************)
(* The types of the fast path.                                              *)
(***************************************************************************)
LEMMA FastTypesInit == FastInit => TypesInv
  <1> SUFFICES ASSUME FastInit PROVE TypesInv
    OBVIOUS
  <1>1. ASSUME NEW installed \in Installs, NEW prefer
        PROVE  ResolvedBackend(installed, prefer) \in Backends \cup {NoOne}
    <2> DEFINE order == <<"curl_cffi", "httpx", "urllib">>
               first == CHOOSE i \in 1..3 : /\ order[i] \in Available(installed)
                                             /\ \A k \in 1..(i - 1) : order[k] \notin Available(installed)
    <2>1. Available(installed) \subseteq Backends /\ "urllib" \in Available(installed)
      BY FastAssumption DEF Available, Backends
    <2>2. \E i \in 1..3 : /\ order[i] \in Available(installed)
                          /\ \A k \in 1..(i - 1) : order[k] \notin Available(installed)
      <3>1. CASE "curl_cffi" \in Available(installed)
        <4>1. 1 \in 1..3 /\ order[1] = "curl_cffi" /\ 1..(1 - 1) = {}
          OBVIOUS
        <4> QED BY <3>1, <4>1
      <3>2. CASE "curl_cffi" \notin Available(installed) /\ "httpx" \in Available(installed)
        <4>1. 2 \in 1..3 /\ order[2] = "httpx" /\ order[1] = "curl_cffi" /\ 1..(2 - 1) = {1}
          OBVIOUS
        <4> QED BY <3>2, <4>1
      <3>3. CASE "curl_cffi" \notin Available(installed) /\ "httpx" \notin Available(installed)
        <4>1. /\ 3 \in 1..3 /\ order[3] = "urllib" /\ order[1] = "curl_cffi" /\ order[2] = "httpx"
              /\ 1..(3 - 1) = {1, 2}
          OBVIOUS
        <4> QED BY <2>1, <3>3, <4>1
      <3> QED BY <3>1, <3>2, <3>3
    <2>3. first \in 1..3
      BY <2>2
    <2>4. order[first] \in Backends
      <3> HIDE DEF first
      <3> QED BY <2>3 DEF Backends
    <2>5. ResolvedBackend(installed, prefer) \in {order[first], prefer, NoOne}
      BY DEF ResolvedBackend
    <2>6. ResolvedBackend(installed, prefer) = prefer => prefer \in Backends \cup {NoOne} \/ prefer = order[first]
      BY <2>1, <2>4 DEF ResolvedBackend
    <2> QED BY <2>4, <2>5, <2>6
  <1>2. transport \in [{"server", "retriever"} -> Backends \cup {NoOne}]
    <2>1. PICK installed \in Installs, prefer \in Preferences :
            transport = [via \in {"server", "retriever"} |->
                           ResolvedBackend(installed, IF via = "server" THEN prefer ELSE "auto")]
      BY DEF FastInit
    <2> QED BY <1>1, <2>1
  <1>3. curl \in Curl
    BY DEF FastInit, Curl
  <1>4. remembered \in [Backends -> [Sites -> Bag]] /\ jar \in [Jars -> Bag]
    BY NoCookiesIsBag DEF FastInit
  <1>5. fetch \in [Fetches -> Call] /\ merges \in Seq(Fetches) /\ \A f \in Fetches : fetch[f].at = "idle"
    BY UnmadeIsCall DEF FastInit, Unmade
  <1> QED BY <1>2, <1>3, <1>4, <1>5 DEF TypesInv, CallInv, Busy

\* The call f becomes q.
LEMMA TypesMove ==
  ASSUME TypesInv, NEW f \in Fetches, NEW q \in Call, fetch' = [fetch EXCEPT ![f] = q],
         transport' = transport, Busy(q) => Ready(q), q.at = "closing" => q.on \in CurlIds,
         curl' \in Curl, remembered' \in [Backends -> [Sites -> Bag]], jar' \in [Jars -> Bag],
         merges' \in Seq(Fetches)
  PROVE  TypesInv'
  <1>1. fetch' \in [Fetches -> Call] /\ \A g \in Fetches : fetch'[g] = IF g = f THEN q ELSE fetch[g]
    BY DEF TypesInv
  <1>2. CallInv'
    BY <1>1 DEF TypesInv, CallInv, Busy, Ready
  <1> QED BY <1>1, <1>2 DEF TypesInv

LEMMA SameCallReady ==
  ASSUME NEW r, Ready(r), NEW q \in Call, SameCall(q, r) PROVE Ready(q)
  BY DEF Ready, SameCall

LEMMA SendingTypes ==
  ASSUME TypesInv, NEW f \in Fetches, NEW r, NEW q, Sending(f, r, q) PROVE TypesInv'
  <1>1. q \in Call /\ fetch' = [fetch EXCEPT ![f] = q] /\ Ready(q)
    BY SameCallReady DEF Sending, Moves
  <1>2. curl' \in Curl
    BY DEF Sending, Outcome, Reuses, Closes, Recreates, Waits, Sends, Locks, TypesInv
  <1>3. remembered' \in [Backends -> [Sites -> Bag]]
    <2>1. [s \in Sites |-> NoCookies] \in [Sites -> Bag]
      BY NoCookiesIsBag
    <2>2. remembered' = remembered \/ remembered' = [remembered EXCEPT !["curl_cffi"] = [s \in Sites |-> NoCookies]]
      BY DEF Sending, Outcome, Reuses, Closes, Recreates, Waits, Sends
    <2> QED BY <2>1, <2>2 DEF TypesInv
  <1>4. q.at = "closing" => q.on \in CurlIds
    BY DEF Sending, Outcome, Reuses, Closes, Recreates, Waits, Sends, TypesInv, Curl
  <1> QED BY <1>1, <1>2, <1>3, <1>4, TypesMove DEF Sending, TypesInv

LEMMA CopyingTypes == ASSUME TypesInv, NEW f \in Fetches, NEW q, Copying(f, q) PROVE TypesInv'
  <1>1. q \in Call /\ fetch' = [fetch EXCEPT ![f] = q] /\ Ready(q)
    BY BusyIsReady, SameCallReady DEF Copying, Busy
  <1> QED BY <1>1, TypesMove DEF Copying, TypesInv

LEMMA GotIsBag ==
  ASSUME NEW b \in Bag, NEW f \in Fetches, NEW names PROVE Got(b, f, names) \in Bag
  BY DEF Got, Bag

\* What the clients remember afterwards.
KeptBy(f, k) == k = transport[fetch[f].via] /\ k # "urllib" /\ (k = "curl_cffi" => fetch[f].on = curl.now)

LEMMA KeepsGot ==
  ASSUME TypesInv, NEW f \in Fetches, Ready(fetch[f]), NEW kept, Keeps(f, kept)
  PROVE  /\ remembered' \in [Backends -> [Sites -> Bag]]
         /\ \A k \in Backends, s \in Sites :
              remembered'[k][s] = IF KeptBy(f, k) THEN Got(remembered[k][s], f, kept[s]) ELSE remembered[k][s]
  <1> DEFINE t == transport[fetch[f].via]
             w == [s \in Sites |-> Got(remembered[t][s], f, kept[s])]
  <1>1. t \in Backends /\ remembered \in [Backends -> [Sites -> Bag]]
    BY DEF Ready, TypesInv
  <1>2. remembered' = IF KeptBy(f, t) THEN [remembered EXCEPT ![t] = w] ELSE remembered
    BY <1>1 DEF Keeps, KeptBy, Backends
  <1>3. w \in [Sites -> Bag]
    <2>1. \A s \in Sites : Got(remembered[t][s], f, kept[s]) \in Bag
      BY <1>1, GotIsBag
    <2> QED BY <2>1
  <1>4. \A s \in Sites : w[s] = Got(remembered[t][s], f, kept[s])
    OBVIOUS
  <1>5. \A k \in Backends : KeptBy(f, k) => k = t
    BY DEF KeptBy
  <1> HIDE DEF t, w
  <1> QED BY <1>1, <1>2, <1>3, <1>4, <1>5

LEMMA HeadingTypes ==
  ASSUME TypesInv, NEW f \in Fetches, NEW kept, NEW q, Heading(f, kept, q) PROVE TypesInv'
  <1>1. Ready(fetch[f])
    BY BusyIsReady DEF Heading, Busy
  <1>2. q \in Call /\ fetch' = [fetch EXCEPT ![f] = q] /\ Ready(q) /\ q.at = "body"
    BY <1>1 DEF Heading, Ready
  <1>3. remembered' \in [Backends -> [Sites -> Bag]]
    BY <1>1, KeepsGot DEF Heading
  <1> QED BY <1>2, <1>3, TypesMove DEF Heading, TypesInv

LEMMA RedirectedTypes ==
  ASSUME TypesInv, NEW f \in Fetches, NEW kept, Redirected(f, kept) PROVE TypesInv'
  <1>1. Ready(fetch[f]) /\ Keeps(f, kept) /\ UNCHANGED <<transport, curl, jar, fetch, merges>>
    BY BusyIsReady DEF Redirected, Busy
  <1>2. remembered' \in [Backends -> [Sites -> Bag]]
    BY <1>1, KeepsGot
  <1> QED BY <1>1, <1>2 DEF TypesInv, CallInv

LEMMA EndingTypes ==
  ASSUME TypesInv, NEW f \in Fetches, Ending(f), curl' \in Curl, remembered' = remembered,
         jar' \in [Jars -> Bag], merges' \in Seq(Fetches)
  PROVE  TypesInv'
  <1>1. fetch[f] \in Call
    BY DEF TypesInv
  <1>2. Over(fetch[f]) \in Call /\ ~Busy(Over(fetch[f])) /\ Over(fetch[f]).at = "done"
    BY <1>1, OverFields DEF Busy
  <1> QED BY <1>2, TypesMove DEF Ending, TypesInv

\* Answered, and the call that is cut.
LEMMA AnsweredEnds ==
  ASSUME TypesInv, NEW f \in Fetches, Answered(f)
  PROVE  /\ Ending(f) /\ fetch[f].at = "body" /\ fetch[f].jar \in Jars
         /\ UNCHANGED <<curl, remembered>>
         /\ jar' = [jar EXCEPT ![fetch[f].jar] = Got(jar[fetch[f].jar], f, fetch[f].sets)]
         /\ merges' = IF fetch[f].sets = {} THEN merges ELSE Append(merges, f)
         /\ jar' \in [Jars -> Bag] /\ merges' \in Seq(Fetches)
  <1>1. fetch[f].at = "body" /\ Ending(f) /\ UNCHANGED <<curl, remembered>>
    BY DEF Answered, Ending, Put, Busy
  <1>2. fetch[f].jar \in Jars
    BY <1>1, BusyIsReady DEF Busy, Ready
  <1>3. jar' = [jar EXCEPT ![fetch[f].jar] = Got(jar[fetch[f].jar], f, fetch[f].sets)]
    BY <1>2 DEF Answered, Merged, TypesInv
  <1>4. jar' \in [Jars -> Bag]
    BY <1>2, <1>3, GotIsBag DEF TypesInv
  <1>5. merges' = IF fetch[f].sets = {} THEN merges ELSE Append(merges, f)
    BY DEF Answered
  <1>6. merges' \in Seq(Fetches)
    BY <1>5 DEF TypesInv
  <1> QED BY <1>1, <1>2, <1>3, <1>4, <1>5, <1>6

LEMMA CutOffEnds ==
  ASSUME TypesInv, NEW f \in Fetches, CutOff(f)
  PROVE  /\ Ending(f) /\ UNCHANGED <<remembered, jar, merges>>
         /\ \/ curl' = curl /\ fetch[f].at # "closing"
            \/ /\ fetch[f].at = "closing" /\ curl' \in Curl /\ curl'.lock = NoOne
               /\ curl'.now = curl.now /\ curl'.target = curl.target /\ curl'.asked = curl.asked
               /\ curl'.open \subseteq curl.open /\ curl'.stuck = curl.stuck
  <1>1. Ending(f) /\ UNCHANGED <<remembered, jar, merges>>
    BY Zenon DEF CutOff, Ending, Put, Busy
  <1>2. CASE fetch[f].at = "closing"
    <2>1. PICK gone \in SUBSET {fetch[f].on} : curl' = [curl EXCEPT !.lock = NoOne, !.open = @ \ gone]
      BY <1>2, Zenon DEF CutOff
    <2> DEFINE k == [curl EXCEPT !.lock = NoOne]
               o == curl.open \ gone
    <2>2. curl \in Curl /\ curl' = [k EXCEPT !.open = o]
      BY <2>1 DEF TypesInv, Curl
    <2>3. k \in Curl /\ k.lock = NoOne /\ k.now = curl.now /\ k.target = curl.target /\ k.asked = curl.asked
          /\ k.stuck = curl.stuck
      BY <2>2 DEF Curl
    <2>4. o \subseteq CurlIds /\ o \subseteq curl.open
      BY <2>2 DEF Curl
    <2> HIDE DEF k, o
    <2>5. /\ curl' \in Curl /\ curl'.lock = NoOne /\ curl'.open = o /\ curl'.now = curl.now
          /\ curl'.target = curl.target /\ curl'.asked = curl.asked /\ curl'.stuck = curl.stuck
      BY <2>2, <2>3, <2>4 DEF Curl
    <2> QED BY <1>1, <1>2, <2>4, <2>5
  <1>3. CASE fetch[f].at # "closing"
    BY <1>1, <1>3 DEF CutOff
  <1> QED BY <1>2, <1>3

LEMMA FailedEnds ==
  ASSUME NEW f \in Fetches, Failed(f)
  PROVE  Ending(f) /\ UNCHANGED <<curl, remembered, jar, merges>> /\ fetch[f].at \in {"wire", "body"}
  BY DEF Failed, Ending, Put, Busy

-----------------------------------------------------------------------------
(***************************************************************************)
(* curl_cffi's session: CurlSessionKept.                                     *)
(***************************************************************************)

\* All callers have asked for one impersonation.
Alone == \A s, t \in curl.asked : s = t

\* The call that closes the session in place holds the lock, and has asked for another target;
\* where all ask for one, nobody closes it.
CurlInv ==
  /\ IsFiniteSet(curl.asked)
  /\ curl.open \subseteq ({curl.now} \cup curl.stuck) \ {NoOne}
  /\ curl.now # NoOne => curl.target \in curl.asked
  /\ \A f \in Fetches : fetch[f].at = "closing" =>
       /\ curl.lock = f /\ curl.now # NoOne /\ fetch[f].on = curl.now
       /\ fetch[f].target \in curl.asked /\ fetch[f].target # curl.target
  /\ \A f \in Fetches :
       /\ fetch[f].at \in {"lock", "closing"} => transport[fetch[f].via] = "curl_cffi"
       /\ fetch[f].at \in {"thread", "copying"} => transport[fetch[f].via] # "curl_cffi"
  /\ Alone =>
       /\ curl.now # NoOne => curl.now \in curl.open
       /\ \A f \in Fetches : fetch[f].at \in {"wire", "body"} /\ transport[fetch[f].via] = "curl_cffi"
            => curl.now # NoOne /\ fetch[f].on = curl.now

LEMMA CurlInit == FastInit => CurlInv
  <1> SUFFICES ASSUME FastInit PROVE CurlInv
    OBVIOUS
  <1>1. /\ curl.now = NoOne /\ curl.open = {} /\ curl.stuck = {} /\ curl.asked = {}
        /\ \A f \in Fetches : fetch[f].at = "idle"
    BY DEF FastInit, Unmade
  <1> QED BY <1>1, FS_EmptySet DEF CurlInv

LEMMA AloneAgain == ASSUME curl.asked \subseteq curl'.asked, Alone' PROVE Alone
  BY DEF Alone

LEMMA CurlSending ==
  ASSUME TypesInv, CurlInv, NEW f \in Fetches, NEW r, NEW q, Sending(f, r, q) PROVE CurlInv'
  <1> USE DEF CurlInv
  <1>1. /\ \A g \in Fetches : fetch'[g] = IF g = f THEN q ELSE fetch[g]
        /\ transport' = transport /\ SameCall(q, r) /\ r \in Call
    BY DEF Sending, Moves, TypesInv, Ready
  <1>2. q.via = r.via /\ q.target = r.target
    BY <1>1 DEF SameCall
  <1>3. NoOne \notin Fetches /\ NoOne \notin CurlIds
    BY FastAssumption
  <1>4. CASE transport[r.via] = "curl_cffi" /\ LockFree /\ Reuses(r, q)
    <2>1. \A g \in Fetches : fetch[g].at # "closing"
      BY <1>3, <1>4 DEF LockFree
    <2>2. curl'.asked = curl.asked
      BY <1>4 DEF Reuses, Locks
    <2> QED BY <1>1, <1>2, <1>4, <2>1, <2>2 DEF Reuses, Locks, Alone
  <1>5. CASE transport[r.via] = "curl_cffi" /\ LockFree /\ Closes(f, r, q)
    <2>1. \A g \in Fetches : fetch[g].at # "closing"
      BY <1>3, <1>5 DEF LockFree
    <2>2. curl'.asked = curl.asked \cup {r.target} /\ IsFiniteSet(curl'.asked)
      BY <1>5, FS_AddElement DEF Closes, Locks
    <2>3. ~Alone'
      BY <1>5, <2>2 DEF Closes, Alone
    <2> QED BY <1>1, <1>2, <1>5, <2>1, <2>2, <2>3 DEF Closes, Locks
  <1>6. CASE transport[r.via] = "curl_cffi" /\ LockFree /\ curl.now = NoOne /\ Recreates(r, q)
    <2>1. \A g \in Fetches : fetch[g].at # "closing"
      BY <1>3, <1>6 DEF LockFree
    <2>2. curl'.asked = curl.asked \cup {r.target} /\ IsFiniteSet(curl'.asked)
      BY <1>6, FS_AddElement DEF Recreates, Locks
    <2>3. /\ curl'.open \subseteq ({q.on} \cup curl'.stuck) \ {NoOne} /\ q.on \in curl'.open
          /\ curl'.now = q.on /\ q.on # NoOne /\ curl'.target = r.target
      BY <1>3, <1>6 DEF Recreates
    <2>4. Alone' => Alone
      BY <2>2, AloneAgain
    <2> QED BY <1>1, <1>2, <1>6, <2>1, <2>2, <2>3, <2>4 DEF Recreates
  <1>7. CASE fetch[f].at = "closing" /\ r = fetch[f] /\ Recreates(r, q)
    <2>1. curl.lock = f /\ r.on = curl.now /\ r.target # curl.target /\ {r.target, curl.target} \subseteq curl.asked
      BY <1>7
    <2>2. \A g \in Fetches \ {f} : fetch[g].at # "closing"
      BY <2>1
    <2>3. curl'.asked = curl.asked \cup {r.target} /\ IsFiniteSet(curl'.asked)
      BY <1>7, FS_AddElement DEF Recreates, Locks
    <2>4. /\ curl'.open \subseteq ({q.on} \cup curl'.stuck) \ {NoOne}
          /\ curl'.now = q.on /\ q.on # NoOne /\ curl'.target = r.target
      BY <1>3, <1>7, <2>1 DEF Recreates
    <2>5. ~Alone'
      BY <2>1, <2>3 DEF Alone
    <2> QED BY <1>1, <1>2, <1>7, <2>2, <2>3, <2>4, <2>5 DEF Recreates
  <1>8. CASE Waits(r, q)
    BY <1>1, <1>2, <1>8 DEF Waits, Alone
  <1>9. CASE Sends(r, q)
    BY <1>1, <1>2, <1>9 DEF Sends, Alone
  <1> QED BY <1>4, <1>5, <1>6, <1>7, <1>8, <1>9 DEF Sending, Outcome

\* A call that has nothing to do with curl_cffi, or stays on its session, or ends.
LEMMA CurlElse ==
  ASSUME TypesInv, CurlInv, NEW f \in Fetches, NEW q, fetch' = [fetch EXCEPT ![f] = q],
         transport' = transport, curl' = curl, q.at \notin {"lock", "closing"},
         q.at \in {"thread", "copying"} => transport[q.via] # "curl_cffi",
         q.at \in {"wire", "body"} /\ transport[q.via] = "curl_cffi" =>
           q.on = fetch[f].on /\ q.via = fetch[f].via /\ fetch[f].at \in {"wire", "body"}
  PROVE  CurlInv'
  <1>1. \A g \in Fetches : fetch'[g] = IF g = f THEN q ELSE fetch[g]
    BY DEF TypesInv
  <1> QED BY <1>1 DEF CurlInv, Alone

LEMMA CurlStep == TypesInv /\ CurlInv /\ [FastNext]_ffvars => TypesInv' /\ CurlInv'
  <1> SUFFICES ASSUME TypesInv, CurlInv, [FastNext]_ffvars PROVE TypesInv' /\ CurlInv'
    OBVIOUS
  <1>1. ASSUME NEW f \in Fetches, NEW r, NEW q, Sending(f, r, q) PROVE TypesInv' /\ CurlInv'
    BY <1>1, SendingTypes, CurlSending
  <1>2. ASSUME NEW f \in Fetches, NEW q, Copying(f, q) PROVE TypesInv' /\ CurlInv'
    <2>1. transport[q.via] # "curl_cffi" /\ q.at \in {"copying", "wire"}
      BY <1>2 DEF Copying, SameCall, CurlInv
    <2> QED BY <1>2, <2>1, CopyingTypes, CurlElse DEF Copying
  <1>3. ASSUME NEW f \in Fetches, NEW kept, NEW q, Heading(f, kept, q) PROVE TypesInv' /\ CurlInv'
    BY <1>3, HeadingTypes, CurlElse DEF Heading
  <1>4. ASSUME NEW f \in Fetches, Ending(f), curl' = curl, remembered' = remembered,
               jar' \in [Jars -> Bag], merges' \in Seq(Fetches)
        PROVE  TypesInv' /\ CurlInv'
    <2>1. Over(fetch[f]).at = "done"
      BY OverFields DEF TypesInv
    <2>2. curl' \in Curl
      BY <1>4 DEF TypesInv
    <2> QED BY <1>4, <2>1, <2>2, EndingTypes, CurlElse DEF Ending
  <1>5. ASSUME NEW f \in Fetches, CutOff(f) PROVE TypesInv' /\ CurlInv'
    <2>1. CASE curl' = curl
      BY <1>4, <1>5, <2>1, CutOffEnds DEF TypesInv
    <2>2. CASE /\ fetch[f].at = "closing" /\ curl' \in Curl /\ curl'.lock = NoOne
               /\ curl'.now = curl.now /\ curl'.target = curl.target /\ curl'.asked = curl.asked
               /\ curl'.open \subseteq curl.open /\ curl'.stuck = curl.stuck
      <3>1. Ending(f) /\ UNCHANGED <<remembered, jar, merges>>
        BY <1>5, CutOffEnds
      <3>2. TypesInv'
        BY <2>2, <3>1, EndingTypes DEF TypesInv
      <3>3. \A g \in Fetches : fetch'[g] = IF g = f THEN Over(fetch[f]) ELSE fetch[g]
        BY <3>1 DEF Ending, TypesInv
      <3>4. Over(fetch[f]).at = "done" /\ transport' = transport
        BY <3>1, OverFields DEF TypesInv, Ending
      <3>5. ~Alone' /\ \A g \in Fetches \ {f} : fetch[g].at # "closing"
        BY <2>2 DEF CurlInv, Alone
      <3>6. CurlInv'
        BY <2>2, <3>3, <3>4, <3>5 DEF CurlInv
      <3> QED BY <3>2, <3>6
    <2> QED BY <1>5, <2>1, <2>2, CutOffEnds
  <1>6. CASE UNCHANGED ffvars
    BY <1>6 DEF ffvars, TypesInv, CallInv, CurlInv, Alone
  <1>7. ASSUME NEW f \in Fetches, Answered(f) PROVE TypesInv' /\ CurlInv'
    BY <1>4, <1>7, AnsweredEnds
  <1>8. ASSUME NEW f \in Fetches, Failed(f) PROVE TypesInv' /\ CurlInv'
    <2>1. Ending(f) /\ UNCHANGED <<curl, remembered, jar, merges>>
      BY <1>8, FailedEnds
    <2> QED BY <1>4, <2>1 DEF TypesInv
  <1>9. ASSUME NEW f \in Fetches, Copied(f) PROVE TypesInv' /\ CurlInv'
    <2>1. CASE Ending(f) /\ UNCHANGED <<curl, remembered, jar, merges>>
      BY <1>4, <2>1 DEF TypesInv
    <2> QED BY <1>2, <1>9, <2>1, CopiedCopies
  <1>10. ASSUME NEW f \in Fetches, GetLock(f) PROVE TypesInv' /\ CurlInv'
    <2>1. transport[fetch[f].via] = "curl_cffi"
      BY <1>10 DEF GetLock, CurlInv
    <2> QED BY <1>1, <1>10, <2>1, GetLockSends
  <1>11. ASSUME NEW f \in Fetches, NEW kept, Redirected(f, kept) PROVE TypesInv' /\ CurlInv'
    <2>1. UNCHANGED <<transport, curl, fetch>>
      BY <1>11 DEF Redirected
    <2> QED BY <1>11, <2>1, RedirectedTypes DEF CurlInv, Alone
  <1> QED BY <1>1, <1>2, <1>3, <1>5, <1>6, <1>7, <1>8, <1>9, <1>10, <1>11, BeginSends, OldClosedSends,
             StartCopyCopies, HeadInHeads DEF FastNext

LEMMA FastInvariant == FastSpec => [](TypesInv /\ CurlInv)
  BY FastTypesInit, CurlInit, CurlStep, PTL DEF FastSpec

\* FastTypeOK: what calls, jars and clients remember keeps its type, however calls overlap and
\* end.
THEOREM FastTypeCorrect == FastSpec => []FastTypeOK
  <1>1. TypesInv => FastTypeOK
    BY DEF TypesInv, FastTypeOK, Call, Cookie, Curl
  <1> QED BY <1>1, FastInvariant, PTL

\* CurlSessionKept: of the sessions of curl_cffi only the one in place is open, and those whose
\* aclose() raised; and where all callers ask for one impersonation, no session is closed under
\* a call.
THEOREM CurlSessionIsKept == FastSpec => []CurlSessionKept
  <1>1. TypesInv /\ CurlInv => CurlSessionKept
    <2> SUFFICES ASSUME TypesInv, CurlInv PROVE CurlSessionKept
      OBVIOUS
    <2>1. Cardinality(curl.asked) <= 1 => Alone
      <3> SUFFICES ASSUME Cardinality(curl.asked) <= 1, NEW s \in curl.asked, NEW t \in curl.asked, s # t
                   PROVE  FALSE
        BY DEF Alone
      <3>1. IsFiniteSet({s, t}) /\ Cardinality({s, t}) = 2
        <4>1. {s, t} = {s} \cup {t}
          OBVIOUS
        <4>2. IsFiniteSet({s}) /\ Cardinality({s}) = 1 /\ t \notin {s}
          BY FS_Singleton
        <4> QED BY <4>1, <4>2, FS_AddElement
      <3>2. IsFiniteSet(curl.asked) /\ {s, t} \in SUBSET curl.asked
        BY DEF CurlInv
      <3>3. 2 <= Cardinality(curl.asked) /\ Cardinality(curl.asked) \in Nat
        BY <3>1, <3>2, FS_Subset, FS_CardinalityType
      <3> QED BY <3>3
    <2> QED BY <2>1 DEF CurlInv, CurlSessionKept, OnOpenSession
  <1> QED BY <1>1, FastInvariant, PTL

-----------------------------------------------------------------------------
(***************************************************************************)
(* Cookies: CookiesContinuous and JarsStayApart.  Calls F, merges M.          *)
(***************************************************************************)

\* A call that has made its request; its jar and its client stay what they are.
Launched(r) == r.at \in {"wire", "body", "done"}

\* Every cookie of a bag was set by a response of the session of jar j.
Own(F, b, j) == \A n \in CookieNames : b[n] # NoOne => Launched(F[b[n]]) /\ F[b[n]].jar = j

\* A bag has what the first m merges brought to jar j, or what a later one put in its place.
Covers(F, M, b, j, m) ==
  \A i \in 1..m : F[M[i]].jar = j => \A n \in F[M[i]].sets : \E k \in i..Len(M) : M[k] = b[n]

\* The same of what a call has sent, but for what its client remembers.
OfClient(p, r) == transport[r.via] # "urllib" /\ Client(p) = Client(r)
SentOwn(F, r) == \A c \in r.sent : Launched(F[c.by]) /\ (F[c.by].jar = r.jar \/ OfClient(F[c.by], r))
SentCovers(F, M, r) ==
  \A i \in 1..r.after : F[M[i]].jar = r.jar =>
    \A n \in F[M[i]].sets :
      \E k \in i..Len(M) : [name |-> n, by |-> M[k]] \in r.sent /\ F[M[k]].jar = r.jar

\* Only a response sets cookies, and only a call that set some is merged.
SettledInv ==
  /\ \A f \in Fetches : fetch[f].sets # {} => fetch[f].at \in {"body", "done"}
  /\ \A i \in 1..Len(merges) : fetch[merges[i]].sets # {}
JarsInv == \A j \in Jars : Own(fetch, jar[j], j) /\ Covers(fetch, merges, jar[j], j, Len(merges))
CarryOk(f) ==
  /\ fetch[f].after <= Len(merges)
  /\ Own(fetch, fetch[f].carry, fetch[f].jar)
  /\ Covers(fetch, merges, fetch[f].carry, fetch[f].jar, fetch[f].after)
RememberedInv ==
  \A k \in Backends, s \in Sites, n \in CookieNames :
    remembered[k][s][n] # NoOne =>
      /\ k # "urllib" /\ Launched(fetch[remembered[k][s][n]])
      /\ Client(fetch[remembered[k][s][n]]) = IF k = "curl_cffi" THEN curl.now ELSE k
SentOk(f) ==
  /\ SentOwn(fetch, fetch[f])
  /\ (transport[fetch[f].via] = "urllib" => fetch[f].follow) => SentCovers(fetch, merges, fetch[f])

CookieInv ==
  /\ SettledInv /\ JarsInv /\ RememberedInv
  /\ \A f \in Fetches : Busy(fetch[f]) => CarryOk(f)
  /\ \A f \in Fetches : fetch[f].at = "wire" => SentOk(f)

-----------------------------------------------------------------------------
\* A step that leaves alone what was set, by which client and for whom, and appends to the merges.
Extends(F, G, M, N) ==
  /\ M \in Seq(Fetches) /\ N \in Seq(Fetches) /\ Len(M) <= Len(N)
  /\ \A i \in 1..Len(M) : N[i] = M[i] /\ F[M[i]].sets # {} /\ Launched(F[M[i]])
  /\ \A g \in Fetches : Launched(F[g]) =>
       /\ Launched(G[g]) /\ G[g].jar = F[g].jar /\ G[g].via = F[g].via /\ G[g].on = F[g].on
       /\ F[g].sets # {} => G[g].sets = F[g].sets

LEMMA OwnStays ==
  ASSUME NEW F, NEW G, NEW M, NEW N, Extends(F, G, M, N), NEW b \in Bag, NEW j, Own(F, b, j)
  PROVE  Own(G, b, j)
  BY DEF Extends, Own, Bag

LEMMA CoversStays ==
  ASSUME NEW F, NEW G, NEW M, NEW N, Extends(F, G, M, N), NEW b, NEW j,
         NEW m \in Nat, m <= Len(M), Covers(F, M, b, j, m)
  PROVE  Covers(G, N, b, j, m)
  <1> SUFFICES ASSUME NEW i \in 1..m, G[N[i]].jar = j, NEW n \in G[N[i]].sets
               PROVE  \E k \in i..Len(N) : N[k] = b[n]
    BY DEF Covers
  <1>1. i \in 1..Len(M) /\ N[i] = M[i] /\ M[i] \in Fetches /\ F[M[i]].sets # {} /\ Launched(F[M[i]])
    BY DEF Extends
  <1>2. F[M[i]].jar = j /\ n \in F[M[i]].sets
    BY <1>1 DEF Extends
  <1>3. PICK k \in i..Len(M) : M[k] = b[n]
    BY <1>2 DEF Covers
  <1>4. k \in i..Len(N) /\ N[k] = M[k]
    BY <1>1, <1>3 DEF Extends
  <1> QED BY <1>3, <1>4

LEMMA SentOwnStays ==
  ASSUME NEW F, NEW G, NEW M, NEW N, Extends(F, G, M, N), NEW r \in Call, SentOwn(F, r)
  PROVE  SentOwn(G, r)
  <1> SUFFICES ASSUME NEW c \in r.sent
               PROVE  Launched(G[c.by]) /\ (G[c.by].jar = r.jar \/ OfClient(G[c.by], r))
    BY DEF SentOwn
  <1>1. c.by \in Fetches /\ Launched(F[c.by])
    BY DEF SentOwn, Call, Cookie
  <1>2. F[c.by].jar = r.jar \/ OfClient(F[c.by], r)
    BY DEF SentOwn
  <1>3. /\ Launched(G[c.by]) /\ G[c.by].jar = F[c.by].jar
        /\ G[c.by].via = F[c.by].via /\ G[c.by].on = F[c.by].on
    BY <1>1 DEF Extends
  <1> QED BY <1>2, <1>3 DEF OfClient, Client

LEMMA SentCoversStays ==
  ASSUME NEW F, NEW G, NEW M, NEW N, Extends(F, G, M, N), NEW r \in Call, r.after <= Len(M),
         SentCovers(F, M, r)
  PROVE  SentCovers(G, N, r)
  <1> SUFFICES ASSUME NEW i \in 1..r.after, G[N[i]].jar = r.jar, NEW n \in G[N[i]].sets
               PROVE  \E k \in i..Len(N) :
                        [name |-> n, by |-> N[k]] \in r.sent /\ G[N[k]].jar = r.jar
    BY DEF SentCovers
  <1>1. i \in 1..Len(M) /\ N[i] = M[i] /\ M[i] \in Fetches /\ F[M[i]].sets # {} /\ Launched(F[M[i]])
    BY DEF Extends, Call
  <1>2. F[M[i]].jar = r.jar /\ n \in F[M[i]].sets
    BY <1>1 DEF Extends
  <1>3. PICK k \in i..Len(M) : [name |-> n, by |-> M[k]] \in r.sent /\ F[M[k]].jar = r.jar
    BY <1>2 DEF SentCovers
  <1>4. k \in i..Len(N) /\ k \in 1..Len(M) /\ N[k] = M[k] /\ M[k] \in Fetches
    BY <1>1, <1>3 DEF Extends
  <1>5. G[M[k]].jar = r.jar
    BY <1>3, <1>4 DEF Extends
  <1> QED BY <1>3, <1>4, <1>5

LEMMA CoversLess ==
  ASSUME NEW F, NEW M, NEW b, NEW j, NEW m \in Nat, NEW n \in Nat, m <= n, Covers(F, M, b, j, n)
  PROVE  Covers(F, M, b, j, m)
  BY DEF Covers

\* A call that sends a bag of its session, with or without what the client adds.
LEMMA BagSent ==
  ASSUME TypesInv, RememberedInv, NEW r, Ready(r), NEW q, SameCall(q, r), NEW b \in Bag,
         r.after <= Len(merges), Own(fetch, b, r.jar), Covers(fetch, merges, b, r.jar, r.after),
         \/ q.sent = Header(r, b) /\ (transport[r.via] = "curl_cffi" => q.on = curl.now)
         \/ q.sent = Cookies(b) /\ transport[r.via] = "curl_cffi"
  PROVE  /\ SentOwn(fetch, q)
         /\ (transport[q.via] = "urllib" => q.follow) => SentCovers(fetch, merges, q)
  <1> DEFINE k == transport[r.via]
             e == remembered[k][r.site]
  <1>1. /\ q.via = r.via /\ q.jar = r.jar /\ q.site = r.site /\ q.follow = r.follow
        /\ q.after = r.after /\ r.after \in Nat /\ k \in Backends /\ r.site \in Sites /\ e \in Bag
    BY DEF SameCall, Ready, Call, TypesInv
  <1>2. q.sent \subseteq Cookies(b) \cup Cookies(e)
    BY DEF Header
  <1>3. (k = "urllib" => r.follow) => Cookies(b) \subseteq q.sent
    BY DEF Header
  <1>4. ASSUME NEW c \in Cookies(b) PROVE Launched(fetch[c.by]) /\ fetch[c.by].jar = r.jar
    BY <1>4 DEF Cookies, Held, Own
  <1>5. ASSUME NEW c \in Cookies(e), q.sent = Header(r, b), k = "curl_cffi" => q.on = curl.now
        PROVE  Launched(fetch[c.by]) /\ OfClient(fetch[c.by], q)
    <2>1. PICK n \in CookieNames : e[n] # NoOne /\ c = [name |-> n, by |-> e[n]]
      BY DEF Cookies, Held
    <2>2. /\ k # "urllib" /\ Launched(fetch[e[n]])
          /\ Client(fetch[e[n]]) = IF k = "curl_cffi" THEN curl.now ELSE k
      BY <1>1, <2>1 DEF RememberedInv
    <2>3. Client(q) = IF k = "curl_cffi" THEN curl.now ELSE k
      BY <1>1, <1>5 DEF Client
    <2> QED BY <1>1, <2>1, <2>2, <2>3 DEF OfClient
  <1>6. SentOwn(fetch, q)
    <2>1. CASE q.sent = Header(r, b) /\ (k = "curl_cffi" => q.on = curl.now)
      BY <1>1, <1>2, <1>4, <1>5, <2>1 DEF SentOwn
    <2>2. CASE q.sent = Cookies(b)
      BY <1>1, <1>4, <2>2 DEF SentOwn
    <2> QED BY <2>1, <2>2
  <1>7. ASSUME k = "urllib" => r.follow PROVE SentCovers(fetch, merges, q)
    <2> SUFFICES ASSUME NEW i \in 1..q.after, fetch[merges[i]].jar = q.jar, NEW n \in fetch[merges[i]].sets
                 PROVE  \E m \in i..Len(merges) :
                          [name |-> n, by |-> merges[m]] \in q.sent /\ fetch[merges[m]].jar = q.jar
      BY DEF SentCovers
    <2>1. PICK m \in i..Len(merges) : merges[m] = b[n]
      BY <1>1 DEF Covers
    <2>2. m \in 1..Len(merges) /\ merges[m] \in Fetches /\ n \in CookieNames
      <3>1. merges[i] \in Fetches
        BY <1>1 DEF TypesInv
      <3>2. fetch[merges[i]].sets \subseteq CookieNames
        BY <3>1 DEF TypesInv, Call
      <3> QED BY <1>1, <2>1, <3>2 DEF TypesInv
    <2>3. b[n] # NoOne
      BY <2>1, <2>2, FastAssumption
    <2>4. [name |-> n, by |-> b[n]] \in Cookies(b)
      BY <2>2, <2>3 DEF Cookies, Held
    <2>5. fetch[b[n]].jar = r.jar
      BY <2>2, <2>3 DEF Own
    <2> QED BY <1>1, <1>3, <1>7, <2>1, <2>4, <2>5
  <1> QED BY <1>1, <1>6, <1>7 DEF k

-----------------------------------------------------------------------------
\* Without a merge, and without taking back what was set, a step extends the calls.
LEMMA NoMergeExtends ==
  ASSUME TypesInv, CookieInv, NEW f \in Fetches, NEW q, fetch' = [fetch EXCEPT ![f] = q], merges' = merges,
         Launched(fetch[f]) =>
           /\ Launched(q) /\ q.jar = fetch[f].jar /\ q.via = fetch[f].via /\ q.on = fetch[f].on
           /\ fetch[f].sets # {} => q.sets = fetch[f].sets
  PROVE  Extends(fetch, fetch', merges, merges')
  <1>1. \A g \in Fetches : fetch'[g] = IF g = f THEN q ELSE fetch[g]
    BY DEF TypesInv
  <1>2. merges \in Seq(Fetches) /\ Len(merges) \in Nat
    BY DEF TypesInv
  <1>3. \A i \in 1..Len(merges) : fetch[merges[i]].sets # {} /\ Launched(fetch[merges[i]])
    BY <1>2 DEF CookieInv, SettledInv, Launched
  <1> QED BY <1>1, <1>2, <1>3 DEF Extends

\* What a step that makes f into q leaves of the invariant.
LEMMA CookieFrame ==
  ASSUME TypesInv, TypesInv', CookieInv, NEW f \in Fetches, NEW q, fetch' = [fetch EXCEPT ![f] = q],
         transport' = transport, Extends(fetch, fetch', merges, merges'), JarsInv', RememberedInv',
         \A i \in 1..Len(merges') : fetch'[merges'[i]].sets # {},
         q.sets # {} => q.at \in {"body", "done"},
         Busy(q) => /\ q.after <= Len(merges) /\ Own(fetch, q.carry, q.jar)
                    /\ Covers(fetch, merges, q.carry, q.jar, q.after),
         q.at = "wire" => /\ SentOwn(fetch, q)
                          /\ (transport[q.via] = "urllib" => q.follow) => SentCovers(fetch, merges, q)
  PROVE  CookieInv'
  <1>1. \A g \in Fetches : fetch'[g] = IF g = f THEN q ELSE fetch[g]
    BY DEF TypesInv
  <1>2. \A g \in Fetches : fetch'[g] \in Call
    BY DEF TypesInv
  <1>3. SettledInv'
    BY <1>1 DEF CookieInv, SettledInv
  <1>4. ASSUME NEW g \in Fetches, Busy(fetch'[g]) PROVE CarryOk(g)'
    <2> DEFINE r == fetch'[g]
    <2>1. /\ r.after <= Len(merges) /\ Own(fetch, r.carry, r.jar)
          /\ Covers(fetch, merges, r.carry, r.jar, r.after)
      BY <1>1, <1>4 DEF CookieInv, CarryOk
    <2>2. r.after \in Nat /\ r.carry \in Bag /\ Len(merges) <= Len(merges') /\ Len(merges) \in Nat /\ Len(merges') \in Nat
      BY <1>2 DEF Call, Extends, TypesInv
    <2>3. Own(fetch', r.carry, r.jar)
      BY <2>1, <2>2, OwnStays
    <2>4. Covers(fetch', merges', r.carry, r.jar, r.after)
      BY <2>1, <2>2, CoversStays
    <2>5. r.after <= Len(merges')
      BY <2>1, <2>2
    <2> QED BY <2>3, <2>4, <2>5 DEF CarryOk
  <1>5. ASSUME NEW g \in Fetches, fetch'[g].at = "wire" PROVE SentOk(g)'
    <2> DEFINE r == fetch'[g]
               k == transport[fetch'[g].via]
    <2>1. SentOwn(fetch, r) /\ ((k = "urllib" => r.follow) => SentCovers(fetch, merges, r))
      BY <1>1, <1>5 DEF CookieInv, SentOk
    <2>2. r \in Call /\ r.after <= Len(merges)
      BY <1>1, <1>2, <1>5 DEF CookieInv, CarryOk, Busy
    <2>3. SentOwn(fetch', r)
      BY <2>1, <2>2, SentOwnStays
    <2>4. (k = "urllib" => r.follow) => SentCovers(fetch', merges', r)
      BY <2>1, <2>2, SentCoversStays
    <2> QED BY <2>3, <2>4 DEF SentOk, SentOwn, OfClient, Client
  <1> QED BY <1>3, <1>4, <1>5 DEF CookieInv, Busy

\* Jars stay as they are where nothing is merged.
LEMMA JarsStay ==
  ASSUME TypesInv, CookieInv, Extends(fetch, fetch', merges, merges'), UNCHANGED <<jar, merges>>
  PROVE  JarsInv'
  <1> SUFFICES ASSUME NEW j \in Jars
               PROVE  Own(fetch', jar'[j], j) /\ Covers(fetch', merges', jar'[j], j, Len(merges'))
    BY DEF JarsInv
  <1>1. jar[j] \in Bag /\ Len(merges) \in Nat /\ Len(merges) <= Len(merges)
    BY DEF TypesInv
  <1>2. Own(fetch, jar[j], j) /\ Covers(fetch, merges, jar[j], j, Len(merges))
    BY DEF CookieInv, JarsInv
  <1>3. Own(fetch', jar[j], j)
    BY <1>1, <1>2, OwnStays
  <1>4. Covers(fetch', merges', jar[j], j, Len(merges))
    BY <1>1, <1>2, CoversStays
  <1> QED BY <1>3, <1>4

LEMMA RememberedStays ==
  ASSUME TypesInv, CookieInv, Extends(fetch, fetch', merges, merges'), transport' = transport,
         \/ remembered' = remembered /\ curl'.now = curl.now
         \/ remembered' = [remembered EXCEPT !["curl_cffi"] = [s \in Sites |-> NoCookies]]
  PROVE  RememberedInv'
  <1> SUFFICES ASSUME NEW k \in Backends, NEW s \in Sites, NEW n \in CookieNames, remembered'[k][s][n] # NoOne
               PROVE  /\ k # "urllib" /\ Launched(fetch'[remembered'[k][s][n]])
                      /\ LET r == fetch'[remembered'[k][s][n]] IN
                         (IF transport'[r.via] = "curl_cffi" THEN r.on ELSE transport'[r.via])
                           = IF k = "curl_cffi" THEN curl'.now ELSE k
    BY DEF RememberedInv, Client
  <1> DEFINE g == remembered[k][s][n]
  <1>1. remembered'[k][s][n] = g /\ (k = "curl_cffi" => curl'.now = curl.now)
    BY DEF TypesInv, NoCookies
  <1>2. /\ k # "urllib" /\ Launched(fetch[g]) /\ g \in Fetches
        /\ Client(fetch[g]) = IF k = "curl_cffi" THEN curl.now ELSE k
    BY <1>1 DEF CookieInv, RememberedInv, TypesInv, Bag
  <1>3. Launched(fetch'[g]) /\ fetch'[g].via = fetch[g].via /\ fetch'[g].on = fetch[g].on
    BY <1>2 DEF Extends
  <1> QED BY <1>1, <1>2, <1>3 DEF Client

LEMMA RememberedKeeps ==
  ASSUME TypesInv, CookieInv, Extends(fetch, fetch', merges, merges'), transport' = transport, curl' = curl,
         NEW f \in Fetches, fetch[f].at = "wire", NEW kept, Keeps(f, kept)
  PROVE  RememberedInv'
  <1> SUFFICES ASSUME NEW k \in Backends, NEW s \in Sites, NEW n \in CookieNames, remembered'[k][s][n] # NoOne
               PROVE  /\ k # "urllib" /\ Launched(fetch'[remembered'[k][s][n]])
                      /\ LET r == fetch'[remembered'[k][s][n]] IN
                         (IF transport'[r.via] = "curl_cffi" THEN r.on ELSE transport'[r.via])
                           = IF k = "curl_cffi" THEN curl'.now ELSE k
    BY DEF RememberedInv, Client
  <1> DEFINE g == remembered'[k][s][n]
             b == remembered[k][s]
  <1>1. remembered'[k][s] = IF KeptBy(f, k) THEN Got(b, f, kept[s]) ELSE b
    BY KeepsGot, BusyIsReady DEF Busy
  <1>2. g = b[n] \/ (KeptBy(f, k) /\ g = f)
    BY <1>1 DEF Got
  <1>3. /\ k # "urllib" /\ Launched(fetch[g]) /\ g \in Fetches
        /\ Client(fetch[g]) = IF k = "curl_cffi" THEN curl.now ELSE k
    <2>1. CASE g = b[n]
      BY <2>1 DEF CookieInv, RememberedInv, TypesInv, Bag
    <2>2. CASE KeptBy(f, k) /\ g = f
      BY <2>2 DEF KeptBy, Launched, Client
    <2> QED BY <1>2, <2>1, <2>2
  <1>4. Launched(fetch'[g]) /\ fetch'[g].via = fetch[g].via /\ fetch'[g].on = fetch[g].on
    BY <1>3 DEF Extends
  <1> QED BY <1>3, <1>4 DEF Client

LEMMA MergedStay ==
  ASSUME TypesInv, CookieInv, Extends(fetch, fetch', merges, merges'), merges' = merges
  PROVE  \A i \in 1..Len(merges') : fetch'[merges'[i]].sets # {}
  <1>1. \A i \in 1..Len(merges) : fetch[merges[i]].sets # {} /\ merges[i] \in Fetches
    BY DEF CookieInv, SettledInv, TypesInv
  <1> QED BY <1>1 DEF Extends

LEMMA CookieSending ==
  ASSUME TypesInv, TypesInv', CurlInv, CookieInv, NEW f \in Fetches, NEW r, NEW q, Sending(f, r, q)
  PROVE  CookieInv'
  <1>1. /\ Ready(r) /\ q \in Call /\ SameCall(q, r) /\ q.carry = r.carry /\ r \in Call
        /\ fetch' = [fetch EXCEPT ![f] = q] /\ UNCHANGED <<transport, jar, merges>>
    BY DEF Sending, Moves, Ready
  <1>2. q.at \in {"wire", "closing", "lock", "thread"} /\ fetch[f].at \in {"idle", "lock", "closing"}
    BY DEF Sending, Outcome, Reuses, Closes, Recreates, Waits, Sends
  <1>3. fetch[f].sets = {} /\ r.sets = {} /\ q.sets = {}
    BY <1>1, <1>2 DEF Sending, CookieInv, SettledInv, SameCall
  <1>4. Extends(fetch, fetch', merges, merges')
    BY <1>1, <1>2, NoMergeExtends DEF Launched
  <1>5. \/ remembered' = remembered /\ curl'.now = curl.now
        \/ remembered' = [remembered EXCEPT !["curl_cffi"] = [s \in Sites |-> NoCookies]]
    BY DEF Sending, Outcome, Reuses, Closes, Recreates, Waits, Sends
  <1>6. JarsInv' /\ RememberedInv'
    BY <1>1, <1>4, <1>5, JarsStay, RememberedStays
  <1>7. /\ r.after <= Len(merges) /\ Own(fetch, r.carry, r.jar)
        /\ Covers(fetch, merges, r.carry, r.jar, r.after)
    <2>1. CASE fetch[f].at = "idle" /\ r.carry = jar[r.jar] /\ r.after = Len(merges)
      <3>1. r.jar \in Jars /\ Len(merges) \in Nat /\ Len(merges) <= Len(merges)
        BY <1>1 DEF Ready, TypesInv
      <3> QED BY <2>1, <3>1 DEF CookieInv, JarsInv
    <2>2. CASE fetch[f].at \in {"lock", "closing"} /\ r = fetch[f]
      BY <2>2 DEF CookieInv, CarryOk, Busy
    <2> QED BY <2>1, <2>2 DEF Sending
  <1>8. Own(fetch, Carried(r), r.jar) /\ Covers(fetch, merges, Carried(r), r.jar, r.after)
    <2>1. r.jar \in Jars /\ r.after \in Nat /\ Len(merges) \in Nat
      BY <1>1 DEF Ready, Call, TypesInv
    <2>2. Own(fetch, jar[r.jar], r.jar) /\ Covers(fetch, merges, jar[r.jar], r.jar, Len(merges))
      BY <2>1 DEF CookieInv, JarsInv
    <2>3. Covers(fetch, merges, jar[r.jar], r.jar, r.after)
      BY <1>7, <2>1, <2>2, CoversLess
    <2> QED BY <1>7, <2>2, <2>3 DEF Carried
  <1>9. ASSUME q.at = "wire"
        PROVE  /\ SentOwn(fetch, q)
               /\ (transport[q.via] = "urllib" => q.follow) => SentCovers(fetch, merges, q)
    <2>1. \/ q.sent = Header(r, Carried(r)) /\ (transport[r.via] = "curl_cffi" => q.on = curl.now)
          \/ (q.sent = Cookies(Carried(r)) /\ transport[r.via] = "curl_cffi")
      BY <1>9 DEF Sending, Outcome, Reuses, Closes, Recreates, Waits, Sends, CurlInv
    <2>2. Carried(r) \in Bag /\ RememberedInv
      BY <1>1, CarriedType DEF CookieInv
    <2> QED BY <1>1, <1>7, <1>8, <2>1, <2>2, BagSent
  <1>10. q.after = r.after /\ q.jar = r.jar
    BY <1>1 DEF SameCall
  <1>11. \A i \in 1..Len(merges') : fetch'[merges'[i]].sets # {}
    BY <1>1, <1>4, MergedStay
  <1> QED BY <1>1, <1>3, <1>4, <1>6, <1>7, <1>9, <1>10, <1>11, CookieFrame

LEMMA CookieCopying ==
  ASSUME TypesInv, TypesInv', CurlInv, CookieInv, NEW f \in Fetches, NEW q, Copying(f, q)
  PROVE  CookieInv'
  <1> DEFINE r == fetch[f]
             b == jar[r.jar]
  <1>1. /\ Ready(r) /\ r \in Call /\ q \in Call /\ SameCall(q, r) /\ fetch' = [fetch EXCEPT ![f] = q]
        /\ UNCHANGED <<transport, curl, remembered, jar, merges>>
    BY BusyIsReady DEF Copying, Busy, Ready
  <1>2. r.sets = {} /\ q.sets = {} /\ q.after = r.after /\ q.jar = r.jar /\ q.via = r.via
    BY <1>1 DEF Copying, CookieInv, SettledInv, SameCall
  <1>3. Extends(fetch, fetch', merges, merges')
    BY <1>1, NoMergeExtends DEF Copying, Launched
  <1>4. JarsInv' /\ RememberedInv' /\ RememberedInv
    BY <1>1, <1>3, JarsStay, RememberedStays DEF CookieInv
  <1>5. \A i \in 1..Len(merges') : fetch'[merges'[i]].sets # {}
    BY <1>1, <1>3, MergedStay
  <1>6. /\ r.after <= Len(merges) /\ Own(fetch, r.carry, r.jar)
        /\ Covers(fetch, merges, r.carry, r.jar, r.after)
    BY DEF Copying, CookieInv, CarryOk, Busy
  <1>7. b \in Bag /\ Own(fetch, b, r.jar) /\ Covers(fetch, merges, b, r.jar, r.after)
    <2>1. r.jar \in Jars /\ r.after \in Nat /\ Len(merges) \in Nat
      BY <1>1 DEF Ready, Call, TypesInv
    <2>2. Own(fetch, b, r.jar) /\ Covers(fetch, merges, b, r.jar, Len(merges))
      BY <2>1 DEF CookieInv, JarsInv
    <2>3. b \in Bag
      BY <2>1 DEF TypesInv
    <2> QED BY <1>6, <2>1, <2>2, <2>3, CoversLess
  <1>8. /\ q.carry \in Bag /\ Own(fetch, q.carry, r.jar) /\ Covers(fetch, merges, q.carry, r.jar, r.after)
    <2>1. \A n \in CookieNames : q.carry[n] \in {r.carry[n], b[n]}
      BY <1>1 DEF Copying
    <2>2. q.carry \in Bag
      BY <1>1 DEF Call
    <2>3. Own(fetch, q.carry, r.jar)
      BY <1>6, <1>7, <2>1 DEF Own
    <2>4. Covers(fetch, merges, q.carry, r.jar, r.after)
      <3> SUFFICES ASSUME NEW i \in 1..r.after, fetch[merges[i]].jar = r.jar, NEW n \in fetch[merges[i]].sets
                   PROVE  \E k \in i..Len(merges) : merges[k] = q.carry[n]
        BY DEF Covers
      <3>1. n \in CookieNames
        <4>1. r.after \in Nat /\ Len(merges) \in Nat
          BY <1>1 DEF Call, TypesInv
        <4>2. merges[i] \in Fetches
          BY <1>6, <4>1 DEF TypesInv
        <4> QED BY <4>2 DEF TypesInv, Call
      <3>2. \E k \in i..Len(merges) : merges[k] = r.carry[n]
        BY <1>6 DEF Covers
      <3>3. \E k \in i..Len(merges) : merges[k] = b[n]
        BY <1>7 DEF Covers
      <3> QED BY <2>1, <3>1, <3>2, <3>3
    <2> QED BY <2>2, <2>3, <2>4
  <1>9. ASSUME q.at = "wire"
        PROVE  /\ SentOwn(fetch, q)
               /\ (transport[q.via] = "urllib" => q.follow) => SentCovers(fetch, merges, q)
    <2>1. q.sent = Header(r, Carried(r)) \/ q.sent = Header(r, q.carry)
      BY <1>9 DEF Copying
    <2>2. Carried(r) \in Bag /\ Own(fetch, Carried(r), r.jar) /\ Covers(fetch, merges, Carried(r), r.jar, r.after)
      BY <1>1, <1>6, <1>7, CarriedType DEF Carried
    <2>3. transport[r.via] # "curl_cffi"
      BY DEF Copying, CurlInv
    <2> QED BY <1>1, <1>4, <1>6, <1>8, <2>1, <2>2, <2>3, BagSent
  <1> HIDE DEF r
  <1> QED BY <1>1, <1>2, <1>3, <1>4, <1>5, <1>6, <1>8, <1>9, CookieFrame DEF r

LEMMA CookieHeading ==
  ASSUME TypesInv, TypesInv', CookieInv, NEW f \in Fetches, NEW kept, NEW q, Heading(f, kept, q)
  PROVE  CookieInv'
  <1>1. /\ q \in Call /\ fetch' = [fetch EXCEPT ![f] = q] /\ q.at = "body" /\ fetch[f].at = "wire"
        /\ UNCHANGED <<transport, curl, jar, merges>> /\ Keeps(f, kept)
    BY DEF Heading
  <1>2. fetch[f].sets = {} /\ q.via = fetch[f].via /\ q.jar = fetch[f].jar /\ q.on = fetch[f].on
    BY <1>1 DEF CookieInv, SettledInv, Heading
  <1>3. Extends(fetch, fetch', merges, merges')
    BY <1>1, <1>2, NoMergeExtends DEF Launched
  <1>4. JarsInv' /\ \A i \in 1..Len(merges') : fetch'[merges'[i]].sets # {}
    BY <1>1, <1>3, JarsStay, MergedStay
  <1>5. RememberedInv'
    BY <1>1, <1>3, RememberedKeeps
  <1>6. /\ q.after <= Len(merges) /\ Own(fetch, q.carry, q.jar)
        /\ Covers(fetch, merges, q.carry, q.jar, q.after)
    BY <1>1 DEF Heading, CookieInv, CarryOk, Busy
  <1> QED BY <1>1, <1>3, <1>4, <1>5, <1>6, CookieFrame

LEMMA CookieRedirected ==
  ASSUME TypesInv, TypesInv', CookieInv, NEW f \in Fetches, NEW kept, Redirected(f, kept)
  PROVE  CookieInv'
  <1>1. fetch[f].at = "wire" /\ UNCHANGED <<transport, curl, jar, fetch, merges>> /\ Keeps(f, kept)
    BY DEF Redirected
  <1>2. fetch' = [fetch EXCEPT ![f] = fetch[f]]
    BY <1>1 DEF TypesInv
  <1>3. Extends(fetch, fetch', merges, merges')
    BY <1>1, <1>2, NoMergeExtends
  <1>4. RememberedInv'
    BY <1>1, <1>3, RememberedKeeps
  <1> QED BY <1>1, <1>4 DEF CookieInv, SettledInv, JarsInv, CarryOk, SentOk, SentOwn, OfClient, Client

LEMMA CookieEnding ==
  ASSUME TypesInv, TypesInv', CookieInv, NEW f \in Fetches, Ending(f), UNCHANGED <<remembered, jar, merges>>,
         curl'.now = curl.now
  PROVE  CookieInv'
  <1> DEFINE q == Over(fetch[f])
  <1>1. fetch' = [fetch EXCEPT ![f] = q] /\ transport' = transport
    BY DEF Ending
  <1>2. /\ q \in Call /\ q.at = "done"
        /\ Launched(fetch[f]) => /\ q.jar = fetch[f].jar /\ q.via = fetch[f].via /\ q.on = fetch[f].on
                                 /\ q.sets = fetch[f].sets
    BY OverFields DEF TypesInv, Ending, Busy, Launched
  <1> HIDE DEF q
  <1>3. Extends(fetch, fetch', merges, merges')
    BY <1>1, <1>2, NoMergeExtends DEF Launched
  <1>4. JarsInv' /\ RememberedInv' /\ \A i \in 1..Len(merges') : fetch'[merges'[i]].sets # {}
    BY <1>1, <1>3, JarsStay, MergedStay, RememberedStays
  <1> QED BY <1>1, <1>2, <1>3, <1>4, CookieFrame DEF Busy

\* A response's cookies take the place of the older ones of the session, and of no other's.
LEMMA CookieAnswered ==
  ASSUME TypesInv, TypesInv', CookieInv, NEW f \in Fetches, Answered(f)
  PROVE  CookieInv'
  <1> DEFINE q == Over(fetch[f])
             h == fetch[f].jar
             w == fetch[f].sets
             l == Len(merges)
  <1>1. /\ fetch' = [fetch EXCEPT ![f] = q] /\ transport' = transport /\ remembered' = remembered /\ curl' = curl
        /\ h \in Jars /\ jar' = [jar EXCEPT ![h] = Got(jar[h], f, w)]
        /\ merges' = IF w = {} THEN merges ELSE Append(merges, f)
    BY AnsweredEnds DEF Ending
  <1>2. /\ q \in Call /\ q.at = "done" /\ q.sets = w /\ fetch[f].at = "body"
        /\ q.jar = h /\ q.via = fetch[f].via /\ q.on = fetch[f].on
    BY AnsweredEnds, OverFields DEF TypesInv
  <1>3. w \subseteq CookieNames /\ l \in Nat /\ merges \in Seq(Fetches)
    BY DEF TypesInv, Call
  <1> HIDE DEF q
  <1>4. CASE w = {}
    <2>1. Got(jar[h], f, w) = jar[h]
      BY <1>1, <1>4 DEF Got, TypesInv, Bag
    <2>2. jar' = jar /\ merges' = merges
      BY <1>1, <1>4, <2>1 DEF TypesInv
    <2>3. Extends(fetch, fetch', merges, merges')
      BY <1>1, <1>2, <2>2, NoMergeExtends DEF Launched
    <2>4. JarsInv' /\ RememberedInv' /\ \A i \in 1..Len(merges') : fetch'[merges'[i]].sets # {}
      BY <1>1, <2>2, <2>3, JarsStay, MergedStay, RememberedStays
    <2> QED BY <1>1, <1>2, <2>3, <2>4, CookieFrame DEF Busy
  <1>5. CASE w # {}
    <2>1. /\ merges' \in Seq(Fetches) /\ Len(merges') = l + 1 /\ merges'[l + 1] = f
          /\ \A i \in 1..l : merges'[i] = merges[i]
      BY <1>1, <1>3, <1>5
    <2>2. \A g \in Fetches : fetch'[g] = IF g = f THEN q ELSE fetch[g]
      BY <1>1 DEF TypesInv
    <2>3. \A i \in 1..l : fetch[merges[i]].sets # {} /\ Launched(fetch[merges[i]])
      BY <1>3 DEF CookieInv, SettledInv, Launched
    <2>4. Extends(fetch, fetch', merges, merges')
      BY <1>2, <1>3, <2>1, <2>2, <2>3 DEF Extends, Launched
    <2>5. \A i \in 1..Len(merges') : fetch'[merges'[i]].sets # {}
      <3> SUFFICES ASSUME NEW i \in 1..Len(merges') PROVE fetch'[merges'[i]].sets # {}
        OBVIOUS
      <3>1. CASE i = l + 1
        BY <1>2, <1>5, <2>1, <2>2, <3>1
      <3>2. CASE i \in 1..l
        <4>1. merges[i] \in Fetches
          BY <1>3, <3>2
        <4> QED BY <2>1, <2>3, <2>4, <3>2, <4>1 DEF Extends
      <3> QED BY <1>3, <2>1, <3>1, <3>2
    <2>6. RememberedInv'
      BY <1>1, <2>4, RememberedStays
    <2>7. JarsInv'
      <3> SUFFICES ASSUME NEW j \in Jars
                   PROVE  /\ Own(fetch', jar'[j], j)
                          /\ Covers(fetch', merges', jar'[j], j, Len(merges'))
        BY DEF JarsInv
      <3>1. jar[j] \in Bag /\ Own(fetch, jar[j], j) /\ Covers(fetch, merges, jar[j], j, l)
        BY DEF CookieInv, JarsInv, TypesInv
      <3>2. Own(fetch', jar[j], j)
        BY <2>4, <3>1, OwnStays
      <3>3. Covers(fetch', merges', jar[j], j, l)
        BY <1>3, <2>4, <3>1, CoversStays
      <3>4. jar'[j] = IF j = h THEN Got(jar[h], f, w) ELSE jar[j]
        BY <1>1 DEF TypesInv
      <3>5. fetch'[f].jar = h /\ fetch'[f].sets = w /\ Launched(fetch'[f])
        BY <1>2, <1>5, <2>2 DEF Launched
      <3>6. Own(fetch', jar'[j], j)
        <4>1. CASE j # h
          BY <3>2, <3>4, <4>1
        <4>2. CASE j = h
          <5> SUFFICES ASSUME NEW n \in CookieNames, Got(jar[h], f, w)[n] # NoOne
                       PROVE  /\ Launched(fetch'[Got(jar[h], f, w)[n]])
                              /\ fetch'[Got(jar[h], f, w)[n]].jar = j
            BY <3>4, <4>2 DEF Own
          <5>1. Got(jar[h], f, w)[n] = IF n \in w THEN f ELSE jar[h][n]
            BY DEF Got
          <5>2. CASE n \in w
            BY <3>5, <4>2, <5>1, <5>2
          <5>3. CASE n \notin w
            BY <3>2, <4>2, <5>1, <5>3 DEF Own
          <5> QED BY <5>2, <5>3
        <4> QED BY <4>1, <4>2
      <3>7. Covers(fetch', merges', jar'[j], j, Len(merges'))
        <4> SUFFICES ASSUME NEW i \in 1..Len(merges'), fetch'[merges'[i]].jar = j,
                            NEW n \in fetch'[merges'[i]].sets
                     PROVE  \E k \in i..Len(merges') : merges'[k] = jar'[j][n]
          BY DEF Covers
        <4>1. n \in CookieNames /\ i \in 1..(l + 1)
          <5>1. merges'[i] \in Fetches
            BY <2>1
          <5>2. fetch'[merges'[i]] \in Call
            BY <5>1 DEF TypesInv
          <5> QED BY <2>1, <5>2 DEF Call
        <4>2. CASE j = h /\ n \in w
          <5>1. jar'[j][n] = f
            BY <3>4, <4>1, <4>2 DEF Got
          <5>2. l + 1 \in i..Len(merges')
            BY <1>3, <2>1, <4>1
          <5> QED BY <2>1, <5>1, <5>2
        <4>3. CASE ~(j = h /\ n \in w)
          <5>1. jar'[j][n] = jar[j][n]
            BY <3>4, <4>1, <4>3 DEF Got
          <5>2. i # l + 1
            BY <2>1, <3>5, <4>3
          <5>3. i \in 1..l
            BY <1>3, <4>1, <5>2
          <5>4. \E k \in i..Len(merges') : merges'[k] = jar[j][n]
            BY <3>3, <5>3 DEF Covers
          <5> QED BY <5>1, <5>4
        <4> QED BY <4>2, <4>3
      <3> QED BY <3>6, <3>7
    <2> QED BY <1>1, <1>2, <2>4, <2>5, <2>6, <2>7, CookieFrame DEF Busy
  <1> QED BY <1>4, <1>5

LEMMA CookieInit == FastInit => CookieInv
  <1> SUFFICES ASSUME FastInit PROVE CookieInv
    OBVIOUS
  <1>1. TypesInv
    BY FastTypesInit
  <1>2. /\ \A f \in Fetches : fetch[f].at = "idle" /\ fetch[f].sets = {}
        /\ merges = <<>> /\ Len(merges) = 0
        /\ \A j \in Jars, n \in CookieNames : jar[j][n] = NoOne
        /\ \A k \in Backends, s \in Sites, n \in CookieNames : remembered[k][s][n] = NoOne
    BY DEF FastInit, Unmade, NoCookies
  <1>3. SettledInv /\ RememberedInv
    BY <1>2 DEF SettledInv, RememberedInv
  <1>4. JarsInv
    BY <1>2 DEF JarsInv, Own, Covers
  <1> QED BY <1>2, <1>3, <1>4 DEF CookieInv, Busy

LEMMA CookieStep == TypesInv /\ CurlInv /\ CookieInv /\ [FastNext]_ffvars => CookieInv'
  <1> SUFFICES ASSUME TypesInv, CurlInv, CookieInv, [FastNext]_ffvars PROVE CookieInv'
    OBVIOUS
  <1>1. TypesInv'
    BY CurlStep
  <1>2. ASSUME NEW f \in Fetches, NEW r, NEW q, Sending(f, r, q) PROVE CookieInv'
    BY <1>1, <1>2, CookieSending
  <1>3. ASSUME NEW f \in Fetches, NEW q, Copying(f, q) PROVE CookieInv'
    BY <1>1, <1>3, CookieCopying
  <1>4. ASSUME NEW f \in Fetches, NEW kept, NEW q, Heading(f, kept, q) PROVE CookieInv'
    BY <1>1, <1>4, CookieHeading
  <1>5. ASSUME NEW f \in Fetches, Answered(f) PROVE CookieInv'
    BY <1>1, <1>5, CookieAnswered
  <1>6. ASSUME NEW f \in Fetches, CutOff(f) \/ Failed(f) PROVE CookieInv'
    BY <1>1, <1>6, CutOffEnds, FailedEnds, CookieEnding
  <1>7. ASSUME NEW f \in Fetches, Copied(f) PROVE CookieInv'
    BY <1>1, <1>3, <1>7, CopiedCopies, CookieEnding
  <1>8. ASSUME NEW f \in Fetches, GetLock(f) PROVE CookieInv'
    <2>1. transport[fetch[f].via] = "curl_cffi"
      BY <1>8 DEF GetLock, CurlInv
    <2> QED BY <1>2, <1>8, <2>1, GetLockSends
  <1>9. CASE UNCHANGED ffvars
    BY <1>9 DEF ffvars, CookieInv, SettledInv, JarsInv, RememberedInv, CarryOk, SentOk, SentOwn, OfClient, Client
  <1>10. ASSUME NEW f \in Fetches, NEW kept, Redirected(f, kept) PROVE CookieInv'
    BY <1>1, <1>10, CookieRedirected
  <1> QED BY <1>2, <1>3, <1>4, <1>5, <1>6, <1>7, <1>8, <1>9, <1>10, BeginSends, OldClosedSends,
             StartCopyCopies, HeadInHeads DEF FastNext

LEMMA CookieInvariant == FastSpec => [](TypesInv /\ CookieInv)
  BY FastTypesInit, CurlInit, CurlStep, CookieInit, CookieStep, PTL DEF FastSpec

\* CookiesContinuous: what was merged into a session before a fetch of it began, that fetch
\* sends, or a later cookie of the same name, over every backend and whatever else is under way;
\* but for urllib without redirects, which sends no cookies at all.
THEOREM CookiesAreContinuous == FastSpec => []CookiesContinuous
  <1>1. CookieInv => CookiesContinuous
    BY DEF CookieInv, SentOk, SentCovers, CookiesContinuous, OnTheWire
  <1> QED BY <1>1, CookieInvariant, PTL

\* JarsStayApart: a cookie of another session is sent by the very client that got it, and by
\* urllib never.
THEOREM JarsAreApart == FastSpec => []JarsStayApart
  <1>1. CookieInv => JarsStayApart
    BY DEF CookieInv, SentOk, SentOwn, OfClient, JarsStayApart, OnTheWire
  <1> QED BY <1>1, CookieInvariant, PTL

=============================================================================
