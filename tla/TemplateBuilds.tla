--------------------------- MODULE TemplateBuilds ---------------------------
(***************************************************************************)
(* core/template_cache.py and the page builds of core/page_map_builder.py    *)
(* that share it: what a first build of a (domain, page type) learns, and     *)
(* what later builds skip because of it.  One cache serves every session of   *)
(* a server, so the lookup of a build and what it records about the template  *)
(* are separated by awaits in which other builds store and drop templates.    *)
(*                                                                         *)
(* A key stands for a (domain, type) pair of a known type.  Of a page only     *)
(* what the templates record of it is kept (a look); its schema is Product.   *)
(* Ratios are in tenths.  Counters nobody adds up (hits, misses, last use)    *)
(* are left out.                                                            *)
(***************************************************************************)
EXTENDS Naturals, Sequences, SequencesExt, FiniteSets

CONSTANTS
  Builders,        \* builds that may be under way together
  Keys,            \* template keys
  Listings,        \* those whose type is "listing" or "search_results"
  NoKey,           \* the type is "unknown", or there is no template
  Looks,           \* pages, see Look
  MaxTemplates,    \* DEFAULT_MAX_TEMPLATES
  MaxBuilds        \* bound on the builds of a behaviour

Fields == {"name", "price", "image"}
Params == {"none", "page", "p"}
Look == [jsonld : SUBSET Fields, itemprop : SUBSET Fields, og : SUBSET Fields,
         h1 : BOOLEAN, dom : BOOLEAN,       \* an h1; a price in the DOM or the HTML
         param : Params, text : BOOLEAN,    \* page links by parameter; pages told in words
         main : BOOLEAN, aom : 0..10, share : 0..10]

ASSUME TemplateAssumption ==
  /\ Listings \subseteq Keys /\ NoKey \notin Keys
  /\ Looks \subseteq Look /\ Looks # {}
  /\ MaxTemplates \in Nat \ {0} /\ MaxBuilds \in Nat

VARIABLES
  entries,    \* InMemoryTemplateCache._entries, least recently used first
  stats,      \* the counters of TemplateCacheStats that store() and drops move
  expired,    \* templates dropped by a lookup past their TTL, which no counter has
  build,      \* the builds
  begun       \* builds begun, bounded by MaxBuilds

bvars == <<entries, stats, expired, build, begun>>

MAX_CONSECUTIVE_FAILURES == 3
TOLERANCE == 3    \* _AOM_RATIO_TOLERANCE, _CHUNK_RATIO_TOLERANCE

Sources == {"", "json_ld", "itemprop", "og"}
Data == [source : Sources, param : Params, main : BOOLEAN, aom : 0..10, share : 0..10]
Template == [key : Keys, data : Data, fails : 0..MAX_CONSECUTIVE_FAILURES - 1, old : BOOLEAN]
NoData == [source |-> "", param |-> "none", main |-> FALSE, aom |-> 0, share |-> 0]

\* Where a metadata field was found.
Origins == {"none", "json_ld", "itemprop", "og", "h1", "dom"}
Build == [op : {"none", "live", "batch", "content"}, at : {"idle", "gather", "prune", "done"},
          look : Looks, key : Keys \cup {NoKey}, known : BOOLEAN,  \* the type is known at last
          hit : BOOLEAN, data : Data,                              \* the template used
          meta : [Fields -> Origins], pages : BOOLEAN]             \* what the map then says
NoMeta == [f \in Fields |-> "none"]

TemplateTypeOK ==
  /\ entries \in Seq(Template) /\ Len(entries) <= MaxTemplates
  /\ \A i, j \in DOMAIN entries : entries[i].key = entries[j].key => i = j
  /\ stats \in [created : Nat, evictions : Nat, invalidations : Nat]
  /\ expired \in Nat
  /\ build \in [Builders -> Build]
  /\ begun \in 0..MaxBuilds

-----------------------------------------------------------------------------
(***************************************************************************)
(* The cache.  A cache state is a record of the entries and the counters.    *)
(***************************************************************************)
Cache == [e |-> entries, s |-> stats, x |-> expired]
Becomes(c) == entries' = c.e /\ stats' = c.s /\ expired' = c.x

Find(c, k) == {i \in DOMAIN c.e : c.e[i].key = k}
Has(c, k) == Find(c, k) # {}
Slot(c, k) == CHOOSE i \in Find(c, k) : TRUE
At(c, k) == c.e[Slot(c, k)]
Without(c, k) == IF Has(c, k) THEN [c EXCEPT !.e = RemoveAt(@, Slot(c, k))] ELSE c

\* lookup: a template past its TTL is deleted; one that is served is now the last used.
Missed(c, k) == IF Has(c, k) THEN [Without(c, k) EXCEPT !.x = @ + 1] ELSE c
Lookup(c, k) ==
  IF Has(c, k) /\ ~At(c, k).old
    THEN [Without(c, k) EXCEPT !.e = Append(@, At(c, k))]
    ELSE Missed(c, k)
Served(c, k) == Has(c, k) /\ ~At(c, k).old

\* Mutant of Store: an overwritten template counts as a new one.
Store_Counts(c, t) ==
  LET d == [Without(c, t.key) EXCEPT !.e = Append(@, t), !.s.created = @ + 1] IN
  IF Len(d.e) <= MaxTemplates THEN d
  ELSE [d EXCEPT !.e = Tail(@), !.s.evictions = @ + 1]

\* store: a new template, or in the place of the key's, then the least recently used goes.
Store(c, t) ==
  LET d == [Without(c, t.key) EXCEPT !.e = Append(@, t),
                                     !.s.created = IF Has(c, t.key) THEN @ ELSE @ + 1]
  IN IF Len(d.e) <= MaxTemplates THEN d
     ELSE [d EXCEPT !.e = Tail(@), !.s.evictions = @ + 1]

Invalidate(c, k) == IF Has(c, k) THEN [Without(c, k) EXCEPT !.s.invalidations = @ + 1] ELSE c
SetFails(c, k, n) ==
  [c EXCEPT !.e = [i \in DOMAIN @ |-> IF @[i].key = k THEN [@[i] EXCEPT !.fails = n] ELSE @[i]]]

RecordPass(c, k) == SetFails(c, k, 0)

\* The third consecutive failure drops whatever template the key has by now.
RecordFailure(c, k) ==
  IF ~Has(c, k) THEN c
  ELSE IF At(c, k).fails + 1 >= MAX_CONSECUTIVE_FAILURES THEN Invalidate(c, k)
  ELSE SetFails(c, k, At(c, k).fails + 1)

-----------------------------------------------------------------------------
(***************************************************************************)
(* What pruning makes of a page, with or without hints.                     *)
(***************************************************************************)

\* extract_metadata: JSON-LD, then itemprop, then OG, then the h1 and the price of the DOM.
\* With the hint "json_ld" and JSON-LD in the page, itemprop and OG are not looked at.
Metadata(l, hint) ==
  LET cascade == ~(hint = "json_ld" /\ l.jsonld # {}) IN
  [f \in Fields |->
     IF f \in l.jsonld THEN "json_ld"
     ELSE IF cascade /\ f \in l.itemprop THEN "itemprop"
     ELSE IF cascade /\ f \in l.og THEN "og"
     ELSE IF f = "name" /\ l.h1 THEN "h1"
     ELSE IF f = "price" /\ l.dom THEN "dom"
     ELSE "none"]

Found(meta) == {f \in Fields : meta[f] # "none"}

\* infer_metadata_source: after the fact, by comparing keys.
Source(l, meta) ==
  LET overlap == l.jsonld \cap Found(meta) IN
  IF Cardinality(overlap) >= 2 \/ "name" \in overlap THEN "json_ld"
  ELSE IF "name" \notin Found(meta) THEN ""
  ELSE IF l.og # {} THEN "og" ELSE "itemprop"

\* learn_template: page links are looked for on listings only.
Learned(k, l, meta) ==
  [key |-> k, fails |-> 0, old |-> FALSE,
   data |-> [source |-> Source(l, meta), param |-> IF k \in Listings THEN l.param ELSE "none",
             main |-> l.main, aom |-> l.aom, share |-> l.share]]

\* validate_template: a source is compared when both are known; pagination never is.
Near(m, n) == m <= n + TOLERANCE /\ n <= m + TOLERANCE
Valid(d, l, meta) ==
  /\ d.main = l.main
  /\ d.source = Source(l, meta) \/ "" \in {d.source, Source(l, meta)}
  /\ Near(d.aom, l.aom) /\ Near(d.share, l.share)

\* _extract_pagination_info on a listing: nothing after the hint "none", only the hinted
\* parameter after another one.
PagesShown(b) ==
  LET l == b.look IN
  /\ b.known /\ b.key \in Listings
  /\ IF b.hit
       THEN b.data.param # "none" /\ (l.param = b.data.param \/ l.text)
       ELSE l.param # "none" \/ l.text

Hint(b) == IF b.hit THEN b.data.source ELSE ""

-----------------------------------------------------------------------------
(***************************************************************************)
(* The builds.                                                              *)
(***************************************************************************)
NoBuild == [op |-> "none", at |-> "idle", look |-> CHOOSE l \in Looks : TRUE, key |-> NoKey,
            known |-> FALSE, hit |-> FALSE, data |-> NoData, meta |-> NoMeta, pages |-> FALSE]

TemplateInit ==
  /\ entries = <<>> /\ expired = 0
  /\ stats = [created |-> 0, evictions |-> 0, invalidations |-> 0]
  /\ build = [b \in Builders |-> NoBuild]
  /\ begun = 0

\* The template under k, if it is served.
Using(r, k) ==
  [r EXCEPT !.key = k, !.hit = Served(Cache, k),
            !.data = IF Served(Cache, k) THEN At(Cache, k).data ELSE NoData]

\* The URL is known.  A live build looks the template of its URL's type up at once; the type
\* of the page itself is not known before its HTML is.
Begin(b, op, l, k) ==
  /\ build[b].at \in {"idle", "done"} /\ begun < MaxBuilds
  /\ begun' = begun + 1
  /\ LET r == [NoBuild EXCEPT !.op = op, !.at = "gather", !.look = l] IN
     IF op = "live" /\ k # NoKey
       THEN Becomes(Lookup(Cache, k)) /\ build' = [build EXCEPT ![b] = Using(r, k)]
       ELSE build' = [build EXCEPT ![b] = r] /\ UNCHANGED <<entries, stats, expired>>

\* The interactables and the HTML are there: too large a page raises, another one is
\* classified by its HTML.  Of an unknown type, a live build keeps key and template of its URL.
Classify(b, k) ==
  /\ build[b].at = "gather"
  /\ LET r == [build[b] EXCEPT !.at = "prune", !.known = (k # NoKey)] IN
     IF k # NoKey
       THEN Becomes(Lookup(Cache, k)) /\ build' = [build EXCEPT ![b] = Using(r, k)]
       ELSE build' = [build EXCEPT ![b] = r] /\ UNCHANGED <<entries, stats, expired>>
  /\ UNCHANGED begun

\* ResourceExhaustionError, the timeout of the pruning thread, a cancelled call.
Fail(b) ==
  /\ build[b].at \in {"gather", "prune"}
  /\ build' = [build EXCEPT ![b] = NoBuild]
  /\ UNCHANGED <<entries, stats, expired, begun>>

\* What a build that was pruned tells the cache: a batch nothing, a first visit what it has
\* learned, another one whether its template still fits.
Taught(b, meta) ==
  LET r == build[b] IN
  IF r.op = "batch" \/ r.key = NoKey THEN Cache
  ELSE IF ~r.hit THEN Store(Cache, Learned(r.key, r.look, meta))
  ELSE IF Valid(r.data, r.look, meta) THEN RecordPass(Cache, r.key)
  ELSE RecordFailure(Cache, r.key)

\* The pruning thread has returned, and the map is put together without another await.
\* Extraction may fail (no metadata), and pruning itself (the raw HTML is used, nothing is
\* learned).
Prune(b) ==
  /\ build[b].at = "prune"
  /\ \E meta \in {Metadata(build[b].look, Hint(build[b])), NoMeta}, pruned \in BOOLEAN :
       /\ ~pruned => meta = NoMeta
       /\ build' = [build EXCEPT ![b].at = "done", ![b].meta = meta, ![b].pages = PagesShown(build[b])]
       /\ IF pruned THEN Becomes(Taught(b, meta)) ELSE UNCHANGED <<entries, stats, expired>>
  /\ UNCHANGED begun

\* DEFAULT_TTL_SECONDS have passed since a template was made.
Age(i) ==
  /\ ~entries[i].old
  /\ entries' = [entries EXCEPT ![i].old = TRUE]
  /\ UNCHANGED <<stats, expired, build, begun>>

TemplateNext ==
  \/ \E b \in Builders :
       \/ \E op \in {"live", "batch", "content"}, l \in Looks, k \in Keys \cup {NoKey} :
            (op # "live" => k = NoKey) /\ Begin(b, op, l, k)
       \/ \E k \in Keys \cup {NoKey} : Classify(b, k)
       \/ Fail(b) \/ Prune(b)
  \/ \E i \in DOMAIN entries : Age(i)

TemplateSpec == TemplateInit /\ [][TemplateNext]_bvars

-----------------------------------------------------------------------------
(***************************************************************************)
(* What the cache promises.                                                 *)
(***************************************************************************)

\* Whatever order builds of one key learn, fail and expire in, every template created is in
\* the cache, was evicted, was invalidated or ran out of time: two first visits that overlap
\* create one template, and one dropped meanwhile is not dropped again.
TemplatesAccounted ==
  stats.created = Len(entries) + stats.evictions + stats.invalidations + expired
=============================================================================
