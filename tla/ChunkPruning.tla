---------------------------- MODULE ChunkPruning ----------------------------
(***************************************************************************)
(* core/pruning, after the AOM filter: the chunks of a page are grouped,       *)
(* judged by rules and by a schema's field patterns, scored, dropped down to a  *)
(* token budget, shown in tiers when the task is known, and merged again.      *)
(*                                                                         *)
(* A chunk is its type, tag, lengths, section and what its text and class      *)
(* match; `of` are the chunks of the page it is made of.  Metadata chunks are   *)
(* always kept and never dropped, and are the first of a page.  Percentages     *)
(* stand for the code's floats, thousandths for its scores.  The score bias      *)
(* of the budget stage is left out: a positive power keeps every order.        *)
(***************************************************************************)
EXTENDS Listing

CONSTANTS
  ChunkPages,     \* sequences of chunks, see Chunk
  PruneSchemas,   \* schema names; one without a matcher is "Generic"
  TokenBudgets,   \* max_tokens; 0 is None
  RawTokens,      \* raw_token_count of a page
  Similarities,   \* cosine similarity of a chunk and the task, in percent
  PriceLimit      \* coupang_price_count_limit

Chunk == [type : {"META", "HEADING", "TEXT", "TABLE", "LIST", "FORM", "MEDIA"}, tag : STRING, item : STRING,
          class : SUBSET {"price", "name", "card"}, says : SUBSET STRING, cjk : BOOLEAN,
          len : Nat, tok : Nat, section : Nat, depth : Nat, main : BOOLEAN, of : Seq(Nat)]

ASSUME PruneAssumption ==
  /\ RawTokens \in Nat \ {0} /\ TokenBudgets \subseteq Nat /\ Similarities \subseteq 0..100 /\ PriceLimit \in Nat
  /\ ChunkPages \subseteq Seq(Chunk) /\ \A p \in ChunkPages : \A i \in DOMAIN p : p[i].len > 0

VARIABLE prune   \* the call of prune_page: how far it is, its arguments and what it has found

-----------------------------------------------------------------------------
(***************************************************************************)
(* Pressure and alphas, in percent.                                         *)
(***************************************************************************)
Pressure(budget) == IF budget = 0 \/ budget >= RawTokens THEN 100 ELSE (100 * budget) \div RawTokens

\* compute_stage_alphas: all 1 without pressure; with it, the ends of the ranges it clamps to.
Alphas(budget) == IF Pressure(budget) = 100 THEN {[grouping |-> 100, rule |-> 100]}
                  ELSE [grouping : {40, 100}, rule : {80, 150}]
Scaled(n, alpha) == IF (n * alpha) \div 100 = 0 THEN 1 ELSE (n * alpha) \div 100

(***************************************************************************)
(* Grouping: neighbours of one section become one chunk.                    *)
(***************************************************************************)
Joined(b, c) == [b EXCEPT !.of = @ \o c.of, !.len = @ + 1 + c.len, !.tok = @ + c.tok, !.says = @ \cup c.says,
                          !.main = @ \/ c.main]
Small(c, alpha) == c.type = "TEXT" /\ c.len < 5 * alpha /\ c.len >= 20

Flushed(g) == IF g.buf = <<>> THEN g
              ELSE [out |-> Append(g.out, FoldLeft(Joined, Head(g.buf), Tail(g.buf))), buf |-> <<>>]
TextOf(buf) == FoldLeft(LAMBDA n, c : n + c.len, 0, buf)
GroupNext(alpha, g, c) ==
  IF ~Small(c, alpha) THEN [Flushed(g) EXCEPT !.out = Append(@, c)]
  ELSE LET apart == \/ g.buf # <<>> /\ (g.buf[1].section # c.section \/ g.buf[1].cjk # c.cjk)
                    \/ TextOf(g.buf) + c.len >= 7 * alpha
           h == IF apart THEN Flushed(g) ELSE g
       IN [h EXCEPT !.buf = Append(@, c)]
Grouped(chunks, alpha) ==
  Flushed(FoldLeft(LAMBDA g, c : GroupNext(alpha, g, c), [out |-> <<>>, buf |-> <<>>], chunks)).out

-----------------------------------------------------------------------------
(***************************************************************************)
(* Rules.                                                                   *)
(***************************************************************************)
Matches(c, t) == t \in c.says
LongText(c, n, alpha) == c.type = "TEXT" /\ c.len > Scaled(n, alpha)
Holding(found) == {f \in DOMAIN found : found[f]}

\* Branches for metadata chunks are left out: those are kept before a matcher is asked.
MatchProduct(c) == Holding(
  [name |-> c.tag = "h1" \/ c.item = "name" \/ "name" \in c.class,
   price |-> Matches(c, "price") \/ c.item = "price" \/ "price" \in c.class,
   product_card |-> c.class \cap {"name", "card"} # {},
   rating |-> Matches(c, "rating") \/ c.item = "ratingValue",
   review_count |-> Matches(c, "reviews") \/ c.item = "reviewCount",
   brand |-> Matches(c, "brand") \/ c.item = "brand"])
MatchNews(c, alpha) == Holding(
  [headline |-> c.tag = "h1" \/ (c.item = "headline" /\ c.tag # "h2"),
   section_heading |-> c.tag = "h2",
   date_published |-> c.tag = "time" \/ Matches(c, "date"),
   author |-> c.item = "author" \/ Matches(c, "reporter"),
   article_body |-> LongText(c, 50, alpha)])
MatchWiki(c, alpha) == Holding(
  [title |-> c.tag = "h1",
   summary |-> LongText(c, 100, alpha),
   sections |-> c.type = "HEADING" \/ LongText(c, 30, alpha)])
MatchSaas(c, alpha) == Holding(
  [name |-> c.tag = "h1",
   pricing |-> Matches(c, "pricing"),
   features |-> c.type \in {"LIST", "HEADING"} /\ Matches(c, "feature"),
   description |-> LongText(c, 50, alpha)])
MatchGovernment(c, alpha) == Holding(
  [title |-> c.tag = "h1",
   department |-> Matches(c, "department"),
   contact_info |-> Matches(c, "contact"),
   description |-> LongText(c, 30, alpha) /\ c.main,
   date |-> Matches(c, "date")])
MatchFaq(c, alpha) == Holding(
  [title |-> c.tag = "h1",
   question |-> c.tag \in {"h2", "h3", "details", "summary"} \/ Matches(c, "question"),
   answer |-> LongText(c, 30, alpha)])
MatchEvent(c, alpha) == Holding(
  [name |-> c.tag = "h1",
   date |-> c.tag = "time" \/ Matches(c, "date"),
   location |-> Matches(c, "location"),
   price |-> Matches(c, "price"),
   description |-> LongText(c, 50, alpha)])
MatchBusiness(c, alpha) == Holding(
  [name |-> c.tag = "h1",
   address |-> Matches(c, "address"),
   telephone |-> Matches(c, "phone"),
   opening_hours |-> Matches(c, "hours"),
   rating |-> Matches(c, "rating"),
   description |-> LongText(c, 50, alpha)])
Matched(c, schema, alpha) ==
  CASE schema = "Product" -> MatchProduct(c)
    [] schema = "NewsArticle" -> MatchNews(c, alpha)
    [] schema = "WikiArticle" -> MatchWiki(c, alpha)
    [] schema = "SaaSPage" -> MatchSaas(c, alpha)
    [] schema = "GovernmentPage" -> MatchGovernment(c, alpha)
    [] schema = "FAQPage" -> MatchFaq(c, alpha)
    [] schema = "Event" -> MatchEvent(c, alpha)
    [] schema = "LocalBusiness" -> MatchBusiness(c, alpha)
    [] OTHER -> {}

\* Inside <main>: headings, forms, long or telling text.
InMain(c, alpha) ==
  LET long == c.len > Scaled(50, alpha) IN
  IF c.type = "HEADING" THEN "IN_MAIN_HEADING"
  ELSE IF c.type = "TEXT" /\ long THEN "IN_MAIN_TEXT"
  ELSE IF c.type \in {"TABLE", "LIST"} /\ long THEN "IN_MAIN_STRUCTURED"
  ELSE IF c.type \in {"TEXT", "TABLE", "LIST"} /\ Matches(c, "high value") THEN "IN_MAIN_HV_SHORT"
  ELSE IF c.type \in {"TABLE", "LIST"} /\ Matches(c, "measure") THEN "IN_MAIN_HV_SHORT"
  ELSE IF c.type = "FORM" THEN "IN_MAIN_FORM"
  ELSE IF c.type = "MEDIA" /\ c.len > Scaled(10, alpha) THEN "IN_MAIN_MEDIA"
  ELSE "IN_MAIN_SHORT"
\* On a page without <main>: what may be content.
NoMain(c, alpha) ==
  IF c.type = "HEADING" THEN "KEEP_HEADING_NO_MAIN"
  ELSE IF c.type = "TEXT" /\ c.len > Scaled(30, alpha) THEN "KEEP_TEXT_NO_MAIN"
  ELSE IF c.type = "FORM" /\ c.len > Scaled(20, alpha) THEN "KEEP_FORM_NO_MAIN"
  ELSE IF c.type = "MEDIA" /\ c.len > Scaled(20, alpha) THEN "KEEP_MEDIA_NO_MAIN"
  ELSE "NO_MATCH"

_REASON_SCORES ==
  [META_ALWAYS |-> 1000, SCHEMA_MATCH |-> 900, IN_MAIN_HEADING |-> 850, IN_MAIN_HV_SHORT |-> 750,
   IN_MAIN_TEXT |-> 700, IN_MAIN_STRUCTURED |-> 700, IN_MAIN_FORM |-> 650, IN_MAIN_MEDIA |-> 600,
   KEEP_HEADING_NO_MAIN |-> 600, KEEP_TEXT_NO_MAIN |-> 550, KEEP_FORM_NO_MAIN |-> 500, KEEP_MEDIA_NO_MAIN |-> 450,
   ADJACENT_BOOST |-> 500, COUPANG_REC_FILTER |-> 0, IN_MAIN_SHORT |-> 0, NO_MATCH |-> 0]
Rejecting == {"COUPANG_REC_FILTER", "IN_MAIN_SHORT", "NO_MATCH"}

\* The first price of a product page is remembered; past the limit, a price of another section
\* outside <main> is a recommendation's.
RuleNext(schema, alpha, hasMain, s, c) ==
  LET fields == Matched(c, schema, alpha)
      priced == c.type # "META" /\ schema = "Product" /\ "price" \in fields
      count == IF priced THEN s.count + 1 ELSE s.count
      reason == IF c.type = "META" THEN "META_ALWAYS"
                ELSE IF fields # {}
                  THEN IF priced /\ s.first # 0 /\ count > PriceLimit /\ ~c.main /\ s.first # c.section
                         THEN "COUPANG_REC_FILTER" ELSE "SCHEMA_MATCH"
                ELSE IF hasMain /\ c.main THEN InMain(c, alpha)
                ELSE IF ~hasMain THEN NoMain(c, alpha)
                ELSE "NO_MATCH"
  IN [count |-> count, first |-> IF priced /\ s.first = 0 THEN c.section ELSE s.first,
      out |-> Append(s.out, [keep |-> reason \notin Rejecting, reason |-> reason, score |-> _REASON_SCORES[reason],
                             fit |-> -1, tier |-> "none", dropped |-> FALSE])]
Decided(chunks, schema, alpha) ==
  LET hasMain == \E i \in DOMAIN chunks : chunks[i].main
  IN FoldLeft(LAMBDA s, c : RuleNext(schema, alpha, hasMain, s, c), [count |-> 0, first |-> 0, out |-> <<>>], chunks).out

-----------------------------------------------------------------------------
(***************************************************************************)
(* Scores, budget, tiers.                                                   *)
(***************************************************************************)
\* Neighbours of a schema match in its section get 150 at distance one, 75 at two.  A rejected
\* chunk has 0, so that none reaches the 450 at which it would be kept.
Boosted(chunks, ds) ==
  LET boosts(i) == {b \in {<<1, 150>>, <<2, 75>>} : \E j \in {i - b[1], i + b[1]} \cap DOMAIN ds :
                      ds[j].reason = "SCHEMA_MATCH" /\ chunks[i].section # 0 /\ chunks[i].section = chunks[j].section}
      gain(i) == IF boosts(i) = {} THEN 0 ELSE IF <<1, 150>> \in boosts(i) THEN 150 ELSE 75
      better(i) == IF ds[i].score + gain(i) > 1000 THEN 1000 ELSE ds[i].score + gain(i)
      flips(i) == ~ds[i].keep /\ gain(i) > 0 /\ better(i) >= 450 /\ chunks[i].len >= 5
  IN [i \in DOMAIN ds |-> [ds[i] EXCEPT !.score = better(i), !.keep = @ \/ flips(i),
                                        !.reason = IF flips(i) THEN "ADJACENT_BOOST" ELSE @]]

Fitted(ds, sim) ==
  [i \in DOMAIN ds |-> [ds[i] EXCEPT !.fit =
     CASE ds[i].reason = "META_ALWAYS" -> 100
       [] ds[i].reason = "SCHEMA_MATCH" -> IF sim[i] > 50 THEN sim[i] ELSE 50
       [] OTHER -> sim[i]]]

\* _effective_score, in hundred-thousandths.
Effective(d) == IF d.fit < 0 THEN 100 * d.score ELSE d.score * (70 + (30 * d.fit) \div 100)

KeptTokens(chunks, ds) == SumOf([i \in DOMAIN ds |-> IF ds[i].keep THEN chunks[i].tok ELSE 0])

\* Mutant of Worse: the shallow ones go first.
Worse_Shallow(chunks, ds, i, j) ==
  \/ Effective(ds[i]) < Effective(ds[j])
  \/ Effective(ds[i]) = Effective(ds[j]) /\ chunks[i].depth < chunks[j].depth
  \/ Effective(ds[i]) = Effective(ds[j]) /\ chunks[i].depth = chunks[j].depth /\ i < j
\* The order chunks are dropped in: by score, deeper ones first, then as they stand.
Worse(chunks, ds, i, j) ==
  \/ Effective(ds[i]) < Effective(ds[j])
  \/ Effective(ds[i]) = Effective(ds[j]) /\ chunks[i].depth > chunks[j].depth
  \/ Effective(ds[i]) = Effective(ds[j]) /\ chunks[i].depth = chunks[j].depth /\ i < j
Droppable(ds) == {i \in DOMAIN ds : ds[i].keep /\ ds[i].reason # "META_ALWAYS"}
DropNext(chunks, budget, ds, i) ==
  IF KeptTokens(chunks, ds) <= budget THEN ds
  ELSE [ds EXCEPT ![i].keep = FALSE, ![i].dropped = TRUE]
Affordable(chunks, ds, budget) ==
  FoldLeft(LAMBDA s, i : DropNext(chunks, budget, s, i), ds,
           Sorted(Droppable(ds), LAMBDA i, j : Worse(chunks, ds, i, j)))

\* classify_tier, thresholds in percent of a hundredth.
Tier(d, pressure) ==
  LET a == 8000 - 15 * pressure
      b == 4000 - 15 * pressure
      fit == 100 * (IF d.fit < 0 THEN 0 ELSE d.fit)
  IN IF d.reason = "META_ALWAYS" \/ fit >= a \/ (d.reason = "SCHEMA_MATCH" /\ 4 * fit >= 3 * a) THEN "A"
     ELSE IF d.reason \in {"IN_MAIN_HEADING", "KEEP_HEADING_NO_MAIN"} \/ fit >= b THEN "B"
     ELSE "C"

\* Nothing but references would be left: all are shown whole.
Tiered(ds, pressure) ==
  LET kept == {i \in DOMAIN ds : ds[i].keep}
      none == \A i \in kept : Tier(ds[i], pressure) = "C"
  IN [i \in DOMAIN ds |-> IF i \in kept THEN [ds[i] EXCEPT !.tier = IF none THEN "A" ELSE Tier(ds[i], pressure)] ELSE ds[i]]

\* What a chunk comes out as; a reference per section stands for what the budget dropped there.
Shown(c, d) == [of |-> c.of, how |-> CASE d.tier = "B" -> "short" [] d.tier = "C" -> "reference" [] OTHER -> "whole",
                section |-> c.section, tag |-> c.tag]
References(chunks, ds) ==
  LET dropped == {i \in DOMAIN ds : ds[i].dropped}
      firsts == {i \in dropped : \A j \in dropped : chunks[j].section = chunks[i].section => i <= j}
  IN [k \in 1..Cardinality(firsts) |->
        LET i == InOrder(firsts)[k] IN
        [of |-> chunks[i].of, how |-> "reference", section |-> chunks[i].section, tag |-> chunks[i].tag]]
Selected(chunks, ds) ==
  LET kept == InOrder({i \in DOMAIN ds : ds[i].keep})
  IN [k \in DOMAIN kept |-> Shown(chunks[kept[k]], ds[kept[k]])]

\* remerge_chunks sorts by path: sections, then tags by name, then the number among a tag's
\* siblings.  Metadata has paths of its own, after the sections'.
TagRank == [div |-> 1, form |-> 2, h1 |-> 3, h2 |-> 4, p |-> 5, table |-> 6, time |-> 7, ul |-> 8, script |-> 9]
Before(x, y) ==
  LET key(z) == <<IF z.section = 0 THEN 99 ELSE z.section, TagRank[z.tag], z.of[1]>>
      at == {k \in 1..3 : key(x)[k] # key(y)[k]}
  IN \E k \in at : key(x)[k] < key(y)[k] /\ \A l \in at : k <= l
Remerged(shown) ==
  [k \in DOMAIN shown |->
     shown[CHOOSE i \in DOMAIN shown :
             Cardinality({j \in DOMAIN shown : Before(shown[j], shown[i]) \/ (~Before(shown[i], shown[j]) /\ j < i)}) = k - 1]]

-----------------------------------------------------------------------------
(***************************************************************************)
(* The call.                                                                *)
(***************************************************************************)
PruneInit == prune = [at |-> "idle", page |-> <<>>, schema |-> "none", budget |-> 0, hint |-> FALSE,
                      alpha |-> [grouping |-> 100, rule |-> 100], chunks |-> <<>>, ds |-> <<>>, result |-> <<>>]
CallPrune ==
  /\ prune.at = "idle"
  /\ \E p \in ChunkPages, schema \in PruneSchemas, budget \in TokenBudgets, hint \in BOOLEAN :
     \E alpha \in Alphas(budget) :
       prune' = [prune EXCEPT !.at = "group", !.page = [i \in DOMAIN p |-> [p[i] EXCEPT !.of = <<i>>]], !.schema = schema,
                   !.budget = budget, !.hint = hint, !.alpha = alpha]
\* An empty page, or one that cannot be parsed, raises; the page is then returned as it is.
Unparsed ==
  /\ prune.at = "group"
  /\ prune' = [prune EXCEPT !.at = "raw"]
GroupChunks ==
  /\ prune.at = "group"
  /\ LET chunks == Grouped(prune.page, prune.alpha.grouping) IN
     prune' = [prune EXCEPT !.at = IF chunks = <<>> THEN "raw" ELSE "rules", !.chunks = chunks]
PruneChunks ==
  /\ prune.at = "rules"
  /\ prune' = [prune EXCEPT !.at = "boost", !.ds = Decided(prune.chunks, prune.schema, prune.alpha.rule)]
BoostAdjacent ==
  /\ prune.at = "boost"
  /\ \E sim \in [DOMAIN prune.ds -> IF prune.hint THEN Similarities ELSE {0}] :
       LET ds == Boosted(prune.chunks, prune.ds) IN
       prune' = [prune EXCEPT !.at = "budget", !.ds = IF prune.hint THEN Fitted(ds, sim) ELSE ds]
SelectBudget ==
  /\ prune.at = "budget"
  /\ prune' = [prune EXCEPT !.at = "tiers",
       !.ds = IF prune.budget = 0 THEN @ ELSE Affordable(prune.chunks, @, prune.budget)]
ProcessTiers ==
  /\ prune.at = "tiers"
  /\ LET ds == IF prune.hint THEN Tiered(prune.ds, Pressure(prune.budget)) ELSE prune.ds
         shown == Selected(prune.chunks, ds) \o (IF prune.hint THEN References(prune.chunks, ds) ELSE <<>>)
     IN prune' = [prune EXCEPT !.ds = ds, !.at = IF shown = <<>> THEN "raw" ELSE "done", !.result = Remerged(shown)]
PruneNext == CallPrune \/ Unparsed \/ GroupChunks \/ PruneChunks \/ BoostAdjacent \/ SelectBudget \/ ProcessTiers
PruneSpec == PruneInit /\ [][PruneNext]_prune

-----------------------------------------------------------------------------
(***************************************************************************)
(* Properties.                                                              *)
(***************************************************************************)

\* apply_budget_selection "Drop lowest-score kept chunks until total tokens <= max_tokens.
\* META_ALWAYS chunks are never dropped.  Ties broken by depth (deeper nodes dropped first)"
\* (pruner.py:606): no chunk is dropped before a worse one or without need, whatever the boosts
\* and the task made of the scores and the groups of the chunks.
BudgetDropsLeast ==
  prune.at = "tiers" /\ prune.budget > 0 =>
    LET cs == prune.chunks
        ds == prune.ds
        dropped == {i \in DOMAIN ds : ds[i].dropped}
        kept == KeptTokens(cs, ds)
    IN /\ kept <= prune.budget \/ Droppable(ds) = {}
       /\ \A i \in dropped : ds[i].reason # "META_ALWAYS" /\ ~ds[i].keep
       /\ \A i \in dropped, j \in Droppable(ds) :
            \/ Effective(ds[i]) < Effective(ds[j])
            \/ Effective(ds[i]) = Effective(ds[j]) /\ cs[i].depth >= cs[j].depth
       /\ dropped # {} => \E i \in dropped : kept + cs[i].tok > prune.budget
=============================================================================
