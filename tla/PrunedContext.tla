--------------------------- MODULE PrunedContext ---------------------------
(***************************************************************************)
(* core/pruned_context_builder.py: the text of a page map.  The lines of the  *)
(* pruned page are compressed by page type or schema to a token budget; the   *)
(* pagination line is appended; and when little is left, the minimum content  *)
(* guarantee (MCG) rebuilds the text from OG data, pruned and raw lines.      *)
(*                                                                         *)
(* A line is its length, its tokens, the terms it contains, the chunk it is    *)
(* (if pruning made one of it), how much of it is in a foreign script and      *)
(* whether pruning dropped it.  What a compressor writes is a list of parts,   *)
(* lines cut to a length; labels and numbering are left out.  Regular          *)
(* expressions over a line are terms it tells.                               *)
(***************************************************************************)
EXTENDS Listing

CONSTANTS
  Documents,     \* pages, see Document
  Requests,      \* page types and schemas tried, as pairs
  MaxTokens      \* max_tokens

Terms == {"order", "setting", "question", "code", "metric", "error", "required", "field", "label",
          "price", "was", "count", "filter", "listing", "rating", "option", "discount", "promotion",
          "date", "pricing", "feature", "department", "contact", "service", "article", "link"}
Line == [len : Nat \ {0}, tok : Nat \ {0}, says : SUBSET Terms,
         chunk : {"none", "heading", "block", "list"}, script : {"own", "mixed", "foreign"},
         dropped : BOOLEAN]
MetaFields == {"title", "price", "rating", "author", "description"}
Document == [lines : Seq(Line), meta : SUBSET MetaFields,
             items : Nat,        \* products of a JSON-LD ItemList
             priced : BOOLEAN,   \* an element of a price class
             selects : Nat,      \* <select> elements with options
             og : BOOLEAN,       \* OG title and description
             paged : BOOLEAN,    \* the raw HTML shows pagination
             articles : Nat,     \* <article> elements
             long : BOOLEAN]     \* more than 500 characters of raw HTML

ASSUME ContextAssumption ==
  /\ Documents \subseteq Document /\ MaxTokens \in Nat \ {0}

VARIABLE context   \* a call of build_pruned_context: how far it is, and what it has found

-----------------------------------------------------------------------------
(***************************************************************************)
(* Lines and budgets.                                                       *)
(***************************************************************************)
Tells(l, t) == t \in l.says
Picked(lines, places) == LET order == InOrder(places) IN [k \in DOMAIN order |-> lines[order[k]]]
Only(lines, Is(_)) == Picked(lines, {i \in DOMAIN lines : Is(lines[i])})
First(lines, n) == SubSeq(lines, 1, IF Len(lines) < n THEN Len(lines) ELSE n)
Cut(l, n) == IF l.len <= n THEN l ELSE [l EXCEPT !.len = n, !.tok = 1 + (@ * n) \div l.len]
CutAll(lines, n) == [i \in DOMAIN lines |-> Cut(lines[i], n)]
Cost(l) == l.len + 1
Chars(lines) == SumOf([i \in DOMAIN lines |-> Cost(lines[i])])
Tokens(lines) == SumOf([i \in DOMAIN lines |-> lines[i].tok])

\* 1.5 characters per token, the least that is assumed.
Floor(tokens, percent) == (tokens * percent * 15) \div 1000

\* _calibrate_chars_per_token of a sample, times the tokens: the budget in characters, of
\* which `percent` are used.
Budget(lines, min, cut, tokens, percent) ==
  LET sample == CutAll(First(Only(lines, LAMBDA l : l.len >= min), 20), cut)
      floor == Floor(tokens, percent)
      scaled == (tokens * percent * (Chars(sample) - 1)) \div (100 * Tokens(sample))
  IN IF sample = <<>> THEN (tokens * percent * 4) \div 100
     ELSE IF scaled > floor THEN scaled ELSE floor

\* The loops over lines stop at the first one that does not fit any more.
Taken(lines, room) ==
  First(lines, CHOOSE n \in 0..Len(lines) :
    /\ n = 0 \/ Chars(First(lines, n)) <= room
    /\ n = Len(lines) \/ Chars(First(lines, n + 1)) > room)

\* Mutant of Truncated: cut at the first line that exceeds the budget, not inside it.
Truncated_Whole(parts) ==
  First(parts, CHOOSE k \in 0..Len(parts) :
    \/ k = Len(parts) /\ Tokens(parts) <= MaxTokens
    \/ k > 0 /\ Tokens(First(parts, k)) > MaxTokens /\ Tokens(First(parts, k - 1)) <= MaxTokens)

\* _truncate_to_tokens, where the result is too long.
Truncated(parts) ==
  LET n == CHOOSE k \in 0..Len(parts) :
             /\ Tokens(First(parts, k)) <= MaxTokens
             /\ k = Len(parts) \/ Tokens(First(parts, k + 1)) > MaxTokens
      left == MaxTokens - Tokens(First(parts, n))
  IN IF n = Len(parts) THEN parts
     ELSE IF left = 0 THEN First(parts, n)
     ELSE Append(First(parts, n), [parts[n + 1] EXCEPT !.tok = left, !.len = 1])

\* A field of the structured metadata, OG data and the pagination line as parts.
Made(n) == [len |-> 5 * n, tok |-> n, says |-> {}, chunk |-> "none", script |-> "own", dropped |-> FALSE]
Meta(d, fields) == [i \in 1..Cardinality(d.meta \cap fields) |-> Made(4)]
PagesLine == Made(6)

\* filter_lines: short foreign lines go, mixed ones are tagged and stay.
Passthrough(l) == l.len <= 5 \/ Tells(l, "link")
FilterLines(lines) == Only(lines, LAMBDA l : Passthrough(l) \/ l.len >= 50 \/ l.script # "foreign")

-----------------------------------------------------------------------------
(***************************************************************************)
(* The compressors.  Each says what it reads of the pruned lines `ls`: parts   *)
(* that are written whatever the budget, then sections, each of which is        *)
(* written until its first line that does not fit.                            *)
(***************************************************************************)
Reading(head, sections) == [head |-> head, sections |-> sections]
Default(ls) == <<CutAll(Only(ls, LAMBDA l : l.len >= 5), 300)>>
Kept(keeps, cut) == Reading(<<>>, <<CutAll(keeps, cut)>>)

\* Compressors that state all errors first, whatever the budget, and then fields.
ErrorsThen(errors, fields) == Reading(CutAll(errors, 200), <<CutAll(fields, 200)>>)

Login(ls) == ErrorsThen(Only(ls, LAMBDA l : Tells(l, "error")), Only(ls, LAMBDA l : Tells(l, "field")))
Form(ls) == ErrorsThen(Only(ls, LAMBDA l : Tells(l, "error") \/ Tells(l, "required")),
                       Only(ls, LAMBDA l : Tells(l, "label")))
Checkout(ls) == Kept(Only(ls, LAMBDA l : Tells(l, "order")), 300)
HelpFaq(ls) == Kept(Only(ls, LAMBDA l : l.len >= 5 /\ (Tells(l, "question") \/ l.len < 120)), 200)
Settings(ls) == Kept(Only(ls, LAMBDA l : l.len >= 3 /\ Tells(l, "setting")), 200)
ErrorPage(ls) == Kept(Only(ls, LAMBDA l : l.len >= 3), 200)
Documentation(ls) == Kept(Only(ls, LAMBDA l : l.len >= 3 /\ (l.len < 80 \/ Tells(l, "code"))), 200)
Landing(ls) == Kept(Only(ls, LAMBDA l : l.len \in 5..99), 200)

\* Headlines of articles, else linked headings, else any heading of the raw page; without a
\* parsed page only the articles are counted.
IsNewsPortal(d, ls, schema, parsed) ==
  \/ schema \in {"NewsArticle", "Article", "ReportageNewsArticle"}
  \/ d.articles >= 3
  \/ parsed /\ Len(Only(ls, LAMBDA l : l.chunk = "heading" /\ Tells(l, "link"))) >= 3
Headlines(d, ls, parsed) ==
  LET heading(l, t) == parsed /\ l.chunk = "heading" /\ Tells(l, t) /\ l.len >= 5
      within == Only(ls, LAMBDA l : heading(l, "article"))
      linked == Only(ls, LAMBDA l : heading(l, "link"))
  IN IF within # <<>> THEN within
     ELSE IF linked # <<>> THEN linked
     ELSE Only(d.lines, LAMBDA l : l.chunk = "heading" /\ l.len >= 10)
NewsPortal(d, ls, parsed) == Kept(Headlines(d, ls, parsed), 200)
Dashboard(ls) == Kept(Only(ls, LAMBDA l : l.len >= 5 /\ (l.len < 80 \/ Tells(l, "metric"))), 300)

\* Article and wiki with chunks: headings, and after each the first blocks; blocks before the
\* first heading are left out.
Outline(chunks, blocks) ==
  LET since(i) == {j \in 1..i : chunks[j].chunk = "heading"}
      last(i) == CHOOSE j \in since(i) : \A k \in since(i) : k <= j
      nth(i) == Cardinality({j \in last(i)..i : chunks[j].chunk = "block"})
      kept == Picked(chunks, {i \in DOMAIN chunks :
                 \/ chunks[i].chunk = "heading"
                 \/ chunks[i].chunk = "block" /\ since(i) # {} /\ nth(i) <= blocks})
  IN [k \in DOMAIN kept |-> IF kept[k].chunk = "block" THEN Cut(kept[k], 300) ELSE kept[k]]

\* The title is the first line of more than ten characters; then dates and long lines.
ArticleLines(ls, titled) ==
  LET title == {i \in DOMAIN ls : ls[i].len > 10}
      first == IF titled \/ title = {} THEN 0 ELSE CHOOSE i \in title : \A j \in title : i <= j
      after(i) == titled \/ (first # 0 /\ i > first)
      told(i) == ls[i].len >= 3 /\ (Tells(ls[i], "date") \/ (after(i) /\ ls[i].len > 30))
  IN Picked([i \in DOMAIN ls |-> IF i = first THEN ls[i] ELSE Cut(ls[i], 300)],
            {i \in DOMAIN ls : i = first \/ told(i)})

Article(d, ls, chunks) ==
  LET head == Meta(d, {"title", "author"})
  IN Reading(head, <<IF chunks # <<>> THEN Outline(chunks, 3) ELSE ArticleLines(ls, head # <<>>)>>)

\* Section after section, each until its first line that does not fit.
Sections(reading, budget) ==
  FoldLeft(LAMBDA got, s : got \o Taken(s, budget - Chars(got)), reading.head, reading.sections)

\* Without chunks: two long lines as a summary, short lines as headings, and after a heading one
\* long line.  A summary line that does not fit ends the reading of the page.
WikiSections(ls, room) ==
  LET long(l) == l.len >= 80
      summary == First(Only(ls, LAMBDA l : long(l)), 2)
      taken == Taken(CutAll(summary, 300), room)
      nth(i) == Cardinality({j \in 1..i : long(ls[j])})
      read == {i \in DOMAIN ls : Len(taken) = Len(summary) \/ nth(i) <= Len(taken)}
      candidate(i) == i \in read /\ long(ls[i]) /\ nth(i) > 2 /\ ls[i].len <= 300
      body(i) == candidate(i) /\ \E j \in 1..i : /\ ls[j].len \in 5..79
                                                /\ \A k \in j..(i - 1) : ~candidate(k)
  IN <<taken, First(Picked(ls, {i \in read : ls[i].len \in 5..79}), 10),
       First(Picked(ls, {i \in DOMAIN ls : body(i)}), 5)>>

Wiki(d, ls, chunks, budget) ==
  LET head == Meta(d, {"title", "description"})
  IN Reading(head, IF chunks # <<>> THEN <<Outline(chunks, 2)>> ELSE WikiSections(ls, budget - Chars(head)))

\* The description is cut to what the budget leaves.
Video(d, budget) ==
  LET head == Meta(d, {"title", "author", "rating"})
      room == budget - Chars(head)
  IN Reading(head \o (IF "description" \in d.meta /\ room > 50 THEN <<Cut(Made(30), room)>> ELSE <<>>), <<>>)

\* The title a page without metadata gets: its first line of more than ten characters that
\* fits; longer ones before it are passed over.
Titled(ls, parts, budget) ==
  LET fit == {i \in DOMAIN ls : ls[i].len > 10 /\ Cost(ls[i]) <= budget}
      at == IF parts # <<>> THEN 0 ELSE IF fit = {} THEN Len(ls) + 1 ELSE CHOOSE i \in fit : \A j \in fit : i <= j
  IN [parts |-> IF at \in fit THEN <<ls[at]>> ELSE parts,
      rest |-> Only(SubSeq(ls, 1, at - 1), LAMBDA l : l.len \in 5..10)
                 \o Only(SubSeq(ls, at + 1, Len(ls)), LAMBDA l : l.len >= 5)]

\* The lines of `rest` whose first term among `terms` is t.
OfTerm(rest, terms, t) ==
  LET n == CHOOSE i \in DOMAIN terms : terms[i] = t IN
  CutAll(Only(rest, LAMBDA l : Tells(l, t) /\ \A i \in 1..(n - 1) : ~Tells(l, terms[i])), 200)
OfNone(rest, terms, min) == Only(rest, LAMBDA l : l.len >= min /\ \A i \in DOMAIN terms : ~Tells(l, terms[i]))

Saas(d, ls, budget) ==
  LET t == Titled(ls, Meta(d, {"title", "description"}), budget)
      terms == <<"pricing", "feature">>
  IN Reading(t.parts,
       <<First(OfTerm(t.rest, terms, "pricing"), 5), First(OfTerm(t.rest, terms, "feature"), 5),
         CutAll(First(OfNone(t.rest, terms, 50), 3), 200)>>)

\* One line that does not fit ends the four sections; the body comes all the same.
Government(d, ls, budget) ==
  LET t == Titled(ls, Meta(d, {"title", "description"}), budget)
      terms == <<"department", "date", "contact", "service">>
  IN Reading(t.parts,
       <<First(OfTerm(t.rest, terms, "department"), 3) \o First(OfTerm(t.rest, terms, "date"), 2)
           \o First(OfTerm(t.rest, terms, "contact"), 3) \o First(OfTerm(t.rest, terms, "service"), 5),
         CutAll(First(OfNone(t.rest, terms, 30), 3), 300)>>)

\* Metadata first; from the lines only what it lacks, each kind up to a number; a price of the
\* markup when there is no other.  There is no fallback and no budget but the final cut.
Product(d, lines) ==
  LET ls == Only(FilterLines(lines), LAMBDA l : l.len >= 2)
      has(f) == f \in d.meta
      prices == Only(ls, LAMBDA l : Tells(l, "price") /\ (has("price") => Tells(l, "was")))
      rest == Only(ls, LAMBDA l : ~Tells(l, "price") /\ ~Tells(l, "promotion"))
      terms == IF has("rating") THEN <<"discount", "option">> ELSE <<"discount", "rating", "option">>
      plain == OfNone(rest, terms, 2)
      titles == {i \in DOMAIN plain : ~has("title") /\ plain[i].len \in 11..199}
      title == IF titles = {} THEN 0 ELSE CHOOSE i \in titles : \A j \in titles : i <= j
      options == OfTerm(rest, terms, "option")
  IN Reading(
       Meta(d, {"title", "price", "rating"})
         \o (IF title = 0 THEN <<>> ELSE <<plain[title]>>)
         \o First(prices, IF has("price") THEN 1 ELSE 5)
         \o (IF has("rating") THEN <<>> ELSE First(OfTerm(rest, terms, "rating"), 2))
         \o First(OfTerm(rest, terms, "discount"), 1)
         \o First(IF options # <<>> THEN options ELSE [i \in 1..d.selects |-> Made(3)], 5)
         \o CutAll(Only(First(SubSeq(plain, 1, title - 1) \o SubSeq(plain, title + 1, Len(plain)), 10),
                        LAMBDA l : l.len > 8), 200)
         \o (IF ~has("price") /\ prices = <<>> /\ d.priced THEN <<Made(2)>> ELSE <<>>), <<>>)

\* Products of a list, from metadata, from a grid of at least three, from list chunks, from
\* names followed by prices.  (Grouping chunks by parent is left out.)
GridCards(ls) == LET n == Len(Only(ls, LAMBDA l : Tells(l, "price") /\ l.chunk = "list")) IN IF n >= 3 THEN n ELSE 0
ChunkCards(chunks) ==
  LET listed == Len(Only(chunks, LAMBDA l : l.chunk = "list" /\ Tells(l, "price") /\ l.len >= 5))
      priced(i) == Tells(chunks[i], "price")
      pairs == {i \in DOMAIN chunks : ~priced(i) /\ chunks[i].len \in 4..199 /\ i + 1 \in DOMAIN chunks /\ priced(i + 1)}
      alone == {i \in DOMAIN chunks : priced(i) /\ i - 1 \notin pairs /\ chunks[i].len > 15}
  IN IF listed > 0 THEN listed ELSE Cardinality(pairs \cup alone)
Cards(d, ls, chunks, parsed) ==
  IF d.items > 0 THEN d.items
  ELSE IF parsed /\ GridCards(ls) > 0 THEN GridCards(ls) ELSE ChunkCards(chunks)

\* A heading, counts up to three lines of status, then at most 15 cards and what is left.
CardOutput(ls, n) ==
  LET head == First(Only(First(ls, 15), LAMBDA l : Tells(l, "listing") \/ Tells(l, "count")), 1)
      status == Only(First(ls, 20), LAMBDA l : (Tells(l, "count") \/ Tells(l, "filter")) /\ head # <<l>>)
  IN Reading(CutAll(head \o First(status, 3 - Len(head)), 150)
               \o [i \in 1..(IF n > 15 THEN 16 ELSE n) |-> Made(5)], <<>>)

\* Without cards: lines of three kinds, the first of which is `head`.
ListLines(lines, head) ==
  LET ls == Only(FilterLines(lines), LAMBDA l : l.len >= 2)
      terms == <<head, "price", "filter">>
  IN Reading(First(OfTerm(ls, terms, head), 2) \o CutAll(First(OfTerm(ls, terms, "price"), 10), 150)
               \o CutAll(First(OfTerm(ls, terms, "filter"), 3), 100), <<>>)
Cardable(ls, n, head) == IF n > 0 THEN CardOutput(ls, n) ELSE ListLines(ls, head)

\* Two schemas come before the page type, two after it.
Compressor(d, type, schema, ls, parsed) ==
  IF schema = "WikiArticle" THEN "wiki"
  ELSE IF schema = "VideoObject" THEN "video"
  ELSE IF type = "dashboard" THEN IF IsNewsPortal(d, ls, schema, parsed) THEN "news_portal" ELSE type
  ELSE IF type = "news" THEN "article"
  ELSE IF type \in {"product_detail", "search_results", "listing", "article", "login", "checkout", "form",
                    "help_faq", "settings", "error", "documentation", "landing", "video"} THEN type
  ELSE IF schema = "SaaSPage" THEN "saas"
  ELSE IF schema = "GovernmentPage" THEN "government"
  ELSE "default"

\* The sample each takes for its budget: lines from `min` characters, cut.
Sampled(name) ==
  [min |-> CASE name = "checkout" -> 1 [] name \in {"settings", "error", "documentation"} -> 3 [] OTHER -> 5,
   cut |-> IF name \in {"login", "form", "help_faq", "settings", "error", "documentation", "landing", "news_portal"}
             THEN 200 ELSE 300,
   percent |-> IF name = "video" THEN 85 ELSE 95]

Compressed(name, d, ls, chunks, parsed, budget) ==
  CASE name = "wiki" -> Wiki(d, ls, chunks, budget)
    [] name = "video" -> Video(d, budget)
    [] name = "product_detail" -> Product(d, ls)
    [] name = "search_results" -> Cardable(ls, Cards(d, ls, chunks, parsed), "count")
    [] name = "listing" -> Cardable(ls, Cards(d, ls, chunks, parsed), "listing")
    [] name = "article" -> Article(d, ls, chunks)
    [] name = "login" -> Login(ls)
    [] name = "checkout" -> Checkout(ls)
    [] name = "form" -> Form(ls)
    [] name = "dashboard" -> Dashboard(ls)
    [] name = "news_portal" -> NewsPortal(d, ls, parsed)
    [] name = "help_faq" -> HelpFaq(ls)
    [] name = "settings" -> Settings(ls)
    [] name = "error" -> ErrorPage(ls)
    [] name = "documentation" -> Documentation(ls)
    [] name = "landing" -> Landing(ls)
    [] name = "saas" -> Saas(d, ls, budget)
    [] name = "government" -> Government(d, ls, budget)
    [] name = "default" -> Reading(<<>>, Default(ls))

-----------------------------------------------------------------------------
(***************************************************************************)
(* The minimum content guarantee, and the whole call.                       *)
(***************************************************************************)
MCG_MIN_TOKENS == 10
MCG_SKIP_TYPES == {"login", "error", "form", "settings"}

\* Long lines are added until half of the budget is reached.
Topped(parts, lines) ==
  LET budget == Budget(lines, 10, 300, MaxTokens \div 2, 100)
      step(s, l) == LET p == IF l.len > 10 THEN Append(s.parts, l) ELSE s.parts IN
                    IF s.full THEN s ELSE [parts |-> p, full |-> Chars(p) >= budget]
  IN IF Tokens(parts) >= MCG_MIN_TOKENS THEN parts
     ELSE FoldLeft(step, [parts |-> parts, full |-> FALSE], lines).parts

\* Mutant of PagesAsked: the raw page is not asked.
PagesAsked_Pruned(ls, raw) == <<ls>>

\* OG data, then lines of the pruned page, then of the raw one.
PagesAsked(ls, raw) == <<ls, raw>>
Minimum(d, ls, og) == FoldLeft(Topped, IF og /\ d.og THEN <<Made(2), Made(4)>> ELSE <<>>, PagesAsked(ls, d.lines))

\* Pruning fails: the raw page is used, with neither chunks nor metadata.  Metadata extraction
\* fails: the page goes without.
ContextInit == context = [at |-> "idle", doc |-> CHOOSE d \in Documents : TRUE, type |-> "none", pruned |-> TRUE,
                          name |-> "none", lines |-> <<>>, budget |-> 0, paged |-> FALSE, parts |-> <<>>]
CallBuild ==
  /\ context.at = "idle"
  /\ \E d \in Documents, r \in Requests, pruned, extracted \in BOOLEAN :
       LET ls == IF pruned THEN Only(d.lines, LAMBDA l : ~l.dropped) ELSE d.lines
           name == Compressor(d, r[1], r[2], ls, pruned)
       IN context' = [context EXCEPT !.at = "read", !.type = r[1], !.pruned = pruned, !.name = name, !.lines = ls,
                        !.doc = IF pruned /\ extracted THEN d ELSE [d EXCEPT !.meta = {}, !.items = 0],
                        !.budget = Budget(ls, Sampled(name).min, Sampled(name).cut, MaxTokens, Sampled(name).percent)]
ReadLines ==
  /\ context.at = "read"
  /\ LET ls == context.lines
         chunks == IF context.pruned THEN Only(ls, LAMBDA l : l.chunk # "none") ELSE <<>>
     IN context' = [context EXCEPT !.at = "cut",
          !.parts = Sections(Compressed(context.name, context.doc, ls, chunks, context.pruned, context.budget), context.budget)]

\* Nothing of its kind found: all but the product, list and search compressors take any lines.
NothingFound ==
  context.parts = <<>> /\ context.name \notin {"product_detail", "search_results", "listing", "default"}
Fallback ==
  /\ context.at = "cut" /\ NothingFound
  /\ context' = [context EXCEPT !.name = "default",
       !.parts = Sections(Reading(<<>>, Default(context.lines)), Budget(context.lines, 5, 300, MaxTokens, 95))]
CutToBudget ==
  /\ context.at = "cut" /\ ~NothingFound
  /\ LET paged == context.type \in {"listing", "search_results"} /\ context.doc.paged
         text == Truncated(context.parts)
     IN context' = [context EXCEPT !.at = "check", !.paged = paged,
                      !.parts = IF paged THEN Append(text, PagesLine) ELSE text]
GuaranteeMinimum ==
  /\ context.at = "check"
  /\ LET short == /\ Tokens(context.parts) < MCG_MIN_TOKENS
                  /\ context.type \notin MCG_SKIP_TYPES
                  /\ context.doc.long
     IN context' = [context EXCEPT !.at = "done", !.paged = @ /\ ~short,
                      !.parts = IF short THEN Truncated(Minimum(context.doc, context.lines, context.pruned)) ELSE @]
ContextNext == CallBuild \/ ReadLines \/ Fallback \/ CutToBudget \/ GuaranteeMinimum
ContextSpec == ContextInit /\ [][ContextNext]_context

-----------------------------------------------------------------------------
(***************************************************************************)
(* What the text promises.                                                  *)
(***************************************************************************)

\* Tokens in lines of more than ten characters.
Substance(lines) == SumOf([i \in DOMAIN lines |-> IF lines[i].len > 10 THEN lines[i].tok ELSE 0])

\* Lines of this kind reach half of the budget, where the guarantee stops, with ten tokens or
\* more: 7 characters per token at most where max_tokens is 100, 112 where it is 1500.
HalfBudget == Floor(MaxTokens \div 2, 100)
Dense(l) == MCG_MIN_TOKENS * Cost(l) <= HalfBudget * l.tok

\* A page that is not tiny, of a type that is expected to have content, comes out with ten
\* tokens if its own lines (raw, of more than ten characters) have as many: no compressor that
\* finds nothing of its kind, no pruning that drops everything and no failure leaves the agent
\* an empty page.  The text must be text, of which half of the budget holds ten tokens, and
\* the budget one that OG data alone does not half fill.
MinimumContent ==
  context.at = "done" /\ context.type \notin MCG_SKIP_TYPES /\ context.doc.long
      /\ MaxTokens >= 80 /\ (\A i \in DOMAIN context.doc.lines : Dense(context.doc.lines[i]))
      /\ Substance(context.doc.lines) >= MCG_MIN_TOKENS
    => Tokens(context.parts) >= MCG_MIN_TOKENS

\* The text stays within its budget, except for the pagination line, which is appended after
\* the cut; estimates of characters per token that are wrong for a page do not matter.
ContextWithinBudget ==
  context.at = "done" =>
  Tokens(context.parts) <= MaxTokens + (IF context.paged THEN PagesLine.tok ELSE 0)
=============================================================================
