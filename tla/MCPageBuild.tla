----------------------------- MODULE MCPageBuild -----------------------------
EXTENDS TemplateBuilds, MapAssembly, AomFilter, ChunkPruning, PrunedContext, FastFetch, PromptDiff, TLC

\* A site whose listings differ: one has page links and JSON-LD next to itemprop, the other
\* has neither and another structure.
Base == [jsonld |-> {"name"}, itemprop |-> {"price"}, og |-> {}, h1 |-> TRUE, dom |-> FALSE,
         param |-> "page", text |-> FALSE, main |-> TRUE, aom |-> 5, share |-> 5]
SomeLooks == {Base, [Base EXCEPT !.param = "none", !.jsonld = {}, !.og = {"name"}, !.aom = 9]}

Plain == [role |-> "button", acts |-> "click", region |-> "main", named |-> TRUE, says |-> {},
          tier1 |-> TRUE, guess |-> 1, size |-> 1, type |-> "other", chosen |-> FALSE, values |-> "none"]
Option == [Plain EXCEPT !.role = "combobox", !.acts = "select", !.says = {"option", "sort"}, !.guess = 2,
                        !.size = 4, !.values = "some", !.type = "size"]
SomeElements ==
  {[Plain EXCEPT !.says = {"next", "cancel"}, !.region = "complementary"],
   [Plain EXCEPT !.says = {"accept", "submit"}, !.tier1 = FALSE, !.region = "footer"],
   [Plain EXCEPT !.says = {"reject", "close"}, !.guess = 2, !.size = 2],
   [Plain EXCEPT !.says = {"cart", "next"}, !.region = "header"],
   Option, [Option EXCEPT !.chosen = TRUE, !.size = 2],
   [Plain EXCEPT !.role = "checkbox", !.acts = "toggle", !.region = "footer", !.says = {"filter"}],
   [Plain EXCEPT !.role = "row", !.named = FALSE, !.acts = "none"],
   [Plain EXCEPT !.role = "dialog", !.acts = "none", !.says = {"login"}],
   [Plain EXCEPT !.role = "dialog", !.acts = "none", !.says = {"login", "no promo"}]}

Bare == [type |-> "listing", cookie |-> "none", popup |-> FALSE, age |-> "none", blocked |-> FALSE,
         login |-> 0, stock |-> "unknown"]
SomePages ==
  {[Bare EXCEPT !.cookie = "named"], [Bare EXCEPT !.type = "search_results", !.age = "click_through"],
   [Bare EXCEPT !.type = "product_detail"],
   [Bare EXCEPT !.type = "product_detail", !.cookie = "generic", !.stock = "out_of_stock"],
   [Bare EXCEPT !.type = "form", !.login = 4], [Bare EXCEPT !.type = "error", !.blocked = TRUE]}

\* Lines of 2 to 5 characters per token, some dropped by pruning.
L == [len |-> 40, tok |-> 12, says |-> {}, chunk |-> "block", script |-> "own", dropped |-> FALSE]
SomeLines ==
  {L, [L EXCEPT !.dropped = TRUE], [L EXCEPT !.len = 9, !.tok = 4, !.says = {"error", "price", "metric"}],
   [L EXCEPT !.says = {"field", "order", "price", "pricing"}, !.script = "foreign", !.chunk = "list"],
   [L EXCEPT !.len = 20, !.tok = 5, !.chunk = "heading", !.says = {"link", "count", "label", "service"}],
   [L EXCEPT !.len = 200, !.tok = 90, !.says = {"error", "option", "date"}]}
Doc == [lines |-> <<>>, meta |-> {}, items |-> 0, priced |-> FALSE, selects |-> 0, og |-> FALSE,
        paged |-> FALSE, articles |-> 0, long |-> TRUE]
SomeDocuments ==
  {[Doc EXCEPT !.lines = ls] : ls \in UNION {[1..n -> SomeLines] : n \in 0..2} \cup [1..3 -> {l \in SomeLines : l.len # 200 /\ l.script = "own"}]}
    \cup {[Doc EXCEPT !.lines = ls, !.meta = {"title", "price", "description"}, !.og = TRUE, !.paged = TRUE, !.articles = 3]
           : ls \in [1..2 -> SomeLines]}
    \cup {[Doc EXCEPT !.lines = ls, !.items = 2, !.paged = TRUE, !.selects = 1, !.priced = TRUE, !.long = FALSE]
           : ls \in [1..2 -> SomeLines]}
SomeTypes == {"product_detail", "search_results", "listing", "article", "login", "checkout", "form", "dashboard",
              "help_faq", "settings", "error", "documentation", "landing", "unknown"}
SomeRequests == (SomeTypes \X {"Product"})
  \cup {<<"dashboard", "NewsArticle">>, <<"listing", "WikiArticle">>, <<"unknown", "VideoObject">>,
        <<"unknown", "SaaSPage">>, <<"unknown", "GovernmentPage">>}

\* Documents of three elements below <body> from nine kinds, of four from three kinds; an
\* anchor shows a price, so that a block that holds one is a link list.
Tag(t) == [up |-> 0, tag |-> t, role |-> "", hidden |-> FALSE, labelled |-> FALSE, noise |-> 0, content |-> 0,
           text |-> 10, tail |-> 2, markup |-> 10, says |-> {}]
Anchor == [Tag("a") EXCEPT !.text = 60, !.says = {"price"}]
Hidden == [Tag("div") EXCEPT !.hidden = TRUE]
SomeKinds == {Tag("p"), Hidden, Tag("nav"), Tag("main"), [Tag("div") EXCEPT !.text = 1], Anchor,
              [Tag("input") EXCEPT !.text = 0], Tag("aside"), [Tag("p") EXCEPT !.noise = 2, !.says = {"rating"}]}
\* Parents of elements in document order: an element's parent is the one before it or encloses it.
Shapes(n) == {f \in [1..n -> 2..(n + 1)] :
                \A i \in 1..n : f[i] <= i + 1 /\ \A j \in 1..(i - 1) : f[i] < j + 2 => f[j] >= f[i]}
DocumentsOf(n, kinds) ==
  {<<Tag("html"), [Tag("body") EXCEPT !.up = 1]>> \o [i \in 1..n |-> [e[i] EXCEPT !.up = f[i]]] :
     e \in [1..n -> kinds], f \in Shapes(n)}
SomeHtml == DocumentsOf(3, SomeKinds) \cup DocumentsOf(4, {Tag("div"), Anchor, Hidden})

C == [type |-> "TEXT", tag |-> "p", item |-> "", class |-> {}, says |-> {}, cjk |-> FALSE,
      len |-> 120, tok |-> 30, section |-> 1, depth |-> 4, main |-> FALSE, of |-> <<>>]
SomeChunks ==
  {C, [C EXCEPT !.section = 2, !.tag = "div", !.says = {"price", "phone"}, !.len = 12, !.tok = 5],
   [C EXCEPT !.len = 450, !.tok = 90, !.main = TRUE, !.cjk = TRUE, !.says = {"date", "question"}],
   [C EXCEPT !.type = "HEADING", !.tag = "h2", !.len = 15, !.tok = 4, !.depth = 3, !.says = {"feature"}],
   [C EXCEPT !.type = "LIST", !.tag = "ul", !.says = {"high value"}, !.main = TRUE, !.len = 30, !.tok = 20],
   [C EXCEPT !.type = "FORM", !.tag = "form", !.section = 2, !.depth = 3]}
JsonLd == [C EXCEPT !.type = "META", !.tag = "script", !.section = 0, !.tok = 40]
SomeChunkPages == UNION {[1..n -> SomeChunks] : n \in 0..2} \cup [1..3 -> {c \in SomeChunks : c.section = 1 /\ c.type # "LIST"}]
                     \cup {<<JsonLd>> \o p : p \in [1..2 -> SomeChunks]}

CONSTANT Parts    \* which of the parts a run goes through
VARIABLE part
CONSTANTS i1, i2
SomeOptions == {<<i1, FALSE>>, <<i2, TRUE>>}
SomeInstalls == {{}, {"curl_cffi", "httpx"}}

X == [is |-> "x", how |-> "plain"]
SomeLists == {<<>>, <<X>>, <<[X EXCEPT !.how = "via"]>>, <<X, [X EXCEPT !.is = "y"]>>}

mine == <<part, bvars, avars, fvars, prune, context, ffvars, dvars>>
FirstAnswer == [ecommerce |-> "none", actions |-> <<>>, navigation |-> "none", info |-> "none",
                images |-> "none", marked |-> FALSE, notices |-> "none"]
BuildInit ==
  /\ part \in Parts
  /\ TemplateInit /\ AssemblyInit /\ PruneInit /\ ContextInit
  /\ FastInit /\ (part # "fetch" => transport = [via \in {"server", "retriever"} |-> "urllib"])
  /\ DiffInit /\ (part # "diff" => answered = FirstAnswer)
  /\ IF part = "filter" THEN AomInit ELSE page = <<>> /\ tree = <<>> /\ filter = [at |-> "none"]
BuildNext ==
  /\ UNCHANGED part
  /\ \/ part = "templates" /\ TemplateNext /\ UNCHANGED <<avars, fvars, prune, context, ffvars, dvars>>
     \/ part = "assembly" /\ AssemblyNext /\ UNCHANGED <<bvars, fvars, prune, context, ffvars, dvars>>
     \/ part = "filter" /\ AomNext /\ UNCHANGED <<bvars, avars, prune, context, ffvars, dvars>>
     \/ part = "chunks" /\ PruneNext /\ UNCHANGED <<bvars, avars, fvars, context, ffvars, dvars>>
     \/ part = "context" /\ ContextNext /\ UNCHANGED <<bvars, avars, fvars, prune, ffvars, dvars>>
     \/ part = "fetch" /\ FastNext /\ UNCHANGED <<bvars, avars, fvars, prune, context, dvars>>
     \/ part = "diff" /\ DiffNext /\ UNCHANGED <<bvars, avars, fvars, prune, context, ffvars>>
BuildSpec == BuildInit /\ [][BuildNext]_mine

\* Whose cookies somebody has, is to send or has sent.
Bags == {jar[j] : j \in Jars} \cup {fetch[f].carry : f \in Fetches}
          \cup {remembered[k][s] : k \in {"curl_cffi", "httpx"}, s \in Sites}
Remembered == UNION {{b[n] : n \in CookieNames} : b \in Bags}
                \cup {c.by : c \in UNION {fetch[f].sent : f \in Fetches}} \cup {merges[i] : i \in DOMAIN merges}

\* What a build that is done has found makes no difference to the next one, nor does what is
\* left of a fetch whose cookies nobody has.
BuildView == <<part, avars, fvars, prune, context, transport, curl, remembered, jar, merges, dvars,
               entries, stats, expired, begun,
               [b \in Builders |-> IF build[b].at = "done" THEN NoBuild ELSE build[b]],
               [f \in Fetches |-> IF fetch[f].at = "done" /\ f \notin Remembered THEN NoOne ELSE fetch[f]]>>
BuildSymmetry == Permutations(Builders) \cup Permutations(Jars)
=============================================================================
