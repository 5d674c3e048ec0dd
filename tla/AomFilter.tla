----------------------------- MODULE AomFilter -----------------------------
(***************************************************************************)
(* core/pruning/aom_filter.py: elements of a page that are landmarks, hidden, *)
(* noise or mostly links are taken out of the document, and link lists that    *)
(* hold a price, a heading or a rating are put back when little text is left   *)
(* or the page is a product page.                                             *)
(*                                                                         *)
(* A page is a sequence of elements in document order, each with its parent's  *)
(* place.  Elements 1 and 2 are <html> and <body>.  Taking an element out       *)
(* leaves the subtree under it whole, so that the tree is a forest afterwards;  *)
(* lxml numbers an element among its siblings of the same tag when it is asked  *)
(* for its path, and starts the path at the root of the subtree it is in.      *)
(***************************************************************************)
EXTENDS Listing, FiniteSetsExt

CONSTANTS
  HtmlPages,      \* pages tried, see Page
  PageSchemas,    \* schema names; "Product" and "GovernmentPage" make a difference
  Threshold,      \* 100 * threshold, 50 * alphas.aom
  TextDensity     \* enable_text_density_signal, off by default

Signals == {"price", "rating", "reviews"}
DomElement == [up : Nat, tag : STRING,
            role : STRING,                              \* "" when it has none
            hidden : BOOLEAN,                           \* aria-hidden, or by an inline style
            labelled : BOOLEAN, noise : Nat, content : Nat,   \* patterns its class and id match
            text : Nat, tail : Nat, markup : Nat,       \* characters
            says : SUBSET Signals]                      \* what its own text shows

ASSUME AomAssumption ==
  /\ Threshold \in 40..57 /\ TextDensity \in BOOLEAN
  /\ \A d \in HtmlPages :
       /\ d \in Seq(DomElement) /\ Len(d) >= 2 /\ d[1].tag = "html" /\ d[2].tag = "body"
       /\ d[1].up = 0 /\ \A n \in 2..Len(d) : d[n].up \in 1..(n - 1)

VARIABLES
  page,       \* the document, its schema and the elements found below the threshold
  tree,       \* the document as it is now: each element's parent, 0 for a root, and children
  filter      \* what the call has done: see AomInit
fvars == <<page, tree, filter>>

-----------------------------------------------------------------------------
(***************************************************************************)
(* The tree.                                                                *)
(***************************************************************************)
Nodes(d) == 1..Len(d)
Parsed(d) == [up |-> [n \in Nodes(d) |-> d[n].up],
              kids |-> [n \in Nodes(d) |-> InOrder({m \in Nodes(d) : d[m].up = n})]]
PlaceOf(x, s) == CHOOSE i \in DOMAIN s : s[i] = x
LineOf(t, m) ==   \* the element and its ancestors, the root first
  LET line[n \in 0..m] == IF n = 0 THEN <<>> ELSE Append(line[t.up[n]], n) IN line[m]
Ancestors(t, m) == ToSet(LineOf(t, t.up[m]))
Under(t, n) == {m \in DOMAIN t.up : n \in Ancestors(t, m)}
Attached(t) == {m \in DOMAIN t.up : m = 1 \/ 1 \in Ancestors(t, m)}

\* tree.getpath: the tags from the root down, numbered where siblings share the tag.
PathStep(t, d, n) ==
  LET siblings == IF t.up[n] = 0 THEN <<n>> ELSE t.kids[t.up[n]]
      same == {i \in DOMAIN siblings : d[siblings[i]].tag = d[n].tag}
  IN <<d[n].tag, IF Cardinality(same) = 1 THEN 0 ELSE Rank(same, PlaceOf(n, siblings))>>
Path(t, d, m) == LET line == LineOf(t, m) IN [i \in DOMAIN line |-> PathStep(t, d, line[i])]

\* text_content and tostring: an element's tail is its parent's text, and is serialized with it.
Total(S, Of(_)) == MapThenSumSet(Of, S)
TextLen(d, k, n) == d[n].text + Total(Under(k, n), LAMBDA m : d[m].text + d[m].tail)
HtmlLen(d, k, n) == TextLen(d, k, n) + d[n].tail + Total(Under(k, n) \cup {n}, LAMBDA m : d[m].markup)
LinkLen(d, k, n) == Total({m \in Under(k, n) \cup {n} : d[m].tag = "a"}, LAMBDA m : TextLen(d, k, m))
Shows(d, k, n) == UNION {d[m].says : m \in Under(k, n) \cup {n}}

-----------------------------------------------------------------------------
(***************************************************************************)
(* Weights, in hundredths; `k` is the parsed tree.                                                 *)
(***************************************************************************)
InArticle(d, k, n) == \E m \in Ancestors(k, n) : d[m].tag \in {"article", "main"}
HasControls(d, k, n) == \E m \in Under(k, n) \cup {n} : d[m].tag \in {"input", "select", "textarea"}

\* _detect_repeating_grids: containers of three alike children, mostly links.
Grids(d, k) ==
  {n \in Nodes(d) :
     /\ d[n].tag \in {"div", "section", "ul", "ol", "main", "article", "table", "tbody"}
     /\ \E m \in Nodes(d) : d[m].up = n /\ Cardinality({o \in Nodes(d) : d[o].up = n /\ d[o].tag = d[m].tag}) >= 3
     /\ TextLen(d, k, n) > 50
     /\ 2 * LinkLen(d, k, n) > TextLen(d, k, n)}

W(weight, reason) == [weight |-> weight, reason |-> reason]
RoleWeight(d, k, n, schema) ==
  LET role == d[n].role IN
  IF role = "contentinfo" /\ schema = "GovernmentPage" THEN W(60, "footer-gov-exception")
  ELSE IF role = "complementary" THEN
         IF HasControls(d, k, n) THEN W(70, "filter-sidebar") ELSE W(30, "role=complementary")
  ELSE CASE role \in {"main", "article"} -> W(100, "role=main")
         [] role = "region" -> W(80, "role=region")
         [] role = "navigation" -> W(0, "role=navigation")
         [] role = "banner" -> W(0, "role=banner")
         [] role = "contentinfo" -> W(0, "role=contentinfo")
TagWeight(d, k, n, schema) ==
  LET tag == d[n].tag IN
  IF tag \in {"header", "footer"} /\ d[d[n].up].tag # "body" THEN W(80, "semantic-nested")
  ELSE IF tag = "footer" /\ schema = "GovernmentPage" THEN W(60, "footer-gov-exception")
  ELSE IF tag = "aside" /\ HasControls(d, k, n) THEN W(70, "filter-sidebar")
  ELSE CASE tag = "header" -> W(0, "semantic-header")
         [] tag = "footer" -> W(0, "semantic-footer")
         [] tag = "nav" -> W(0, "semantic-nav")
         [] tag = "aside" -> W(30, "semantic-aside")
         [] tag = "section" -> W(IF d[n].labelled THEN 80 ELSE 60, "semantic-section")
         [] tag \in {"main", "article"} -> W(100, "semantic-main")
NoiseWeight(d, k, n, schema) ==
  IF d[n].content > 0 THEN W(70, "content-override-noise")
  ELSE IF schema = "Product" /\ "price" \in Shows(d, k, n) THEN W(70, "product-price-in-noise")
  ELSE W(20, "noise-pattern")

\* Blocks with little text for their markup, and blocks that are mostly links.
BlockWeight(d, k, n) ==
  LET all == TextLen(d, k, n)
      links == LinkLen(d, k, n)
      grids == Grids(d, k)
      sparse == TextDensity /\ HtmlLen(d, k, n) >= 200 /\ 10 * all < HtmlLen(d, k, n) /\ ~InArticle(d, k, n)
      inGrid == (Ancestors(k, n) \cup {n} \cup Under(k, n)) \cap grids # {}
      linked == all > 50 /\ links > 0
      prose == d[n].tag = "p" /\ InArticle(d, k, n) /\ all - links > 80
      dense == 10 * links > 8 * all
  IN IF sparse THEN W(30, "text-density-low")
     ELSE IF inGrid THEN W(80, "grid-whitelist")
     ELSE IF ~linked THEN W(100, "default")
     ELSE IF prose THEN IF dense THEN W(20, "article-p-link-dense") ELSE W(90, "article-content-p")
     ELSE IF dense THEN W(20, "link-density")
     ELSE IF 2 * links > all THEN W(40, "link-density")
     ELSE W(100, "default")

Weight(d, k, n, schema) ==
  IF d[n].role \in {"navigation", "banner", "contentinfo", "complementary", "main", "article", "region"}
    THEN RoleWeight(d, k, n, schema)
  ELSE IF d[n].tag \in {"main", "article", "section", "nav", "aside", "header", "footer"}
    THEN TagWeight(d, k, n, schema)
  ELSE IF d[n].hidden THEN W(0, "hidden")
  ELSE IF d[n].noise >= 2 THEN NoiseWeight(d, k, n, schema)
  ELSE IF d[n].content > 0 THEN W(100, "content-pattern")
  ELSE IF d[n].tag \in {"div", "li", "td", "th", "p", "blockquote"} THEN BlockWeight(d, k, n)
  ELSE W(100, "default")

-----------------------------------------------------------------------------
(***************************************************************************)
(* The call.                                                                *)
(***************************************************************************)
AomInit ==
  /\ \E d \in HtmlPages, schema \in PageSchemas :
       page = [doc |-> d, schema |-> schema, noise |-> {}] /\ tree = Parsed(d)
  /\ filter = [at |-> "collect", todo |-> <<>>, paths |-> {}, saved |-> <<>>, out |-> <<>>, back |-> {}]

\* Below the threshold: never <html>, <body>, <main> or a child of <main>.
Collect ==
  /\ filter.at = "collect"
  /\ LET d == page.doc
         exempt(n) == d[n].tag \in {"html", "body", "main"} \/ d[d[n].up].tag = "main"
         weighed == [n \in {m \in Nodes(d) : ~exempt(m)} |-> Weight(d, tree, n, page.schema)]
         below == {n \in DOMAIN weighed : weighed[n].weight < Threshold}
     IN /\ page' = [page EXCEPT !.noise = below]
        /\ filter' = [filter EXCEPT !.at = "remove",
             !.todo = LET order == InOrder(below) IN
                      [i \in DOMAIN order |-> [node |-> order[i], reason |-> weighed[order[i]].reason]]]
        /\ UNCHANGED tree

\* Mutant of MayComeBack: every removed element may.
MayComeBack_All(reason) == TRUE
MayComeBack(reason) == reason = "link-density"

\* Mutant of Place: where the element stood before anything was removed.
Place_Original(n) == PlaceOf(n, Parsed(page.doc).kids[page.doc[n].up])
Place(n) == PlaceOf(n, tree.kids[tree.up[n]])

\* An element under a path that was removed is skipped; <html> and <body> are not looked up.
Covered(n) ==
  LET path == Path(tree, page.doc, n) IN \E i \in 3..(Len(path) - 1) : SubSeq(path, 1, i) \in filter.paths

TakeOut ==
  /\ filter.at = "remove" /\ filter.todo # <<>>
  /\ LET n == Head(filter.todo).node
         reason == Head(filter.todo).reason
     IN IF tree.up[n] = 0 \/ Covered(n)
          THEN filter' = [filter EXCEPT !.todo = Tail(@)] /\ UNCHANGED tree
          ELSE /\ tree' = [tree EXCEPT !.up[n] = 0, !.kids[tree.up[n]] = RemoveAt(@, PlaceOf(n, @))]
               /\ filter' = [filter EXCEPT !.todo = Tail(@), !.paths = @ \cup {Path(tree, page.doc, n)},
                    !.out = Append(@, Head(filter.todo)),
                    !.saved = IF MayComeBack(reason) THEN Append(@, [node |-> n, from |-> tree.up[n], at |-> Place(n)]) ELSE @]
  /\ UNCHANGED page

\* One saved element is put back, if its parent's path starts at <html>.
PutBack(t, s) ==
  IF /\ Shows(page.doc, t, s.node) # {} \/ \E m \in Under(t, s.node) : page.doc[m].tag = "h1"
     /\ TextLen(page.doc, t, s.node) > 0
     /\ s.from \in Attached(t)
  THEN [t EXCEPT !.up[s.node] = s.from,
                 !.kids[s.from] = InsertAt(@, IF s.at - 1 < Len(@) THEN s.at ELSE Len(@) + 1, s.node)]
  ELSE t
Rescue ==
  /\ filter.at = "remove" /\ filter.todo = <<>>
  /\ LET may == TextLen(page.doc, tree, 1) < 100 \/ page.schema = "Product"
         after == IF may THEN FoldLeft(PutBack, tree, filter.saved) ELSE tree
     IN /\ tree' = after
        /\ filter' = [filter EXCEPT !.at = "done", !.back = {s.node : s \in ToSet(filter.saved)} \ {n \in Nodes(page.doc) : after.up[n] = 0}]
  /\ UNCHANGED page

AomNext == Collect \/ TakeOut \/ Rescue
AomSpec == AomInit /\ [][AomNext]_fvars

\* derive_pruned_regions, of the reasons that still count after the rescue.
RegionOf == [x \in {"semantic-nav", "role=navigation", "semantic-header", "role=banner", "semantic-footer",
                    "role=contentinfo", "semantic-aside", "role=complementary"} |->
              CASE x \in {"semantic-nav", "role=navigation"} -> "navigation"
                [] x \in {"semantic-header", "role=banner"} -> "header"
                [] x \in {"semantic-footer", "role=contentinfo"} -> "footer"
                [] OTHER -> "complementary"]
PrunedRegions == {RegionOf[x] : x \in {r.reason : r \in {o \in ToSet(filter.out) : o.node \notin filter.back}} \cap DOMAIN RegionOf}

-----------------------------------------------------------------------------
(***************************************************************************)
(* Properties.                                                              *)
(***************************************************************************)
Deep(n) == \E m \in Nodes(page.doc) : Len(LineOf(Parsed(page.doc), m)) >= Len(LineOf(Parsed(page.doc), n)) + 3
                                        /\ n \in Ancestors(Parsed(page.doc), m)

\* Paths are looked up that were taken when the tree was another.  They cannot name another
\* element when no noise has a sibling of its own tag, and no two subtrees that are taken out
\* under one tag are deeper than the three steps that are never looked up.
PathsAreStable ==
  \A n \in page.noise :
    /\ \A m \in Nodes(page.doc) \ {n} : page.doc[m].up = page.doc[n].up => page.doc[m].tag # page.doc[n].tag
    /\ \A m \in page.noise \ {n} : page.doc[m].tag = page.doc[n].tag => ~Deep(n)

\* aom_filter "Removes nodes with weight < threshold along with all their descendants"
\* (aom_filter.py:460) and "NEVER restore security-critical removals" (:536): what is gone
\* was noise or under noise, and where paths are stable what is left is neither, but for
\* link lists put back on a product page or where they hold a price, a rating or a heading.
NoiseOnlyIsGone ==
  filter.at = "done" =>
    LET noisy == {n \in Nodes(page.doc) : ({n} \cup Ancestors(Parsed(page.doc), n)) \cap (page.noise \ filter.back) # {}}
    IN /\ \A n \in filter.back : Weight(page.doc, Parsed(page.doc), n, page.schema).reason = "link-density"
       /\ Nodes(page.doc) \ Attached(tree) \subseteq noisy
       /\ PathsAreStable => Attached(tree) \cap noisy = {}

\* "Re-insert at original position" (aom_filter.py:568): an element put back stands where it
\* stood among its siblings.  The place is a count of the siblings left when it was taken
\* out, so this is so for one element of a parent; a second one may come back too early.
RescueKeepsOrder ==
  filter.at = "done" =>
    \A p \in Nodes(page.doc) :
      Cardinality(ToSet(tree.kids[p]) \cap filter.back) <= 1
        => \A i, j \in DOMAIN tree.kids[p] : i < j => tree.kids[p][i] < tree.kids[p][j]
=============================================================================
