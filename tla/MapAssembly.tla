---------------------------- MODULE MapAssembly ----------------------------
(***************************************************************************)
(* How core/page_map_builder.py and core/ecommerce/* put a page map together *)
(* once a page has been detected and pruned: the barrier is found on all      *)
(* elements, the budget filter drops some and renumbers the rest, and every   *)
(* ref of the map (navigation hints, barrier button, e-commerce actions) has  *)
(* to name an element of the final list.                                    *)
(*                                                                         *)
(* An element is what these steps tell apart: role, affordance, region, the    *)
(* terms its name contains, and its tokens as approximated and as counted.     *)
(* Its ref is its place in the list, and ref 0 is None.  The HTML is the set   *)
(* of facts the detectors find in it.                                       *)
(***************************************************************************)
EXTENDS Listing

CONSTANTS
  Elements,      \* elements a page may have, see Element
  Pages,         \* HTML pages, see Html
  MaxElements,   \* bound on the elements of a page
  Rooms,         \* tokens the pruned context may leave for elements
  Policies       \* values of PAGEMAP_COOKIE_POLICY

Words == {"next", "prev", "more", "filter", "sort", "submit", "cancel", "step", "verify", "home",
          "search", "accept", "reject", "dismiss", "close", "cart", "buy", "wish", "quantity",
          "option", "login", "promo", "no promo"}   \* "no promo": _NEGATIVE_RE finds something
Regions == {"header", "navigation", "main", "footer", "complementary", "search", "form", "unknown"}   \* REGION_MAP
Element == [role : STRING, acts : {"click", "toggle", "type", "select", "none"}, region : Regions,
            named : BOOLEAN,                  \* of a table cell: by more than a number or a dash
            says : SUBSET Words, tier1 : BOOLEAN,
            guess : Nat, size : Nat \ {0},    \* count_tokens_approx and count_tokens
            type : {"size", "color", "other"}, chosen : BOOLEAN, values : {"none", "some", "gone"}]
Html == [type : STRING, cookie : {"none", "generic", "named"}, popup : BOOLEAN,
         age : {"none", "click_through", "date_entry"}, blocked : BOOLEAN,
         login : 0..10,         \* evidence of a login wall in tenths, without the elements'
         stock : {"unknown", "in_stock", "out_of_stock"}]

ASSUME AssemblyAssumption ==
  /\ Elements \subseteq Element /\ Pages \subseteq Html /\ Rooms \subseteq Nat
  /\ Policies \subseteq {"reject", "accept", "dismiss", "none"} /\ MaxElements \in Nat

VARIABLES
  found,     \* the elements detected, the page, the cookie policy and the barrier
  pagemap,   \* the page map built last, or None
  stage      \* of the build

avars == <<found, pagemap, stage>>

-----------------------------------------------------------------------------
\* The first element that satisfies Is, and the first n of them.
Ref(list, Is(_)) ==
  LET s == {i \in DOMAIN list : Is(list[i])} IN IF s = {} THEN 0 ELSE Min(s)
Refs(list, Is(_), n) ==
  {i \in DOMAIN list : Is(list[i]) /\ Cardinality({j \in 1..i : Is(list[j])}) <= n}

Says(el, w) == w \in el.says
Clicks(el) == el.acts \in {"click", "toggle"}

(***************************************************************************)
(* Barriers: ecommerce/barrier_handler.py and what it asks.                  *)
(***************************************************************************)
None == [kind |-> "none"]
Dismissal(list, w) == Ref(list, LAMBDA el : Clicks(el) /\ el.role = "button" /\ Says(el, w))

\* _find_dismiss_ref: the tiers in order, then, for a confirmed barrier, a close symbol.
FindDismiss(list, tiers, confirmed) ==
  LET asked == IF confirmed THEN Append(tiers, "close") ELSE tiers
      hits == {i \in DOMAIN asked : Dismissal(list, asked[i]) # 0}
      tier == asked[Min(hits)]
  IN IF hits = {} THEN [ref |-> 0, tier |-> ""] ELSE [ref |-> Dismissal(list, tier), tier |-> tier]

Tiers(policy) ==
  CASE policy = "accept" -> <<"accept", "reject", "dismiss">>
    [] policy = "dismiss" -> <<"dismiss">>
    [] OTHER -> <<"reject", "accept", "dismiss">>

BarrierOf(kind, auto, d, terms) ==
  [kind |-> kind, auto |-> auto, ref |-> d.ref, tier |-> d.tier, terms |-> terms]

\* A provider with a JavaScript API is rejected through it when no button is found.
CookieBarrier(list, h, policy) ==
  LET d == FindDismiss(list, Tiers(policy), TRUE) IN
  BarrierOf("cookie", TRUE,
        IF h.cookie = "named" /\ policy # "dismiss" /\ d.tier = "" THEN [d EXCEPT !.tier = "js_api"] ELSE d,
        <<"reject", "accept", "dismiss">>)

PopupBarrier(list) ==
  LET d == FindDismiss(list, <<"dismiss">>, TRUE) IN BarrierOf("popup", d.ref # 0, d, <<"dismiss">>)

\* The button is looked for on a click-through gate only.
AgeBarrier(list, h) ==
  LET d == IF h.age = "click_through" THEN FindDismiss(list, <<"accept">>, FALSE) ELSE [ref |-> 0, tier |-> ""]
  IN BarrierOf("age", d.ref # 0, [d EXCEPT !.tier = ""], <<"accept">>)

\* Half of the evidence is enough; elements that say "log in" count 0.2.
LoginWall(list, h) == h.login + (IF \E i \in DOMAIN list : Says(list[i], "login") THEN 2 ELSE 0) >= 5

\* detect_popup_overlay: a dialog that is not one of those with a purpose of their own (a login,
\* a cart, a size guide), or the markup of a popup that is none of these either.
HasPopup(list, h) ==
  h.popup \/ \E i \in DOMAIN list : list[i].role \in {"dialog", "alertdialog"} /\ ~Says(list[i], "no promo")

\* detect_barriers: the first of five kinds.
Barrier(list, h, policy) ==
  LET nothing == [ref |-> 0, tier |-> ""] IN
  CASE h.cookie # "none" -> CookieBarrier(list, h, policy)
    [] h.cookie = "none" /\ HasPopup(list, h) -> PopupBarrier(list)
    [] h.cookie = "none" /\ ~HasPopup(list, h) /\ h.age # "none" -> AgeBarrier(list, h)
    [] OTHER -> IF h.blocked THEN BarrierOf("region", FALSE, nothing, <<>>)
                ELSE IF LoginWall(list, h) THEN BarrierOf("login", FALSE, nothing, <<>>) ELSE None

\* Mutant of Rematched: the refs of the elements detected are kept.
Rematched_Never(b, list) == b

\* with_matched_ref: the terms are matched again on the final list, if there is one.
Rematched(b, list) ==
  IF b = None \/ list = <<>> THEN b
  ELSE LET d == FindDismiss(list, b.terms, TRUE) IN [b EXCEPT !.ref = d.ref, !.tier = d.tier]

-----------------------------------------------------------------------------
(***************************************************************************)
(* _budget_filter_interactables.                                            *)
(***************************************************************************)
INPUT_ROLES == {"searchbox", "textbox", "combobox", "checkbox", "radio", "switch", "slider"}
HIGH_REGIONS == {"header", "navigation", "search"}
CHROME_DEMOTE_ROLES == {"radio", "checkbox", "switch"}

Bucket(el, gone) ==
  CASE el.role \in {"row", "cell", "gridcell"} /\ ~el.named -> 5
    [] el.role \in INPUT_ROLES -> IF el.region \in gone /\ el.role \in CHROME_DEMOTE_ROLES THEN 4 ELSE 1
    [] OTHER -> IF el.region \in HIGH_REGIONS /\ el.named THEN 2
                ELSE IF el.tier1 /\ el.region = "main" THEN 3 ELSE 4

\* The tokens of the elements at some places, as approximated and as counted.
Guess(list, at) == SumOf([k \in DOMAIN at |-> list[at[k]].guess])
Size(list, at) == SumOf([k \in DOMAIN at |-> list[at[k]].size])

\* The longest beginning of a bucket that the room is approximated to hold.
Fitting(list, bucket, room) ==
  SubSeq(bucket, 1, Cardinality({n \in DOMAIN bucket : Guess(list, SubSeq(bucket, 1, n)) <= room}))

\* Bucket after bucket, each until its first element that does not fit: places in the list.
Chosen(list, room, gone) ==
  FoldLeft(LAMBDA got, n :
             got \o Fitting(list, InOrder({i \in DOMAIN list : Bucket(list[i], gone) = n}), room - Guess(list, got)),
           <<>>, <<1, 2, 3, 4, 5>>)

\* The exact count cuts the approximation down in proportion to the NUMBER of elements.
Trimmed(list, got, room) ==
  LET actual == Size(list, got)
      keep == (Len(got) * room * 95) \div (actual * 100)
  IN IF Len(got) > 1 /\ actual > room THEN SubSeq(got, 1, IF keep < 1 THEN 1 ELSE keep) ELSE got

\* Mutant of BudgetFilter: the elements stay in the order of their priority.
BudgetFilter_Unsorted(list, room, gone) == Trimmed(list, Chosen(list, room, gone), room)

\* The places of the elements kept, in the order of the page: the new refs.
BudgetFilter(list, room, gone) == InOrder(ToSet(Trimmed(list, Chosen(list, room, gone), room)))

-----------------------------------------------------------------------------
(***************************************************************************)
(* Refs in a map are pairs of a name and a ref.                             *)
(***************************************************************************)
One(name, list, Is(_)) == {<<name, r>> : r \in {Ref(list, Is)} \ {0}}
Many(name, list, Is(_), n) == {<<name, r>> : r \in Refs(list, Is, n)}
Word(name, list, w) == One(name, list, LAMBDA el : Says(el, w))

\* _build_navigation_hints, by page type.
NavigationHints(list, type) ==
  CASE type \in {"search_results", "listing"} ->
         Word("next", list, "next") \cup Word("prev", list, "prev") \cup Word("more", list, "more")
           \cup Many("filters", list, LAMBDA el : el.region = "complementary", 10)
    [] type \in {"checkout", "form"} ->
         Word("submit", list, "submit") \cup Word("cancel", list, "cancel")
           \cup (IF type = "form" THEN {} ELSE Many("steps", list, LAMBDA el : Says(el, "step"), 5))
    [] type \in {"dashboard", "documentation"} ->
         Many("nav", list, LAMBDA el : el.region \in {"navigation", "complementary"}, 10)
           \cup Many("tabs", list, LAMBDA el : el.role = "tab", 10)
    [] type = "help_faq" ->
         One("search", list, LAMBDA el : el.role = "searchbox")
           \cup Many("questions", list, LAMBDA el : el.role = "button" /\ el.region = "main", 20)
    [] type = "error" ->
         Word("home", list, "home")
           \cup One("search", list, LAMBDA el : el.role = "searchbox" \/ Says(el, "search"))
    [] type = "blocked" -> Word("verify", list, "verify")
    [] OTHER -> {}

\* search_engine, listing_engine, _card_extractor: what a list of products can do.
Clicked(name, list, w) == One(name, list, LAMBDA el : Clicks(el) /\ Says(el, w))
ListActions(list, type) ==
  Clicked("next", list, "next") \cup Clicked("prev", list, "prev") \cup Clicked("more", list, "more")
    \cup Many("filters", list, LAMBDA el : Says(el, "filter"), 10)
    \cup (IF type = "listing" THEN {}
          ELSE One("sort", list, LAMBDA el : el.role \in {"combobox", "select"} /\ Says(el, "sort")))

\* product_engine, cart_engine.
IsOption(el) == el.role \in {"combobox", "select"} /\ Says(el, "option")
ProductActions(list) ==
  One("cart", list, LAMBDA el : el.acts = "click" /\ Says(el, "cart"))
    \cup One("buy", list, LAMBDA el : el.acts = "click" /\ Says(el, "buy"))
    \cup Clicked("wish", list, "wish")
    \cup One("quantity", list, LAMBDA el : el.acts \in {"type", "select"} /\ Says(el, "quantity"))
    \cup Many("options", list, IsOption, Len(list))

Actions(list, type) ==
  IF type \in {"search_results", "listing"} THEN ListActions(list, type)
  ELSE IF type = "product_detail" THEN ProductActions(list) ELSE {}

\* compute_blocked_reason.
BlockedReason(options, stock) ==
  LET open == {el.type : el \in {e \in options : ~e.chosen}}
      alone == Cardinality({e \in options : ~e.chosen}) = 1
  IN IF stock = "out_of_stock" THEN "out_of_stock"
     ELSE IF \E el \in options : el.values = "gone" THEN "all_sold_out"
     ELSE IF open = {} THEN "none"
     ELSE IF alone /\ open \in {{"size"}, {"color"}} THEN "one_required" ELSE "options_required"

\* analyze_cart_actions: what stands between the page and its cart; stock is asked for only
\* when there are options.
CartFlow(list, stock) ==
  LET options == {list[i] : i \in {j \in DOMAIN list : IsOption(list[j])}} IN
  IF options # {} /\ BlockedReason(options, stock) \in {"out_of_stock", "all_sold_out"} THEN "sold_out"
  ELSE IF \E el \in options : el.values # "none" /\ ~el.chosen THEN "select_options"
  ELSE IF \E p \in ProductActions(list) : p[1] = "cart" THEN "ready_to_add" ELSE "unknown"

-----------------------------------------------------------------------------
(***************************************************************************)
(* The build.                                                               *)
(***************************************************************************)
NoMap == [room |-> 0, gone |-> {}, kept |-> <<>>, list |-> <<>>, html |-> [type |-> "none"], hints |-> {}, ecom |-> {},
          flow |-> "none", barrier |-> None]

AssemblyInit == found = [list |-> <<>>, html |-> NoMap.html, barrier |-> None] /\ pagemap = NoMap /\ stage = "idle"

\* Elements and HTML are there, the page is classified: a barrier is looked for on all of them.
Detect ==
  /\ stage = "idle"
  /\ \E n \in 0..MaxElements : \E list \in [1..n -> Elements], h \in Pages, policy \in Policies :
       found' = [list |-> list, html |-> h, barrier |-> Barrier(list, h, policy)]
  /\ stage' = "pruning"
  /\ UNCHANGED pagemap

\* The list of the map, and all that is said about it: `kept` are the places, in the elements
\* detected, of the list.
MapOf(room, gone, kept, list, h, barrier) ==
  [room |-> room, gone |-> gone, kept |-> kept, list |-> list, html |-> h, hints |-> NavigationHints(list, h.type),
   ecom |-> Actions(list, h.type),
   flow |-> IF h.type = "product_detail" THEN CartFlow(list, h.stock) ELSE "none",
   barrier |-> barrier]

\* The tail of build_page_map_live and of build_page_map_from_page, after the context is
\* pruned: filter, hints, barrier, e-commerce engine.
Assembled(room, gone) ==
  LET kept == BudgetFilter(found.list, room, gone)
      list == [i \in DOMAIN kept |-> found.list[kept[i]]]
  IN MapOf(room, gone, kept, list, found.html, Rematched(found.barrier, list))

Assemble(room, gone) ==
  /\ stage = "pruning"
  /\ pagemap' = Assembled(room, gone)
  /\ stage' = "built"
  /\ UNCHANGED found

\* rebuild_content_only: the list is the cached one, only hints are taken anew, from the page
\* as it is now; neither barrier nor e-commerce data are carried over.
RebuildContent(h) ==
  /\ stage = "built"
  /\ pagemap' = [MapOf(pagemap.room, pagemap.gone, pagemap.kept, pagemap.list, h, None) EXCEPT !.ecom = {}, !.flow = "none"]
  /\ stage' = "rebuilt"
  /\ UNCHANGED found

\* _extract_interactables_from_html: what a static reading of the HTML finds, kind after kind
\* and not in the order of the page, each role and name once, all in the main region; of the
\* links only those that buy.
Kinds == <<{"button"}, {"link"}, {"textbox", "searchbox"}, {"combobox"}>>
Act == [button |-> "click", link |-> "click", textbox |-> "type", searchbox |-> "type", combobox |-> "select"]
AsRead(el) == [el EXCEPT !.region = "main", !.tier1 = FALSE, !.acts = Act[el.role]]

FromHtml(list) ==
  LET ofKind(k) == {i \in DOMAIN list : /\ list[i].role \in Kinds[k]
                                        /\ list[i].role = "link" => list[i].says \cap {"cart", "buy", "wish"} # {}}
      new(i, k) == \A j \in ofKind(k) : j < i => <<list[j].role, list[j].says>> # <<list[i].role, list[i].says>>
      once(k) == InOrder({i \in ofKind(k) : new(i, k)})
      all == once(1) \o once(2) \o once(3) \o once(4)
  IN [i \in DOMAIN all |-> AsRead(list[all[i]])]

\* build_page_map_offline: elements from the HTML, no barrier and no e-commerce engine.
BuildOffline(room, gone) ==
  LET read == FromHtml(found.list)
      kept == BudgetFilter(read, room, gone)
      list == [i \in DOMAIN kept |-> read[kept[i]]]
  IN /\ stage = "pruning"
     /\ pagemap' = [MapOf(room, gone, kept, list, found.html, None) EXCEPT !.ecom = {}, !.flow = "none"]
     /\ stage' = "offline"
     /\ UNCHANGED found

\* rebuild_interactables_only: the elements are detected and filtered anew, hints taken from
\* them; the cached metadata, with the e-commerce data in it, is carried over as it was.
RebuildElements(list, h) ==
  LET kept == BudgetFilter(list, pagemap.room, pagemap.gone)
      new == [i \in DOMAIN kept |-> list[kept[i]]]
  IN /\ stage = "built"
     /\ pagemap' = [MapOf(pagemap.room, pagemap.gone, kept, new, h, None)
                      EXCEPT !.ecom = pagemap.ecom, !.flow = pagemap.flow]
     /\ stage' = "relisted"
     /\ UNCHANGED found

\* A minor change of the structure: one element has gone.
MinorChanges(list) == {RemoveAt(list, i) : i \in DOMAIN list}

\* Bound: by the time of a rebuild the page is what it was, or one that is blocked.
Later == {found.html} \cup {h \in Pages : h.blocked}

AssemblyNext ==
  \/ Detect
  \/ \E room \in Rooms, gone \in {{}, {"footer"}} : Assemble(room, gone) \/ BuildOffline(room, gone)
  \/ \E h \in Later : RebuildContent(h)
  \/ \E list \in MinorChanges(found.list), h \in Later : RebuildElements(list, h)

AssemblySpec == AssemblyInit /\ [][AssemblyNext]_avars

-----------------------------------------------------------------------------
(***************************************************************************)
(* What a page map promises.                                                *)
(***************************************************************************)
AssemblyTypeOK ==
  /\ stage \in {"idle", "pruning", "built", "rebuilt", "offline", "relisted"}
  /\ pagemap.list \in Seq(Element) /\ Len(pagemap.kept) = Len(pagemap.list)
  /\ pagemap.flow \in {"none", "unknown", "select_options", "ready_to_add", "sold_out"}

\* What an element must say to be named so.
Fits(name, el) ==
  CASE name \in {"next", "prev", "more", "submit", "cancel", "home", "verify", "cart", "buy", "wish",
                 "quantity", "sort"} -> Says(el, name)
    [] name = "steps" -> Says(el, "step")
    [] name = "filters" -> el.region = "complementary" \/ Says(el, "filter")
    [] name = "nav" -> el.region \in {"navigation", "complementary"}
    [] name = "tabs" -> el.role = "tab"
    [] name = "search" -> el.role = "searchbox" \/ Says(el, "search")
    [] name = "questions" -> el.role = "button"
    [] name = "options" -> IsOption(el)

\* Every ref of a map names an element of that map which is what the name says, though
\* elements were dropped and renumbered after some refs were first taken; and the elements
\* come in the order of the page, so that refs do.  rebuild_interactables_only, which nothing
\* in the repository calls, keeps the e-commerce refs of the list it replaces.
RefsNameTheirElements ==
  /\ \A p \in pagemap.hints \cup (IF stage = "relisted" THEN {} ELSE pagemap.ecom) :
       p[2] \in DOMAIN pagemap.list /\ Fits(p[1], pagemap.list[p[2]])
  /\ \A i, j \in DOMAIN pagemap.kept : i < j => pagemap.kept[i] < pagemap.kept[j]

\* The button a barrier is to be dismissed with is a button of the map, one that answers the
\* barrier, whenever the map has elements at all.
BarrierButtonInMap ==
  LET b == pagemap.barrier IN
  b # None /\ b.ref # 0 /\ pagemap.list # <<>> =>
    /\ b.ref \in DOMAIN pagemap.list
    /\ pagemap.list[b.ref].role = "button"
    /\ pagemap.list[b.ref].says \cap {"accept", "reject", "dismiss", "close"} # {}
=============================================================================
