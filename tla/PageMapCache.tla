---------------------------- MODULE PageMapCache ----------------------------
(***************************************************************************)
(* core/cache.py: PageMapCache, as operators on a cache value.              *)
(*                                                                         *)
(* A cache is [active, lru, remaps]: the active entry or None, the URL LRU   *)
(* (oldest entry first) and the _auto_remap_count that auto_remap.py hangs   *)
(* on the object.  A page map is abstracted to                              *)
(*   url    the URL it was built at,                                        *)
(*   refs   the DOM on which its interactables, hence its refs, were found,  *)
(*   dom    the DOM whose content it shows,                                 *)
(* and an entry is [map, fp], fp being a DomFingerprint or None.  A DOM is   *)
(* what a fingerprint tells apart: two pages that differ only beyond the     *)
(* hashed 2 KB of their text are one DOM here.                              *)
(* The age of an entry is not kept: only lookup() asks for it, and it drops  *)
(* what it finds expired, so "expired" is a choice made there.              *)
(***************************************************************************)
EXTENDS Naturals, Sequences

CONSTANTS
  None,        \* Python's None
  Pages,       \* what a tab may show: records [url, dom]
  Key,         \* normalize_cache_url: it drops the fragment and sorts the query
  MaxEntries   \* max_entries

Urls == {p.url : p \in Pages}
Doms == {p.dom : p \in Pages}

ASSUME CacheAssumption ==
  /\ Pages \subseteq [url : Urls, dom : Doms]
  /\ None \notin Urls \cup Doms
  /\ Key \in [Urls -> Urls]
  /\ MaxEntries \in Nat \ {0}

Map == [url : Urls, refs : Doms, dom : Doms]
Entry == [map : Map, fp : Doms \cup {None}]
Cache == [active : Entry \cup {None}, lru : Seq(Entry), remaps : Nat]

NewCache == [active |-> None, lru |-> <<>>, remaps |-> 0]
EntryOf(m, fp) == [map |-> m, fp |-> fp]
KeyOf(e) == Key[e.map.url]
ActiveMap(c) == IF c.active = None THEN None ELSE c.active.map

-----------------------------------------------------------------------------
\* The LRU without the entry at position k.
DropAt(l, k) == [j \in 1..(Len(l) - 1) |-> IF j < k THEN l[j] ELSE l[j + 1]]

Positions(l, key) == {k \in DOMAIN l : KeyOf(l[k]) = key}

\* _url_lru.pop(key, None)
Pop(l, key) == IF Positions(l, key) = {} THEN l ELSE DropAt(l, CHOOSE k \in Positions(l, key) : TRUE)

\* Mutant of Put: the LRU may exceed its capacity by one.
Put_OneTooMany(l, e) ==
  LET m == Append(Pop(l, KeyOf(e)), e)
  IN  IF Len(m) > MaxEntries + 1 THEN DropAt(m, 1) ELSE m

\* `_url_lru[key] = entry; move_to_end(key)`, then the oldest is evicted over capacity.
Put(l, e) ==
  LET m == Append(Pop(l, KeyOf(e)), e)
  IN  IF Len(m) > MaxEntries THEN DropAt(m, 1) ELSE m

\* store()
Stored(c, e) == [c EXCEPT !.active = e, !.lru = Put(c.lru, e)]

\* store_in_lru_only()
StoredInLru(c, e) == [c EXCEPT !.lru = Put(c.lru, e)]

-----------------------------------------------------------------------------
\* invalidate(): every reason clears the active entry; a hard one also drops the LRU
\* entry under its key, if there is an active entry to take the key from.
Hard == {"navigation", "new_tab", "ssrf_blocked", "browser_dead", "timeout"}
Soft == {"scroll", "dom_major", "wait_for", "bot_blocked", "barrier_dismissed"}

Invalidated(c, reason) ==
  [c EXCEPT !.active = None,
            !.lru = IF reason \in Hard /\ c.active # None THEN Pop(@, KeyOf(c.active)) ELSE @]

\* invalidate_all(); the remap counter is not the cache's own and survives.
Cleared(c) == [c EXCEPT !.active = None, !.lru = <<>>]

-----------------------------------------------------------------------------
\* lookup(): the entry found and the LRU it leaves.
Found(l, url, expired) ==
  IF Positions(l, Key[url]) = {} \/ expired THEN None ELSE l[CHOOSE k \in Positions(l, Key[url]) : TRUE]

LookedUp(l, url, expired) ==
  LET e == Found(l, url, expired)
  IN  IF e = None THEN Pop(l, Key[url]) ELSE Append(Pop(l, Key[url]), e)

=============================================================================
