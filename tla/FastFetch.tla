------------------------------ MODULE FastFetch ------------------------------
(***************************************************************************)
(* Fetching without a browser: _fast_fetch_page of server/__init__.py and     *)
(* HttpRetriever of pipeline/retriever/httpfetch.py, over the three backends  *)
(* of pipeline/retriever/http/backends.                                     *)
(*                                                                         *)
(* All fetches of a process share one backend.  curl_cffi and httpx keep one *)
(* client open between fetches, urllib makes an opener for each.  A session   *)
(* has a cookie jar, one name -> value dict for all sites; several fetches of *)
(* a session may be under way (batch_web_fetch), each on the event loop, and  *)
(* urllib's part on a worker thread.  Nothing in src/ fills FetchContext.cookies, *)
(* which would override the session's; the requests that follow a redirect are  *)
(* left out, but not the cookies the client gets on the way.                  *)
(***************************************************************************)
EXTENDS Integers, Sequences, FiniteSets

CONSTANTS
  Fetches,         \* calls, each made once
  Jars,            \* HttpSessionState objects
  Sites,           \* hosts
  CookieNames,     \* names of cookies
  Impersonations,  \* values of `impersonate`, among them the default
  Options,         \* <<impersonate, follow_redirects>> of HttpRetriever's callers
  DefaultImpersonation,
  CurlIds,         \* curl_cffi AsyncSessions
  Installs,        \* the sets of optional clients a machine may have
  Preferences,     \* values of --fast-backend and PAGEMAP_FAST_BACKEND
  NoOne            \* Python's None

ASSUME FastAssumption ==
  /\ \A i \in Installs : i \subseteq {"curl_cffi", "httpx"}
  /\ DefaultImpersonation \in Impersonations /\ Options \subseteq Impersonations \X BOOLEAN
  /\ NoOne \notin Fetches \cup CurlIds \cup Jars \cup Sites

VARIABLES
  transport,  \* the backend of the server's fast path and of HttpRetriever, by name
  curl,       \* CurlCffiBackend: its session, that session's target, the lock; ghosts: which sessions
              \* are open and were made, whose aclose() raised, which targets were asked for
  remembered, \* the cookies a long-lived client keeps: backend -> site -> name -> the fetch that
              \* got it
  jar,        \* the sessions' cookies: name -> the fetch whose response set it
  fetch,      \* the calls
  merges      \* ghost: the fetches whose cookies were merged, in order

ffvars == <<transport, curl, remembered, jar, fetch, merges>>

Backends == {"curl_cffi", "httpx", "urllib"}
Bag == [CookieNames -> Fetches \cup {NoOne}]
NoCookies == [n \in CookieNames |-> NoOne]
Unmade == [at |-> "idle", via |-> "server", jar |-> NoOne, site |-> NoOne, target |-> NoOne,
          follow |-> TRUE, on |-> NoOne, carry |-> NoCookies, sent |-> {},
          sets |-> {}, after |-> 0]

FastTypeOK ==
  /\ transport \in [{"server", "retriever"} -> Backends \cup {NoOne}]
  /\ curl \in [now : CurlIds \cup {NoOne}, target : Impersonations \cup {NoOne},
               lock : Fetches \cup {NoOne}, open : SUBSET CurlIds, born : SUBSET CurlIds,
               stuck : SUBSET CurlIds, asked : SUBSET Impersonations]
  /\ remembered \in [Backends -> [Sites -> Bag]] /\ jar \in [Jars -> Bag]
  /\ fetch \in [Fetches ->
       [at : {"idle", "lock", "closing", "thread", "copying", "wire", "body", "done"},
        via : {"server", "retriever"}, jar : Jars \cup {NoOne}, site : Sites \cup {NoOne},
        target : Impersonations \cup {NoOne}, follow : BOOLEAN, on : CurlIds \cup {NoOne},
        carry : Bag, sent : SUBSET [name : CookieNames, by : Fetches],
        sets : SUBSET CookieNames, after : Nat]]
  /\ merges \in Seq(Fetches)

-----------------------------------------------------------------------------
(***************************************************************************)
(* Choosing the backend.                                                    *)
(***************************************************************************)

\* get_backend: registered, and its dependency importable.
Available(installed) == installed \cup {"urllib"}

\* resolve_backend: a name that is preferred is that one or an error, else the first of
\* _AUTO_ORDER that is available.
ResolvedBackend(installed, prefer) ==
  LET order == <<"curl_cffi", "httpx", "urllib">>
      first == CHOOSE i \in 1..3 : /\ order[i] \in Available(installed)
                                    /\ \A k \in 1..(i - 1) : order[k] \notin Available(installed)
  IN IF prefer = "auto" THEN order[first]
     ELSE IF prefer \in Available(installed) THEN prefer ELSE NoOne

\* _get_http_backend goes by the CLI and the environment; HttpRetriever, as it is registered,
\* by "auto".  Both keep what they got, and a failure is tried again with the same outcome.
FastInit ==
  /\ \E installed \in Installs, prefer \in Preferences :
       transport = [via \in {"server", "retriever"} |->
                      ResolvedBackend(installed, IF via = "server" THEN prefer ELSE "auto")]
  /\ curl = [now |-> NoOne, target |-> NoOne, lock |-> NoOne, open |-> {}, born |-> {}, stuck |-> {}, asked |-> {}]
  /\ remembered = [k \in Backends |-> [s \in Sites |-> NoCookies]]
  /\ jar = [j \in Jars |-> NoCookies]
  /\ fetch = [f \in Fetches |-> Unmade]
  /\ merges = <<>>

-----------------------------------------------------------------------------
(***************************************************************************)
(* Sending.                                                                 *)
(***************************************************************************)
Held(b) == {n \in CookieNames : b[n] # NoOne}
Cookies(b) == {[name |-> n, by |-> b[n]] : n \in Held(b)}

\* The Cookie header, with what the client adds of its own for the site.  The urllib opener
\* built for follow_redirects=False has no cookie processor.
Header(r, b) ==
  IF transport[r.via] = "urllib" /\ ~r.follow THEN {}
  ELSE Cookies(b) \cup Cookies(remembered[transport[r.via]][r.site])

\* The server hands the backend its dict, which is copied when the request is made;
\* HttpRetriever has copied it when the fetch began.
Carried(r) == IF r.via = "server" THEN jar[r.jar] ELSE r.carry

OnWire(r) == [r EXCEPT !.at = "wire", !.sent = Header(r, Carried(r))]

\* The call is over; what is left of it says whose cookies it may have got, with which client.
Over(r) ==
  IF r.at \notin {"wire", "body"} THEN [Unmade EXCEPT !.at = "done"]
  ELSE [Unmade EXCEPT !.at = "done", !.via = r.via, !.jar = r.jar, !.on = r.on, !.sets = r.sets]

Put(f, r) == fetch' = [fetch EXCEPT ![f] = r]

\* A new AsyncSession takes the place of the old one, which is closed unless it is left open.
Recreated(r, c, left) ==
  [curl EXCEPT !.now = c, !.target = r.target, !.lock = NoOne,
               !.open = (@ \ ({r.on} \ left)) \cup {c}, !.born = @ \cup {c},
               !.stuck = @ \cup left, !.asked = @ \cup {r.target}]

New(f, r, left) ==
  LET c == CHOOSE q \in CurlIds : q \notin curl.born IN   \* which one makes no difference
  /\ CurlIds # curl.born
  /\ remembered' = [remembered EXCEPT !["curl_cffi"] = [s \in Sites |-> NoCookies]]
  /\ curl' = Recreated(r, c, left)
  /\ Put(f, [r EXCEPT !.at = "wire", !.on = c,
                      !.sent = Cookies(Carried(r))])

\* _get_session with the lock: the session in place when its target is the one asked for;
\* else a new one, after the old one has been closed with an await.
WithLock(f, r) ==
  \/ /\ curl.now # NoOne /\ curl.target = r.target
     /\ Put(f, [OnWire(r) EXCEPT !.on = curl.now])
     /\ curl' = [curl EXCEPT !.lock = NoOne, !.asked = @ \cup {r.target}]
     /\ UNCHANGED remembered
  \/ /\ curl.now # NoOne /\ curl.target # r.target
     /\ Put(f, [r EXCEPT !.at = "closing", !.on = curl.now])
     /\ curl' = [curl EXCEPT !.lock = f, !.asked = @ \cup {r.target}]
     /\ UNCHANGED remembered
  \/ /\ curl.now = NoOne
     /\ New(f, r, {})

\* Mutant of LockFree: nobody waits for the lock.
LockFree_Always == TRUE

LockFree == curl.lock = NoOne

\* The backend's fetch up to its first suspension.  httpx's client lock is held over no
\* await; urllib's part waits for a worker thread.
Dispatch(f, r) ==
  LET backend == transport[r.via] IN
  \/ backend = "curl_cffi" /\ LockFree /\ WithLock(f, r)
  \/ /\ backend = "curl_cffi" /\ ~LockFree
     /\ Put(f, [r EXCEPT !.at = "lock"]) /\ UNCHANGED <<curl, remembered>>
  \/ /\ backend = "httpx"
     /\ Put(f, OnWire(r)) /\ UNCHANGED <<curl, remembered>>
  \/ /\ backend = "urllib"
     /\ Put(f, [r EXCEPT !.at = "thread"]) /\ UNCHANGED <<curl, remembered>>

\* The server's fast path asks for no impersonation and follows redirects; a caller of
\* HttpRetriever chooses both.
Unbegun == {f \in Fetches : fetch[f].at = "idle"}

BeginFetch(f, via, j, s) ==
  /\ Unbegun # {} /\ f = CHOOSE g \in Unbegun : TRUE   \* which one makes no difference
  /\ transport[via] # NoOne     \* else the call raises at once
  /\ \E o \in IF via = "server" THEN {<<DefaultImpersonation, TRUE>>} ELSE Options :
       Dispatch(f, [Unmade EXCEPT !.via = via, !.jar = j, !.site = s, !.target = o[1],
                                     !.follow = o[2], !.carry = jar[j], !.after = Len(merges)])
  /\ UNCHANGED <<transport, jar, merges>>

GetLock(f) ==
  /\ fetch[f].at = "lock" /\ LockFree
  /\ WithLock(f, fetch[f])
  /\ UNCHANGED <<transport, jar, merges>>

\* aclose() has returned, or it has raised, which is suppressed: then the old session is left
\* open, and nobody has it any more.
OldClosed(f) ==
  /\ fetch[f].at = "closing"
  /\ \E left \in SUBSET {fetch[f].on} : New(f, fetch[f], left)
  /\ UNCHANGED <<transport, jar, merges>>

\* The worker thread: _build_opener iterates over the server's dict while the event loop
\* runs on; an empty dict is not iterated, and HttpRetriever's dict is its own.
StartCopy(f) ==
  /\ fetch[f].at = "thread"
  /\ IF fetch[f].via = "server" /\ Held(jar[fetch[f].jar]) # {}
       THEN Put(f, [fetch[f] EXCEPT !.at = "copying", !.carry = jar[fetch[f].jar]])
       ELSE Put(f, OnWire(fetch[f]))
  /\ UNCHANGED <<transport, curl, remembered, jar, merges>>

\* Each name's value is read before or after a merge; a name that came in meanwhile makes the
\* iteration raise "dictionary changed size during iteration".
Copied(f) ==
  LET r == fetch[f]  now == jar[r.jar] IN
  /\ r.at = "copying"
  /\ IF Held(now) # Held(r.carry) THEN Put(f, Over(r))
     ELSE \E seen \in {b \in Bag : \A n \in CookieNames : b[n] \in {r.carry[n], now[n]}} :
            Put(f, [r EXCEPT !.at = "wire", !.carry = seen, !.sent = Header(r, seen)])
  /\ UNCHANGED <<transport, curl, remembered, jar, merges>>

-----------------------------------------------------------------------------
(***************************************************************************)
(* Answers.                                                                 *)
(***************************************************************************)
OnOpenSession(f) == transport[fetch[f].via] = "curl_cffi" => fetch[f].on \in curl.open

\* Got(b, f): the bag b after fetch f has put its cookies in.
Got(b, f, names) == [n \in CookieNames |-> IF n \in names THEN f ELSE b[n]]

\* The client that made the request takes cookies for the sites their domains name.  What an
\* AsyncSession that is no longer in place keeps is not sent again.
Keeps(f, kept) ==
  LET backend == transport[fetch[f].via] IN
  remembered' = IF backend = "httpx" \/ (backend = "curl_cffi" /\ fetch[f].on = curl.now)
                  THEN [remembered EXCEPT ![backend] = [s \in Sites |-> Got(@[s], f, kept[s])]]
                  ELSE remembered

\* A redirect on the way: the client follows it, with what it sets.
Redirected(f, kept) ==
  /\ fetch[f].at = "wire" /\ OnOpenSession(f) /\ fetch[f].follow
  /\ Keeps(f, kept)
  /\ UNCHANGED <<transport, curl, jar, fetch, merges>>

\* The response head; `names` are the cookies the last response sets.
HeadIn(f, names, kept) ==
  /\ fetch[f].at = "wire" /\ OnOpenSession(f)
  /\ \A s \in Sites : kept[s] \subseteq names
  /\ Keeps(f, kept)
  /\ Put(f, [fetch[f] EXCEPT !.at = "body", !.sets = names, !.sent = {}])
  /\ UNCHANGED <<transport, curl, jar, merges>>

\* Mutant of Merged: the jar becomes what the fetch began with and its own cookies.
Merged_Snapshot(f) ==
  [jar EXCEPT ![fetch[f].jar] = Got(fetch[f].carry, f, fetch[f].sets)]

\* Mutant of Merged: all HttpSessionStates share one dict.
Merged_Shared(f) == [j \in Jars |-> Got(jar[j], f, fetch[f].sets)]

\* merge_set_cookies; the path, the domain and the age of a cookie are not looked at.
Merged(f) == [jar EXCEPT ![fetch[f].jar] = Got(@, f, fetch[f].sets)]

\* The body is in, and the cookies are merged.  The server looks at the final URL only then:
\* the cookies of a redirect it refuses stay.
Answered(f) ==
  LET r == fetch[f] IN
  /\ r.at = "body" /\ OnOpenSession(f)
  /\ jar' = Merged(f)
  /\ merges' = IF r.sets = {} THEN merges ELSE Append(merges, f)
  /\ Put(f, Over(r))
  /\ UNCHANGED <<transport, curl, remembered>>

\* The transport fails: HttpBackendError.
Failed(f) ==
  /\ fetch[f].at \in {"wire", "body"}
  /\ Put(f, Over(fetch[f]))
  /\ UNCHANGED <<transport, curl, remembered, jar, merges>>

\* The per-URL timeout or the client cancels the call.  A cancelled aclose() may or may not
\* have closed the session; the lock is released and the session stays the one in place.
CutOff(f) ==
  LET r == fetch[f] IN
  /\ r.at \notin {"idle", "done"}
  /\ Put(f, Over(r))
  /\ IF r.at = "closing"
       THEN \E gone \in SUBSET {r.on} : curl' = [curl EXCEPT !.lock = NoOne, !.open = @ \ gone]
       ELSE UNCHANGED curl
  /\ UNCHANGED <<transport, remembered, jar, merges>>

FastNext ==
  \E f \in Fetches :
    \/ \E via \in {"server", "retriever"}, j \in Jars, s \in Sites : BeginFetch(f, via, j, s)
    \/ GetLock(f) \/ OldClosed(f) \/ StartCopy(f) \/ Copied(f)
    \/ \E kept \in [Sites -> SUBSET CookieNames] :
         Redirected(f, kept) \/ \E names \in SUBSET CookieNames : HeadIn(f, names, kept)
    \/ Answered(f) \/ Failed(f) \/ CutOff(f)

FastSpec == FastInit /\ [][FastNext]_ffvars

-----------------------------------------------------------------------------
(***************************************************************************)
(* What the fast path promises.                                             *)
(***************************************************************************)
OnTheWire == {f \in Fetches : fetch[f].at = "wire"}

\* "successive calls in the same session look continuous to bot detection" (httpfetch.py):
\* a cookie merged into the session before a fetch began is sent by it, unless a later
\* response of the session has set the same name; concurrent fetches of the session undo
\* nothing.  Not so for urllib without redirects, whose opener has no cookies at all.
CookiesContinuous ==
  \A f \in OnTheWire : (transport[fetch[f].via] = "urllib" => fetch[f].follow) =>
    \A i \in 1..fetch[f].after :
      LET g == merges[i] IN
      fetch[g].jar = fetch[f].jar =>
        \A n \in fetch[g].sets :
          \E k \in i..Len(merges) :
            /\ [name |-> n, by |-> merges[k]] \in fetch[f].sent
            /\ fetch[merges[k]].jar = fetch[f].jar

\* Which client makes the requests of a call: an AsyncSession, or what there is one of.
Client(r) == IF transport[r.via] = "curl_cffi" THEN r.on ELSE transport[r.via]

\* The sessions' dicts stay apart, however their fetches run into each other: a cookie of
\* another session is sent only by the very client that got it, out of that client's own
\* memory, which an AsyncSession takes with it when it is replaced; urllib sends none.
JarsStayApart ==
  \A f \in OnTheWire : \A c \in fetch[f].sent :
    fetch[c.by].jar # fetch[f].jar
      => transport[fetch[f].via] # "urllib" /\ Client(fetch[c.by]) = Client(fetch[f])

\* What the backends say of themselves: "we do not share a single httpx.Cookies across
\* sessions" (httpx_backend.py), and "backends can stay free of hidden state" (http/base.py):
\* a cookie on the wire was set for the session it is sent for.
OwnCookiesOnly ==
  \A f \in OnTheWire : \A c \in fetch[f].sent : fetch[c.by].jar = fetch[f].jar

\* Of the sessions that were made only the one in place is open, and those whose aclose()
\* raised; and as long as all callers ask for one impersonation, no fetch's session is closed
\* under it.
CurlSessionKept ==
  /\ curl.open \subseteq {curl.now} \cup curl.stuck
  /\ Cardinality(curl.asked) <= 1
       => \A f \in Fetches : fetch[f].at \in {"wire", "body"} => OnOpenSession(f)
=============================================================================
