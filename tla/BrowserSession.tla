--------------------------- MODULE BrowserSession ---------------------------
(***************************************************************************)
(* One BrowserSession of server/browser_session.py: the browser it starts or  *)
(* borrows, its context, and the pages in it.  It drives one page; a popup    *)
(* that opens is remembered for the next action, which switches to it or      *)
(* closes it; a batch opens pages of its own beside it.                      *)
(*                                                                         *)
(* Playwright tells the context's "page" listeners of every page that is      *)
(* made in it, those of new_page() included; the listener runs as a task.     *)
(* Tools run one at a time under the session's tool lock, a batch's URLs      *)
(* concurrently.  A call may be cancelled at any await.                      *)
(***************************************************************************)
EXTENDS Integers, Sequences

CONSTANTS
  PageIds,    \* Page objects, in the order they are made
  BatchUrls,  \* the URLs of a batch
  Modes,      \* how a session may be started
  NoPage      \* Python's None

ASSUME SessionAssumption ==
  /\ Modes \subseteq {"standalone", "cdp", "persistent", "pool"}
  /\ PageIds # {} /\ NoPage \notin PageIds

VARIABLES
  mode,    \* how the session is started: from its config, or from a pool's browser
  phase,   \* where start() or stop() is, or what they left
  sess,    \* its attributes: context, page, pending popup, batch pages
  chrome,  \* the browser process, and the Playwright driver of a CDP connection
  open,    \* pages open in the context
  born,    \* pages made so far
  heard,   \* pages whose listener has yet to run
  act,     \* the execute_action or fill_form under way, with the popup it consumed
  load,    \* the batch's URLs, each with its page
  ghost    \* which pages new_page() made, which of them were taken for popups, which went by
           \* themselves or were closed by stop(), which a cancelled call left

bsvars == <<mode, phase, sess, chrome, open, born, heard, act, load, ghost>>

Starting == {"launch", "context", "scripts", "page", "answer", "routes"}
Stopping == {"closing_batch", "closing_context", "closing_browser"}

SessionTypeOK ==
  /\ mode \in Modes
  /\ phase \in {"ready", "broken", "stopped"} \cup Starting \cup Stopping
  /\ sess \in [context : BOOLEAN, page : PageIds \cup {NoPage}, pending : PageIds \cup {NoPage},
               batch : SUBSET PageIds, doomed : SUBSET PageIds]
  /\ chrome \in [browser : {"none", "up", "closed", "dead"}, driver : BOOLEAN]
  /\ open \subseteq born /\ born \subseteq PageIds /\ heard \in Seq(PageIds)
  /\ act \in [at : {"idle", "acting", "popup"}, popup : PageIds \cup {NoPage}]
  /\ load \in [BatchUrls -> [at : {"idle", "answer", "loading", "done"}, page : PageIds \cup {NoPage}]]
  /\ ghost \in [mine : SUBSET born, taken : SUBSET born, gone : SUBSET born, left : SUBSET born]

SessionInit ==
  /\ mode \in Modes
  /\ phase = CASE mode = "pool" -> "context" [] OTHER -> "launch"
  /\ sess = [context |-> FALSE, page |-> NoPage, pending |-> NoPage, batch |-> {}, doomed |-> {}]
  /\ chrome = [browser |-> IF mode = "pool" THEN "up" ELSE "none", driver |-> FALSE]
  /\ open = {} /\ born = {} /\ heard = <<>>
  /\ act = [at |-> "idle", popup |-> NoPage]
  /\ load = [u \in BatchUrls |-> [at |-> "idle", page |-> NoPage]]
  /\ ghost = [mine |-> {}, taken |-> {}, gone |-> {}, left |-> {}]

-----------------------------------------------------------------------------
(***************************************************************************)
(* Pages.                                                                   *)
(***************************************************************************)
BrowserUp == chrome.browser = "up"
NextPage == CHOOSE p \in PageIds : p \notin born    \* which one makes no difference

\* A page comes up in the context; the listeners will hear of it.
Appears(p) ==
  /\ born # PageIds /\ BrowserUp /\ sess.context
  /\ open' = open \cup {p} /\ born' = born \cup {p} /\ heard' = Append(heard, p)

\* Mutant of Unclaimed: the earlier popup is forgotten and stays open.
Unclaimed_Forgotten == {}

\* The popup remembered before, which nobody has consumed.
Unclaimed == {sess.pending}

\* _on_new_page: pages of the batch are skipped; any other becomes the pending popup, and the
\* one before it is closed.
OnNewPage ==
  /\ heard # <<>>
  /\ heard' = Tail(heard)
  /\ LET p == Head(heard) IN
     IF p \in sess.batch THEN UNCHANGED <<sess, open, ghost>>
     ELSE /\ sess' = [sess EXCEPT !.pending = p]
          /\ open' = open \ Unclaimed
          /\ ghost' = [ghost EXCEPT !.taken = @ \cup ({p} \cap ghost.mine)]
  /\ UNCHANGED <<mode, phase, chrome, born, act, load>>

\* A page of the session opens another.
PopupAppears ==
  /\ phase = "ready" /\ open # {}
  /\ Appears(NextPage)
  /\ UNCHANGED <<mode, phase, sess, chrome, act, load, ghost>>

\* A popup closes itself.
PageCloses(p) ==
  /\ p \in open \ ghost.mine
  /\ open' = open \ {p} /\ ghost' = [ghost EXCEPT !.gone = @ \cup {p}]
  /\ UNCHANGED <<mode, phase, sess, chrome, born, heard, act, load>>

BrowserCrashes ==
  /\ BrowserUp
  /\ chrome' = [chrome EXCEPT !.browser = "dead"]
  /\ open' = {} /\ ghost' = [ghost EXCEPT !.gone = @ \cup open]
  /\ UNCHANGED <<mode, phase, sess, born, heard, act, load>>

-----------------------------------------------------------------------------
(***************************************************************************)
(* start, start_from_pool and start_persistent, from await to await.         *)
(***************************************************************************)
To(p) == phase' = p

\* The browser comes up; a persistent profile brings its context, which may hold a page.
Launch ==
  /\ phase = "launch"
  /\ chrome' = [browser |-> "up", driver |-> mode = "cdp"]
  /\ IF mode = "persistent"
       THEN /\ To("scripts") /\ sess' = [sess EXCEPT !.context = TRUE]
            /\ \E old \in {{}, {NextPage}} : open' = old /\ born' = old
       ELSE To("context") /\ UNCHANGED <<sess, open, born>>
  /\ UNCHANGED <<mode, heard, act, load, ghost>>

\* new_context, on which the listeners are registered.
MakeContext ==
  /\ phase = "context" /\ BrowserUp
  /\ To("scripts") /\ sess' = [sess EXCEPT !.context = TRUE]
  /\ UNCHANGED <<mode, chrome, open, born, heard, act, load, ghost>>

\* The init scripts are in; pages that came with the profile are closed.
CloseOldPages ==
  /\ phase = "scripts" /\ BrowserUp
  /\ To("page") /\ open' = {}
  /\ UNCHANGED <<mode, sess, chrome, born, heard, act, load, ghost>>

MakePage ==
  /\ phase = "page"
  /\ Appears(NextPage)
  /\ To("answer") /\ ghost' = [ghost EXCEPT !.mine = @ \cup {NextPage}]
  /\ UNCHANGED <<mode, sess, chrome, act, load>>

\* new_page() returns.  No other page of the session's own has been made yet.
HavePage ==
  /\ phase = "answer"
  /\ To("routes") /\ sess' = [sess EXCEPT !.page = CHOOSE p \in ghost.mine : TRUE]
  /\ UNCHANGED <<mode, chrome, open, born, heard, act, load, ghost>>

\* The scanner, whose failure is swallowed, and the routes.
StartDone ==
  /\ phase = "routes" /\ BrowserUp
  /\ To("ready")
  /\ UNCHANGED <<mode, sess, chrome, open, born, heard, act, load, ghost>>

\* start() raises.  connect_via_cdp has started its driver before it connects.
StartRaises ==
  /\ phase \in Starting
  /\ To("broken")
  /\ \E driver \in {chrome.driver, phase = "launch" /\ mode = "cdp"} :
       chrome' = [chrome EXCEPT !.driver = driver]
  /\ UNCHANGED <<mode, sess, open, born, heard, act, load, ghost>>

\* get_session() has kept the session it could not start: when it has a page that answers, it
\* is taken as started.
Reuse ==
  /\ phase = "broken" /\ sess.page \in open /\ sess.context
  /\ To("ready")
  /\ UNCHANGED <<mode, sess, chrome, open, born, heard, act, load, ghost>>

-----------------------------------------------------------------------------
(***************************************************************************)
(* Actions, and the popups they meet.                                       *)
(***************************************************************************)
ToolFree == act.at = "idle" /\ \A u \in BatchUrls : load[u].at \in {"idle", "done"}
Rest == act' = [at |-> "idle", popup |-> NoPage]

BeginAction ==
  /\ phase = "ready" /\ ToolFree
  /\ act' = [act EXCEPT !.at = "acting"]
  /\ UNCHANGED <<mode, phase, sess, chrome, open, born, heard, load, ghost>>

\* Mutant of Consumed: the pending page stays pending.
Consumed_Kept == sess

\* consume_new_page.
Consumed == [sess EXCEPT !.pending = NoPage]

\* The action is done and the page has settled; a popup that is still open is dealt with.
TakePopup ==
  /\ act.at = "acting"
  /\ sess' = Consumed
  /\ IF sess.pending \in open THEN act' = [at |-> "popup", popup |-> sess.pending] ELSE Rest
  /\ UNCHANGED <<mode, phase, chrome, open, born, heard, load, ghost>>

\* Its URL is refused: it is closed.
ClosePopup ==
  /\ act.at = "popup"
  /\ open' = open \ {act.popup} /\ Rest
  /\ UNCHANGED <<mode, phase, sess, chrome, born, heard, load, ghost>>

\* switch_page: the popup becomes the page, and the old page is closed, also when the two are
\* one.
SwitchPage ==
  /\ act.at = "popup"
  /\ sess' = [sess EXCEPT !.page = act.popup]
  /\ open' = open \ {sess.page} /\ Rest
  /\ UNCHANGED <<mode, phase, chrome, born, heard, load, ghost>>

\* The action fails or is cancelled; a popup it has consumed is left.
CutAction ==
  /\ act.at # "idle" /\ Rest
  /\ ghost' = [ghost EXCEPT !.left = @ \cup ({act.popup} \ {NoPage})]
  /\ UNCHANGED <<mode, phase, sess, chrome, open, born, heard, load>>

-----------------------------------------------------------------------------
(***************************************************************************)
(* batch_get_page_map, one URL: create_batch_page, the load, and            *)
(* close_batch_page in a shielded finally.                                  *)
(***************************************************************************)
Loading(u, at, p) == load' = [load EXCEPT ![u] = [at |-> at, page |-> p]]

\* The batch's tool call has begun when none of its URLs or all but some are under way; no
\* action is.
OpenBatchPage(u) ==
  /\ phase = "ready" /\ act.at = "idle" /\ load[u].at = "idle"
  /\ Appears(NextPage)
  /\ Loading(u, "answer", NextPage)
  /\ ghost' = [ghost EXCEPT !.mine = @ \cup {NextPage}]
  /\ UNCHANGED <<mode, phase, sess, chrome, act>>

HaveBatchPage(u) ==
  /\ load[u].at = "answer"
  /\ sess' = [sess EXCEPT !.batch = @ \cup {load[u].page}]
  /\ Loading(u, "loading", load[u].page)
  /\ UNCHANGED <<mode, phase, chrome, open, born, heard, act, ghost>>

\* Loaded, failed, timed out or cancelled: the page is closed all the same.
CloseBatchPage(u) ==
  /\ load[u].at = "loading"
  /\ sess' = [sess EXCEPT !.batch = @ \ {load[u].page}]
  /\ open' = open \ {load[u].page}
  /\ Loading(u, "done", NoPage)
  /\ UNCHANGED <<mode, phase, chrome, born, heard, act, ghost>>

\* The batch is cancelled before new_page() has returned: `page` is still None.
CutBatch(u) ==
  /\ load[u].at = "answer"
  /\ Loading(u, "done", NoPage)
  /\ ghost' = [ghost EXCEPT !.left = @ \cup {load[u].page}]
  /\ UNCHANGED <<mode, phase, sess, chrome, open, born, heard, act>>

-----------------------------------------------------------------------------
(***************************************************************************)
(* stop, while calls may still be under way.  An exception of close() is       *)
(* suppressed; it is raised by a browser that is dead.                       *)
(***************************************************************************)

\* Mutant of OwnsBrowser: a pooled session takes the browser for its own.
OwnsBrowser_Always == TRUE

OwnsBrowser == mode # "pool"

BeginStop ==
  /\ phase \in {"ready", "broken"}
  /\ To("closing_batch") /\ sess' = [sess EXCEPT !.doomed = sess.batch]
  /\ UNCHANGED <<mode, chrome, open, born, heard, act, load, ghost>>

\* The batch pages of the moment stop() began are closed; all are forgotten.
StopBatch ==
  /\ phase = "closing_batch"
  /\ To("closing_context")
  /\ open' = open \ sess.doomed
  /\ sess' = [sess EXCEPT !.batch = {}, !.doomed = {}]
  /\ ghost' = [ghost EXCEPT !.gone = @ \cup sess.doomed]
  /\ UNCHANGED <<mode, chrome, born, heard, act, load>>

\* The context is closed with its pages; a persistent one takes its browser with it.
StopContext ==
  /\ phase = "closing_context"
  /\ open' = {}
  /\ sess' = [sess EXCEPT !.context = FALSE, !.page = NoPage, !.pending = NoPage]
  /\ chrome' = IF mode = "persistent" /\ BrowserUp THEN [chrome EXCEPT !.browser = "closed"] ELSE chrome
  /\ To(IF OwnsBrowser /\ mode # "persistent" THEN "closing_browser" ELSE "stopped")
  /\ UNCHANGED <<mode, born, heard, act, load, ghost>>

\* The browser the session owns is closed, and with it the driver of the CDP connection.
StopBrowser ==
  /\ phase = "closing_browser"
  /\ chrome' = IF chrome.browser = "none" THEN chrome
               ELSE [browser |-> IF BrowserUp THEN "closed" ELSE chrome.browser, driver |-> FALSE]
  /\ To("stopped")
  /\ UNCHANGED <<mode, sess, open, born, heard, act, load, ghost>>

\* stop() is cancelled; it may be called again.
CutStop ==
  /\ phase \in Stopping
  /\ To("broken")
  /\ UNCHANGED <<mode, sess, chrome, open, born, heard, act, load, ghost>>

SessionNext ==
  \/ OnNewPage \/ PopupAppears \/ (\E p \in PageIds : PageCloses(p)) \/ BrowserCrashes
  \/ Launch \/ MakeContext \/ CloseOldPages \/ MakePage \/ HavePage \/ StartDone \/ StartRaises \/ Reuse
  \/ BeginAction \/ TakePopup \/ ClosePopup \/ SwitchPage \/ CutAction
  \/ \E u \in BatchUrls : OpenBatchPage(u) \/ HaveBatchPage(u) \/ CloseBatchPage(u) \/ CutBatch(u)
  \/ BeginStop \/ StopBatch \/ StopContext \/ StopBrowser \/ CutStop

SessionSpec == SessionInit /\ [][SessionNext]_bsvars

-----------------------------------------------------------------------------
(***************************************************************************)
(* What a session promises.                                                 *)
(***************************************************************************)
Announced == {heard[i] : i \in 1..Len(heard)}

\* "Closes any previously unconsumed popup (single-page model)": every page that is open is
\* the one driven, the pending popup, one an action or a batch is about to deal with, or one
\* the listener has yet to hear of; only a cancelled call leaves others.
NoStrayPage ==
  phase = "ready" =>
    open \subseteq {sess.page, sess.pending, act.popup} \cup sess.batch \cup {load[u].page : u \in BatchUrls}
                     \cup Announced \cup ghost.left

\* Popups come, go and replace one another, and batches run, without closing the page that is
\* driven or one a batch is loading, as long as that page was not itself taken for a popup.
DrivenPageKept ==
  LET kept(p) == p \in ghost.taken \cup ghost.gone \cup open IN
  /\ phase = "ready" => kept(sess.page)
  /\ \A u \in BatchUrls : phase = "ready" /\ load[u].at = "loading" => kept(load[u].page)

\* "Pool mode: closes context only, leaves browser/playwright alone.  Standalone mode: closes
\* everything": however start() ended and however often stop() was cut, a stopped session has
\* no page and no browser of its own left; the driver of a CDP connection that failed is.
StopReleases ==
  /\ mode = "pool" => chrome.browser # "closed"
  /\ phase = "stopped" =>
       /\ open = {} /\ ~sess.context
       /\ mode # "pool" => chrome.browser # "up"
       /\ chrome.driver => chrome.browser = "none"

\* "Skips batch-managed pages" (_on_new_page): the pending popup is never a page of a batch.
BatchPagesSkipped == \A u \in BatchUrls : load[u].at = "loading" => load[u].page # sess.pending
=============================================================================
