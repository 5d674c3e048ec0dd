------------------------ MODULE BrowserSessionProofs ------------------------
(***************************************************************************)
(* Three promises of BrowserSession, for every set of pages, every batch and  *)
(* every choice of modes: no page is left open that nobody knows of, the page  *)
(* that is driven and those a batch loads are not closed behind their backs,   *)
(* and stop() gives back what the session owns and nothing else.             *)
(*                                                                         *)
(* None is inductive.  StopReleases speaks of the end of stop(); OwnsInv       *)
(* carries what its steps have done so far.  NoStrayPage speaks of a session   *)
(* in use; KeptInv covers its pages from the moment its own page is made, through *)
(* a stop() that is cut, back to a session that is taken as started.  That the *)
(* driven page is kept needs DriveInv: a page is announced once, and the page, *)
(* the pending popup, the popup an action holds and the pages of a batch are   *)
(* different pages unless one of them was taken for a popup.                 *)
(***************************************************************************)
EXTENDS BrowserSession, SequenceTheorems, TLAPS

Sess == [context : BOOLEAN, page : PageIds \cup {NoPage}, pending : PageIds \cup {NoPage},
         batch : SUBSET PageIds, doomed : SUBSET PageIds]
Chrome == [browser : {"none", "up", "closed", "dead"}, driver : BOOLEAN]
Ghost == [mine : SUBSET PageIds, taken : SUBSET PageIds, gone : SUBSET PageIds,
          left : SUBSET PageIds]
Load == [at : {"idle", "answer", "loading", "done"}, page : PageIds \cup {NoPage}]

\* The part of the type invariant that every other invariant leans on.
StateInv ==
  /\ mode \in Modes
  /\ phase \in {"ready", "broken", "stopped"} \cup Starting \cup Stopping
  /\ sess \in Sess /\ chrome \in Chrome
  /\ open \subseteq born /\ born \subseteq PageIds
  /\ phase = "launch" => born = {}
  /\ sess.batch \subseteq born /\ sess.doomed \subseteq born

\* The pages a session knows of, with those that calls hold on to.
TrackInv ==
  /\ heard \in Seq(PageIds)
  /\ act \in [at : {"idle", "acting", "popup"}, popup : PageIds \cup {NoPage}]
  /\ IF act.at = "popup" THEN act.popup \in born ELSE act.popup = NoPage
  /\ load \in [BatchUrls -> Load]
  /\ \A u \in BatchUrls :
       IF load[u].at \in {"answer", "loading"} THEN load[u].page \in born
       ELSE load[u].page = NoPage
  /\ ghost \in Ghost
  /\ ghost.mine \subseteq born /\ ghost.taken \subseteq born
  /\ ghost.gone \subseteq born /\ ghost.left \subseteq born
  /\ phase = "answer" => ghost.mine # {}

TypeInv == StateInv /\ TrackInv

-----------------------------------------------------------------------------
(***************************************************************************)
(* Lemmas on what the steps are made of.                                     *)
(***************************************************************************)

\* A new page is a page that was not there.
LEMMA NextPageIsNew ==
  ASSUME born \subseteq PageIds, born # PageIds
  PROVE  NextPage \in PageIds /\ NextPage \notin born
  BY DEF NextPage

\* StopBatch and StopContext replace several attributes of the session at once.
LEMMA StopBatchSession ==
  ASSUME sess \in Sess, StopBatch
  PROVE  /\ sess' \in Sess
         /\ sess'.context = sess.context /\ sess'.page = sess.page /\ sess'.pending = sess.pending
         /\ sess'.batch = {} /\ sess'.doomed = {}
  <1> DEFINE mid == [sess EXCEPT !.batch = {}]
  <1>1. sess' = [mid EXCEPT !.doomed = {}]
    BY DEF StopBatch
  <1>2. /\ mid \in Sess /\ mid.context = sess.context /\ mid.page = sess.page
        /\ mid.pending = sess.pending /\ mid.batch = {}
    BY DEF Sess
  <1> HIDE DEF mid
  <1> QED BY <1>1, <1>2 DEF Sess

LEMMA StopContextSession ==
  ASSUME sess \in Sess, StopContext
  PROVE  /\ sess' \in Sess
         /\ sess'.context = FALSE /\ sess'.page = NoPage /\ sess'.pending = NoPage
         /\ sess'.batch = sess.batch /\ sess'.doomed = sess.doomed
  <1> DEFINE none == [sess EXCEPT !.context = FALSE]
             gone == [none EXCEPT !.page = NoPage]
  <1>1. sess' = [gone EXCEPT !.pending = NoPage]
    BY DEF StopContext
  <1>2. none \in Sess /\ none.context = FALSE /\ none.batch = sess.batch /\ none.doomed = sess.doomed
    BY DEF Sess
  <1> HIDE DEF none
  <1>3. /\ gone \in Sess /\ gone.context = FALSE /\ gone.page = NoPage
        /\ gone.batch = sess.batch /\ gone.doomed = sess.doomed
    BY <1>2 DEF Sess
  <1> HIDE DEF gone
  <1> QED BY <1>1, <1>3 DEF Sess

-----------------------------------------------------------------------------
(***************************************************************************)
(* Types, one lemma per group of actions.                                    *)
(***************************************************************************)
LEMMA TypeInit == SessionInit => TypeInv
  BY SessionAssumption
     DEF SessionInit, TypeInv, StateInv, TrackInv, Sess, Chrome, Ghost, Load, Starting, Stopping

\* The session's own attributes.
LEMMA StateStep == TypeInv /\ [SessionNext]_bsvars => StateInv'
  <1> SUFFICES ASSUME TypeInv, [SessionNext]_bsvars PROVE StateInv'
    OBVIOUS
  <1> USE DEF TypeInv, StateInv, TrackInv, To, Starting, Stopping
  <1>1. CASE OnNewPage
    BY <1>1, HeadTailProperties DEF OnNewPage, Unclaimed, Sess
  <1>2. CASE PopupAppears
    BY <1>2, NextPageIsNew DEF PopupAppears, Appears
  <1>3. CASE BrowserCrashes
    BY <1>3 DEF BrowserCrashes, Chrome
  <1>4. CASE Launch
    <2>1. NextPage \in PageIds
      BY <1>4, NextPageIsNew, SessionAssumption DEF Launch, TypeInv, StateInv
    <2>2. chrome' \in Chrome
      BY <1>4 DEF Launch, Chrome
    <2>3. sess' \in Sess /\ sess'.batch = sess.batch /\ sess'.doomed = sess.doomed
      BY <1>4 DEF Launch, TypeInv, StateInv, Sess
    <2>4. open' = born' /\ born' \subseteq PageIds /\ born \subseteq born'
      <3>1. PICK old \in {{}, {NextPage}} : (open' = old /\ born' = old) \/ UNCHANGED <<open, born>>
        BY <1>4 DEF Launch
      <3>2. born = {} /\ open = {}
        BY <1>4 DEF Launch
      <3> HIDE DEF TypeInv, StateInv, TrackInv
      <3> QED BY <2>1, <3>1, <3>2
    <2>5. phase' \in {"scripts", "context"} /\ mode' = mode
      BY <1>4 DEF Launch, To
    <2> QED BY <2>2, <2>3, <2>4, <2>5 DEF TypeInv, StateInv, Starting
  <1>5. CASE MakeContext
    BY <1>5 DEF MakeContext, Sess
  <1>6. CASE CloseOldPages
    BY <1>6 DEF CloseOldPages
  <1>7. CASE MakePage
    BY <1>7, NextPageIsNew DEF MakePage, Appears
  <1>8. CASE HavePage
    BY <1>8 DEF HavePage, Sess, Ghost
  <1>9. CASE StartDone
    BY <1>9 DEF StartDone
  <1>10. CASE StartRaises
    BY <1>10 DEF StartRaises, Chrome
  <1>11. CASE Reuse
    BY <1>11 DEF Reuse
  <1>12. CASE BeginAction
    BY <1>12 DEF BeginAction
  <1>13. CASE TakePopup
    BY <1>13 DEF TakePopup, Consumed, Sess
  <1>14. CASE ClosePopup
    BY <1>14 DEF ClosePopup
  <1>15. CASE SwitchPage
    BY <1>15 DEF SwitchPage, Sess
  <1>16. CASE CutAction
    BY <1>16 DEF CutAction
  <1>17. CASE BeginStop
    BY <1>17 DEF BeginStop, Sess
  <1>18. CASE StopBatch
    BY <1>18, StopBatchSession DEF StopBatch
  <1>19. CASE StopContext
    BY <1>19, StopContextSession DEF StopContext, Chrome, OwnsBrowser
  <1>20. CASE StopBrowser
    BY <1>20 DEF StopBrowser, Chrome, BrowserUp
  <1>21. CASE CutStop
    BY <1>21 DEF CutStop
  <1>22. ASSUME NEW u \in BatchUrls, OpenBatchPage(u) PROVE StateInv'
    BY <1>22, NextPageIsNew DEF OpenBatchPage, Appears
  <1>23. ASSUME NEW u \in BatchUrls, HaveBatchPage(u) PROVE StateInv'
    BY <1>23 DEF HaveBatchPage, Sess, Load
  <1>24. ASSUME NEW u \in BatchUrls, CloseBatchPage(u) PROVE StateInv'
    BY <1>24 DEF CloseBatchPage, Sess
  <1>25. ASSUME NEW u \in BatchUrls, CutBatch(u) PROVE StateInv'
    BY <1>25 DEF CutBatch
  <1>26. ASSUME NEW p \in PageIds, PageCloses(p) PROVE StateInv'
    BY <1>26 DEF PageCloses
  <1>27. CASE UNCHANGED bsvars
    BY <1>27 DEF bsvars
  <1> QED BY <1>1, <1>2, <1>3, <1>4, <1>5, <1>6, <1>7, <1>8, <1>9, <1>10, <1>11, <1>12, <1>13,
         <1>14, <1>15, <1>16, <1>17, <1>18, <1>19, <1>20, <1>21, <1>22, <1>23, <1>24, <1>25,
            <1>26, <1>27 DEF SessionNext

\* What calls and listeners hold.
LEMMA TrackStep == TypeInv /\ [SessionNext]_bsvars => TrackInv'
  <1> SUFFICES ASSUME TypeInv, [SessionNext]_bsvars PROVE TrackInv'
    OBVIOUS
  <1> USE DEF TypeInv, StateInv, TrackInv, To, Starting, Stopping
  <1>1. CASE OnNewPage
    BY <1>1, HeadTailProperties DEF OnNewPage, Ghost
  <1>2. CASE PopupAppears
    BY <1>2, NextPageIsNew, AppendProperties DEF PopupAppears, Appears
  <1>3. CASE BrowserCrashes
    BY <1>3 DEF BrowserCrashes, Ghost, BrowserUp
  <1>4. CASE Launch
    BY <1>4, NextPageIsNew, SessionAssumption DEF Launch, Ghost
  <1>5. CASE MakeContext
    BY <1>5 DEF MakeContext, Sess
  <1>6. CASE CloseOldPages
    BY <1>6 DEF CloseOldPages
  <1>7. CASE MakePage
    BY <1>7, NextPageIsNew, AppendProperties DEF MakePage, Appears, Ghost
  <1>8. CASE HavePage
    BY <1>8 DEF HavePage, Sess, Ghost
  <1>9. CASE StartDone
    BY <1>9 DEF StartDone
  <1>10. CASE StartRaises
    BY <1>10 DEF StartRaises, Chrome
  <1>11. CASE Reuse
    BY <1>11 DEF Reuse
  <1>12. CASE BeginAction
    BY <1>12 DEF BeginAction, ToolFree
  <1>13. CASE TakePopup
    BY <1>13 DEF TakePopup, Rest, Sess
  <1>14. CASE ClosePopup
    BY <1>14 DEF ClosePopup, Rest
  <1>15. CASE SwitchPage
    BY <1>15 DEF SwitchPage, Rest
  <1>16. CASE CutAction
    BY <1>16 DEF CutAction, Rest, Ghost
  <1>17. CASE BeginStop
    BY <1>17 DEF BeginStop, Sess
  <1>18. CASE StopBatch
    BY <1>18, StopBatchSession DEF StopBatch, Ghost, Sess
  <1>19. CASE StopContext
    BY <1>19, StopContextSession DEF StopContext, Chrome, OwnsBrowser
  <1>20. CASE StopBrowser
    BY <1>20 DEF StopBrowser, Chrome, BrowserUp
  <1>21. CASE CutStop
    BY <1>21 DEF CutStop
  <1>22. ASSUME NEW u \in BatchUrls, OpenBatchPage(u) PROVE TrackInv'
    BY <1>22, NextPageIsNew, AppendProperties DEF OpenBatchPage, Appears, Loading, Load, Ghost
  <1>23. ASSUME NEW u \in BatchUrls, HaveBatchPage(u) PROVE TrackInv'
    BY <1>23 DEF HaveBatchPage, Loading, Load
  <1>24. ASSUME NEW u \in BatchUrls, CloseBatchPage(u) PROVE TrackInv'
    BY <1>24 DEF CloseBatchPage, Loading, Load
  <1>25. ASSUME NEW u \in BatchUrls, CutBatch(u) PROVE TrackInv'
    BY <1>25 DEF CutBatch, Loading, Load, Ghost
  <1>26. ASSUME NEW p \in PageIds, PageCloses(p) PROVE TrackInv'
    BY <1>26 DEF PageCloses, Ghost
  <1>27. CASE UNCHANGED bsvars
    BY <1>27 DEF bsvars
  <1> QED BY <1>1, <1>2, <1>3, <1>4, <1>5, <1>6, <1>7, <1>8, <1>9, <1>10, <1>11, <1>12, <1>13,
         <1>14, <1>15, <1>16, <1>17, <1>18, <1>19, <1>20, <1>21, <1>22, <1>23, <1>24, <1>25,
            <1>26, <1>27 DEF SessionNext

THEOREM TypeInvariant == SessionSpec => []TypeInv
  <1>1. TypeInv /\ [SessionNext]_bsvars => TypeInv'
    BY StateStep, TrackStep DEF TypeInv
  <1> QED BY <1>1, TypeInit, PTL DEF SessionSpec

\* SessionTypeOK: every attribute of the session keeps its type through failures, cancellation
\* and a crash; what calls remember are pages that were made.
THEOREM SessionTypeCorrect == SessionSpec => []SessionTypeOK
  <1>1. TypeInv => SessionTypeOK
    <2> SUFFICES ASSUME TypeInv PROVE SessionTypeOK
      OBVIOUS
    <2>1. ghost \in [mine : SUBSET born, taken : SUBSET born, gone : SUBSET born,
       left : SUBSET born]
      BY DEF TypeInv, TrackInv, Ghost
    <2>2. act \in [at : {"idle", "acting", "popup"}, popup : PageIds \cup {NoPage}]
      BY DEF TypeInv, TrackInv
    <2> QED BY <2>1, <2>2 DEF TypeInv, StateInv, TrackInv, SessionTypeOK, Sess, Chrome, Load
  <1> QED BY <1>1, TypeInvariant, PTL

-----------------------------------------------------------------------------
(***************************************************************************)
(* What stop() gives back.                                                  *)
(***************************************************************************)

\* Without a context there are no pages, and the browser is closed only by a session that
\* owns it, once its context is.
OwnsInv ==
  /\ ~sess.context => open = {}
  /\ phase \in {"closing_browser", "stopped"} => ~sess.context
  /\ phase = "closing_browser" => mode \notin {"pool", "persistent"}
  /\ mode = "pool" => chrome.browser # "closed"
  /\ chrome.driver => mode = "cdp"
  /\ phase = "stopped" =>
       /\ mode # "pool" => chrome.browser # "up"
       /\ chrome.driver => chrome.browser = "none"

LEMMA OwnsInit == SessionInit => OwnsInv
  BY DEF SessionInit, OwnsInv

LEMMA OwnsStep == OwnsInv /\ TypeInv /\ [SessionNext]_bsvars => OwnsInv'
  <1> SUFFICES ASSUME OwnsInv /\ TypeInv, [SessionNext]_bsvars PROVE OwnsInv'
    OBVIOUS
  <1> USE DEF OwnsInv, TypeInv, StateInv, To, Starting, Stopping
  <1>1. CASE OnNewPage
    BY <1>1 DEF OnNewPage, Unclaimed, Sess
  <1>2. CASE PopupAppears
    BY <1>2 DEF PopupAppears, Appears, BrowserUp
  <1>3. CASE BrowserCrashes
    BY <1>3 DEF BrowserCrashes, Chrome, BrowserUp
  <1>4. CASE Launch
    BY <1>4 DEF Launch, Chrome, Sess
  <1>5. CASE MakeContext
    BY <1>5 DEF MakeContext, Sess
  <1>6. CASE CloseOldPages
    BY <1>6 DEF CloseOldPages
  <1>7. CASE MakePage
    BY <1>7 DEF MakePage, Appears
  <1>8. CASE HavePage
    BY <1>8 DEF HavePage, Sess, Ghost
  <1>9. CASE StartDone
    BY <1>9 DEF StartDone
  <1>10. CASE StartRaises
    BY <1>10 DEF StartRaises, Chrome
  <1>11. CASE Reuse
    BY <1>11 DEF Reuse
  <1>12. CASE BeginAction
    BY <1>12 DEF BeginAction
  <1>13. CASE TakePopup
    BY <1>13 DEF TakePopup, Consumed, Sess
  <1>14. CASE ClosePopup
    BY <1>14 DEF ClosePopup
  <1>15. CASE SwitchPage
    BY <1>15 DEF SwitchPage, Sess
  <1>16. CASE CutAction
    BY <1>16 DEF CutAction
  <1>17. CASE BeginStop
    BY <1>17 DEF BeginStop, Sess
  <1>18. CASE StopBatch
    BY <1>18, StopBatchSession DEF StopBatch
  <1>19. CASE StopContext
    BY <1>19, StopContextSession DEF StopContext, Chrome, OwnsBrowser, BrowserUp
  <1>20. CASE StopBrowser
    BY <1>20 DEF StopBrowser, Chrome, BrowserUp
  <1>21. CASE CutStop
    BY <1>21 DEF CutStop
  <1>22. ASSUME NEW u \in BatchUrls, OpenBatchPage(u) PROVE OwnsInv'
    BY <1>22 DEF OpenBatchPage, Appears
  <1>23. ASSUME NEW u \in BatchUrls, HaveBatchPage(u) PROVE OwnsInv'
    BY <1>23 DEF HaveBatchPage, Sess, Load
  <1>24. ASSUME NEW u \in BatchUrls, CloseBatchPage(u) PROVE OwnsInv'
    BY <1>24 DEF CloseBatchPage, Sess
  <1>25. ASSUME NEW u \in BatchUrls, CutBatch(u) PROVE OwnsInv'
    BY <1>25 DEF CutBatch
  <1>26. ASSUME NEW p \in PageIds, PageCloses(p) PROVE OwnsInv'
    BY <1>26 DEF PageCloses
  <1>27. CASE UNCHANGED bsvars
    BY <1>27 DEF bsvars
  <1> QED BY <1>1, <1>2, <1>3, <1>4, <1>5, <1>6, <1>7, <1>8, <1>9, <1>10, <1>11, <1>12, <1>13,
         <1>14, <1>15, <1>16, <1>17, <1>18, <1>19, <1>20, <1>21, <1>22, <1>23, <1>24, <1>25,
            <1>26, <1>27 DEF SessionNext

\* StopReleases: in whichever mode a session was started, wherever start() failed and stop()
\* was cut, a stopped session has no page, no context and no browser of its own, and a pool's
\* browser is never closed by it.
THEOREM StopReleasesAll == SessionSpec => []StopReleases
  <1>1. OwnsInv /\ TypeInv => StopReleases
    BY DEF OwnsInv, StopReleases
  <1> QED BY <1>1, OwnsInit, OwnsStep, TypeInvariant, PTL DEF SessionSpec

-----------------------------------------------------------------------------
(***************************************************************************)
(* The pages somebody knows of.                                             *)
(***************************************************************************)
BatchPages == {load[u].page : u \in BatchUrls}
Known == {sess.page, sess.pending,
   act.popup} \cup sess.batch \cup BatchPages \cup Announced \cup ghost.left

\* A session whose own page was never made: a profile's old page may be open in it, but it
\* cannot become usable.
Pageless == sess.page = NoPage /\ act.at = "idle" /\ phase \notin {"ready", "page", "answer",
   "routes"}

LoadedInv == \A p \in sess.batch : \E u \in BatchUrls : load[u].at = "loading" /\ load[u].page = p

KeptInv ==
  /\ LoadedInv
  /\ phase \in {"launch", "context", "scripts", "page",
     "answer"} => sess.page = NoPage /\ act.at = "idle"
  /\ Pageless \/ open \subseteq Known

\* An announcement that is heard, or joins those that wait.
LEMMA AnnouncedTail ==
  ASSUME heard \in Seq(PageIds), heard # <<>>, heard' = Tail(heard)
  PROVE  Announced \subseteq {Head(heard)} \cup Announced'
  <1>1. \A i \in 1..Len(heard) : i # 1 => i - 1 \in 1..Len(Tail(heard)) /\ Tail(heard)[i - 1] = heard[i]
    OBVIOUS
  <1>2. Head(heard) = heard[1]
    OBVIOUS
  <1> QED BY <1>1, <1>2 DEF Announced

LEMMA AnnouncedAppend ==
  ASSUME heard \in Seq(PageIds), NEW p \in PageIds, heard' = Append(heard, p)
  PROVE  Announced \cup {p} \subseteq Announced'
  <1>1. \A i \in 1..Len(heard) : i \in 1..Len(Append(heard, p)) /\ Append(heard,
     p)[i] = heard[i]
    OBVIOUS
  <1>2. Len(heard) + 1 \in 1..Len(Append(heard, p)) /\ Append(heard, p)[Len(heard) + 1] = p
    OBVIOUS
  <1> QED BY <1>1, <1>2 DEF Announced

LEMMA AnnouncedKept == ASSUME heard' = heard PROVE Announced' = Announced
  BY DEF Announced

LEMMA BatchPagesKept == ASSUME load' = load PROVE BatchPages' = BatchPages
  BY DEF BatchPages

LEMMA BatchPagesLoading ==
  ASSUME TypeInv, NEW u \in BatchUrls, NEW at, NEW p, Loading(u, at, p)
  PROVE  /\ BatchPages \subseteq BatchPages' \cup {load[u].page}
         /\ p \in BatchPages' /\ load[u].page \in BatchPages
  BY DEF TypeInv, TrackInv, Load, BatchPages, Loading

LEMMA LoadedInBatch == LoadedInv => sess.batch \subseteq BatchPages
  BY DEF LoadedInv, BatchPages

LEMMA LoadedKept ==
  ASSUME LoadedInv, load' = load, sess'.batch \subseteq sess.batch
  PROVE  LoadedInv'
  BY DEF LoadedInv

LEMMA LoadedLoading ==
  ASSUME TypeInv, LoadedInv, NEW u \in BatchUrls, NEW at, NEW p, Loading(u, at, p),
         sess'.batch \subseteq sess.batch \cup (IF at = "loading" THEN {p} ELSE {}),
         load[u].at = "loading" => load[u].page \notin sess'.batch
  PROVE  LoadedInv'
  <1>1. /\ load'[u].at = at /\ load'[u].page = p
        /\ \A v \in BatchUrls : v # u => load'[v] = load[v]
    BY DEF TypeInv, TrackInv, Loading
  <1> QED BY <1>1 DEF LoadedInv

LEMMA KeptInit == SessionInit => KeptInv
  BY DEF SessionInit, KeptInv, LoadedInv

LEMMA KeptStep == KeptInv /\ TypeInv /\ [SessionNext]_bsvars => KeptInv'
  <1> SUFFICES ASSUME KeptInv /\ TypeInv, [SessionNext]_bsvars PROVE KeptInv'
    OBVIOUS
  <1> USE DEF KeptInv, Known, Pageless, TypeInv, StateInv, TrackInv, To, Starting, Stopping
  <1>1. CASE OnNewPage
    <2>1. /\ load' = load /\ act' = act /\ phase' = phase /\ heard' = Tail(heard) /\ heard # <<>>
          /\ ghost'.left = ghost.left
      BY <1>1 DEF OnNewPage, TypeInv, TrackInv, Ghost
    <2>2. sess'.page = sess.page /\ sess'.batch = sess.batch
      BY <1>1 DEF OnNewPage, TypeInv, StateInv, Sess
    <2>3. Announced \subseteq {Head(heard)} \cup Announced'
      BY <2>1, AnnouncedTail DEF TypeInv, TrackInv
    <2>4. LoadedInv' /\ BatchPages' = BatchPages
      BY <2>1, <2>2, LoadedKept, BatchPagesKept DEF KeptInv
    <2>5. CASE Head(heard) \in sess.batch
      <3>1. sess' = sess /\ open' = open
        BY <1>1, <2>5 DEF OnNewPage
      <3> QED BY <2>1, <2>3, <2>4, <2>5, <3>1 DEF KeptInv, Known, Pageless
    <2>6. CASE Head(heard) \notin sess.batch
      <3>1. sess'.pending = Head(heard) /\ open' = open \ {sess.pending}
        BY <1>1, <2>6 DEF OnNewPage, Unclaimed, TypeInv, StateInv, Sess
      <3> QED BY <2>1, <2>2, <2>3, <2>4, <3>1 DEF KeptInv, Known, Pageless
    <2> QED BY <2>5, <2>6
  <1>2. CASE PopupAppears
    BY <1>2, AnnouncedAppend, BatchPagesKept, LoadedKept, NextPageIsNew
       DEF PopupAppears, Appears
  <1>3. CASE BrowserCrashes
    BY <1>3, AnnouncedKept, BatchPagesKept, LoadedKept DEF BrowserCrashes, Ghost
  <1>4. CASE Launch
    BY <1>4, AnnouncedKept, BatchPagesKept, LoadedKept DEF Launch, Sess
  <1>5. CASE MakeContext
    BY <1>5, AnnouncedKept, BatchPagesKept, LoadedKept DEF MakeContext, Sess
  <1>6. CASE CloseOldPages
    BY <1>6, AnnouncedKept, BatchPagesKept, LoadedKept DEF CloseOldPages
  <1>7. CASE MakePage
    BY <1>7, AnnouncedAppend, BatchPagesKept, LoadedKept, NextPageIsNew
       DEF MakePage, Appears, Ghost
  <1>8. CASE HavePage
    BY <1>8, AnnouncedKept, BatchPagesKept, LoadedKept, SessionAssumption DEF HavePage, Sess
  <1>9. CASE StartDone
    BY <1>9, AnnouncedKept, BatchPagesKept, LoadedKept DEF StartDone
  <1>10. CASE StartRaises
    BY <1>10, AnnouncedKept, BatchPagesKept, LoadedKept DEF StartRaises
  <1>11. CASE Reuse
    BY <1>11, AnnouncedKept, BatchPagesKept, LoadedKept, SessionAssumption DEF Reuse
  <1>12. CASE BeginAction
    BY <1>12, AnnouncedKept, BatchPagesKept, LoadedKept DEF BeginAction, ToolFree
  <1>13. CASE TakePopup
    BY <1>13, AnnouncedKept, BatchPagesKept, LoadedKept DEF TakePopup, Consumed, Sess, Rest
  <1>14. CASE ClosePopup
    BY <1>14, AnnouncedKept, BatchPagesKept, LoadedKept DEF ClosePopup, Rest
  <1>15. CASE SwitchPage
    <2>1. sess'.page = act.popup /\ sess'.pending = sess.pending /\ sess'.batch = sess.batch
      BY <1>15 DEF SwitchPage, TypeInv, StateInv, Sess
    <2>2. /\ load' = load /\ heard' = heard /\ ghost' = ghost /\ phase' = phase
          /\ open' = open \ {sess.page} /\ act.popup # NoPage /\ act.at = "popup"
      BY <1>15, SessionAssumption DEF SwitchPage, TypeInv, StateInv, TrackInv
    <2>3. open' \subseteq Known'
      BY <2>1, <2>2, AnnouncedKept, BatchPagesKept DEF KeptInv, Known, Pageless
    <2>4. LoadedInv'
      BY <2>1, <2>2, LoadedKept DEF KeptInv
    <2> QED BY <1>15, <2>1, <2>2, <2>3, <2>4 DEF KeptInv, SwitchPage
  <1>16. CASE CutAction
    BY <1>16, AnnouncedKept, BatchPagesKept, LoadedKept DEF CutAction, Rest, Ghost
  <1>17. CASE BeginStop
    BY <1>17, AnnouncedKept, BatchPagesKept, LoadedKept DEF BeginStop, Sess
  <1>18. CASE StopBatch
    BY <1>18, AnnouncedKept, BatchPagesKept, LoadedKept, LoadedInBatch, StopBatchSession
       DEF StopBatch, Ghost
  <1>19. CASE StopContext
    BY <1>19, AnnouncedKept, BatchPagesKept, LoadedKept, StopContextSession DEF StopContext
  <1>20. CASE StopBrowser
    BY <1>20, AnnouncedKept, BatchPagesKept, LoadedKept DEF StopBrowser
  <1>21. CASE CutStop
    BY <1>21, AnnouncedKept, BatchPagesKept, LoadedKept DEF CutStop
  <1>22. ASSUME NEW u \in BatchUrls, OpenBatchPage(u) PROVE KeptInv'
    BY <1>22, AnnouncedAppend, BatchPagesLoading, LoadedLoading, NextPageIsNew
       DEF OpenBatchPage, Appears, Ghost
  <1>23. ASSUME NEW u \in BatchUrls, HaveBatchPage(u) PROVE KeptInv'
    BY <1>23, AnnouncedKept, BatchPagesLoading, LoadedLoading DEF HaveBatchPage, Sess
  <1>24. ASSUME NEW u \in BatchUrls, CloseBatchPage(u) PROVE KeptInv'
    BY <1>24, AnnouncedKept, BatchPagesLoading, LoadedLoading DEF CloseBatchPage, Sess
  <1>25. ASSUME NEW u \in BatchUrls, CutBatch(u) PROVE KeptInv'
    BY <1>25, AnnouncedKept, BatchPagesLoading, LoadedLoading DEF CutBatch, Ghost
  <1>26. ASSUME NEW p \in PageIds, PageCloses(p) PROVE KeptInv'
    BY <1>26, AnnouncedKept, BatchPagesKept, LoadedKept DEF PageCloses, Ghost
  <1>27. CASE UNCHANGED bsvars
    BY <1>27, AnnouncedKept, BatchPagesKept, LoadedKept DEF bsvars
  <1> QED BY <1>1, <1>2, <1>3, <1>4, <1>5, <1>6, <1>7, <1>8, <1>9, <1>10, <1>11, <1>12, <1>13,
         <1>14, <1>15, <1>16, <1>17, <1>18, <1>19, <1>20, <1>21, <1>22, <1>23, <1>24, <1>25,
            <1>26, <1>27 DEF SessionNext

\* NoStrayPage: while a session is in use, every open page is its page, the pending popup, one
\* that a call or a batch holds, one the listener has yet to hear of, or one that a cancelled
\* call left.
THEOREM NoPageIsStray == SessionSpec => []NoStrayPage
  <1>1. KeptInv => NoStrayPage
    BY DEF KeptInv, Known, Pageless, BatchPages, NoStrayPage
  <1> QED BY <1>1, KeptInit, KeptStep, TypeInvariant, PTL DEF SessionSpec

-----------------------------------------------------------------------------
(***************************************************************************)
(* The pages a session works on.                                            *)
(***************************************************************************)

\* Pages that are open, went by themselves, or were taken for popups.
Accounted == ghost.taken \cup ghost.gone \cup open

Held == {sess.page, sess.pending, act.popup} \ {NoPage}
InBatch(u) == load[u].at \in {"answer", "loading"}

\* A page is announced once: one that is still to be heard of is held only when the session
\* made it itself.
HeardInv ==
  /\ \A i, j \in 1..Len(heard) : heard[i] = heard[j] => i = j
  /\ Announced \subseteq born
  /\ Announced \cap Held \subseteq ghost.mine

\* The page, the pending popup and the popup an action holds are three pages, and none of the
\* session's own making is a popup, unless it was taken for one.
ApartInv ==
  /\ Held \subseteq born
  /\ sess.pending \in ghost.mine => sess.pending \in ghost.taken
  /\ act.popup \in ghost.mine => act.popup \in ghost.taken
  /\ sess.page = sess.pending => sess.page \in {NoPage} \cup ghost.taken
  /\ sess.page = act.popup => sess.page \in {NoPage} \cup ghost.taken
  /\ sess.pending = act.popup => act.popup \in {NoPage} \cup ghost.taken

\* Each URL of a batch has a page of its own, which is not the session's.
LoadsInv ==
  \A u \in BatchUrls : InBatch(u) =>
    /\ load[u].page \in ghost.mine
    /\ load[u].page = sess.page => load[u].page \in ghost.taken
    /\ \A v \in BatchUrls \ {u} : InBatch(v) => load[v].page # load[u].page

\* Until start() is done there is nothing beside the page it makes.
BeginInv ==
  /\ phase \in Starting => act.at = "idle" /\ \A u \in BatchUrls : ~InBatch(u)
  /\ phase \in {"launch", "context", "scripts", "page"} => ghost.mine = {}
  /\ phase \in Starting \ {"routes"} => sess.page = NoPage
  /\ phase \in {"answer", "routes", "ready"} => sess.context
  /\ phase \in {"routes", "ready"} => sess.page # NoPage

\* As long as there is a context, the pages in use are accounted for.
InUseInv ==
  sess.context =>
    /\ {sess.page, act.popup} \subseteq {NoPage} \cup Accounted
    /\ \A u \in BatchUrls : InBatch(u) => load[u].page \in Accounted
    /\ phase = "answer" => ghost.mine \subseteq Accounted

DriveInv == HeardInv /\ ApartInv /\ LoadsInv /\ BeginInv /\ InUseInv

LEMMA DriveInit == SessionInit => DriveInv
  BY DEF SessionInit, DriveInv, HeardInv, ApartInv, LoadsInv, BeginInv, InUseInv, Announced, Held,
         InBatch, Starting

\* An announcement is heard, and is over; another joins those that wait.
LEMMA HeardTail ==
  ASSUME heard \in Seq(PageIds), heard # <<>>, heard' = Tail(heard),
         \A i, j \in 1..Len(heard) : heard[i] = heard[j] => i = j
  PROVE  /\ \A i, j \in 1..Len(heard') : heard'[i] = heard'[j] => i = j
         /\ Announced' \subseteq Announced \ {Head(heard)}
         /\ Head(heard) \in Announced
  <1>1. Len(heard') = Len(heard) - 1 /\ \A i \in 1..Len(heard') : heard'[i] = heard[i + 1]
    OBVIOUS
  <1>2. Head(heard) = heard[1] /\ 1 \in 1..Len(heard) /\ Len(heard) \in Nat
    OBVIOUS
  <1>3. \A i, j \in 1..Len(heard') : heard'[i] = heard'[j] => i = j
    BY <1>1, <1>2
  <1>4. Announced' \subseteq Announced \ {Head(heard)}
    BY <1>1, <1>2 DEF Announced
  <1> QED BY <1>2, <1>3, <1>4 DEF Announced

LEMMA HeardAppend ==
  ASSUME heard \in Seq(PageIds), NEW p \in PageIds, p \notin Announced, heard' = Append(heard, p),
         \A i, j \in 1..Len(heard) : heard[i] = heard[j] => i = j
  PROVE  /\ \A i, j \in 1..Len(heard') : heard'[i] = heard'[j] => i = j
         /\ Announced' = Announced \cup {p}
  <1>1. /\ Len(heard') = Len(heard) + 1 /\ Len(heard) \in Nat /\ heard'[Len(heard) + 1] = p
        /\ \A i \in 1..Len(heard) : heard'[i] = heard[i]
    OBVIOUS
  <1>2. \A i \in 1..Len(heard) : heard[i] # p
    BY DEF Announced
  <1>3. \A i, j \in 1..Len(heard') : heard'[i] = heard'[j] => i = j
    BY <1>1, <1>2
  <1>4. Announced' = Announced \cup {p}
    BY <1>1 DEF Announced
  <1> QED BY <1>3, <1>4

\* A URL of the batch moves on.
LEMMA InBatchLoading ==
  ASSUME TypeInv, NEW u \in BatchUrls, NEW at, NEW p, Loading(u, at, p)
  PROVE  /\ load'[u].at = at /\ load'[u].page = p
         /\ \A v \in BatchUrls \ {u} : load'[v] = load[v]
  BY DEF TypeInv, TrackInv, Loading

LEMMA DriveStep == DriveInv /\ TypeInv /\ [SessionNext]_bsvars => DriveInv'
  <1> SUFFICES ASSUME DriveInv /\ TypeInv, [SessionNext]_bsvars PROVE DriveInv'
    OBVIOUS
  <1> USE DEF DriveInv, HeardInv, ApartInv, LoadsInv, BeginInv, InUseInv, Accounted, Held, InBatch,
              TypeInv, StateInv, TrackInv, To, Starting, Stopping
  <1>1. CASE OnNewPage
    <2>1. /\ load' = load /\ act' = act /\ phase' = phase /\ born' = born /\ heard' = Tail(heard)
          /\ heard # <<>>
      BY <1>1 DEF OnNewPage
    <2>2. /\ \A i, j \in 1..Len(heard') : heard'[i] = heard'[j] => i = j
          /\ Announced' \subseteq Announced \ {Head(heard)}
          /\ Head(heard) \in Announced /\ Head(heard) \in born
      BY <2>1, HeardTail
    <2>3. CASE Head(heard) \in sess.batch
      <3>1. sess' = sess /\ open' = open /\ ghost' = ghost
        BY <1>1, <2>3 DEF OnNewPage
      <3> QED BY <2>1, <2>2, <3>1
    <2>4. CASE Head(heard) \notin sess.batch
      <3>1. /\ sess'.page = sess.page /\ sess'.pending = Head(heard) /\ sess'.context = sess.context
            /\ open' = open \ {sess.pending}
        BY <1>1, <2>4 DEF OnNewPage, Unclaimed, Sess
      <3>2. /\ ghost'.mine = ghost.mine /\ ghost'.gone = ghost.gone
            /\ ghost'.taken = ghost.taken \cup ({Head(heard)} \cap ghost.mine)
        BY <1>1, <2>4 DEF OnNewPage, Ghost
      <3>3. HeardInv'
        BY <2>1, <2>2, <3>1, <3>2
      <3>4. ApartInv'
        BY <2>1, <2>2, <3>1, <3>2
      <3>5. LoadsInv' /\ BeginInv'
        BY <2>1, <3>1, <3>2
      <3>6. InUseInv'
        BY <2>1, <3>1, <3>2
      <3> QED BY <3>3, <3>4, <3>5, <3>6
    <2> QED BY <2>3, <2>4
  <1>2. CASE PopupAppears
    BY <1>2, HeardAppend, NextPageIsNew DEF PopupAppears, Appears
  <1>3. CASE BrowserCrashes
    BY <1>3, AnnouncedKept DEF BrowserCrashes, Ghost
  <1>4. CASE Launch
    BY <1>4, AnnouncedKept DEF Launch, Sess
  <1>5. CASE MakeContext
    BY <1>5, AnnouncedKept DEF MakeContext, Sess
  <1>6. CASE CloseOldPages
    BY <1>6, AnnouncedKept DEF CloseOldPages
  <1>7. CASE MakePage
    <2>1. /\ NextPage \in PageIds /\ NextPage \notin born /\ born' = born \cup {NextPage}
          /\ open' = open \cup {NextPage} /\ heard' = Append(heard, NextPage)
          /\ sess' = sess /\ act' = act /\ load' = load /\ phase = "page" /\ phase' = "answer"
          /\ sess.context
      BY <1>7, NextPageIsNew DEF MakePage, Appears
    <2>2. /\ ghost'.mine = ghost.mine \cup {NextPage} /\ ghost'.taken = ghost.taken
          /\ ghost'.gone = ghost.gone
      BY <1>7 DEF MakePage, Ghost
    <2>3. /\ \A i, j \in 1..Len(heard') : heard'[i] = heard'[j] => i = j
          /\ Announced' = Announced \cup {NextPage}
      BY <2>1, HeardAppend
    <2> HIDE DEF Announced, NextPage
    <2>4. HeardInv' /\ ApartInv'
      <3>1. HeardInv'
        BY <2>1, <2>2, <2>3
      <3>2. ApartInv'
        BY SessionAssumption, <2>1, <2>2, <2>3
      <3> QED BY <3>1, <3>2
    <2>5. LoadsInv' /\ BeginInv'
      BY <2>1, <2>2
    <2>6. InUseInv'
      BY <2>1, <2>2
    <2> QED BY <2>4, <2>5, <2>6
  <1>8. CASE HavePage
    <2>1. PICK p \in ghost.mine : sess'.page = p
      BY <1>8 DEF HavePage, Sess
    <2>2. /\ sess'.pending = sess.pending /\ sess'.context = sess.context /\ p # NoPage
          /\ load' = load /\ act' = act /\ heard' = heard /\ born' = born /\ ghost' = ghost
          /\ open' = open /\ phase = "answer" /\ phase' = "routes"
      BY <1>8, <2>1, SessionAssumption DEF HavePage, Sess, Ghost
    <2>3. HeardInv' /\ ApartInv'
      <3>1. HeardInv'
        BY <2>1, <2>2, AnnouncedKept
      <3>2. ApartInv'
        BY <2>1, <2>2
      <3> QED BY <3>1, <3>2
    <2>4. LoadsInv' /\ InUseInv'
      BY <2>1, <2>2
    <2>5. BeginInv'
      <3>1. sess'.context
        BY <2>2
      <3> QED BY <2>1, <2>2, <3>1
    <2> QED BY <2>3, <2>4, <2>5
  <1>9. CASE StartDone
    BY <1>9, AnnouncedKept DEF StartDone
  <1>10. CASE StartRaises
    BY <1>10, AnnouncedKept DEF StartRaises
  <1>11. CASE Reuse
    BY <1>11, AnnouncedKept, SessionAssumption DEF Reuse
  <1>12. CASE BeginAction
    BY <1>12, AnnouncedKept DEF BeginAction, ToolFree
  <1>13. CASE TakePopup
    BY <1>13, AnnouncedKept DEF TakePopup, Consumed, Sess, Rest
  <1>14. CASE ClosePopup
    <2>1. /\ act' = [at |-> "idle", popup |-> NoPage] /\ open' = open \ {act.popup}
          /\ UNCHANGED <<phase, sess, born, heard, load, ghost>>
      BY <1>14 DEF ClosePopup, Rest
    <2>2. HeardInv' /\ ApartInv'
      <3>1. HeardInv'
        BY <2>1, AnnouncedKept
      <3>2. ApartInv'
        BY SessionAssumption, <2>1
      <3> QED BY <3>1, <3>2
    <2>3. LoadsInv' /\ BeginInv'
      BY <2>1
    <2>4. InUseInv'
      BY <2>1
    <2> QED BY <2>2, <2>3, <2>4
  <1>15. CASE SwitchPage
    <2>1. /\ act' = [at |-> "idle", popup |-> NoPage] /\ open' = open \ {sess.page}
          /\ UNCHANGED <<phase, born, heard, load, ghost>>
          /\ act.at = "popup" /\ act.popup \in born /\ act.popup # NoPage
      BY <1>15, SessionAssumption DEF SwitchPage, Rest
    <2>2. /\ sess'.page = act.popup /\ sess'.pending = sess.pending
          /\ sess'.context = sess.context
      BY <1>15 DEF SwitchPage, Sess
    <2>3. HeardInv' /\ ApartInv'
      <3>1. HeardInv'
        BY <2>1, <2>2, AnnouncedKept
      <3>2. ApartInv'
        BY SessionAssumption, <2>1, <2>2
      <3> QED BY <3>1, <3>2
    <2>4. LoadsInv' /\ BeginInv'
      BY <2>1, <2>2
    <2>5. InUseInv'
      BY <2>1, <2>2
    <2> QED BY <2>3, <2>4, <2>5
  <1>16. CASE CutAction
    <2>1. /\ act' = [at |-> "idle", popup |-> NoPage]
          /\ UNCHANGED <<phase, sess, open, born, heard, load>>
          /\ ghost'.mine = ghost.mine /\ ghost'.taken = ghost.taken /\ ghost'.gone = ghost.gone
      BY <1>16 DEF CutAction, Rest, Ghost
    <2>2. HeardInv' /\ ApartInv'
      <3>1. HeardInv'
        BY <2>1, AnnouncedKept
      <3>2. ApartInv'
        BY SessionAssumption, <2>1
      <3> QED BY <3>1, <3>2
    <2>3. LoadsInv' /\ BeginInv' /\ InUseInv'
      BY <2>1
    <2> QED BY <2>2, <2>3
  <1>17. CASE BeginStop
    BY <1>17, AnnouncedKept DEF BeginStop, Sess
  <1>18. CASE StopBatch
    BY <1>18, AnnouncedKept, StopBatchSession DEF StopBatch, Ghost
  <1>19. CASE StopContext
    <2>1. /\ ~sess'.context /\ sess'.page = NoPage /\ sess'.pending = NoPage
          /\ phase' \in {"closing_browser", "stopped"}
          /\ UNCHANGED <<born, heard, act, load, ghost>>
      BY <1>19, StopContextSession DEF StopContext
    <2>2. HeardInv' /\ ApartInv'
      <3>1. HeardInv'
        BY <2>1, AnnouncedKept
      <3>2. ApartInv'
        BY SessionAssumption, <2>1
      <3> QED BY <3>1, <3>2
    <2>3. LoadsInv'
      <3> SUFFICES ASSUME NEW u \in BatchUrls, InBatch(u)
                   PROVE  /\ load[u].page \in ghost.mine /\ load[u].page # NoPage
                          /\ \A v \in BatchUrls \ {u} : InBatch(v) => load[v].page # load[u].page
        BY <2>1
      <3> QED BY SessionAssumption
    <2>4. BeginInv' /\ InUseInv'
      BY <2>1
    <2> QED BY <2>2, <2>3, <2>4
  <1>20. CASE StopBrowser
    BY <1>20, AnnouncedKept DEF StopBrowser
  <1>21. CASE CutStop
    BY <1>21, AnnouncedKept DEF CutStop
  <1>22. ASSUME NEW u \in BatchUrls, OpenBatchPage(u) PROVE DriveInv'
    <2>1. /\ NextPage \in PageIds /\ NextPage \notin born /\ born' = born \cup {NextPage}
          /\ open' = open \cup {NextPage} /\ heard' = Append(heard, NextPage)
          /\ sess' = sess /\ act' = act /\ phase' = phase /\ phase = "ready"
      BY <1>22, NextPageIsNew DEF OpenBatchPage, Appears
    <2>2. /\ ghost'.mine = ghost.mine \cup {NextPage} /\ ghost'.taken = ghost.taken
          /\ ghost'.gone = ghost.gone
      BY <1>22 DEF OpenBatchPage, Ghost
    <2>3. /\ \A i, j \in 1..Len(heard') : heard'[i] = heard'[j] => i = j
          /\ Announced' = Announced \cup {NextPage}
      BY <2>1, HeardAppend
    <2> HIDE DEF Announced, NextPage
    <2>4. /\ load'[u].at = "answer" /\ load'[u].page = NextPage
          /\ \A v \in BatchUrls \ {u} : load'[v] = load[v]
      BY <1>22, InBatchLoading DEF OpenBatchPage
    <2>5. HeardInv' /\ ApartInv'
      <3>1. HeardInv'
        BY <2>1, <2>2, <2>3
      <3>2. ApartInv'
        BY SessionAssumption, <2>1, <2>2, <2>3
      <3> QED BY <3>1, <3>2
    <2>6. LoadsInv'
      <3>1. \A v \in BatchUrls \ {u} : InBatch(v) => load[v].page \in born
        OBVIOUS
      <3>2. sess.page # NextPage
        BY <2>1, SessionAssumption
      <3> QED BY <2>1, <2>2, <2>4, <3>1, <3>2
    <2>7. BeginInv'
      BY <2>1
    <2>8. InUseInv'
      BY <2>1, <2>2, <2>4
    <2> QED BY <2>5, <2>6, <2>7, <2>8
  <1>23. ASSUME NEW u \in BatchUrls, HaveBatchPage(u) PROVE DriveInv'
    BY <1>23, AnnouncedKept, InBatchLoading DEF HaveBatchPage, Sess
  <1>24. ASSUME NEW u \in BatchUrls, CloseBatchPage(u) PROVE DriveInv'
    BY <1>24, AnnouncedKept, InBatchLoading DEF CloseBatchPage, Sess
  <1>25. ASSUME NEW u \in BatchUrls, CutBatch(u) PROVE DriveInv'
    BY <1>25, AnnouncedKept, InBatchLoading DEF CutBatch, Ghost
  <1>26. ASSUME NEW p \in PageIds, PageCloses(p) PROVE DriveInv'
    BY <1>26, AnnouncedKept DEF PageCloses, Ghost
  <1>27. CASE UNCHANGED bsvars
    BY <1>27, AnnouncedKept DEF bsvars
  <1> QED BY <1>1, <1>2, <1>3, <1>4, <1>5, <1>6, <1>7, <1>8, <1>9, <1>10, <1>11, <1>12, <1>13,
         <1>14, <1>15, <1>16, <1>17, <1>18, <1>19, <1>20, <1>21, <1>22, <1>23, <1>24, <1>25,
            <1>26, <1>27 DEF SessionNext

\* DrivenPageKept: while a session is in use, its page and the pages its batch is loading are
\* open, unless they went by themselves or were themselves taken for popups; no popup that
\* comes, goes or replaces another, and no batch, closes them.
THEOREM DrivenPageIsKept == SessionSpec => []DrivenPageKept
  <1>1. DriveInv => DrivenPageKept
    BY DEF DriveInv, InUseInv, BeginInv, Accounted, InBatch, DrivenPageKept
  <1> QED BY <1>1, DriveInit, DriveStep, TypeInvariant, PTL DEF SessionSpec

=============================================================================
