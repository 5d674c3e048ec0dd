---------------------------- MODULE BrowserPool ----------------------------
(***************************************************************************)
(* server/browser_pool.py: one shared browser that hosts isolated          *)
(* BrowserContexts, gated by an asyncio.Semaphore.                          *)
(*                                                                         *)
(* A caller is an asyncio task inside one coroutine of the pool (acquire,   *)
(* session or release).  Tasks interleave only where the code awaits, so a  *)
(* step runs from one await to the next.  The reaper task and shutdown()    *)
(* are two more processes.  A member of Sessions is a BrowserSession        *)
(* together with the _PooledContext that wraps it: the code creates one     *)
(* wrapper per session it starts.                                           *)
(***************************************************************************)
EXTENDS Naturals, Sequences, FiniteSets

CONSTANTS
  Callers,      \* asyncio tasks that call the pool
  Ids,          \* session ids
  Sessions,     \* BrowserSession objects; each is started at most once
  None,         \* Python's None
  MaxContexts,  \* max_contexts
  Persistent,   \* config.persistent_profile: each session owns its browser
  Faults        \* subset of {"overlap", "cancel"}, see MayBegin and Cancel*

ASSUME PoolAssumption ==
  /\ MaxContexts \in Nat \ {0}
  /\ IsFiniteSet(Callers) /\ IsFiniteSet(Sessions)
  /\ None \notin Callers \cup Ids \cup Sessions
  /\ Callers \cap Sessions = {}
  /\ Persistent \in BOOLEAN
  /\ Faults \subseteq {"overlap", "cancel"}

VARIABLES
  sem,        \* asyncio.Semaphore._value
  waiters,    \* asyncio.Semaphore._waiters: FIFO, granted tasks stay until they run
  available,  \* _available_slots
  contexts,   \* _contexts: the session stored under an id, or None
  entry,      \* the _PooledContext around a session: its id, flag and idleness
  bs,         \* life of a BrowserSession and its Playwright context
  call,       \* what each task is doing in the pool
  reaper,     \* the reaper task: its stale list and the session it is stopping
  browser,    \* the shared Chromium: "up", "crashed", or "none" (self._browser is None)
  down        \* shutdown(): its snapshot of entries and the session it is stopping

pvars == <<sem, waiters, available, contexts, entry, bs, call, reaper, browser, down>>

(***************************************************************************)
(* Types.  "partial" is a BrowserSession whose start (or stop) was cut      *)
(* short with its Playwright context still open and nobody left to close it.*)
(***************************************************************************)
CallStage == {"idle", "waiting", "granted", "starting", "inside", "stopping"}
Call == [op : {"none", "acquire", "session", "release"}, id : Ids \cup {None},
         at : CallStage, sess : Sessions \cup {None}]
Entry == [id : Ids \cup {None}, holds : BOOLEAN, idle : BOOLEAN]

NoEntry == [id |-> None, holds |-> FALSE, idle |-> FALSE]
Returned(s) == [op |-> "none", id |-> None, at |-> "idle", sess |-> s]
Sleeping == [at |-> "sleep", todo |-> {}, sess |-> None]

PoolTypeOK ==
  /\ sem \in 0..MaxContexts
  /\ waiters \in Seq(Callers)
  /\ available \in 0..MaxContexts
  /\ contexts \in [Ids -> Sessions \cup {None}]
  /\ entry \in [Sessions -> Entry]
  /\ bs \in [Sessions -> {"unborn", "starting", "live", "partial", "closed"}]
  /\ call \in [Callers -> Call]
  /\ reaper \in [at : {"sleep", "stopping", "done"}, todo : SUBSET Ids, sess : Sessions \cup {None}]
  /\ browser \in {"up", "crashed", "none"}
  /\ down \in [at : {"no", "reaper", "stopping", "browser", "done"},
               todo : SUBSET Sessions, sess : Sessions \cup {None}]

PoolInit ==
  /\ sem = MaxContexts
  /\ waiters = <<>>
  /\ available = MaxContexts
  /\ contexts = [i \in Ids |-> None]
  /\ entry = [s \in Sessions |-> NoEntry]
  /\ bs = [s \in Sessions |-> "unborn"]
  /\ call = [c \in Callers |-> Returned(None)]
  /\ reaper = Sleeping
  /\ browser = "up"
  /\ down = [at |-> "no", todo |-> {}, sess |-> None]

-----------------------------------------------------------------------------
(***************************************************************************)
(* asyncio.Semaphore.                                                      *)
(***************************************************************************)

\* Semaphore.locked(): a new caller queues behind every task still in _waiters.
Locked == sem = 0 \/ waiters # <<>>

FirstWaiting(c, cl, w) ==
  \E k \in DOMAIN w : /\ w[k] = c /\ cl[c].at = "waiting"
                      /\ \A j \in 1..(k - 1) : cl[w[j]].at # "waiting"

\* The value has become v and the queue w: wake the first task not yet woken, if any.
Wake(cl, w, v) ==
  /\ waiters' = w
  /\ \/ /\ \A c \in Callers : ~FirstWaiting(c, cl, w)
        /\ sem' = v
        /\ call' = cl
     \/ \E c \in Callers : /\ FirstWaiting(c, cl, w)
                           /\ sem' = v - 1
                           /\ call' = [cl EXCEPT ![c].at = "granted"]

\* The queue once task c has run or left it.
Without(w, c) ==
  LET k == CHOOSE j \in DOMAIN w : w[j] = c
  IN  [j \in 1..(Len(w) - 1) |-> IF j < k THEN w[j] ELSE w[j + 1]]

\* Mutant of GiveSlotBack: the slot is counted, the semaphore not released.
GiveSlotBack_OnlyCounts(cl) == available' = available + 1 /\ call' = cl /\ UNCHANGED <<sem, waiters>>

\* `self._available_slots += 1; self._semaphore.release()`
GiveSlotBack(cl) == available' = available + 1 /\ Wake(cl, waiters, sem + 1)

-----------------------------------------------------------------------------
(***************************************************************************)
(* Acquiring: session() and acquire().                                      *)
(***************************************************************************)

Held(i) == contexts[i] # None /\ entry[contexts[i]].holds

\* One owner per id is the contract acquire() leaves to its callers ("Caller is
\* responsible for calling release when done"); "overlap" drops it.
MayBegin(c, op, i) ==
  \/ "overlap" \in Faults
  \/ /\ \A d \in Callers \ {c} : call[d].id = i => call[d].at \notin {"waiting", "granted", "starting"}
     /\ op = "acquire" => ~Held(i)

\* Bound: a call starts only while a BrowserSession object is left for it.
SessionsLeft ==
  Cardinality({s \in Sessions : bs[s] = "unborn"})
    > Cardinality({c \in Callers : call[c].at \in {"waiting", "granted"}})

Touch(s) == [entry EXCEPT ![s].idle = FALSE]

\* Task c holds the semaphore and runs _create_or_get up to its first await; cl is where the
\* tasks are, w and v the semaphore's queue and value.  An existing entry returns at once; a
\* missing shared browser raises, and both callers of _create_or_get give the slot back.
WithSlot(c, op, i, cl, w, v) ==
  \/ /\ contexts[i] # None
     /\ available' = available - 1
     /\ waiters' = w /\ sem' = v
     /\ IF op = "acquire"
          THEN /\ entry' = [Touch(contexts[i]) EXCEPT ![contexts[i]].holds = TRUE]
               /\ call' = [cl EXCEPT ![c] = Returned(contexts[i])]
          ELSE /\ entry' = Touch(contexts[i])
               /\ call' = [cl EXCEPT ![c] = [op |-> op, id |-> i, at |-> "inside", sess |-> contexts[i]]]
     /\ UNCHANGED bs
  \/ /\ contexts[i] = None /\ browser = "none" /\ ~Persistent
     /\ Wake([cl EXCEPT ![c] = Returned(None)], w, v + 1)
     /\ UNCHANGED <<available, entry, bs>>
  \/ /\ contexts[i] = None /\ (browser # "none" \/ Persistent)
     /\ available' = available - 1
     /\ waiters' = w /\ sem' = v
     /\ \E s \in Sessions :
          /\ bs[s] = "unborn"
          /\ bs' = [bs EXCEPT ![s] = "starting"]
          /\ call' = [cl EXCEPT ![c] = [op |-> op, id |-> i, at |-> "starting", sess |-> s]]
     /\ UNCHANGED entry

Begin(c, op, i) ==
  /\ call[c].at = "idle"
  /\ MayBegin(c, op, i) /\ SessionsLeft
  /\ \/ /\ ~Locked
        /\ WithSlot(c, op, i, call, waiters, sem - 1)
     \/ /\ Locked
        /\ waiters' = Append(waiters, c)
        /\ call' = [call EXCEPT ![c] = [op |-> op, id |-> i, at |-> "waiting", sess |-> None]]
        /\ UNCHANGED <<sem, available, entry, bs>>
  /\ UNCHANGED <<contexts, reaper, browser, down>>

\* A woken task runs again: Semaphore.acquire wakes the next one if the value is still
\* positive, then the slot is counted and _create_or_get starts.
Resume(c) ==
  LET w == Without(waiters, c) IN
  /\ call[c].at = "granted"
  /\ \/ /\ sem = 0 \/ \A d \in Callers : ~FirstWaiting(d, call, w)
        /\ WithSlot(c, call[c].op, call[c].id, call, w, sem)
     \/ /\ sem > 0
        /\ \E d \in Callers :
             /\ FirstWaiting(d, call, w)
             /\ WithSlot(c, call[c].op, call[c].id, [call EXCEPT ![d].at = "granted"], w, sem - 1)
  /\ UNCHANGED <<contexts, reaper, browser, down>>

\* Mutant of GiveUp: the wait is inside the try block that restores the slot.
GiveUp_CountsSlot(c) ==
  LET cl == [call EXCEPT ![c] = Returned(None)] IN
  /\ call[c].at \in {"waiting", "granted"}
  /\ available < MaxContexts /\ available' = available + 1
  /\ Wake(cl, Without(waiters, c), sem + 1)
  /\ UNCHANGED <<contexts, entry, bs, reaper, browser, down>>

\* asyncio.timeout or a cancellation ends the wait; a task already woken passes the
\* semaphore on (Semaphore.acquire's CancelledError branch).
GiveUp(c) ==
  LET cl == [call EXCEPT ![c] = Returned(None)] IN
  /\ call[c].at \in {"waiting", "granted"}
  /\ IF call[c].at = "granted"
       THEN Wake(cl, Without(waiters, c), sem + 1)
       ELSE waiters' = Without(waiters, c) /\ call' = cl /\ UNCHANGED sem
  /\ UNCHANGED <<available, contexts, entry, bs, reaper, browser, down>>

\* start_from_pool / start_persistent returned.  The new entry replaces whatever another
\* task stored under the id meanwhile; acquire() flags it before it returns.
StartOk(c) ==
  LET s == call[c].sess  i == call[c].id  acq == call[c].op = "acquire" IN
  /\ call[c].at = "starting"
  /\ browser = "up" \/ Persistent
  /\ bs' = [bs EXCEPT ![s] = "live"]
  /\ contexts' = [contexts EXCEPT ![i] = s]
  /\ entry' = [entry EXCEPT ![s] = [id |-> i, holds |-> acq, idle |-> FALSE]]
  /\ call' = [call EXCEPT ![c] = IF acq THEN Returned(s) ELSE [@ EXCEPT !.at = "inside"]]
  /\ UNCHANGED <<sem, waiters, available, reaper, browser, down>>

\* session()'s finally block touches whatever entry the id has by now.
TouchById(i) == IF contexts[i] = None THEN entry ELSE Touch(contexts[i])

\* Mutant of StartFail: only session() gives the slot of a failed start back.
StartFail_KeepsSlot(c) ==
  LET cl == [call EXCEPT ![c] = Returned(None)] IN
  /\ call[c].at = "starting"
  /\ bs' = [bs EXCEPT ![call[c].sess] = "closed"]
  /\ IF call[c].op = "session"
       THEN entry' = TouchById(call[c].id) /\ GiveSlotBack(cl)
       ELSE call' = cl /\ UNCHANGED <<entry, sem, waiters, available>>
  /\ UNCHANGED <<contexts, reaper, browser, down>>

\* The start raised.  A failure after new_context() leaves the Playwright context open:
\* the BrowserSession is dropped without stop().
StartFail(c) ==
  /\ call[c].at = "starting"
  /\ \E left \in {"closed", "partial"} :
       /\ left = "partial" => browser = "up" \/ Persistent
       /\ bs' = [bs EXCEPT ![call[c].sess] = left]
  /\ entry' = IF call[c].op = "session" THEN TouchById(call[c].id) ELSE entry
  /\ GiveSlotBack([call EXCEPT ![c] = Returned(None)])
  /\ UNCHANGED <<contexts, reaper, browser, down>>

\* The task is cancelled during the start.  `except Exception` in acquire() does not see
\* CancelledError, so the slot stays taken; session()'s finally gives it back.
CancelStart(c) ==
  LET cl == [call EXCEPT ![c] = Returned(None)] IN
  /\ "cancel" \in Faults
  /\ call[c].at = "starting"
  /\ \E left \in {"closed", "partial"} :
       /\ left = "partial" => browser = "up" \/ Persistent
       /\ bs' = [bs EXCEPT ![call[c].sess] = left]
  /\ IF call[c].op = "session"
       THEN entry' = TouchById(call[c].id) /\ GiveSlotBack(cl)
       ELSE call' = cl /\ UNCHANGED <<entry, sem, waiters, available>>
  /\ UNCHANGED <<contexts, reaper, browser, down>>

\* The body of `async with pool.session(id)` ends, by return, exception or cancellation.
\* The entry stays in _contexts.
ExitSession(c) ==
  /\ call[c].at = "inside"
  /\ entry' = TouchById(call[c].id)
  /\ GiveSlotBack([call EXCEPT ![c] = Returned(None)])
  /\ UNCHANGED <<contexts, bs, reaper, browser, down>>

-----------------------------------------------------------------------------
(***************************************************************************)
(* release(): pop, await stop(), then free the slot the entry holds.        *)
(***************************************************************************)

ReleaseBegin(c, i) ==
  /\ call[c].at = "idle"
  /\ \/ /\ contexts[i] = None
        /\ call' = [call EXCEPT ![c] = Returned(None)]
        /\ UNCHANGED contexts
     \/ /\ contexts[i] # None
        /\ contexts' = [contexts EXCEPT ![i] = None]
        /\ call' = [call EXCEPT ![c] = [op |-> "release", id |-> i, at |-> "stopping", sess |-> contexts[i]]]
  /\ UNCHANGED <<sem, waiters, available, entry, bs, reaper, browser, down>>

\* Mutant of AfterStop: the slot is freed whether or not the entry holds one.
AfterStop_Inflates(s, cl) ==
  /\ bs' = [bs EXCEPT ![s] = "closed"]
  /\ entry' = [entry EXCEPT ![s] = NoEntry]
  /\ GiveSlotBack(cl)

\* stop() has ended for session s, whose entry was popped: its slot is freed if it held one.
AfterStop(s, cl) ==
  /\ bs' = [bs EXCEPT ![s] = "closed"]
  /\ entry' = [entry EXCEPT ![s] = NoEntry]
  /\ IF entry[s].holds THEN GiveSlotBack(cl)
                       ELSE call' = cl /\ UNCHANGED <<sem, waiters, available>>

ReleaseDone(c) ==
  /\ call[c].at = "stopping"
  /\ AfterStop(call[c].sess, [call EXCEPT ![c] = Returned(None)])
  /\ UNCHANGED <<contexts, reaper, browser, down>>

\* `suppress(Exception)` lets CancelledError through: release() ends inside stop().
CancelRelease(c) ==
  /\ "cancel" \in Faults
  /\ call[c].at = "stopping"
  /\ bs' \in {[bs EXCEPT ![call[c].sess] = "closed"],
              [bs EXCEPT ![call[c].sess] = IF @ = "live" THEN "partial" ELSE @]}
  /\ entry' = [entry EXCEPT ![call[c].sess] = NoEntry]
  /\ call' = [call EXCEPT ![c] = Returned(None)]
  /\ UNCHANGED <<sem, waiters, available, contexts, reaper, browser, down>>

-----------------------------------------------------------------------------
(***************************************************************************)
(* The idle reaper.                                                        *)
(***************************************************************************)

\* idle_timeout seconds have passed since the entry's last_used_at.
Age(i) ==
  /\ contexts[i] # None /\ ~entry[contexts[i]].idle
  /\ entry' = [entry EXCEPT ![contexts[i]].idle = TRUE]
  /\ UNCHANGED <<sem, waiters, available, contexts, bs, call, reaper, browser, down>>

\* Mutant of Overdue: entries that hold a slot are never evicted.
Overdue_Unheld == {i \in Ids : contexts[i] # None /\ entry[contexts[i]].idle /\ ~entry[contexts[i]].holds}

Overdue == {i \in Ids : contexts[i] # None /\ entry[contexts[i]].idle}

\* Mutant of ReapNext: the whole list is popped before the first stop().
ReapNext_PopsAll(ids) ==
  LET present == {i \in ids : contexts[i] # None} IN
  \/ present = {} /\ reaper' = Sleeping /\ UNCHANGED contexts
  \/ \E i \in present :
       /\ contexts' = [j \in Ids |-> IF j \in ids THEN None ELSE contexts[j]]
       /\ reaper' = [at |-> "stopping", todo |-> ids \ {i}, sess |-> contexts[i]]

\* The reaper walks the rest of its list: ids that are gone are skipped, the next id that
\* has an entry is popped, whatever that entry is by now.
ReapNext(ids) ==
  LET present == {i \in ids : contexts[i] # None} IN
  \/ /\ present = {}
     /\ reaper' = Sleeping
     /\ UNCHANGED contexts
  \/ \E i \in present, gone \in SUBSET (ids \ present) :
       /\ contexts' = [contexts EXCEPT ![i] = None]
       /\ reaper' = [at |-> "stopping", todo |-> ids \ (gone \cup {i}), sess |-> contexts[i]]

ReaperWake ==
  /\ reaper.at = "sleep" /\ down.at = "no"
  /\ Overdue # {}
  /\ ReapNext(Overdue)
  /\ UNCHANGED <<sem, waiters, available, entry, bs, call, browser, down>>

ReaperStopped ==
  /\ reaper.at = "stopping"
  /\ AfterStop(reaper.sess, call)
  /\ ReapNext(reaper.todo)
  /\ UNCHANGED <<browser, down>>

-----------------------------------------------------------------------------
(***************************************************************************)
(* Shutdown, and a crash of the shared browser.                             *)
(***************************************************************************)

\* What is open in the shared browser dies with it; a persistent session has its own.
Die(b) == IF Persistent THEN bs
          ELSE [s \in Sessions |-> IF bs[s] \in {"live", "partial"} THEN "closed" ELSE bs[s]]

BrowserCrash ==
  /\ browser = "up" /\ ~Persistent
  /\ browser' = "crashed"
  /\ bs' = Die(bs)
  /\ UNCHANGED <<sem, waiters, available, contexts, entry, call, reaper, down>>

\* The event is set and the reaper cancelled; a stop() it was awaiting is cut short and
\* its slot is not freed.
ShutdownBegin ==
  /\ down.at = "no"
  /\ down' = [down EXCEPT !.at = "reaper"]
  /\ reaper' = [Sleeping EXCEPT !.at = "done"]
  /\ IF reaper.at = "stopping"
       THEN /\ bs' \in {[bs EXCEPT ![reaper.sess] = "closed"],
                        [bs EXCEPT ![reaper.sess] = IF @ = "live" THEN "partial" ELSE @]}
            /\ entry' = [entry EXCEPT ![reaper.sess] = NoEntry]
       ELSE UNCHANGED <<bs, entry>>
  /\ UNCHANGED <<sem, waiters, available, contexts, call, browser>>

\* Stop the next entry of the snapshot; after the last one, clear _contexts and close the
\* browser.  Entries are stopped without being popped.
StopNext(todo) ==
  \/ /\ todo = {}
     /\ contexts' = [i \in Ids |-> None]
     /\ down' = [at |-> "browser", todo |-> {}, sess |-> None]
  \/ \E s \in todo : /\ down' = [at |-> "stopping", todo |-> todo \ {s}, sess |-> s]
                     /\ UNCHANGED contexts

ShutdownSnapshot ==
  /\ down.at = "reaper"
  /\ StopNext({contexts[i] : i \in {j \in Ids : contexts[j] # None}})
  /\ UNCHANGED <<sem, waiters, available, entry, bs, call, reaper, browser>>

ShutdownStopped ==
  /\ down.at = "stopping"
  /\ bs' = [bs EXCEPT ![down.sess] = "closed"]
  /\ StopNext(down.todo)
  /\ UNCHANGED <<sem, waiters, available, entry, call, reaper, browser>>

ShutdownBrowserClosed ==
  /\ down.at = "browser"
  /\ down' = [down EXCEPT !.at = "done"]
  /\ browser' = "none"
  /\ bs' = Die(bs)
  /\ UNCHANGED <<sem, waiters, available, contexts, entry, call, reaper>>

-----------------------------------------------------------------------------
\* The steps of a call already under way, and of the pool's own tasks.
Proceed(c) ==
  \/ Resume(c) \/ GiveUp(c)
  \/ StartOk(c) \/ StartFail(c) \/ CancelStart(c)
  \/ ReleaseDone(c) \/ CancelRelease(c)

Background ==
  \/ \E i \in Ids : Age(i)
  \/ ReaperWake \/ ReaperStopped
  \/ BrowserCrash
  \/ ShutdownBegin \/ ShutdownSnapshot \/ ShutdownStopped \/ ShutdownBrowserClosed

PoolNext ==
  \/ \E c \in Callers :
       \/ \E i \in Ids : Begin(c, "acquire", i) \/ Begin(c, "session", i) \/ ReleaseBegin(c, i)
       \/ Proceed(c)
       \/ ExitSession(c)
  \/ Background

PoolSpec == PoolInit /\ [][PoolNext]_pvars

\* asyncio runs every ready task, Playwright calls return, bodies of session() end, the
\* clock advances; nothing obliges a caller to call, give up, be cancelled or release.
PoolFairness ==
  /\ \A c \in Callers : /\ WF_pvars(Resume(c))
                        /\ WF_pvars(StartOk(c) \/ StartFail(c))
                        /\ WF_pvars(ExitSession(c))
                        /\ WF_pvars(ReleaseDone(c))
  /\ \A i \in Ids : WF_pvars(Age(i))
  /\ WF_pvars(ReaperWake) /\ WF_pvars(ReaperStopped)

(***************************************************************************)
(* What the pool promises.                                                 *)
(***************************************************************************)

\* Sessions popped from _contexts whose stop() is still awaited by release() or the reaper.
Stopping(s) ==
  \/ \E c \in Callers : call[c].at = "stopping" /\ call[c].sess = s
  \/ reaper.at = "stopping" /\ reaper.sess = s

Stored(s) == \E i \in Ids : contexts[i] = s

\* Who accounts for a slot: a task between the semaphore and its return, or a held entry.
SlotHolders ==
  {c \in Callers : call[c].at \in {"starting", "inside"}}
    \cup {s \in Sessions : entry[s].holds /\ (Stored(s) \/ Stopping(s))}

\* No order of acquire, session, release, reaping, failure, cancellation and shutdown frees
\* a slot twice: free slots and slots somebody still holds never exceed max_contexts
\* (tests/test_browser_pool.py: "Semaphore must NOT inflate beyond max_contexts").
NoInflation == available + Cardinality(SlotHolders) <= MaxContexts

\* _available_slots mirrors the semaphore: the two differ by the tasks woken but not yet run.
MirrorsSemaphore ==
  available = sem + Cardinality({c \in Callers : call[c].at = "granted"})

\* While callers keep to one owner per id and nobody is cancelled inside a call, every slot
\* that is not free has a holder, so no order of failing starts, reaping and re-acquiring
\* loses one.
SlotConservation ==
  (Faults = {} /\ down.at = "no") => available + Cardinality(SlotHolders) = MaxContexts

\* No slot lies idle while a task queues for one, unless a woken task is still to run: it
\* takes the slot, or passes it on, and wakes the next one.  A caller that finds a free slot
\* may have queued behind the woken task, and whoever gives up, fails or is reaped hands on.
NobodyWaitsForAFreeSlot ==
  available > 0 /\ (\E c \in Callers : call[c].at = "waiting")
    => \E c \in Callers : call[c].at = "granted"

\* Under the same contract no browser context that started is lost while the pool runs:
\* it stays reachable through _contexts or through the task that is stopping it.
NoOrphanContext ==
  (Faults = {} /\ down.at = "no") =>
    \A s \in Sessions : bs[s] = "live" => Stored(s) \/ Stopping(s)

\* "Periodically evict idle sessions" (browser_pool.py:271): the reaper takes an entry out
\* of the pool only when it is idle at that moment.
ReaperEvictsOnlyIdle ==
  [][reaper'.at = "stopping" /\ reaper'.sess # reaper.sess
       => entry[reaper'.sess].idle]_pvars

\* A task queued for a slot is served even if nobody times out and no owner ever releases:
\* abandoned entries age, the reaper frees their slots, and the semaphore is FIFO.
WaiterServed ==
  \A c \in Callers :
    (call[c].at = "waiting" /\ down.at = "no") ~> (call[c].at # "waiting" \/ down.at # "no")

=============================================================================
