------------------------- MODULE BrowserPoolProofs -------------------------
(***************************************************************************)
(* TLAPS proofs about BrowserPool, for every set of tasks, ids and          *)
(* sessions, every max_contexts and every combination of faults.            *)
(***************************************************************************)
EXTENDS BrowserPool, TLAPS, FiniteSetTheorems, SequenceTheorems, NaturalsInduction,
        WellFoundedInduction

-----------------------------------------------------------------------------
(* Counting. *)

\* A set that gains at most one element grows by at most one.
LEMMA GrowByOne ==
  ASSUME NEW S, IsFiniteSet(S), NEW T, NEW x, T \subseteq S \cup {x}
  PROVE  IsFiniteSet(T) /\ Cardinality(T) <= Cardinality(S) + 1
<1>0. Cardinality(S) \in Nat
  BY FS_CardinalityType
<1>1. /\ IsFiniteSet(S \cup {x})
      /\ Cardinality(S \cup {x}) = IF x \in S THEN Cardinality(S) ELSE Cardinality(S) + 1
  BY FS_AddElement
<1>2. IsFiniteSet(T) /\ Cardinality(T) <= Cardinality(S \cup {x})
  BY <1>1, FS_Subset
<1>3. Cardinality(S) \in Nat /\ Cardinality(T) \in Nat /\ Cardinality(S \cup {x}) \in Nat
  BY <1>1, <1>2, FS_CardinalityType
<1> QED BY <1>0, <1>1, <1>2, <1>3

\* A set that loses one of its elements, and gains none, is smaller.
LEMMA ShrinkByOne ==
  ASSUME NEW S, IsFiniteSet(S), NEW x \in S, NEW T, T \subseteq S \ {x}
  PROVE  IsFiniteSet(T) /\ Cardinality(T) + 1 <= Cardinality(S)
<1>1. IsFiniteSet(S \ {x}) /\ Cardinality(S \ {x}) = Cardinality(S) - 1
  BY FS_RemoveElement
<1>2. IsFiniteSet(T) /\ Cardinality(T) <= Cardinality(S \ {x})
  BY <1>1, FS_Subset
<1>3. Cardinality(S) \in Nat /\ Cardinality(T) \in Nat /\ Cardinality(S \ {x}) \in Nat
  BY <1>1, <1>2, FS_CardinalityType
<1> QED BY <1>1, <1>2, <1>3

-----------------------------------------------------------------------------
(* Types. *)

\* What a task, the reaper and shutdown() refer to at each stage.
Shape ==
  /\ \A c \in Callers :
       /\ call[c].at # "idle" => call[c].id \in Ids
       /\ call[c].at \in {"waiting", "granted", "starting", "inside"} => call[c].op \in {"acquire", "session"}
       /\ call[c].at \in {"starting", "inside", "stopping"} => call[c].sess \in Sessions
  /\ reaper.at = "stopping" => reaper.sess \in Sessions
  /\ down.at = "stopping" => down.sess \in Sessions

Granted == {c \in Callers : call[c].at = "granted"}

\* The inductive invariant: types, shapes and the two counting facts.
SlotInv == PoolTypeOK /\ Shape /\ MirrorsSemaphore /\ NoInflation

LEMMA FiniteHolders ==
  /\ IsFiniteSet(SlotHolders) /\ Cardinality(SlotHolders) \in Nat
  /\ IsFiniteSet(Granted) /\ Cardinality(Granted) \in Nat
<1>1. SlotHolders \subseteq Callers \cup Sessions /\ Granted \subseteq Callers
  BY DEF SlotHolders, Granted
<1>2. IsFiniteSet(Callers \cup Sessions)
  BY PoolAssumption, FS_Union
<1> QED BY <1>1, <1>2, PoolAssumption, FS_Subset, FS_CardinalityType

LEMMA FiniteHoldersPrime ==
  /\ IsFiniteSet(SlotHolders') /\ Cardinality(SlotHolders)' \in Nat
  /\ IsFiniteSet(Granted') /\ Cardinality(Granted)' \in Nat
<1>1. SlotHolders' \subseteq Callers \cup Sessions /\ Granted' \subseteq Callers
  BY DEF SlotHolders, Granted
<1>2. IsFiniteSet(Callers \cup Sessions)
  BY PoolAssumption, FS_Union
<1> QED BY <1>1, <1>2, PoolAssumption, FS_Subset, FS_CardinalityType

\* Leaving the semaphore's queue keeps it a queue of tasks.
LEMMA WithoutType ==
  ASSUME NEW w \in Seq(Callers), NEW c
  PROVE  Without(w, c) \in Seq(Callers)
<1> DEFINE k == CHOOSE j \in DOMAIN w : w[j] = c
           n == Len(w) - 1
           f == [j \in 1..n |-> IF j < k THEN w[j] ELSE w[j + 1]]
<1>1. Len(w) \in Nat /\ \A j \in 1..Len(w) : w[j] \in Callers
  BY LenProperties, ElementOfSeq
<1>2. \A j \in 1..n : f[j] \in Callers
  BY <1>1
<1>3. CASE Len(w) = 0
  <2>1. 1..n = 1..0
    BY <1>3
  <2> HIDE DEF n
  <2>2. f \in [1..0 -> Callers]
    BY <1>2, <2>1
  <2> QED BY <2>2, IsASeq DEF Without, n
<1>4. CASE Len(w) # 0
  <2>1. n \in Nat
    BY <1>1, <1>4
  <2> HIDE DEF n
  <2>2. f \in [1..n -> Callers]
    BY <1>2
  <2> QED BY <2>1, <2>2, IsASeq DEF Without, n
<1> QED BY <1>3, <1>4

-----------------------------------------------------------------------------
(* The semaphore. *)

\* A task of cl that Wake leaves alone or wakes.
Woken(cl, c) == cl[c].at = "waiting" /\ call'[c] = [cl[c] EXCEPT !.at = "granted"]

\* Semaphore.release wakes at most one waiting task, and the semaphore's value plus the
\* tasks woken is the value it was given plus those woken before.
LEMMA WakeCounts ==
  ASSUME NEW STATE cl, cl \in [Callers -> Call], NEW STATE w, w \in Seq(Callers),
         NEW STATE v, v \in Nat \ {0},
         Wake(cl, w, v)
  PROVE  /\ call' \in [Callers -> Call] /\ waiters' \in Seq(Callers) /\ sem' \in Nat
         /\ \A c \in Callers : call'[c] = cl[c] \/ Woken(cl, c)
         /\ sem' + Cardinality(Granted') = v + Cardinality({c \in Callers : cl[c].at = "granted"})
<1> DEFINE G == {c \in Callers : cl[c].at = "granted"}
<1>0. IsFiniteSet(G) /\ Cardinality(G) \in Nat
  <2>1. G \subseteq Callers
    OBVIOUS
  <2> QED BY <2>1, PoolAssumption, FS_Subset, FS_CardinalityType
<1>1. waiters' \in Seq(Callers)
  BY DEF Wake
<1>2. CASE sem' = v /\ call' = cl
  <2>1. Granted' = G
    BY <1>2 DEF Granted
  <2> QED BY <1>0, <1>1, <1>2, <2>1
<1>3. ASSUME NEW c \in Callers, FirstWaiting(c, cl, w), sem' = v - 1,
             call' = [cl EXCEPT ![c].at = "granted"]
      PROVE  /\ call' \in [Callers -> Call] /\ sem' \in Nat
             /\ \A d \in Callers : call'[d] = cl[d] \/ Woken(cl, d)
             /\ sem' + Cardinality(Granted') = v + Cardinality(G)
  <2>1. cl[c].at = "waiting"
    BY <1>3 DEF FirstWaiting
  <2>2. call' = [cl EXCEPT ![c] = [cl[c] EXCEPT !.at = "granted"]]
    BY <1>3
  <2>3. cl[c] \in Call /\ [cl[c] EXCEPT !.at = "granted"] \in Call
    BY DEF Call, CallStage
  <2>4. call' \in [Callers -> Call]
    BY <2>2, <2>3
  <2>5. \A d \in Callers : call'[d] = cl[d] \/ Woken(cl, d)
    BY <2>1, <2>2, <2>3 DEF Woken
  <2>6. [cl[c] EXCEPT !.at = "granted"].at = "granted"
    BY <2>3 DEF Call
  <2>7. Granted' = G \cup {c} /\ c \notin G
    BY <2>1, <2>2, <2>6 DEF Granted
  <2>8. Cardinality(Granted') = Cardinality(G) + 1
    BY <1>0, <2>7, FS_AddElement
  <2>9. sem' \in Nat
    BY <1>3
  <2> QED BY <1>0, <1>3, <2>4, <2>5, <2>8, <2>9
<1> QED BY <1>1, <1>2, <1>3, <1>0 DEF Wake

\* The slot part of the invariant when a holder gives its slot back.
LEMMA GiveSlotBackCounts ==
  ASSUME SlotInv, NEW STATE cl, cl \in [Callers -> Call], GiveSlotBack(cl),
         \A c \in Callers : cl[c].at = "granted" <=> call[c].at = "granted",
         NEW h \in SlotHolders, SlotHolders' \subseteq SlotHolders \ {h}
  PROVE  /\ sem' \in 0..MaxContexts /\ available' \in 0..MaxContexts
         /\ MirrorsSemaphore' /\ NoInflation'
<1>1. sem \in Nat /\ available \in Nat /\ MaxContexts \in Nat /\ waiters \in Seq(Callers)
  BY PoolAssumption DEF SlotInv, PoolTypeOK
<1>2. {c \in Callers : cl[c].at = "granted"} = Granted
  BY DEF Granted
<1>3. /\ sem' \in Nat
      /\ sem' + Cardinality(Granted') = sem + 1 + Cardinality(Granted)
  <2>1. sem + 1 \in Nat \ {0} /\ Wake(cl, waiters, sem + 1)
    BY <1>1 DEF GiveSlotBack
  <2> QED BY <2>1, <1>1, <1>2, WakeCounts
<1>4. available' = available + 1 /\ available = sem + Cardinality(Granted)
  BY DEF GiveSlotBack, SlotInv, MirrorsSemaphore, Granted
<1>5. available' = sem' + Cardinality(Granted')
  BY <1>1, <1>3, <1>4, FiniteHolders, FiniteHoldersPrime
<1>6. Cardinality(SlotHolders') + 1 <= Cardinality(SlotHolders)
  BY FiniteHolders, ShrinkByOne
<1>7. available + Cardinality(SlotHolders) <= MaxContexts
  BY DEF SlotInv, NoInflation
<1>8. available' + Cardinality(SlotHolders') <= MaxContexts
  BY <1>1, <1>4, <1>6, <1>7, FiniteHolders, FiniteHoldersPrime
<1>9. sem' \in 0..MaxContexts /\ available' \in 0..MaxContexts
  <2>1. available' \in Nat /\ available' <= MaxContexts
    BY <1>1, <1>4, <1>8, FiniteHoldersPrime
  <2>2. sem' <= available'
    BY <1>3, <1>5, FiniteHoldersPrime
  <2> QED BY <1>1, <1>3, <2>1, <2>2
<1> QED BY <1>5, <1>8, <1>9 DEF MirrorsSemaphore, NoInflation, Granted

LEMMA FewerHolders ==
  ASSUME SlotHolders' \subseteq SlotHolders
  PROVE  Cardinality(SlotHolders') <= Cardinality(SlotHolders)
BY FiniteHolders, FS_Subset

\* The slot part of the invariant when no slot moves, though a task may be woken.
LEMMA NoSlotMoves ==
  ASSUME SlotInv, sem' \in Nat, available' = available,
         sem' + Cardinality(Granted') = available,
         Cardinality(SlotHolders') <= Cardinality(SlotHolders)
  PROVE  /\ sem' \in 0..MaxContexts /\ available' \in 0..MaxContexts
         /\ MirrorsSemaphore' /\ NoInflation'
<1>1. Cardinality(SlotHolders') <= Cardinality(SlotHolders)
  OBVIOUS
<1>2. available \in 0..MaxContexts /\ MaxContexts \in Nat
  BY PoolAssumption DEF SlotInv, PoolTypeOK
<1>3. available + Cardinality(SlotHolders) <= MaxContexts
  BY DEF SlotInv, NoInflation
<1>4. available' + Cardinality(SlotHolders') <= MaxContexts
  BY <1>1, <1>2, <1>3, FiniteHolders, FiniteHoldersPrime
<1>5. sem' <= available
  BY <1>2, FiniteHoldersPrime
<1> QED BY <1>2, <1>4, <1>5 DEF MirrorsSemaphore, NoInflation, Granted

\* The slot part of the invariant when a slot is taken: one more holder at most.
LEMMA TakeSlotCounts ==
  ASSUME SlotInv, sem' \in Nat, available' = available - 1,
         sem' + Cardinality(Granted') = available - 1,
         NEW x, SlotHolders' \subseteq SlotHolders \cup {x}
  PROVE  /\ sem' \in 0..MaxContexts /\ available' \in 0..MaxContexts
         /\ MirrorsSemaphore' /\ NoInflation'
<1>1. Cardinality(SlotHolders') <= Cardinality(SlotHolders) + 1
  BY FiniteHolders, GrowByOne
<1>2. available \in 0..MaxContexts /\ MaxContexts \in Nat
  BY PoolAssumption DEF SlotInv, PoolTypeOK
<1>3. available + Cardinality(SlotHolders) <= MaxContexts
  BY DEF SlotInv, NoInflation
<1>4. available' + Cardinality(SlotHolders') <= MaxContexts
  BY <1>1, <1>2, <1>3, FiniteHolders, FiniteHoldersPrime
<1>5. sem' <= available'
  BY <1>2, FiniteHoldersPrime
<1>6. available' \in Nat
  BY <1>2, <1>5
<1> QED BY <1>2, <1>4, <1>5, <1>6 DEF MirrorsSemaphore, NoInflation, Granted

-----------------------------------------------------------------------------
(* One lemma per action. *)

LEMMA ReturnedType == ASSUME NEW s \in Sessions \cup {None} PROVE Returned(s) \in Call
BY DEF Returned, Call, CallStage

\* Tasks that hold no slot and stop no session can take any shape outside those stages
\* without adding a slot holder.
LEMMA HoldersAfterCall ==
  ASSUME UNCHANGED <<contexts, entry, reaper>>,
         \A c \in Callers : call'[c].at \in {"starting", "inside", "stopping"}
                              => call'[c].at = call[c].at /\ call'[c].sess = call[c].sess
  PROVE  SlotHolders' \subseteq SlotHolders
BY DEF SlotHolders, Stored, Stopping

GrantedIn(cl) == {d \in Callers : cl[d].at = "granted"}

\* The tasks in cl are, but for c, where they were, or were woken.
LikeCall(cl, c) ==
  /\ cl \in [Callers -> Call]
  /\ \A d \in Callers \ {c} :
       /\ cl[d].at = call[d].at \/ (call[d].at = "waiting" /\ cl[d].at = "granted")
       /\ cl[d].op = call[d].op /\ cl[d].id = call[d].id /\ cl[d].sess = call[d].sess

\* Waking one task first leaves the tasks like that.
LEMMA PassedOn ==
  ASSUME SlotInv, NEW c \in Callers, NEW d \in Callers, call[d].at = "waiting"
  PROVE  LET cl == [call EXCEPT ![d].at = "granted"] IN
         LikeCall(cl, c) /\ GrantedIn(cl) = Granted \cup {d} /\ d \notin Granted
<1> DEFINE cl == [call EXCEPT ![d].at = "granted"]
<1>1. call \in [Callers -> Call]
  BY DEF SlotInv, PoolTypeOK
<1>2. [call[d] EXCEPT !.at = "granted"] \in Call
  BY <1>1 DEF Call, CallStage
<1>3. /\ cl \in [Callers -> Call] /\ cl[d] = [call[d] EXCEPT !.at = "granted"]
      /\ \A e \in Callers \ {d} : cl[e] = call[e]
  BY <1>1, <1>2
<1>4. cl[d].at = "granted" /\ cl[d].op = call[d].op /\ cl[d].id = call[d].id /\ cl[d].sess = call[d].sess
  BY <1>1, <1>3 DEF Call
<1> HIDE DEF cl
<1>5. LikeCall(cl, c)
  BY <1>3, <1>4 DEF LikeCall
<1>6. GrantedIn(cl) = Granted \cup {d} /\ d \notin Granted
  <2>1. d \notin Granted /\ d \in GrantedIn(cl)
    BY <1>4 DEF GrantedIn, Granted
  <2>2. \A e \in Callers \ {d} : e \in GrantedIn(cl) <=> e \in Granted
    BY <1>3 DEF GrantedIn, Granted
  <2>3. GrantedIn(cl) \subseteq Callers /\ Granted \subseteq Callers
    BY DEF GrantedIn, Granted
  <2> QED BY <2>1, <2>2, <2>3
<1> QED BY <1>5, <1>6 DEF cl

LEMMA LikeItself ==
  ASSUME SlotInv, NEW c
  PROVE  LikeCall(call, c) /\ GrantedIn(call) = Granted
BY DEF LikeCall, GrantedIn, Granted, SlotInv, PoolTypeOK

\* WithSlot, from a task that is idle or has just been woken.
LEMMA WithSlotStep ==
  ASSUME SlotInv, NEW c \in Callers, NEW op \in {"acquire", "session"}, NEW i \in Ids,
         NEW STATE cl, LikeCall(cl, c), NEW STATE w, w \in Seq(Callers), NEW STATE v, v \in Nat,
         WithSlot(c, op, i, cl, w, v), UNCHANGED <<contexts, reaper, browser, down>>,
         call[c].at \in {"idle", "granted"},
         v + Cardinality(GrantedIn(cl) \ {c}) = available - 1
  PROVE  SlotInv'
<1>a. /\ cl \in [Callers -> Call] /\ entry \in [Sessions -> Entry] /\ available \in Nat
      /\ contexts[i] \in Sessions \cup {None} /\ c \notin Sessions
      /\ \A d \in Callers \ {c} :
           /\ cl[d].at = call[d].at \/ (call[d].at = "waiting" /\ cl[d].at = "granted")
           /\ cl[d].op = call[d].op /\ cl[d].id = call[d].id /\ cl[d].sess = call[d].sess
  BY PoolAssumption DEF PoolTypeOK, SlotInv, LikeCall
<1>b. IsFiniteSet(GrantedIn(cl) \ {c}) /\ Cardinality(GrantedIn(cl) \ {c}) \in Nat
  <2>1. GrantedIn(cl) \ {c} \subseteq Callers
    BY DEF GrantedIn
  <2> QED BY <2>1, PoolAssumption, FS_Subset, FS_CardinalityType
<1>1. ASSUME contexts[i] # None, op = "acquire",
             available' = available - 1, waiters' = w, sem' = v, UNCHANGED bs,
             entry' = [Touch(contexts[i]) EXCEPT ![contexts[i]].holds = TRUE],
             call' = [cl EXCEPT ![c] = Returned(contexts[i])]
      PROVE  SlotInv'
  <2>1. contexts[i] \in Sessions /\ Returned(contexts[i]) \in Call
    BY <1>1, <1>a, ReturnedType
  <2>2. /\ call' \in [Callers -> Call] /\ call'[c].at = "idle"
        /\ \A d \in Callers \ {c} : call'[d] = cl[d]
    BY <1>1, <1>a, <2>1 DEF Returned
  <2>3. /\ entry' \in [Sessions -> Entry]
        /\ \A s \in Sessions \ {contexts[i]} : entry'[s] = entry[s]
    BY <1>1, <1>a, <2>1 DEF Touch, Entry
  <2>4. Granted' = GrantedIn(cl) \ {c}
    BY <2>2 DEF Granted, GrantedIn
  <2>5. SlotHolders' \subseteq SlotHolders \cup {contexts[i]}
    <3>1. \A d \in Callers : call'[d].at \in {"starting", "inside", "stopping"}
                               => call'[d].at = call[d].at /\ call'[d].sess = call[d].sess
      BY <1>a, <2>2
    <3>2. \A s \in Sessions : Stored(s)' = Stored(s) /\ (Stopping(s)' => Stopping(s))
      BY <3>1 DEF Stored, Stopping
    <3> QED BY <2>3, <3>1, <3>2 DEF SlotHolders
  <2>6. Shape'
    BY <1>a, <2>2 DEF Shape, SlotInv
  <2>7. /\ sem' \in 0..MaxContexts /\ available' \in 0..MaxContexts
        /\ MirrorsSemaphore' /\ NoInflation'
    BY <1>1, <2>4, <2>5, TakeSlotCounts
  <2> QED BY <1>1, <2>2, <2>3, <2>6, <2>7 DEF PoolTypeOK, SlotInv
<1>2. ASSUME NEW s \in Sessions, NEW stage \in {"starting", "inside"},
             available' = available - 1, waiters' = w, sem' = v,
             bs' \in [Sessions -> {"unborn", "starting", "live", "partial", "closed"}],
             entry' \in [Sessions -> Entry], \A t \in Sessions : entry'[t].holds = entry[t].holds,
             call' = [cl EXCEPT ![c] = [op |-> op, id |-> i, at |-> stage, sess |-> s]]
      PROVE  SlotInv'
  <2>1. [op |-> op, id |-> i, at |-> stage, sess |-> s] \in Call
    BY DEF Call, CallStage
  <2>2. /\ call' \in [Callers -> Call]
        /\ call'[c] = [op |-> op, id |-> i, at |-> stage, sess |-> s]
        /\ \A d \in Callers \ {c} : call'[d] = cl[d]
    BY <1>2, <1>a, <2>1
  <2>3. Granted' = GrantedIn(cl) \ {c}
    BY <2>2 DEF Granted, GrantedIn
  <2>4. SlotHolders' \subseteq SlotHolders \cup {c}
    BY <1>2, <1>a, <2>2 DEF SlotHolders, Stored, Stopping
  <2>5. Shape'
    BY <1>a, <2>2 DEF Shape, SlotInv
  <2>6. /\ sem' \in 0..MaxContexts /\ available' \in 0..MaxContexts
        /\ MirrorsSemaphore' /\ NoInflation'
    BY <1>2, <2>3, <2>4, TakeSlotCounts
  <2> QED BY <1>2, <2>2, <2>5, <2>6 DEF PoolTypeOK, SlotInv
<1>3. ASSUME Wake([cl EXCEPT ![c] = Returned(None)], w, v + 1),
             UNCHANGED <<available, entry, bs>>
      PROVE  SlotInv'
  <2> DEFINE ce == [cl EXCEPT ![c] = Returned(None)]
  <2>1. /\ ce \in [Callers -> Call] /\ ce[c].at = "idle"
        /\ \A d \in Callers \ {c} : ce[d] = cl[d]
    BY <1>a, ReturnedType DEF Returned
  <2>2. {d \in Callers : ce[d].at = "granted"} = GrantedIn(cl) \ {c}
    BY <2>1 DEF GrantedIn
  <2>3. v + 1 \in Nat \ {0}
    OBVIOUS
  <2> HIDE DEF ce
  <2>4. /\ call' \in [Callers -> Call] /\ waiters' \in Seq(Callers) /\ sem' \in Nat
        /\ \A d \in Callers : call'[d] = ce[d] \/ Woken(ce, d)
        /\ sem' + Cardinality(Granted') = v + 1 + Cardinality(GrantedIn(cl) \ {c})
    <3>1. Wake(ce, w, v + 1)
      BY <1>3 DEF ce
    <3>2. /\ call' \in [Callers -> Call] /\ waiters' \in Seq(Callers) /\ sem' \in Nat
          /\ \A d \in Callers : call'[d] = ce[d] \/ Woken(ce, d)
          /\ sem' + Cardinality(Granted') = v + 1 + Cardinality({d \in Callers : ce[d].at = "granted"})
      BY <2>1, <2>3, <3>1, WakeCounts
    <3> QED BY <3>2, <2>2
  <2>5. \A d \in Callers :
          /\ call'[d].at = ce[d].at \/ (ce[d].at = "waiting" /\ call'[d].at = "granted")
          /\ call'[d].op = ce[d].op /\ call'[d].id = ce[d].id /\ call'[d].sess = ce[d].sess
    BY <2>1, <2>4 DEF Woken, Call
  <2>6. SlotHolders' \subseteq SlotHolders
    BY <1>3, <1>a, <2>1, <2>5, HoldersAfterCall
  <2>7. Shape'
    BY <1>a, <2>1, <2>5 DEF Shape, SlotInv
  <2>8. sem' + Cardinality(Granted') = available
    <3>1. available \in Nat
      BY <1>a
    <3>2. sem' + Cardinality(Granted') = v + 1 + Cardinality(GrantedIn(cl) \ {c})
      BY <2>4
    <3> QED BY <1>b, <3>1, <3>2
  <2>9. /\ sem' \in 0..MaxContexts /\ available' \in 0..MaxContexts
        /\ MirrorsSemaphore' /\ NoInflation'
    BY <1>3, <2>4, <2>6, <2>8, NoSlotMoves, FewerHolders
  <2> QED BY <1>3, <2>4, <2>7, <2>9 DEF PoolTypeOK, SlotInv
<1>4. CASE contexts[i] # None /\ op = "acquire"
  BY <1>1, <1>4 DEF WithSlot
<1>5. CASE contexts[i] # None /\ op = "session"
  <2>1. PICK s \in Sessions : s = contexts[i]
    BY <1>5, <1>a
  <2>2. /\ Touch(s) \in [Sessions -> Entry]
        /\ \A t \in Sessions : Touch(s)[t].holds = entry[t].holds
    BY <1>a DEF Touch, Entry
  <2>3. /\ available' = available - 1 /\ waiters' = w /\ sem' = v /\ bs' = bs
        /\ entry' = Touch(s)
        /\ call' = [cl EXCEPT ![c] = [op |-> op, id |-> i, at |-> "inside", sess |-> s]]
    BY <1>5, <2>1 DEF WithSlot
  <2>4. bs' \in [Sessions -> {"unborn", "starting", "live", "partial", "closed"}]
    BY <2>3 DEF SlotInv, PoolTypeOK
  <2> QED BY <1>2, <2>2, <2>3, <2>4
<1>6. CASE contexts[i] = None
  <2>1. CASE Wake([cl EXCEPT ![c] = Returned(None)], w, v + 1) /\ UNCHANGED <<available, entry, bs>>
    BY <1>3, <2>1
  <2>2. ASSUME NEW s \in Sessions, available' = available - 1, waiters' = w, sem' = v,
               bs' = [bs EXCEPT ![s] = "starting"], UNCHANGED entry,
               call' = [cl EXCEPT ![c] = [op |-> op, id |-> i, at |-> "starting", sess |-> s]]
        PROVE  SlotInv'
    <3>1. bs' \in [Sessions -> {"unborn", "starting", "live", "partial", "closed"}]
      BY <2>2 DEF SlotInv, PoolTypeOK
    <3>2. entry' \in [Sessions -> Entry] /\ \A t \in Sessions : entry'[t].holds = entry[t].holds
      BY <1>a, <2>2
    <3> QED BY <1>2, <2>2, <3>1, <3>2
  <2> QED BY <1>6, <2>1, <2>2 DEF WithSlot
<1> QED BY <1>4, <1>5, <1>6

LEMMA BeginStep ==
  ASSUME SlotInv, NEW c \in Callers, NEW op \in {"acquire", "session"}, NEW i \in Ids,
         Begin(c, op, i)
  PROVE  SlotInv'
<1>a. /\ call \in [Callers -> Call] /\ waiters \in Seq(Callers) /\ sem \in Nat /\ available \in Nat
      /\ available = sem + Cardinality(Granted) /\ Cardinality(Granted) \in Nat
      /\ call[c].at = "idle"
  BY FiniteHolders, PoolAssumption DEF SlotInv, PoolTypeOK, MirrorsSemaphore, Granted, Begin
<1>1. ASSUME ~Locked, WithSlot(c, op, i, call, waiters, sem - 1), UNCHANGED <<contexts, reaper, browser, down>>
      PROVE  SlotInv'
  <2>1. sem - 1 \in Nat
    BY <1>1, <1>a DEF Locked
  <2>2. Cardinality(Granted \ {c}) = Cardinality(Granted)
    <3>1. Granted \ {c} = Granted
      BY <1>a DEF Granted
    <3> QED BY <3>1, Zenon
  <2>3. LikeCall(call, c) /\ (sem - 1) + Cardinality(GrantedIn(call) \ {c}) = available - 1
    <3>1. LikeCall(call, c) /\ Cardinality(GrantedIn(call) \ {c}) = Cardinality(Granted)
      BY <2>2, LikeItself
    <3> QED BY <1>a, <3>1
  <2> QED BY <1>1, <1>a, <2>1, <2>3, WithSlotStep
<1>2. ASSUME waiters' = Append(waiters, c),
             call' = [call EXCEPT ![c] = [op |-> op, id |-> i, at |-> "waiting", sess |-> None]],
             UNCHANGED <<sem, available, entry, bs>>, UNCHANGED <<contexts, reaper, browser, down>>
      PROVE  SlotInv'
  <2>1. [op |-> op, id |-> i, at |-> "waiting", sess |-> None] \in Call
    BY DEF Call, CallStage
  <2>2. /\ call' \in [Callers -> Call]
        /\ call'[c] = [op |-> op, id |-> i, at |-> "waiting", sess |-> None]
        /\ \A d \in Callers \ {c} : call'[d] = call[d]
    BY <1>2, <1>a, <2>1
  <2>3. waiters' \in Seq(Callers)
    BY <1>2, <1>a, AppendProperties
  <2>4. Granted' = Granted
    BY <1>a, <2>2 DEF Granted
  <2>5. SlotHolders' \subseteq SlotHolders
    BY <1>2, <2>2, HoldersAfterCall
  <2>6. Shape'
    BY <1>2, <2>2 DEF Shape, SlotInv
  <2>7. sem' \in Nat /\ available' = available /\ sem' + Cardinality(Granted') = available
    BY <1>2, <1>a, <2>4
  <2>8. /\ sem' \in 0..MaxContexts /\ available' \in 0..MaxContexts
        /\ MirrorsSemaphore' /\ NoInflation'
    BY <2>5, <2>7, NoSlotMoves, FewerHolders
  <2> QED BY <1>2, <2>2, <2>3, <2>6, <2>8 DEF SlotInv, PoolTypeOK
<1> QED BY <1>1, <1>2 DEF Begin

\* A woken task takes its slot; it may have woken another one before.
LEMMA ResumeTakes ==
  ASSUME SlotInv, NEW c \in Callers, Resume(c)
  PROVE  \E cl \in [Callers -> Call], v \in Nat :
           /\ LikeCall(cl, c)
           /\ v + Cardinality(GrantedIn(cl) \ {c}) = available - 1
           /\ WithSlot(c, call[c].op, call[c].id, cl, Without(waiters, c), v)
<1>a. /\ sem \in Nat /\ available \in Nat /\ call \in [Callers -> Call]
      /\ available = sem + Cardinality(Granted) /\ c \in Granted
  BY PoolAssumption DEF SlotInv, PoolTypeOK, MirrorsSemaphore, Granted, Resume
<1>b. /\ IsFiniteSet(Granted \ {c}) /\ Cardinality(Granted \ {c}) \in Nat
      /\ sem + Cardinality(Granted \ {c}) = available - 1
  <2>1. IsFiniteSet(Granted \ {c}) /\ Cardinality(Granted \ {c}) = Cardinality(Granted) - 1
    BY <1>a, FiniteHolders, FS_RemoveElement
  <2> QED BY <1>a, <2>1, FiniteHolders, FS_CardinalityType
<1>1. CASE WithSlot(c, call[c].op, call[c].id, call, Without(waiters, c), sem)
  <2>1. LikeCall(call, c) /\ sem + Cardinality(GrantedIn(call) \ {c}) = available - 1
    BY <1>b, LikeItself
  <2> QED BY <1>a, <1>1, <2>1
<1>2. ASSUME sem > 0, NEW d \in Callers, call[d].at = "waiting",
             WithSlot(c, call[c].op, call[c].id, [call EXCEPT ![d].at = "granted"],
                      Without(waiters, c), sem - 1)
      PROVE  \E cl \in [Callers -> Call], v \in Nat :
               /\ LikeCall(cl, c)
               /\ v + Cardinality(GrantedIn(cl) \ {c}) = available - 1
               /\ WithSlot(c, call[c].op, call[c].id, cl, Without(waiters, c), v)
  <2> DEFINE pass == [call EXCEPT ![d].at = "granted"]
  <2>1. LikeCall(pass, c) /\ GrantedIn(pass) = Granted \cup {d} /\ d \notin Granted
    BY <1>2, PassedOn
  <2>2. WithSlot(c, call[c].op, call[c].id, pass, Without(waiters, c), sem - 1)
    BY <1>2
  <2> HIDE DEF pass
  <2>3. GrantedIn(pass) \ {c} = (Granted \ {c}) \cup {d} /\ d \notin Granted \ {c}
    BY <1>a, <2>1
  <2>4. Cardinality(GrantedIn(pass) \ {c}) = Cardinality(Granted \ {c}) + 1
    BY <1>b, <2>3, FS_AddElement
  <2>5. sem - 1 \in Nat /\ (sem - 1) + Cardinality(GrantedIn(pass) \ {c}) = available - 1
    BY <1>a, <1>b, <1>2, <2>4
  <2>6. pass \in [Callers -> Call]
    BY <2>1 DEF LikeCall
  <2> QED BY <2>1, <2>2, <2>5, <2>6
<1> QED BY <1>1, <1>2 DEF Resume, FirstWaiting

LEMMA ResumeStep ==
  ASSUME SlotInv, NEW c \in Callers, Resume(c)
  PROVE  SlotInv'
<1>1. /\ call[c].at = "granted" /\ Without(waiters, c) \in Seq(Callers)
      /\ UNCHANGED <<contexts, reaper, browser, down>>
  BY WithoutType DEF SlotInv, PoolTypeOK, Resume
<1>2. PICK op \in {"acquire", "session"}, i \in Ids : op = call[c].op /\ i = call[c].id
  BY <1>1 DEF SlotInv, Shape
<1>3. PICK cl \in [Callers -> Call], v \in Nat :
        /\ LikeCall(cl, c)
        /\ v + Cardinality(GrantedIn(cl) \ {c}) = available - 1
        /\ WithSlot(c, op, i, cl, Without(waiters, c), v)
  BY <1>2, ResumeTakes
<1> QED BY <1>1, <1>3, WithSlotStep

\* Facts every step that ends a call uses.
LEMMA Ended ==
  ASSUME SlotInv, NEW c \in Callers, NEW r \in Sessions \cup {None}
  PROVE  LET cl == [call EXCEPT ![c] = Returned(r)] IN
         /\ cl \in [Callers -> Call] /\ cl[c].at = "idle"
         /\ \A d \in Callers \ {c} : cl[d] = call[d]
<1>1. Returned(r) \in Call /\ Returned(r).at = "idle"
  BY ReturnedType DEF Returned
<1> QED BY <1>1 DEF SlotInv, PoolTypeOK

\* Stages after a step that ends c's call and may wake another task.
LEMMA StagesAfterWake ==
  ASSUME NEW c \in Callers, NEW STATE cl, cl \in [Callers -> Call],
         cl[c].at = "idle", \A d \in Callers \ {c} : cl[d] = call[d],
         \A d \in Callers : call'[d] = cl[d] \/ Woken(cl, d)
  PROVE  /\ call'[c].at = "idle"
         /\ \A d \in Callers \ {c} :
              /\ call'[d].at = call[d].at \/ (call[d].at = "waiting" /\ call'[d].at = "granted")
              /\ call'[d].op = call[d].op /\ call'[d].id = call[d].id /\ call'[d].sess = call[d].sess
<1>1. call'[c].at = "idle"
  BY DEF Woken
<1>2. ASSUME NEW d \in Callers \ {c}
      PROVE  /\ call'[d].at = call[d].at \/ (call[d].at = "waiting" /\ call'[d].at = "granted")
             /\ call'[d].op = call[d].op /\ call'[d].id = call[d].id /\ call'[d].sess = call[d].sess
  <2>1. cl[d] = call[d] /\ cl[d] \in Call
    OBVIOUS
  <2>2. CASE call'[d] = cl[d]
    BY <2>1, <2>2
  <2>3. CASE Woken(cl, d)
    BY <2>1, <2>3 DEF Woken, Call
  <2> QED BY <2>2, <2>3
<1> QED BY <1>1, <1>2

\* A step of task c that gives the slot of holder h back and ends the call (or, for the
\* reaper, no call) keeps the invariant, whatever it does to the entries.
LEMMA GiveSlotBackStep ==
  ASSUME SlotInv, NEW STATE cl, cl \in [Callers -> Call], GiveSlotBack(cl),
         \A c \in Callers : cl[c].at = "granted" <=> call[c].at = "granted",
         NEW h \in SlotHolders, SlotHolders' \subseteq SlotHolders \ {h},
         contexts' \in [Ids -> Sessions \cup {None}], entry' \in [Sessions -> Entry],
         bs' \in [Sessions -> {"unborn", "starting", "live", "partial", "closed"}],
         reaper' \in [at : {"sleep", "stopping", "done"}, todo : SUBSET Ids, sess : Sessions \cup {None}],
         UNCHANGED <<browser, down>>, Shape'
  PROVE  SlotInv'
<1>1. /\ sem' \in 0..MaxContexts /\ available' \in 0..MaxContexts
      /\ MirrorsSemaphore' /\ NoInflation'
  BY GiveSlotBackCounts
<1>2. sem + 1 \in Nat \ {0} /\ waiters \in Seq(Callers)
  BY PoolAssumption DEF SlotInv, PoolTypeOK
<1>3. call' \in [Callers -> Call] /\ waiters' \in Seq(Callers)
  BY <1>2, WakeCounts DEF GiveSlotBack
<1> QED BY <1>1, <1>3 DEF SlotInv, PoolTypeOK

\* What GiveSlotBack does to the tasks' stages.
LEMMA GiveSlotBackCalls ==
  ASSUME SlotInv, NEW STATE cl, cl \in [Callers -> Call], GiveSlotBack(cl)
  PROVE  \A d \in Callers : call'[d] = cl[d] \/ Woken(cl, d)
<1>1. sem + 1 \in Nat \ {0} /\ waiters \in Seq(Callers)
  BY PoolAssumption DEF SlotInv, PoolTypeOK
<1> QED BY <1>1, WakeCounts DEF GiveSlotBack

\* The task gives back the slot it took itself: a failed or cancelled start, or the end of
\* session()'s body.
LEMMA OwnSlotBack ==
  ASSUME SlotInv, NEW c \in Callers, call[c].at \in {"starting", "inside"},
         GiveSlotBack([call EXCEPT ![c] = Returned(None)]),
         entry' \in [Sessions -> Entry], \A s \in Sessions : entry'[s].holds = entry[s].holds,
         bs' \in [Sessions -> {"unborn", "starting", "live", "partial", "closed"}],
         UNCHANGED <<contexts, reaper, browser, down>>
  PROVE  SlotInv'
<1> DEFINE cl == [call EXCEPT ![c] = Returned(None)]
<1>1. /\ cl \in [Callers -> Call] /\ cl[c].at = "idle"
      /\ \A d \in Callers \ {c} : cl[d] = call[d]
  BY Ended
<1>2. GiveSlotBack(cl)
  OBVIOUS
<1> HIDE DEF cl
<1>3. \A d \in Callers : call'[d] = cl[d] \/ Woken(cl, d)
  BY <1>1, <1>2, GiveSlotBackCalls
<1>4. /\ call'[c].at = "idle"
      /\ \A d \in Callers \ {c} :
           /\ call'[d].at = call[d].at \/ (call[d].at = "waiting" /\ call'[d].at = "granted")
           /\ call'[d].op = call[d].op /\ call'[d].id = call[d].id /\ call'[d].sess = call[d].sess
  BY <1>1, <1>3, StagesAfterWake
<1>5. c \in SlotHolders /\ c \notin Sessions
  BY PoolAssumption DEF SlotHolders
<1>6. SlotHolders' \subseteq SlotHolders \ {c}
  <2>1. \A s \in Sessions : Stored(s)' = Stored(s) /\ (Stopping(s)' => Stopping(s))
    BY <1>4 DEF Stored, Stopping
  <2> QED BY <1>4, <1>5, <2>1 DEF SlotHolders
<1>7. \A d \in Callers : cl[d].at = "granted" <=> call[d].at = "granted"
  BY <1>1
<1>8. Shape'
  BY <1>4 DEF Shape, SlotInv
<1>9. /\ contexts' \in [Ids -> Sessions \cup {None}]
      /\ reaper' \in [at : {"sleep", "stopping", "done"}, todo : SUBSET Ids, sess : Sessions \cup {None}]
  BY DEF SlotInv, PoolTypeOK
<1> QED BY <1>1, <1>2, <1>5, <1>6, <1>7, <1>8, <1>9, GiveSlotBackStep

\* session()'s finally block only resets idleness.
LEMMA TouchByIdType ==
  ASSUME SlotInv, NEW STATE i, i \in Ids
  PROVE  /\ TouchById(i) \in [Sessions -> Entry]
         /\ \A s \in Sessions : TouchById(i)[s].holds = entry[s].holds
BY DEF TouchById, Touch, SlotInv, PoolTypeOK, Entry

LEMMA StartFailStep ==
  ASSUME SlotInv, NEW c \in Callers, StartFail(c)
  PROVE  SlotInv'
<1>1. call[c].at = "starting" /\ call[c].id \in Ids
  BY DEF StartFail, SlotInv, Shape
<1>2. entry' \in [Sessions -> Entry] /\ \A s \in Sessions : entry'[s].holds = entry[s].holds
  BY <1>1, TouchByIdType DEF StartFail, SlotInv, PoolTypeOK
<1>3. bs' \in [Sessions -> {"unborn", "starting", "live", "partial", "closed"}]
  BY DEF StartFail, SlotInv, PoolTypeOK
<1> QED BY <1>1, <1>2, <1>3, OwnSlotBack DEF StartFail

LEMMA ExitSessionStep ==
  ASSUME SlotInv, NEW c \in Callers, ExitSession(c)
  PROVE  SlotInv'
<1>1. call[c].at = "inside" /\ call[c].id \in Ids
  BY DEF ExitSession, SlotInv, Shape
<1>2. entry' \in [Sessions -> Entry] /\ \A s \in Sessions : entry'[s].holds = entry[s].holds
  BY <1>1, TouchByIdType DEF ExitSession
<1>3. bs' \in [Sessions -> {"unborn", "starting", "live", "partial", "closed"}]
  BY DEF ExitSession, SlotInv, PoolTypeOK
<1> QED BY <1>1, <1>2, <1>3, OwnSlotBack DEF ExitSession

\* A task that leaves the semaphore's queue, by timeout or cancellation.
LEMMA GiveUpStep ==
  ASSUME SlotInv, NEW c \in Callers, GiveUp(c)
  PROVE  SlotInv'
<1> DEFINE cl == [call EXCEPT ![c] = Returned(None)]
<1>a. /\ waiters \in Seq(Callers) /\ sem \in Nat /\ available \in Nat
      /\ available = sem + Cardinality(Granted) /\ Cardinality(Granted) \in Nat
      /\ Without(waiters, c) \in Seq(Callers)
  BY FiniteHolders, PoolAssumption, WithoutType DEF SlotInv, PoolTypeOK, MirrorsSemaphore, Granted
<1>1. /\ cl \in [Callers -> Call] /\ cl[c].at = "idle"
      /\ \A d \in Callers \ {c} : cl[d] = call[d]
  BY Ended
<1>b. UNCHANGED <<available, contexts, entry, bs, reaper, browser, down>>
  BY DEF GiveUp
<1>2. CASE call[c].at = "granted"
  <2>1. Wake(cl, Without(waiters, c), sem + 1)
    BY <1>2 DEF GiveUp
  <2>2. sem + 1 \in Nat \ {0}
    BY <1>a
  <2> HIDE DEF cl
  <2>3. /\ call' \in [Callers -> Call] /\ waiters' \in Seq(Callers) /\ sem' \in Nat
        /\ \A d \in Callers : call'[d] = cl[d] \/ Woken(cl, d)
        /\ sem' + Cardinality(Granted') = sem + 1 + Cardinality({d \in Callers : cl[d].at = "granted"})
    BY <1>1, <1>a, <2>1, <2>2, WakeCounts
  <2>4. {d \in Callers : cl[d].at = "granted"} = Granted \ {c} /\ c \in Granted
    BY <1>1, <1>2 DEF Granted
  <2>5. Cardinality(Granted \ {c}) = Cardinality(Granted) - 1
    BY <2>4, FiniteHolders, FS_RemoveElement
  <2>6. sem' + Cardinality(Granted') = sem + 1 + Cardinality(Granted \ {c})
    BY <2>3, <2>4
  <2>7. sem' + Cardinality(Granted') = available
    BY <1>a, <2>5, <2>6
  <2>8. /\ call'[c].at = "idle"
        /\ \A d \in Callers \ {c} :
             /\ call'[d].at = call[d].at \/ (call[d].at = "waiting" /\ call'[d].at = "granted")
             /\ call'[d].op = call[d].op /\ call'[d].id = call[d].id /\ call'[d].sess = call[d].sess
    BY <1>1, <2>3, StagesAfterWake
  <2>9. SlotHolders' \subseteq SlotHolders
    BY <1>b, <2>8, HoldersAfterCall
  <2>10. Shape'
    BY <1>b, <2>8 DEF Shape, SlotInv
  <2>11. /\ sem' \in 0..MaxContexts /\ available' \in 0..MaxContexts
         /\ MirrorsSemaphore' /\ NoInflation'
    BY <1>b, <2>3, <2>7, <2>9, NoSlotMoves, FewerHolders
  <2> QED BY <1>b, <2>3, <2>10, <2>11 DEF SlotInv, PoolTypeOK
<1>3. CASE call[c].at = "waiting"
  <2>1. waiters' = Without(waiters, c) /\ call' = cl /\ sem' = sem
    BY <1>3 DEF GiveUp
  <2> HIDE DEF cl
  <2>2. Granted' = Granted
    BY <1>1, <1>3, <2>1 DEF Granted
  <2>3. SlotHolders' \subseteq SlotHolders
    BY <1>b, <1>1, <2>1, HoldersAfterCall
  <2>4. Shape'
    BY <1>b, <1>1, <2>1 DEF Shape, SlotInv
  <2>5. sem' \in Nat /\ sem' + Cardinality(Granted') = available
    BY <1>a, <2>1, <2>2
  <2>6. /\ sem' \in 0..MaxContexts /\ available' \in 0..MaxContexts
        /\ MirrorsSemaphore' /\ NoInflation'
    BY <1>b, <2>3, <2>5, NoSlotMoves, FewerHolders
  <2> QED BY <1>a, <1>b, <1>1, <2>1, <2>4, <2>6 DEF SlotInv, PoolTypeOK
<1> QED BY <1>2, <1>3 DEF GiveUp

\* Steps that move no slot and wake nobody.
LEMMA QuietStep ==
  ASSUME SlotInv, UNCHANGED <<sem, waiters, available>>,
         call' \in [Callers -> Call], Granted' = Granted,
         Cardinality(SlotHolders') <= Cardinality(SlotHolders),
         contexts' \in [Ids -> Sessions \cup {None}], entry' \in [Sessions -> Entry],
         bs' \in [Sessions -> {"unborn", "starting", "live", "partial", "closed"}],
         reaper' \in [at : {"sleep", "stopping", "done"}, todo : SUBSET Ids, sess : Sessions \cup {None}],
         browser' \in {"up", "crashed", "none"},
         down' \in [at : {"no", "reaper", "stopping", "browser", "done"},
                    todo : SUBSET Sessions, sess : Sessions \cup {None}],
         Shape'
  PROVE  SlotInv'
<1>1. available = sem + Cardinality(Granted) /\ sem \in Nat
  BY PoolAssumption DEF SlotInv, PoolTypeOK, MirrorsSemaphore, Granted
<1>2. sem' \in Nat /\ sem' + Cardinality(Granted') = available
  BY <1>1
<1>3. /\ sem' \in 0..MaxContexts /\ available' \in 0..MaxContexts
      /\ MirrorsSemaphore' /\ NoInflation'
  BY <1>2, NoSlotMoves
<1>4. waiters' \in Seq(Callers)
  BY DEF SlotInv, PoolTypeOK
<1> QED BY <1>3, <1>4 DEF SlotInv, PoolTypeOK

LEMMA StartOkStep ==
  ASSUME SlotInv, NEW c \in Callers, StartOk(c)
  PROVE  SlotInv'
<1>1. PICK s \in Sessions, i \in Ids : s = call[c].sess /\ i = call[c].id
  BY DEF StartOk, SlotInv, Shape
<1>2. /\ call[c].at = "starting" /\ c \in SlotHolders /\ c \notin Sessions
      /\ call[c] \in Call
  BY PoolAssumption DEF StartOk, SlotHolders, SlotInv, PoolTypeOK
<1>3. /\ contexts' = [contexts EXCEPT ![i] = s]
      /\ entry' = [entry EXCEPT ![s] = [id |-> i, holds |-> call[c].op = "acquire", idle |-> FALSE]]
      /\ bs' = [bs EXCEPT ![s] = "live"]
      /\ call' = [call EXCEPT ![c] = IF call[c].op = "acquire" THEN Returned(s) ELSE [@ EXCEPT !.at = "inside"]]
      /\ UNCHANGED <<sem, waiters, available, reaper, browser, down>>
  BY <1>1 DEF StartOk
<1>4. /\ call' \in [Callers -> Call] /\ \A d \in Callers \ {c} : call'[d] = call[d]
      /\ call[c].op = "acquire" => call'[c].at = "idle"
      /\ call[c].op # "acquire" => call'[c] = [call[c] EXCEPT !.at = "inside"]
  <2>1. Returned(s) \in Call /\ Returned(s).at = "idle"
    BY ReturnedType DEF Returned
  <2>2. [call[c] EXCEPT !.at = "inside"] \in Call
    BY <1>2 DEF Call, CallStage
  <2> QED BY <1>3, <2>1, <2>2 DEF SlotInv, PoolTypeOK
<1>5. /\ contexts' \in [Ids -> Sessions \cup {None}]
      /\ entry' \in [Sessions -> Entry]
      /\ bs' \in [Sessions -> {"unborn", "starting", "live", "partial", "closed"}]
  BY <1>3 DEF SlotInv, PoolTypeOK, Entry
<1>6. Granted' = Granted
  BY <1>2, <1>4 DEF Granted, Call
<1>7. \A d \in Callers : call'[d].at = "stopping" => call'[d] = call[d]
  BY <1>2, <1>4 DEF Call
<1>8. /\ \A t \in Sessions \ {s} : Stored(t)' => Stored(t)
      /\ \A t \in Sessions : Stopping(t)' => Stopping(t)
      /\ \A t \in Sessions \ {s} : entry'[t] = entry[t]
  BY <1>3, <1>5, <1>7 DEF Stored, Stopping, SlotInv, PoolTypeOK
<1>9. Cardinality(SlotHolders') <= Cardinality(SlotHolders)
  <2>1. CASE call[c].op = "acquire"
    <3>1. SlotHolders' \subseteq (SlotHolders \ {c}) \cup {s}
      BY <1>2, <1>4, <1>8, <2>1 DEF SlotHolders
    <3>2. /\ IsFiniteSet(SlotHolders \ {c})
          /\ Cardinality(SlotHolders \ {c}) = Cardinality(SlotHolders) - 1
      BY <1>2, FiniteHolders, FS_RemoveElement
    <3>3. Cardinality(SlotHolders') <= Cardinality(SlotHolders \ {c}) + 1
      BY <3>1, <3>2, GrowByOne
    <3> QED BY <3>2, <3>3, FiniteHolders, FiniteHoldersPrime
  <2>2. CASE call[c].op # "acquire"
    <3>1. ~entry'[s].holds
      BY <1>3, <2>2 DEF SlotInv, PoolTypeOK
    <3>2. SlotHolders' \subseteq SlotHolders
      BY <1>2, <1>4, <1>8, <3>1 DEF SlotHolders
    <3> QED BY <3>2, FewerHolders
  <2> QED BY <2>1, <2>2
<1>10. Shape'
  BY <1>2, <1>3, <1>4 DEF Shape, SlotInv, Call
<1>11. /\ reaper' \in [at : {"sleep", "stopping", "done"}, todo : SUBSET Ids, sess : Sessions \cup {None}]
       /\ browser' \in {"up", "crashed", "none"}
       /\ down' \in [at : {"no", "reaper", "stopping", "browser", "done"},
                     todo : SUBSET Sessions, sess : Sessions \cup {None}]
  BY <1>3 DEF SlotInv, PoolTypeOK
<1> QED BY <1>3, <1>4, <1>5, <1>6, <1>9, <1>10, <1>11, QuietStep

\* A cancelled task: its slot is returned only by session()'s finally block.
LEMMA CancelStartStep ==
  ASSUME SlotInv, NEW c \in Callers, CancelStart(c)
  PROVE  SlotInv'
<1>1. call[c].at = "starting" /\ call[c].id \in Ids
  BY DEF CancelStart, SlotInv, Shape
<1>2. bs' \in [Sessions -> {"unborn", "starting", "live", "partial", "closed"}]
  BY DEF CancelStart, SlotInv, PoolTypeOK
<1>3. CASE call[c].op = "session"
  <2>1. entry' \in [Sessions -> Entry] /\ \A s \in Sessions : entry'[s].holds = entry[s].holds
    BY <1>1, <1>3, TouchByIdType DEF CancelStart
  <2> QED BY <1>1, <1>2, <1>3, <2>1, OwnSlotBack DEF CancelStart
<1>4. CASE call[c].op # "session"
  <2>1. /\ call' = [call EXCEPT ![c] = Returned(None)]
        /\ UNCHANGED <<entry, sem, waiters, available, contexts, reaper, browser, down>>
    BY <1>4 DEF CancelStart
  <2>2. /\ call' \in [Callers -> Call] /\ call'[c].at = "idle"
        /\ \A d \in Callers \ {c} : call'[d] = call[d]
    BY <2>1, Ended
  <2>3. Granted' = Granted
    BY <1>1, <2>2 DEF Granted
  <2>4. SlotHolders' \subseteq SlotHolders
    BY <2>1, <2>2, HoldersAfterCall
  <2>5. Shape'
    BY <2>1, <2>2 DEF Shape, SlotInv
  <2>6. /\ contexts' \in [Ids -> Sessions \cup {None}] /\ entry' \in [Sessions -> Entry]
        /\ reaper' \in [at : {"sleep", "stopping", "done"}, todo : SUBSET Ids, sess : Sessions \cup {None}]
        /\ browser' \in {"up", "crashed", "none"}
        /\ down' \in [at : {"no", "reaper", "stopping", "browser", "done"},
                      todo : SUBSET Sessions, sess : Sessions \cup {None}]
    BY <2>1 DEF SlotInv, PoolTypeOK
  <2> QED BY <1>2, <2>1, <2>2, <2>3, <2>4, <2>5, <2>6, QuietStep, FewerHolders
<1> QED BY <1>3, <1>4

-----------------------------------------------------------------------------
(* release(), the reaper and shutdown(). *)

\* AfterStop ends no call but that of its own task and wakes at most one.
LEMMA AfterStopCalls ==
  ASSUME SlotInv, NEW STATE s, NEW STATE cl, cl \in [Callers -> Call], AfterStop(s, cl)
  PROVE  \A d \in Callers : call'[d] = cl[d] \/ Woken(cl, d)
BY GiveSlotBackCalls DEF AfterStop

\* A session is stopped and leaves the pool: the slot it held, if any, is freed once.
LEMMA AfterStopStep ==
  ASSUME SlotInv, NEW STATE s, s \in Sessions, Stopping(s),
         NEW STATE cl, cl \in [Callers -> Call], AfterStop(s, cl),
         \A d \in Callers : cl[d].at = "granted" <=> call[d].at = "granted",
         SlotHolders' \subseteq SlotHolders \ {s},
         contexts' \in [Ids -> Sessions \cup {None}],
         reaper' \in [at : {"sleep", "stopping", "done"}, todo : SUBSET Ids, sess : Sessions \cup {None}],
         UNCHANGED <<browser, down>>, Shape'
  PROVE  SlotInv'
<1>1. /\ entry' \in [Sessions -> Entry]
      /\ bs' \in [Sessions -> {"unborn", "starting", "live", "partial", "closed"}]
  BY DEF AfterStop, SlotInv, PoolTypeOK, NoEntry, Entry
<1>2. CASE entry[s].holds
  <2>1. GiveSlotBack(cl)
    BY <1>2 DEF AfterStop
  <2>2. s \in SlotHolders
    BY <1>2 DEF SlotHolders
  <2> QED BY <1>1, <2>1, <2>2, GiveSlotBackStep
<1>3. CASE ~entry[s].holds
  <2>1. call' = cl /\ UNCHANGED <<sem, waiters, available>>
    BY <1>3 DEF AfterStop
  <2>2. Granted' = Granted
    BY <2>1 DEF Granted
  <2>3. SlotHolders' \subseteq SlotHolders
    OBVIOUS
  <2>4. /\ browser' \in {"up", "crashed", "none"}
        /\ down' \in [at : {"no", "reaper", "stopping", "browser", "done"},
                      todo : SUBSET Sessions, sess : Sessions \cup {None}]
    BY DEF SlotInv, PoolTypeOK
  <2> QED BY <1>1, <2>1, <2>2, <2>3, <2>4, QuietStep, FewerHolders
<1> QED BY <1>2, <1>3

LEMMA ReleaseDoneStep ==
  ASSUME SlotInv, NEW c \in Callers, ReleaseDone(c)
  PROVE  SlotInv'
<1> DEFINE cl == [call EXCEPT ![c] = Returned(None)]
<1>1. /\ cl \in [Callers -> Call] /\ cl[c].at = "idle"
      /\ \A d \in Callers \ {c} : cl[d] = call[d]
  BY Ended
<1>2. PICK s \in Sessions : s = call[c].sess
  BY DEF ReleaseDone, SlotInv, Shape
<1>3. /\ call[c].at = "stopping" /\ Stopping(s) /\ AfterStop(s, cl)
      /\ UNCHANGED <<contexts, reaper, browser, down>>
  BY <1>2 DEF ReleaseDone, Stopping
<1> HIDE DEF cl
<1>4. /\ call'[c].at = "idle"
      /\ \A d \in Callers \ {c} :
           /\ call'[d].at = call[d].at \/ (call[d].at = "waiting" /\ call'[d].at = "granted")
           /\ call'[d].op = call[d].op /\ call'[d].id = call[d].id /\ call'[d].sess = call[d].sess
  <2>1. \A d \in Callers : call'[d] = cl[d] \/ Woken(cl, d)
    BY <1>1, <1>3, AfterStopCalls
  <2> QED BY <1>1, <2>1, StagesAfterWake
<1>5. entry' = [entry EXCEPT ![s] = NoEntry] /\ entry \in [Sessions -> Entry] /\ Sessions \cap Callers = {}
  BY <1>3, PoolAssumption DEF AfterStop, SlotInv, PoolTypeOK
<1>6. SlotHolders' \subseteq SlotHolders \ {s}
  <2>1. \A t \in Sessions : Stored(t)' = Stored(t) /\ (Stopping(t)' => Stopping(t))
    BY <1>3, <1>4 DEF Stored, Stopping
  <2>2. ~entry'[s].holds /\ \A t \in Sessions \ {s} : entry'[t] = entry[t]
    BY <1>5 DEF NoEntry
  <2>3. \A d \in Callers : call'[d].at \in {"starting", "inside"} => call[d].at \in {"starting", "inside"}
    BY <1>4
  <2> QED BY <1>5, <2>1, <2>2, <2>3 DEF SlotHolders
<1>7. Shape'
  BY <1>3, <1>4 DEF Shape, SlotInv
<1>8. \A d \in Callers : cl[d].at = "granted" <=> call[d].at = "granted"
  BY <1>1, <1>3
<1>9. /\ contexts' \in [Ids -> Sessions \cup {None}]
      /\ reaper' \in [at : {"sleep", "stopping", "done"}, todo : SUBSET Ids, sess : Sessions \cup {None}]
      /\ UNCHANGED <<browser, down>>
  BY <1>3 DEF SlotInv, PoolTypeOK
<1> QED BY <1>1, <1>3, <1>6, <1>7, <1>8, <1>9, AfterStopStep

\* A popped entry keeps its slot until stop() ends.
LEMMA ReleaseBeginStep ==
  ASSUME SlotInv, NEW c \in Callers, NEW i \in Ids, ReleaseBegin(c, i)
  PROVE  SlotInv'
<1>1. /\ call[c].at = "idle" /\ UNCHANGED <<sem, waiters, available, entry, bs, reaper, browser, down>>
      /\ entry' \in [Sessions -> Entry]
      /\ bs' \in [Sessions -> {"unborn", "starting", "live", "partial", "closed"}]
      /\ reaper' \in [at : {"sleep", "stopping", "done"}, todo : SUBSET Ids, sess : Sessions \cup {None}]
      /\ browser' \in {"up", "crashed", "none"}
      /\ down' \in [at : {"no", "reaper", "stopping", "browser", "done"},
                    todo : SUBSET Sessions, sess : Sessions \cup {None}]
  BY DEF ReleaseBegin, SlotInv, PoolTypeOK
<1>2. CASE contexts[i] = None
  <2>1. call' = [call EXCEPT ![c] = Returned(None)] /\ contexts' = contexts
    BY <1>2 DEF ReleaseBegin
  <2>2. /\ call' \in [Callers -> Call] /\ call'[c].at = "idle"
        /\ \A d \in Callers \ {c} : call'[d] = call[d]
    BY <2>1, Ended
  <2>3. Granted' = Granted
    BY <1>1, <2>2 DEF Granted
  <2>4. SlotHolders' \subseteq SlotHolders
    BY <1>1, <2>1, <2>2, HoldersAfterCall
  <2>5. Shape'
    BY <1>1, <2>2 DEF Shape, SlotInv
  <2>6. contexts' \in [Ids -> Sessions \cup {None}]
    BY <2>1 DEF SlotInv, PoolTypeOK
  <2> QED BY <1>1, <2>2, <2>3, <2>4, <2>5, <2>6, QuietStep, FewerHolders
<1>3. CASE contexts[i] # None
  <2> DEFINE k == [op |-> "release", id |-> i, at |-> "stopping", sess |-> contexts[i]]
  <2>1. call' = [call EXCEPT ![c] = k] /\ contexts' = [contexts EXCEPT ![i] = None]
    BY <1>3 DEF ReleaseBegin
  <2>2. contexts \in [Ids -> Sessions \cup {None}] /\ contexts[i] \in Sessions /\ call \in [Callers -> Call]
    BY <1>3 DEF SlotInv, PoolTypeOK
  <2>3. k \in Call
    BY <2>2 DEF Call, CallStage
  <2>4. /\ call' \in [Callers -> Call] /\ call'[c] = k
        /\ \A d \in Callers \ {c} : call'[d] = call[d]
    BY <2>1, <2>2, <2>3
  <2>5. Granted' = Granted
    BY <1>1, <2>4 DEF Granted
  <2>6. SlotHolders' \subseteq SlotHolders
    <3>1. \A t \in Sessions : (Stored(t) \/ Stopping(t))' => Stored(t) \/ Stopping(t)
      BY <1>1, <2>1, <2>2, <2>4, PoolAssumption DEF Stored, Stopping
    <3>2. \A d \in Callers : call'[d].at \in {"starting", "inside"} => call[d].at \in {"starting", "inside"}
      BY <2>4
    <3> QED BY <1>1, <3>1, <3>2 DEF SlotHolders
  <2>7. Shape'
    BY <1>1, <2>2, <2>4 DEF Shape, SlotInv
  <2>8. contexts' \in [Ids -> Sessions \cup {None}]
    BY <2>1, <2>2
  <2> QED BY <1>1, <2>4, <2>5, <2>6, <2>7, <2>8, QuietStep, FewerHolders
<1> QED BY <1>2, <1>3

\* A cancelled release() loses the slot: fewer holders, the same free slots.
LEMMA CancelReleaseStep ==
  ASSUME SlotInv, NEW c \in Callers, CancelRelease(c)
  PROVE  SlotInv'
<1>1. /\ call[c].at = "stopping" /\ call[c].sess \in Sessions
      /\ entry' = [entry EXCEPT ![call[c].sess] = NoEntry]
      /\ call' = [call EXCEPT ![c] = Returned(None)]
      /\ UNCHANGED <<sem, waiters, available, contexts, reaper, browser, down>>
      /\ entry \in [Sessions -> Entry]
  BY DEF CancelRelease, SlotInv, PoolTypeOK, Shape
<1>2. /\ call' \in [Callers -> Call] /\ call'[c].at = "idle"
      /\ \A d \in Callers \ {c} : call'[d] = call[d]
  BY <1>1, Ended
<1>3. Granted' = Granted
  BY <1>1, <1>2 DEF Granted
<1>4. entry' \in [Sessions -> Entry] /\ \A s \in Sessions : entry'[s].holds => entry[s].holds
  BY <1>1 DEF NoEntry, Entry
<1>5. SlotHolders' \subseteq SlotHolders
  <2>1. \A t \in Sessions : (Stored(t) \/ Stopping(t))' => Stored(t) \/ Stopping(t)
    BY <1>1, <1>2 DEF Stored, Stopping
  <2> QED BY <1>2, <1>4, <2>1 DEF SlotHolders
<1>6. Shape'
  BY <1>1, <1>2 DEF Shape, SlotInv
<1>7. /\ contexts' \in [Ids -> Sessions \cup {None}]
      /\ bs' \in [Sessions -> {"unborn", "starting", "live", "partial", "closed"}]
      /\ reaper' \in [at : {"sleep", "stopping", "done"}, todo : SUBSET Ids, sess : Sessions \cup {None}]
      /\ browser' \in {"up", "crashed", "none"}
      /\ down' \in [at : {"no", "reaper", "stopping", "browser", "done"},
                    todo : SUBSET Sessions, sess : Sessions \cup {None}]
  BY <1>1 DEF CancelRelease, SlotInv, PoolTypeOK
<1> QED BY <1>1, <1>2, <1>3, <1>4, <1>5, <1>6, <1>7, QuietStep, FewerHolders

LEMMA AgeStep ==
  ASSUME SlotInv, NEW i \in Ids, Age(i)
  PROVE  SlotInv'
<1>1. PICK s \in Sessions : s = contexts[i]
  BY DEF Age, SlotInv, PoolTypeOK
<1>2. /\ entry' = [entry EXCEPT ![s].idle = TRUE] /\ entry \in [Sessions -> Entry]
      /\ UNCHANGED <<sem, waiters, available, contexts, bs, call, reaper, browser, down>>
  BY <1>1 DEF Age, SlotInv, PoolTypeOK
<1>3. entry' \in [Sessions -> Entry] /\ \A t \in Sessions : entry'[t].holds = entry[t].holds
  BY <1>2 DEF Entry
<1>4. SlotHolders' \subseteq SlotHolders
  BY <1>2, <1>3 DEF SlotHolders, Stored, Stopping
<1>5. Granted' = Granted /\ Shape'
  BY <1>2 DEF Granted, Shape, SlotInv
<1>6. /\ contexts' \in [Ids -> Sessions \cup {None}] /\ call' \in [Callers -> Call]
      /\ bs' \in [Sessions -> {"unborn", "starting", "live", "partial", "closed"}]
      /\ reaper' \in [at : {"sleep", "stopping", "done"}, todo : SUBSET Ids, sess : Sessions \cup {None}]
      /\ browser' \in {"up", "crashed", "none"}
      /\ down' \in [at : {"no", "reaper", "stopping", "browser", "done"},
                    todo : SUBSET Sessions, sess : Sessions \cup {None}]
  BY <1>2 DEF SlotInv, PoolTypeOK
<1> QED BY <1>2, <1>3, <1>4, <1>5, <1>6, QuietStep, FewerHolders

\* Whatever the reaper pops next was stored, and everything else stays where it was.
LEMMA ReapNextPops ==
  ASSUME SlotInv, NEW STATE ids, ids \in SUBSET Ids, ReapNext(ids)
  PROVE  /\ contexts' \in [Ids -> Sessions \cup {None}]
         /\ reaper' \in [at : {"sleep", "stopping", "done"}, todo : SUBSET Ids, sess : Sessions \cup {None}]
         /\ reaper'.at = "stopping" => reaper'.sess \in Sessions /\ Stored(reaper'.sess)
         /\ \A t \in Sessions : Stored(t)' => Stored(t)
<1>a. contexts \in [Ids -> Sessions \cup {None}] /\ None \notin Sessions
  BY PoolAssumption DEF SlotInv, PoolTypeOK
<1>1. CASE reaper' = Sleeping /\ UNCHANGED contexts
  BY <1>a, <1>1 DEF Sleeping, Stored
<1>2. ASSUME NEW i \in ids, contexts[i] # None, NEW gone \in SUBSET ids,
             contexts' = [contexts EXCEPT ![i] = None],
             reaper' = [at |-> "stopping", todo |-> ids \ (gone \cup {i}), sess |-> contexts[i]]
      PROVE  /\ contexts' \in [Ids -> Sessions \cup {None}]
             /\ reaper' \in [at : {"sleep", "stopping", "done"}, todo : SUBSET Ids, sess : Sessions \cup {None}]
             /\ reaper'.sess \in Sessions /\ Stored(reaper'.sess)
             /\ \A t \in Sessions : Stored(t)' => Stored(t)
  <2>1. contexts[i] \in Sessions /\ Stored(contexts[i])
    BY <1>a, <1>2 DEF Stored
  <2>2. \A t \in Sessions : Stored(t)' => Stored(t)
    BY <1>a, <1>2 DEF Stored
  <2>3. ids \ (gone \cup {i}) \in SUBSET Ids
    OBVIOUS
  <2>4. contexts' \in [Ids -> Sessions \cup {None}]
    BY <1>a, <1>2
  <2>5. reaper' \in [at : {"sleep", "stopping", "done"}, todo : SUBSET Ids, sess : Sessions \cup {None}]
    BY <1>2, <2>1, <2>3
  <2> QED BY <1>2, <2>1, <2>2, <2>4, <2>5
<1> QED BY <1>1, <1>2 DEF ReapNext

LEMMA ReaperWakeStep ==
  ASSUME SlotInv, ReaperWake
  PROVE  SlotInv'
<1>1. Overdue \in SUBSET Ids /\ ReapNext(Overdue)
  BY DEF ReaperWake, Overdue
<1>2. /\ contexts' \in [Ids -> Sessions \cup {None}]
      /\ reaper' \in [at : {"sleep", "stopping", "done"}, todo : SUBSET Ids, sess : Sessions \cup {None}]
      /\ reaper'.at = "stopping" => reaper'.sess \in Sessions /\ Stored(reaper'.sess)
      /\ \A t \in Sessions : Stored(t)' => Stored(t)
  BY <1>1, ReapNextPops
<1>3. UNCHANGED <<sem, waiters, available, entry, bs, call, browser, down>>
  BY DEF ReaperWake
<1>4. SlotHolders' \subseteq SlotHolders
  <2>1. \A t \in Sessions : (Stored(t) \/ Stopping(t))' => Stored(t) \/ Stopping(t)
    BY <1>2, <1>3 DEF Stopping
  <2> QED BY <1>3, <2>1 DEF SlotHolders
<1>5. Granted' = Granted /\ Shape'
  BY <1>2, <1>3 DEF Granted, Shape, SlotInv
<1>6. /\ entry' \in [Sessions -> Entry] /\ call' \in [Callers -> Call]
      /\ bs' \in [Sessions -> {"unborn", "starting", "live", "partial", "closed"}]
      /\ browser' \in {"up", "crashed", "none"}
      /\ down' \in [at : {"no", "reaper", "stopping", "browser", "done"},
                    todo : SUBSET Sessions, sess : Sessions \cup {None}]
  BY <1>3 DEF SlotInv, PoolTypeOK
<1> QED BY <1>2, <1>3, <1>4, <1>5, <1>6, QuietStep, FewerHolders

LEMMA ReaperStoppedStep ==
  ASSUME SlotInv, ReaperStopped
  PROVE  SlotInv'
<1>1. /\ reaper.at = "stopping" /\ AfterStop(reaper.sess, call) /\ ReapNext(reaper.todo)
      /\ UNCHANGED <<browser, down>>
  BY DEF ReaperStopped
<1>2. /\ reaper.sess \in Sessions /\ Stopping(reaper.sess) /\ reaper.todo \in SUBSET Ids
      /\ call \in [Callers -> Call] /\ entry \in [Sessions -> Entry] /\ Sessions \cap Callers = {}
  BY <1>1, PoolAssumption DEF Stopping, SlotInv, Shape, PoolTypeOK
<1>3. /\ contexts' \in [Ids -> Sessions \cup {None}]
      /\ reaper' \in [at : {"sleep", "stopping", "done"}, todo : SUBSET Ids, sess : Sessions \cup {None}]
      /\ reaper'.at = "stopping" => reaper'.sess \in Sessions /\ Stored(reaper'.sess)
      /\ \A t \in Sessions : Stored(t)' => Stored(t)
  BY <1>1, <1>2, ReapNextPops
<1>4. \A d \in Callers : call'[d] = call[d] \/ Woken(call, d)
  BY <1>1, <1>2, AfterStopCalls
<1>5. \A d \in Callers :
        /\ call'[d].at = call[d].at \/ (call[d].at = "waiting" /\ call'[d].at = "granted")
        /\ call'[d].op = call[d].op /\ call'[d].id = call[d].id /\ call'[d].sess = call[d].sess
  <2> TAKE d \in Callers
  <2>1. call[d] \in Call
    BY <1>2
  <2>2. CASE call'[d] = call[d]
    BY <2>2
  <2>3. CASE Woken(call, d)
    BY <2>1, <2>3 DEF Woken, Call
  <2> QED BY <1>4, <2>2, <2>3
<1>6. SlotHolders' \subseteq SlotHolders \ {reaper.sess}
  <2>1. \A t \in Sessions : (Stored(t) \/ Stopping(t))' => Stored(t) \/ Stopping(t)
    BY <1>3, <1>5 DEF Stopping
  <2>2. ~entry'[reaper.sess].holds /\ \A t \in Sessions \ {reaper.sess} : entry'[t] = entry[t]
    BY <1>1, <1>2 DEF AfterStop, NoEntry
  <2>3. \A d \in Callers : call'[d].at \in {"starting", "inside"} => call[d].at \in {"starting", "inside"}
    BY <1>5
  <2> QED BY <1>2, <2>1, <2>2, <2>3 DEF SlotHolders
<1>7. Shape'
  BY <1>1, <1>3, <1>5 DEF Shape, SlotInv
<1> QED BY <1>1, <1>2, <1>3, <1>6, <1>7, AfterStopStep

\* A crash of the shared browser closes what it hosts and frees no slot.
LEMMA DieType ==
  ASSUME SlotInv
  PROVE  Die(bs) \in [Sessions -> {"unborn", "starting", "live", "partial", "closed"}]
BY DEF Die, SlotInv, PoolTypeOK

LEMMA BrowserCrashStep ==
  ASSUME SlotInv, BrowserCrash
  PROVE  SlotInv'
<1>1. /\ UNCHANGED <<sem, waiters, available, contexts, entry, call, reaper, down>>
      /\ bs' = Die(bs) /\ browser' = "crashed"
  BY DEF BrowserCrash
<1>2. SlotHolders' \subseteq SlotHolders /\ Granted' = Granted /\ Shape'
  BY <1>1 DEF SlotHolders, Stored, Stopping, Granted, Shape, SlotInv
<1>3. /\ contexts' \in [Ids -> Sessions \cup {None}] /\ entry' \in [Sessions -> Entry]
      /\ call' \in [Callers -> Call] /\ browser' \in {"up", "crashed", "none"}
      /\ reaper' \in [at : {"sleep", "stopping", "done"}, todo : SUBSET Ids, sess : Sessions \cup {None}]
      /\ down' \in [at : {"no", "reaper", "stopping", "browser", "done"},
                    todo : SUBSET Sessions, sess : Sessions \cup {None}]
  BY <1>1 DEF SlotInv, PoolTypeOK
<1>4. bs' \in [Sessions -> {"unborn", "starting", "live", "partial", "closed"}]
  BY <1>1, DieType
<1> QED BY <1>1, <1>2, <1>3, <1>4, QuietStep, FewerHolders

\* The cancelled reaper drops the session it was stopping, slot and all.
LEMMA ShutdownBeginStep ==
  ASSUME SlotInv, ShutdownBegin
  PROVE  SlotInv'
<1>1. /\ UNCHANGED <<sem, waiters, available, contexts, call, browser>>
      /\ down' = [down EXCEPT !.at = "reaper"]
      /\ reaper' = [Sleeping EXCEPT !.at = "done"]
      /\ entry \in [Sessions -> Entry]
  BY DEF ShutdownBegin, SlotInv, PoolTypeOK
<1>2. /\ reaper'.at = "done" /\ down'.at = "reaper"
      /\ reaper' \in [at : {"sleep", "stopping", "done"}, todo : SUBSET Ids, sess : Sessions \cup {None}]
      /\ down' \in [at : {"no", "reaper", "stopping", "browser", "done"},
                    todo : SUBSET Sessions, sess : Sessions \cup {None}]
  BY <1>1 DEF Sleeping, SlotInv, PoolTypeOK
<1>3. /\ entry' \in [Sessions -> Entry] /\ \A s \in Sessions : entry'[s].holds => entry[s].holds
      /\ bs' \in [Sessions -> {"unborn", "starting", "live", "partial", "closed"}]
  <2>1. CASE reaper.at = "stopping"
    <3>1. entry' = [entry EXCEPT ![reaper.sess] = NoEntry]
      BY <2>1 DEF ShutdownBegin
    <3>2. entry' \in [Sessions -> Entry] /\ \A s \in Sessions : entry'[s].holds => entry[s].holds
      BY <1>1, <3>1 DEF NoEntry, Entry
    <3>3. bs' \in [Sessions -> {"unborn", "starting", "live", "partial", "closed"}]
      BY <2>1 DEF ShutdownBegin, SlotInv, PoolTypeOK
    <3> QED BY <3>2, <3>3
  <2>2. CASE reaper.at # "stopping"
    BY <1>1, <2>2 DEF ShutdownBegin, SlotInv, PoolTypeOK
  <2> QED BY <2>1, <2>2
<1>4. SlotHolders' \subseteq SlotHolders
  BY <1>1, <1>2, <1>3 DEF SlotHolders, Stored, Stopping
<1>5. Granted' = Granted /\ Shape'
  BY <1>1, <1>2 DEF Granted, Shape, SlotInv
<1>6. /\ contexts' \in [Ids -> Sessions \cup {None}]
      /\ call' \in [Callers -> Call] /\ browser' \in {"up", "crashed", "none"}
  BY <1>1 DEF SlotInv, PoolTypeOK
<1> QED BY <1>1, <1>2, <1>3, <1>4, <1>5, <1>6, QuietStep, FewerHolders

\* shutdown() stops the entries it saw without popping them, then clears the map.
LEMMA StopNextKeeps ==
  ASSUME SlotInv, NEW STATE todo, todo \in SUBSET Sessions, StopNext(todo)
  PROVE  /\ contexts' \in [Ids -> Sessions \cup {None}]
         /\ down' \in [at : {"no", "reaper", "stopping", "browser", "done"},
                       todo : SUBSET Sessions, sess : Sessions \cup {None}]
         /\ down'.at = "stopping" => down'.sess \in Sessions
         /\ \A t \in Sessions : Stored(t)' => Stored(t)
<1>a. contexts \in [Ids -> Sessions \cup {None}] /\ None \notin Sessions
  BY PoolAssumption DEF SlotInv, PoolTypeOK
<1>1. CASE contexts' = [i \in Ids |-> None] /\ down' = [at |-> "browser", todo |-> {}, sess |-> None]
  BY <1>a, <1>1 DEF Stored
<1>2. ASSUME NEW s \in todo, UNCHANGED contexts,
             down' = [at |-> "stopping", todo |-> todo \ {s}, sess |-> s]
      PROVE  /\ contexts' \in [Ids -> Sessions \cup {None}]
             /\ down' \in [at : {"no", "reaper", "stopping", "browser", "done"},
                           todo : SUBSET Sessions, sess : Sessions \cup {None}]
             /\ down'.sess \in Sessions
             /\ \A t \in Sessions : Stored(t)' => Stored(t)
  BY <1>a, <1>2 DEF Stored
<1> QED BY <1>1, <1>2 DEF StopNext

\* The steps of shutdown() after the reaper is gone.
LEMMA ShutdownStep ==
  ASSUME SlotInv, ShutdownSnapshot \/ ShutdownStopped \/ ShutdownBrowserClosed
  PROVE  SlotInv'
<1>1. /\ UNCHANGED <<sem, waiters, available, entry, call, reaper>>
      /\ browser' \in {"up", "crashed", "none"}
      /\ bs' \in [Sessions -> {"unborn", "starting", "live", "partial", "closed"}]
  <2>1. UNCHANGED <<sem, waiters, available, entry, call, reaper>>
    BY DEF ShutdownSnapshot, ShutdownStopped, ShutdownBrowserClosed
  <2>2. browser' \in {"up", "crashed", "none"}
    BY DEF ShutdownSnapshot, ShutdownStopped, ShutdownBrowserClosed, SlotInv, PoolTypeOK
  <2>3. bs' \in [Sessions -> {"unborn", "starting", "live", "partial", "closed"}]
    BY DieType DEF ShutdownSnapshot, ShutdownStopped, ShutdownBrowserClosed, SlotInv, PoolTypeOK
  <2> QED BY <2>1, <2>2, <2>3
<1>2. /\ contexts' \in [Ids -> Sessions \cup {None}]
      /\ down' \in [at : {"no", "reaper", "stopping", "browser", "done"},
                    todo : SUBSET Sessions, sess : Sessions \cup {None}]
      /\ down'.at = "stopping" => down'.sess \in Sessions
      /\ \A t \in Sessions : Stored(t)' => Stored(t)
  <2>1. CASE ShutdownSnapshot
    <3>1. {contexts[i] : i \in {j \in Ids : contexts[j] # None}} \in SUBSET Sessions
      BY DEF SlotInv, PoolTypeOK
    <3> QED BY <2>1, <3>1, StopNextKeeps DEF ShutdownSnapshot
  <2>2. CASE ShutdownStopped
    <3>1. down.todo \in SUBSET Sessions
      BY DEF SlotInv, PoolTypeOK
    <3> QED BY <2>2, <3>1, StopNextKeeps DEF ShutdownStopped
  <2>3. CASE ShutdownBrowserClosed
    BY <2>3 DEF ShutdownBrowserClosed, SlotInv, PoolTypeOK, Stored
  <2> QED BY <2>1, <2>2, <2>3
<1>3. SlotHolders' \subseteq SlotHolders
  BY <1>1, <1>2 DEF SlotHolders, Stopping
<1>4. Granted' = Granted /\ Shape'
  BY <1>1, <1>2 DEF Granted, Shape, SlotInv
<1>5. /\ entry' \in [Sessions -> Entry] /\ call' \in [Callers -> Call]
      /\ reaper' \in [at : {"sleep", "stopping", "done"}, todo : SUBSET Ids, sess : Sessions \cup {None}]
  BY <1>1 DEF SlotInv, PoolTypeOK
<1> QED BY <1>1, <1>2, <1>3, <1>4, <1>5, QuietStep, FewerHolders

-----------------------------------------------------------------------------
(* The theorems. *)

LEMMA InitSlotInv == PoolInit => SlotInv
<1> SUFFICES ASSUME PoolInit PROVE SlotInv
  OBVIOUS
<1>1. Shape
  BY DEF PoolInit, Shape, Returned, Sleeping
<1>2. PoolTypeOK
  <2>1. Returned(None) \in Call /\ MaxContexts \in Nat
    BY ReturnedType, PoolAssumption
  <2>2. NoEntry \in Entry
    BY DEF NoEntry, Entry
  <2>3. <<>> \in Seq(Callers)
    BY EmptySeq
  <2> QED BY <2>1, <2>2, <2>3 DEF PoolInit, PoolTypeOK, Sleeping
<1>3. SlotHolders = {} /\ Granted = {}
  BY DEF PoolInit, SlotHolders, Granted, Returned, NoEntry
<1>4. Cardinality(SlotHolders) = 0 /\ Cardinality(Granted) = 0
  BY <1>3, FS_EmptySet, Zenon
<1>5. available = MaxContexts /\ sem = MaxContexts /\ MaxContexts \in Nat
  BY PoolAssumption DEF PoolInit
<1>6. NoInflation
  BY <1>4, <1>5 DEF NoInflation
<1>7. MirrorsSemaphore
  <2>1. available = sem + Cardinality(Granted)
    BY <1>4, <1>5
  <2> QED BY <2>1, Zenon DEF MirrorsSemaphore, Granted
<1> QED BY <1>1, <1>2, <1>6, <1>7 DEF SlotInv

LEMMA NextSlotInv == SlotInv /\ [PoolNext]_pvars => SlotInv'
<1> SUFFICES ASSUME SlotInv, [PoolNext]_pvars PROVE SlotInv'
  OBVIOUS
<1>1. CASE UNCHANGED pvars
  <2>1. PoolTypeOK' = PoolTypeOK /\ Shape' = Shape
    BY <1>1 DEF pvars, PoolTypeOK, Shape
  <2>2. SlotHolders' = SlotHolders /\ available' = available
    BY <1>1 DEF pvars, SlotHolders, Stored, Stopping
  <2>3. MirrorsSemaphore' = MirrorsSemaphore
    BY <1>1 DEF pvars, MirrorsSemaphore
  <2>4. NoInflation' = NoInflation
    BY <2>2 DEF NoInflation
  <2> QED BY <2>1, <2>3, <2>4 DEF SlotInv
<1>2. ASSUME NEW c \in Callers, NEW i \in Ids,
             Begin(c, "acquire", i) \/ Begin(c, "session", i) \/ ReleaseBegin(c, i)
      PROVE  SlotInv'
  BY <1>2, BeginStep, ReleaseBeginStep
<1>3. ASSUME NEW c \in Callers, Proceed(c)
      PROVE  SlotInv'
  BY <1>3, ResumeStep, GiveUpStep, StartOkStep, StartFailStep, CancelStartStep,
     ReleaseDoneStep, CancelReleaseStep DEF Proceed
<1>4. ASSUME NEW c \in Callers, ExitSession(c)
      PROVE  SlotInv'
  BY <1>4, ExitSessionStep
<1>5. CASE Background
  BY <1>5, AgeStep, ReaperWakeStep, ReaperStoppedStep, BrowserCrashStep,
     ShutdownBeginStep, ShutdownStep DEF Background
<1> QED BY <1>1, <1>2, <1>3, <1>4, <1>5 DEF PoolNext

LEMMA SlotInvariant == PoolSpec => []SlotInv
<1> QED BY InitSlotInv, NextSlotInv, PTL DEF PoolSpec

\* Every variable of the pool keeps its type.
THEOREM PoolTypeCorrect == PoolSpec => []PoolTypeOK
<1>1. SlotInv => PoolTypeOK
  BY DEF SlotInv
<1> QED BY <1>1, SlotInvariant, PTL

\* No history of calls, failures, cancellations, evictions, crashes and shutdown makes the
\* pool believe it has more slots than max_contexts.
THEOREM PoolNeverInflates == PoolSpec => []NoInflation
<1>1. SlotInv => NoInflation
  BY DEF SlotInv
<1> QED BY <1>1, SlotInvariant, PTL

\* _available_slots, which stats and the full-pool warning read, never drifts from the
\* semaphore.
THEOREM PoolMirrorsSemaphore == PoolSpec => []MirrorsSemaphore
<1>1. SlotInv => MirrorsSemaphore
  BY DEF SlotInv
<1> QED BY <1>1, SlotInvariant, PTL

-----------------------------------------------------------------------------
(***************************************************************************)
(* Who owns a session, and that no slot and no context is lost.             *)
(***************************************************************************)

\* A session whose start has returned.
Begun(s) == bs[s] \notin {"unborn", "starting"}

\* The premise of the promises that suppose one owner per id.
Calm == Faults = {} /\ down.at = "no"

\* A task between its call and the end of _create_or_get.
Asking(c) == call[c].at \in {"waiting", "granted", "starting"}

\* The entry under an id says so.
OwnId == \A i \in Ids : contexts[i] # None => entry[contexts[i]].id = i

\* A starting session belongs to the one task that starts it; a stored or stopping one has
\* started, and what is being stopped was popped.
Owners ==
  /\ \A c \in Callers : call[c].at = "starting" => bs[call[c].sess] = "starting"
  /\ \A c, d \in Callers :
       c # d /\ call[c].at = "starting" /\ call[d].at = "starting" => call[c].sess # call[d].sess
  /\ \A s \in Sessions : Stored(s) => Begun(s)
  /\ \A s \in Sessions : Stopping(s) => Begun(s) /\ ~Stored(s)
  /\ \A s \in down.todo : Begun(s)
  /\ down.at = "stopping" => Begun(down.sess)
  /\ OwnId

\* One task at a time asks for an id, and finds it as MayBegin promised.
OneOwner == Calm =>
  /\ \A c, d \in Callers : c # d /\ Asking(c) /\ Asking(d) => call[c].id # call[d].id
  /\ \A c \in Callers : call[c].at = "starting" => contexts[call[c].id] = None
  /\ \A c \in Callers :
       call[c].op = "acquire" /\ call[c].at \in {"waiting", "granted"} => ~Held(call[c].id)

\* Every slot that is not free has a holder.
NoSlotLost == Calm => MaxContexts <= available + Cardinality(SlotHolders)

OwnInv == Owners /\ OneOwner /\ NoOrphanContext /\ NoSlotLost

-----------------------------------------------------------------------------
(* What a step does to the tasks. *)

\* Task d is where it was, or was woken.
SameTask(d) ==
  /\ call'[d].at = call[d].at \/ (call[d].at = "waiting" /\ call'[d].at = "granted")
  /\ call'[d].op = call[d].op /\ call'[d].id = call[d].id /\ call'[d].sess = call[d].sess

SameOthers(c) == \A d \in Callers \ {c} : SameTask(d)

LEMMA EndsByWake ==
  ASSUME SlotInv, NEW c \in Callers, NEW STATE w, w \in Seq(Callers),
         NEW STATE v, v \in Nat \ {0}, Wake([call EXCEPT ![c] = Returned(None)], w, v)
  PROVE  call'[c].at = "idle" /\ SameOthers(c)
<1> DEFINE cl == [call EXCEPT ![c] = Returned(None)]
<1>1. /\ cl \in [Callers -> Call] /\ cl[c].at = "idle"
      /\ \A d \in Callers \ {c} : cl[d] = call[d]
  BY Ended
<1>2. Wake(cl, w, v)
  OBVIOUS
<1> HIDE DEF cl
<1>3. \A d \in Callers : call'[d] = cl[d] \/ Woken(cl, d)
  BY <1>1, <1>2, WakeCounts
<1> QED BY <1>1, <1>3, StagesAfterWake DEF SameOthers, SameTask

LEMMA EndsBySlot ==
  ASSUME SlotInv, NEW c \in Callers, GiveSlotBack([call EXCEPT ![c] = Returned(None)])
  PROVE  call'[c].at = "idle" /\ SameOthers(c) /\ available' = available + 1
<1>1. sem + 1 \in Nat \ {0} /\ waiters \in Seq(Callers)
  BY PoolAssumption DEF SlotInv, PoolTypeOK
<1> QED BY <1>1, EndsByWake DEF GiveSlotBack

LEMMA EndsQuietly ==
  ASSUME SlotInv, NEW c \in Callers, NEW r \in Sessions \cup {None},
         call' = [call EXCEPT ![c] = Returned(r)]
  PROVE  call'[c].at = "idle" /\ SameOthers(c)
<1>1. /\ call'[c].at = "idle"
      /\ \A d \in Callers \ {c} : call'[d] = call[d]
  BY Ended
<1> QED BY <1>1 DEF SameOthers, SameTask

\* A stop() that ends frees a slot exactly when the entry holds one.
LEMMA EndsByStop ==
  ASSUME SlotInv, NEW c \in Callers, NEW STATE s, s \in Sessions,
         AfterStop(s, [call EXCEPT ![c] = Returned(None)])
  PROVE  /\ call'[c].at = "idle" /\ SameOthers(c)
         /\ available' = IF entry[s].holds THEN available + 1 ELSE available
<1>1. CASE entry[s].holds
  BY <1>1, EndsBySlot DEF AfterStop
<1>2. CASE ~entry[s].holds
  BY <1>2, EndsQuietly DEF AfterStop
<1> QED BY <1>1, <1>2

LEMMA ReaperStopTasks ==
  ASSUME SlotInv, NEW STATE s, s \in Sessions, AfterStop(s, call)
  PROVE  /\ \A d \in Callers : SameTask(d)
         /\ available' = IF entry[s].holds THEN available + 1 ELSE available
<1>1. call \in [Callers -> Call]
  BY DEF SlotInv, PoolTypeOK
<1>2. \A d \in Callers : call'[d] = call[d] \/ Woken(call, d)
  BY <1>1, AfterStopCalls
<1>3. ASSUME NEW d \in Callers PROVE SameTask(d)
  <2>1. call[d] \in Call
    BY <1>1
  <2>2. CASE call'[d] = call[d]
    BY <2>2 DEF SameTask
  <2>3. CASE Woken(call, d)
    BY <2>1, <2>3 DEF Woken, Call, SameTask
  <2> QED BY <1>2, <2>2, <2>3
<1> QED BY <1>3 DEF AfterStop, GiveSlotBack

\* The four ways a task leaves _create_or_get's first half.
SlotMoves(c, op, i) ==
  /\ SameOthers(c)
  /\ \A s \in Sessions : entry'[s].id = entry[s].id
  /\ \/ /\ op = "acquire" /\ contexts[i] \in Sessions /\ call'[c].at = "idle"
        /\ bs' = bs /\ available' = available - 1
        /\ \A s \in Sessions : entry'[s].holds <=> (s = contexts[i] \/ entry[s].holds)
     \/ /\ call'[c].at = "inside"
        /\ bs' = bs /\ available' = available - 1
        /\ \A s \in Sessions : entry'[s].holds <=> entry[s].holds
     \/ /\ call'[c].at = "idle"
        /\ bs' = bs /\ available' = available /\ entry' = entry
     \/ \E s \in Sessions :
          /\ contexts[i] = None /\ bs[s] = "unborn" /\ bs' = [bs EXCEPT ![s] = "starting"]
          /\ call'[c] = [op |-> op, id |-> i, at |-> "starting", sess |-> s]
          /\ available' = available - 1 /\ entry' = entry

LEMMA WithSlotMoves ==
  ASSUME SlotInv, NEW c \in Callers, NEW op \in {"acquire", "session"}, NEW i \in Ids,
         NEW STATE cl, LikeCall(cl, c), NEW STATE w, w \in Seq(Callers), NEW STATE v, v \in Nat,
         WithSlot(c, op, i, cl, w, v)
  PROVE  SlotMoves(c, op, i)
<1> USE DEF SlotMoves
<1>a. /\ cl \in [Callers -> Call] /\ entry \in [Sessions -> Entry]
      /\ contexts[i] \in Sessions \cup {None}
  BY DEF PoolTypeOK, SlotInv, LikeCall
<1>b. ASSUME NEW r \in Call, call' = [cl EXCEPT ![c] = r]
      PROVE  call'[c] = r /\ SameOthers(c)
  BY <1>a, <1>b DEF LikeCall, SameOthers, SameTask
<1>1. CASE contexts[i] # None /\ op = "acquire"
  <2>1. PICK s \in Sessions : s = contexts[i]
    BY <1>1, <1>a
  <2>2. /\ entry' = [Touch(s) EXCEPT ![s].holds = TRUE]
        /\ call' = [cl EXCEPT ![c] = Returned(s)]
        /\ bs' = bs /\ available' = available - 1
    BY <1>1, <2>1 DEF WithSlot
  <2>3. call'[c].at = "idle" /\ SameOthers(c)
    <3>1. PICK r \in Call : r = Returned(s)
      BY ReturnedType
    <3>2. call' = [cl EXCEPT ![c] = r] /\ r.at = "idle"
      BY <2>2, <3>1 DEF Returned
    <3> QED BY <1>b, <3>2
  <2>4. \A t \in Sessions : entry'[t].id = entry[t].id /\ (entry'[t].holds <=> (t = s \/ entry[t].holds))
    BY <1>a, <2>2 DEF Touch, Entry
  <2> QED BY <1>1, <2>1, <2>2, <2>3, <2>4
<1>2. CASE contexts[i] # None /\ op = "session"
  <2>1. PICK s \in Sessions : s = contexts[i]
    BY <1>2, <1>a
  <2>2. /\ entry' = Touch(s) /\ bs' = bs /\ available' = available - 1
        /\ call' = [cl EXCEPT ![c] = [op |-> op, id |-> i, at |-> "inside", sess |-> s]]
    BY <1>2, <2>1 DEF WithSlot
  <2>3. call'[c].at = "inside" /\ SameOthers(c)
    <3>1. PICK r \in Call : r = [op |-> op, id |-> i, at |-> "inside", sess |-> s]
      BY DEF Call, CallStage
    <3>2. call' = [cl EXCEPT ![c] = r] /\ r.at = "inside"
      BY <2>2, <3>1
    <3> QED BY <1>b, <3>2
  <2>4. \A t \in Sessions : entry'[t].id = entry[t].id /\ entry'[t].holds = entry[t].holds
    BY <1>a, <2>2 DEF Touch, Entry
  <2> QED BY <2>2, <2>3, <2>4
<1>3. CASE contexts[i] = None
  <2>1. CASE Wake([cl EXCEPT ![c] = Returned(None)], w, v + 1) /\ UNCHANGED <<available, entry, bs>>
    <3>1. v + 1 \in Nat \ {0}
      OBVIOUS
    <3>2. call'[c].at = "idle" /\ SameOthers(c)
      <4> DEFINE ce == [cl EXCEPT ![c] = Returned(None)]
      <4>1. /\ ce \in [Callers -> Call] /\ ce[c].at = "idle"
            /\ \A d \in Callers \ {c} : ce[d] = cl[d]
        BY <1>a, ReturnedType DEF Returned
      <4>2. Wake(ce, w, v + 1)
        BY <2>1
      <4> HIDE DEF ce
      <4>3. \A d \in Callers : call'[d] = ce[d] \/ Woken(ce, d)
        BY <3>1, <4>1, <4>2, WakeCounts
      <4>4. call'[c].at = "idle"
        BY <4>1, <4>3 DEF Woken
      <4>5. ASSUME NEW d \in Callers \ {c} PROVE SameTask(d)
        <5>1. /\ cl[d] \in Call /\ ce[d] = cl[d]
              /\ cl[d].at = call[d].at \/ (call[d].at = "waiting" /\ cl[d].at = "granted")
              /\ cl[d].op = call[d].op /\ cl[d].id = call[d].id /\ cl[d].sess = call[d].sess
          BY <1>a, <4>1 DEF LikeCall
        <5>2. CASE call'[d] = ce[d]
          BY <5>1, <5>2 DEF SameTask
        <5>3. CASE Woken(ce, d)
          BY <5>1, <5>3 DEF Woken, Call, SameTask
        <5> QED BY <4>3, <5>2, <5>3
      <4> QED BY <4>4, <4>5 DEF SameOthers
    <3> QED BY <2>1, <3>2
  <2>2. ASSUME NEW s \in Sessions, available' = available - 1, bs[s] = "unborn",
               bs' = [bs EXCEPT ![s] = "starting"], UNCHANGED entry,
               call' = [cl EXCEPT ![c] = [op |-> op, id |-> i, at |-> "starting", sess |-> s]]
        PROVE  /\ SameOthers(c) /\ entry' = entry /\ available' = available - 1
               /\ contexts[i] = None /\ bs[s] = "unborn" /\ bs' = [bs EXCEPT ![s] = "starting"]
               /\ call'[c] = [op |-> op, id |-> i, at |-> "starting", sess |-> s]
    <3>1. SameOthers(c) /\ call'[c] = [op |-> op, id |-> i, at |-> "starting", sess |-> s]
      <4>1. [op |-> op, id |-> i, at |-> "starting", sess |-> s] \in Call
        BY DEF Call, CallStage
      <4> QED BY <1>b, <2>2, <4>1
    <3> QED BY <1>3, <2>2, <3>1
  <2> QED BY <1>3, <2>1, <2>2 DEF WithSlot
<1> QED BY <1>1, <1>2, <1>3

-----------------------------------------------------------------------------
(* Steps of a task that leave _contexts, the reaper and shutdown() alone. *)

\* Trading one element for another outside the set does not shrink it.
LEMMA SwapGrows ==
  ASSUME NEW S, IsFiniteSet(S), NEW x, NEW y, y \notin S,
         NEW T, IsFiniteSet(T), (S \ {x}) \cup {y} \subseteq T
  PROVE  Cardinality(S) <= Cardinality(T)
<1>1. IsFiniteSet(S \ {x}) /\ Cardinality(S \ {x}) \in Nat /\ Cardinality(S) \in Nat
  BY FS_Subset, FS_CardinalityType
<1>2. Cardinality(S) <= Cardinality(S \ {x}) + 1
  BY GrowByOne, <1>1
<1>3. Cardinality((S \ {x}) \cup {y}) = Cardinality(S \ {x}) + 1
  BY <1>1, FS_AddElement
<1>4. Cardinality((S \ {x}) \cup {y}) <= Cardinality(T)
  BY FS_Subset
<1>5. Cardinality(T) \in Nat
  BY FS_CardinalityType
<1> QED BY <1>1, <1>2, <1>3, <1>4, <1>5

\* No slot is lost if holders leave only with the slot they give back, and a slot taken has
\* a new holder.
LEMMA KeepsSlots ==
  ASSUME SlotInv, SlotInv', MaxContexts <= available + Cardinality(SlotHolders),
         \/ available' = available /\ SlotHolders \subseteq SlotHolders'
         \/ /\ available' = available - 1
            /\ \E x : x \notin SlotHolders /\ SlotHolders \cup {x} \subseteq SlotHolders'
         \/ /\ available' = available + 1
            /\ \E x : SlotHolders \subseteq SlotHolders' \cup {x}
         \/ /\ available' = available
            /\ \E x, y : /\ y \notin SlotHolders
                         /\ (SlotHolders \ {x}) \cup {y} \subseteq SlotHolders'
  PROVE  MaxContexts <= available' + Cardinality(SlotHolders')
<1>a. /\ IsFiniteSet(SlotHolders) /\ Cardinality(SlotHolders) \in Nat
      /\ IsFiniteSet(SlotHolders') /\ Cardinality(SlotHolders') \in Nat
      /\ MaxContexts \in Nat /\ available \in Nat /\ available' \in Nat
  BY FiniteHolders, FiniteHoldersPrime, PoolAssumption DEF SlotInv, PoolTypeOK
<1>1. CASE available' = available /\ SlotHolders \subseteq SlotHolders'
  <2>1. Cardinality(SlotHolders) <= Cardinality(SlotHolders')
    BY <1>a, <1>1, FS_Subset
  <2> QED BY <1>a, <1>1, <2>1
<1>2. ASSUME available' = available - 1,
             \E x : x \notin SlotHolders /\ SlotHolders \cup {x} \subseteq SlotHolders'
      PROVE  MaxContexts <= available' + Cardinality(SlotHolders')
  <2>1. PICK x : x \notin SlotHolders /\ SlotHolders \cup {x} \subseteq SlotHolders'
    BY <1>2
  <2>2. Cardinality(SlotHolders \cup {x}) = Cardinality(SlotHolders) + 1
    BY <1>a, <2>1, FS_AddElement
  <2>3. Cardinality(SlotHolders \cup {x}) <= Cardinality(SlotHolders')
    BY <1>a, <2>1, FS_Subset
  <2> QED BY <1>a, <1>2, <2>2, <2>3
<1>3. ASSUME available' = available + 1, \E x : SlotHolders \subseteq SlotHolders' \cup {x}
      PROVE  MaxContexts <= available' + Cardinality(SlotHolders')
  <2>1. PICK x : SlotHolders \subseteq SlotHolders' \cup {x}
    BY <1>3
  <2>2. Cardinality(SlotHolders) <= Cardinality(SlotHolders') + 1
    BY <1>a, <2>1, GrowByOne
  <2> QED BY <1>a, <1>3, <2>2
<1>4. ASSUME available' = available,
             \E x, y : y \notin SlotHolders /\ (SlotHolders \ {x}) \cup {y} \subseteq SlotHolders'
      PROVE  MaxContexts <= available' + Cardinality(SlotHolders')
  <2>1. PICK x, y : y \notin SlotHolders /\ (SlotHolders \ {x}) \cup {y} \subseteq SlotHolders'
    BY <1>4
  <2>2. Cardinality(SlotHolders) <= Cardinality(SlotHolders')
    BY <1>a, <2>1, SwapGrows
  <2> QED BY <1>a, <1>4, <2>2
<1> QED BY <1>1, <1>2, <1>3, <1>4

\* Ownership after such a step: it may start or end one session and touch entries, but
\* renames none and revives none.
LEMMA TaskKeepsOwners ==
  ASSUME SlotInv, OwnInv, NEW c \in Callers, SameOthers(c), UNCHANGED <<contexts, reaper, down>>,
         call'[c].at = "stopping" => call[c].at = "stopping" /\ call'[c].sess = call[c].sess,
         call'[c].at = "starting" => bs'[call'[c].sess] = "starting",
         \A d \in Callers \ {c} :
           call[d].at = "starting" =>
             /\ bs'[call[d].sess] = "starting"
             /\ call'[c].at = "starting" => call'[c].sess # call[d].sess,
         \A s \in Sessions : Begun(s) => Begun(s)',
         \A s \in Sessions : bs'[s] = "live" => bs[s] = "live",
         \A s \in Sessions : bs'[s] = "live" => (Stopping(s) => Stopping(s)'),
         \A s \in Sessions : Stored(s) => entry'[s].id = entry[s].id
  PROVE  Owners' /\ NoOrphanContext'
<1>a. /\ Owners /\ NoOrphanContext
      /\ contexts \in [Ids -> Sessions \cup {None}] /\ None \notin Sessions
      /\ down.todo \in SUBSET Sessions /\ (down.at = "stopping" => down.sess \in Sessions)
  BY PoolAssumption DEF OwnInv, SlotInv, PoolTypeOK, Shape
<1>1. \A s \in Sessions : /\ Stored(s)' = Stored(s)
                          /\ Stopping(s)' => Stopping(s)
  BY DEF Stored, Stopping, SameOthers, SameTask
<1>2. \A d \in Callers \ {c} : call'[d].at = "starting" => call[d].at = "starting" /\ call'[d].sess = call[d].sess
  BY DEF SameOthers, SameTask
<1>3. \A d \in Callers : call'[d].at = "starting" => bs'[call'[d].sess] = "starting"
  BY <1>2
<1>4. \A d, e \in Callers : d # e /\ call'[d].at = "starting" /\ call'[e].at = "starting"
                              => call'[d].sess # call'[e].sess
  BY <1>a, <1>2 DEF Owners
<1>5. \A s \in Sessions : /\ Stored(s)' => Begun(s)'
                          /\ Stopping(s)' => Begun(s)' /\ ~Stored(s)'
  BY <1>a, <1>1 DEF Owners
<1>6. /\ \A s \in down'.todo : Begun(s)'
      /\ down'.at = "stopping" => Begun(down.sess)'
  BY <1>a DEF Owners
<1>7. OwnId'
  BY <1>a DEF Owners, OwnId, Stored
<1>8. NoOrphanContext'
  BY <1>a, <1>1 DEF NoOrphanContext
<1> QED BY <1>3, <1>4, <1>5, <1>6, <1>7, <1>8 DEF Owners, Begun

\* One owner per id after such a step.
LEMMA TaskKeepsOneOwner ==
  ASSUME SlotInv, OwnInv, NEW c \in Callers, SameOthers(c), UNCHANGED <<contexts, down>>,
         Calm /\ Asking(c)' =>
           /\ \A d \in Callers \ {c} : Asking(d) => call[d].id # call'[c].id
           /\ call'[c].at = "starting" => contexts[call'[c].id] = None
           /\ call'[c].at # "starting" /\ call'[c].op = "acquire" => ~Held(call'[c].id),
         Calm => \A d \in Callers : Asking(d)' /\ Held(call[d].id)' => Held(call'[d].id)
  PROVE  OneOwner'
<1> SUFFICES ASSUME Calm' PROVE OneOwner'
  BY DEF OneOwner
<1>a. Calm /\ OneOwner
  BY DEF Calm, OwnInv
<1>1. \A d \in Callers \ {c} :
        /\ Asking(d)' <=> Asking(d)
        /\ call'[d].id = call[d].id /\ call'[d].op = call[d].op
        /\ call'[d].at = "starting" <=> call[d].at = "starting"
  BY DEF SameOthers, SameTask, Asking
<1>2. \A d, e \in Callers : d # e /\ Asking(d)' /\ Asking(e)' => call'[d].id # call'[e].id
  <2> SUFFICES ASSUME NEW d \in Callers, NEW e \in Callers, d # e, Asking(d)', Asking(e)'
               PROVE  call'[d].id # call'[e].id
    OBVIOUS
  <2>1. CASE d = c
    BY <1>a, <1>1, <2>1
  <2>2. CASE e = c
    BY <1>a, <1>1, <2>2
  <2>3. CASE d # c /\ e # c
    BY <1>a, <1>1, <2>3 DEF OneOwner
  <2> QED BY <2>1, <2>2, <2>3
<1>3. \A d \in Callers : call'[d].at = "starting" => contexts'[call'[d].id] = None
  BY <1>a, <1>1 DEF OneOwner, Asking
<1>4. ASSUME NEW d \in Callers, call'[d].op = "acquire", call'[d].at \in {"waiting", "granted"}
      PROVE  ~Held(call[d].id)'
  <2>1. Asking(d)' /\ call'[d].at # "starting"
    BY <1>4 DEF Asking
  <2>2. ~Held(call'[d].id)
    <3>1. CASE d = c
      BY <1>4, <1>a, <2>1, <3>1
    <3>2. CASE d # c
      BY <1>4, <1>a, <1>1, <2>1, <3>2 DEF OneOwner, Asking
    <3> QED BY <3>1, <3>2
  <2> QED BY <1>a, <2>1, <2>2
<1> QED BY <1>2, <1>3, <1>4 DEF OneOwner

\* Slot holders of such a step, when c stops no session before or after it.
LEMMA TaskHolders ==
  ASSUME NEW c \in Callers, SameOthers(c), UNCHANGED <<contexts, reaper>>,
         call[c].at # "stopping", call'[c].at # "stopping"
  PROVE  /\ \A d \in Callers \ {c} : call'[d].at \in {"starting", "inside"} <=> call[d].at \in {"starting", "inside"}
         /\ \A s \in Sessions : (Stored(s)' <=> Stored(s)) /\ (Stopping(s)' <=> Stopping(s))
BY DEF SameOthers, SameTask, Stored, Stopping

\* _create_or_get, from a call that found its id free to ask for.
LEMMA WithSlotOwn ==
  ASSUME SlotInv, OwnInv, SlotInv', NEW c \in Callers, NEW op \in {"acquire", "session"}, NEW i \in Ids,
         NEW STATE cl, LikeCall(cl, c), NEW STATE w, w \in Seq(Callers), NEW STATE v, v \in Nat,
         WithSlot(c, op, i, cl, w, v), UNCHANGED <<contexts, reaper, browser, down>>,
         call[c].at \in {"idle", "granted"},
         Calm => /\ \A d \in Callers \ {c} : Asking(d) => call[d].id # i
                 /\ op = "acquire" => ~Held(i)
  PROVE  OwnInv'
<1>m. SlotMoves(c, op, i)
  BY WithSlotMoves
<1>a. /\ SameOthers(c) /\ \A s \in Sessions : entry'[s].id = entry[s].id
      /\ Owners /\ OneOwner /\ NoOrphanContext /\ NoSlotLost
      /\ contexts \in [Ids -> Sessions \cup {None}] /\ None \notin Sessions /\ Callers \cap Sessions = {}
      /\ bs \in [Sessions -> {"unborn", "starting", "live", "partial", "closed"}]
  BY <1>m, PoolAssumption DEF SlotMoves, OwnInv, SlotInv, PoolTypeOK
<1>b. \A d \in Callers \ {c} :
        call[d].at = "starting" => call[d].sess \in Sessions /\ bs[call[d].sess] = "starting"
  BY <1>a DEF Owners, SlotInv, Shape
<1>c. /\ \A d \in Callers \ {c} : call'[d].at \in {"starting", "inside"} <=> call[d].at \in {"starting", "inside"}
      /\ call'[c].at # "stopping" =>
           \A s \in Sessions : (Stored(s)' <=> Stored(s)) /\ (Stopping(s)' <=> Stopping(s))
  BY <1>a, TaskHolders DEF SameOthers, SameTask
<1>d. Calm' <=> Calm
  BY DEF Calm
<1>e. c \notin SlotHolders
  BY <1>a DEF SlotHolders
<1>1. ASSUME call'[c].at \in {"idle", "inside"}, bs' = bs,
             Calm => \A d \in Callers : Asking(d)' /\ Held(call[d].id)' => Held(call'[d].id),
             NoSlotLost'
      PROVE  OwnInv'
  <2>1. Owners' /\ NoOrphanContext'
    <3>1. \A s \in Sessions : Stopping(s) => Stopping(s)'
      BY <1>1, <1>c
    <3> QED BY <1>1, <1>a, <1>b, <3>1, TaskKeepsOwners DEF Begun
  <2>2. OneOwner'
    BY <1>1, <1>a, TaskKeepsOneOwner DEF Asking
  <2> QED BY <1>1, <2>1, <2>2 DEF OwnInv
<1>2. CASE /\ op = "acquire" /\ contexts[i] \in Sessions /\ call'[c].at = "idle"
           /\ bs' = bs /\ available' = available - 1
           /\ \A s \in Sessions : entry'[s].holds <=> (s = contexts[i] \/ entry[s].holds)
  <2>1. Calm => \A d \in Callers : Asking(d)' /\ Held(call[d].id)' => Held(call'[d].id)
    <3> SUFFICES ASSUME Calm, NEW d \in Callers, Asking(d)', Held(call[d].id)'
                 PROVE  Held(call'[d].id)
      OBVIOUS
    <3>1. d # c /\ Asking(d) /\ call'[d].id = call[d].id /\ call[d].id \in Ids
      BY <1>2, <1>a DEF Asking, SameOthers, SameTask, SlotInv, Shape
    <3>2. call[d].id # i
      BY <3>1
    <3>3. contexts[call[d].id] # contexts[i] \/ contexts[call[d].id] = None
      BY <1>a, <3>1, <3>2 DEF Owners, OwnId
    <3> QED BY <1>2, <1>a, <3>1, <3>3 DEF Held
  <2>2. NoSlotLost'
    <3> SUFFICES ASSUME Calm PROVE MaxContexts <= available' + Cardinality(SlotHolders')
      BY <1>d DEF NoSlotLost
    <3>1. contexts[i] \notin SlotHolders
      BY <1>2, <1>a DEF SlotHolders, Held
    <3>2. SlotHolders \cup {contexts[i]} \subseteq SlotHolders'
      BY <1>2, <1>a, <1>c, <1>e DEF SlotHolders, Stored
    <3> QED BY <1>2, <1>a, <3>1, <3>2, KeepsSlots DEF NoSlotLost
  <2> QED BY <1>1, <1>2, <2>1, <2>2
<1>3. CASE /\ call'[c].at = "inside" /\ bs' = bs /\ available' = available - 1
           /\ \A s \in Sessions : entry'[s].holds <=> entry[s].holds
  <2>1. Calm => \A d \in Callers : Asking(d)' /\ Held(call[d].id)' => Held(call'[d].id)
    BY <1>3, <1>a DEF Asking, SameOthers, SameTask, Held, SlotInv, Shape
  <2>2. NoSlotLost'
    <3> SUFFICES ASSUME Calm PROVE MaxContexts <= available' + Cardinality(SlotHolders')
      BY <1>d DEF NoSlotLost
    <3>1. SlotHolders \cup {c} \subseteq SlotHolders'
      BY <1>3, <1>a, <1>c, <1>e DEF SlotHolders
    <3> QED BY <1>3, <1>a, <1>e, <3>1, KeepsSlots DEF NoSlotLost
  <2> QED BY <1>1, <1>3, <2>1, <2>2
<1>4. CASE call'[c].at = "idle" /\ bs' = bs /\ available' = available /\ entry' = entry
  <2>1. Calm => \A d \in Callers : Asking(d)' /\ Held(call[d].id)' => Held(call'[d].id)
    BY <1>4, <1>a DEF Asking, SameOthers, SameTask, Held, SlotInv, Shape
  <2>2. NoSlotLost'
    <3> SUFFICES ASSUME Calm PROVE MaxContexts <= available' + Cardinality(SlotHolders')
      BY <1>d DEF NoSlotLost
    <3>1. SlotHolders \subseteq SlotHolders'
      BY <1>4, <1>a, <1>c, <1>e DEF SlotHolders
    <3> QED BY <1>4, <1>a, <3>1, KeepsSlots DEF NoSlotLost
  <2> QED BY <1>1, <1>4, <2>1, <2>2
<1>5. ASSUME NEW s \in Sessions, contexts[i] = None, bs[s] = "unborn", bs' = [bs EXCEPT ![s] = "starting"],
             call'[c] = [op |-> op, id |-> i, at |-> "starting", sess |-> s],
             available' = available - 1, entry' = entry
      PROVE  OwnInv'
  <2>1. Owners' /\ NoOrphanContext'
    <3>1. \A t \in Sessions : /\ Begun(t) => Begun(t)'
                              /\ bs'[t] = "live" => bs[t] = "live"
                              /\ Stopping(t) => Stopping(t)'
      BY <1>5, <1>a, <1>c DEF Begun
    <3>2. call'[c].at = "starting" /\ call'[c].sess = s /\ bs'[s] = "starting"
      BY <1>5, <1>a
    <3>3. \A d \in Callers \ {c} : call[d].at = "starting" => bs'[call[d].sess] = "starting" /\ call[d].sess # s
      BY <1>5, <1>a, <1>b
    <3> QED BY <1>5, <1>a, <3>1, <3>2, <3>3, TaskKeepsOwners
  <2>2. OneOwner'
    <3>1. Calm => \A d \in Callers : Asking(d)' /\ Held(call[d].id)' => Held(call'[d].id)
      BY <1>5, <1>a DEF Asking, SameOthers, SameTask, Held, SlotInv, Shape
    <3>2. call'[c].id = i /\ call'[c].at = "starting"
      BY <1>5
    <3> QED BY <1>5, <1>a, <3>1, <3>2, TaskKeepsOneOwner
  <2>3. NoSlotLost'
    <3> SUFFICES ASSUME Calm PROVE MaxContexts <= available' + Cardinality(SlotHolders')
      BY <1>d DEF NoSlotLost
    <3>1. call'[c].at = "starting"
      BY <1>5
    <3>2. SlotHolders \cup {c} \subseteq SlotHolders'
      BY <1>5, <3>1, <1>a, <1>c, <1>e DEF SlotHolders
    <3> QED BY <1>5, <1>a, <1>e, <3>2, KeepsSlots DEF NoSlotLost
  <2> QED BY <2>1, <2>2, <2>3 DEF OwnInv
<1> QED BY <1>2, <1>3, <1>4, <1>5, <1>m DEF SlotMoves

LEMMA BeginOwn ==
  ASSUME SlotInv, OwnInv, SlotInv', NEW c \in Callers, NEW op \in {"acquire", "session"}, NEW i \in Ids,
         Begin(c, op, i)
  PROVE  OwnInv'
<1>a. /\ call[c].at = "idle" /\ call \in [Callers -> Call] /\ waiters \in Seq(Callers) /\ sem \in Nat
      /\ Owners /\ OneOwner /\ NoOrphanContext /\ NoSlotLost
      /\ UNCHANGED <<contexts, reaper, browser, down>>
  BY PoolAssumption DEF Begin, OwnInv, SlotInv, PoolTypeOK
<1>b. Calm => /\ \A d \in Callers \ {c} : Asking(d) => call[d].id # i
              /\ op = "acquire" => ~Held(i)
  BY DEF Begin, MayBegin, Calm, Asking
<1>1. ASSUME ~Locked, WithSlot(c, op, i, call, waiters, sem - 1)
      PROVE  OwnInv'
  <2>1. sem - 1 \in Nat /\ LikeCall(call, c)
    BY <1>1, <1>a, LikeItself DEF Locked
  <2> QED BY <1>1, <1>a, <1>b, <2>1, WithSlotOwn
<1>2. ASSUME call' = [call EXCEPT ![c] = [op |-> op, id |-> i, at |-> "waiting", sess |-> None]],
             UNCHANGED <<sem, available, entry, bs>>
      PROVE  OwnInv'
  <2>1. /\ SameOthers(c)
        /\ call'[c] = [op |-> op, id |-> i, at |-> "waiting", sess |-> None]
    BY <1>2, <1>a DEF SameOthers, SameTask
  <2>2. /\ \A d \in Callers \ {c} : call'[d].at \in {"starting", "inside"} <=> call[d].at \in {"starting", "inside"}
        /\ \A s \in Sessions : (Stored(s)' <=> Stored(s)) /\ (Stopping(s)' <=> Stopping(s))
    BY <1>a, <2>1, TaskHolders
  <2>3. Owners' /\ NoOrphanContext'
    BY <1>2, <1>a, <2>1, <2>2, TaskKeepsOwners DEF Begun, Owners
  <2>4. OneOwner'
    BY <1>2, <1>a, <1>b, <2>1, TaskKeepsOneOwner DEF Held
  <2>5. NoSlotLost'
    <3>1. SlotHolders \subseteq SlotHolders'
      BY <1>2, <1>a, <2>2 DEF SlotHolders
    <3> QED BY <1>2, <1>a, <3>1, KeepsSlots DEF NoSlotLost, Calm
  <2> QED BY <2>3, <2>4, <2>5 DEF OwnInv
<1> QED BY <1>1, <1>2 DEF Begin

LEMMA ResumeOwn ==
  ASSUME SlotInv, OwnInv, SlotInv', NEW c \in Callers, Resume(c)
  PROVE  OwnInv'
<1>1. /\ call[c].at = "granted" /\ Without(waiters, c) \in Seq(Callers)
      /\ UNCHANGED <<contexts, reaper, browser, down>>
  BY WithoutType DEF SlotInv, PoolTypeOK, Resume
<1>2. PICK op \in {"acquire", "session"}, i \in Ids : op = call[c].op /\ i = call[c].id
  BY <1>1 DEF SlotInv, Shape
<1>3. PICK cl \in [Callers -> Call], v \in Nat :
        LikeCall(cl, c) /\ WithSlot(c, op, i, cl, Without(waiters, c), v)
  BY <1>2, ResumeTakes
<1>4. Calm => /\ \A d \in Callers \ {c} : Asking(d) => call[d].id # i
              /\ op = "acquire" => ~Held(i)
  BY <1>1, <1>2 DEF OwnInv, OneOwner, Asking
<1> QED BY <1>1, <1>3, <1>4, WithSlotOwn

\* A call that ends, taking no slot along: its session, if it was starting one, is closed
\* or left over, and entries keep their names and flags.
LEMMA CallEndsOwn ==
  ASSUME SlotInv, OwnInv, SlotInv', NEW c \in Callers, call[c].at # "stopping",
         call'[c].at = "idle", SameOthers(c), UNCHANGED <<contexts, reaper, down>>,
         \/ bs' = bs
         \/ /\ call[c].at = "starting"
            /\ \E left \in {"closed", "partial"} : bs' = [bs EXCEPT ![call[c].sess] = left],
         \A s \in Sessions : entry'[s].id = entry[s].id /\ (entry'[s].holds <=> entry[s].holds),
         Calm => \/ available' = available + 1
                 \/ available' = available /\ call[c].at \notin {"starting", "inside"}
  PROVE  OwnInv'
<1>a. /\ Owners /\ OneOwner /\ NoOrphanContext /\ NoSlotLost
      /\ contexts \in [Ids -> Sessions \cup {None}] /\ None \notin Sessions
      /\ bs \in [Sessions -> {"unborn", "starting", "live", "partial", "closed"}]
  BY PoolAssumption DEF OwnInv, SlotInv, PoolTypeOK
<1>b. \A d \in Callers : call[d].at = "starting" => call[d].sess \in Sessions /\ bs[call[d].sess] = "starting"
  BY <1>a DEF Owners, SlotInv, Shape
<1>c. /\ \A d \in Callers \ {c} : call'[d].at \in {"starting", "inside"} <=> call[d].at \in {"starting", "inside"}
      /\ \A s \in Sessions : (Stored(s)' <=> Stored(s)) /\ (Stopping(s)' <=> Stopping(s))
  BY TaskHolders
<1>1. \A s \in Sessions : /\ Begun(s) => Begun(s)'
                          /\ bs'[s] = "live" => bs[s] = "live"
  BY <1>a, <1>b DEF Begun
<1>2. \A d \in Callers \ {c} : call[d].at = "starting" => bs'[call[d].sess] = "starting"
  BY <1>a, <1>b DEF Owners
<1>3. Owners' /\ NoOrphanContext'
  BY <1>a, <1>c, <1>1, <1>2, TaskKeepsOwners
<1>4. OneOwner'
  BY <1>a, TaskKeepsOneOwner DEF Asking, SameOthers, SameTask, Held, SlotInv, Shape
<1>5. NoSlotLost'
  <2>1. Calm' => Calm
    BY DEF Calm
  <2>2. SlotHolders \subseteq SlotHolders' \cup {c}
    BY <1>c DEF SlotHolders
  <2>3. call[c].at \notin {"starting", "inside"} => SlotHolders \subseteq SlotHolders'
    BY <1>c DEF SlotHolders
  <2> QED BY <1>a, <2>1, <2>2, <2>3, KeepsSlots DEF NoSlotLost
<1> QED BY <1>3, <1>4, <1>5 DEF OwnInv

\* session()'s finally only touches.
LEMMA TouchKeeps ==
  ASSUME SlotInv, NEW i \in Ids
  PROVE  \A s \in Sessions : /\ TouchById(i)[s].id = entry[s].id
                             /\ TouchById(i)[s].holds <=> entry[s].holds
BY DEF TouchById, Touch, SlotInv, PoolTypeOK, Entry

LEMMA GiveUpOwn ==
  ASSUME SlotInv, OwnInv, SlotInv', NEW c \in Callers, GiveUp(c)
  PROVE  OwnInv'
<1>a. /\ call[c].at \in {"waiting", "granted"} /\ waiters \in Seq(Callers) /\ sem \in Nat
      /\ UNCHANGED <<available, contexts, entry, bs, reaper, browser, down>>
      /\ Without(waiters, c) \in Seq(Callers)
  BY PoolAssumption, WithoutType DEF GiveUp, SlotInv, PoolTypeOK
<1>1. call'[c].at = "idle" /\ SameOthers(c)
  <2>1. CASE call[c].at = "granted"
    <3>1. sem + 1 \in Nat \ {0}
      BY <1>a
    <3> QED BY <1>a, <2>1, <3>1, EndsByWake DEF GiveUp
  <2>2. CASE call[c].at = "waiting"
    BY <2>2, EndsQuietly DEF GiveUp
  <2> QED BY <1>a, <2>1, <2>2
<1> QED BY <1>a, <1>1, CallEndsOwn

LEMMA StartFailOwn ==
  ASSUME SlotInv, OwnInv, SlotInv', NEW c \in Callers, StartFail(c)
  PROVE  OwnInv'
<1>a. /\ call[c].at = "starting" /\ call[c].id \in Ids
      /\ UNCHANGED <<contexts, reaper, browser, down>>
      /\ \E left \in {"closed", "partial"} : bs' = [bs EXCEPT ![call[c].sess] = left]
  BY DEF StartFail, SlotInv, Shape
<1>1. call'[c].at = "idle" /\ SameOthers(c) /\ available' = available + 1
  BY EndsBySlot DEF StartFail
<1>2. \A s \in Sessions : entry'[s].id = entry[s].id /\ (entry'[s].holds <=> entry[s].holds)
  <2>1. entry' = TouchById(call[c].id) \/ entry' = entry
    BY DEF StartFail
  <2> QED BY <1>a, <2>1, TouchKeeps
<1> QED BY <1>a, <1>1, <1>2, CallEndsOwn

\* Without "cancel" there is no such step, and with it the pool is not calm.
LEMMA CancelStartOwn ==
  ASSUME SlotInv, OwnInv, SlotInv', NEW c \in Callers, CancelStart(c)
  PROVE  OwnInv'
<1>a. /\ call[c].at = "starting" /\ call[c].id \in Ids /\ ~Calm
      /\ UNCHANGED <<contexts, reaper, browser, down>>
      /\ \E left \in {"closed", "partial"} : bs' = [bs EXCEPT ![call[c].sess] = left]
  BY DEF CancelStart, Calm, SlotInv, Shape
<1>1. CASE call[c].op = "session"
  <2>1. call'[c].at = "idle" /\ SameOthers(c)
    BY <1>1, EndsBySlot DEF CancelStart
  <2>2. \A s \in Sessions : entry'[s].id = entry[s].id /\ (entry'[s].holds <=> entry[s].holds)
    <3>1. entry' = TouchById(call[c].id)
      BY <1>1 DEF CancelStart
    <3> QED BY <1>a, <3>1, TouchKeeps
  <2> QED BY <1>a, <2>1, <2>2, CallEndsOwn
<1>2. CASE call[c].op # "session"
  <2>1. call'[c].at = "idle" /\ SameOthers(c)
    BY <1>2, EndsQuietly DEF CancelStart
  <2>2. \A s \in Sessions : entry'[s].id = entry[s].id /\ (entry'[s].holds <=> entry[s].holds)
    BY <1>2 DEF CancelStart
  <2> QED BY <1>a, <2>1, <2>2, CallEndsOwn
<1> QED BY <1>1, <1>2

LEMMA ExitSessionOwn ==
  ASSUME SlotInv, OwnInv, SlotInv', NEW c \in Callers, ExitSession(c)
  PROVE  OwnInv'
<1>a. /\ call[c].at = "inside" /\ call[c].id \in Ids /\ bs' = bs
      /\ UNCHANGED <<contexts, reaper, browser, down>>
      /\ entry' = TouchById(call[c].id)
  BY DEF ExitSession, SlotInv, Shape
<1>1. call'[c].at = "idle" /\ SameOthers(c) /\ available' = available + 1
  BY EndsBySlot DEF ExitSession
<1>2. \A s \in Sessions : entry'[s].id = entry[s].id /\ (entry'[s].holds <=> entry[s].holds)
  BY <1>a, TouchKeeps
<1> QED BY <1>a, <1>1, <1>2, CallEndsOwn

\* The one step that stores a session: it was starting, so it is stored nowhere else, and
\* no entry is displaced while one task at a time asks for an id.
LEMMA StartOkOwn ==
  ASSUME SlotInv, OwnInv, SlotInv', NEW c \in Callers, StartOk(c)
  PROVE  OwnInv'
<1>1. PICK s \in Sessions, i \in Ids : s = call[c].sess /\ i = call[c].id
  BY DEF StartOk, SlotInv, Shape
<1>2. /\ call[c].at = "starting" /\ c \in SlotHolders /\ c \notin Sessions
      /\ call[c] \in Call
      /\ Owners /\ OneOwner /\ NoOrphanContext /\ NoSlotLost
      /\ contexts \in [Ids -> Sessions \cup {None}] /\ None \notin Sessions
      /\ bs \in [Sessions -> {"unborn", "starting", "live", "partial", "closed"}]
  BY PoolAssumption DEF StartOk, SlotHolders, OwnInv, SlotInv, PoolTypeOK
<1>3. /\ contexts' = [contexts EXCEPT ![i] = s]
      /\ entry' = [entry EXCEPT ![s] = [id |-> i, holds |-> call[c].op = "acquire", idle |-> FALSE]]
      /\ bs' = [bs EXCEPT ![s] = "live"]
      /\ call' = [call EXCEPT ![c] = IF call[c].op = "acquire" THEN Returned(s) ELSE [@ EXCEPT !.at = "inside"]]
      /\ UNCHANGED <<sem, waiters, available, reaper, browser, down>>
  BY <1>1 DEF StartOk
<1>4. /\ \A d \in Callers \ {c} : call'[d] = call[d]
      /\ call[c].op = "acquire" => call'[c].at = "idle"
      /\ call[c].op # "acquire" => call'[c].at = "inside"
  <2>1. Returned(s) \in Call /\ Returned(s).at = "idle"
    BY ReturnedType DEF Returned
  <2>2. [call[c] EXCEPT !.at = "inside"] \in Call /\ [call[c] EXCEPT !.at = "inside"].at = "inside"
    BY <1>2 DEF Call, CallStage
  <2> QED BY <1>3, <2>1, <2>2 DEF SlotInv, PoolTypeOK
<1>5. bs[s] = "starting" /\ ~Begun(s) /\ ~Stored(s) /\ ~Stopping(s) /\ s \notin SlotHolders
  <2>1. bs[s] = "starting"
    BY <1>1, <1>2 DEF Owners
  <2>2. ~Begun(s) /\ ~Stored(s) /\ ~Stopping(s)
    BY <1>2, <2>1 DEF Owners, Begun
  <2> QED BY <1>2, <2>1, <2>2, PoolAssumption DEF SlotHolders
<1>6. /\ \A t \in Sessions \ {s} : Stored(t)' => Stored(t)
      /\ \A t \in Sessions : Stopping(t)' <=> Stopping(t)
      /\ \A t \in Sessions \ {s} : entry'[t] = entry[t] /\ bs'[t] = bs[t]
  BY <1>2, <1>3, <1>4 DEF Stored, Stopping, SlotInv, PoolTypeOK, CallStage
<1>7. Calm => contexts[i] = None /\ \A t \in Sessions : Stored(t) => Stored(t)'
  BY <1>1, <1>2, <1>3 DEF OneOwner, Stored
<1>8. Owners'
  <2>1. \A t \in Sessions : Begun(t) => Begun(t)'
    BY <1>2, <1>3 DEF Begun
  <2>2. Begun(s)'
    BY <1>2, <1>3 DEF Begun
  <2>3. \A d \in Callers : call'[d].at = "starting" => d # c /\ call[d].at = "starting" /\ call'[d].sess = call[d].sess
    BY <1>4
  <2>4. \A d \in Callers : call'[d].at = "starting" => bs'[call'[d].sess] = "starting"
    BY <1>1, <1>2, <1>3, <2>3 DEF Owners, SlotInv, Shape
  <2>5. \A d, e \in Callers : d # e /\ call'[d].at = "starting" /\ call'[e].at = "starting"
                               => call'[d].sess # call'[e].sess
    BY <1>2, <2>3 DEF Owners
  <2>6. \A t \in Sessions : /\ Stored(t)' => Begun(t)'
                            /\ Stopping(t)' => Begun(t)' /\ ~Stored(t)'
    BY <1>2, <1>5, <1>6, <2>1, <2>2 DEF Owners
  <2>7. (\A t \in down'.todo : Begun(t)') /\ (down'.at = "stopping" => Begun(down.sess)')
    BY <1>2, <1>3, <2>1 DEF Owners, SlotInv, PoolTypeOK, Shape
  <2>8. OwnId'
    <3> SUFFICES ASSUME NEW j \in Ids, contexts'[j] # None PROVE entry'[contexts'[j]].id = j
      BY DEF OwnId
    <3>1. CASE j = i
      BY <1>2, <1>3, <3>1 DEF SlotInv, PoolTypeOK
    <3>2. CASE j # i
      <4>1. contexts'[j] = contexts[j] /\ contexts[j] \in Sessions \ {s}
        BY <1>2, <1>3, <1>5, <3>2 DEF Stored
      <4> QED BY <1>2, <1>6, <4>1 DEF Owners, OwnId
    <3> QED BY <3>1, <3>2
  <2> QED BY <2>4, <2>5, <2>6, <2>7, <2>8 DEF Owners
<1>9. NoOrphanContext'
  <2> SUFFICES ASSUME Calm, NEW t \in Sessions, bs'[t] = "live" PROVE (Stored(t) \/ Stopping(t))'
    BY <1>3 DEF NoOrphanContext, Calm
  <2>1. CASE t = s
    BY <1>2, <1>3, <2>1 DEF Stored
  <2>2. CASE t # s
    BY <1>2, <1>6, <1>7, <2>2 DEF NoOrphanContext, Calm
  <2> QED BY <2>1, <2>2
<1>10. OneOwner'
  <2> SUFFICES ASSUME Calm PROVE OneOwner'
    BY <1>3 DEF OneOwner, Calm
  <2>1. \A d \in Callers : Asking(d)' => d # c /\ Asking(d) /\ call'[d] = call[d] /\ call[d].id # i /\ call[d].id \in Ids
    BY <1>1, <1>2, <1>4 DEF OneOwner, Asking, SlotInv, Shape
  <2>2. \A j \in Ids \ {i} : contexts'[j] = contexts[j] /\ (Held(j)' => Held(j))
    BY <1>2, <1>3, <1>5 DEF Held, Stored
  <2> QED BY <1>2, <2>1, <2>2 DEF OneOwner, Asking
<1>11. NoSlotLost'
  <2> SUFFICES ASSUME Calm PROVE MaxContexts <= available' + Cardinality(SlotHolders')
    BY <1>3 DEF NoSlotLost, Calm
  <2>1. CASE call[c].op = "acquire"
    <3>1. entry'[s].holds /\ Stored(s)'
      BY <1>2, <1>3, <2>1 DEF Stored, SlotInv, PoolTypeOK
    <3>2. (SlotHolders \ {c}) \cup {s} \subseteq SlotHolders'
      BY <1>2, <1>4, <1>5, <1>6, <1>7, <3>1 DEF SlotHolders
    <3> QED BY <1>2, <1>3, <1>5, <3>2, KeepsSlots DEF NoSlotLost
  <2>2. CASE call[c].op # "acquire"
    <3>1. SlotHolders \subseteq SlotHolders'
      BY <1>2, <1>4, <1>5, <1>6, <1>7, <2>2 DEF SlotHolders
    <3> QED BY <1>2, <1>3, <3>1, KeepsSlots DEF NoSlotLost
  <2> QED BY <2>1, <2>2
<1> QED BY <1>8, <1>9, <1>10, <1>11 DEF OwnInv

-----------------------------------------------------------------------------
(* Steps that pop entries and end stop(). *)

\* A step that pops the sessions P into the hands of a task that stops them, and ends the
\* stop() of the sessions E.
LEMMA StopPopOwn ==
  ASSUME SlotInv, OwnInv, SlotInv', NEW P \in SUBSET Sessions, NEW E \in SUBSET Sessions,
         \A i \in Ids : contexts'[i] \in {contexts[i], None},
         \A t \in P : Stored(t) /\ ~Stored(t)' /\ Stopping(t)',
         \A t \in Sessions \ P : (Stored(t)' <=> Stored(t)) /\ (Stopping(t)' => Stopping(t)),
         \A t \in Sessions \ E : /\ Stopping(t) => Stopping(t)'
                                 /\ entry'[t] = entry[t] /\ bs'[t] = bs[t],
         \A t \in E : /\ Stopping(t) /\ ~entry'[t].holds
                      /\ bs'[t] = "closed" \/ bs'[t] = "partial" \/ bs'[t] = bs[t]
                      /\ Calm' => bs'[t] = "closed",
         Calm' => \/ available' = available + 1 /\ \E x : E = {x}
                  \/ available' = available /\ \A t \in E : ~entry[t].holds,
         \A d \in Callers : /\ Asking(d)' <=> Asking(d)
                            /\ call'[d].at = "starting" <=> call[d].at = "starting"
                            /\ call'[d].at = "inside" <=> call[d].at = "inside"
                            /\ Asking(d) => /\ call'[d].id = call[d].id /\ call'[d].op = call[d].op
                                            /\ call'[d].sess = call[d].sess,
         Calm' => Calm,
         \A t \in down'.todo : t \in Sessions /\ Begun(t),
         down'.at = "stopping" => down'.sess \in Sessions /\ Begun(down'.sess)
  PROVE  OwnInv'
<1>a. /\ Owners /\ OneOwner /\ NoOrphanContext /\ NoSlotLost
      /\ contexts \in [Ids -> Sessions \cup {None}] /\ None \notin Sessions /\ Callers \cap Sessions = {}
  BY PoolAssumption DEF OwnInv, SlotInv, PoolTypeOK
<1>1. \A t \in Sessions : Begun(t) => Begun(t)'
  BY DEF Begun
<1>2. \A t \in Sessions : Stored(t)' => Stored(t) /\ t \notin E
  BY <1>a DEF Owners
<1>3. Owners'
  <2>1. \A d \in Callers : call'[d].at = "starting" =>
          call[d].at = "starting" /\ call'[d].sess = call[d].sess /\ call[d].sess \in Sessions
    BY DEF Asking, SlotInv, Shape
  <2>2. \A t \in Sessions : bs[t] = "starting" => bs'[t] = "starting"
    BY <1>a DEF Owners, Begun
  <2>3. \A d \in Callers : call'[d].at = "starting" => bs'[call'[d].sess] = "starting"
    BY <1>a, <2>1, <2>2 DEF Owners
  <2>4. \A d, e \in Callers : d # e /\ call'[d].at = "starting" /\ call'[e].at = "starting"
                               => call'[d].sess # call'[e].sess
    BY <1>a, <2>1 DEF Owners
  <2>5. \A t \in Sessions : Stored(t)' => Begun(t)'
    BY <1>a, <1>1, <1>2 DEF Owners
  <2>6. \A t \in Sessions : Stopping(t)' => Begun(t)' /\ ~Stored(t)'
    BY <1>a, <1>1 DEF Owners
  <2>7. (\A t \in down'.todo : Begun(t)') /\ (down'.at = "stopping" => Begun(down.sess)')
    BY <1>1 DEF Begun
  <2>8. OwnId'
    <3> SUFFICES ASSUME NEW i \in Ids, contexts'[i] # None PROVE entry'[contexts'[i]].id = i
      BY DEF OwnId
    <3>1. contexts'[i] = contexts[i] /\ contexts[i] \in Sessions /\ Stored(contexts[i])'
      BY <1>a DEF Stored
    <3>2. contexts[i] \notin E
      BY <1>2, <3>1
    <3> QED BY <1>a, <3>1, <3>2 DEF Owners, OwnId
  <2> QED BY <2>3, <2>4, <2>5, <2>6, <2>7, <2>8 DEF Owners
<1>4. NoOrphanContext'
  <2> SUFFICES ASSUME Calm', NEW t \in Sessions, bs'[t] = "live" PROVE (Stored(t) \/ Stopping(t))'
    BY DEF NoOrphanContext, Calm
  <2>1. t \notin E /\ bs[t] = "live"
    OBVIOUS
  <2>2. Stored(t) \/ Stopping(t)
    BY <1>a, <2>1 DEF NoOrphanContext, Calm
  <2> QED BY <2>1, <2>2
<1>5. OneOwner'
  <2> SUFFICES ASSUME Calm' PROVE OneOwner'
    BY DEF OneOwner
  <2>1. \A d, e \in Callers : d # e /\ Asking(d)' /\ Asking(e)' => call'[d].id # call'[e].id
    BY <1>a DEF OneOwner
  <2>2. \A d \in Callers : call'[d].at = "starting" => contexts'[call'[d].id] = None
    BY <1>a DEF OneOwner, Asking, SlotInv, Shape
  <2>3. \A i \in Ids : Held(i)' => Held(i)
    BY <1>a, <1>2 DEF Held, Stored
  <2>4. \A d \in Callers : call'[d].op = "acquire" /\ call'[d].at \in {"waiting", "granted"} => ~Held(call[d].id)'
    <3> SUFFICES ASSUME NEW d \in Callers, call'[d].op = "acquire", call'[d].at \in {"waiting", "granted"}
                 PROVE  ~Held(call[d].id)'
      OBVIOUS
    <3>1. Asking(d)' /\ Asking(d) /\ call'[d].at # "starting"
      BY DEF Asking
    <3>2. call[d].at \in {"waiting", "granted"} /\ call[d].op = "acquire" /\ call'[d].id = call[d].id /\ call[d].id \in Ids
      BY <3>1 DEF Asking, SlotInv, Shape
    <3>3. ~Held(call'[d].id)
      BY <1>a, <3>2 DEF OneOwner
    <3> QED BY <2>3, <3>2, <3>3
  <2> QED BY <2>1, <2>2, <2>4 DEF OneOwner
<1>6. NoSlotLost'
  <2> SUFFICES ASSUME Calm' PROVE MaxContexts <= available' + Cardinality(SlotHolders')
    BY DEF NoSlotLost
  <2>1. SlotHolders \subseteq SlotHolders' \cup E
    BY DEF SlotHolders
  <2>2. CASE available' = available + 1 /\ \E x : E = {x}
    BY <1>a, <2>1, <2>2, KeepsSlots DEF NoSlotLost
  <2>3. CASE available' = available /\ \A t \in E : ~entry[t].holds
    <3>1. SlotHolders \subseteq SlotHolders'
      BY <1>a, <2>1, <2>3 DEF SlotHolders
    <3> QED BY <1>a, <2>3, <3>1, KeepsSlots DEF NoSlotLost
  <2> QED BY <2>2, <2>3
<1> QED BY <1>3, <1>4, <1>5, <1>6 DEF OwnInv

\* A popped session is stored under no other id.
LEMMA PoppedIsGone ==
  ASSUME SlotInv, OwnInv, NEW i \in Ids, NEW s \in Sessions, contexts[i] = s,
         contexts' = [contexts EXCEPT ![i] = None]
  PROVE  /\ Stored(s) /\ ~Stored(s)'
         /\ \A t \in Sessions \ {s} : Stored(t)' <=> Stored(t)
         /\ \A j \in Ids : contexts'[j] \in {contexts[j], None}
<1>a. /\ contexts \in [Ids -> Sessions \cup {None}] /\ None \notin Sessions /\ OwnId
  BY PoolAssumption DEF OwnInv, Owners, SlotInv, PoolTypeOK
<1>1. \A j \in Ids : contexts'[j] = IF j = i THEN None ELSE contexts[j]
  BY <1>a
<1>2. \A j \in Ids \ {i} : contexts[j] # s
  BY <1>a DEF OwnId
<1> QED BY <1>a, <1>1, <1>2 DEF Stored

LEMMA ReapNextOwn ==
  ASSUME SlotInv, OwnInv, NEW STATE ids, ids \in SUBSET Ids, ReapNext(ids)
  PROVE  \E P \in SUBSET Sessions :
           /\ \A j \in Ids : contexts'[j] \in {contexts[j], None}
           /\ \A t \in P : Stored(t) /\ ~Stored(t)' /\ reaper'.at = "stopping" /\ reaper'.sess = t
           /\ \A t \in Sessions \ P : (Stored(t)' <=> Stored(t)) /\ ~(reaper'.at = "stopping" /\ reaper'.sess = t)
<1>1. CASE reaper' = Sleeping /\ UNCHANGED contexts
  <2>1. reaper'.at # "stopping"
    BY <1>1 DEF Sleeping
  <2>2. \A t \in Sessions : Stored(t)' <=> Stored(t)
    BY <1>1 DEF Stored
  <2> WITNESS {} \in SUBSET Sessions
  <2> QED BY <1>1, <2>1, <2>2
<1>2. ASSUME NEW i \in ids, contexts[i] # None, NEW gone,
             contexts' = [contexts EXCEPT ![i] = None],
             reaper' = [at |-> "stopping", todo |-> ids \ (gone \cup {i}), sess |-> contexts[i]]
      PROVE  \E P \in SUBSET Sessions :
               /\ \A j \in Ids : contexts'[j] \in {contexts[j], None}
               /\ \A t \in P : Stored(t) /\ ~Stored(t)' /\ reaper'.at = "stopping" /\ reaper'.sess = t
               /\ \A t \in Sessions \ P : (Stored(t)' <=> Stored(t)) /\ ~(reaper'.at = "stopping" /\ reaper'.sess = t)
  <2>1. PICK s \in Sessions : contexts[i] = s
    BY <1>2 DEF SlotInv, PoolTypeOK
  <2>2. /\ Stored(s) /\ ~Stored(s)'
        /\ \A t \in Sessions \ {s} : Stored(t)' <=> Stored(t)
        /\ \A j \in Ids : contexts'[j] \in {contexts[j], None}
    BY <1>2, <2>1, PoppedIsGone
  <2>3. reaper'.at = "stopping" /\ reaper'.sess = s
    BY <1>2, <2>1
  <2> WITNESS {s} \in SUBSET Sessions
  <2> QED BY <2>2, <2>3
<1> QED BY <1>1, <1>2 DEF ReapNext

LEMMA ReleaseBeginOwn ==
  ASSUME SlotInv, OwnInv, SlotInv', NEW c \in Callers, NEW i \in Ids, ReleaseBegin(c, i)
  PROVE  OwnInv'
<1>a. /\ call[c].at = "idle" /\ call \in [Callers -> Call]
      /\ UNCHANGED <<sem, waiters, available, entry, bs, reaper, browser, down>>
      /\ Owners /\ down.todo \in SUBSET Sessions /\ (down.at = "stopping" => down.sess \in Sessions)
  BY DEF ReleaseBegin, OwnInv, SlotInv, PoolTypeOK, Shape
<1>1. ASSUME contexts[i] = None, call' = [call EXCEPT ![c] = Returned(None)], UNCHANGED contexts
      PROVE  OwnInv'
  <2>1. call'[c].at = "idle" /\ SameOthers(c)
    BY <1>1, EndsQuietly
  <2> QED BY <1>a, <1>1, <2>1, CallEndsOwn
<1>2. ASSUME contexts[i] # None, contexts' = [contexts EXCEPT ![i] = None],
             call' = [call EXCEPT ![c] = [op |-> "release", id |-> i, at |-> "stopping", sess |-> contexts[i]]]
      PROVE  OwnInv'
  <2>1. PICK s \in Sessions : contexts[i] = s
    BY <1>2 DEF SlotInv, PoolTypeOK
  <2>2. /\ Stored(s) /\ ~Stored(s)'
        /\ \A t \in Sessions \ {s} : Stored(t)' <=> Stored(t)
        /\ \A j \in Ids : contexts'[j] \in {contexts[j], None}
    BY <1>2, <2>1, PoppedIsGone
  <2>3. /\ call'[c].at = "stopping" /\ call'[c].sess = s
        /\ \A d \in Callers \ {c} : call'[d] = call[d]
    BY <1>a, <1>2, <2>1
  <2>4. /\ Stopping(s)'
        /\ \A t \in Sessions : Stopping(t) => Stopping(t)'
        /\ \A t \in Sessions \ {s} : Stopping(t)' => Stopping(t)
    BY <1>a, <2>3 DEF Stopping
  <2>5. \A d \in Callers : /\ Asking(d)' <=> Asking(d)
                           /\ call'[d].at = "starting" <=> call[d].at = "starting"
                           /\ call'[d].at = "inside" <=> call[d].at = "inside"
                           /\ Asking(d) => call'[d] = call[d]
    BY <1>a, <2>3 DEF Asking
  <2>6. /\ \A t \in down'.todo : t \in Sessions /\ Begun(t)
        /\ down'.at = "stopping" => down'.sess \in Sessions /\ Begun(down'.sess)
        /\ Calm' => Calm
    BY <1>a DEF Owners, Calm
  <2> DEFINE P == {s}
             E == {}
  <2>7. /\ P \in SUBSET Sessions /\ E \in SUBSET Sessions
        /\ \A t \in P : Stored(t) /\ ~Stored(t)' /\ Stopping(t)'
        /\ \A t \in Sessions \ P : (Stored(t)' <=> Stored(t)) /\ (Stopping(t)' => Stopping(t))
        /\ \A t \in Sessions \ E : /\ Stopping(t) => Stopping(t)'
                                   /\ entry'[t] = entry[t] /\ bs'[t] = bs[t]
    BY <1>a, <2>2, <2>4
  <2> QED BY <1>a, <2>2, <2>5, <2>6, <2>7, StopPopOwn
<1> QED BY <1>1, <1>2 DEF ReleaseBegin

\* The end of release()'s stop().
LEMMA StopEndsOwn ==
  ASSUME SlotInv, OwnInv, SlotInv', NEW c \in Callers, NEW s \in Sessions,
         call[c].at = "stopping", call[c].sess = s,
         call'[c].at = "idle", SameOthers(c), UNCHANGED <<contexts, reaper, down>>,
         entry' = [entry EXCEPT ![s] = NoEntry],
         \/ bs' = [bs EXCEPT ![s] = "closed"]
         \/ ~Calm /\ bs' = [bs EXCEPT ![s] = IF @ = "live" THEN "partial" ELSE @],
         Calm => available' = IF entry[s].holds THEN available + 1 ELSE available
  PROVE  OwnInv'
<1>a. /\ Owners /\ down.todo \in SUBSET Sessions /\ (down.at = "stopping" => down.sess \in Sessions)
      /\ entry \in [Sessions -> Entry]
      /\ bs \in [Sessions -> {"unborn", "starting", "live", "partial", "closed"}]
  BY DEF OwnInv, SlotInv, PoolTypeOK, Shape
<1> DEFINE P == {}
           E == {s}
<1>1. P \in SUBSET Sessions /\ E \in SUBSET Sessions
  OBVIOUS
<1>2. \A t \in Sessions \ P : (Stored(t)' <=> Stored(t)) /\ (Stopping(t)' => Stopping(t))
  BY DEF Stored, Stopping, SameOthers, SameTask
<1>3. \A t \in Sessions \ E : /\ Stopping(t) => Stopping(t)'
                              /\ entry'[t] = entry[t] /\ bs'[t] = bs[t]
  BY <1>a DEF Stopping, SameOthers, SameTask
<1>4. \A t \in E : /\ Stopping(t) /\ ~entry'[t].holds
                   /\ bs'[t] = "closed" \/ bs'[t] = "partial" \/ bs'[t] = bs[t]
                   /\ Calm' => bs'[t] = "closed"
  BY <1>a DEF Stopping, NoEntry, Calm
<1>5. /\ Calm' => Calm
      /\ Calm' => \/ available' = available + 1 /\ \E x : E = {x}
                  \/ available' = available /\ \A t \in E : ~entry[t].holds
  BY DEF Calm
<1>6. \A d \in Callers : /\ Asking(d)' <=> Asking(d)
                         /\ call'[d].at = "starting" <=> call[d].at = "starting"
                         /\ call'[d].at = "inside" <=> call[d].at = "inside"
                         /\ Asking(d) => /\ call'[d].id = call[d].id /\ call'[d].op = call[d].op
                                         /\ call'[d].sess = call[d].sess
  BY DEF SameOthers, SameTask, Asking
<1>7. /\ \A t \in down'.todo : t \in Sessions /\ Begun(t)
      /\ down'.at = "stopping" => down'.sess \in Sessions /\ Begun(down'.sess)
  BY <1>a DEF Owners
<1> HIDE DEF E
<1> QED BY <1>1, <1>2, <1>3, <1>4, <1>5, <1>6, <1>7, StopPopOwn

LEMMA ReleaseDoneOwn ==
  ASSUME SlotInv, OwnInv, SlotInv', NEW c \in Callers, ReleaseDone(c)
  PROVE  OwnInv'
<1>1. /\ call[c].at = "stopping" /\ call[c].sess \in Sessions /\ UNCHANGED <<contexts, reaper, browser, down>>
      /\ AfterStop(call[c].sess, [call EXCEPT ![c] = Returned(None)])
  BY DEF ReleaseDone, SlotInv, Shape
<1>2. /\ call'[c].at = "idle" /\ SameOthers(c)
      /\ available' = IF entry[call[c].sess].holds THEN available + 1 ELSE available
  BY <1>1, EndsByStop
<1>3. bs' = [bs EXCEPT ![call[c].sess] = "closed"] /\ entry' = [entry EXCEPT ![call[c].sess] = NoEntry]
  BY <1>1 DEF AfterStop
<1> QED BY <1>1, <1>2, <1>3, StopEndsOwn

LEMMA CancelReleaseOwn ==
  ASSUME SlotInv, OwnInv, SlotInv', NEW c \in Callers, CancelRelease(c)
  PROVE  OwnInv'
<1>1. /\ call[c].at = "stopping" /\ call[c].sess \in Sessions /\ ~Calm
      /\ UNCHANGED <<contexts, reaper, browser, down>>
      /\ bs' \in {[bs EXCEPT ![call[c].sess] = "closed"],
                  [bs EXCEPT ![call[c].sess] = IF @ = "live" THEN "partial" ELSE @]}
      /\ entry' = [entry EXCEPT ![call[c].sess] = NoEntry]
  BY DEF CancelRelease, Calm, SlotInv, Shape
<1>2. call'[c].at = "idle" /\ SameOthers(c)
  BY EndsQuietly DEF CancelRelease
<1> QED BY <1>1, <1>2, StopEndsOwn

LEMMA AgeOwn ==
  ASSUME SlotInv, OwnInv, SlotInv', NEW i \in Ids, Age(i)
  PROVE  OwnInv'
<1>1. PICK s \in Sessions : s = contexts[i]
  BY DEF Age, SlotInv, PoolTypeOK
<1>2. /\ entry' = [entry EXCEPT ![s].idle = TRUE] /\ entry \in [Sessions -> Entry]
      /\ contexts \in [Ids -> Sessions \cup {None}]
      /\ UNCHANGED <<sem, waiters, available, contexts, bs, call, reaper, browser, down>>
      /\ Owners /\ OneOwner /\ NoOrphanContext /\ NoSlotLost
  BY <1>1 DEF Age, OwnInv, SlotInv, PoolTypeOK
<1>3. \A t \in Sessions : entry'[t].id = entry[t].id /\ (entry'[t].holds <=> entry[t].holds)
  BY <1>2 DEF Entry
<1>4. Owners'
  BY <1>2, <1>3 DEF Owners, OwnId, Begun, Stored, Stopping
<1>5. NoOrphanContext'
  BY <1>2 DEF NoOrphanContext, Stored, Stopping
<1>6. OneOwner'
  BY <1>2, <1>3 DEF OneOwner, Calm, Asking, Held, SlotInv, Shape
<1>7. NoSlotLost'
  <2>1. SlotHolders \subseteq SlotHolders'
    BY <1>2, <1>3 DEF SlotHolders, Stored, Stopping
  <2> QED BY <1>2, <2>1, KeepsSlots DEF NoSlotLost, Calm
<1> QED BY <1>4, <1>5, <1>6, <1>7 DEF OwnInv

LEMMA ReaperWakeOwn ==
  ASSUME SlotInv, OwnInv, SlotInv', ReaperWake
  PROVE  OwnInv'
<1>1. /\ Overdue \in SUBSET Ids /\ ReapNext(Overdue) /\ reaper.at = "sleep"
      /\ UNCHANGED <<sem, waiters, available, entry, bs, call, browser, down>>
      /\ Owners /\ down.todo \in SUBSET Sessions /\ (down.at = "stopping" => down.sess \in Sessions)
  BY DEF ReaperWake, Overdue, OwnInv, SlotInv, PoolTypeOK, Shape
<1>2. PICK P \in SUBSET Sessions :
        /\ \A j \in Ids : contexts'[j] \in {contexts[j], None}
        /\ \A t \in P : Stored(t) /\ ~Stored(t)' /\ reaper'.at = "stopping" /\ reaper'.sess = t
        /\ \A t \in Sessions \ P : (Stored(t)' <=> Stored(t)) /\ ~(reaper'.at = "stopping" /\ reaper'.sess = t)
  BY <1>1, ReapNextOwn
<1> DEFINE E == {}
<1>3. /\ E \in SUBSET Sessions
      /\ \A t \in P : Stored(t) /\ ~Stored(t)' /\ Stopping(t)'
      /\ \A t \in Sessions \ P : (Stored(t)' <=> Stored(t)) /\ (Stopping(t)' => Stopping(t))
      /\ \A t \in Sessions \ E : /\ Stopping(t) => Stopping(t)'
                                 /\ entry'[t] = entry[t] /\ bs'[t] = bs[t]
  BY <1>1, <1>2 DEF Stopping
<1>4. /\ \A t \in down'.todo : t \in Sessions /\ Begun(t)
      /\ down'.at = "stopping" => down'.sess \in Sessions /\ Begun(down'.sess)
      /\ Calm' => Calm
  BY <1>1 DEF Owners, Calm
<1>5. \A d \in Callers : (Asking(d)' <=> Asking(d)) /\ call'[d] = call[d]
  BY <1>1 DEF Asking
<1> QED BY <1>1, <1>2, <1>3, <1>4, <1>5, StopPopOwn

LEMMA ReaperStoppedOwn ==
  ASSUME SlotInv, OwnInv, SlotInv', ReaperStopped
  PROVE  OwnInv'
<1>1. /\ reaper.at = "stopping" /\ ReapNext(reaper.todo) /\ reaper.todo \in SUBSET Ids
      /\ UNCHANGED <<browser, down>>
      /\ Owners /\ down.todo \in SUBSET Sessions /\ (down.at = "stopping" => down.sess \in Sessions)
      /\ entry \in [Sessions -> Entry]
      /\ bs \in [Sessions -> {"unborn", "starting", "live", "partial", "closed"}]
  BY DEF ReaperStopped, OwnInv, SlotInv, PoolTypeOK, Shape
<1>2. PICK s \in Sessions : s = reaper.sess
  BY <1>1 DEF SlotInv, Shape
<1>3. PICK P \in SUBSET Sessions :
        /\ \A j \in Ids : contexts'[j] \in {contexts[j], None}
        /\ \A t \in P : Stored(t) /\ ~Stored(t)' /\ reaper'.at = "stopping" /\ reaper'.sess = t
        /\ \A t \in Sessions \ P : (Stored(t)' <=> Stored(t)) /\ ~(reaper'.at = "stopping" /\ reaper'.sess = t)
  BY <1>1, ReapNextOwn
<1>4. /\ \A d \in Callers : SameTask(d)
      /\ available' = IF entry[s].holds THEN available + 1 ELSE available
      /\ bs' = [bs EXCEPT ![s] = "closed"] /\ entry' = [entry EXCEPT ![s] = NoEntry]
  <2>1. AfterStop(reaper.sess, call) /\ reaper.sess \in Sessions
    BY <1>2 DEF ReaperStopped
  <2>2. /\ \A d \in Callers : SameTask(d)
        /\ available' = IF entry[reaper.sess].holds THEN available + 1 ELSE available
    BY <2>1, ReaperStopTasks
  <2> QED BY <1>2, <2>1, <2>2 DEF AfterStop
<1> DEFINE E == {s}
<1>5. /\ \A t \in P : Stored(t) /\ ~Stored(t)' /\ Stopping(t)'
      /\ \A t \in Sessions \ P : (Stored(t)' <=> Stored(t)) /\ (Stopping(t)' => Stopping(t))
  BY <1>3, <1>4 DEF Stopping, SameTask
<1>6. \A t \in Sessions \ E : /\ Stopping(t) => Stopping(t)'
                              /\ entry'[t] = entry[t] /\ bs'[t] = bs[t]
  BY <1>1, <1>2, <1>4 DEF Stopping, SameTask
<1>7. \A t \in E : Stopping(t) /\ ~entry'[t].holds /\ bs'[t] = "closed"
  BY <1>1, <1>2, <1>4 DEF Stopping, NoEntry
<1>8. \/ available' = available + 1 /\ \E x : E = {x}
      \/ available' = available /\ \A t \in E : ~entry[t].holds
  BY <1>4
<1>9. \A d \in Callers : /\ Asking(d)' <=> Asking(d)
                         /\ call'[d].at = "starting" <=> call[d].at = "starting"
                         /\ call'[d].at = "inside" <=> call[d].at = "inside"
                         /\ Asking(d) => /\ call'[d].id = call[d].id /\ call'[d].op = call[d].op
                                         /\ call'[d].sess = call[d].sess
  BY <1>4 DEF SameTask, Asking
<1>10. /\ \A t \in down'.todo : t \in Sessions /\ Begun(t)
       /\ down'.at = "stopping" => down'.sess \in Sessions /\ Begun(down'.sess)
       /\ Calm' => Calm
  BY <1>1 DEF Owners, Calm
<1>11. E \in SUBSET Sessions
  OBVIOUS
<1> HIDE DEF E
<1> QED BY <1>3, <1>5, <1>6, <1>7, <1>8, <1>9, <1>10, <1>11, StopPopOwn

\* The shared browser dies with what it hosts.
LEMMA DieKeeps ==
  ASSUME SlotInv, NEW s \in Sessions
  PROVE  /\ Die(bs)[s] = bs[s] \/ (bs[s] \in {"live", "partial"} /\ Die(bs)[s] = "closed")
BY DEF Die, SlotInv, PoolTypeOK

LEMMA BrowserCrashOwn ==
  ASSUME SlotInv, OwnInv, SlotInv', BrowserCrash
  PROVE  OwnInv'
<1>1. /\ UNCHANGED <<sem, waiters, available, contexts, entry, call, reaper, down>>
      /\ bs' = Die(bs)
      /\ Owners /\ OneOwner /\ NoOrphanContext /\ NoSlotLost
      /\ down.todo \in SUBSET Sessions /\ (down.at = "stopping" => down.sess \in Sessions)
  BY DEF BrowserCrash, OwnInv, SlotInv, PoolTypeOK, Shape
<1>2. \A s \in Sessions : /\ Begun(s) => Begun(s)'
                          /\ bs[s] = "starting" => bs'[s] = "starting"
                          /\ bs'[s] = "live" => bs[s] = "live"
  BY <1>1, DieKeeps DEF Begun
<1>3. Owners'
  BY <1>1, <1>2 DEF Owners, OwnId, Stored, Stopping, SlotInv, Shape
<1>4. NoOrphanContext'
  BY <1>1, <1>2 DEF NoOrphanContext, Stored, Stopping
<1>5. OneOwner' /\ NoSlotLost'
  BY <1>1 DEF OneOwner, NoSlotLost, SlotHolders, Stored, Stopping, Calm, Asking, Held
<1> QED BY <1>3, <1>4, <1>5 DEF OwnInv

LEMMA ShutdownBeginOwn ==
  ASSUME SlotInv, OwnInv, SlotInv', ShutdownBegin
  PROVE  OwnInv'
<1>1. /\ UNCHANGED <<sem, waiters, available, contexts, call, browser>>
      /\ down' = [down EXCEPT !.at = "reaper"]
      /\ reaper' = [Sleeping EXCEPT !.at = "done"]
      /\ entry \in [Sessions -> Entry] /\ Owners /\ down.todo \in SUBSET Sessions
      /\ bs \in [Sessions -> {"unborn", "starting", "live", "partial", "closed"}]
  BY DEF ShutdownBegin, OwnInv, SlotInv, PoolTypeOK
<1>2. reaper'.at = "done" /\ down'.at = "reaper" /\ down'.todo = down.todo /\ ~Calm'
  BY <1>1 DEF Sleeping, Calm, SlotInv, PoolTypeOK
<1>3. \A d \in Callers : (Asking(d)' <=> Asking(d)) /\ call'[d] = call[d]
  BY <1>1 DEF Asking
<1>4. \A t \in down'.todo : t \in Sessions /\ Begun(t)
  BY <1>1, <1>2 DEF Owners
<1> DEFINE P == {}
           E == {t \in Sessions : reaper.at = "stopping" /\ reaper.sess = t}
<1>5. P \in SUBSET Sessions /\ E \in SUBSET Sessions
  OBVIOUS
<1>6. /\ \A i \in Ids : contexts'[i] \in {contexts[i], None}
      /\ \A t \in Sessions \ P : (Stored(t)' <=> Stored(t)) /\ (Stopping(t)' => Stopping(t))
  BY <1>1, <1>2 DEF Stored, Stopping
<1>7. \A t \in Sessions \ E : Stopping(t) => Stopping(t)'
  BY <1>1 DEF Stopping
<1>8. \A t \in Sessions \ E : entry'[t] = entry[t] /\ bs'[t] = bs[t]
  BY <1>1 DEF ShutdownBegin
<1>9. \A t \in E : /\ Stopping(t) /\ ~entry'[t].holds
                   /\ bs'[t] = "closed" \/ bs'[t] = "partial" \/ bs'[t] = bs[t]
  BY <1>1 DEF ShutdownBegin, Stopping, NoEntry
<1> HIDE DEF E
<1> QED BY <1>2, <1>3, <1>4, <1>5, <1>6, <1>7, <1>8, <1>9, StopPopOwn

\* Past its first step shutdown() makes no promise but ownership.
LEMMA ShutdownOwn ==
  ASSUME SlotInv, OwnInv, SlotInv', ShutdownSnapshot \/ ShutdownStopped \/ ShutdownBrowserClosed
  PROVE  OwnInv'
<1>a. /\ UNCHANGED <<entry, call, reaper>> /\ Owners
      /\ contexts \in [Ids -> Sessions \cup {None}] /\ None \notin Sessions
      /\ bs \in [Sessions -> {"unborn", "starting", "live", "partial", "closed"}]
      /\ down.todo \in SUBSET Sessions /\ (down.at = "stopping" => down.sess \in Sessions)
  BY PoolAssumption DEF ShutdownSnapshot, ShutdownStopped, ShutdownBrowserClosed, OwnInv, SlotInv, PoolTypeOK, Shape
<1>b. ASSUME NEW todo \in SUBSET Sessions, \A s \in todo : Begun(s), StopNext(todo)
      PROVE  /\ \A i \in Ids : contexts'[i] \in {contexts[i], None}
             /\ \A s \in down'.todo : s \in Sessions /\ Begun(s)
             /\ down'.at = "stopping" => down'.sess \in Sessions /\ Begun(down'.sess)
             /\ down'.at # "no"
  BY <1>b DEF StopNext
<1>1. /\ \A i \in Ids : contexts'[i] \in {contexts[i], None}
      /\ \A s \in down'.todo : s \in Sessions /\ Begun(s)
      /\ down'.at = "stopping" => down'.sess \in Sessions /\ Begun(down'.sess)
      /\ down'.at # "no"
  <2>1. CASE ShutdownSnapshot
    <3> DEFINE todo == {contexts[i] : i \in {j \in Ids : contexts[j] # None}}
    <3>1. todo \in SUBSET Sessions /\ \A s \in todo : Begun(s)
      BY <1>a DEF Owners, Stored
    <3>2. StopNext(todo)
      BY <2>1 DEF ShutdownSnapshot
    <3> HIDE DEF todo
    <3> QED BY <1>b, <3>1, <3>2
  <2>2. CASE ShutdownStopped
    <3>1. down.todo \in SUBSET Sessions /\ (\A s \in down.todo : Begun(s)) /\ StopNext(down.todo)
      BY <1>a, <2>2 DEF ShutdownStopped, Owners
    <3> QED BY <1>b, <3>1
  <2>3. CASE ShutdownBrowserClosed
    BY <1>a, <2>3 DEF ShutdownBrowserClosed, Owners, SlotInv, PoolTypeOK
  <2> QED BY <2>1, <2>2, <2>3
<1>2. \A s \in Sessions : /\ Begun(s) => Begun(s)'
                          /\ bs[s] = "starting" => bs'[s] = "starting"
  <2>1. CASE ShutdownSnapshot
    BY <2>1 DEF ShutdownSnapshot, Begun
  <2>2. CASE ShutdownStopped
    BY <1>a, <2>2 DEF ShutdownStopped, Owners, Begun
  <2>3. CASE ShutdownBrowserClosed
    BY <2>3, DieKeeps DEF ShutdownBrowserClosed, Begun
  <2> QED BY <2>1, <2>2, <2>3
<1>3. \A s \in Sessions : (Stored(s)' => Stored(s)) /\ (Stopping(s)' <=> Stopping(s))
  BY <1>a, <1>1 DEF Stored, Stopping
<1>4. Owners'
  <2>1. \A d \in Callers : call'[d].at = "starting" => bs'[call'[d].sess] = "starting"
    BY <1>a, <1>2 DEF Owners, SlotInv, Shape
  <2>2. \A d, e \in Callers : d # e /\ call'[d].at = "starting" /\ call'[e].at = "starting"
                               => call'[d].sess # call'[e].sess
    BY <1>a DEF Owners
  <2>3. \A s \in Sessions : /\ Stored(s)' => Begun(s)'
                            /\ Stopping(s)' => Begun(s)' /\ ~Stored(s)'
    BY <1>a, <1>2, <1>3 DEF Owners
  <2>4. (\A s \in down'.todo : Begun(s)') /\ (down'.at = "stopping" => Begun(down.sess)')
    BY <1>1, <1>2 DEF Begun
  <2>5. OwnId'
    BY <1>a, <1>1 DEF Owners, OwnId
  <2> QED BY <2>1, <2>2, <2>3, <2>4, <2>5 DEF Owners
<1>5. OneOwner' /\ NoOrphanContext' /\ NoSlotLost'
  BY <1>1 DEF OneOwner, NoOrphanContext, NoSlotLost, Calm
<1> QED BY <1>4, <1>5 DEF OwnInv

-----------------------------------------------------------------------------
(* The theorems about ownership. *)

LEMMA InitOwnInv == PoolInit => OwnInv
<1> SUFFICES ASSUME PoolInit PROVE OwnInv
  OBVIOUS
<1>1. /\ \A c \in Callers : call[c].at = "idle"
      /\ \A i \in Ids : contexts[i] = None
      /\ \A s \in Sessions : bs[s] = "unborn"
      /\ reaper.at = "sleep" /\ down.at = "no" /\ down.todo = {}
  BY DEF PoolInit, Returned, Sleeping
<1>2. \A s \in Sessions : ~Stored(s) /\ ~Stopping(s)
  BY <1>1, PoolAssumption DEF Stored, Stopping
<1>3. Owners
  BY <1>1, <1>2 DEF Owners, OwnId
<1>4. OneOwner /\ NoOrphanContext
  BY <1>1 DEF OneOwner, NoOrphanContext, Asking
<1>5. NoSlotLost
  BY FiniteHolders, PoolAssumption DEF NoSlotLost, PoolInit
<1> QED BY <1>3, <1>4, <1>5 DEF OwnInv

LEMMA NextOwnInv == SlotInv /\ SlotInv' /\ OwnInv /\ [PoolNext]_pvars => OwnInv'
<1> SUFFICES ASSUME SlotInv, SlotInv', OwnInv, [PoolNext]_pvars PROVE OwnInv'
  OBVIOUS
<1>1. CASE UNCHANGED pvars
  BY <1>1 DEF pvars, OwnInv, Owners, OneOwner, NoOrphanContext, NoSlotLost, OwnId, Calm, Asking,
              Held, Begun, Stored, Stopping, SlotHolders
<1>2. ASSUME NEW c \in Callers, NEW i \in Ids,
             Begin(c, "acquire", i) \/ Begin(c, "session", i) \/ ReleaseBegin(c, i)
      PROVE  OwnInv'
  BY <1>2, BeginOwn, ReleaseBeginOwn
<1>3. ASSUME NEW c \in Callers, Proceed(c)
      PROVE  OwnInv'
  BY <1>3, ResumeOwn, GiveUpOwn, StartOkOwn, StartFailOwn, CancelStartOwn,
     ReleaseDoneOwn, CancelReleaseOwn DEF Proceed
<1>4. ASSUME NEW c \in Callers, ExitSession(c)
      PROVE  OwnInv'
  BY <1>4, ExitSessionOwn
<1>5. CASE Background
  BY <1>5, AgeOwn, ReaperWakeOwn, ReaperStoppedOwn, BrowserCrashOwn,
     ShutdownBeginOwn, ShutdownOwn DEF Background
<1> QED BY <1>1, <1>2, <1>3, <1>4, <1>5 DEF PoolNext

LEMMA OwnInvariant == PoolSpec => [](SlotInv /\ OwnInv)
<1>1. SlotInv /\ OwnInv /\ [PoolNext]_pvars => (SlotInv /\ OwnInv)'
  BY NextSlotInv, NextOwnInv
<1> QED BY <1>1, InitSlotInv, InitOwnInv, PTL DEF PoolSpec

\* While ids have one owner and nobody is cancelled, no started browser context is lost.
THEOREM PoolLosesNoContext == PoolSpec => []NoOrphanContext
<1>1. OwnInv => NoOrphanContext
  BY DEF OwnInv
<1> QED BY <1>1, OwnInvariant, PTL

\* Under the same contract no slot is lost either: what is not free has a holder.
THEOREM PoolConservesSlots == PoolSpec => []SlotConservation
<1>1. SlotInv /\ OwnInv => SlotConservation
  <2>1. SlotInv => available \in Nat /\ MaxContexts \in Nat
    BY PoolAssumption DEF SlotInv, PoolTypeOK
  <2> QED BY <2>1, FiniteHolders DEF OwnInv, NoSlotLost, SlotConservation, SlotInv, NoInflation, Calm
<1> QED BY <1>1, OwnInvariant, PTL

-----------------------------------------------------------------------------
(***************************************************************************)
(* Nobody waits for a free slot.  The queue holds each queueing task once,   *)
(* and a value above zero finds a woken task wherever one is waiting.        *)
(***************************************************************************)

\* Task c of cl is waiting or woken.
Queueing(cl, c) == cl[c].at \in {"waiting", "granted"}

Once(w) == \A j, k \in 1..Len(w) : w[j] = w[k] => j = k

In(w, c) == \E k \in 1..Len(w) : w[k] = c

\* The queue w holds the queueing tasks of cl, each once.
Queued(w, cl) == Once(w) /\ \A c \in Callers : Queueing(cl, c) <=> In(w, c)

\* A value above zero has been handed on.
HandedOn(cl, v) ==
  v > 0 /\ (\E c \in Callers : cl[c].at = "waiting") => \E c \in Callers : cl[c].at = "granted"

QueueInv == Queued(waiters, call) /\ HandedOn(call, sem)

\* A set of numbers that is not empty has a least one.
LEMMA LeastExists ==
  ASSUME NEW S \in SUBSET Nat, S # {} PROVE \E i \in S : \A j \in S : i <= j
<1>1. PICK i \in S : \A j \in S : ~(<<j, i>> \in OpToRel(<, Nat))
  BY NatLessThanWellFounded, WFMin, Zenon
<1>2. ASSUME NEW j \in S PROVE i <= j
  <2>1. <<j, i>> \notin OpToRel(<, Nat)
    BY <1>1, Zenon
  <2>2. ~(j < i)
    BY <2>1 DEF OpToRel
  <2> QED BY <2>2
<1> QED BY <1>2

\* Where somebody is waiting, somebody is the first.
LEMMA SomebodyFirst ==
  ASSUME NEW STATE cl, NEW STATE w, w \in Seq(Callers), Queued(w, cl),
         NEW d \in Callers, cl[d].at = "waiting"
  PROVE  \E c \in Callers : FirstWaiting(c, cl, w)
<1> DEFINE S == {k \in 1..Len(w) : cl[w[k]].at = "waiting"}
<1>1. Len(w) \in Nat /\ DOMAIN w = 1..Len(w) /\ \A k \in 1..Len(w) : w[k] \in Callers
  BY LenProperties, ElementOfSeq
<1>2. PICK n \in 1..Len(w) : w[n] = d
  BY DEF Queued, Queueing, In
<1>3. S \in SUBSET Nat /\ S # {}
  BY <1>1, <1>2
<1>4. PICK k \in S : \A j \in S : k <= j
  <2> HIDE DEF S
  <2> QED BY <1>3, LeastExists
<1>5. \A j \in 1..(k - 1) : cl[w[j]].at # "waiting"
  BY <1>1, <1>4
<1> QED BY <1>1, <1>4, <1>5 DEF FirstWaiting

LEMMA SameInterval == ASSUME NEW m \in Nat, NEW n \in Nat, 1..m = 1..n PROVE m = n
<1>1. m > 0 => m \in 1..n
  OBVIOUS
<1>2. n > 0 => n \in 1..m
  OBVIOUS
<1> QED BY <1>1, <1>2

\* Without takes one member out of a queue.
LEMMA WithoutIs ==
  ASSUME NEW w \in Seq(Callers), NEW c \in Callers, Once(w), In(w, c)
  PROVE  /\ Without(w, c) \in Seq(Callers) /\ Once(Without(w, c))
         /\ \A d \in Callers : In(Without(w, c), d) <=> d # c /\ In(w, d)
<1>0. PICK n \in 1..Len(w) : w[n] = c
  BY DEF In
<1> DEFINE u == Without(w, c)
<1>1. Len(w) \in Nat /\ DOMAIN w = 1..Len(w)
  BY LenProperties
<1>2. (CHOOSE j \in DOMAIN w : w[j] = c) = n
  <2>1. n \in DOMAIN w /\ w[n] = c /\ \A j \in DOMAIN w : w[j] = c => j = n
    BY <1>0, <1>1 DEF Once
  <2> QED BY <2>1
<1>3. u = [j \in 1..(Len(w) - 1) |-> IF j < n THEN w[j] ELSE w[j + 1]]
  BY <1>2 DEF Without
<1>4. u \in Seq(Callers)
  BY WithoutType
<1>5. Len(u) = Len(w) - 1
  <2>1. DOMAIN u = 1..(Len(w) - 1) /\ DOMAIN u = 1..Len(u) /\ Len(u) \in Nat
    BY <1>3, <1>4, LenProperties
  <2> HIDE DEF u
  <2>2. Len(w) - 1 \in Nat
    BY <1>0, <1>1
  <2>3. 1..(Len(w) - 1) = 1..Len(u)
    BY <2>1, Zenon
  <2> QED BY <2>1, <2>2, <2>3, SameInterval
<1> HIDE DEF u
<1>6. \A j \in 1..Len(u) : u[j] = IF j < n THEN w[j] ELSE w[j + 1]
  BY <1>3, <1>5
<1>7. Once(u)
  BY <1>1, <1>5, <1>6 DEF Once
<1>8. ASSUME NEW d \in Callers, NEW k \in 1..Len(u), u[k] = d
      PROVE  d # c /\ \E j \in 1..Len(w) : w[j] = d
  BY <1>0, <1>1, <1>5, <1>6, <1>8 DEF Once
<1>9. ASSUME NEW d \in Callers, d # c, NEW k \in 1..Len(w), w[k] = d
      PROVE  \E j \in 1..Len(u) : u[j] = d
  <2>1. k # n
    BY <1>0, <1>9
  <2>2. CASE k < n
    <3>1. k \in 1..Len(u) /\ u[k] = d
      BY <1>1, <1>5, <1>6, <1>9, <2>2
    <3> QED BY <3>1
  <2>3. CASE k > n
    <3>1. k - 1 \in 1..Len(u) /\ u[k - 1] = w[k - 1 + 1] /\ k - 1 + 1 = k
      BY <1>1, <1>5, <1>6, <2>3
    <3> QED BY <1>9, <3>1
  <2> QED BY <1>1, <2>1, <2>2, <2>3
<1>10. \A d \in Callers : In(u, d) <=> d # c /\ In(w, d)
  BY <1>8, <1>9 DEF In
<1> QED BY <1>4, <1>7, <1>10 DEF u

\* Wake hands on: it wakes the first waiting task, or nobody is waiting.
LEMMA WakeHandsOn ==
  ASSUME NEW STATE cl, cl \in [Callers -> Call], NEW STATE w, w \in Seq(Callers),
         NEW STATE v, Queued(w, cl), Wake(cl, w, v)
  PROVE  QueueInv'
<1>1. waiters' = w
  BY DEF Wake
<1>2. CASE (\A c \in Callers : ~FirstWaiting(c, cl, w)) /\ sem' = v /\ call' = cl
  <2>1. \A d \in Callers : cl[d].at # "waiting"
    BY <1>2, SomebodyFirst
  <2> QED BY <1>1, <1>2, <2>1 DEF QueueInv, Queued, Queueing, HandedOn
<1>3. ASSUME NEW c \in Callers, FirstWaiting(c, cl, w), call' = [cl EXCEPT ![c].at = "granted"]
      PROVE  QueueInv'
  <2>1. cl[c].at = "waiting"
    BY <1>3 DEF FirstWaiting
  <2>2. call'[c].at = "granted" /\ \A d \in Callers \ {c} : call'[d] = cl[d]
    BY <1>3 DEF Call
  <2>3. \A d \in Callers : Queueing(cl, d) <=> call'[d].at \in {"waiting", "granted"}
    BY <2>1, <2>2 DEF Queueing
  <2> QED BY <1>1, <2>2, <2>3 DEF QueueInv, Queued, Queueing, HandedOn
<1> QED BY <1>2, <1>3 DEF Wake

\* A step that leaves the semaphore alone, and the queueing tasks where they are.
LEMMA QueueUntouched ==
  ASSUME QueueInv, UNCHANGED <<sem, waiters>>,
         \A d \in Callers : Queueing(call, d) \/ Queueing(call, d)' => call'[d].at = call[d].at
  PROVE  QueueInv'
BY DEF QueueInv, Queued, HandedOn, Queueing

\* A step of a task that does not queue, before or after it, and leaves the semaphore alone.
LEMMA TaskUntouched ==
  ASSUME SlotInv, QueueInv, UNCHANGED <<sem, waiters>>, NEW c \in Callers, NEW r \in Call,
         call' = [call EXCEPT ![c] = r], ~Queueing(call, c), r.at \notin {"waiting", "granted"}
  PROVE  QueueInv'
<1>1. call'[c] = r /\ \A d \in Callers \ {c} : call'[d] = call[d]
  BY DEF SlotInv, PoolTypeOK
<1> QED BY <1>1, QueueUntouched DEF Queueing

\* A slot given back is handed on.
LEMMA SlotBackHandsOn ==
  ASSUME SlotInv, QueueInv, NEW STATE cl, cl \in [Callers -> Call], GiveSlotBack(cl),
         \A d \in Callers : Queueing(call, d) \/ Queueing(cl, d) => cl[d].at = call[d].at
  PROVE  QueueInv'
<1>1. waiters \in Seq(Callers)
  BY DEF SlotInv, PoolTypeOK
<1>2. Queued(waiters, cl)
  BY DEF QueueInv, Queued, Queueing
<1> QED BY <1>1, <1>2, WakeHandsOn DEF GiveSlotBack

\* The same when it is task c that ends with it.
LEMMA EndHandsOn ==
  ASSUME SlotInv, QueueInv, NEW c \in Callers, ~Queueing(call, c),
         NEW r \in Sessions \cup {None}, GiveSlotBack([call EXCEPT ![c] = Returned(r)])
  PROVE  QueueInv'
<1> DEFINE cl == [call EXCEPT ![c] = Returned(r)]
<1>1. /\ cl \in [Callers -> Call] /\ cl[c].at = "idle"
      /\ \A d \in Callers \ {c} : cl[d] = call[d]
  BY Ended
<1>2. GiveSlotBack(cl)
  OBVIOUS
<1> HIDE DEF cl
<1> QED BY <1>1, <1>2, SlotBackHandsOn DEF Queueing

\* The queue w of the tasks of cl other than c, and a value that is handed on without c.
QueuedBut(w, cl, c) ==
  Once(w) /\ \A d \in Callers : In(w, d) <=> d # c /\ Queueing(cl, d)

HandedOnBut(cl, v, c) ==
  v > 0 /\ (\E d \in Callers \ {c} : cl[d].at = "waiting")
    => \E d \in Callers \ {c} : cl[d].at = "granted"

\* A task that has its slot, or gives it back because there is no browser, leaves the queue
\* in order.
LEMMA WithSlotHandsOn ==
  ASSUME SlotInv, NEW c \in Callers, NEW op \in {"acquire", "session"}, NEW i \in Ids,
         NEW STATE cl, cl \in [Callers -> Call], NEW STATE w, w \in Seq(Callers),
         NEW STATE v, v \in Nat, QueuedBut(w, cl, c), HandedOnBut(cl, v, c),
         WithSlot(c, op, i, cl, w, v)
  PROVE  QueueInv'
<1>1. ASSUME NEW r, r.at \notin {"waiting", "granted"},
             call' = [cl EXCEPT ![c] = r], waiters' = w, sem' = v
      PROVE  QueueInv'
  <2>1. call'[c] = r /\ \A d \in Callers \ {c} : call'[d] = cl[d]
    BY <1>1
  <2>2. Queued(waiters, call)'
    BY <1>1, <2>1 DEF QueuedBut, Queued, Queueing
  <2>3. HandedOn(call, sem)'
    BY <1>1, <2>1 DEF HandedOnBut, HandedOn
  <2> QED BY <2>2, <2>3 DEF QueueInv
<1>2. CASE contexts[i] # None /\ op = "acquire"
  <2>1. Returned(contexts[i]).at = "idle"
    BY DEF Returned
  <2> QED BY <1>1, <1>2, <2>1 DEF WithSlot
<1>3. CASE contexts[i] # None /\ op = "session"
  BY <1>1, <1>3 DEF WithSlot
<1>4. ASSUME NEW s \in Sessions, waiters' = w, sem' = v,
             call' = [cl EXCEPT ![c] = [op |-> op, id |-> i, at |-> "starting", sess |-> s]]
      PROVE  QueueInv'
  BY <1>1, <1>4
<1>5. CASE Wake([cl EXCEPT ![c] = Returned(None)], w, v + 1)
  <2> DEFINE ce == [cl EXCEPT ![c] = Returned(None)]
  <2>1. /\ ce \in [Callers -> Call] /\ ce[c].at = "idle"
        /\ \A d \in Callers \ {c} : ce[d] = cl[d]
    BY ReturnedType DEF Returned
  <2>2. Wake(ce, w, v + 1)
    BY <1>5
  <2> HIDE DEF ce
  <2>3. Queued(w, ce)
    BY <2>1 DEF QueuedBut, Queued, Queueing
  <2> QED BY <2>1, <2>2, <2>3, WakeHandsOn
<1>6. CASE contexts[i] = None
  BY <1>4, <1>5, <1>6 DEF WithSlot
<1> QED BY <1>2, <1>3, <1>6

LEMMA BeginHandsOn ==
  ASSUME SlotInv, QueueInv, NEW c \in Callers, NEW op \in {"acquire", "session"}, NEW i \in Ids,
         Begin(c, op, i)
  PROVE  QueueInv'
<1>1. call \in [Callers -> Call] /\ waiters \in Seq(Callers) /\ sem \in Nat /\ call[c].at = "idle"
  BY PoolAssumption DEF SlotInv, PoolTypeOK, Begin
<1>2. CASE ~Locked /\ WithSlot(c, op, i, call, waiters, sem - 1)
  <2>1. sem - 1 \in Nat /\ waiters = <<>>
    BY <1>1, <1>2 DEF Locked
  <2>2. QueuedBut(waiters, call, c)
    BY <1>1 DEF QueueInv, Queued, QueuedBut, Queueing
  <2>3. HandedOnBut(call, sem - 1, c)
    <3>1. Len(waiters) = 0
      BY <2>1
    <3>2. \A d \in Callers : ~Queueing(call, d)
      BY <3>1 DEF QueueInv, Queued, In
    <3> QED BY <3>2 DEF HandedOnBut, Queueing
  <2> QED BY <1>1, <1>2, <2>1, <2>2, <2>3, WithSlotHandsOn
<1>3. CASE /\ Locked /\ waiters' = Append(waiters, c) /\ UNCHANGED sem
           /\ call' = [call EXCEPT ![c] = [op |-> op, id |-> i, at |-> "waiting", sess |-> None]]
  <2>1. /\ call'[c].at = "waiting"
        /\ \A d \in Callers \ {c} : call'[d] = call[d]
    BY <1>1, <1>3
  <2>2. /\ Len(waiters) \in Nat /\ Len(waiters') = Len(waiters) + 1
        /\ \A k \in 1..Len(waiters) : waiters'[k] = waiters[k] /\ waiters[k] \in Callers \ {c}
        /\ waiters'[Len(waiters) + 1] = c
    <3>1. \A k \in 1..Len(waiters) : waiters[k] # c
      BY <1>1 DEF QueueInv, Queued, Queueing, In
    <3> QED BY <1>1, <1>3, <3>1, LenProperties, ElementOfSeq, AppendProperties
  <2>3. Queued(waiters, call)'
    <3>1. Once(waiters')
      BY <2>2 DEF QueueInv, Queued, Once
    <3>2. ASSUME NEW d \in Callers
          PROVE  call'[d].at \in {"waiting", "granted"} <=> In(waiters', d)
      <4>1. CASE d = c
        BY <2>1, <2>2, <4>1 DEF In
      <4>2. CASE d # c
        <5>1. call'[d].at \in {"waiting", "granted"} <=> In(waiters, d)
          BY <2>1, <4>2 DEF QueueInv, Queued, Queueing
        <5>2. In(waiters, d) <=> In(waiters', d)
          BY <2>2, <4>2 DEF In
        <5> QED BY <5>1, <5>2
      <4> QED BY <4>1, <4>2
    <3> QED BY <3>1, <3>2 DEF Queued, Queueing
  <2>4. HandedOn(call, sem)'
    <3>1. SUFFICES ASSUME sem > 0 PROVE \E d \in Callers : call'[d].at = "granted"
      BY <1>3 DEF HandedOn
    <3>2. Len(waiters) # 0
      BY <1>1, <1>3, <3>1, EmptySeq DEF Locked
    <3>3. PICK d \in Callers : Queueing(call, d)
      BY <2>2, <3>2 DEF QueueInv, Queued, In
    <3>4. \E e \in Callers : call[e].at = "granted"
      BY <3>1, <3>3 DEF QueueInv, HandedOn, Queueing
    <3> QED BY <1>1, <2>1, <3>4
  <2> QED BY <2>3, <2>4 DEF QueueInv
<1> QED BY <1>2, <1>3 DEF Begin

\* The semaphore's queue once a task that queues has left it.
LEMMA QueueWithout ==
  ASSUME SlotInv, QueueInv, NEW c \in Callers, Queueing(call, c)
  PROVE  LET w == Without(waiters, c) IN w \in Seq(Callers) /\ QueuedBut(w, call, c)
<1>1. waiters \in Seq(Callers)
  BY DEF SlotInv, PoolTypeOK
<1>2. Once(waiters) /\ \A d \in Callers : Queueing(call, d) <=> In(waiters, d)
  BY DEF QueueInv, Queued
<1>3. /\ Without(waiters, c) \in Seq(Callers) /\ Once(Without(waiters, c))
      /\ \A d \in Callers : In(Without(waiters, c), d) <=> d # c /\ In(waiters, d)
  BY <1>1, <1>2, WithoutIs
<1> QED BY <1>2, <1>3 DEF QueuedBut

\* A woken task takes its place out of the queue and wakes the next, if a slot is left.
LEMMA ResumeHandsOn ==
  ASSUME SlotInv, QueueInv, NEW c \in Callers, Resume(c)
  PROVE  QueueInv'
<1> DEFINE w == Without(waiters, c)
<1>1. /\ call \in [Callers -> Call] /\ waiters \in Seq(Callers) /\ sem \in Nat
      /\ call[c].at = "granted" /\ call[c].op \in {"acquire", "session"} /\ call[c].id \in Ids
  BY PoolAssumption DEF SlotInv, PoolTypeOK, Shape, Resume
<1>2. Queueing(call, c)
  BY <1>1 DEF Queueing
<1>3. w \in Seq(Callers) /\ QueuedBut(w, call, c)
  BY <1>2, QueueWithout
<1> HIDE DEF w
<1>5. CASE sem = 0 /\ WithSlot(c, call[c].op, call[c].id, call, w, sem)
  <2>1. HandedOnBut(call, sem, c)
    BY <1>5 DEF HandedOnBut
  <2> QED BY <1>1, <1>3, <1>5, <2>1, WithSlotHandsOn
<1>6. CASE /\ \A d \in Callers : ~FirstWaiting(d, call, w)
           /\ WithSlot(c, call[c].op, call[c].id, call, w, sem)
  <2> DEFINE cl == [call EXCEPT ![c] = Returned(None)]
  <2>1. /\ cl \in [Callers -> Call] /\ cl[c].at = "idle"
        /\ \A d \in Callers \ {c} : cl[d] = call[d]
    BY Ended
  <2> HIDE DEF cl
  <2>2. Queued(w, cl)
    BY <1>3, <2>1 DEF QueuedBut, Queued, Queueing
  <2>3. ASSUME NEW d \in Callers \ {c}, call[d].at = "waiting" PROVE FALSE
    <3>1. PICK e \in Callers : FirstWaiting(e, cl, w)
      BY <1>3, <2>1, <2>2, <2>3, SomebodyFirst
    <3>2. /\ DOMAIN w = 1..Len(w) /\ Len(w) \in Nat
          /\ \A k \in 1..Len(w) : w[k] \in Callers \ {c}
      BY <1>3, LenProperties, ElementOfSeq DEF QueuedBut, In
    <3>3. FirstWaiting(e, call, w)
      <4>1. PICK k \in 1..Len(w) : /\ w[k] = e /\ cl[e].at = "waiting"
                                   /\ \A j \in 1..(k - 1) : cl[w[j]].at # "waiting"
        BY <3>1, <3>2 DEF FirstWaiting
      <4>2. e # c /\ call[e].at = "waiting"
        BY <2>1, <4>1
      <4>3. \A j \in 1..(k - 1) : w[j] \in Callers \ {c}
        BY <3>2
      <4> QED BY <2>1, <3>2, <4>1, <4>2, <4>3 DEF FirstWaiting
    <3> QED BY <1>6, <3>3
  <2>4. HandedOnBut(call, sem, c)
    BY <2>3 DEF HandedOnBut
  <2> QED BY <1>1, <1>3, <1>6, <2>4, WithSlotHandsOn
<1>7. ASSUME NEW d \in Callers, sem > 0, FirstWaiting(d, call, w),
             WithSlot(c, call[c].op, call[c].id, [call EXCEPT ![d].at = "granted"], w, sem - 1)
      PROVE  QueueInv'
  <2> DEFINE cl == [call EXCEPT ![d].at = "granted"]
  <2>1. call[d].at = "waiting" /\ d # c
    BY <1>1, <1>7 DEF FirstWaiting
  <2>2. LikeCall(cl, c) /\ GrantedIn(cl) = Granted \cup {d}
    BY <2>1, PassedOn
  <2>3. WithSlot(c, call[c].op, call[c].id, cl, w, sem - 1)
    BY <1>7
  <2> HIDE DEF cl
  <2>4. cl[d].at = "granted"
    BY <2>2 DEF GrantedIn
  <2>5. \A e \in Callers \ {c} : Queueing(cl, e) <=> Queueing(call, e)
    BY <2>2 DEF LikeCall, Queueing, GrantedIn, Granted
  <2>6. QueuedBut(w, cl, c)
    BY <1>3, <2>5 DEF QueuedBut
  <2>7. HandedOnBut(cl, sem - 1, c)
    BY <2>1, <2>4 DEF HandedOnBut
  <2>8. cl \in [Callers -> Call] /\ sem - 1 \in Nat
    BY <1>1, <1>7, <2>2 DEF LikeCall
  <2> QED BY <1>1, <1>3, <2>3, <2>6, <2>7, <2>8, WithSlotHandsOn
<1> QED BY <1>5, <1>6, <1>7 DEF Resume, w

\* A woken task that gives up passes the slot on; a waiting one just leaves.
LEMMA GiveUpHandsOn ==
  ASSUME SlotInv, QueueInv, NEW c \in Callers, GiveUp(c)
  PROVE  QueueInv'
<1> DEFINE w == Without(waiters, c)
           cl == [call EXCEPT ![c] = Returned(None)]
<1>1. waiters \in Seq(Callers) /\ Queueing(call, c)
  BY DEF SlotInv, PoolTypeOK, GiveUp, Queueing
<1>3. w \in Seq(Callers) /\ QueuedBut(w, call, c)
  BY <1>1, QueueWithout
<1>4. /\ cl \in [Callers -> Call] /\ cl[c].at = "idle"
      /\ \A d \in Callers \ {c} : cl[d] = call[d]
  BY Ended
<1>5. \/ call[c].at = "granted" /\ Wake(cl, w, sem + 1)
      \/ call[c].at = "waiting" /\ waiters' = w /\ call' = cl /\ UNCHANGED sem
  BY DEF GiveUp
<1> HIDE DEF w, cl
<1>6. Queued(w, cl)
  BY <1>3, <1>4 DEF QueuedBut, Queued, Queueing
<1>7. CASE Wake(cl, w, sem + 1)
  BY <1>3, <1>4, <1>6, <1>7, WakeHandsOn
<1>8. CASE call[c].at = "waiting" /\ waiters' = w /\ call' = cl /\ UNCHANGED sem
  BY <1>4, <1>6, <1>8 DEF QueueInv, Queued, Queueing, HandedOn
<1> QED BY <1>5, <1>7, <1>8

\* The calls of other coroutines: a start, a release, the body of session().
LEMMA StartHandsOn ==
  ASSUME SlotInv, QueueInv, NEW c \in Callers,
         StartOk(c) \/ StartFail(c) \/ CancelStart(c) \/ ExitSession(c)
  PROVE  QueueInv'
<1>1. ~Queueing(call, c) /\ call \in [Callers -> Call] /\ call[c].sess \in Sessions
  BY DEF Queueing, StartOk, StartFail, CancelStart, ExitSession, SlotInv, PoolTypeOK, Shape
<1>2. CASE GiveSlotBack([call EXCEPT ![c] = Returned(None)])
  BY <1>1, <1>2, EndHandsOn
<1>3. ASSUME NEW r \in Sessions \cup {None}, call' = [call EXCEPT ![c] = Returned(r)],
             UNCHANGED <<sem, waiters>>
      PROVE  QueueInv'
  <2>1. Returned(r) \in Call /\ Returned(r).at = "idle"
    BY ReturnedType DEF Returned
  <2> QED BY <1>1, <1>3, <2>1, TaskUntouched
<1>4. ASSUME call' = [call EXCEPT ![c] = [call[c] EXCEPT !.at = "inside"]], UNCHANGED <<sem, waiters>>
      PROVE  QueueInv'
  <2>1. [call[c] EXCEPT !.at = "inside"] \in Call /\ [call[c] EXCEPT !.at = "inside"].at = "inside"
    BY <1>1 DEF Call, CallStage
  <2> QED BY <1>1, <1>4, <2>1, TaskUntouched
<1>5. CASE StartOk(c)
  <2>1. UNCHANGED <<sem, waiters>>
    BY <1>5 DEF StartOk
  <2>2. CASE call[c].op = "acquire"
    <3>1. call' = [call EXCEPT ![c] = Returned(call[c].sess)]
      BY <1>5, <2>2 DEF StartOk
    <3> QED BY <1>1, <1>3, <2>1, <3>1
  <2>3. CASE call[c].op # "acquire"
    <3>1. call' = [call EXCEPT ![c] = [call[c] EXCEPT !.at = "inside"]]
      BY <1>5, <2>3 DEF StartOk
    <3> QED BY <1>4, <2>1, <3>1
  <2> QED BY <2>2, <2>3
<1>6. CASE StartFail(c) \/ ExitSession(c)
  BY <1>2, <1>6 DEF StartFail, ExitSession
<1>7. CASE CancelStart(c)
  BY <1>2, <1>3, <1>7 DEF CancelStart
<1> QED BY <1>5, <1>6, <1>7

\* A stop() that has ended, awaited by task c.
LEMMA ReleaseHandsOn ==
  ASSUME SlotInv, QueueInv, NEW c \in Callers, NEW i \in Ids,
         ReleaseBegin(c, i) \/ ReleaseDone(c) \/ CancelRelease(c)
  PROVE  QueueInv'
<1>1. ~Queueing(call, c) /\ contexts[i] \in Sessions \cup {None}
  BY DEF Queueing, ReleaseBegin, ReleaseDone, CancelRelease, SlotInv, PoolTypeOK
<1>2. Returned(None) \in Call /\ Returned(None).at = "idle"
  BY ReturnedType DEF Returned
<1>3. CASE call' = [call EXCEPT ![c] = Returned(None)] /\ UNCHANGED <<sem, waiters>>
  BY <1>1, <1>2, <1>3, TaskUntouched
<1>4. CASE ReleaseBegin(c, i)
  <2>1. CASE contexts[i] = None
    BY <1>3, <1>4, <2>1 DEF ReleaseBegin
  <2>2. CASE contexts[i] # None
    <3> DEFINE r == [op |-> "release", id |-> i, at |-> "stopping", sess |-> contexts[i]]
    <3>1. r \in Call /\ r.at = "stopping"
      BY <1>1 DEF Call, CallStage
    <3>2. call' = [call EXCEPT ![c] = r] /\ UNCHANGED <<sem, waiters>>
      BY <1>4, <2>2 DEF ReleaseBegin
    <3> QED BY <1>1, <3>1, <3>2, TaskUntouched
  <2> QED BY <2>1, <2>2
<1>5. CASE ReleaseDone(c)
  BY <1>1, <1>3, <1>5, EndHandsOn DEF ReleaseDone, AfterStop
<1>6. CASE CancelRelease(c)
  BY <1>3, <1>6 DEF CancelRelease
<1> QED BY <1>4, <1>5, <1>6

LEMMA BackgroundHandsOn ==
  ASSUME SlotInv, QueueInv, Background
  PROVE  QueueInv'
<1>1. CASE UNCHANGED <<sem, waiters, call>>
  BY <1>1 DEF QueueInv, Queued, Queueing, HandedOn
<1>2. CASE ReaperStopped
  <2>1. CASE GiveSlotBack(call)
    <3>1. call \in [Callers -> Call]
      BY DEF SlotInv, PoolTypeOK
    <3> QED BY <2>1, <3>1, SlotBackHandsOn
  <2> QED BY <1>1, <1>2, <2>1 DEF ReaperStopped, AfterStop
<1>3. CASE ~ReaperStopped
  <2>1. UNCHANGED <<sem, waiters, call>>
    BY <1>3 DEF Background, Age, ReaperWake, BrowserCrash, ShutdownBegin, ShutdownSnapshot,
                ShutdownStopped, ShutdownBrowserClosed
  <2> QED BY <1>1, <2>1
<1> QED BY <1>2, <1>3

LEMMA InitQueueInv == PoolInit => QueueInv
<1> SUFFICES ASSUME PoolInit PROVE QueueInv
  OBVIOUS
<1>1. Len(waiters) = 0 /\ \A c \in Callers : call[c].at = "idle"
  BY DEF PoolInit, Returned
<1> QED BY <1>1 DEF QueueInv, Queued, Queueing, Once, In, HandedOn

LEMMA NextQueueInv == SlotInv /\ QueueInv /\ [PoolNext]_pvars => QueueInv'
<1> SUFFICES ASSUME SlotInv, QueueInv, [PoolNext]_pvars PROVE QueueInv'
  OBVIOUS
<1>1. CASE UNCHANGED pvars
  BY <1>1 DEF pvars, QueueInv, Queued, Queueing, HandedOn
<1>2. ASSUME NEW c \in Callers, NEW i \in Ids,
             Begin(c, "acquire", i) \/ Begin(c, "session", i) \/ ReleaseBegin(c, i)
      PROVE  QueueInv'
  BY <1>2, BeginHandsOn, ReleaseHandsOn
<1>3. ASSUME NEW c \in Callers, Proceed(c)
      PROVE  QueueInv'
  <2>1. CASE ReleaseDone(c) \/ CancelRelease(c)
    <3>1. call[c].id \in Ids
      BY <2>1 DEF ReleaseDone, CancelRelease, SlotInv, Shape
    <3> QED BY <2>1, <3>1, ReleaseHandsOn
  <2> QED BY <1>3, <2>1, ResumeHandsOn, GiveUpHandsOn, StartHandsOn DEF Proceed
<1>4. ASSUME NEW c \in Callers, ExitSession(c)
      PROVE  QueueInv'
  BY <1>4, StartHandsOn
<1>5. CASE Background
  BY <1>5, BackgroundHandsOn
<1> QED BY <1>1, <1>2, <1>3, <1>4, <1>5 DEF PoolNext

\* While a task queues, no slot is free but for a task that has been woken: whoever leaves,
\* fails, gives up or is evicted, the semaphore hands the slot on in the same step.
THEOREM PoolServesTheQueue == PoolSpec => []NobodyWaitsForAFreeSlot
<1>1. SlotInv /\ QueueInv => NobodyWaitsForAFreeSlot
  <2> SUFFICES ASSUME SlotInv, QueueInv, available > 0, NEW c \in Callers, call[c].at = "waiting",
                      \A d \in Callers : call[d].at # "granted"
               PROVE  FALSE
    BY DEF NobodyWaitsForAFreeSlot
  <2>1. Granted = {}
    BY DEF Granted
  <2>2. available = sem
    <3>1. available = sem + Cardinality(Granted) /\ sem \in Nat
      BY PoolAssumption DEF SlotInv, PoolTypeOK, MirrorsSemaphore, Granted
    <3>2. Cardinality(Granted) = 0
      BY <2>1, FS_EmptySet, Zenon
    <3> QED BY <3>1, <3>2
  <2> QED BY <2>2 DEF QueueInv, HandedOn
<1>2. SlotInv /\ QueueInv /\ [PoolNext]_pvars => (SlotInv /\ QueueInv)'
  BY NextSlotInv, NextQueueInv
<1> QED BY <1>1, <1>2, InitSlotInv, InitQueueInv, PTL DEF PoolSpec

=============================================================================
