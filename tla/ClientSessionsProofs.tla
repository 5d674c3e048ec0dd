------------------------- MODULE ClientSessionsProofs -------------------------
(***************************************************************************)
(* What WsSessions, WebSessions and HttpServer promise: the sessions a client   *)
(* keeps by connecting, or by naming them in its tool calls, and the server it  *)
(* talks to.                                                               *)
(*                                                                         *)
(* RateBound speaks of requests that have passed and of the age of a bucket;  *)
(* it is not inductive, for a bucket may hold tokens that pass more of them   *)
(* at once.  BucketInv counts the tokens in: passed and held together are at  *)
(* most the burst and what has come in up to the last refill.  SlotsInv says  *)
(* in the same way that a free slot and a pooled context exclude each other.  *)
(*                                                                         *)
(* SequentialFetchIsOfItsUrl speaks of what has been read.  What keeps others *)
(* off the page while it is read is in WebInv: the lock of the client, the    *)
(* semaphore of the call, and that only a job past the semaphore moves the    *)
(* page or the browser.                                                     *)
(*                                                                         *)
(* HttpServer: the finally block is a list of steps, and what may still run or  *)
(* be open depends on how much of the list is left; LifeInv says what of each   *)
(* phase, by the number `k` of the step to come.  ChainInv says how far the     *)
(* layers have been wrapped.                                                *)
(***************************************************************************)
EXTENDS WebSessions, WsSessions, HttpServer, FiniteSetTheorems, SequenceTheorems, TLAPS

FairBucket(b, t) ==
  /\ b \in [tokens : Nat, refilled : Nat, made : Nat, passed : Nat]
  /\ b.tokens <= Burst
  /\ b.made <= b.refilled /\ b.refilled <= t /\ t <= MaxTime
  /\ b.passed + b.tokens <= Burst + Rate * (b.refilled - b.made)

BucketInv ==
  /\ now \in 0..MaxTime
  /\ bucket \in [Conns -> Bucket]
  /\ \A c \in Conns : FairBucket(bucket[c], now)

SlotsInv ==
  /\ slots \in Nat
  /\ pooled \in SUBSET WsClients /\ IsFiniteSet(pooled)
  /\ slots + Cardinality(pooled) <= WsSlots

ConnInv == conn \in [Conns -> {"none", "acquiring", "open", "closed"}]

-----------------------------------------------------------------------------
(***************************************************************************)
(* The bucket.                                                              *)
(***************************************************************************)

\* What comes in from a to b and from b to c comes in from a to c.
LEMMA Distributes ==
  ASSUME NEW r \in Nat, NEW a \in Nat, NEW b \in Nat, NEW c \in Nat, a <= b, b <= c
  PROVE  /\ r * (b - a) + (c - b) * r = r * (c - a)
         /\ (c - b) * r \in Nat /\ r * (b - a) \in Nat /\ r * (c - a) \in Nat
  <1>1. /\ r * (b - a) = r * b - r * a
        /\ (c - b) * r = r * c - r * b
        /\ r * (c - a) = r * c - r * a
    OBVIOUS
  <1>2. (b - a) \in Nat /\ (c - b) \in Nat /\ (c - a) \in Nat
    OBVIOUS
  <1>3. \A x, y \in Nat : x * y \in Nat /\ y * x \in Nat
    OBVIOUS
  <1>4. (c - b) * r \in Nat /\ r * (b - a) \in Nat /\ r * (c - a) \in Nat
    BY <1>2, <1>3
  <1>5. r * a \in Int /\ r * b \in Int /\ r * c \in Int
    OBVIOUS
  <1> QED BY <1>1, <1>4, <1>5

\* A bucket whose tokens are all fair is one of the type the module states.
LEMMA FairBucketTyped ==
  ASSUME NEW b, NEW t \in Nat, FairBucket(b, t)
  PROVE  b \in Bucket
  BY WsAssumption DEF FairBucket, Bucket

\* A new bucket is fair.
LEMMA NewBucketFair ==
  ASSUME NEW t \in 0..MaxTime
  PROVE  FairBucket([tokens |-> Burst, refilled |-> t, made |-> t, passed |-> 0], t)
  <1>1. Rate * (t - t) = 0
    BY WsAssumption
  <1> QED BY <1>1, WsAssumption DEF FairBucket

\* A fair bucket stays fair while time passes.
LEMMA FairBucketLater ==
  ASSUME NEW b, NEW t \in Nat, NEW u \in Nat, t <= u, u <= MaxTime, FairBucket(b, t)
  PROVE  FairBucket(b, u)
  BY WsAssumption DEF FairBucket

\* Refilling moves the mark of the last refill and never makes more tokens than came in.
LEMMA RefilledFair ==
  ASSUME NEW b, now \in 0..MaxTime, FairBucket(b, now)
  PROVE  FairBucket(Refilled(b), now)
  <1> DEFINE t == b.tokens + (now - b.refilled) * Rate
             kept == IF t < Burst THEN t ELSE Burst
  <1>1. /\ b.tokens \in Nat /\ b.refilled \in Nat /\ b.made \in Nat /\ b.passed \in Nat
        /\ b.made <= b.refilled /\ b.refilled <= now /\ now \in Nat /\ now <= MaxTime
    BY WsAssumption DEF FairBucket
  <1>2. /\ Rate * (b.refilled - b.made) + (now - b.refilled) * Rate = Rate * (now - b.made)
        /\ (now - b.refilled) * Rate \in Nat /\ Rate * (b.refilled - b.made) \in Nat
        /\ Rate * (now - b.made) \in Nat
    BY <1>1, Distributes, WsAssumption
  <1>3. b.passed + b.tokens <= Burst + Rate * (b.refilled - b.made)
    BY DEF FairBucket
  <1>4. t \in Nat /\ kept \in Nat /\ kept <= Burst /\ kept <= t
    BY <1>1, <1>2, WsAssumption
  <1>5. b.passed + kept <= Burst + Rate * (now - b.made)
    BY <1>1, <1>2, <1>3, <1>4, WsAssumption
  <1>6. Refilled(b) = [tokens |-> kept, refilled |-> now, made |-> b.made, passed |-> b.passed]
    BY DEF Refilled
  <1> HIDE DEF t, kept
  <1> QED BY <1>1, <1>4, <1>5, <1>6 DEF FairBucket

\* A request takes a token and passes: their sum is the same.
LEMMA SpentFair ==
  ASSUME NEW b, NEW t, FairBucket(b, t), b.tokens >= 1
  PROVE  FairBucket(Spent(b), t)
  <1>1. b.tokens \in Nat /\ b.refilled \in Nat /\ b.made \in Nat /\ b.passed \in Nat
    BY DEF FairBucket
  <1>2. /\ b.tokens - 1 \in Nat /\ b.passed + 1 \in Nat /\ b.tokens - 1 <= Burst
        /\ (b.passed + 1) + (b.tokens - 1) = b.passed + b.tokens
    BY <1>1, WsAssumption DEF FairBucket
  <1> QED BY <1>1, <1>2 DEF FairBucket, Spent

LEMMA BucketInit == WsInit => BucketInv
  <1> SUFFICES ASSUME WsInit PROVE BucketInv
    OBVIOUS
  <1>1. 0 \in 0..MaxTime /\ now = 0
    BY WsAssumption DEF WsInit
  <1>2. \A c \in Conns : FairBucket(bucket[c], now)
    BY <1>1, NewBucketFair DEF WsInit
  <1>3. bucket \in [Conns -> Bucket]
    BY <1>1, WsAssumption DEF WsInit, Bucket
  <1> QED BY <1>1, <1>2, <1>3 DEF BucketInv

\* One bucket is replaced by a fair one, and the clock stands still.
LEMMA BucketReplaced ==
  ASSUME BucketInv, NEW c \in Conns, NEW b, FairBucket(b, now),
         bucket' = [bucket EXCEPT ![c] = b], now' = now
  PROVE  BucketInv'
  <1>1. b \in Bucket
    BY FairBucketTyped, WsAssumption DEF BucketInv
  <1>2. bucket' \in [Conns -> Bucket] /\ \A d \in Conns : bucket'[d] = IF d = c THEN b ELSE bucket[d]
    BY <1>1 DEF BucketInv
  <1>3. \A d \in Conns : FairBucket(bucket'[d], now')
    BY <1>2 DEF BucketInv
  <1> QED BY <1>2, <1>3 DEF BucketInv

LEMMA BucketStep == BucketInv /\ [WsNext]_wsvars => BucketInv'
  <1> SUFFICES ASSUME BucketInv, [WsNext]_wsvars PROVE BucketInv'
    OBVIOUS
  <1>0. now \in 0..MaxTime /\ now \in Nat /\ \A c \in Conns : FairBucket(bucket[c], now)
    BY WsAssumption DEF BucketInv
  <1>1. ASSUME NEW c \in Conns, OnConnect(c) PROVE BucketInv'
    <2>1. FairBucket(NewBucket, now)
      BY <1>0, NewBucketFair DEF NewBucket
    <2> QED BY <1>1, <2>1, BucketReplaced DEF OnConnect
  <1>2. ASSUME NEW c \in Conns, Request(c) PROVE BucketInv'
    <2> DEFINE r == Refilled(bucket[c])
               after == IF r.tokens >= 1 THEN Spent(r) ELSE r
    <2>1. FairBucket(r, now)
      BY <1>0, RefilledFair
    <2>2. bucket' = [bucket EXCEPT ![c] = after] /\ now' = now
      BY <1>2 DEF Request
    <2> HIDE DEF r
    <2>3. FairBucket(after, now)
      BY <2>1, SpentFair
    <2> HIDE DEF after
    <2> QED BY <2>2, <2>3, BucketReplaced
  <1>3. CASE Tick
    <2>1. now' \in 0..MaxTime /\ now' \in Nat /\ now <= now' /\ now' <= MaxTime /\ bucket' = bucket
      BY <1>0, <1>3, WsAssumption DEF Tick
    <2>2. \A c \in Conns : FairBucket(bucket[c], now')
      BY <1>0, <2>1, FairBucketLater
    <2> QED BY <2>1, <2>2 DEF BucketInv
  <1>4. ASSUME bucket' = bucket, now' = now PROVE BucketInv'
    BY <1>4 DEF BucketInv
  <1>5. ASSUME NEW c \in Conns, Connected(c) \/ OnDisconnect(c) PROVE BucketInv'
    BY <1>4, <1>5 DEF Connected, OnDisconnect
  <1>6. ASSUME NEW k \in WsClients, Evict(k) PROVE BucketInv'
    BY <1>4, <1>6 DEF Evict
  <1>7. CASE UNCHANGED wsvars
    BY <1>4, <1>7 DEF wsvars
  <1> QED BY <1>1, <1>2, <1>3, <1>5, <1>6, <1>7 DEF WsNext

THEOREM BucketInvariant == WsSpec => []BucketInv
  BY BucketInit, BucketStep, PTL DEF WsSpec

\* RateBound: TokenBucket never lets a connection pass more than the burst and the rate allow,
\* in whatever pattern requests and pauses come.
THEOREM RateIsBounded == WsSpec => []RateBound
  <1>1. BucketInv => RateBound
    <2> SUFFICES ASSUME BucketInv, NEW c \in Conns
                 PROVE  bucket[c].passed <= Burst + Rate * (now - bucket[c].made)
      BY DEF RateBound
    <2> DEFINE b == bucket[c]
    <2>1. FairBucket(b, now) /\ now \in Nat
      BY WsAssumption DEF BucketInv
    <2>2. /\ b.tokens \in Nat /\ b.refilled \in Nat /\ b.made \in Nat /\ b.passed \in Nat
          /\ b.made <= b.refilled /\ b.refilled <= now
          /\ b.passed + b.tokens <= Burst + Rate * (b.refilled - b.made)
      BY <2>1 DEF FairBucket
    <2> HIDE DEF b
    <2>3. /\ Rate * (b.refilled - b.made) + (now - b.refilled) * Rate = Rate * (now - b.made)
          /\ (now - b.refilled) * Rate \in Nat /\ Rate * (b.refilled - b.made) \in Nat
          /\ Rate * (now - b.made) \in Nat
      BY <2>1, <2>2, Distributes, WsAssumption
    <2>4. b.passed <= Burst + Rate * (now - b.made)
      BY <2>2, <2>3, WsAssumption
    <2> QED BY <2>4 DEF b
  <1> QED BY <1>1, BucketInvariant, PTL

-----------------------------------------------------------------------------
(***************************************************************************)
(* The slots.                                                               *)
(***************************************************************************)
LEMMA SlotsInit == WsInit => SlotsInv
  BY FS_EmptySet, WsAssumption DEF WsInit, SlotsInv

LEMMA SlotsStep == SlotsInv /\ [WsNext]_wsvars => SlotsInv'
  <1> SUFFICES ASSUME SlotsInv, [WsNext]_wsvars PROVE SlotsInv'
    OBVIOUS
  <1>0. slots \in Nat /\ Cardinality(pooled) \in Nat
    BY FS_CardinalityType DEF SlotsInv
  <1>1. ASSUME slots' = slots, pooled' = pooled PROVE SlotsInv'
    BY <1>1 DEF SlotsInv
  <1>2. ASSUME NEW c \in Conns, Connected(c) PROVE SlotsInv'
    <2>1. ClientOf[c] \in WsClients
      BY WsAssumption
    <2>2. /\ IsFiniteSet(pooled \cup {ClientOf[c]})
          /\ Cardinality(pooled \cup {ClientOf[c]}) \in Nat
          /\ Cardinality(pooled \cup {ClientOf[c]}) <= Cardinality(pooled) + 1
      BY <1>0, FS_AddElement DEF SlotsInv
    <2>3. CASE slots > 0 /\ slots' = slots - 1 /\ pooled' = pooled \cup {ClientOf[c]}
      BY <1>0, <2>1, <2>2, <2>3, WsAssumption DEF SlotsInv
    <2> QED BY <1>1, <1>2, <2>3 DEF Connected
  <1>3. ASSUME NEW k \in WsClients, Evict(k) PROVE SlotsInv'
    <2>1. /\ IsFiniteSet(pooled \ {k})
          /\ Cardinality(pooled \ {k}) = Cardinality(pooled) - 1
      BY <1>3, FS_RemoveElement DEF Evict, SlotsInv
    <2> QED BY <1>0, <1>3, <2>1, WsAssumption DEF Evict, SlotsInv
  <1>4. ASSUME NEW c \in Conns, OnConnect(c) \/ OnDisconnect(c) \/ Request(c) PROVE SlotsInv'
    BY <1>1, <1>4 DEF OnConnect, OnDisconnect, Request
  <1>5. CASE Tick
    BY <1>1, <1>5 DEF Tick
  <1>6. CASE UNCHANGED wsvars
    BY <1>1, <1>6 DEF wsvars
  <1> QED BY <1>2, <1>3, <1>4, <1>5, <1>6 DEF WsNext

THEOREM SlotsInvariant == WsSpec => []SlotsInv
  BY SlotsInit, SlotsStep, PTL DEF WsSpec

\* WsSlotsBounded: whatever connects, disconnects or is evicted, free slots and pooled
\* contexts are at most max_contexts, so that no slot is ever given back twice.
THEOREM SlotsAreBounded == WsSpec => []WsSlotsBounded
  BY SlotsInvariant, PTL DEF SlotsInv, WsSlotsBounded

-----------------------------------------------------------------------------
LEMMA ConnInvariant == WsSpec => []ConnInv
  <1>1. WsInit => ConnInv
    BY DEF WsInit, ConnInv
  <1>2. ConnInv /\ [WsNext]_wsvars => ConnInv'
    BY DEF ConnInv, WsNext, wsvars, OnConnect, Connected, OnDisconnect, Evict, Request, Tick
  <1> QED BY <1>1, <1>2, PTL DEF WsSpec

\* WsTypeOK: a bucket's tokens stay between none and the burst, its marks of time in order,
\* and the pool's slots between none and all.
THEOREM WsTypeCorrect == WsSpec => []WsTypeOK
  <1>1. BucketInv /\ SlotsInv /\ ConnInv => WsTypeOK
    <2> SUFFICES ASSUME BucketInv, SlotsInv, ConnInv PROVE WsTypeOK
      OBVIOUS
    <2>1. slots \in 0..WsSlots
      BY FS_CardinalityType, WsAssumption DEF SlotsInv
    <2> QED BY <2>1 DEF BucketInv, SlotsInv, ConnInv, WsTypeOK
  <1> QED BY <1>1, BucketInvariant, SlotsInvariant, ConnInvariant, PTL

-----------------------------------------------------------------------------
(***************************************************************************)
(* Web sessions.                                                            *)
(***************************************************************************)
\* The stages of a job that has entered the semaphore.
Entered == {"attach", "goto", "content", "guard", "backend"}

\* A call at work has the lock of its client; one that is not has no job.
WebLockPart ==
  \A u \in Users :
    /\ visit[u].at # "idle" => held[Client[u]] = u
    /\ visit[u].at = "idle" => visit[u] = NoVisit /\ \A t \in Targets : job[u][t] = NoJob

\* What a job relies on: the session it resolved, and that a batch starts its jobs after it
\* has attached its own.
WebJobPart ==
  \A u \in Users :
    /\ visit[u].op = "batch" => visit[u].sess \in WebObjects
    /\ visit[u].at = "attach" => visit[u].op = "batch"
    /\ \A t \in Targets :
         /\ job[u][t].at \in Entered => visit[u].at = "jobs" /\ job[u][t].sess \in WebObjects
         /\ visit[u].at = "attach" => job[u][t].end = "none"

\* A call names a session, and leaves the argument out for the default one only.
WebNamePart ==
  \A u \in Users : visit[u].at # "idle" => visit[u].name # Nil /\ Argument(visit[u].name, visit[u].arg)

\* At most one job of a call that works through its URLs one by one has entered.
OneByOne ==
  \A u \in Users : visit[u].width = 1 =>
    \A t, x \in Targets : job[u][t].at \in Entered /\ job[u][x].at \in Entered => t = x

\* The only entered job of the only client has the page to itself.
PageIsMine ==
  Cardinality(Clients) = 1 =>
    \A u \in Users : visit[u].width = 1 =>
      \A t \in Targets : /\ job[u][t].got \in {Nil, t}
                         /\ job[u][t].at = "content" => shows = t

\* The registry has a default session that is_default.
PinnedDefault == registry[DefaultName] # Nil /\ webobj[registry[DefaultName]].pinned

\* A call on the default session may be told that there is none: a batch if the session it holds
\* is not is_default, another call if it names the session by its id.
MayMiss(u) ==
  visit[u].name = DefaultName =>
    IF visit[u].op = "batch" THEN ~webobj[visit[u].sess].pinned ELSE visit[u].arg = "id"

\* While a batch holds a default session that is_default, the registry has one.
DefaultPart ==
  \A u \in Users :
    /\ visit[u].op = "batch" /\ visit[u].name = DefaultName /\ webobj[visit[u].sess].pinned
         => PinnedDefault
    /\ \A t \in Targets : job[u][t].end = "lost" => MayMiss(u)

WebInv == /\ WebTypeOK /\ WebLockPart /\ WebJobPart /\ WebNamePart
          /\ OneByOne /\ PageIsMine /\ DefaultPart

LEMMA WebTypes ==
  ASSUME WebInv
  PROVE  /\ registry \in [WebNames -> WebObjects \cup {Nil}]
         /\ webobj \in [WebObjects -> WebObject]
         /\ shows \in Targets \cup {Nil} /\ held \in [Clients -> Users \cup {Nil}]
         /\ visit \in [Users -> Visit] /\ job \in [Users -> [Targets -> Job]]
         /\ \A u \in Users : visit[u] \in Visit /\ job[u] \in [Targets -> Job]
         /\ \A u \in Users, t \in Targets : job[u][t] \in Job
  BY DEF WebInv, WebTypeOK

\* A step that loses no default session: neither the one in the registry nor the property
\* of one that a batch holds.
SamePins == \A x \in WebObjects : webobj'[x].pinned = webobj[x].pinned
KeepsPins ==
  /\ PinnedDefault => PinnedDefault'
  /\ \A u \in Users : visit[u].op = "batch" =>
       webobj'[visit[u].sess].pinned = webobj[visit[u].sess].pinned

LEMMA SamePinsKeep == ASSUME WebInv, SamePins, registry' = registry PROVE KeepsPins
  BY WebTypes DEF SamePins, KeepsPins, PinnedDefault, WebInv, WebJobPart, WebNames

\* Two calls of one client are not under way together.
LEMMA OneCallPerClient ==
  ASSUME WebInv, NEW u \in Users, NEW v \in Users, visit[u].at # "idle", visit[v].at # "idle",
         Client[u] = Client[v]
  PROVE  u = v
  BY DEF WebInv, WebLockPart

LEMMA OneClient ==
  ASSUME Cardinality(Clients) = 1, NEW u \in Users, NEW v \in Users
  PROVE  Client[u] = Client[v]
  <1> DEFINE f == [x \in Users |-> Client[x]]
  <1>1. f \in Surjection(Users, Clients)
    BY DEF Surjection, Clients
  <1> HIDE DEF f
  <1>2. IsFiniteSet(Clients)
    BY <1>1, FS_Surjection, WebAssumption
  <1>3. PICK c : Clients = {c}
    BY <1>2, FS_Singleton
  <1> QED BY <1>3 DEF Clients

-----------------------------------------------------------------------------
(* The registry and the browser. *)

\* Whatever is evicted, a default session that is_default stays.
LEMMA EvictionKeepsDefault ==
  ASSUME WebInv
  PROVE  /\ Evicted \in [WebNames -> WebObjects \cup {Nil}] /\ DefaultName \in WebNames
         /\ PinnedDefault => Evicted[DefaultName] = registry[DefaultName]
  BY WebTypes DEF Evicted, WebNames, PinnedDefault

LEMMA EvictionKeepsPins ==
  ASSUME WebInv, registry' = Evicted, webobj' = webobj
  PROVE  KeepsPins
  BY EvictionKeepsDefault DEF KeepsPins, PinnedDefault

LEMMA UnreferredIsObject ==
  /\ Unreferred \subseteq WebObjects \ Referred /\ Nil \notin WebObjects
  /\ \A n \in WebNames : registry[n] \in Referred
  /\ \A u \in Users : visit[u].sess \in Referred
  BY WebAssumption DEF Unreferred, Referred

\* A new object is nobody's yet.
LEMMA NewObjectSound ==
  ASSUME WebInv, NEW o \in Unreferred, NEW pin \in BOOLEAN, NEW r,
         registry' = r, webobj' = [webobj EXCEPT ![o] = [NewObject EXCEPT !.pinned = pin]],
         PinnedDefault => r[DefaultName] = registry[DefaultName] \/ (r[DefaultName] = o /\ pin)
  PROVE  o \in WebObjects /\ o # Nil /\ webobj' \in [WebObjects -> WebObject] /\ KeepsPins
  <1> DEFINE new == [NewObject EXCEPT !.pinned = pin]
  <1>1. o \in WebObjects /\ o # Nil /\ o \notin Referred
    BY UnreferredIsObject
  <1>2. new \in WebObject /\ new.pinned = pin
    BY DEF NewObject, WebObject
  <1> HIDE DEF new
  <1>3. /\ webobj' \in [WebObjects -> WebObject] /\ webobj'[o].pinned = pin
        /\ \A x \in WebObjects : x # o => webobj'[x] = webobj[x]
    BY <1>1, <1>2, WebTypes DEF new
  <1>4. ASSUME NEW u \in Users, visit[u].op = "batch"
        PROVE  webobj'[visit[u].sess].pinned = webobj[visit[u].sess].pinned
    <2>1. visit[u].sess \in WebObjects /\ visit[u].sess # o
      BY <1>1, <1>4, UnreferredIsObject DEF WebInv, WebJobPart
    <2> QED BY <1>3, <2>1
  <1>5. PinnedDefault => PinnedDefault'
    <2> SUFFICES ASSUME PinnedDefault PROVE PinnedDefault'
      OBVIOUS
    <2>1. /\ registry[DefaultName] \in WebObjects /\ webobj[registry[DefaultName]].pinned
          /\ registry[DefaultName] # o
      BY <1>1, WebTypes, UnreferredIsObject DEF PinnedDefault, WebNames
    <2> QED BY <1>1, <1>3, <2>1 DEF PinnedDefault
  <1> QED BY <1>1, <1>3, <1>4, <1>5 DEF KeepsPins

\* Resolving a session never loses a default one that is_default, and finds or makes a session
\* unless it is asked for one by an id.
LEMMA ResolveSound ==
  ASSUME WebInv, NEW n \in WebNames, NEW arg \in {"None", "new", "id"},
         NEW o \in WebObjects \cup {Nil}, Argument(n, arg), Resolve(n, arg, o)
  PROVE  /\ registry' \in [WebNames -> WebObjects \cup {Nil}]
         /\ webobj' \in [WebObjects -> WebObject] /\ KeepsPins
         /\ registry'[n] = o
         /\ o = Nil => arg = "id" /\ (n = DefaultName => ~PinnedDefault)
  <1>1. CASE /\ Evicted[n] = o /\ (o # Nil \/ arg = "id")
             /\ registry' = Evicted /\ UNCHANGED webobj
    <2>1. o = Nil /\ n = DefaultName => ~PinnedDefault
      BY <1>1, EvictionKeepsDefault DEF PinnedDefault
    <2> QED BY <1>1, <2>1, EvictionKeepsDefault, EvictionKeepsPins, WebTypes
  <1>2. CASE /\ Evicted[n] = Nil /\ arg # "id"
             /\ o \in Unreferred
             /\ registry' = [Evicted EXCEPT ![n] = o]
             /\ webobj' = [webobj EXCEPT ![o] = [NewObject EXCEPT !.pinned = arg = "None"]]
    <2> DEFINE pin == arg = "None"
               r == [Evicted EXCEPT ![n] = o]
    <2>1. pin \in BOOLEAN /\ registry' = r
          /\ webobj' = [webobj EXCEPT ![o] = [NewObject EXCEPT !.pinned = pin]]
      BY <1>2
    <2>2. PinnedDefault => n # DefaultName
      BY <1>2, EvictionKeepsDefault DEF PinnedDefault
    <2>3. r[n] = o /\ \A k \in WebNames : k # n => r[k] = Evicted[k]
      BY EvictionKeepsDefault
    <2>4. PinnedDefault => r[DefaultName] = registry[DefaultName]
      BY <2>2, <2>3, EvictionKeepsDefault
    <2>5. r \in [WebNames -> WebObjects \cup {Nil}]
      BY EvictionKeepsDefault
    <2> HIDE DEF pin, r
    <2>6. o \in WebObjects /\ o # Nil /\ webobj' \in [WebObjects -> WebObject] /\ KeepsPins
      BY <1>2, <2>1, <2>4, NewObjectSound
    <2> QED BY <2>1, <2>3, <2>5, <2>6
  <1> QED BY <1>1, <1>2 DEF Resolve

LEMMA StoppedSound ==
  ASSUME WebInv
  PROVE  Stopped \in [WebObjects -> WebObject] /\ \A x \in WebObjects : Stopped[x].pinned = webobj[x].pinned
  BY WebTypes DEF Stopped, WebObject

LEMMA ObtainSound ==
  ASSUME WebInv, NEW o, Obtain(o)
  PROVE  webobj' \in [WebObjects -> WebObject] /\ shows' \in Targets \cup {Nil} /\ SamePins
  <1>1. \A w \in [WebObjects -> WebObject] :
          /\ [w EXCEPT ![o].browser = "live"] \in [WebObjects -> WebObject]
          /\ \A x \in WebObjects : [w EXCEPT ![o].browser = "live"][x].pinned = w[x].pinned
    BY DEF WebObject
  <1>2. CASE webobj' = [webobj EXCEPT ![o].browser = "live"] /\ UNCHANGED shows
    <2>1. \A x \in WebObjects : webobj'[x].pinned = webobj[x].pinned
      BY <1>1, <1>2, WebTypes
    <2> QED BY <1>1, <1>2, <2>1, WebTypes DEF SamePins
  <1>3. CASE webobj' = [Stopped EXCEPT ![o].browser = "live"] /\ shows' = Nil
    <2>1. \A x \in WebObjects : webobj'[x].pinned = Stopped[x].pinned
      BY <1>1, <1>3, StoppedSound
    <2>2. \A x \in WebObjects : webobj'[x].pinned = webobj[x].pinned
      BY <2>1, StoppedSound
    <2> QED BY <1>1, <1>3, <2>2, StoppedSound DEF SamePins
  <1>4. CASE webobj' = Stopped /\ shows' = Nil
    BY <1>4, StoppedSound DEF SamePins
  <1> QED BY <1>2, <1>3, <1>4, Zenon DEF Obtain

LEMMA UsedSound ==
  ASSUME WebInv, NEW o
  PROVE  Used(o) \in [WebObjects -> WebObject] /\ \A x \in WebObjects : Used(o)[x].pinned = webobj[x].pinned
  BY WebTypes DEF Used, WebObject

-----------------------------------------------------------------------------
(* Jobs. *)

LEMMA JobFrame ==
  ASSUME WebInv, NEW u \in Users, NEW t \in Targets, NEW j \in Job,
         job' = [job EXCEPT ![u] = [job[u] EXCEPT ![t] = j]]
  PROVE  /\ job' \in [Users -> [Targets -> Job]] /\ job'[u][t] = j
         /\ \A x \in Targets : x # t => job'[u][x] = job[u][x]
         /\ \A v \in Users : v # u => job'[v] = job[v]
  BY WebTypes

\* What is left to show of a step of one job: it is past the semaphore before the step if it
\* moves the page, and if it is past it afterwards it was before, or found room.
LEMMA JobMoves ==
  ASSUME WebInv, NEW u \in Users, NEW t \in Targets, NEW j \in Job,
         job' = [job EXCEPT ![u] = [job[u] EXCEPT ![t] = j]],
         visit[u].at = "jobs", UNCHANGED <<held, visit>>,
         registry' \in [WebNames -> WebObjects \cup {Nil}],
         webobj' \in [WebObjects -> WebObject], shows' \in Targets \cup {Nil},
         KeepsPins,
         j.at \in Entered => /\ j.sess \in WebObjects
                             /\ job[u][t].at \in Entered \/ MayStart(u),
         shows' = shows \/ job[u][t].at \in Entered,
         Cardinality(Clients) = 1 /\ visit[u].width = 1 =>
           j.got \in {Nil, t} /\ (j.at = "content" => shows' = t),
         j.end = "lost" => MayMiss(u)
  PROVE  WebInv'
  <1>1. /\ job' \in [Users -> [Targets -> Job]] /\ job'[u][t] = j
        /\ \A x \in Targets : x # t => job'[u][x] = job[u][x]
        /\ \A v \in Users : v # u => job'[v] = job[v]
    BY JobFrame
  <1>2. held' = held /\ visit' = visit
    OBVIOUS
  <1>3. WebTypeOK'
    BY <1>1, <1>2, WebTypes DEF WebTypeOK
  <1>4. WebLockPart'
    BY <1>1, <1>2 DEF WebInv, WebLockPart
  <1>5. WebJobPart'
    BY <1>1, <1>2 DEF WebInv, WebJobPart
  <1>6. DefaultPart' /\ WebNamePart'
    <2>1. \A v \in Users : MayMiss(v) => MayMiss(v)'
      BY <1>2 DEF MayMiss, KeepsPins
    <2>2. ASSUME NEW v \in Users, NEW x \in Targets, job'[v][x].end = "lost"
          PROVE  MayMiss(v)
      BY <1>1, <2>2 DEF WebInv, DefaultPart
    <2>3. ASSUME NEW v \in Users, visit'[v].op = "batch", visit'[v].name = DefaultName,
                 webobj'[visit'[v].sess].pinned
          PROVE  PinnedDefault'
      BY <1>2, <2>3 DEF WebInv, DefaultPart, KeepsPins
    <2> QED BY <1>1, <1>2, <2>1, <2>2, <2>3 DEF DefaultPart, WebInv, WebNamePart
  <1>7. OneByOne'
    <2>1. ASSUME NEW v \in Users, visit'[v].width = 1, NEW x \in Targets, NEW y \in Targets,
                 job'[v][x].at \in Entered, job'[v][y].at \in Entered
          PROVE  x = y
      <3>1. \A w, z \in Targets : job[v][w].at \in Entered /\ job[v][z].at \in Entered => w = z
        BY <1>2, <2>1 DEF WebInv, OneByOne
      <3>2. CASE v # u
        BY <1>1, <2>1, <3>1, <3>2
      <3>3. CASE v = u /\ job[u][t].at \in Entered
        BY <1>1, <2>1, <3>1, <3>3
      <3>4. CASE v = u /\ job[u][t].at \notin Entered
        <4>1. CASE x # t /\ y # t
          BY <1>1, <2>1, <3>1, <3>4, <4>1
        <4>2. CASE x = t \/ y = t
          <5>1. MayStart(u) /\ visit[u].width = 1
            BY <1>1, <1>2, <2>1, <3>4, <4>2
          <5>2. IsFiniteSet(Running(u))
            BY WebAssumption, FS_Subset DEF Running
          <5>3. Running(u) = {}
            BY <5>1, <5>2, FS_EmptySet, FS_CardinalityType DEF MayStart
          <5>4. \A w \in Targets : job[u][w].at \notin Entered
            BY <5>3 DEF Running, Entered
          <5> QED BY <1>1, <2>1, <3>4, <5>4
        <4> QED BY <4>1, <4>2
      <3> QED BY <3>2, <3>3, <3>4
    <2> QED BY <2>1 DEF OneByOne
  <1>8. PageIsMine'
    <2>1. ASSUME Cardinality(Clients) = 1, NEW v \in Users, visit'[v].width = 1, NEW x \in Targets
          PROVE  /\ job'[v][x].got \in {Nil, x}
                 /\ job'[v][x].at = "content" => shows' = x
      <3>1. /\ job[v][x].got \in {Nil, x}
            /\ job[v][x].at = "content" => shows = x
        BY <1>2, <2>1 DEF WebInv, PageIsMine
      <3>2. CASE v # u
        <4>1. visit[v].at = "idle"
          BY <2>1, <3>2, OneClient, OneCallPerClient
        <4>2. job[v][x] = NoJob
          BY <4>1 DEF WebInv, WebLockPart
        <4> QED BY <1>1, <3>2, <4>2 DEF NoJob
      <3>3. CASE v = u /\ x = t
        BY <1>1, <1>2, <2>1, <3>3
      <3>4. CASE v = u /\ x # t
        <4>1. job'[v][x] = job[v][x]
          BY <1>1, <3>4
        <4>2. job[u][x].at = "content" => job[u][t].at \notin Entered
          BY <1>2, <2>1, <3>4 DEF WebInv, OneByOne, Entered
        <4> QED BY <3>1, <3>4, <4>1, <4>2
      <3> QED BY <3>2, <3>3, <3>4
    <2> QED BY <2>1 DEF PageIsMine, Clients
  <1> QED BY <1>3, <1>4, <1>5, <1>6, <1>7, <1>8 DEF WebInv

\* A call that ends forgets its jobs and gives the lock back.
LEMMA EndSound ==
  ASSUME WebInv, NEW u \in Users, End(u), UNCHANGED registry,
         webobj' \in [WebObjects -> WebObject], SamePins, shows' \in Targets \cup {Nil},
         shows' = shows \/ visit[u].at # "idle"
  PROVE  WebInv'
  <1> DEFINE none == [x \in Targets |-> NoJob]
  <1>1. NoVisit \in Visit /\ NoJob \in Job /\ NoVisit.at = "idle" /\ NoVisit.width = 0
        /\ NoVisit.op = "none" /\ NoJob.at = "none" /\ NoJob.end = "none" /\ NoJob.got = Nil
    BY WebAssumption DEF NoVisit, NoJob, Visit, Job
  <1>2. none \in [Targets -> Job] /\ \A x \in Targets : none[x] = NoJob
    BY <1>1
  <1>3. visit' = [visit EXCEPT ![u] = NoVisit] /\ job' = [job EXCEPT ![u] = none]
    BY DEF End
  <1> HIDE DEF none
  <1>4. /\ visit' \in [Users -> Visit] /\ job' \in [Users -> [Targets -> Job]]
        /\ visit'[u] = NoVisit /\ \A x \in Targets : job'[u][x] = NoJob
        /\ \A v \in Users : v # u => visit'[v] = visit[v] /\ job'[v] = job[v]
    BY <1>1, <1>2, <1>3, WebTypes
  <1>5. /\ held' \in [Clients -> Users \cup {Nil}]
        /\ \A v \in Users : v # u /\ held[Client[v]] = v => held'[Client[v]] = v
    <2>1. \A v \in Users : Client[v] \in Clients
      BY DEF Clients
    <2> QED BY <2>1, WebTypes DEF End
  <1>6. WebTypeOK'
    BY <1>4, <1>5, WebTypes DEF WebTypeOK
  <1>7. WebLockPart'
    BY <1>1, <1>4, <1>5 DEF WebInv, WebLockPart
  <1>8. WebJobPart'
    BY <1>1, <1>4 DEF WebInv, WebJobPart, Entered
  <1>9. OneByOne'
    BY <1>1, <1>4 DEF WebInv, OneByOne
  <1>10. DefaultPart' /\ WebNamePart'
    <2>1. KeepsPins
      BY SamePinsKeep
    <2>2. \A v \in Users : v # u => (MayMiss(v) => MayMiss(v)')
      BY <1>4, <2>1 DEF MayMiss, KeepsPins
    <2> QED BY <1>1, <1>4, <2>1, <2>2 DEF WebInv, DefaultPart, WebNamePart, KeepsPins
  <1>11. PageIsMine'
    <2>1. ASSUME Cardinality(Clients) = 1, NEW v \in Users, visit'[v].width = 1, NEW x \in Targets
          PROVE  /\ job'[v][x].got \in {Nil, x}
                 /\ job'[v][x].at = "content" => shows' = x
      <3>1. v # u
        BY <1>1, <1>4, <2>1
      <3>2. /\ job[v][x].got \in {Nil, x}
            /\ job[v][x].at = "content" => shows = x
        BY <1>4, <2>1, <3>1 DEF WebInv, PageIsMine
      <3>3. job[v][x].at = "content" => visit[v].at # "idle"
        BY <1>1 DEF WebInv, WebLockPart
      <3>4. job[v][x].at = "content" => visit[u].at = "idle"
        BY <2>1, <3>1, <3>3, OneClient, OneCallPerClient
      <3> QED BY <1>4, <3>1, <3>2, <3>4
    <2> QED BY <2>1 DEF PageIsMine, Clients
  <1> QED BY <1>6, <1>7, <1>8, <1>9, <1>10, <1>11 DEF WebInv

\* The ways a job moves, as one new record for the job.
LEMMA NowIs ==
  ASSUME WebInv, NEW u \in Users, NEW t \in Targets,
         NEW stage \in {"goto", "content", "guard", "backend"}, Now(u, t, stage)
  PROVE  \E j \in Job :
           /\ job' = [job EXCEPT ![u] = [job[u] EXCEPT ![t] = j]]
           /\ j.at = stage /\ j.sess = job[u][t].sess /\ j.got = job[u][t].got
           /\ j.end = job[u][t].end
  <1> DEFINE k == job[u][t]
             j == [k EXCEPT !.at = stage]
  <1>1. j \in Job /\ j.at = stage /\ j.sess = k.sess /\ j.got = k.got /\ j.end = k.end
    <2>1. k \in Job
      BY WebTypes
    <2> HIDE DEF k
    <2> QED BY <2>1 DEF Job
  <1>2. job' = [job EXCEPT ![u] = [job[u] EXCEPT ![t] = j]]
    BY DEF Now
  <1> HIDE DEF j
  <1> QED BY <1>1, <1>2

LEMMA OverIs ==
  ASSUME WebInv, NEW u \in Users, NEW t \in Targets, NEW end \in {"ok", "error", "lost"},
         Over(u, t, end)
  PROVE  \E j \in Job :
           /\ job' = [job EXCEPT ![u] = [job[u] EXCEPT ![t] = j]]
           /\ j.at = "done" /\ j.got = job[u][t].got /\ j.end = end
  <1> DEFINE k == job[u][t]
             i == [k EXCEPT !.at = "done"]
             j == [i EXCEPT !.end = end]
  <1>1. i \in Job /\ i.at = "done" /\ i.got = k.got
    <2>1. k \in Job
      BY WebTypes
    <2> HIDE DEF k
    <2> QED BY <2>1 DEF Job
  <1>2. job' = [job EXCEPT ![u] = [job[u] EXCEPT ![t] = j]]
    BY DEF Over
  <1> HIDE DEF i
  <1>3. j \in Job /\ j.at = "done" /\ j.got = job[u][t].got /\ j.end = end
    BY <1>1 DEF Job
  <1> HIDE DEF j
  <1> QED BY <1>2, <1>3

\* What an entered job knows.
LEMMA EnteredJob ==
  ASSUME WebInv, NEW u \in Users, NEW t \in Targets, job[u][t].at \in Entered
  PROVE  /\ visit[u].at = "jobs" /\ job[u][t].sess \in WebObjects
         /\ Cardinality(Clients) = 1 /\ visit[u].width = 1 =>
              job[u][t].got \in {Nil, t} /\ (job[u][t].at = "content" => shows = t)
         /\ job[u][t].end = "lost" => MayMiss(u)
  BY DEF WebInv, WebJobPart, PageIsMine, DefaultPart

\* An entered job that goes on without touching the registry, or ends.
LEMMA EnteredMoves ==
  ASSUME WebInv, NEW u \in Users, NEW t \in Targets, job[u][t].at \in Entered,
         UNCHANGED <<registry, held, visit>>,
         webobj' \in [WebObjects -> WebObject], SamePins, shows' \in Targets \cup {Nil},
         \/ \E stage \in {"goto", "guard", "backend"} : Now(u, t, stage)
         \/ Now(u, t, "content") /\ shows' = t
         \/ \E end \in {"ok", "error"} : Over(u, t, end)
  PROVE  WebInv'
  <1>1. registry' \in [WebNames -> WebObjects \cup {Nil}] /\ registry' = registry /\ KeepsPins
    BY WebTypes, SamePinsKeep
  <1>2. ASSUME NEW stage \in {"goto", "content", "guard", "backend"}, Now(u, t, stage),
               stage = "content" => shows' = t
        PROVE  WebInv'
    <2>1. PICK j \in Job : /\ job' = [job EXCEPT ![u] = [job[u] EXCEPT ![t] = j]]
                           /\ j.at = stage /\ j.sess = job[u][t].sess /\ j.got = job[u][t].got
                           /\ j.end = job[u][t].end
      BY <1>2, NowIs
    <2> QED BY <1>1, <1>2, <2>1, EnteredJob, JobMoves
  <1>3. ASSUME NEW end \in {"ok", "error"}, Over(u, t, end)
        PROVE  WebInv'
    <2>1. PICK j \in Job : /\ job' = [job EXCEPT ![u] = [job[u] EXCEPT ![t] = j]]
                           /\ j.at = "done" /\ j.got = job[u][t].got /\ j.end = end
      BY <1>3, OverIs
    <2>2. j.at \notin Entered /\ j.end # "lost"
      BY <1>3, <2>1 DEF Entered
    <2> QED BY <1>1, <2>1, <2>2, EnteredJob, JobMoves
  <1> QED BY <1>2, <1>3

LEMMA JobStartStep ==
  ASSUME WebInv, NEW u \in Users, NEW t \in Targets, JobStart(u, t)
  PROVE  WebInv'
  <1> DEFINE v == visit[u]
             arg == IF v.op = "batch" THEN "id" ELSE v.arg
  <1>1. visit[u].at = "jobs" /\ job[u][t].at = "wait" /\ MayStart(u)
        /\ UNCHANGED <<shows, held, visit>>
    BY DEF JobStart, JobAt
  <1>2. PICK o \in WebObjects \cup {Nil} :
          /\ Resolve(v.name, arg, o)
          /\ IF o = Nil THEN Over(u, t, "lost")
             ELSE job' = [job EXCEPT ![u][t].sess = o,
                                     ![u][t].at = IF webobj'[o].browser = "none" THEN "attach"
                                                  ELSE Transport(u, o)]
    BY Zenon DEF JobStart
  <1>3. v.name \in WebNames /\ arg \in {"None", "new", "id"} /\ Argument(v.name, arg)
    <2>1. v.name \in WebNames \cup {Nil} /\ v.arg \in {"None", "new", "id"}
      BY WebTypes DEF Visit
    <2>2. v.name # Nil /\ Argument(v.name, v.arg)
      BY <1>1 DEF WebInv, WebNamePart
    <2> QED BY <2>1, <2>2 DEF Argument
  <1>4. /\ registry' \in [WebNames -> WebObjects \cup {Nil}]
        /\ webobj' \in [WebObjects -> WebObject] /\ KeepsPins
        /\ o = Nil => arg = "id" /\ (v.name = DefaultName => ~PinnedDefault)
    BY <1>2, <1>3, ResolveSound
  <1>5. /\ Cardinality(Clients) = 1 /\ visit[u].width = 1 => job[u][t].got \in {Nil, t}
        /\ job[u][t].end = "lost" => MayMiss(u)
        /\ v.op = "batch" /\ v.name = DefaultName /\ webobj[v.sess].pinned => PinnedDefault
    BY DEF WebInv, PageIsMine, DefaultPart
  <1>6. shows' = shows /\ shows \in Targets \cup {Nil}
    BY <1>1, WebTypes
  <1>7. CASE o = Nil
    <2>1. MayMiss(u)
      BY <1>4, <1>5, <1>7 DEF MayMiss
    <2>2. PICK j \in Job : /\ job' = [job EXCEPT ![u] = [job[u] EXCEPT ![t] = j]]
                           /\ j.at = "done" /\ j.got = job[u][t].got /\ j.end = "lost"
      BY <1>2, <1>7, OverIs
    <2>3. j.at \notin Entered /\ j.at # "content"
      BY <2>2 DEF Entered
    <2> QED BY <1>1, <1>4, <1>5, <1>6, <2>1, <2>2, <2>3, JobMoves
  <1>8. CASE o # Nil
    <2> DEFINE stage == IF webobj'[o].browser = "none" THEN "attach" ELSE Transport(u, o)
               k == job[u][t]
               i == [k EXCEPT !.sess = o]
               j == [i EXCEPT !.at = stage]
    <2>1. stage \in {"attach", "goto", "backend"}
      BY DEF Transport
    <2>2. i \in Job /\ i.sess = o /\ i.got = k.got /\ i.end = k.end
      <3>1. k \in Job
        BY WebTypes
      <3> HIDE DEF k
      <3> QED BY <3>1 DEF Job
    <2>3. job' = [job EXCEPT ![u] = [job[u] EXCEPT ![t] = j]]
      <3>1. job' = [job EXCEPT ![u][t].sess = o, ![u][t].at = stage]
        BY <1>2, <1>8, Zenon
      <3> QED BY <3>1
    <2> HIDE DEF stage, i
    <2>4. j \in Job /\ j.at = stage /\ j.sess = o /\ j.got = job[u][t].got /\ j.end = job[u][t].end
      BY <2>1, <2>2 DEF Job
    <2> HIDE DEF j
    <2>5. o \in WebObjects /\ j.at # "content"
      BY <1>8, <2>1, <2>4
    <2> QED BY <1>1, <1>4, <1>5, <1>6, <2>3, <2>4, <2>5, JobMoves
  <1> QED BY <1>7, <1>8

LEMMA JobAttachStep ==
  ASSUME WebInv, NEW u \in Users, NEW t \in Targets, JobAttach(u, t)
  PROVE  WebInv'
  <1>1. job[u][t].at \in Entered /\ UNCHANGED <<registry, held, visit>> /\ Obtain(job[u][t].sess)
    BY DEF JobAttach, JobAt, Entered
  <1>2. webobj' \in [WebObjects -> WebObject] /\ shows' \in Targets \cup {Nil} /\ SamePins
    BY <1>1, ObtainSound
  <1>3. Now(u, t, "goto") \/ Now(u, t, "backend")
    BY DEF JobAttach, Transport
  <1> QED BY <1>1, <1>2, <1>3, EnteredMoves

\* A read that fails ends the job, or turns a search to the HTTP endpoint.
LEMMA FailsStep ==
  ASSUME WebInv, NEW u \in Users, NEW t \in Targets, job[u][t].at \in Entered, Fails(u, t),
         UNCHANGED <<registry, webobj, shows, held, visit>>
  PROVE  WebInv'
  <1>1. (Now(u, t, "backend") \/ Over(u, t, "error")) /\ SamePins
    BY DEF Fails, SamePins
  <1> QED BY <1>1, EnteredMoves, WebTypes

LEMMA NavigateStep ==
  ASSUME WebInv, NEW u \in Users, NEW t \in Targets, Navigate(u, t)
  PROVE  WebInv'
  <1>1. job[u][t].at \in Entered /\ UNCHANGED <<registry, webobj, held, visit>>
    BY DEF Navigate, JobAt, Entered
  <1>2. CASE shows' = t /\ Now(u, t, "content")
    BY <1>1, <1>2, EnteredMoves, WebTypes DEF SamePins
  <1>3. CASE Fails(u, t) /\ UNCHANGED shows
    BY <1>1, <1>3, FailsStep
  <1> QED BY <1>2, <1>3 DEF Navigate

\* What an entered job reads of the page is its URL's content, if nobody else uses the page.
LEMMA GetsStep ==
  ASSUME WebInv, NEW u \in Users, NEW t \in Targets, job[u][t].at \in Entered,
         NEW x \in Targets \cup {Nil},
         job' = [job EXCEPT ![u][t].at = "guard", ![u][t].got = x],
         Cardinality(Clients) = 1 /\ visit[u].width = 1 => x \in {Nil, t},
         UNCHANGED <<registry, webobj, shows, held, visit>>
  PROVE  WebInv'
  <1> DEFINE k == job[u][t]
             i == [k EXCEPT !.at = "guard"]
             j == [i EXCEPT !.got = x]
  <1>1. i \in Job /\ i.at = "guard" /\ i.sess = k.sess /\ i.end = k.end
    <2>1. k \in Job
      BY WebTypes
    <2> HIDE DEF k
    <2> QED BY <2>1 DEF Job
  <1>2. job' = [job EXCEPT ![u] = [job[u] EXCEPT ![t] = j]]
    OBVIOUS
  <1> HIDE DEF i
  <1>3. j \in Job /\ j.at = "guard" /\ j.sess = k.sess /\ j.end = k.end /\ j.got = x
    BY <1>1 DEF Job
  <1> HIDE DEF j
  <1>4. /\ registry' \in [WebNames -> WebObjects \cup {Nil}] /\ registry' = registry
        /\ webobj' \in [WebObjects -> WebObject]
        /\ shows' \in Targets \cup {Nil} /\ shows' = shows /\ KeepsPins
    BY WebTypes, SamePinsKeep DEF SamePins
  <1>5. /\ visit[u].at = "jobs" /\ k.sess \in WebObjects /\ j.at # "content"
        /\ j.end = "lost" => MayMiss(u)
    BY <1>3, EnteredJob
  <1> QED BY <1>2, <1>3, <1>4, <1>5, JobMoves

LEMMA ContentStep ==
  ASSUME WebInv, NEW u \in Users, NEW t \in Targets, Content(u, t)
  PROVE  WebInv'
  <1>1. /\ job[u][t].at \in Entered /\ job[u][t].at = "content"
        /\ UNCHANGED <<registry, webobj, shows, held, visit>>
    BY DEF Content, JobAt, Entered
  <1>2. CASE job' = [job EXCEPT ![u][t].at = "guard", ![u][t].got = shows]
    <2>1. PICK x \in Targets \cup {Nil} : x = shows
      BY WebTypes
    <2>2. Cardinality(Clients) = 1 /\ visit[u].width = 1 => x = t
      BY <1>1, <2>1, EnteredJob
    <2>3. job' = [job EXCEPT ![u][t].at = "guard", ![u][t].got = x]
      BY <1>2, <2>1
    <2> QED BY <1>1, <2>2, <2>3, GetsStep
  <1>3. CASE Fails(u, t)
    BY <1>1, <1>3, FailsStep
  <1> QED BY <1>2, <1>3, Zenon DEF Content

LEMMA BackendStep ==
  ASSUME WebInv, NEW u \in Users, NEW t \in Targets, Backend(u, t)
  PROVE  WebInv'
  <1>1. /\ job[u][t].at \in Entered
        /\ UNCHANGED <<registry, webobj, shows, held, visit>>
    BY DEF Backend, JobAt, Entered
  <1>2. CASE job' = [job EXCEPT ![u][t].at = "guard", ![u][t].got = t]
    BY <1>1, <1>2, GetsStep
  <1>3. CASE Over(u, t, "error")
    BY <1>1, <1>3, EnteredMoves, WebTypes DEF SamePins
  <1> QED BY <1>2, <1>3, Zenon DEF Backend

LEMMA GuardStep ==
  ASSUME WebInv, NEW u \in Users, NEW t \in Targets, Guard(u, t)
  PROVE  WebInv'
  <1>1. job[u][t].at \in Entered /\ UNCHANGED <<registry, shows, held, visit>>
    BY DEF Guard, JobAt, Entered
  <1>2. webobj' \in [WebObjects -> WebObject] /\ SamePins
    BY UsedSound, WebTypes DEF Guard, SamePins
  <1>3. Over(u, t, "ok") \/ Over(u, t, "error")
    BY DEF Guard
  <1> QED BY <1>1, <1>2, <1>3, EnteredMoves, WebTypes

-----------------------------------------------------------------------------
(* Calls. *)

\* A call that starts: the lock was free, so its client has no other call.
LEMMA Enters ==
  ASSUME WebInv, NEW u \in Users, visit[u] = NoVisit, held[Client[u]] = Nil,
         NEW v \in Visit, NEW ts \in SUBSET Targets,
         v.at \in {"attach", "jobs"}, v.name \in WebNames, Argument(v.name, v.arg),
         v.op = "batch" => /\ v.sess \in WebObjects
                           /\ v.name = DefaultName => registry'[DefaultName] = v.sess,
         v.at = "attach" => v.op = "batch",
         visit' = [visit EXCEPT ![u] = v], held' = [held EXCEPT ![Client[u]] = u],
         job' = [job EXCEPT ![u] = Jobs(ts)],
         registry' \in [WebNames -> WebObjects \cup {Nil}], KeepsPins,
         webobj' \in [WebObjects -> WebObject], UNCHANGED shows
  PROVE  WebInv'
  <1> DEFINE js == Jobs(ts)
  <1>1. js \in [Targets -> Job] /\ \A x \in Targets : /\ js[x].at \in {"none", "wait"}
                                                      /\ js[x].got = Nil /\ js[x].end = "none"
    BY DEF Jobs, NoJob, Job
  <1>2. job' = [job EXCEPT ![u] = js]
    OBVIOUS
  <1> HIDE DEF js
  <1>3. /\ visit' \in [Users -> Visit] /\ job' \in [Users -> [Targets -> Job]]
        /\ visit'[u] = v /\ job'[u] = js
        /\ \A w \in Users : w # u => visit'[w] = visit[w] /\ job'[w] = job[w]
    BY <1>1, <1>2, WebTypes
  <1>4. \A w \in Users : Client[w] \in Clients
    BY DEF Clients
  <1>5. held' \in [Clients -> Users \cup {Nil}] /\ held'[Client[u]] = u
        /\ \A w \in Users : Client[w] # Client[u] => held'[Client[w]] = held[Client[w]]
    BY <1>4, WebTypes
  <1>6. \A w \in Users : w # u /\ Client[w] = Client[u] => visit[w].at = "idle"
    BY WebAssumption DEF WebInv, WebLockPart
  <1>7. WebTypeOK'
    BY <1>3, <1>5, WebTypes DEF WebTypeOK
  <1>8. WebLockPart'
    BY <1>3, <1>5, <1>6 DEF WebInv, WebLockPart
  <1>9. WebJobPart'
    BY <1>1, <1>3 DEF WebInv, WebJobPart, Entered
  <1>10. WebNamePart'
    BY <1>3, WebAssumption DEF WebInv, WebNamePart
  <1>11. OneByOne'
    BY <1>1, <1>3 DEF WebInv, OneByOne, Entered
  <1>12. DefaultPart'
    <2>1. \A w \in Users : w # u => (MayMiss(w) => MayMiss(w)')
      BY <1>3 DEF MayMiss, KeepsPins
    <2>2. v.op = "batch" /\ v.name = DefaultName /\ webobj'[v.sess].pinned => PinnedDefault'
      BY WebAssumption DEF PinnedDefault
    <2> QED BY <1>1, <1>3, <2>1, <2>2 DEF WebInv, DefaultPart, KeepsPins
  <1>13. PageIsMine'
    <2>1. ASSUME Cardinality(Clients) = 1, NEW w \in Users, visit'[w].width = 1, NEW x \in Targets
          PROVE  /\ job'[w][x].got \in {Nil, x}
                 /\ job'[w][x].at = "content" => shows' = x
      BY <1>1, <1>3, <2>1 DEF WebInv, PageIsMine
    <2> QED BY <2>1 DEF PageIsMine, Clients
  <1> QED BY <1>7, <1>8, <1>9, <1>10, <1>11, <1>12, <1>13 DEF WebInv

LEMMA EnterStep ==
  ASSUME WebInv, NEW u \in Users, NEW op \in {"fetch", "search"}, NEW n \in WebNames,
         NEW t \in Targets, Enter(u, op, n, t)
  PROVE  WebInv'
  <1>1. PICK arg \in {"None", "new", "id"}, fast \in BOOLEAN :
          /\ Argument(n, arg)
          /\ visit' = [visit EXCEPT ![u] = [op |-> op, at |-> "jobs", name |-> n, arg |-> arg,
                                            fast |-> fast, width |-> 1, sess |-> Nil]]
    BY Zenon DEF Enter
  <1> DEFINE v == [op |-> op, at |-> "jobs", name |-> n, arg |-> arg,
                   fast |-> fast, width |-> 1, sess |-> Nil]
  <1>2. v \in Visit /\ v.at = "jobs" /\ v.name = n /\ v.op # "batch" /\ Argument(v.name, v.arg)
    BY <1>1, WebAssumption DEF Visit
  <1>3. visit' = [visit EXCEPT ![u] = v]
    BY <1>1
  <1> HIDE DEF v
  <1>4. /\ visit[u] = NoVisit /\ held[Client[u]] = Nil
        /\ held' = [held EXCEPT ![Client[u]] = u] /\ job' = [job EXCEPT ![u] = Jobs({t})]
        /\ UNCHANGED shows
    BY DEF Enter, Granted
  <1>5. /\ registry' \in [WebNames -> WebObjects \cup {Nil}] /\ registry' = registry
        /\ webobj' \in [WebObjects -> WebObject] /\ KeepsPins
    BY WebTypes, SamePinsKeep DEF Enter, SamePins
  <1>6. {t} \in SUBSET Targets
    OBVIOUS
  <1> QED BY <1>2, <1>3, <1>4, <1>5, <1>6, Enters

LEMMA EnterBatchStep ==
  ASSUME WebInv, NEW u \in Users, NEW n \in WebNames, NEW ts \in SUBSET Targets,
         EnterBatch(u, n, ts)
  PROVE  WebInv'
  <1>1. PICK arg \in {"None", "new", "id"}, fast \in BOOLEAN, w \in Requested, o \in WebObjects :
          /\ Argument(n, arg)
          /\ Resolve(n, arg, o)
          /\ visit' = [visit EXCEPT ![u] =
                         [op |-> "batch", at |-> IF webobj'[o].browser = "none" THEN "attach" ELSE "jobs",
                          name |-> n, arg |-> arg, fast |-> fast, width |-> Clamped(w), sess |-> o]]
    BY Zenon DEF EnterBatch
  <1> DEFINE at == IF webobj'[o].browser = "none" THEN "attach" ELSE "jobs"
             v == [op |-> "batch", at |-> at, name |-> n, arg |-> arg, fast |-> fast,
                   width |-> Clamped(w), sess |-> o]
  <1>2. at \in {"attach", "jobs"} /\ Clamped(w) \in 0..MaxPages
    BY WebAssumption DEF Clamped
  <1>3. visit' = [visit EXCEPT ![u] = v]
    BY <1>1
  <1> HIDE DEF at
  <1>4. /\ v \in Visit /\ v.at = at /\ v.name = n /\ v.op = "batch" /\ v.sess = o
        /\ Argument(v.name, v.arg)
    BY <1>1, <1>2 DEF Visit
  <1> HIDE DEF v
  <1>5. /\ registry' \in [WebNames -> WebObjects \cup {Nil}]
        /\ webobj' \in [WebObjects -> WebObject] /\ KeepsPins
        /\ n = DefaultName => registry'[DefaultName] = o
    BY <1>1, ResolveSound
  <1>6. /\ visit[u] = NoVisit /\ held[Client[u]] = Nil
        /\ held' = [held EXCEPT ![Client[u]] = u] /\ job' = [job EXCEPT ![u] = Jobs(ts)]
        /\ UNCHANGED shows
    BY DEF EnterBatch, Granted
  <1> QED BY <1>2, <1>3, <1>4, <1>5, <1>6, Enters

LEMMA BatchAttachStep ==
  ASSUME WebInv, NEW u \in Users, BatchAttach(u)
  PROVE  WebInv'
  <1> DEFINE k == visit[u]
             v == [k EXCEPT !.at = "jobs"]
  <1>1. /\ k.at = "attach" /\ visit' = [visit EXCEPT ![u] = v]
        /\ UNCHANGED <<registry, held, job>> /\ Obtain(k.sess)
    BY DEF BatchAttach
  <1>2. /\ v \in Visit /\ v.at = "jobs" /\ v.op = k.op /\ v.name = k.name /\ v.sess = k.sess
        /\ v.width = k.width /\ v.arg = k.arg
    <2>1. k \in Visit
      BY WebTypes
    <2> HIDE DEF k
    <2> QED BY <2>1 DEF Visit
  <1> HIDE DEF v
  <1>3. webobj' \in [WebObjects -> WebObject] /\ shows' \in Targets \cup {Nil} /\ KeepsPins
    BY <1>1, ObtainSound, SamePinsKeep
  <1>4. /\ visit' \in [Users -> Visit] /\ visit'[u] = v
        /\ \A w \in Users : w # u => visit'[w] = visit[w]
    BY <1>1, <1>2, WebTypes
  <1>5. WebTypeOK'
    BY <1>1, <1>3, <1>4, WebTypes DEF WebTypeOK
  <1>6. WebLockPart' /\ WebNamePart'
    BY <1>1, <1>2, <1>4 DEF WebInv, WebLockPart, WebNamePart
  <1>7. WebJobPart'
    BY <1>1, <1>2, <1>4 DEF WebInv, WebJobPart
  <1>8. OneByOne' /\ DefaultPart'
    <2>1. \A w \in Users : /\ visit'[w].op = visit[w].op /\ visit'[w].name = visit[w].name
                           /\ visit'[w].sess = visit[w].sess /\ visit'[w].arg = visit[w].arg
                           /\ visit'[w].width = visit[w].width
      BY <1>2, <1>4
    <2>2. \A w \in Users : MayMiss(w) => MayMiss(w)'
      BY <1>3, <2>1 DEF MayMiss, KeepsPins
    <2> QED BY <1>1, <1>3, <2>1, <2>2 DEF WebInv, OneByOne, DefaultPart, KeepsPins
  <1>9. PageIsMine'
    <2>1. ASSUME Cardinality(Clients) = 1, NEW w \in Users, visit'[w].width = 1, NEW x \in Targets
          PROVE  /\ job'[w][x].got \in {Nil, x}
                 /\ job'[w][x].at = "content" => shows' = x
      <3>1. visit[w].width = 1 /\ job'[w][x] = job[w][x]
        BY <1>1, <1>2, <1>4, <2>1
      <3>2. job[w][x].at = "content" => visit[w].at = "jobs"
        BY DEF WebInv, WebJobPart, Entered
      <3>3. visit[w].at = "jobs" => w = u
        BY <1>1, <2>1, OneClient, OneCallPerClient
      <3>4. job[w][x].at # "content"
        BY <1>1, <3>2, <3>3
      <3> QED BY <2>1, <3>1, <3>4 DEF WebInv, PageIsMine
    <2> QED BY <2>1 DEF PageIsMine, Clients
  <1> QED BY <1>5, <1>6, <1>7, <1>8, <1>9 DEF WebInv

LEMMA AnswerStep ==
  ASSUME WebInv, NEW u \in Users, Answer(u)
  PROVE  WebInv'
  <1>1. End(u) /\ UNCHANGED <<registry, shows>>
    BY DEF Answer
  <1>2. webobj' \in [WebObjects -> WebObject] /\ SamePins
    BY UsedSound, WebTypes DEF Answer, SamePins
  <1> QED BY <1>1, <1>2, EndSound, WebTypes

LEMMA AbortStep ==
  ASSUME WebInv, NEW u \in Users, Abort(u)
  PROVE  WebInv'
  <1>1. End(u) /\ UNCHANGED registry /\ visit[u].at # "idle"
    BY DEF Abort
  <1>3. webobj' \in [WebObjects -> WebObject] /\ shows' \in Targets \cup {Nil} /\ SamePins
    BY StoppedSound, WebTypes DEF Abort, SamePins
  <1> QED BY <1>1, <1>3, EndSound

\* Steps between calls: they may take any session away but a default one that is_default.
LEMMA BetweenCalls ==
  ASSUME WebInv, registry' \in [WebNames -> WebObjects \cup {Nil}], KeepsPins,
         webobj' \in [WebObjects -> WebObject], UNCHANGED <<shows, held, visit, job>>
  PROVE  WebInv'
  <1>1. WebTypeOK'
    BY WebTypes DEF WebTypeOK
  <1>2. WebLockPart' /\ WebNamePart' /\ WebJobPart'
    BY DEF WebInv, WebLockPart, WebNamePart, WebJobPart
  <1>3. OneByOne' /\ PageIsMine'
    BY DEF WebInv, OneByOne, PageIsMine, Clients
  <1>4. DefaultPart'
    <2>1. \A u \in Users : MayMiss(u) => MayMiss(u)'
      BY DEF MayMiss, KeepsPins
    <2> QED BY <2>1 DEF WebInv, DefaultPart, KeepsPins
  <1> QED BY <1>1, <1>2, <1>3, <1>4 DEF WebInv

LEMMA CloseSessionStep ==
  ASSUME WebInv, NEW u \in Users, NEW n \in WebNames, CloseSession(u, n)
  PROVE  WebInv'
  <1>1. UNCHANGED <<shows, held, visit, job>>
    BY DEF CloseSession
  <1>2. CASE /\ n # DefaultName /\ registry[n] # Nil
             /\ registry' = [registry EXCEPT ![n] = Nil] /\ UNCHANGED webobj
    <2>1. /\ registry' \in [WebNames -> WebObjects \cup {Nil}]
          /\ registry'[DefaultName] = registry[DefaultName]
      BY <1>2, WebTypes DEF WebNames
    <2>2. KeepsPins
      BY <1>2, <2>1 DEF KeepsPins, PinnedDefault
    <2> QED BY <1>1, <1>2, <2>1, <2>2, BetweenCalls, WebTypes
  <1>3. CASE n = DefaultName /\ \E o \in Unreferred :
               /\ registry' = [registry EXCEPT ![n] = o]
               /\ webobj' = [webobj EXCEPT ![o] = [NewObject EXCEPT !.pinned = TRUE]]
    <2>1. PICK o \in Unreferred :
            /\ registry' = [registry EXCEPT ![n] = o]
            /\ webobj' = [webobj EXCEPT ![o] = [NewObject EXCEPT !.pinned = TRUE]]
      BY <1>3
    <2> DEFINE r == [registry EXCEPT ![n] = o]
    <2>2. r[DefaultName] = o
      BY <1>3, WebTypes DEF WebNames
    <2> HIDE DEF r
    <2>3. o \in WebObjects /\ webobj' \in [WebObjects -> WebObject] /\ KeepsPins
      BY <2>1, <2>2, NewObjectSound DEF r
    <2>4. registry' \in [WebNames -> WebObjects \cup {Nil}]
      BY <2>1, <2>3, WebTypes
    <2> QED BY <1>1, <2>3, <2>4, BetweenCalls
  <1> QED BY <1>2, <1>3 DEF CloseSession

LEMMA WebInvInit == WebInit => WebInv
  <1> SUFFICES ASSUME WebInit PROVE WebInv
    OBVIOUS
  <1>1. /\ NoVisit \in Visit /\ NoJob \in Job /\ NoVisit.at = "idle" /\ NoVisit.width = 0
        /\ NoVisit.op = "none" /\ NoJob.at = "none" /\ NoJob.end = "none" /\ NoJob.got = Nil
        /\ NewObject \in WebObject
    BY WebAssumption DEF NoVisit, NoJob, Visit, Job, NewObject, WebObject
  <1>2. /\ \A u \in Users : visit[u] = NoVisit /\ \A t \in Targets : job[u][t] = NoJob
        /\ WebTypeOK
    BY <1>1 DEF WebInit, WebTypeOK
  <1>3. WebLockPart /\ WebNamePart /\ WebJobPart
    BY <1>1, <1>2 DEF WebLockPart, WebNamePart, WebJobPart, Entered
  <1>4. OneByOne /\ DefaultPart /\ PageIsMine
    BY <1>1, <1>2 DEF OneByOne, DefaultPart, PageIsMine
  <1> QED BY <1>2, <1>3, <1>4 DEF WebInv

LEMMA WebInvStep == WebInv /\ [WebNext]_wvars => WebInv'
  <1> SUFFICES ASSUME WebInv, [WebNext]_wvars PROVE WebInv'
    OBVIOUS
  <1>1. ASSUME NEW u \in Users, WebStep(u)
        PROVE  WebInv'
    BY <1>1, BatchAttachStep, AnswerStep, JobStartStep, JobAttachStep, NavigateStep, ContentStep,
       BackendStep, GuardStep DEF WebStep
  <1>2. ASSUME NEW u \in Users, ListSessions(u)
        PROVE  WebInv'
    BY <1>2, EvictionKeepsDefault, EvictionKeepsPins, BetweenCalls, WebTypes DEF ListSessions
  <1>3. ASSUME NEW o \in WebObjects, Idle(o)
        PROVE  WebInv'
    <2>1. webobj' \in [WebObjects -> WebObject] /\ SamePins
      BY <1>3, WebTypes DEF Idle, WebObject, SamePins
    <2>2. UNCHANGED <<registry, shows, held, visit, job>>
      BY <1>3 DEF Idle
    <2> QED BY <2>1, <2>2, SamePinsKeep, BetweenCalls, WebTypes
  <1>4. CASE UNCHANGED wvars
    <2>1. SamePins /\ UNCHANGED <<registry, webobj, shows, held, visit, job>>
      BY <1>4 DEF wvars, SamePins
    <2> QED BY <2>1, SamePinsKeep, BetweenCalls, WebTypes
  <1>5. CASE WebNext
    BY <1>1, <1>2, <1>3, <1>5, EnterStep, EnterBatchStep, AbortStep, CloseSessionStep DEF WebNext
  <1> QED BY <1>4, <1>5

LEMMA WebInvariant == WebSpec => []WebInv
  BY WebInvInit, WebInvStep, PTL DEF WebSpec

\* Type correctness: no job reads a session or a browser it has not resolved, for any number of
\* calls, names and URLs.
THEOREM WebTypeCorrect == WebSpec => []WebTypeOK
  <1>1. WebInv => WebTypeOK
    BY DEF WebInv
  <1> QED BY <1>1, WebInvariant, PTL

\* With one client, a call that works through its URLs one at a time is answered with each
\* URL's own content, whatever is evicted, closed, recycled, aborted or failing meanwhile.
THEOREM SequentialFetchesAreTheirs == WebSpec => []SequentialFetchIsOfItsUrl
  <1>1. WebInv => SequentialFetchIsOfItsUrl
    <2> SUFFICES ASSUME WebInv, Cardinality(Clients) = 1, NEW u \in Users, NEW t \in Targets,
                        visit[u].width = 1, job[u][t].got # Nil
                 PROVE  job[u][t].got = t
      BY DEF SequentialFetchIsOfItsUrl
    <2> QED BY DEF WebInv, PageIsMine
  <1> QED BY <1>1, WebInvariant, PTL

\* A default session that is_default is never evicted, and closing it makes another one: no URL of
\* a batch that holds it ends with SessionNotFound, however many clients close and let expire what
\* they like, and no other call that may make its session does.  (One that session="new:default"
\* made is not is_default and may be evicted: README, 5.)
THEOREM DefaultIsAlwaysFound == WebSpec => []DefaultAlwaysFound
  <1>1. WebInv => DefaultAlwaysFound
    BY DEF WebInv, DefaultPart, MayMiss, DefaultAlwaysFound
  <1> QED BY <1>1, WebInvariant, PTL

-----------------------------------------------------------------------------
(***************************************************************************)
(* HttpServer, for every set of deployments and both behaviours of uvicorn.    *)
(***************************************************************************)

\* The steps from the k-th to the last.
Left(k) == [i \in 1..(13 - k) |-> StopOrder[i + k - 1]]

Names == Workers \cup {"flush", "sequences", "metrics", "manager", "repository"}

TypeInv ==
  /\ deployment \in Deployments
  /\ life \in {"off", "limiter", "pool", "wiring", "starting", "serving", "ending",
               "complete", "cut", "killed", "failed"}
  /\ owns \subseteq {"repository", "pool", "manager"}
  /\ worker \in [Workers -> {"none", "running", "stopped", "astray"}]
  /\ draining \in BOOLEAN
  /\ pending \in {"none", "term", "int", "cancel"}

UpAndRunning == {w \in Workers : worker[w] = "running"}

\* What is left to stop when the k-th step is next.
EndingAt(k) ==
  /\ k \in 1..13 /\ steps = Left(k)
  /\ k <= 12 => "repository" \in owns
  /\ k = 13 => owns \subseteq {"pool"}
  /\ \A w \in UpAndRunning : \E i \in k..11 : StopOrder[i] = w
  /\ "manager" \in owns => k <= 11

NotUp == UpAndRunning = {} /\ "manager" \notin owns /\ ~draining /\ pending = "none" /\ steps = <<>>

LifeInv ==
  /\ life \in {"off", "limiter", "pool", "failed"} => NotUp
  /\ life \in {"limiter", "pool"} => "repository" \in owns
  /\ life \in {"wiring", "starting"} =>
       UpAndRunning = {} /\ {"repository", "manager"} \subseteq owns /\ ~draining /\ pending = "none"
  /\ life = "serving" => {"repository", "manager"} \subseteq owns /\ (draining <=> pending # "none")
  /\ life = "ending" => \E k \in 1..13 : EndingAt(k)
  /\ life = "complete" => UpAndRunning = {} /\ owns = {} /\ ~draining
  /\ life \in {"cut", "killed"} => (UpAndRunning # {} \/ "manager" \in owns => "repository" \in owns)

-----------------------------------------------------------------------------
(***************************************************************************)
(* The list of the finally block.                                           *)
(***************************************************************************)
LEMMA StopOrderLength == Len(StopOrder) = 12 /\ StopOrder \in [1..12 -> Names]
  BY DEF StopOrder, Names, Workers

\* Where the workers, the manager and the repository are in it.
LEMMA StopOrderPlaces ==
  /\ StopOrder[11] = "manager" /\ StopOrder[12] = "repository"
  /\ \A w \in Workers : \E i \in 1..11 : StopOrder[i] = w
  /\ \A i \in 1..12 : StopOrder[i] = "manager" => i = 11
  /\ \A i \in 1..12 : StopOrder[i] = "repository" => i = 12
  BY DEF StopOrder, Workers

LEMMA LeftAll == StopOrder = Left(1)
  <1>1. StopOrder = [i \in 1..12 |-> StopOrder[i]]
    BY StopOrderLength
  <1>2. \A i \in 1..12 : StopOrder[i] = StopOrder[i + 1 - 1]
    BY StopOrderLength
  <1> QED BY <1>1, <1>2 DEF Left

LEMMA LeftSeq == ASSUME NEW k \in 1..13 PROVE Left(k) \in Seq(Names) /\ Len(Left(k)) = 13 - k
  <1>1. \A i \in 1..(13 - k) : StopOrder[i + k - 1] \in Names
    BY StopOrderLength
  <1>2. Left(k) \in [1..(13 - k) -> Names] /\ 13 - k \in Nat
    BY <1>1 DEF Left
  <1> QED BY <1>2, SeqDef

LEMMA LeftNext ==
  ASSUME NEW k \in 1..12
  PROVE  Left(k) # <<>> /\ Head(Left(k)) = StopOrder[k] /\ Tail(Left(k)) = Left(k + 1)
  <1>0. k \in 1..13 /\ k + 1 \in 1..13 /\ 13 - (k + 1) = 12 - k /\ 1 \in 1..(13 - k) /\ 1 + k - 1 = k
    OBVIOUS
  <1>1. Left(k) \in Seq(Names) /\ Len(Left(k)) = 13 - k /\ Left(k)[1] = StopOrder[k]
    <2>1. Left(k)[1] = StopOrder[1 + k - 1]
      BY <1>0 DEF Left
    <2> QED BY <1>0, <2>1, LeftSeq
  <1>2. Left(k + 1) \in Seq(Names) /\ Len(Left(k + 1)) = 12 - k
    <2>1. Left(k + 1) \in Seq(Names) /\ Len(Left(k + 1)) = 13 - (k + 1)
      BY <1>0, LeftSeq
    <2> QED BY <1>0, <2>1
  <1>3. Tail(Left(k)) \in Seq(Names) /\ Len(Tail(Left(k))) = 12 - k
    BY <1>1, HeadTailProperties
  <1>4. \A i \in 1..(12 - k) : Tail(Left(k))[i] = Left(k + 1)[i]
    <2> TAKE i \in 1..(12 - k)
    <2>1. Tail(Left(k))[i] = Left(k)[i + 1]
      BY <1>1, HeadTailProperties
    <2>2. /\ i + 1 \in 1..(13 - k) /\ i \in 1..(13 - (k + 1))
          /\ (i + 1) + k - 1 = i + (k + 1) - 1
      OBVIOUS
    <2>3. Left(k)[i + 1] = StopOrder[(i + 1) + k - 1] /\ Left(k + 1)[i] = StopOrder[i + (k + 1) - 1]
      BY <2>2 DEF Left
    <2>4. StopOrder[(i + 1) + k - 1] = StopOrder[i + (k + 1) - 1]
      BY <2>2
    <2> QED BY <2>1, <2>3, <2>4
  <1> QED BY <1>1, <1>2, <1>3, <1>4, SeqEqual

LEMMA LeftNone == Left(13) = <<>>
  BY LeftSeq, EmptySeq

\* A list that is not empty is what is left from one of the twelve.
LEMMA EndingSteps ==
  ASSUME NEW k, EndingAt(k)
  PROVE  /\ steps = <<>> => k = 13
         /\ steps # <<>> => k \in 1..12 /\ Head(steps) = StopOrder[k] /\ Tail(steps) = Left(k + 1)
  <1>1. k \in 1..13 /\ steps = Left(k)
    BY DEF EndingAt
  <1>2. CASE k = 13
    BY <1>1, <1>2, LeftNone
  <1>3. CASE k \in 1..12
    BY <1>1, <1>3, LeftNext
  <1> QED BY <1>1, <1>2, <1>3

\* The block begins with everything ahead of it.
LEMMA EndingBegins ==
  ASSUME {"repository", "manager"} \subseteq owns', Ending
  PROVE  EndingAt(1)'
  BY LeftAll, StopOrderPlaces DEF Ending, EndingAt, UpAndRunning

-----------------------------------------------------------------------------
LEMMA TypeInit == ServerInit => TypeInv
  BY DEF ServerInit, TypeInv

LEMMA TypeStep == TypeInv /\ [ServerNext]_hsvars => TypeInv'
  <1> SUFFICES ASSUME TypeInv, [ServerNext]_hsvars PROVE TypeInv'
    OBVIOUS
  <1> USE DEF TypeInv, Ending
  <1>1. CASE OpenRepository
    BY <1>1 DEF OpenRepository
  <1>2. CASE OpenLimiter
    BY <1>2 DEF OpenLimiter
  <1>3. CASE OpenPool
    BY <1>3 DEF OpenPool
  <1>4. CASE Wire
    BY <1>4 DEF Wire
  <1>5. CASE StartWorkers
    <2>1. \A ws \in SUBSET Workers : AtWork(ws) \in [Workers -> {"none", "running", "stopped", "astray"}]
      BY DEF AtWork
    <2>2. Employed \subseteq Workers
      BY DEF Employed
    <2> QED BY <1>5, <2>1, <2>2 DEF StartWorkers
  <1>6. ASSUME NEW s \in {"term", "int"}, Signal(s) PROVE TypeInv'
    BY <1>6 DEF Signal
  <1>7. CASE ServeOver
    BY <1>7 DEF ServeOver
  <1>8. CASE StopNext
    <2>1. ASSUME Stop(Head(steps))
          PROVE  /\ worker' \in [Workers -> {"none", "running", "stopped", "astray"}]
                 /\ owns' \subseteq {"repository", "pool", "manager"}
      BY <2>1 DEF Stop
    <2> QED BY <1>8, <2>1 DEF StopNext, Leave
  <1>9. CASE StopDone
    BY <1>9 DEF StopDone
  <1>10. CASE UNCHANGED hsvars
    BY <1>10 DEF hsvars
  <1> QED BY <1>1, <1>2, <1>3, <1>4, <1>5, <1>6, <1>7, <1>8, <1>9, <1>10 DEF ServerNext

LEMMA LifeInit == ServerInit => LifeInv
  BY DEF ServerInit, LifeInv, NotUp, UpAndRunning

\* One step of the finally block is done: what it stops no longer runs, and the rest is ahead.
LEMMA EndingGoesOn ==
  ASSUME TypeInv, NEW k \in 1..12, EndingAt(k), Stop(StopOrder[k]), Tail(steps) = Left(k + 1)
  PROVE  EndingAt(k + 1)'
  <1>1. k + 1 \in 1..13 /\ steps' = Left(k + 1)
    BY DEF Stop
  <1>2. k + 1 <= 12 => "repository" \in owns'
    BY StopOrderPlaces DEF EndingAt, Stop
  <1>3. "manager" \in owns' => k + 1 <= 11
    BY StopOrderPlaces DEF EndingAt, Stop
  <1>4. k + 1 = 13 => owns' \subseteq {"pool"}
    <2> SUFFICES ASSUME k + 1 = 13 PROVE owns' \subseteq {"pool"}
      OBVIOUS
    <2>1. k = 12 /\ StopOrder[k] = "repository" /\ "manager" \notin owns
      BY StopOrderPlaces DEF EndingAt
    <2>2. owns' = owns \ {"repository"}
      BY <2>1 DEF Stop
    <2> QED BY <2>1, <2>2 DEF TypeInv
  <1>5. \A w \in UpAndRunning' : w \in UpAndRunning /\ w # StopOrder[k]
    BY DEF Stop, UpAndRunning, TypeInv
  <1>6. \A w \in UpAndRunning' : \E i \in (k + 1)..11 : StopOrder[i] = w
    <2> SUFFICES ASSUME NEW w \in UpAndRunning' PROVE \E i \in (k + 1)..11 : StopOrder[i] = w
      OBVIOUS
    <2>1. PICK i \in k..11 : StopOrder[i] = w
      BY <1>5 DEF EndingAt
    <2>2. i # k
      BY <1>5, <2>1
    <2> QED BY <2>1, <2>2
  <1> QED BY <1>1, <1>2, <1>3, <1>4, <1>6 DEF EndingAt

LEMMA LifeStep == TypeInv /\ LifeInv /\ [ServerNext]_hsvars => LifeInv'
  <1> SUFFICES ASSUME TypeInv, LifeInv, [ServerNext]_hsvars PROVE LifeInv'
    OBVIOUS
  <1>1. CASE OpenRepository
    BY <1>1 DEF OpenRepository, LifeInv, NotUp, UpAndRunning
  <1>2. CASE OpenLimiter
    BY <1>2 DEF OpenLimiter, LifeInv, NotUp, UpAndRunning
  <1>3. CASE OpenPool
    BY <1>3 DEF OpenPool, LifeInv, NotUp, UpAndRunning
  <1>4. CASE Wire
    <2>1. CASE Ending
      <3>1. EndingAt(1)'
        BY <1>4, <2>1, EndingBegins DEF Wire, LifeInv
      <3> QED BY <2>1, <3>1 DEF Ending, LifeInv
    <2>2. CASE life' = "starting"
      BY <1>4, <2>2 DEF Wire, LifeInv, UpAndRunning
    <2> QED BY <1>4, <2>1, <2>2 DEF Wire
  <1>5. CASE StartWorkers
    <2>1. CASE Ending
      <3>1. EndingAt(1)'
        BY <1>5, <2>1, EndingBegins DEF StartWorkers, LifeInv
      <3> QED BY <2>1, <3>1 DEF Ending, LifeInv
    <2>2. CASE life' = "serving"
      BY <1>5, <2>2 DEF StartWorkers, LifeInv
    <2> QED BY <1>5, <2>1, <2>2 DEF StartWorkers
  <1>6. ASSUME NEW s \in {"term", "int"}, Signal(s) PROVE LifeInv'
    BY <1>6 DEF Signal, LifeInv
  <1>7. CASE ServeOver
    <2>1. CASE Ending
      <3>1. EndingAt(1)'
        BY <1>7, <2>1, EndingBegins DEF ServeOver, LifeInv
      <3> QED BY <2>1, <3>1 DEF Ending, LifeInv
    <2>2. CASE life' = "killed"
      BY <1>7, <2>2 DEF ServeOver, LifeInv, UpAndRunning
    <2> QED BY <1>7, <2>1, <2>2 DEF ServeOver
  <1>8. CASE StopNext
    <2>1. PICK k \in 1..13 : EndingAt(k)
      BY <1>8 DEF StopNext, LifeInv
    <2>2. k \in 1..12 /\ Head(steps) = StopOrder[k] /\ Tail(steps) = Left(k + 1)
      BY <1>8, <2>1, EndingSteps DEF StopNext
    <2>3. CASE Stop(Head(steps)) /\ life' = life
      <3>1. EndingAt(k + 1)'
        BY <2>1, <2>2, <2>3, EndingGoesOn
      <3>2. k + 1 \in 1..13 /\ life' = "ending"
        BY <1>8, <2>2, <2>3 DEF StopNext
      <3> QED BY <3>1, <3>2 DEF LifeInv
    <2>4. CASE Leave("cut") /\ owns' = owns \ {"pool"} /\ worker' = worker
      <3>1. "repository" \in owns'
        BY <2>1, <2>2, <2>4 DEF EndingAt
      <3> QED BY <2>4, <3>1 DEF Leave, LifeInv
    <2> QED BY <1>8, <2>3, <2>4 DEF StopNext
  <1>9. CASE StopDone
    <2>1. PICK k \in 1..13 : EndingAt(k)
      BY <1>9 DEF StopDone, LifeInv
    <2>2. k = 13
      BY <1>9, <2>1, EndingSteps DEF StopDone
    <2>3. UpAndRunning = {} /\ owns \subseteq {"pool"}
      BY <2>1, <2>2 DEF EndingAt
    <2> QED BY <1>9, <2>3 DEF StopDone, LifeInv, UpAndRunning
  <1>10. CASE UNCHANGED hsvars
    BY <1>10 DEF hsvars, LifeInv, NotUp, UpAndRunning, EndingAt
  <1> QED BY <1>1, <1>2, <1>3, <1>4, <1>5, <1>6, <1>7, <1>8, <1>9, <1>10 DEF ServerNext

-----------------------------------------------------------------------------
(***************************************************************************)
(* Requests.                                                                *)
(***************************************************************************)
Around == {i \in DOMAIN WrapOrder : Wrapped(WrapOrder[i])}

\* A server that starts or serves is wrapped as its deployment says.
ChainInv == life \in {"starting", "serving"} =>
              chain = Around /\ Required \subseteq deployment.packages

LEMMA ChainInit == ServerInit => ChainInv
  BY DEF ServerInit, ChainInv

LEMMA ChainStep == TypeInv /\ ChainInv /\ [ServerNext]_hsvars => ChainInv'
  <1> SUFFICES ASSUME TypeInv, ChainInv, [ServerNext]_hsvars PROVE ChainInv'
    OBVIOUS
  <1>1. deployment' = deployment
    BY DEF ServerNext, OpenRepository, OpenLimiter, OpenPool, Wire, StartWorkers, Signal, ServeOver,
           StopNext, StopDone, hsvars
  <1>2. Around' = Around
    BY <1>1 DEF Around, Wrapped, Has, Wants
  <1>3. CASE Wire
    BY <1>1, <1>2, <1>3 DEF Wire, ChainInv, Ending, Around
  <1>4. CASE StartWorkers
    BY <1>1, <1>2, <1>4 DEF StartWorkers, ChainInv, Ending
  <1>5. ASSUME NEW s \in {"term", "int"}, Signal(s) PROVE ChainInv'
    BY <1>1, <1>2, <1>5 DEF Signal, ChainInv
  <1>6. CASE UNCHANGED hsvars
    BY <1>1, <1>2, <1>6 DEF hsvars, ChainInv
  <1>7. CASE OpenRepository \/ OpenLimiter \/ OpenPool \/ ServeOver \/ StopNext \/ StopDone
    BY <1>7 DEF ChainInv, OpenRepository, OpenLimiter, OpenPool, ServeOver, StopNext, StopDone,
                Ending, Leave
  <1> QED BY <1>3, <1>4, <1>5, <1>6, <1>7 DEF ServerNext

\* Where the layers that matter are: what answers for reasons of its own is outside of the
\* security headers or inside of authentication.
LEMMA LayerPlaces ==
  /\ DOMAIN WrapOrder = 1..15
  /\ WrapOrder[5] = "auth" /\ WrapOrder[6] = "cors" /\ WrapOrder[7] = "headers"
  /\ \A i \in 1..15 : WrapOrder[i] = "auth" => i = 5
  /\ \A i \in 1..15 : WrapOrder[i] = "cors" => i = 6
  /\ \A i \in 1..15 : WrapOrder[i] \in OwnAnswers \ Outermost => i \in 1..4
  BY DEF WrapOrder, OwnAnswers, Outermost

LEMMA HasLargest ==
  ASSUME NEW S \in SUBSET (1..6), S # {}
  PROVE  \E i \in S : \A k \in S : k <= i
  <1>0. \A k \in 1..6 : k = 1 \/ k = 2 \/ k = 3 \/ k = 4 \/ k = 5 \/ k = 6
    OBVIOUS
  <1>2. \A k \in S : k = 1 \/ k = 2 \/ k = 3 \/ k = 4 \/ k = 5 \/ k = 6
    <2> SUFFICES ASSUME NEW k \in S
                 PROVE  k = 1 \/ k = 2 \/ k = 3 \/ k = 4 \/ k = 5 \/ k = 6
      OBVIOUS
    <2>1. k \in 1..6
      OBVIOUS
    <2> QED BY <1>0, <2>1
  <1>1. \E x : x \in S
    OBVIOUS
  <1>3. CASE 6 \in S
    BY <1>2, <1>3
  <1>4. CASE 6 \notin S /\ 5 \in S
    BY <1>2, <1>4
  <1>5. CASE 6 \notin S /\ 5 \notin S /\ 4 \in S
    BY <1>2, <1>5
  <1>6. CASE 6 \notin S /\ 5 \notin S /\ 4 \notin S /\ 3 \in S
    BY <1>2, <1>6
  <1>7. CASE 6 \notin S /\ 5 \notin S /\ 4 \notin S /\ 3 \notin S
    BY <1>1, <1>2, <1>7
  <1> QED BY <1>3, <1>4, <1>5, <1>6, <1>7

\* With CORS wanted, no request that no layer further out stops is answered outside of CORS.
LEMMA OutermostAnswer ==
  ASSUME Wants("cors"), chain = Around, NEW r \in HttpRequest, r.origin, r.stop \notin Outermost
  PROVE  Answerer(r) \in 0..6 /\ (r.preflight => Answerer(r) = 6)
  <1> DEFINE at == {i \in chain : AnswersItself(WrapOrder[i], r)}
  <1>1. chain \subseteq 1..15 /\ 6 \in chain
    BY LayerPlaces DEF Around, Wrapped
  <1>2. \A i \in 1..15 : WrapOrder[i] = r.stop => i \in 1..4
    BY LayerPlaces DEF HttpRequest, WrapOrder, OwnAnswers
  <1>3. at \subseteq 1..6
    <2> SUFFICES ASSUME NEW i \in at PROVE i \in 1..6
      OBVIOUS
    <2>1. i \in 1..15 /\ WrapOrder[i] \in {"cors", "auth", r.stop}
      BY <1>1 DEF AnswersItself
    <2> QED BY <1>2, <2>1, LayerPlaces
  <1>4. r.preflight => 6 \in at
    BY <1>1, LayerPlaces DEF AnswersItself
  <1>5. Answerer(r) = IF at = {} THEN 0 ELSE CHOOSE i \in at : \A k \in at : k <= i
    BY DEF Answerer
  <1> HIDE DEF at
  <1>6. CASE at = {}
    BY <1>4, <1>5, <1>6
  <1>7. CASE at # {}
    <2>1. \E i \in at : \A k \in at : k <= i
      BY <1>3, <1>7, HasLargest
    <2>2. Answerer(r) \in at /\ \A k \in at : k <= Answerer(r)
      BY <1>5, <1>7, <2>1
    <2>a. Answerer(r) \in 1..6
      BY <1>3, <2>2
    <2>3. Answerer(r) \in Int /\ 1 <= Answerer(r) /\ Answerer(r) <= 6
      BY <2>a
    <2>4. 6 \in at => Answerer(r) = 6
      BY <2>2, <2>3
    <2> QED BY <1>4, <2>3, <2>4
  <1> QED BY <1>6, <1>7

LEMMA LifeInvariant == ServerSpec => [](TypeInv /\ LifeInv)
  BY TypeInit, TypeStep, LifeInit, LifeStep, PTL DEF ServerSpec

\* ShutdownOrder: whatever a deployment wires, wherever boot failed, whichever signal came and
\* wherever a second one cut the finally block, the session manager and the workers that have not
\* failed to shut down never outlive the repository, a complete shutdown leaves neither those nor
\* anything open, and a listening server is started, and ready until it drains.  (Of a worker whose
\* shutdown() raised nothing is promised: the error is suppressed and the shutdown goes on.)
THEOREM ShutdownInOrder == ServerSpec => []ShutdownOrder
  <1>1. TypeInv /\ LifeInv => ShutdownOrder
    <2> SUFFICES ASSUME TypeInv, LifeInv PROVE ShutdownOrder
      OBVIOUS
    <2>1. UpAndRunning # {} \/ "manager" \in owns => "repository" \in owns
      <3>1. CASE life = "ending"
        <4>1. PICK k \in 1..13 : EndingAt(k)
          BY <3>1 DEF LifeInv
        <4> QED BY <4>1 DEF EndingAt
      <3>2. CASE life # "ending"
        BY <3>2 DEF TypeInv, LifeInv, NotUp
      <3> QED BY <3>1, <3>2
    <2>2. life = "complete" => owns = {} /\ ~draining /\ UpAndRunning = {}
      BY DEF LifeInv
    <2>3. ASSUME life = "serving", NEW connected \in BOOLEAN
          PROVE  /\ Startupz(connected) = 200 <=> connected
                 /\ Readyz(connected) = 200 <=> connected /\ pending = "none"
      BY <2>3 DEF LifeInv, Startupz, Readyz, Ready
    <2> QED BY <2>1, <2>2, <2>3 DEF ShutdownOrder, UpAndRunning
  <1> QED BY <1>1, LifeInvariant, PTL

\* In every deployment with CORS, a preflight of an allowed origin that no layer outside of CORS
\* stops is answered by the CORS layer, before authentication asks for credentials; and whatever
\* authentication, the layers inside of it or the application answer to an allowed origin passes the
\* CORS and the security header layers.  (A webhook, the limiter, an open circuit, a deadline, an
\* unknown version and the gateway answer from outside of both.)
THEOREM AnswersAreReadable == ServerSpec => []AnswersReadable
  <1>1. ServerSpec => []ChainInv
    <2>1. ServerSpec => []TypeInv
      BY TypeInit, TypeStep, PTL DEF ServerSpec
    <2> QED BY <2>1, ChainInit, ChainStep, PTL DEF ServerSpec
  <1>2. ChainInv => AnswersReadable
    <2> SUFFICES ASSUME ChainInv, life = "serving", Wants("cors"), NEW r \in HttpRequest,
                        r.origin, r.stop \notin Outermost
                 PROVE  /\ r.preflight => Answerer(r) # 0 /\ WrapOrder[Answerer(r)] = "cors"
                        /\ Passes(r, "cors") /\ Passes(r, "headers")
      BY DEF AnswersReadable
    <2>1. Answerer(r) \in 0..6 /\ (r.preflight => Answerer(r) = 6)
      BY OutermostAnswer DEF ChainInv
    <2>2. 6 \in chain /\ 7 \in chain
      BY LayerPlaces DEF ChainInv, Around, Wrapped
    <2>3. Passes(r, "cors") /\ Passes(r, "headers")
      BY <2>1, <2>2, LayerPlaces DEF Passes
    <2> QED BY <2>1, <2>3, LayerPlaces
  <1> QED BY <1>1, <1>2, PTL

=============================================================================
