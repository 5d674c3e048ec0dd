----------------------------- MODULE WsSessions -----------------------------
(***************************************************************************)
(* server/ws_session_manager.py: the registry of WebSocket connections, the  *)
(* browser contexts it asks the pool for, and each connection's token        *)
(* bucket.  Time is counted in refill periods; a bucket's tokens are whole,   *)
(* as Rate tokens come per period.                                          *)
(*                                                                         *)
(* Of BrowserPool only what these calls see is kept: acquire(id) takes a     *)
(* slot and returns the context stored under id, making it when there is     *)
(* none; release(x) does nothing when x is no id; the reaper frees an idle    *)
(* context with the one slot its flag stands for.  See BrowserPool.          *)
(***************************************************************************)
EXTENDS Naturals, FiniteSets

CONSTANTS
  Conns,       \* connections
  WsClients,   \* client ids
  ClientOf,    \* the client of each connection
  MaxConns,    \* max_connections
  WsSlots,     \* max_contexts of the pool
  Burst,       \* TokenBucket.burst
  Rate,        \* TokenBucket.rate, per period
  MaxTime      \* bound on the clock

ASSUME WsAssumption ==
  /\ IsFiniteSet(Conns)
  /\ ClientOf \in [Conns -> WsClients]
  /\ MaxConns \in Nat \ {0} /\ WsSlots \in Nat \ {0}
  /\ Burst \in Nat \ {0} /\ Rate \in Nat /\ MaxTime \in Nat

VARIABLES
  now,       \* time.monotonic()
  conn,      \* the connections
  bucket,    \* TokenBucket of each connection, with what it has let through
  pooled,    \* clients whose context is in the pool
  slots      \* free slots of the pool

wsvars == <<now, conn, bucket, pooled, slots>>

Bucket == [tokens : 0..Burst, refilled : 0..MaxTime, made : 0..MaxTime, passed : Nat]
NewBucket == [tokens |-> Burst, refilled |-> now, made |-> now, passed |-> 0]

WsTypeOK ==
  /\ now \in 0..MaxTime
  /\ conn \in [Conns -> {"none", "acquiring", "open", "closed"}]
  /\ bucket \in [Conns -> Bucket]
  /\ pooled \in SUBSET WsClients
  /\ slots \in 0..WsSlots

WsInit ==
  /\ now = 0
  /\ conn = [c \in Conns |-> "none"]
  /\ bucket = [c \in Conns |-> [tokens |-> Burst, refilled |-> 0, made |-> 0, passed |-> 0]]
  /\ pooled = {} /\ slots = WsSlots

With(stage) == {c \in Conns : conn[c] = stage}

\* on_connect up to `await acquire(client_id)`: the limit counts the connections stored so
\* far.  A connection above it is refused.
OnConnect(c) ==
  /\ conn[c] = "none"
  /\ Cardinality(With("open")) < MaxConns
  /\ conn' = [conn EXCEPT ![c] = "acquiring"]
  /\ bucket' = [bucket EXCEPT ![c] = NewBucket]
  /\ UNCHANGED <<now, pooled, slots>>

\* acquire() returned the client's context, or raised, which is logged; the session is
\* stored in both cases.
Connected(c) ==
  /\ conn[c] = "acquiring"
  /\ conn' = [conn EXCEPT ![c] = "open"]
  /\ \/ slots > 0 /\ slots' = slots - 1 /\ pooled' = pooled \cup {ClientOf[c]}
     \/ UNCHANGED <<pooled, slots>>
  /\ UNCHANGED <<now, bucket>>

\* on_disconnect: the pool has no entry under a BrowserSession, and keeps the context.
OnDisconnect(c) ==
  /\ conn[c] = "open"
  /\ conn' = [conn EXCEPT ![c] = "closed"]
  /\ UNCHANGED <<now, bucket, pooled, slots>>

\* The reaper evicts a client's idle context and frees one slot.
Evict(k) ==
  /\ k \in pooled
  /\ pooled' = pooled \ {k} /\ slots' = slots + 1
  /\ UNCHANGED <<now, conn, bucket>>

\* Mutant of Refilled: last_refill is not moved.
Refilled_Again(b) ==
  [b EXCEPT !.tokens = IF @ + (now - b.refilled) * Rate < Burst THEN @ + (now - b.refilled) * Rate ELSE Burst]

\* TokenBucket.allow: first the tokens of the time since the last call, up to the burst.
Refilled(b) ==
  LET t == b.tokens + (now - b.refilled) * Rate IN
  [tokens |-> IF t < Burst THEN t ELSE Burst, refilled |-> now, made |-> b.made, passed |-> b.passed]

\* A token is taken, and the request passes.
Spent(b) == [tokens |-> b.tokens - 1, refilled |-> b.refilled, made |-> b.made, passed |-> b.passed + 1]

\* check_rate_limit on a stored connection: a token lets the request pass.
Request(c) ==
  LET b == Refilled(bucket[c]) IN
  /\ conn[c] = "open"
  /\ bucket' = [bucket EXCEPT ![c] = IF b.tokens >= 1 THEN Spent(b) ELSE b]
  /\ UNCHANGED <<now, conn, pooled, slots>>

Tick ==
  /\ now < MaxTime
  /\ now' = now + 1
  /\ UNCHANGED <<conn, bucket, pooled, slots>>

WsNext ==
  \/ \E c \in Conns : OnConnect(c) \/ Connected(c) \/ OnDisconnect(c) \/ Request(c)
  \/ \E k \in WsClients : Evict(k)
  \/ Tick

WsSpec == WsInit /\ [][WsNext]_wsvars

-----------------------------------------------------------------------------
(***************************************************************************)
(* What the manager promises.                                               *)
(***************************************************************************)

\* "burst: 30 requests, rate: 10 requests/second": whatever the pattern of requests, a
\* connection never passes more than the burst and what has come in since it was made.
RateBound ==
  \A c \in Conns : bucket[c].passed <= Burst + Rate * (now - bucket[c].made)

\* The pool never has more free slots and open contexts together than max_contexts, though
\* two connections of a client share a context and a disconnected one leaves its behind.
WsSlotsBounded == slots + Cardinality(pooled) <= WsSlots
=============================================================================
