--------------------------- MODULE MCBrowserPool ---------------------------
(* Small instances of BrowserPool for TLC. *)
EXTENDS BrowserPool, TLC

CONSTANTS a, b, c1, c2, s1, s2, s3

MCCallers2 == {c1, c2}
MCIds == {a, b}
MCSessions3 == {s1, s2, s3}

\* PoolSpec with its fairness, for callers that are never cancelled inside a call: the steps
\* CancelStart and CancelRelease, which Faults = {} disables, are left out of PoolNext.
ContractNext ==
  \/ \E c \in Callers :
       \/ \E i \in Ids : Begin(c, "acquire", i) \/ Begin(c, "session", i) \/ ReleaseBegin(c, i)
       \/ Resume(c) \/ GiveUp(c) \/ StartOk(c) \/ StartFail(c) \/ ReleaseDone(c) \/ ExitSession(c)
  \/ Background

ContractSpec == PoolInit /\ [][ContractNext]_pvars /\ PoolFairness
=============================================================================
