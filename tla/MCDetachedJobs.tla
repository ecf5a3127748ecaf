--------------------------- MODULE MCDetachedJobs ---------------------------
(* Small instances of DetachedJobs.  r1 and r2 are explicit requests, r3 is *)
(* an automatic second stage; r4 finds the registry full.                   *)
EXTENDS DetachedJobs

CONSTANTS r1, r2, r3, r4, k1, k2, k3

\* The same person asks the same thing twice, next to a second stage, and
\* another request is turned away.
MCAll == {r1, r2, r3, r4}
\* One request and a second stage.
MCPair == {r1, r3}

MCKeys == {k1, k2, k3}
MCKeyOf == [r \in Request |-> IF r = r4 THEN k3 ELSE IF r = r3 THEN k2 ELSE k1]
MCOwnKey == [r \in Request |-> IF r = r1 THEN k1 ELSE k2]
MCAuto == Request \cap {r3}

\* To keep the instance small, r4 comes in place of r2 and never gets a job.
TurnedAway ==
    /\ jobs'[KeyOf[r4]] # r4
    /\ caller'[r2] = "idle" \/ caller'[r4] = "idle"
=============================================================================
