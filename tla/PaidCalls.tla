------------------------------ MODULE PaidCalls ------------------------------
(***************************************************************************)
(* Tool calls that pay a provider: the request gate of the gateway process *)
(* lets a call in, a thread of the process does the work and keeps the     *)
(* ledger, and the gate's unit goes back when the call is answered         *)
(* (mcp_gateway/server.py, _call and call_tool).  A call that the client   *)
(* cancels leaves the gate at once; its thread goes on and pays.           *)
(***************************************************************************)
EXTENDS RequestGate, CostLedger

(* Other calls pass through the gate and pay nothing.                       *)
ASSUME PaidAssumption == Paid \subseteq Call

vars == <<gateVars, ledgerVars>>

Init == GateInit /\ LedgerInit

AtWork(c) == c \in Paid /\ pc[c] # "over"

(* asyncio.to_thread(skill.run): the thread begins while its call is inside *)
(* the gate; what it does then does not depend on the call any more.        *)
ThreadBegins(c) == place[c] = "runs" /\ Begin(c) /\ UNCHANGED gateVars

ThreadProceeds(c) == Proceed(c) /\ UNCHANGED gateVars

ThreadErrs(c) == Misfortune(c) /\ UNCHANGED gateVars

GateMoves(c) == (Enter(c) \/ Gone(c)) /\ UNCHANGED ledgerVars

Arrives(c) == Arrive(c) /\ UNCHANGED ledgerVars

GivesUp(c) == GiveUp(c) /\ UNCHANGED ledgerVars

(* The thread is over and its call is answered.                             *)
Answered(c) == ~AtWork(c) /\ Leave(c) /\ UNCHANGED ledgerVars

(* The client cancels a call at work.                                       *)
ClientCancels(c) == AtWork(c) /\ Leave(c) /\ UNCHANGED ledgerVars

(* The process is replaced; the gate of the new one is empty.               *)
ProcessDies ==
    /\ Dies
    /\ value' = Concurrency /\ queue' = <<>> /\ waiting' = 0
    /\ place' = [c \in Call |-> IF place[c] = "idle" THEN "idle" ELSE "ended"]

Next ==
    \/ \E c \in Paid : ThreadBegins(c) \/ ThreadProceeds(c) \/ ThreadErrs(c)
    \/ \E c \in Call : Arrives(c) \/ GateMoves(c) \/ GivesUp(c) \/ Answered(c) \/ ClientCancels(c)
    \/ ProcessDies

Spec == Init /\ [][Next]_vars

(* The event loop and the threads run, and skills return.  Nothing forces a *)
(* wait to time out or a client to cancel: a gate may be without a time     *)
(* limit (the one of the Slack bot).                                        *)
FairSpec ==
    /\ Spec
    /\ \A c \in Paid : WF_vars(ThreadBegins(c)) /\ WF_vars(ThreadProceeds(c))
    /\ \A c \in Call : WF_vars(GateMoves(c)) /\ WF_vars(Answered(c))

-----------------------------------------------------------------------------
(* Types of both parts.                                                     *)
TypeOK == GateTypeOK /\ LedgerTypeOK

(* A call that pays nothing and waits for those that pay gets its turn,     *)
(* without a time limit to end the wait: every unit comes back, from calls  *)
(* that end, were cancelled or gave up.                                     *)
Served == \A c \in Call \ Paid : place[c] = "waits" ~> place[c] # "waits"
=============================================================================
