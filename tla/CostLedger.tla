------------------------------ MODULE CostLedger ------------------------------
(***************************************************************************)
(* The monthly ledger of what is paid to a provider (CostGuard in          *)
(* adapters/cost_guard.py) and the calls that are paid for: the actor runs *)
(* of adapters/apify_client.py and the strict calls of                     *)
(* skills/media_case_search/distill.py.                                    *)
(*                                                                         *)
(* An estimate is reserved in the row of the provider and in the row of    *)
(* the user before a call, and settled to the actual cost after it.  A     *)
(* strict call is not made without a reservation; the others are made when *)
(* the ledger fails.  A call of the table that fails may have been applied,*)
(* and the client library repeats it inside: then it is applied twice.     *)
(***************************************************************************)
EXTENDS Integers, FiniteSets, Functions

CONSTANTS Paid,       \* the calls that pay
          Strict,     \* those with require_cost_reservation
          UserOf,     \* the user of every call
          Est,        \* the estimate, in units
          Limit,      \* COST_<PROVIDER>_MONTHLY_USD
          UserLimit,  \* COST_PER_USER_MONTHLY_USD
          MaxFaults   \* bound: calls of the table that fail or are repeated, ends of a process

(* A larger estimate is refused before the ledger is asked.                 *)
ASSUME LedgerAssumption ==
    /\ IsFiniteSet(Paid) /\ Strict \subseteq Paid
    /\ Est \in Nat \ {0} /\ Limit \in Nat /\ UserLimit \in Nat
    /\ Est <= Limit /\ Est <= UserLimit /\ MaxFaults \in Nat

VARIABLES
    total,    \* cost of the provider's row
    spent,    \* cost of the rows of the users
    pc,       \* where the thread of every call is
    reserved, \* calls whose reservation says that both rows are reserved
    charge,   \* what a call settles
    billed,   \* what the provider bills for the call
    repeated, \* calls of the table that were applied twice
    failed    \* calls of the table that raised, and ends of a process

rows == <<total, spent>>
faultVars == <<repeated, failed>>
ledgerVars == <<rows, pc, reserved, charge, billed, faultVars>>

Users == {UserOf[c] : c \in Paid}
Goto(c, to) == pc' = [pc EXCEPT ![c] = to]
Fault == repeated + failed < MaxFaults
Raises == Fault /\ failed' = failed + 1 /\ UNCHANGED repeated
Repeats == Fault /\ repeated' = repeated + 1 /\ UNCHANGED failed

Spend(c, amount) == spent' = [spent EXCEPT ![UserOf[c]] = @ + amount]

LedgerInit ==
    /\ total = 0 /\ spent = [u \in Users |-> 0]
    /\ pc = [c \in Paid |-> "reserve"]
    /\ reserved = {}
    /\ charge = [c \in Paid |-> 0] /\ billed = [c \in Paid |-> 0]
    /\ repeated = 0 /\ failed = 0

-----------------------------------------------------------------------------
(* reserve                                                                  *)

\* Mutant: the estimate itself is forgotten.
FitsWithoutEstimate(cost, limit) == cost <= limit

Fits(cost, limit) == cost <= limit - Est

(* Without a reservation a strict call settles nothing and is refused.      *)
Unreserved(c) == IF c \in Strict THEN "over" ELSE "run"

ReserveTotal(c) ==
    /\ pc[c] = "reserve"
    /\ IF Fits(total, Limit)
       THEN total' = total + Est /\ Goto(c, "reserveUser")
       ELSE Goto(c, "over") /\ UNCHANGED total
    /\ UNCHANGED <<spent, reserved, charge, billed, faultVars>>

ReserveTotalRaises(c) ==
    /\ pc[c] = "reserve" /\ Raises
    /\ total' \in {total} \cup (IF Fits(total, Limit) THEN {total + Est} ELSE {})
    /\ Goto(c, Unreserved(c))
    /\ UNCHANGED <<spent, reserved, charge, billed>>

(* The second attempt is judged by the row that the first one left.         *)
ReserveTotalRepeats(c) ==
    /\ pc[c] = "reserve" /\ Fits(total, Limit) /\ Repeats
    /\ IF Fits(total + Est, Limit)
       THEN total' = total + 2 * Est /\ Goto(c, "reserveUser")
       ELSE total' = total + Est /\ Goto(c, "over")
    /\ UNCHANGED <<spent, reserved, charge, billed>>

ReserveUser(c) ==
    /\ pc[c] = "reserveUser"
    /\ IF Fits(spent[UserOf[c]], UserLimit)
       THEN Spend(c, Est) /\ reserved' = reserved \cup {c} /\ Goto(c, "run")
       ELSE Goto(c, "denied") /\ UNCHANGED <<spent, reserved>>
    /\ UNCHANGED <<total, charge, billed, faultVars>>

ReserveUserRaises(c) ==
    /\ pc[c] = "reserveUser" /\ Raises
    /\ Spend(c, 0) \/ (Fits(spent[UserOf[c]], UserLimit) /\ Spend(c, Est))
    /\ Goto(c, "rollback")
    /\ UNCHANGED <<total, reserved, charge, billed>>

ReserveUserRepeats(c) ==
    LET u == UserOf[c] IN
    /\ pc[c] = "reserveUser" /\ Fits(spent[u], UserLimit) /\ Repeats
    /\ IF Fits(spent[u] + Est, UserLimit)
       THEN Spend(c, 2 * Est) /\ reserved' = reserved \cup {c} /\ Goto(c, "run")
       ELSE Spend(c, Est) /\ Goto(c, "denied") /\ UNCHANGED reserved
    /\ UNCHANGED <<total, charge, billed>>

(* The provider's row is given back: for a user over the limit, who is      *)
(* refused, and for a failed call.                                          *)
AfterRollback(c) == IF pc[c] = "denied" THEN "over" ELSE Unreserved(c)

\* Mutant: only a failed call gives the provider's row back.
RollbackUnlessDenied(c) ==
    /\ pc[c] \in {"denied", "rollback"}
    /\ total' = IF pc[c] = "denied" THEN total ELSE total - Est
    /\ Goto(c, AfterRollback(c))
    /\ UNCHANGED <<spent, reserved, charge, billed, faultVars>>

Rollback(c) ==
    /\ pc[c] \in {"denied", "rollback"}
    /\ total' = total - Est
    /\ Goto(c, AfterRollback(c))
    /\ UNCHANGED <<spent, reserved, charge, billed, faultVars>>

RollbackRaises(c) ==
    /\ pc[c] \in {"denied", "rollback"} /\ Raises
    /\ total' \in {total, total - Est}
    /\ Goto(c, AfterRollback(c))
    /\ UNCHANGED <<spent, reserved, charge, billed>>

RollbackRepeats(c) ==
    /\ pc[c] \in {"denied", "rollback"} /\ Repeats
    /\ total' = total - 2 * Est
    /\ Goto(c, AfterRollback(c))
    /\ UNCHANGED <<spent, reserved, charge, billed>>

-----------------------------------------------------------------------------
(* The paid call.  What cannot be known is settled as the estimate by a     *)
(* strict call; another one settles nothing for a start that failed and for *)
(* an answer that cannot be read.                                           *)
Charges(c, bill) == {bill, Est} \cup (IF c \in Strict THEN {} ELSE {0})

Run(c) ==
    /\ pc[c] = "run"
    /\ \E bill \in 0..Est : \E cost \in Charges(c, bill) :
         /\ billed' = [billed EXCEPT ![c] = bill]
         /\ charge' = [charge EXCEPT ![c] = cost]
    /\ Goto(c, "settle")
    /\ UNCHANGED <<rows, reserved, faultVars>>

(* settle: the provider's row, then the user's; an error ends it.           *)
Delta(c) == charge[c] - (IF c \in reserved THEN Est ELSE 0)

SettleTotal(c) ==
    /\ pc[c] = "settle"
    /\ total' = total + Delta(c)
    /\ Goto(c, "settleUser")
    /\ UNCHANGED <<spent, reserved, charge, billed, faultVars>>

SettleTotalRaises(c) ==
    /\ pc[c] = "settle" /\ Raises
    /\ total' \in {total, total + Delta(c)}
    /\ Goto(c, "over")
    /\ UNCHANGED <<spent, reserved, charge, billed>>

SettleTotalRepeats(c) ==
    /\ pc[c] = "settle" /\ Repeats
    /\ total' = total + 2 * Delta(c)
    /\ Goto(c, "settleUser")
    /\ UNCHANGED <<spent, reserved, charge, billed>>

SettleUser(c) ==
    /\ pc[c] = "settleUser"
    /\ Spend(c, Delta(c))
    /\ Goto(c, "over")
    /\ UNCHANGED <<total, reserved, charge, billed, faultVars>>

SettleUserRaises(c) ==
    /\ pc[c] = "settleUser" /\ Raises
    /\ Spend(c, 0) \/ Spend(c, Delta(c))
    /\ Goto(c, "over")
    /\ UNCHANGED <<total, reserved, charge, billed>>

SettleUserRepeats(c) ==
    /\ pc[c] = "settleUser" /\ Repeats
    /\ Spend(c, 2 * Delta(c))
    /\ Goto(c, "over")
    /\ UNCHANGED <<total, reserved, charge, billed>>

(* The process ends: the reservations of its calls stay, and the provider   *)
(* bills what it was asked for.                                             *)
Dies ==
    /\ Raises
    /\ \E bill \in [{c \in Paid : pc[c] = "run"} -> 0..Est] :
         billed' = [c \in Paid |-> IF c \in DOMAIN bill THEN bill[c] ELSE billed[c]]
    /\ pc' = [c \in Paid |-> IF pc[c] = "reserve" THEN "reserve" ELSE "over"]
    /\ UNCHANGED <<rows, reserved, charge>>

-----------------------------------------------------------------------------
Begin(c) == ReserveTotal(c) \/ ReserveTotalRaises(c) \/ ReserveTotalRepeats(c)

Proceed(c) ==
    \/ ReserveUser(c) \/ Rollback(c) \/ Run(c) \/ SettleTotal(c) \/ SettleUser(c)

Misfortune(c) ==
    \/ ReserveUserRaises(c) \/ ReserveUserRepeats(c) \/ RollbackRaises(c) \/ RollbackRepeats(c)
    \/ SettleTotalRaises(c) \/ SettleTotalRepeats(c) \/ SettleUserRaises(c) \/ SettleUserRepeats(c)
-----------------------------------------------------------------------------
LedgerTypeOK ==
    /\ total \in Int /\ spent \in [Users -> Int]
    /\ pc \in [Paid -> {"reserve", "reserveUser", "denied", "rollback", "run", "settle", "settleUser", "over"}]
    /\ reserved \subseteq Paid
    /\ charge \in [Paid -> 0..Est] /\ billed \in [Paid -> 0..Est]
    /\ repeated \in Nat /\ failed \in Nat /\ repeated + failed <= MaxFaults

BillOf(calls) == SumFunctionOnSet(billed, calls)
ChargeOf(calls) == SumFunctionOnSet(charge, calls)
CallsOf(u) == {c \in Paid : UserOf[c] = u}

(* The budget is never exceeded by calls that insist on a reservation: not  *)
(* by several at once, not when calls of the table fail, not after a        *)
(* process died, and not because other calls are made without one.  Every   *)
(* addition that the client repeats costs one estimate at most.             *)
WithinBudget ==
    /\ BillOf(Strict) <= Limit + Est * repeated
    /\ \A u \in Users : BillOf(Strict \cap CallsOf(u)) <= UserLimit + Est * repeated

(* Both kinds of rows hold what was settled and nothing else.               *)
RowsHoldSettled ==
    /\ total = ChargeOf(Paid)
    /\ \A u \in Users : spent[u] = ChargeOf(CallsOf(u))

(* No reservation outlives its call: when no thread is at work, and if      *)
(* nothing failed, the rows hold what was settled, also when users were     *)
(* refused after the provider's row was reserved.                           *)
NoPhantom ==
    (repeated + failed = 0 /\ \A c \in Paid : pc[c] \in {"reserve", "over"}) =>
        RowsHoldSettled
=============================================================================
