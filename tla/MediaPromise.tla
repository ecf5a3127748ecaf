----------------------------- MODULE MediaPromise -----------------------------
(***************************************************************************)
(* What a media job promises to the one who asked for it, without tables,  *)
(* objects or functions: it is worked on once at most, it has one outcome  *)
(* that nothing changes, a success is the work of a task, and after it was *)
(* forgotten it is not begun again.                                        *)
(***************************************************************************)
CONSTANTS Causes,  \* what an end can say of itself
          Unknown  \* what is said before

VARIABLES outcome, launched
vars == <<outcome, launched>>

Stage(kind) == [kind |-> kind, cause |-> Unknown]
Over == outcome.kind \in {"done", "failed"}

Init == outcome = Stage("none") /\ launched = FALSE

Accept == outcome = Stage("none") /\ outcome' = Stage("open") /\ UNCHANGED launched
Launch == ~launched /\ outcome # Stage("none") /\ launched' = TRUE /\ UNCHANGED outcome
Succeed ==
    /\ outcome = Stage("open") /\ launched
    /\ outcome' \in [kind : {"done"}, cause : Causes]
    /\ UNCHANGED launched
Fail ==
    /\ outcome = Stage("open")
    /\ outcome' \in [kind : {"failed"}, cause : Causes]
    /\ UNCHANGED launched
(* Nobody ended it, and it is forgotten all the same.                       *)
Lapse == outcome = Stage("open") /\ outcome' = Stage("gone") /\ UNCHANGED launched
Forget == (Over \/ outcome = Stage("none")) /\ outcome' = Stage("gone") /\ UNCHANGED launched

Next == Accept \/ Launch \/ Succeed \/ Fail \/ Lapse \/ Forget
Spec == Init /\ [][Next]_vars
=============================================================================
