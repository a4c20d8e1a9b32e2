---------------------------- MODULE OneActiveRun ----------------------------
(***************************************************************************)
(* What the run rows of a source promise: one slot, held by at most one    *)
(* run.  A run takes the free slot as "queued" and turns "running"; a run  *)
(* that was closed before it began may only come back while the slot is    *)
(* free.  The slot never passes from one run to another in one step.       *)
(***************************************************************************)
CONSTANTS Runs, Free
VARIABLE slot

Init == slot = Free

Admit(r) == slot = Free /\ slot' = <<r, "queued">>
Begin(r) == slot \in {Free, <<r, "queued">>} /\ slot' = <<r, "running">>
Release == slot' = Free

Next == Release \/ \E r \in Runs : Admit(r) \/ Begin(r)
Spec == Init /\ [][Next]_slot
=============================================================================
