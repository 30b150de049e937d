----------------------------- MODULE PublishPath -----------------------------
(***************************************************************************)
(* The way of a publish: Admission up to and after the channel, and the pool *)
(* that hands the channel out.  The two meet in acquire alone, which         *)
(* Admission takes to succeed or fail whenever it likes and PublisherPool    *)
(* takes to be called whenever it likes, so neither restrains the other and  *)
(* a behaviour follows one of them.                                          *)
(***************************************************************************)
EXTENDS PublisherPool, Admission

CONSTANT Watched   \* callers whose waits are looked at; callers are alike

VARIABLE focus   \* "pool" or "admission"

pathVars == <<focus, vars, frontVars>>

PathInit == focus \in {"pool", "admission"} /\ Init /\ AdmissionInit
            /\ (focus = "pool" => ~limited)

PathNext ==
  \/ focus = "pool" /\ Next /\ UNCHANGED <<focus, frontVars>>
  \/ focus = "admission" /\ AdmissionNext /\ UNCHANGED <<focus, vars>>

PathSpec == PathInit /\ [][PathNext]_pathVars /\ PoolFairness
            /\ \A p \in Watched : AdmissionFairness(p)

=============================================================================
