---------------------------- MODULE MCSupervisor ----------------------------
(* Instances of Supervisor for TLC.  The configurations differ in the       *)
(* number of backends, in the budgets, and in whether proxied requests      *)
(* report hard failures.                                                    *)
EXTENDS SupervisorSlot
=============================================================================
