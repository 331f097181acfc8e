--------------------------- MODULE SupervisorSlot ---------------------------
(* Supervisor as an implementation of RoutableSlot.                         *)
EXTENDS Supervisor

routable == [b \in Backends |-> status[b] = "healthy"]
used == [b \in Backends |-> {g \in Gens : Spawned(b, g)}]
closed == [b \in Backends |-> spc[b] # "idle"]

Slot == INSTANCE RoutableSlot
            WITH Slots <- Backends, Budget <- MaxRespawns, holder <- cmd,
                 answered <- seenReady

(* The goroutines, their atomics and the requests that report failures      *)
(* together keep the promise of RoutableSlot.                               *)
SlotSpec == Slot!Spec
=============================================================================
