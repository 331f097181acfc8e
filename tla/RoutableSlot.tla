---------------------------- MODULE RoutableSlot ----------------------------
(***************************************************************************)
(* What the supervision of a backend promises to the rest of the node,      *)
(* without its goroutines, probes, latches and retries.  A slot is one GPU; *)
(* its holder is the generation of the engine that runs on it.              *)
(*                                                                          *)
(*   - a holder is installed only on a free slot that no traffic is routed  *)
(*     to, is a generation never used before, and is one of Budget + 1;     *)
(*   - a slot is made routable only while its present holder has answered   *)
(*     as ready, and is released only when it is not routable.              *)
(*                                                                          *)
(* Once the node closes a slot, to shut down, only the budget is promised.  *)
(***************************************************************************)
EXTENDS Naturals

CONSTANTS
    Slots,
    Budget      \* how often a slot's holder may be replaced, a natural number

VARIABLES
    routable,   \* traffic may be routed to the slot
    holder,     \* the generation that holds it, Free for none
    used,       \* the generations that ever held it
    answered,   \* the last generation that answered as ready
    closed      \* the node has begun to shut the slot down

vars == <<routable, holder, used, answered, closed>>

Generations == 1 .. (Budget + 1)
Free == 0

Init ==
    /\ routable = [s \in Slots |-> FALSE]
    /\ holder \in [Slots -> {Free, 1}]
    /\ used = [s \in Slots |-> {holder[s]} \ {Free}]
    /\ answered = [s \in Slots |-> Free]
    /\ closed = [s \in Slots |-> FALSE]

Install(s, g) ==
    /\ holder[s] = Free /\ ~routable[s] /\ g \notin used[s]
    /\ holder' = [holder EXCEPT ![s] = g]
    /\ used' = [used EXCEPT ![s] = @ \cup {g}]
    /\ UNCHANGED <<routable, answered, closed>>

Release(s) ==
    /\ ~routable[s]
    /\ holder' = [holder EXCEPT ![s] = Free]
    /\ UNCHANGED <<routable, used, answered, closed>>

Answer(s) ==
    /\ holder[s] # Free
    /\ answered' = [answered EXCEPT ![s] = holder[s]]
    /\ UNCHANGED <<routable, holder, used, closed>>

Admit(s) ==
    /\ holder[s] # Free /\ answered[s] = holder[s]
    /\ routable' = [routable EXCEPT ![s] = TRUE]
    /\ UNCHANGED <<holder, used, answered, closed>>

Withdraw(s) ==
    /\ routable' = [routable EXCEPT ![s] = FALSE]
    /\ UNCHANGED <<holder, used, answered, closed>>

Close(s) ==
    /\ closed' = [closed EXCEPT ![s] = TRUE]
    /\ holder' = [holder EXCEPT ![s] = Free]
    /\ UNCHANGED <<routable, used, answered>>

ClosedStep(s) ==
    /\ \E r \in BOOLEAN : routable' = [routable EXCEPT ![s] = r]
    /\ \E h \in Generations \cup {Free} : holder' = [holder EXCEPT ![s] = h]
    /\ \E a \in Generations \cup {Free} : answered' = [answered EXCEPT ![s] = a]
    /\ \E G \in SUBSET Generations : used' = [used EXCEPT ![s] = G]
    /\ closed' = closed

Next ==
    \E s \in Slots :
        \/ ~closed[s] /\ (\/ \E g \in Generations : Install(s, g)
                          \/ Release(s) \/ Answer(s) \/ Admit(s)
                          \/ Withdraw(s) \/ Close(s))
        \/ closed[s] /\ ClosedStep(s)

Spec == Init /\ [][Next]_vars
=============================================================================
