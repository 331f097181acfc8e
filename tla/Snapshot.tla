------------------------------ MODULE Snapshot ------------------------------
(***************************************************************************)
(* The host memory on a viewer's snapshots: handleMeshStream's pushSnapshot  *)
(* takes the exact figure each second and publishes a coarse one, so that a  *)
(* snapshot is sent again only when something moved.                         *)
(***************************************************************************)
EXTENDS Integers

CONSTANTS
    HostMemTotal,    \* of this host, in MB; 0 when it cannot be read
    HostMemBuckets   \* 64 in the code

ASSUME HostMemAssumption == HostMemTotal \in Nat /\ HostMemBuckets \in Nat \ {0}

VARIABLE lastMem     \* the figure last published to this viewer, 0 before

Step == HostMemTotal \div HostMemBuckets
Used == 0 .. HostMemTotal
Apart(a, b) == IF a < b THEN b - a ELSE a - b

CoarsenHostMem_NoDeadband(prev, used) ==
    IF Step <= 0 THEN used ELSE (used \div Step) * Step

CoarsenHostMem_WideBand(prev, used) ==
    IF Step <= 0 THEN used
    ELSE IF prev # 0 /\ Apart(used, prev) <= Step THEN prev
    ELSE (used \div Step) * Step

(* HostMemTotal is zero when there is no reading, and then so is Step.      *)
CoarsenHostMem(prev, used) ==
    IF Step <= 0 THEN used
    ELSE IF prev # 0 /\ Apart(used, prev) < Step THEN prev
    ELSE (used \div Step) * Step

MemInit == lastMem = 0

PushSnapshot(used) == lastMem' = CoarsenHostMem(lastMem, used)

SnapshotNext == \E used \in Used : PushSnapshot(used)

SnapshotSpec == MemInit /\ [][SnapshotNext]_lastMem

-----------------------------------------------------------------------------
(* A published figure is less than a step away from the reading, whatever   *)
(* was published before: it holds "until the reading has drifted a full     *)
(* step away" (meshactivity.go:28-33) and no longer.                        *)
HostMemIsClose ==
    \A used \in Used : LET shown == CoarsenHostMem(lastMem, used)
                       IN  shown = used \/ Apart(shown, used) < Step

(* Noise soon stops pushing: among readings that stay within less than a    *)
(* step of one another, wherever they lie to the bucket boundaries, the     *)
(* published figure changes at most twice after the first of them.  (Twice: *)
(* a figure that is given up for a lower one lands on a boundary below the  *)
(* reading, and the next reading may be a step above that.)                 *)
Near(a) == {b \in Used : Apart(a, b) < Step}

NoiseSettles ==
    \A a \in Used : \A b \in Near(a) : \A c \in Near(a) \cap Near(b) :
    \A d \in Near(a) \cap Near(b) \cap Near(c) :
        LET first  == CoarsenHostMem(lastMem, a)
            second == CoarsenHostMem(first, b)
            third  == CoarsenHostMem(second, c)
        IN  second # first /\ third # second => CoarsenHostMem(third, d) = third
=============================================================================
