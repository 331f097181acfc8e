------------------------------- MODULE MCHost -------------------------------
(* Instances of Host for TLC: files and command lines that leave things out, *)
(* move a node, disable its mesh page, or collide.                           *)
EXTENDS Host

CONSTANTS m1, m2

Minimal == [model |-> m1, port |-> 0, mesh |-> 0, base |-> 0, devices |-> <<0>>,
            slots |-> 0, ceiling |-> 0]

HostFiles ==
    {Minimal,
     [Minimal EXCEPT !.model = m2, !.port = 4, !.base = 8, !.devices = <<1, 2>>],
     [Minimal EXCEPT !.base = DefaultPort],
     [Minimal EXCEPT !.devices = <<1, 1>>]}

HostOverrides ==
    {<<>>, [mesh |-> 0], [port |-> DefaultMeshPort], [base |-> DefaultPort]}
=============================================================================
