-------------------------- MODULE MCRuntimeUpdate --------------------------
(***************************************************************************)
(* Two configurations that differ in every part but the access control,    *)
(* and a third that differs in the channel only.                           *)
(***************************************************************************)
EXTENDS RuntimeUpdate, TLC

CONSTANTS p1, p2, k1, k2

First == [model |-> "m1", matrix |-> "x1", acl |-> "listed", pkg |-> p1,
          mcp |-> k1 :> "v1" @@ k2 :> None, inline |-> "i1"]
Second == [model |-> "m2", matrix |-> "x2", acl |-> "listed", pkg |-> p2,
           mcp |-> k1 :> "v2" @@ k2 :> "v1", inline |-> None]
Third == [First EXCEPT !.matrix = "x3", !.acl = None]
SomeConfigs == {First, Second, Third}
=============================================================================
