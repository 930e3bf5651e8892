--------------------------- MODULE MCDecisionGate ---------------------------
EXTENDS DecisionGate

CONSTANTS w, l, h, s

Team == {w, l, h, s}
TeamRole == [m \in Team |-> CASE m = w -> "worker" [] m = l -> "leader" [] OTHER -> "human"]

(* s is the human whose remote member w carries the same account *)
TeamAccount == [m \in Team |-> IF m = s THEN w ELSE m]
TeamTools == [m \in Team |-> CASE m = w -> {"approval", "decision", "submit"}
                               [] m = l -> {"review", "accept"}
                               [] OTHER -> {"resolve"}]
TwoKinds == {"approval", "decision"}
=============================================================================
