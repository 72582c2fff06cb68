--------------------------- MODULE MCMatrixOutbox ---------------------------
(***************************************************************************)
(* One room with two versions of a session's projection and a command's    *)
(* result; a second room with the workspace snapshot of its project, whose *)
(* key both rooms share when the first has one too.                        *)
(***************************************************************************)
EXTENDS MatrixOutbox

CONSTANTS roomA, roomB, old, new, result, pointer1, pointer2, wsA, wsB, Restaged

MCRoom == [d \in Deliveries |-> IF d \in {wsB, pointer1, pointer2} THEN roomB ELSE roomA]
MCKind == [d \in Deliveries |-> IF d \in {pointer1, pointer2} THEN "state" ELSE "event"]
MCKey == [d \in Deliveries |->
    CASE d \in {old, new} -> "session" [] d \in {wsA, wsB} -> "workspace"
      [] d \in {pointer1, pointer2} -> "pointer" [] OTHER -> NoKey]
MCVersion == [d \in Deliveries |-> IF d \in {new, wsB} THEN 2 ELSE 1]
MCPriority == [d \in Deliveries |-> IF d \in {wsA, wsB} THEN 1 ELSE 0]
MCCalls == [d \in Deliveries |-> IF d \in Restaged THEN 2 ELSE 1]
=============================================================================
