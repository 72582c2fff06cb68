------------------------- MODULE MCCommandPipeline -------------------------
(***************************************************************************)
(* Small instances of CommandPipeline.  Each run picks the commands whose  *)
(* interplay it is about; session is the one session of the project.       *)
(***************************************************************************)
EXTENDS CommandPipeline

CONSTANTS cmdPrompt, cmdCancel, cmdLifecycle, cmdBatch, cmdDelete, cmdFirst,
          cmdSecond, Resent

MCOp == [c \in Commands |->
    CASE c = cmdPrompt    -> "prompt"
      [] c = cmdCancel    -> "cancel"
      [] c = cmdLifecycle -> "lifecycle"
      [] c = cmdBatch     -> "batch"
      [] c = cmdDelete    -> "delete"
      [] OTHER            -> "control"]

MCKeys == {"session", "batch", "delete"}

MCKey == [c \in Commands |->
    CASE c = cmdBatch -> "batch" [] c = cmdDelete -> "delete" [] OTHER -> "session"]

MCDeliveries == [c \in Commands |-> IF c \in Resent THEN 2 ELSE 1]

\* One task per delivery and per recovered command.
MCTaskIds == 1..(2 * Cardinality(Commands) + Cardinality(Resent))

MCTarget == [c \in Commands |->
    IF c = cmdCancel /\ cmdPrompt \in Commands THEN cmdPrompt ELSE c]
=============================================================================
