--------------------------- MODULE CommandJournal ---------------------------
(***************************************************************************)
(* The durable command journal of the Gateway, SqliteMlp3CommandJournal.   *)
(* One row per command identity; every method runs in one serial section   *)
(* and commits one SQLite statement, so a method is one operator on a row. *)
(*                                                                         *)
(* A terminal result is named by the stage its event is built for: the     *)
(* logical event ID is a digest of the command and the stage, and          *)
(* "completed" and "cancelled" are both the outcome `succeeded'.           *)
(***************************************************************************)

Terms == {"completed", "cancelled", "failed", "rejected", "interrupted"}

Statuses == {"none", "accepted", "dispatched", "terminal"}

\* delivered is the terminal event whose Matrix event ID confirmed the row.
Row == [status: Statuses, term: Terms \cup {"none"}, delivered: Terms \cup {"none"}]

NoRow == [status |-> "none", term |-> "none", delivered |-> "none"]

\* The outcome a terminal stage stands for.
Succeeded(row) == row.term \in {"completed", "cancelled"}

\* claim(): inserts an absent row, returns an existing one as a duplicate.
Claimed(row) ==
    IF row.status = "none" THEN [row EXCEPT !.status = "accepted"] ELSE row

\* Mutant: a dispatch is recorded under a status the schema does not know.
MarkedExecuting(row) ==
    IF row.status = "accepted" THEN [row EXCEPT !.status = "executing"] ELSE row

\* markDispatched(): silently keeps a row that is already past `accepted'.
MarkedDispatched(row) ==
    IF row.status = "accepted" THEN [row EXCEPT !.status = "dispatched"] ELSE row

(***************************************************************************)
(* settle() throws when an undelivered terminal differs from the new one.  *)
(* The comparison covers the whole event, its timestamp included: two      *)
(* results of the same stage are equal only when sameInstant holds.        *)
(***************************************************************************)
SettleThrows(row, term, sameInstant) ==
    /\ row.status = "terminal"
    /\ row.delivered = "none"
    /\ ~(row.term = term /\ sameInstant)

\* Mutant: the last terminal of a row wins.
SettledLast(row, term) == [row EXCEPT !.status = "terminal", !.term = term]

\* settle(): the first terminal of a row is the only one it ever stores.
Settled(row, term) ==
    IF row.status = "terminal" THEN row
    ELSE [row EXCEPT !.status = "terminal", !.term = term]

\* markTerminalDelivered() throws when another event confirmed the row.
DeliveredThrows(row, term) ==
    row.status # "terminal" \/ row.delivered \notin {"none", term}

MarkedDelivered(row, term) == [row EXCEPT !.delivered = term]

\* unfinished(): the rows a restarted Gateway has to recover.
Unfinished(row) == row.status \in {"accepted", "dispatched"}

\* pendingTerminalDeliveries(): terminal rows no Matrix event has confirmed.
PendingDelivery(row) == row.status = "terminal" /\ row.delivered = "none"
=============================================================================
