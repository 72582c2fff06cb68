---------------------------- MODULE DurableOutbox ----------------------------
(***************************************************************************)
(* What the Matrix outbox promises the code that stages events in it: the  *)
(* assumption under which CommandPipeline uses it.  Nothing is published   *)
(* before it is accepted.  An accepted entry is held until it is recorded  *)
(* as sent, which it then was, until a newer version of the same document  *)
(* of the same room is offered, or until the homeserver refuses it.        *)
(* Settled entries stay settled.  A crash is a stuttering step.            *)
(***************************************************************************)
CONSTANTS Deliveries,      \* what may be staged
          Refusable,       \* what the homeserver may refuse for good
          Replaces(_, _)   \* Replaces(e, d): e is a newer version of d

VARIABLES offered,         \* given to the outbox by a caller
          held,            \* accepted, not yet settled
          recorded,        \* settled as delivered
          dropped,         \* settled as superseded or refused
          published        \* what the room has

outboxVars == <<offered, held, recorded, dropped, published>>

Accepted == held \cup recorded \cup dropped

Init == /\ offered = {} /\ held = {} /\ recorded = {}
        /\ dropped = {} /\ published = {}

Offer(d) ==
    /\ offered' = offered \cup {d}
    /\ UNCHANGED <<held, recorded, dropped, published>>

Accept(d) ==
    /\ d \in offered \ Accepted
    /\ held' = held \cup {d}
    /\ UNCHANGED <<offered, recorded, dropped, published>>

Publish(d) ==
    /\ d \in Accepted
    /\ published' = published \cup {d}
    /\ UNCHANGED <<offered, held, recorded, dropped>>

Record(d) ==
    /\ d \in held \cap published
    /\ held' = held \ {d} /\ recorded' = recorded \cup {d}
    /\ UNCHANGED <<offered, dropped, published>>

Replace(D) ==
    /\ D \subseteq held
    /\ \A d \in D : \E e \in offered : Replaces(e, d)
    /\ held' = held \ D /\ dropped' = dropped \cup D
    /\ UNCHANGED <<offered, recorded, published>>

Refuse(d) ==
    /\ d \in held \cap Refusable
    /\ held' = held \ {d} /\ dropped' = dropped \cup {d}
    /\ UNCHANGED <<offered, recorded, published>>

Next ==
    \/ \E d \in Deliveries : Offer(d) \/ Accept(d) \/ Publish(d) \/ Record(d) \/ Refuse(d)
    \/ \E D \in SUBSET Deliveries : Replace(D)

Spec == Init /\ [][Next]_outboxVars
=============================================================================
