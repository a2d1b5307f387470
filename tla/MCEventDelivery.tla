--------------------------- MODULE MCEventDelivery ---------------------------
(***************************************************************************)
(* Small instances of EventDelivery.                                       *)
(***************************************************************************)
EXTENDS EventDelivery

CONSTANTS order, any, audit, mail

MCMaxAttempts == [e \in Events |-> 2]
MCTypeOf      == [e \in Events |-> order]
MCNow         == {0}

\* Two consumers, one of them subscribed to the type and to every type.
MCTwoConsumers ==
    {[type |-> order, code |-> mail], [type |-> any, code |-> audit],
     [type |-> order, code |-> audit]}
=============================================================================
