---------------------------- MODULE MCEventLive ----------------------------
(***************************************************************************)
(* The liveness of the outbox and of ConsumeOnce, each on its own: the two *)
(* parts share no variable, and each has its own fairness.                 *)
(***************************************************************************)
EXTENDS MCOutbox, Consumption

VARIABLE part

all == <<part, vars, consumption>>

OutboxPart == part = "outbox" /\ UNCHANGED <<part, consumption>>

ConsumptionPart == part = "consumption" /\ UNCHANGED <<part, vars>>

LiveInit == part \in {"outbox", "consumption"} /\ Init /\ ConsumptionInit

LiveNext == (OutboxPart /\ Next) \/ (ConsumptionPart /\ ConsumptionNext)

LiveSpec ==
    /\ LiveInit /\ [][LiveNext]_all
    /\ WF_all(OutboxPart /\ Tick)
    /\ \A d \in Dispatchers : WF_all(OutboxPart /\ (Dispatch(d) \/ Publisher(d)))
    /\ \A c \in Callers : WF_all(ConsumptionPart /\ Step(c))
=============================================================================
