----------------------------- MODULE MCGateway -----------------------------
(* Values of the constants of Gateway for TLC. *)
EXTENDS Gateway

\* A request in order, one without a task id, or one frozen for another instance.
FewForms == {"none", "blank_task_id", "pin"}

\* Keys are alike, and so are payloads: one caller is given a fixed request.
GivenInit ==
    /\ GatewayInit
    /\ LET c == CHOOSE c \in Callers : TRUE
       IN  req[c] = [key |-> CHOOSE k \in Keys : TRUE, hash |-> CHOOSE h \in Hashes : TRUE]

GivenFairSpec == GivenInit /\ [][GatewayNext]_gatewayVars /\ GatewayFairness
=============================================================================
