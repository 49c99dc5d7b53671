------------------------------- MODULE Gateway -------------------------------
(***************************************************************************)
(* internal/server: POST /v2/tasks/execute, in front of the store of       *)
(* SessionStore.  A request is checked by the handler (internal/server)    *)
(* and by the service (internal/protocol, internal/runtime); what passes   *)
(* all checks becomes a caller of the store.  A request that is refused    *)
(* never reaches it.                                                       *)
(***************************************************************************)
EXTENDS SessionStore

CONSTANT Forms  \* what may be wrong with a request, see Oddities

\* Members with a default: protocol_version, task_kind, the two versions of the
\* pin, and the budget (its members as well).
Defaulted == {"version", "kind", "pin_version", "result_version", "budget"}

\* What is wrong with a request, or the one member that was left out.  A blank key
\* or task id is one of white space: the schema asks for one character.  A pin
\* field is blank in the same way, or is a pin_id, which the schema does not bound,
\* of more than 128 bytes.  An undecodable request has a number such as 1.0, an
\* integer of the schema that no integer of Go decodes.
Oddities ==
    {"none", "token", "too_large", "not_json", "other_version", "contract", "scope", "reference",
     "undecodable", "blank_task_id", "blank_key", "pin_field", "pin"}
        \cup Defaulted

ASSUME FormsAssumption == Forms \subseteq Oddities

VARIABLES
    form,     \* caller -> what is wrong with its request
    refused   \* the callers whose request was refused before the store

gatewayVars == <<vars, form, refused>>

GatewayInit ==
    /\ Init
    /\ form \in [Callers -> Forms]
    /\ refused = {}

-----------------------------------------------------------------------------
(* Admission, in the order of the code *)

Admitted == <<0, "admitted">>

\* TaskInput and TaskEnvelopeV1.Validate: a member that was left out has its zero
\* value.  The text of the error decides the code.  A blank task_id and a blank key
\* share one text, which names the key; that of the budget names a budget.  The
\* contract refuses an empty or missing reference and a scope without its one post
\* before they get here.
EnvelopeRefusal(c) ==
    CASE form[c] \in {"blank_task_id", "blank_key"} -> <<409, "idempotency_conflict">>
      [] form[c] \in {"kind", "result_version", "pin_field", "scope", "reference"}
                                -> <<422, "agent_invalid_output">>
      [] form[c] = "budget"     -> <<422, "agent_budget_exhausted">>
      [] OTHER                  -> Admitted

\* Mutant: the pin is compared by the run, behind the store.
PinRefusalInside(c) == Admitted

\* Another build, toolset or set of instructions than those of this instance.
PinRefusal(c) ==
    IF form[c] = "pin" THEN <<409, "kernel_version_unavailable">> ELSE Admitted

Refusal(c) ==
    CASE form[c] = "token"     -> <<401, "kernel_unauthorized">>
      [] form[c] = "too_large" -> <<413, "request_too_large">>
      [] form[c] = "not_json"  -> <<400, "invalid_envelope">>
      [] form[c] \in {"other_version", "version", "pin_version"}
                               -> <<409, "agent_protocol_incompatible">>
      [] form[c] \in {"contract", "scope", "reference"}
                               -> <<422, "invalid_envelope">>
      [] form[c] = "undecodable" -> <<400, "invalid_envelope">>
      [] OTHER -> IF EnvelopeRefusal(c) # Admitted THEN EnvelopeRefusal(c) ELSE PinRefusal(c)

Refuse(c) ==
    /\ c \notin refused /\ Refusal(c) # Admitted
    /\ refused' = refused \cup {c}
    /\ UNCHANGED <<vars, form>>

\* The handler's goroutine inside the store.
InStore(c) ==
    /\ Refusal(c) = Admitted
    /\ Step(c) \/ ContextEnds(c)
    /\ UNCHANGED <<form, refused>>

Clock == Tick /\ UNCHANGED <<form, refused>>

GatewayNext == Clock \/ \E c \in Callers : Refuse(c) \/ InStore(c)

GatewaySpec == GatewayInit /\ [][GatewayNext]_gatewayVars

\* As in SessionStore: runs end, and a goroutine whose channel is ready goes on.
GatewayFairness ==
    \A c \in Callers :
        /\ WF_gatewayVars(InStore(c) /\ RunEnds(c))
        /\ WF_gatewayVars(InStore(c) /\ FollowerServed(c))

FairGatewaySpec == GatewaySpec /\ GatewayFairness

-----------------------------------------------------------------------------
(* The answer on the wire *)

\* safeError: codes are chosen by words in the text of an error.  A full store
\* and a run that panicked have none of them; a FAILED analysis is a result.
\* The context of a request has no deadline: a follower's ends by cancellation.
StatusOf(a) ==
    CASE a \in {"DONE", "FAILED", "CANCELLED"} -> <<200, a>>
      [] a = "conflict"                        -> <<409, "idempotency_conflict">>
      [] a = "context"                         -> <<408, "agent_cancelled">>
      [] a \in {"capacity", "PANIC"}           -> <<422, "agent_invalid_output">>

NoReply == <<0, "none">>

Reply(c) ==
    IF c \in refused THEN Refusal(c)
    ELSE IF pc[c] = "returned" THEN StatusOf(answer[c])
    ELSE NoReply

-----------------------------------------------------------------------------
(* Properties *)

\* A key is only used up by a run.  A request refused for its token, its form, its
\* version or its pin, or because the store was full, can be corrected and sent
\* again with the same key.  It meets a conflict only if a well-formed request with
\* another payload was executed under the key, or if its own key or task id is
\* blank: the one error for both speaks of the key and is answered as a conflict,
\* although nothing was executed (server.go:103-107; protocol/tasks.go:97-98;
\* runtime/tasks.go:42-56).
ConflictHasACause ==
    \A c \in Callers :
        Reply(c) = <<409, "idempotency_conflict">> =>
            \/ form[c] \in {"blank_task_id", "blank_key"}
            \/ \E d \in Callers :
                  /\ Leads(d) /\ form[d] = "none"
                  /\ req[d].key = req[c].key /\ req[d].hash # req[c].hash

\* What the published schema allows a client to leave out may be left out: it
\* gives defaults to protocol_version, task_kind, the versions of the pin and
\* every member of the budget, and a request without them is answered as one with
\* them (contract/bundle/request.schema.json:303-331, 375-381, 423-438).
DefaultsMayBeOmitted ==
    \A c \in Callers : form[c] \in Defaulted => c \notin refused
=============================================================================
