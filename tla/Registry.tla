------------------------------ MODULE Registry ------------------------------
(***************************************************************************)
(* internal/tools/registry.go: the tools of several providers under one    *)
(* set of names.  A provider is its name and the definitions it brings;    *)
(* a definition is [name, readOnly, schema, visibility, version], where    *)
(* schema tells whether it can be compiled.  Descriptions are left out.    *)
(***************************************************************************)
EXTENDS Integers, Sequences, SequencesExt

NewRegistry == [definitions |-> <<>>, offered |-> {}, frozen |-> FALSE, failed |-> FALSE]

\* The places of the tools: <<provider, number>>.
Places(providers) == UNION {{p} \X DOMAIN providers[p].tools : p \in DOMAIN providers}
ToolAt(providers, place) == providers[place[1]].tools[place[2]]

\* No provider in the row is refused: every tool reads only, has a schema that can
\* be compiled, and a name no other tool has, of its own provider or an earlier one.
AllRegister(providers) ==
    \A place \in Places(providers) :
        /\ ToolAt(providers, place).readOnly
        /\ ToolAt(providers, place).schema = "compiles"
        /\ \A other \in Places(providers) :
              ToolAt(providers, other).name = ToolAt(providers, place).name => other = place

\* Every tool under its name, with its provider.
Definitions(providers) ==
    [name \in {ToolAt(providers, place).name : place \in Places(providers)} |->
        LET place == CHOOSE place \in Places(providers) : ToolAt(providers, place).name = name
        IN  [tool |-> ToolAt(providers, place), provider |-> providers[place[1]].name]]

\* What the model is told of.
Offered(providers) ==
    {ToolAt(providers, place).name :
        place \in {p \in Places(providers) : ToolAt(providers, p).visibility # "internal"}}

\* All providers or, after the first refusal, none.
NewProviders(providers) ==
    IF AllRegister(providers)
    THEN [definitions |-> Definitions(providers), offered |-> Offered(providers),
          frozen |-> TRUE, failed |-> FALSE]
    ELSE [NewRegistry EXCEPT !.failed = TRUE]

\* A digest of all definitions, internal ones included: equal for equal sets only.
Fingerprint(r) == r.definitions

\* What a call of the model may reach.
Reachable(r, name) ==
    r.frozen /\ name \in DOMAIN r.definitions /\ r.definitions[name].tool.visibility # "internal"
=============================================================================
