---------------------------- MODULE MCLifecycle -----------------------------
(* Values of the constants of Lifecycle for TLC. *)
EXTENDS Lifecycle

Tool(name, writes, schema) == [name |-> name, writes |-> writes, schema |-> schema]

Analysis ==
    [name  |-> "resume-tools",
     tools |-> << [name |-> <<"case", "read">>, readOnly |-> TRUE, writes |-> FALSE,
                   schema |-> "compiles", visibility |-> "", version |-> "5"] >>]

X == Tool("x", FALSE, "compiles")
Y == Tool("y", FALSE, "compiles")
SomePages == {{}, {X}, {Y}, {Tool("x", TRUE, "compiles")}, {Tool("x", FALSE, "broken"), Y}}

Server(name, valid, allow, visibility) ==
    [name |-> name, valid |-> valid, allow |-> allow, visibility |-> visibility]
OnlyX == Server("s1", TRUE, <<"x">>, "agent")
Both == Server("s2", TRUE, <<"y", "x">>, "")
Hidden == Server("s2", TRUE, <<"x">>, "internal")

SomeConfigs ==
    {<<OnlyX, Hidden>>, <<Both>>, <<OnlyX, OnlyX>>,
     <<OnlyX, Server("s2", FALSE, <<"x">>, "")>>, <<OnlyX, Server("s2", TRUE, <<"x", "x">>, "")>>,
     <<OnlyX, Server("s2", TRUE, <<"*">>, "")>>}


=============================================================================
