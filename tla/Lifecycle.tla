------------------------------ MODULE Lifecycle ------------------------------
(***************************************************************************)
(* The life of one agent-kernel process and of the instances after it:     *)
(* cmd/agent-kernel/main.go with the loading of the MCP servers            *)
(* (internal/tools/mcp.go), the registry frozen at startup and the tasks   *)
(* it admits (internal/runtime).  Servers are connected one by one; the    *)
(* process may be told to stop, exit or crash, and is started again, with  *)
(* another configuration and servers that advertise other tools.           *)
(***************************************************************************)
EXTENDS Registry, FiniteSets

CONSTANTS
    Configs,     \* configurations: sequences of [name, valid, allow, visibility]
    Pages,       \* pages a server may answer tools/list with: sets of tools
                 \* [name, writes, schema], at most one tool of a name
    Versions,    \* versions a server may report
    BuiltIn,     \* the provider of the analysis tools
    Tasks,
    Unpublished  \* a toolset version no instance ever had

\* The configuration is a list of servers (MCPConfig, mcp.go:33-51).
ASSUME ConfigsAssumption ==
    Configs \subseteq Seq([name : STRING, valid : BOOLEAN, allow : Seq(STRING), visibility : STRING])

VARIABLES
    phase,       \* "starting", "checking", "connecting", "listing", "registering",
                 \* "frozen", "serving", "draining", "closing", "exiting" or "down"
    config,
    server,      \* the server being loaded
    open,        \* the servers with an open session
    discovered,  \* what the server has listed so far, by name
    providers,   \* the providers loaded so far
    registry,    \* the registry frozen at startup
    late,        \* the ten seconds of the shutdown are over
    exit,        \* how the last instance ended
    published,   \* toolset versions clients have seen
    tasks        \* of every task: its state, its pin and the tools it runs with

vars == <<phase, config, server, open, discovered, providers, registry, late, exit,
          published, tasks>>

process == <<phase, config, server, open, discovered, providers, registry, late, exit>>

NoTools == <<>>

Init ==
    /\ phase = "starting"
    /\ config = <<>> /\ server = 1 /\ open = {} /\ discovered = NoTools
    /\ providers = <<>> /\ registry = NewRegistry
    /\ late = FALSE /\ exit = "none"
    /\ published = {}
    /\ tasks = [t \in Tasks |-> [state |-> "none", pin |-> Unpublished, tools |-> NoTools]]

Goto(p) == phase' = p

Running == {t \in Tasks : tasks[t].state = "running"}

\* The process is gone: the requests of its tasks are cut.
Down(why) ==
    /\ Goto("down")
    /\ exit' = why
    /\ tasks' = [t \in Tasks |-> IF t \in Running THEN [tasks[t] EXCEPT !.state = "cut"] ELSE tasks[t]]
    /\ UNCHANGED <<config, server, discovered, providers, registry, late, published>>

-----------------------------------------------------------------------------
(* LoadMCPProviders *)

\* Mutant: only the sessions of the providers before are closed.
FailDiscoverUnclosed == Down("load_failed") /\ open' = open \ (1..(server - 1))

\* connectMCPProvider closes its own session, LoadMCPProviders those before.
FailDiscover == Down("load_failed") /\ open' = open \ (1..server)

FailConnect == Down("load_failed") /\ open' = open \ (1..(server - 1))

\* No token, or a configuration that cannot be read.
StartFails == phase = "starting" /\ Down("load_failed") /\ UNCHANGED open

Start ==
    /\ phase = "starting"
    /\ config' \in Configs
    /\ Goto("checking")
    /\ UNCHANGED <<server, open, discovered, providers, registry, late, exit, published, tasks>>

NameTaken == \E i \in 1..(server - 1) : config[i].name = config[server].name

Check ==
    /\ phase = "checking"
    /\ IF server > Len(config)
       THEN Goto("registering") /\ UNCHANGED <<exit, open, tasks, config, server, discovered,
                                                providers, registry, late, published>>
       ELSE IF NameTaken \/ ~config[server].valid
       THEN FailConnect
       ELSE Goto("connecting") /\ UNCHANGED <<exit, open, tasks, config, server, discovered,
                                               providers, registry, late, published>>

Connect ==
    /\ phase = "connecting"
    /\ open' = open \cup {server}
    /\ Goto("listing")
    /\ discovered' = NoTools
    /\ UNCHANGED <<config, server, providers, registry, late, exit, published, tasks>>

\* The server refuses, or the time for the connection or the startup is over.
ConnectFails == phase = "connecting" /\ FailConnect

\* allow_tools: explicit names, each once.
AllowListValid(allow) ==
    /\ \A i \in DOMAIN allow : allow[i] \notin {"", "*"}
    /\ \A i, j \in DOMAIN allow : i # j => allow[i] # allow[j]

\* Tools of later pages replace those of the same name.
Listed(page) ==
    [name \in DOMAIN discovered \cup {tool.name : tool \in page} |->
        IF \E tool \in page : tool.name = name
        THEN CHOOSE tool \in page : tool.name = name
        ELSE discovered[name]]

\* Mutant: a tool that announces side effects is taken.
AllowedAnyEffect(found) ==
    \A i \in DOMAIN config[server].allow : config[server].allow[i] \in DOMAIN found

Allowed(found) ==
    \A i \in DOMAIN config[server].allow :
        /\ config[server].allow[i] \in DOMAIN found
        /\ ~found[config[server].allow[i]].writes

\* The allowed tools only, under the name mcp.<server>.<tool>.
ProviderOf(found, version) ==
    [name  |-> config[server].name,
     tools |-> [i \in DOMAIN config[server].allow |->
                  [name |-> <<config[server].name, config[server].allow[i]>>,
                   readOnly |-> TRUE,
                   writes |-> found[config[server].allow[i]].writes,  \* ghost: what was announced
                   schema |-> found[config[server].allow[i]].schema,
                   visibility |-> config[server].visibility,
                   version |-> version]]]

ListPage ==
    /\ phase = "listing" /\ AllowListValid(config[server].allow)
    /\ \E page \in Pages :
          \/ /\ discovered' = Listed(page)   \* there is a next cursor
             /\ UNCHANGED <<phase, server, open, providers, exit, tasks,
                            config, registry, late, published>>
          \/ /\ Allowed(Listed(page))
             /\ \E version \in Versions :
                   providers' = Append(providers, ProviderOf(Listed(page), version))
             /\ server' = server + 1
             /\ discovered' = NoTools
             /\ Goto("checking")
             /\ UNCHANGED <<open, exit, tasks, config, registry, late, published>>
          \/ ~Allowed(Listed(page)) /\ FailDiscover

\* A bad list of tools, an error of the server, or the end of the time for the
\* connection: a server may go on to list pages for ever.
DiscoverFails == phase = "listing" /\ FailDiscover

-----------------------------------------------------------------------------
(* NewService and the HTTP server *)

Freeze ==
    /\ phase = "registering"
    /\ registry' = NewProviders(<<BuiltIn>> \o providers)
    /\ Goto("frozen")
    /\ UNCHANGED <<config, server, open, discovered, providers, late, exit, published, tasks>>

\* os.Exit does not run the deferred CloseProviders.
RegistryRefused == phase = "frozen" /\ registry.failed /\ Down("registry_failed") /\ UNCHANGED open

Serve ==
    /\ phase = "frozen" /\ ~registry.failed
    /\ Goto("serving")
    /\ UNCHANGED <<config, server, open, discovered, providers, registry, late, exit, published, tasks>>

\* The listener fails, at once or later; os.Exit again.
ListenFails == phase = "serving" /\ Down("listen_failed") /\ UNCHANGED open

Signal ==
    /\ phase = "serving"
    /\ Goto("draining")
    /\ UNCHANGED <<config, server, open, discovered, providers, registry, late, exit, published, tasks>>

\* Mutant: the tasks that run are not waited for.
DrainedAtOnce ==
    /\ phase = "draining"
    /\ Goto("closing")
    /\ UNCHANGED <<config, server, open, discovered, providers, registry, late, exit, published, tasks>>

\* Shutdown returns when no request is being served.
Drained ==
    /\ phase = "draining" /\ Running = {}
    /\ Goto("closing")
    /\ UNCHANGED <<config, server, open, discovered, providers, registry, late, exit, published, tasks>>

\* Mutant: the shutdown has no deadline.
DrainTimesOutIdle ==
    /\ phase = "draining" /\ Running = {}
    /\ Goto("closing")
    /\ late' = TRUE
    /\ UNCHANGED <<config, server, open, discovered, providers, registry, exit, published, tasks>>

DrainTimesOut ==
    /\ phase = "draining"
    /\ Goto("closing")
    /\ late' = TRUE
    /\ UNCHANGED <<config, server, open, discovered, providers, registry, exit, published, tasks>>

Close ==
    /\ phase = "closing"
    /\ open' = open \ DOMAIN providers
    /\ Goto("exiting")
    /\ UNCHANGED <<config, server, discovered, providers, registry, late, exit, published, tasks>>

Exit == phase = "exiting" /\ Down("stopped") /\ UNCHANGED open

\* A signal before it is handled, or the end of the machine.
Crash == phase # "down" /\ Down("crashed") /\ UNCHANGED open

Restart ==
    /\ phase = "down"
    /\ phase' = "starting"
    /\ config' = <<>> /\ server' = 1 /\ open' = {} /\ discovered' = NoTools
    /\ providers' = <<>> /\ registry' = NewRegistry
    /\ late' = FALSE
    /\ UNCHANGED <<exit, published, tasks>>

-----------------------------------------------------------------------------
(* Tasks: internal/runtime *)

GetCapabilities ==
    /\ phase = "serving"
    /\ published' = published \cup {Fingerprint(registry)}
    /\ UNCHANGED <<process, tasks>>

\* Mutant: the version the task was frozen with is not compared.
AdmittedUnpinned(pin) == TRUE

Admitted(pin) == pin = Fingerprint(registry)

\* A task is sent, or sent again after its request was cut or refused: the
\* platform keeps the pin it was created with.  Its own registry is built from
\* the providers of the process.
Submit(t) ==
    /\ phase = "serving"
    /\ tasks[t].state # "running" /\ tasks[t].state # "answered"
    /\ \E pin \in IF tasks[t].state = "none" THEN published \cup {Unpublished} ELSE {tasks[t].pin} :
          tasks' = [tasks EXCEPT ![t] =
              IF Admitted(pin)
              THEN [state |-> "running", pin |-> pin,
                    tools |-> Fingerprint(NewProviders(<<BuiltIn>> \o providers))]
              ELSE [state |-> "refused", pin |-> pin, tools |-> NoTools]]
    /\ UNCHANGED <<process, published>>

TaskEnds(t) ==
    /\ t \in Running
    /\ tasks' = [tasks EXCEPT ![t].state = "answered"]
    /\ UNCHANGED <<process, published>>

Loading == StartFails \/ Start \/ Check \/ Connect \/ ConnectFails \/ ListPage \/ DiscoverFails

Process ==
    \/ Loading \/ Freeze \/ RegistryRefused \/ Serve \/ ListenFails \/ Signal
    \/ Drained \/ DrainTimesOut \/ Close \/ Exit \/ Crash \/ Restart

Next == Process \/ GetCapabilities \/ \E t \in Tasks : Submit(t) \/ TaskEnds(t)

Spec == Init /\ [][Next]_vars

\* The main goroutine goes on, and its deadlines pass.  No server has to answer
\* and no task has to end.
Fairness ==
    /\ WF_vars(Start) /\ WF_vars(Check)
    /\ WF_vars(ConnectFails) /\ WF_vars(DiscoverFails)
    /\ WF_vars(Freeze) /\ WF_vars(RegistryRefused) /\ WF_vars(Serve)
    /\ WF_vars(DrainTimesOut) /\ WF_vars(Close) /\ WF_vars(Exit)

FairSpec == Spec /\ Fairness

-----------------------------------------------------------------------------
(* Properties *)

\* Loading is all or nothing: whichever server failed, in whichever of its steps, no
\* session to any server stays open, nor does one after an orderly stop, and a
\* process that serves has one to every server of its configuration
\* (mcp.go:84-99, 164; main.go:39-43).  Only a crash and the two exits by os.Exit,
\* which runs no deferred call, leave sessions to the end of the process
\* (main.go:45-49, 59-64).
SessionsAreBalanced ==
    /\ phase = "down" /\ open # {} => exit \in {"registry_failed", "listen_failed", "crashed"}
    /\ phase \in {"serving", "draining"} => open = DOMAIN config /\ Len(providers) = Len(config)

\* "The frozen version of a task must be exactly that of the instance"
\* (README:40): however often the process was restarted, with whatever tools its
\* servers came back, a task only ever runs with the tools it was frozen with.
PinnedToolsOnly == \A t \in Running : tasks[t].tools = tasks[t].pin

\* "MCP only for explicitly allowed, read-only tools" (README:27): whatever the
\* servers list, on whatever page, the model can reach a tool of a server only if
\* the configuration allows it and the server did not announce side effects;
\* what is offered to the model is what it can reach.
OnlyAllowedTools ==
    registry.frozen =>
        /\ \A name \in DOMAIN registry.definitions :
              \/ name \in {tool.name : tool \in ToSet(BuiltIn.tools)}
              \/ \E i \in DOMAIN config :
                    /\ name[1] = config[i].name
                    /\ name[2] \in ToSet(config[i].allow)
                    /\ ~registry.definitions[name].tool.writes
        /\ registry.offered = {name \in DOMAIN registry.definitions : Reachable(registry, name)}

\* The servers outlive the tasks: a session is closed under a running task only
\* after the ten seconds of the shutdown (main.go:39-43, 69-73).
ToolsOutliveTasks == Running # {} => open = DOMAIN config \/ late

\* A start ends, with a serving process or an exit, even if a server lists pages
\* for ever; and a stop ends, even if a task does not (main.go:33, 69).
PhasesEnd ==
    /\ (phase \in {"starting", "checking", "connecting", "listing", "registering", "frozen"})
         ~> (phase \in {"serving", "down"})
    /\ (phase \in {"draining", "closing", "exiting"}) ~> (phase = "down")
=============================================================================
