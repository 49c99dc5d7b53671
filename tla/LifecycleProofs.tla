--------------------------- MODULE LifecycleProofs ---------------------------
(***************************************************************************)
(* Any number of servers and of tasks, any configuration, any lists of     *)
(* tools, any number of restarts: sessions are closed and tasks keep their *)
(* tools.                                                                  *)
(*                                                                         *)
(* The argument: how far the process has come says exactly which sessions  *)
(* are open (SessionsOf) and which registry it serves (RegistryIsFrozen),  *)
(* and tasks run only where there are sessions (TasksAreServed).  A tool   *)
(* is reachable under the name of one place in the row of providers, and   *)
(* all places but those of the built-in tools were allowed                 *)
(* (ProvidersAreAllowed).                                                  *)
(***************************************************************************)
EXTENDS Lifecycle, TLAPS

Phases == {"starting", "checking", "connecting", "listing", "registering", "frozen",
           "serving", "draining", "closing", "exiting", "down"}

\* The phases in which every server of the configuration has a session.
Connected == {"registering", "frozen", "serving", "draining", "closing"}

TypeOK ==
    /\ phase \in Phases
    /\ server \in Nat \ {0}
    /\ config \in Seq([name : STRING, valid : BOOLEAN, allow : Seq(STRING), visibility : STRING])
    /\ \E S : providers \in Seq(S)
    /\ tasks = [t \in Tasks |-> [state |-> tasks[t].state, pin |-> tasks[t].pin,
                                 tools |-> tasks[t].tools]]

\* Which sessions are open and which providers loaded, in every phase; of a
\* process that is gone, SessionsAreBalanced tells.
SessionsOf ==
    /\ phase = "starting" => open = {} /\ server = 1 /\ providers = <<>>
    /\ phase = "checking" => server <= Len(config) + 1
    /\ phase \in {"connecting", "listing"} => server <= Len(config)
    /\ phase \in {"checking", "connecting"} => open = 1..(server - 1)
    /\ phase = "listing" => open = 1..server
    /\ phase \in {"checking", "connecting", "listing"} => Len(providers) = server - 1
    /\ phase \in Connected => open = DOMAIN config /\ Len(providers) = Len(config)
    /\ phase = "exiting" => open = {}

\* The registry is that of the providers, as every task builds it again.
RegistryIsFrozen ==
    phase \in {"frozen", "serving", "draining"} => registry = NewProviders(<<BuiltIn>> \o providers)

\* There is no registry before that, and never another one.
RegistryIsBuilt ==
    /\ phase \in {"starting", "checking", "connecting", "listing", "registering"} =>
          registry = NewRegistry
    /\ registry \in {NewRegistry, NewProviders(<<BuiltIn>> \o providers)}

\* The tools of a loaded provider are tools of its server that the configuration
\* allows and that announced no side effects.
AllowedTool(tool, i) ==
    /\ \E name \in ToSet(config[i].allow) : tool.name = <<config[i].name, name>>
    /\ ~tool.writes

ProvidersAreAllowed ==
    /\ phase = "starting" => providers = <<>>
    /\ \A i \in DOMAIN providers :
          /\ i \in DOMAIN config
          /\ \A j \in DOMAIN providers[i].tools : AllowedTool(providers[i].tools[j], i)

AInv == RegistryIsBuilt /\ ProvidersAreAllowed

\* A task runs in a process that serves, or one whose ten seconds are over.
TasksAreServed ==
    Running # {} => \/ phase \in {"serving", "draining"}
                    \/ phase \in {"closing", "exiting"} /\ late

LInv ==
    /\ TypeOK
    /\ SessionsOf
    /\ SessionsAreBalanced
    /\ RegistryIsFrozen
    /\ TasksAreServed
    /\ PinnedToolsOnly

-----------------------------------------------------------------------------
(* The tasks *)

\* A task in another state keeps its pin and its tools.
LEMMA InState ==
    ASSUME NEW task, NEW state,
           task = [state |-> task.state, pin |-> task.pin, tools |-> task.tools]
    PROVE  [task EXCEPT !.state = state] = [state |-> state, pin |-> task.pin, tools |-> task.tools]
<1>1. ASSUME NEW a, NEW b, NEW c
      PROVE  [[state |-> a, pin |-> b, tools |-> c] EXCEPT !.state = state] =
             [state |-> state, pin |-> b, tools |-> c]
  OBVIOUS
<1> DEFINE same == [state |-> task.state, pin |-> task.pin, tools |-> task.tools]
           new  == [state |-> state, pin |-> task.pin, tools |-> task.tools]
<1>2. task = same
  OBVIOUS
<1>3. [same EXCEPT !.state = state] = new
  BY <1>1
<1> HIDE DEF same, new
<1>4. [task EXCEPT !.state = state] = new
  BY <1>2, <1>3, Zenon
<1> QED
  BY <1>4 DEF new

\* No task runs in a process that is gone.
LEMMA DownCuts ==
    ASSUME NEW why, LInv, Down(why)
    PROVE  /\ tasks' = [t \in Tasks |-> [state |-> tasks'[t].state, pin |-> tasks'[t].pin,
                                         tools |-> tasks'[t].tools]]
           /\ Running' = {}
<1>1. \A t \in Tasks : tasks[t] = [state |-> tasks[t].state, pin |-> tasks[t].pin,
                                   tools |-> tasks[t].tools]
  BY DEF LInv, TypeOK
<1>2. tasks' = [t \in Tasks |-> IF tasks[t].state = "running"
                                THEN [state |-> "cut", pin |-> tasks[t].pin, tools |-> tasks[t].tools]
                                ELSE tasks[t]]
  <2>1. \A t \in Tasks : [tasks[t] EXCEPT !.state = "cut"] =
                           [state |-> "cut", pin |-> tasks[t].pin, tools |-> tasks[t].tools]
    BY <1>1, InState, Zenon
  <2>2. \A t \in Tasks : t \in Running <=> tasks[t].state = "running"
    BY DEF Running
  <2>3. tasks' = [t \in Tasks |-> IF t \in Running THEN [tasks[t] EXCEPT !.state = "cut"] ELSE tasks[t]]
    BY DEF Down
  <2>4. ASSUME NEW t \in Tasks
        PROVE  (IF t \in Running THEN [tasks[t] EXCEPT !.state = "cut"] ELSE tasks[t]) =
               (IF tasks[t].state = "running"
                THEN [state |-> "cut", pin |-> tasks[t].pin, tools |-> tasks[t].tools]
                ELSE tasks[t])
    BY <2>1, <2>2, Zenon
  <2> QED
    BY <2>3, <2>4, Zenon
<1>3. \A t \in Tasks : tasks'[t] = [state |-> tasks'[t].state, pin |-> tasks'[t].pin,
                                    tools |-> tasks'[t].tools]
  BY <1>1, <1>2
<1>4. \A t \in Tasks : tasks'[t].state # "running"
  BY <1>1, <1>2
<1> QED
  BY <1>2, <1>3, <1>4 DEF Running

\* A process that is gone keeps the invariant if its end was one of those that
\* may leave sessions open, or left none.
LEMMA DownKeeps ==
    ASSUME NEW why, LInv, Down(why),
           open' = {} \/ why \in {"registry_failed", "listen_failed", "crashed"}
    PROVE  LInv'
<1>1. phase' = "down" /\ exit' = why /\ UNCHANGED <<config, server, providers>>
  BY DEF Down, Goto
<1>2. Running' = {}
  BY DownCuts
<1>3. TypeOK'
  BY <1>1, DownCuts DEF LInv, TypeOK, Phases
<1>4. SessionsOf' /\ SessionsAreBalanced' /\ RegistryIsFrozen'
  BY <1>1 DEF SessionsOf, SessionsAreBalanced, RegistryIsFrozen, Connected
<1>5. TasksAreServed' /\ PinnedToolsOnly'
  BY <1>2 DEF TasksAreServed, PinnedToolsOnly
<1> QED
  BY <1>3, <1>4, <1>5 DEF LInv

\* A step that leaves the tasks alone leaves PinnedToolsOnly as it is.
LEMMA SameTasks ==
    ASSUME UNCHANGED tasks
    PROVE  /\ Running' = Running
           /\ PinnedToolsOnly => PinnedToolsOnly'
BY DEF Running, PinnedToolsOnly

-----------------------------------------------------------------------------
(* Every step *)

\* Loading the servers: a failure closes the sessions there are.
LEMMA LoadingKeeps == LInv /\ Loading => LInv'
<1> SUFFICES ASSUME LInv, Loading PROVE LInv'
  OBVIOUS
<1> USE DEF LInv
<1>1. CASE StartFails
  <2>1. open' = {}
    BY <1>1 DEF StartFails, SessionsOf
  <2> QED
    BY <1>1, <2>1, DownKeeps DEF StartFails
<1>2. CASE Start
  <2>1. /\ phase = "starting" /\ phase' = "checking" /\ config' \in Configs
        /\ UNCHANGED <<server, open, providers, registry, late, exit, tasks>>
    BY <1>2 DEF Start, Goto
  <2>2. config' \in Seq([name : STRING, valid : BOOLEAN, allow : Seq(STRING), visibility : STRING])
    BY <2>1, ConfigsAssumption
  <2>3. TypeOK'
    BY <2>1, <2>2 DEF TypeOK, Phases
  <2>4. SessionsOf'
    <3>1. open' = {} /\ server' = 1 /\ providers' = <<>> /\ Len(config') \in Nat
      BY <2>1, <2>2 DEF SessionsOf
    <3> QED
      BY <2>1, <3>1 DEF SessionsOf, Connected
  <2> QED
    BY <2>1, <2>3, <2>4, SameTasks DEF SessionsAreBalanced, RegistryIsFrozen, TasksAreServed
<1>3. CASE Check
  <2>1. phase = "checking" /\ server \in Nat \ {0} /\ Len(config) \in Nat
    BY <1>3 DEF Check, TypeOK
  <2>2. CASE server > Len(config)
    <3>1. /\ phase' = "registering"
          /\ UNCHANGED <<exit, open, tasks, config, server, providers, registry, late>>
      BY <1>3, <2>2 DEF Check, Goto
    <3>2. TypeOK'
      BY <3>1 DEF TypeOK, Phases
    <3>3. server = Len(config) + 1 /\ open = DOMAIN config /\ Len(providers) = Len(config)
      BY <2>1, <2>2 DEF SessionsOf, TypeOK
    <3>4. SessionsOf'
      BY <3>1, <3>3 DEF SessionsOf, Connected
    <3> QED
      BY <2>1, <3>1, <3>2, <3>4, SameTasks DEF SessionsAreBalanced, RegistryIsFrozen, TasksAreServed
  <2>3. CASE server <= Len(config) /\ (NameTaken \/ ~config[server].valid)
    <3>1. FailConnect
      BY <1>3, <2>1, <2>3 DEF Check
    <3>2. open' = {}
      BY <2>1, <3>1 DEF FailConnect, SessionsOf
    <3> QED
      BY <3>1, <3>2, DownKeeps DEF FailConnect
  <2>4. CASE server <= Len(config) /\ ~(NameTaken \/ ~config[server].valid)
    <3>1. /\ phase' = "connecting"
          /\ UNCHANGED <<exit, open, tasks, config, server, providers, registry, late>>
      BY <1>3, <2>1, <2>4 DEF Check, Goto
    <3>2. TypeOK'
      BY <3>1 DEF TypeOK, Phases
    <3>3. SessionsOf'
      BY <2>1, <2>4, <3>1 DEF SessionsOf, Connected
    <3> QED
      BY <2>1, <3>1, <3>2, <3>3, SameTasks DEF SessionsAreBalanced, RegistryIsFrozen, TasksAreServed
  <2> QED
    BY <2>1, <2>2, <2>3, <2>4
<1>4. CASE Connect
  <2>1. /\ phase = "connecting" /\ phase' = "listing" /\ open' = open \cup {server}
        /\ UNCHANGED <<config, server, providers, registry, late, exit, tasks>>
    BY <1>4 DEF Connect, Goto
  <2>2. TypeOK'
    BY <2>1 DEF TypeOK, Phases
  <2>3. server \in Nat \ {0} /\ open = 1..(server - 1)
    BY <2>1 DEF TypeOK, SessionsOf
  <2>4. open' = 1..server
    BY <2>1, <2>3
  <2>5. SessionsOf'
    BY <2>1, <2>4 DEF SessionsOf, Connected
  <2> QED
    BY <2>1, <2>2, <2>5, SameTasks DEF SessionsAreBalanced, RegistryIsFrozen, TasksAreServed
<1>5. CASE ConnectFails
  <2>1. open' = {}
    BY <1>5 DEF ConnectFails, FailConnect, SessionsOf
  <2> QED
    BY <1>5, <2>1, DownKeeps DEF ConnectFails, FailConnect
<1>6. CASE ListPage
  <2>1. phase = "listing"
    BY <1>6 DEF ListPage
  <2> PICK page \in Pages :
        \/ /\ discovered' = Listed(page)
           /\ UNCHANGED <<phase, server, open, providers, exit, tasks, config, registry, late, published>>
        \/ /\ Allowed(Listed(page))
           /\ \E version \in Versions :
                 providers' = Append(providers, ProviderOf(Listed(page), version))
           /\ server' = server + 1
           /\ discovered' = NoTools
           /\ Goto("checking")
           /\ UNCHANGED <<open, exit, tasks, config, registry, late, published>>
        \/ ~Allowed(Listed(page)) /\ FailDiscover
    BY <1>6 DEF ListPage
  <2>2. CASE UNCHANGED <<phase, server, open, providers, exit, tasks, config, registry, late>>
    <3>1. TypeOK' /\ SessionsOf' /\ SessionsAreBalanced' /\ RegistryIsFrozen'
      BY <2>2 DEF TypeOK, SessionsOf, SessionsAreBalanced, RegistryIsFrozen
    <3> QED
      BY <2>2, <3>1, SameTasks DEF TasksAreServed
  <2>3. ASSUME NEW provider, providers' = Append(providers, provider), server' = server + 1,
               phase' = "checking", UNCHANGED <<open, exit, tasks, config, registry, late>>
        PROVE  LInv'
    <3>1. PICK S : providers \in Seq(S)
      BY DEF TypeOK
    <3>2. providers \in Seq(S \cup {provider})
      BY <3>1
    <3>3. providers' \in Seq(S \cup {provider}) /\ Len(providers') = Len(providers) + 1
      BY <2>3, <3>2
    <3>4. TypeOK'
      BY <2>3, <3>3 DEF TypeOK, Phases
    <3>5. /\ server \in Nat \ {0} /\ server <= Len(config) /\ open = 1..server
          /\ Len(providers) = server - 1
      BY <2>1 DEF TypeOK, SessionsOf
    <3>6. open' = 1..(server' - 1) /\ server' <= Len(config') + 1 /\ Len(providers') = server' - 1
      BY <2>3, <3>3, <3>5 DEF TypeOK
    <3>7. SessionsOf'
      BY <2>3, <3>6 DEF SessionsOf, Connected
    <3> QED
      BY <2>1, <2>3, <3>4, <3>7, SameTasks DEF SessionsAreBalanced, RegistryIsFrozen, TasksAreServed
  <2>4. CASE FailDiscover
    <3>1. open' = {}
      BY <2>1, <2>4 DEF FailDiscover, SessionsOf
    <3> QED
      BY <2>4, <3>1, DownKeeps DEF FailDiscover
  <2> QED
    BY <2>2, <2>3, <2>4 DEF Goto
<1>7. CASE DiscoverFails
  <2>1. open' = {}
    BY <1>7 DEF DiscoverFails, FailDiscover, SessionsOf
  <2> QED
    BY <1>7, <2>1, DownKeeps DEF DiscoverFails, FailDiscover
<1> QED
  BY <1>1, <1>2, <1>3, <1>4, <1>5, <1>6, <1>7 DEF Loading

\* From the registry to the end of the process: an orderly stop closes the
\* sessions of all providers, and those are all sessions.
LEMMA RunKeeps ==
    LInv /\ (Freeze \/ RegistryRefused \/ Serve \/ ListenFails \/ Signal
             \/ Drained \/ DrainTimesOut \/ Close \/ Exit \/ Crash \/ Restart)
    => LInv'
<1> SUFFICES ASSUME LInv, \/ Freeze \/ RegistryRefused \/ Serve \/ ListenFails \/ Signal
                          \/ Drained \/ DrainTimesOut \/ Close \/ Exit \/ Crash \/ Restart
             PROVE  LInv'
  OBVIOUS
<1> USE DEF LInv
<1>1. CASE Freeze
  <2>1. /\ phase = "registering" /\ phase' = "frozen"
        /\ registry' = NewProviders(<<BuiltIn>> \o providers)
        /\ UNCHANGED <<config, server, open, providers, late, exit, tasks>>
    BY <1>1 DEF Freeze, Goto
  <2>2. TypeOK' /\ SessionsOf' /\ SessionsAreBalanced'
    BY <2>1 DEF TypeOK, SessionsOf, SessionsAreBalanced, Phases, Connected
  <2>3. RegistryIsFrozen'
    BY <2>1 DEF RegistryIsFrozen
  <2> QED
    BY <2>1, <2>2, <2>3, SameTasks DEF TasksAreServed
<1>2. CASE RegistryRefused
  BY <1>2, DownKeeps DEF RegistryRefused
<1>3. CASE Serve
  <2>1. /\ phase = "frozen" /\ phase' = "serving"
        /\ UNCHANGED <<config, server, open, providers, registry, late, exit, tasks>>
    BY <1>3 DEF Serve, Goto
  <2>2. TypeOK' /\ SessionsOf' /\ SessionsAreBalanced' /\ RegistryIsFrozen'
    BY <2>1 DEF TypeOK, SessionsOf, SessionsAreBalanced, RegistryIsFrozen, Phases, Connected
  <2> QED
    BY <2>1, <2>2, SameTasks DEF TasksAreServed
<1>4. CASE ListenFails
  BY <1>4, DownKeeps DEF ListenFails
<1>5. CASE Signal
  <2>1. /\ phase = "serving" /\ phase' = "draining"
        /\ UNCHANGED <<config, server, open, providers, registry, late, exit, tasks>>
    BY <1>5 DEF Signal, Goto
  <2>2. TypeOK' /\ SessionsOf' /\ SessionsAreBalanced' /\ RegistryIsFrozen'
    BY <2>1 DEF TypeOK, SessionsOf, SessionsAreBalanced, RegistryIsFrozen, Phases, Connected
  <2> QED
    BY <2>1, <2>2, SameTasks DEF TasksAreServed
<1>6. CASE Drained \/ DrainTimesOut
  <2>1. /\ phase = "draining" /\ phase' = "closing"
        /\ UNCHANGED <<config, server, open, providers, registry, exit, tasks>>
        /\ Running = {} \/ late'
    BY <1>6 DEF Drained, DrainTimesOut, Goto
  <2>2. TypeOK' /\ SessionsOf' /\ SessionsAreBalanced' /\ RegistryIsFrozen'
    BY <2>1 DEF TypeOK, SessionsOf, SessionsAreBalanced, RegistryIsFrozen, Phases, Connected
  <2> QED
    BY <2>1, <2>2, SameTasks DEF TasksAreServed
<1>7. CASE Close
  <2>1. /\ phase = "closing" /\ phase' = "exiting" /\ open' = open \ DOMAIN providers
        /\ UNCHANGED <<config, server, providers, registry, late, exit, tasks>>
    BY <1>7 DEF Close, Goto
  <2>2. open = DOMAIN config /\ DOMAIN providers = DOMAIN config
    BY <2>1 DEF SessionsOf, Connected, TypeOK
  <2>3. open' = {}
    BY <2>1, <2>2
  <2>4. TypeOK' /\ SessionsOf' /\ SessionsAreBalanced' /\ RegistryIsFrozen'
    BY <2>1, <2>3 DEF TypeOK, SessionsOf, SessionsAreBalanced, RegistryIsFrozen, Phases, Connected
  <2> QED
    BY <2>1, <2>4, SameTasks DEF TasksAreServed
<1>8. CASE Exit
  <2>1. open' = {}
    BY <1>8 DEF Exit, SessionsOf
  <2> QED
    BY <1>8, <2>1, DownKeeps DEF Exit
<1>9. CASE Crash
  BY <1>9, DownKeeps DEF Crash
<1>10. CASE Restart
  <2>1. /\ phase = "down" /\ phase' = "starting" /\ config' = <<>> /\ server' = 1
        /\ open' = {} /\ providers' = <<>> /\ UNCHANGED tasks
    BY <1>10 DEF Restart
  <2>2. config' \in Seq([name : STRING, valid : BOOLEAN, allow : Seq(STRING), visibility : STRING])
        /\ providers' \in Seq({})
    BY <2>1
  <2>3. TypeOK'
    BY <2>1, <2>2 DEF TypeOK, Phases
  <2>4. SessionsOf' /\ SessionsAreBalanced' /\ RegistryIsFrozen'
    BY <2>1 DEF SessionsOf, SessionsAreBalanced, RegistryIsFrozen, Connected
  <2>5. Running = {}
    BY <2>1 DEF TasksAreServed
  <2> QED
    BY <2>1, <2>3, <2>4, <2>5, SameTasks DEF TasksAreServed
<1> QED
  BY <1>1, <1>2, <1>3, <1>4, <1>5, <1>6, <1>7, <1>8, <1>9, <1>10

\* A task is admitted with the version it was frozen with, which is that of the
\* registry, and gets a registry built from the same providers.
LEMMA SubmitKeeps == ASSUME NEW t \in Tasks, LInv, Submit(t) PROVE LInv'
<1> USE DEF LInv
<1>1. phase = "serving" /\ UNCHANGED process
  BY DEF Submit
<1>2. PICK pin : tasks' = [tasks EXCEPT ![t] =
          IF Admitted(pin)
          THEN [state |-> "running", pin |-> pin,
                tools |-> Fingerprint(NewProviders(<<BuiltIn>> \o providers))]
          ELSE [state |-> "refused", pin |-> pin, tools |-> NoTools]]
  BY DEF Submit
<1> DEFINE sent == IF Admitted(pin)
                   THEN [state |-> "running", pin |-> pin,
                         tools |-> Fingerprint(NewProviders(<<BuiltIn>> \o providers))]
                   ELSE [state |-> "refused", pin |-> pin, tools |-> NoTools]
<1>3. sent = [state |-> sent.state, pin |-> sent.pin, tools |-> sent.tools]
  OBVIOUS
<1>4. sent.state = "running" => sent.tools = sent.pin
  BY <1>1 DEF RegistryIsFrozen, Admitted
<1> HIDE DEF sent
<1>5. tasks' = [u \in Tasks |-> IF u = t THEN sent ELSE tasks[u]]
  BY <1>2 DEF TypeOK, sent
<1>6. \A u \in Tasks : tasks[u] = [state |-> tasks[u].state, pin |-> tasks[u].pin,
                                   tools |-> tasks[u].tools]
  BY DEF TypeOK
<1>7. \A u \in Tasks : tasks'[u] = [state |-> tasks'[u].state, pin |-> tasks'[u].pin,
                                    tools |-> tasks'[u].tools]
  BY <1>3, <1>5, <1>6
<1>8. TypeOK'
  BY <1>1, <1>5, <1>7 DEF TypeOK, process
<1>9. PinnedToolsOnly'
  BY <1>4, <1>5 DEF PinnedToolsOnly, Running
<1>10. SessionsOf' /\ SessionsAreBalanced' /\ RegistryIsFrozen' /\ TasksAreServed'
  BY <1>1 DEF SessionsOf, SessionsAreBalanced, RegistryIsFrozen, TasksAreServed, process, Connected
<1> QED
  BY <1>8, <1>9, <1>10

\* A task that ends is one less.
LEMMA TaskEndsKeeps == ASSUME NEW t \in Tasks, LInv, TaskEnds(t) PROVE LInv'
<1> USE DEF LInv
<1>1. t \in Running /\ tasks' = [tasks EXCEPT ![t].state = "answered"] /\ UNCHANGED process
  BY DEF TaskEnds
<1>2. \A u \in Tasks : tasks[u] = [state |-> tasks[u].state, pin |-> tasks[u].pin,
                                   tools |-> tasks[u].tools]
  BY DEF TypeOK
<1> DEFINE ended == [state |-> "answered", pin |-> tasks[t].pin, tools |-> tasks[t].tools]
<1>3. [tasks[t] EXCEPT !.state = "answered"] = ended
  BY <1>2, InState, Zenon
<1>4. tasks' = [u \in Tasks |-> IF u = t THEN ended ELSE tasks[u]]
  <2>1. tasks' = [tasks EXCEPT ![t] = [tasks[t] EXCEPT !.state = "answered"]]
    BY <1>1
  <2> QED
    BY <1>3, <2>1 DEF TypeOK
<1>5. \A u \in Tasks : tasks'[u] = [state |-> tasks'[u].state, pin |-> tasks'[u].pin,
                                    tools |-> tasks'[u].tools]
  BY <1>2, <1>4
<1>6. TypeOK'
  BY <1>1, <1>4, <1>5 DEF TypeOK, process
<1>7. PinnedToolsOnly' /\ (Running' # {} => Running # {})
  BY <1>1, <1>4 DEF PinnedToolsOnly, Running
<1>8. SessionsOf' /\ SessionsAreBalanced' /\ RegistryIsFrozen' /\ TasksAreServed'
  BY <1>1, <1>7 DEF SessionsOf, SessionsAreBalanced, RegistryIsFrozen, TasksAreServed, process, Connected
<1> QED
  BY <1>6, <1>7, <1>8

\* Every step of the process, its servers and its clients keeps the invariant.
LEMMA StepKeeps == LInv /\ [Next]_vars => LInv'
<1> SUFFICES ASSUME LInv, [Next]_vars PROVE LInv'
  OBVIOUS
<1>1. CASE GetCapabilities \/ UNCHANGED vars
  <2>1. UNCHANGED <<process, tasks>>
    BY <1>1 DEF GetCapabilities, vars, process
  <2>2. TypeOK' /\ SessionsOf' /\ SessionsAreBalanced' /\ RegistryIsFrozen'
    BY <2>1 DEF LInv, TypeOK, SessionsOf, SessionsAreBalanced, RegistryIsFrozen, process, Connected
  <2> QED
    BY <2>1, <2>2, SameTasks DEF LInv, TasksAreServed, process
<1> QED
  BY <1>1, LoadingKeeps, RunKeeps, SubmitKeeps, TaskEndsKeeps DEF Next, Process

\* Nothing is open before the first start.
LEMMA InitKeeps == Init => LInv
<1> SUFFICES ASSUME Init PROVE LInv
  OBVIOUS
<1>1. /\ config \in Seq([name : STRING, valid : BOOLEAN, allow : Seq(STRING), visibility : STRING])
      /\ providers \in Seq({})
  BY DEF Init
<1>2. TypeOK
  BY <1>1 DEF Init, TypeOK, Phases
<1>3. Running = {}
  BY DEF Init, Running
<1> QED
  BY <1>2, <1>3 DEF Init, LInv, SessionsOf, SessionsAreBalanced, RegistryIsFrozen,
                    TasksAreServed, PinnedToolsOnly, Connected

\* The invariant holds over all instances of the process.
LEMMA Inductive == Spec => []LInv
BY InitKeeps, StepKeeps, PTL DEF Spec

-----------------------------------------------------------------------------
(* What can be reached *)

\* A name stands for the tool at the one place that has it (registry.go:79-105).
LEMMA OnePlaceEach ==
    ASSUME NEW row, AllRegister(row), NEW place \in Places(row)
    PROVE  Definitions(row)[ToolAt(row, place).name].tool = ToolAt(row, place)
<1> DEFINE name == ToolAt(row, place).name
           found == CHOOSE p \in Places(row) : ToolAt(row, p).name = name
<1>1. found \in Places(row) /\ ToolAt(row, found).name = name
  OBVIOUS
<1>2. found = place
  <2>1. \A p, q \in Places(row) : ToolAt(row, q).name = ToolAt(row, p).name => q = p
    BY DEF AllRegister
  <2> HIDE DEF found
  <2> QED
    BY <1>1, <2>1, Zenon
<1>3. name \in {ToolAt(row, p).name : p \in Places(row)}
  OBVIOUS
<1>4. Definitions(row)[name] = [tool |-> ToolAt(row, found), provider |-> row[found[1]].name]
  BY <1>3 DEF Definitions
<1>5. Definitions(row)[name].tool = ToolAt(row, found)
  BY <1>4
<1> HIDE DEF found
<1> QED
  BY <1>2, <1>5, Zenon

\* What the model is told of is what it can reach (registry.go:101-103, 133-137).
LEMMA OfferedIsReachable ==
    ASSUME NEW row, LET r == NewProviders(row) IN r.frozen
    PROVE  LET r == NewProviders(row)
           IN  /\ AllRegister(row) /\ r.definitions = Definitions(row)
               /\ r.offered = {name \in DOMAIN r.definitions : Reachable(r, name)}
<1> DEFINE r == NewProviders(row)
<1>1. AllRegister(row)
  BY DEF NewProviders, NewRegistry
<1>2. r = [definitions |-> Definitions(row), offered |-> Offered(row), frozen |-> TRUE, failed |-> FALSE]
  BY <1>1 DEF NewProviders
<1>3. DOMAIN Definitions(row) = {ToolAt(row, p).name : p \in Places(row)}
  BY DEF Definitions
<1>4. \A p \in Places(row) :
        Definitions(row)[ToolAt(row, p).name].tool.visibility = ToolAt(row, p).visibility
  BY <1>1, OnePlaceEach
<1>5. Offered(row) = {name \in DOMAIN Definitions(row) : Definitions(row)[name].tool.visibility # "internal"}
  BY <1>3, <1>4 DEF Offered
<1>6. {name \in DOMAIN Definitions(row) : Reachable(r, name)} =
      {name \in DOMAIN Definitions(row) : Definitions(row)[name].tool.visibility # "internal"}
  BY <1>2 DEF Reachable
<1> QED
  BY <1>1, <1>2, <1>5, <1>6

\* Before anything is loaded there is nothing to reach.
LEMMA InitAllowed == Init => AInv
BY DEF Init, AInv, RegistryIsBuilt, ProvidersAreAllowed

\* A step that leaves configuration, providers and registry alone, and does not go
\* back to loading, changes nothing that can be reached.
LEMMA QuietAllowed ==
    ASSUME AInv, UNCHANGED <<config, providers, registry>>,
           phase' # phase => phase' \notin {"starting", "checking", "connecting", "listing", "registering"}
    PROVE  AInv'
BY DEF AInv, RegistryIsBuilt, ProvidersAreAllowed, AllowedTool

\* The same while loading.
LEMMA LoadingAllowed ==
    ASSUME AInv, UNCHANGED <<config, providers, registry>>,
           phase \in {"checking", "connecting", "listing"}, phase' # "starting"
    PROVE  AInv'
BY DEF AInv, RegistryIsBuilt, ProvidersAreAllowed, AllowedTool

\* Only tools that are in the allow list of their server, and announced no side
\* effects, become tools of its provider (mcp.go:254-270).
LEMMA ListPageAllowed == LInv /\ AInv /\ ListPage => AInv'
<1> SUFFICES ASSUME LInv, AInv, ListPage PROVE AInv'
  OBVIOUS
<1>1. phase = "listing"
  BY DEF ListPage
<1>2. PICK page \in Pages :
        \/ /\ discovered' = Listed(page)
           /\ UNCHANGED <<phase, server, open, providers, exit, tasks, config, registry, late, published>>
        \/ /\ Allowed(Listed(page))
           /\ \E version \in Versions :
                 providers' = Append(providers, ProviderOf(Listed(page), version))
           /\ server' = server + 1
           /\ discovered' = NoTools
           /\ Goto("checking")
           /\ UNCHANGED <<open, exit, tasks, config, registry, late, published>>
        \/ ~Allowed(Listed(page)) /\ FailDiscover
  BY DEF ListPage
<1>3. CASE UNCHANGED <<phase, providers, config, registry>>
  BY <1>1, <1>3, LoadingAllowed
<1>4. CASE FailDiscover
  BY <1>4, QuietAllowed DEF FailDiscover, Down, Goto
<1>5. ASSUME NEW found, NEW version, Allowed(found),
             providers' = Append(providers, ProviderOf(found, version)),
             phase' = "checking", UNCHANGED <<config, registry>>
      PROVE  AInv'
  <2>1. PICK S : providers \in Seq(S)
    BY DEF LInv, TypeOK
  <2>2. Len(providers) = server - 1 /\ server \in 1..Len(config) /\ DOMAIN config = 1..Len(config)
    BY <1>1 DEF LInv, TypeOK, SessionsOf
  <2>3. /\ DOMAIN providers = 1..(server - 1) /\ DOMAIN providers' = 1..server
        /\ \A i \in 1..(server - 1) : providers'[i] = providers[i]
        /\ providers'[server] = ProviderOf(found, version)
    BY <1>5, <2>1, <2>2
  <2>4. ASSUME NEW j \in DOMAIN ProviderOf(found, version).tools
        PROVE  AllowedTool(ProviderOf(found, version).tools[j], server)
    <3> DEFINE tool == ProviderOf(found, version).tools[j]
               allow == config[server].allow
    <3>1. j \in DOMAIN allow
      BY DEF ProviderOf
    <3>2. /\ tool.name = <<config[server].name, allow[j]>>
          /\ tool.writes = found[allow[j]].writes
      BY <3>1 DEF ProviderOf
    <3>3. ~found[allow[j]].writes
      BY <1>5, <3>1 DEF Allowed
    <3>4. ~tool.writes
      <4> HIDE DEF tool, allow
      <4> QED
        BY <3>2, <3>3, Zenon
    <3>5. allow[j] \in ToSet(allow)
      BY <3>1 DEF ToSet
    <3> QED
      BY <3>2, <3>4, <3>5, Zenon DEF AllowedTool
  <2>5. \A i \in DOMAIN providers' :
          /\ i \in DOMAIN config'
          /\ \A j \in DOMAIN providers'[i].tools : AllowedTool(providers'[i].tools[j], i)
    <3> TAKE i \in DOMAIN providers'
    <3>1. CASE i = server
      BY <1>5, <2>2, <2>3, <2>4, <3>1
    <3>2. CASE i \in 1..(server - 1)
      BY <1>5, <2>3, <3>2 DEF AInv, ProvidersAreAllowed
    <3> QED
      BY <2>2, <2>3, <3>1, <3>2
  <2>6. \A tool, i : AllowedTool(tool, i)' <=> AllowedTool(tool, i)
    BY <1>5 DEF AllowedTool
  <2>7. ProvidersAreAllowed'
    BY <1>5, <2>5 DEF ProvidersAreAllowed, AllowedTool
  <2>8. RegistryIsBuilt'
    BY <1>1, <1>5 DEF AInv, RegistryIsBuilt
  <2> QED
    BY <2>7, <2>8 DEF AInv
<1> QED
  BY <1>2, <1>3, <1>4, <1>5 DEF Goto

\* Every step keeps what the registry and the providers hold.
LEMMA StepAllowed == LInv /\ AInv /\ [Next]_vars => AInv'
<1> SUFFICES ASSUME LInv, AInv, [Next]_vars PROVE AInv'
  OBVIOUS
<1>1. CASE StartFails \/ ConnectFails \/ DiscoverFails \/ RegistryRefused \/ ListenFails \/ Exit \/ Crash
  BY <1>1, QuietAllowed
     DEF StartFails, ConnectFails, DiscoverFails, RegistryRefused, ListenFails, Exit, Crash,
         FailConnect, FailDiscover, Down, Goto
<1>2. CASE Start
  BY <1>2 DEF Start, Goto, AInv, RegistryIsBuilt, ProvidersAreAllowed
<1>3. CASE Check
  <2>1. phase = "checking"
    BY <1>3 DEF Check
  <2>2. \/ FailConnect
        \/ phase' \in {"registering", "connecting"} /\ UNCHANGED <<config, providers, registry>>
    BY <1>3 DEF Check, Goto
  <2>3. CASE FailConnect
    BY <2>3, QuietAllowed DEF FailConnect, Down, Goto
  <2> QED
    BY <2>1, <2>2, <2>3, LoadingAllowed
<1>4. CASE Connect
  BY <1>4, LoadingAllowed DEF Connect, Goto
<1>5. CASE ListPage
  BY <1>5, ListPageAllowed
<1>6. CASE Freeze
  BY <1>6 DEF Freeze, Goto, AInv, RegistryIsBuilt, ProvidersAreAllowed, AllowedTool
<1>7. CASE Serve \/ Signal \/ Drained \/ DrainTimesOut \/ Close
  BY <1>7, QuietAllowed DEF Serve, Signal, Drained, DrainTimesOut, Close, Goto
<1>8. CASE Restart
  BY <1>8 DEF Restart, AInv, RegistryIsBuilt, ProvidersAreAllowed
<1>9. CASE GetCapabilities \/ (\E t \in Tasks : Submit(t) \/ TaskEnds(t)) \/ UNCHANGED vars
  BY <1>9, QuietAllowed DEF GetCapabilities, Submit, TaskEnds, process, vars
<1> QED
  BY <1>1, <1>2, <1>3, <1>4, <1>5, <1>6, <1>7, <1>8, <1>9 DEF Next, Process, Loading

\* What is reachable was allowed: a tool stands at one place in the row of the
\* built-in provider and the servers' providers.
LEMMA ReachableIsAllowed == LInv /\ AInv => OnlyAllowedTools
<1> DEFINE row == <<BuiltIn>> \o providers
<1> SUFFICES ASSUME LInv, AInv, registry.frozen
             PROVE  /\ \A name \in DOMAIN registry.definitions :
                          \/ name \in {tool.name : tool \in ToSet(BuiltIn.tools)}
                          \/ \E i \in DOMAIN config :
                                /\ name[1] = config[i].name
                                /\ name[2] \in ToSet(config[i].allow)
                                /\ ~registry.definitions[name].tool.writes
                    /\ registry.offered = {name \in DOMAIN registry.definitions : Reachable(registry, name)}
  BY Zenon DEF OnlyAllowedTools
<1>1. registry = NewProviders(row)
  BY DEF AInv, RegistryIsBuilt, NewRegistry
<1>2. /\ AllRegister(row) /\ registry.definitions = Definitions(row)
      /\ registry.offered = {name \in DOMAIN registry.definitions : Reachable(registry, name)}
  BY <1>1, OfferedIsReachable, Zenon
<1>3. PICK S : providers \in Seq(S)
  BY DEF LInv, TypeOK
<1>4. /\ DOMAIN row = 1..(Len(providers) + 1) /\ row[1] = BuiltIn
      /\ \A i \in 1..Len(providers) : row[i + 1] = providers[i]
  BY <1>3
<1>5. ASSUME NEW name \in DOMAIN registry.definitions
      PROVE  \/ name \in {tool.name : tool \in ToSet(BuiltIn.tools)}
             \/ \E i \in DOMAIN config :
                   /\ name[1] = config[i].name
                   /\ name[2] \in ToSet(config[i].allow)
                   /\ ~registry.definitions[name].tool.writes
  <2>1. PICK place \in Places(row) : name = ToolAt(row, place).name
    BY <1>2 DEF Definitions
  <2>2. registry.definitions[name].tool = ToolAt(row, place)
    BY <1>2, <2>1, OnePlaceEach
  <2>3. PICK p \in DOMAIN row : \E j \in DOMAIN row[p].tools : place = <<p, j>>
    BY DEF Places
  <2>4. PICK j \in DOMAIN row[p].tools : place = <<p, j>>
    BY <2>3
  <2>5. ToolAt(row, place) = row[p].tools[j]
    BY <2>4 DEF ToolAt
  <2>6. CASE p = 1
    <3>1. BuiltIn.tools[j] \in ToSet(BuiltIn.tools) /\ name = BuiltIn.tools[j].name
      BY <1>4, <2>1, <2>4, <2>5, <2>6 DEF ToSet
    <3> QED
      BY <3>1
  <2>7. CASE p # 1
    <3>1. p - 1 \in 1..Len(providers) /\ row[p] = providers[p - 1]
      <4>1. p \in 1..(Len(providers) + 1) /\ Len(providers) \in Nat
        BY <1>3, <1>4
      <4>2. p - 1 \in 1..Len(providers) /\ (p - 1) + 1 = p
        BY <2>7, <4>1
      <4> QED
        BY <1>4, <4>2
    <3>2. AllowedTool(row[p].tools[j], p - 1) /\ p - 1 \in DOMAIN config
      BY <1>3, <2>4, <3>1 DEF AInv, ProvidersAreAllowed
    <3>3. PICK n \in ToSet(config[p - 1].allow) : row[p].tools[j].name = <<config[p - 1].name, n>>
      BY <3>2 DEF AllowedTool
    <3>4. ~registry.definitions[name].tool.writes
      BY <2>2, <2>5, <3>2, Zenon DEF AllowedTool
    <3>5. name = <<config[p - 1].name, n>>
      BY <2>1, <2>5, <3>3
    <3>6. name[1] = config[p - 1].name /\ name[2] = n
      BY <3>5
    <3> QED
      BY <3>2, <3>3, <3>4, <3>6, Zenon
  <2> QED
    BY <2>6, <2>7
<1> QED
  BY <1>2, <1>5, Zenon

-----------------------------------------------------------------------------
(* Theorems *)

\* Whichever server of however many failed, in whichever of its steps, no session
\* to any of them stays open, nor does one after an orderly stop, and a process
\* that serves has one to each; if one is open when the process is gone, it crashed
\* or left by os.Exit (mcp.go:84-99, 164; main.go:39-49, 59-64, 69-73).
THEOREM EverySessionIsClosed == Spec => []SessionsAreBalanced
<1>1. LInv => SessionsAreBalanced
  BY DEF LInv
<1> QED
  BY <1>1, Inductive, PTL

\* However many instances a task outlives, and whatever tools their servers
\* advertise, it only ever runs with the tools it was frozen with
\* (tasks.go:42-56).
THEOREM TasksKeepTheirTools == Spec => []PinnedToolsOnly
<1>1. LInv => PinnedToolsOnly
  BY DEF LInv
<1> QED
  BY <1>1, Inductive, PTL

\* No task runs without the sessions of all servers, unless the ten seconds of
\* the shutdown are over (main.go:39-43, 69-73).
THEOREM SessionsOutliveTasks == Spec => []ToolsOutliveTasks
<1>1. LInv => ToolsOutliveTasks
  BY DEF LInv, SessionsAreBalanced, TasksAreServed, ToolsOutliveTasks
<1> QED
  BY <1>1, Inductive, PTL

\* Whatever the servers list, the model reaches the built-in tools and, of each
\* server, only tools the configuration allows and that announced no side effects;
\* what it is told of is what it can reach (mcp.go:225-270; registry.go:62-137).
THEOREM OnlyAllowedAreReached == Spec => []OnlyAllowedTools
BY InitAllowed, StepAllowed, ReachableIsAllowed, Inductive, PTL DEF Spec
==============================================================================
