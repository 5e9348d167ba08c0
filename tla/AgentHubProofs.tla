--------------------------- MODULE AgentHubProofs ---------------------------
(***************************************************************************)
(* Proofs about AgentHub, for every set of agents and connections, however *)
(* they are owned, and every number of incidents.                          *)
(***************************************************************************)
EXTENDS AgentHub, FiniteSetTheorems, TLAPS

\* Only the goroutines of agents register, relay frames and clean up tables.
OnlyAgents ==
  /\ \A c \in Conns :
       handler[c] \in {"routed", "named", "ranging", "casting"} \cup Leaving => IsAgent(c)
  /\ \A c \in named : IsAgent(c)

\* An agent has its name from the hello until its clean-up has come to it, also
\* while other connections of the same agent come and go.
AgentsAreNamed ==
  \A c \in Conns :
    IsAgent(c) /\ handler[c] \in {"named", "reading", "closing", "unrouted"} \cup Relays
      => c \in named

TablesOK == OnlyAgents /\ NothingOutlivesItsHandler /\ AgentsAreNamed

IInv == TypeOK /\ TablesOK

LEMMA AgentOwners == \A c \in Conns : IsAgent(c) <=> Owner[c] \in Agents
BY ViewerAssumption, OwnerAssumption DEF IsAgent

LEMMA PhaseTypes ==
  /\ {"absent", "gone", "reading"} \cup Hello \cup Relays \cup Leaving \subseteq Phases
  /\ \A c \in Conns, p \in Phases : TypeOK /\ Goto(c, p) => handler' \in [Conns -> Phases]
BY DEF Goto, TypeOK, Phases

LEMMA WriteTypes ==
  ASSUME TypeOK, NEW c \in Conns, NEW p \in Phases, NEW to \in SUBSET Conns, WriteTo(c, p, to)
  PROVE  /\ handler' \in [Conns -> Phases] /\ targets' \in [Conns -> SUBSET Conns]
         /\ ranged' \in [Conns -> SUBSET Conns]
BY PhaseTypes DEF WriteTo, TypeOK

LEMMA InitInv == Init => IInv
<1> SUFFICES ASSUME Init PROVE IInv
  OBVIOUS
<1>1. TypeOK
  <2>1. handler \in [Conns -> Phases] /\ pingers \in [Agents -> Nat]
    BY DEF Init, Phases
  <2>2. incidents \in 0 .. MaxIncidents
    BY IncidentsAssumption DEF Init
  <2>3. QED BY <2>1, <2>2 DEF Init, TypeOK
<1>2. OnlyAgents
  BY DEF Init, OnlyAgents, Leaving
<1>3. NothingOutlivesItsHandler /\ AgentsAreNamed
  BY DEF Init, NothingOutlivesItsHandler, AgentsAreNamed, Relays, Writing
<1>4. QED BY <1>1, <1>2, <1>3 DEF IInv, TablesOK

-----------------------------------------------------------------------------
(* Types.                                                                    *)

\* The steps by which a goroutine enters its connection into the tables.
LEMMA HelloTypes ==
  ASSUME IInv, NEW c \in Conns,
         Connect(c) \/ GreetViewer(c) \/ Route(c) \/ Name(c) \/ StoreInfo(c)
  PROVE  TypeOK'
<1> USE DEF IInv
<1>1. CASE Connect(c)
  BY <1>1, PhaseTypes DEF Connect, Hello, TypeOK, relays, notice
<1>2. CASE GreetViewer(c)
  <2>1. /\ handler' \in [Conns -> Phases] /\ targets' \in [Conns -> SUBSET Conns]
        /\ ranged' \in [Conns -> SUBSET Conns]
    BY <1>2, PhaseTypes, WriteTypes DEF GreetViewer, Relays, Writing
  <2>2. QED BY <1>2, <2>1 DEF GreetViewer, TypeOK, tables, network, relays, notice
<1>3. CASE Route(c)
  <2>1. handler' \in [Conns -> Phases]
    BY <1>3, PhaseTypes DEF Route, Hello
  <2>2. route' \in [Agents -> Conns \cup {NoConn}]
    BY <1>3 DEF Route, TypeOK
  <2>3. QED BY <1>3, <2>1, <2>2 DEF Route, TypeOK, network, relays, notice
<1>4. CASE Name(c)
  <2>1. handler' \in [Conns -> Phases]
    BY <1>4, PhaseTypes DEF Name, Hello
  <2>2. pingers' \in [Agents -> Nat]
    <3>1. pingers' = [pingers EXCEPT ![Owner[c]] = pingers[Owner[c]] + 1]
      BY <1>4 DEF Name
    <3>2. \A a \in Agents : pingers[a] \in Nat /\ pingers[a] + 1 \in Nat
      BY DEF TypeOK
    <3>3. QED BY <3>1, <3>2 DEF TypeOK
  <2>3. QED BY <1>4, <2>1, <2>2 DEF Name, TypeOK, network, relays, notice
<1>5. CASE StoreInfo(c)
  <2>1. /\ handler' \in [Conns -> Phases] /\ targets' \in [Conns -> SUBSET Conns]
        /\ ranged' \in [Conns -> SUBSET Conns]
    <3>1. {"reading", "sending"} \subseteq Phases
      BY PhaseTypes DEF Relays, Writing
    <3>2. CASE WriteTo(c, "sending", {c})
      BY <3>1, <3>2, WriteTypes
    <3>3. CASE Goto(c, "reading") /\ UNCHANGED relays
      BY <3>1, <3>3, PhaseTypes DEF TypeOK, relays
    <3>4. QED BY <1>5, <3>2, <3>3 DEF StoreInfo
  <2>2. info' \subseteq Agents
    BY <1>5, AgentOwners DEF StoreInfo, TablesOK, OnlyAgents, TypeOK
  <2>3. QED BY <1>5, <2>1, <2>2 DEF StoreInfo, TypeOK, network, relays, notice
<1>6. QED BY <1>1, <1>2, <1>3, <1>4, <1>5

\* The steps by which it relays frames and commands.
RelayStep(c) ==
  \/ Frame(c)
  \/ \E a \in Agents : Command(c, a)
  \/ \E d \in Conns : FrameLooks(c, d) \/ WriteEnds(c, d)

\* Looking at one connection: its phase, what is left to see, who is written to.
LEMMA LookTypes ==
  ASSUME IInv, NEW c \in Conns, NEW d \in Conns, FrameLooks(c, d)
  PROVE  /\ handler[c] = "ranging"
         /\ handler' \in [Conns -> Phases]
         /\ \A e \in Conns : e # c => handler'[e] = handler[e]
         /\ handler'[c] \in {"ranging", "reading", "casting"}
         /\ handler'[c] = "casting" => targets'[c] # {}
         /\ handler'[c] = "reading" => targets'[c] = {}
         /\ ranged' \in [Conns -> SUBSET Conns]
         /\ targets' \in [Conns -> SUBSET Conns]
         /\ \A e \in Conns : ranged'[e] \subseteq ranged[e]
         /\ \A e \in Conns : e # c => targets'[e] = targets[e]
         /\ targets[c] \subseteq targets'[c]
         /\ targets'[c] \subseteq targets[c] \cup ((ranged[c] \cap {d}) \ named)
<1>1. /\ handler \in [Conns -> Phases] /\ {"ranging", "reading", "casting"} \subseteq Phases
      /\ ranged \in [Conns -> SUBSET Conns] /\ targets \in [Conns -> SUBSET Conns]
  BY DEF IInv, TypeOK, Phases, Relays, Writing
<1>2. /\ handler[c] = "ranging" /\ d \in ranged[c]
      /\ ranged' = [ranged EXCEPT ![c] = ranged[c] \ {d}]
      /\ \/ targets' = targets
         \/ targets' = [targets EXCEPT ![c] = targets[c] \cup ({d} \ named)]
  BY DEF FrameLooks
<1>3. \/ handler' = handler
      \/ handler' = [handler EXCEPT ![c] = IF targets'[c] = {} THEN "reading" ELSE "casting"]
  BY DEF FrameLooks, Goto
<1>4. /\ handler' \in [Conns -> Phases]
      /\ \A e \in Conns : e # c => handler'[e] = handler[e]
      /\ handler'[c] \in {"ranging", "reading", "casting"}
      /\ handler'[c] = "casting" => targets'[c] # {}
      /\ handler'[c] = "reading" => targets'[c] = {}
  BY <1>1, <1>2, <1>3
<1>5. /\ ranged' \in [Conns -> SUBSET Conns]
      /\ \A e \in Conns : ranged'[e] \subseteq ranged[e]
  BY <1>1, <1>2
<1>6. /\ targets' \in [Conns -> SUBSET Conns]
      /\ \A e \in Conns : e # c => targets'[e] = targets[e]
      /\ targets[c] \subseteq targets'[c]
      /\ targets'[c] \subseteq targets[c] \cup ((ranged[c] \cap {d}) \ named)
  BY <1>1, <1>2
<1>7. QED BY <1>2, <1>4, <1>5, <1>6

LEMMA RelayTypes ==
  ASSUME IInv, NEW c \in Conns, RelayStep(c)
  PROVE  TypeOK'
<1> USE DEF IInv
<1>1. CASE Frame(c)
  <2>1. handler' \in [Conns -> Phases] /\ ranged' \in [Conns -> SUBSET Conns]
    BY <1>1, PhaseTypes DEF Frame, Relays, TypeOK
  <2>2. QED BY <1>1, <2>1 DEF Frame, TypeOK, tables, network, relays, notice
<1>2. CASE \E a \in Agents : Command(c, a)
  <2>1. PICK a \in Agents : Command(c, a)
    BY <1>2
  <2>2. "sending" \in Phases /\ {route[a]} \in SUBSET Conns
    BY <2>1, PhaseTypes DEF Command, TypeOK, Relays, Writing
  <2>3. /\ handler' \in [Conns -> Phases] /\ targets' \in [Conns -> SUBSET Conns]
        /\ ranged' \in [Conns -> SUBSET Conns]
    BY <2>1, <2>2, WriteTypes DEF Command
  <2>4. QED BY <2>1, <2>3 DEF Command, TypeOK, tables, network, relays, notice
<1>3. CASE \E d \in Conns : FrameLooks(c, d)
  <2>1. PICK d \in Conns : FrameLooks(c, d)
    BY <1>3
  <2>2. /\ handler' \in [Conns -> Phases] /\ targets' \in [Conns -> SUBSET Conns]
        /\ ranged' \in [Conns -> SUBSET Conns]
    BY <2>1, LookTypes
  <2>3. QED BY <2>1, <2>2 DEF FrameLooks, TypeOK, tables, network, relays, notice
<1>4. CASE \E d \in Conns : WriteEnds(c, d)
  <2>1. PICK d \in Conns : WriteEnds(c, d)
    BY <1>4
  <2>2. handler' \in [Conns -> Phases]
    BY <2>1, PhaseTypes DEF WriteEnds, TypeOK
  <2>3. targets' \in [Conns -> SUBSET Conns] /\ clients' \subseteq Conns
    BY <2>1 DEF WriteEnds, TypeOK
  <2>4. QED BY <2>1, <2>2, <2>3 DEF WriteEnds, TypeOK, network, relays, notice
<1>5. QED BY <1>1, <1>2, <1>3, <1>4 DEF RelayStep

\* The steps by which it cleans up.
LEMMA CleanUpTypes ==
  ASSUME IInv, NEW c \in Conns, ReadFails(c) \/ Unroute(c) \/ Unname(c) \/ DropInfo(c)
  PROVE  TypeOK'
<1> USE DEF IInv
<1>1. handler' \in [Conns -> Phases]
  BY PhaseTypes DEF ReadFails, Unroute, Unname, DropInfo, Leaving
<1>2. route' \in [Agents -> Conns \cup {NoConn}]
  BY DEF ReadFails, Unroute, Unname, DropInfo, TypeOK
<1>3. QED BY <1>1, <1>2 DEF ReadFails, Unroute, Unname, DropInfo, TypeOK, network, relays, notice

\* Notifications, ping loops, removals and the network.
LEMMA OtherTypes ==
  ASSUME IInv,
         \/ NotifyStarts \/ Notifies
         \/ \E c \in Conns : Drop(c) \/ Stall(c) \/ Resume(c)
         \/ \E a \in Agents : PingEnds(a) \/ RemoveRoute(a) \/ RemoveInfo(a)
  PROVE  TypeOK'
<1> USE DEF IInv
<1>1. CASE NotifyStarts \/ Notifies
  BY <1>1 DEF NotifyStarts, Notifies, NotifyEnds, NotifyWrites, TypeOK, tables, network, relays
<1>2. CASE \E c \in Conns : Drop(c) \/ Stall(c) \/ Resume(c)
  <2>1. up' \subseteq Conns /\ stalled' \subseteq up'
    BY <1>2 DEF Drop, Stall, Resume, TypeOK
  <2>2. incidents' \in 0 .. MaxIncidents
    BY <1>2, IncidentsAssumption DEF Drop, Stall, Resume, TypeOK
  <2>3. QED BY <1>2, <2>1, <2>2 DEF Drop, Stall, Resume, TypeOK, tables, relays, notice
<1>3. CASE \E a \in Agents : PingEnds(a)
  <2>1. pingers' \in [Agents -> Nat]
    BY <1>3 DEF PingEnds, TypeOK
  <2>2. QED BY <1>3, <2>1 DEF PingEnds, TypeOK, tables, network, relays, notice
<1>4. CASE \E a \in Agents : RemoveRoute(a)
  <2>1. incidents' \in 0 .. MaxIncidents
    BY <1>4, IncidentsAssumption DEF RemoveRoute, TypeOK
  <2>2. route' \in [Agents -> Conns \cup {NoConn}] /\ up' \subseteq Conns /\ stalled' \subseteq up'
    BY <1>4 DEF RemoveRoute, TypeOK
  <2>3. QED BY <1>4, <2>1, <2>2 DEF RemoveRoute, TypeOK, relays, notice
<1>5. CASE \E a \in Agents : RemoveInfo(a)
  BY <1>5 DEF RemoveInfo, TypeOK, network, relays, notice
<1>6. QED BY <1>1, <1>2, <1>3, <1>4, <1>5

-----------------------------------------------------------------------------
(* The tables.                                                               *)

\* A goroutine that is registered and goes on relaying, or that stays where it
\* is, leaves the tables as they have to be; so does forgetting clients.
LEMMA RelayKeepsTables ==
  ASSUME IInv,
         UNCHANGED <<route, named, info>>, clients' \subseteq clients,
         \A c \in Conns : \/ handler'[c] = handler[c]
                         \/ /\ handler[c] \in {"reading"} \cup Relays
                            /\ handler'[c] \in {"reading"} \cup Relays
                            /\ handler'[c] \in {"ranging", "casting"} => IsAgent(c)
  PROVE  TablesOK'
<1> USE DEF IInv, TablesOK
<1>0. clients \subseteq Conns /\ named \subseteq Conns /\ route \in [Agents -> Conns \cup {NoConn}]
  BY DEF TypeOK
<1>1. OnlyAgents'
  BY DEF OnlyAgents, Leaving, Relays, Writing
<1>2. \A c \in clients' : handler'[c] \in InClients
  BY <1>0 DEF NothingOutlivesItsHandler, InClients, Relays, Writing
<1>3. \A a \in Agents :
        route'[a] # NoConn => Owner[route'[a]] = a /\ handler'[route'[a]] \in InRoute
  BY <1>0 DEF NothingOutlivesItsHandler, InRoute, Relays, Writing
<1>4. \A c \in named' : handler'[c] \in InNamed
  BY <1>0 DEF NothingOutlivesItsHandler, InNamed, Relays, Writing
<1>5. \A a \in info' : \E c \in ConnsOf(a) : handler'[c] \in InInfo
  <2>1. \A c \in Conns : handler[c] \in InInfo => handler'[c] \in InInfo
    BY DEF InInfo, Relays, Writing
  <2>2. QED BY <2>1 DEF NothingOutlivesItsHandler, ConnsOf
<1>6. AgentsAreNamed'
  BY <1>0 DEF AgentsAreNamed, Relays, Writing
<1>7. QED BY <1>1, <1>2, <1>3, <1>4, <1>5, <1>6 DEF NothingOutlivesItsHandler, ConnsOf

LEMMA RelayTables ==
  ASSUME IInv, NEW c \in Conns, RelayStep(c)
  PROVE  TablesOK'
<1>1. handler \in [Conns -> Phases]
  BY DEF IInv, TypeOK
<1>2. CASE Frame(c) \/ \E a \in Agents : Command(c, a)
  BY <1>1, <1>2, RelayKeepsTables DEF Frame, Command, WriteTo, Goto, Relays, Writing, tables
<1>3. CASE \E d \in Conns : FrameLooks(c, d)
  <2>1. PICK d \in Conns : FrameLooks(c, d)
    BY <1>3
  <2>2. /\ handler[c] = "ranging" /\ handler'[c] \in {"ranging", "reading", "casting"}
        /\ \A e \in Conns : e # c => handler'[e] = handler[e]
    BY <2>1, LookTypes
  <2>3. IsAgent(c)
    BY <2>2 DEF IInv, TablesOK, OnlyAgents
  <2>4. UNCHANGED <<clients, route, named, info>>
    BY <2>1 DEF FrameLooks, tables
  <2>5. QED BY <2>2, <2>3, <2>4, RelayKeepsTables DEF Relays, Writing
<1>4. CASE \E d \in Conns : WriteEnds(c, d)
  <2>1. PICK d \in Conns : WriteEnds(c, d)
    BY <1>4
  <2>2. \A e \in Conns : handler'[e] = handler[e] \/ (e = c /\ handler'[e] = "reading")
    BY <1>1, <2>1 DEF WriteEnds, Goto
  <2>3. handler[c] \in Writing /\ clients' \subseteq clients /\ UNCHANGED <<route, named, info>>
    BY <2>1 DEF WriteEnds
  <2>4. QED BY <2>2, <2>3, RelayKeepsTables DEF Relays
<1>5. QED BY <1>2, <1>3, <1>4 DEF RelayStep

LEMMA HelloTables ==
  ASSUME IInv, NEW c \in Conns,
         Connect(c) \/ GreetViewer(c) \/ Route(c) \/ Name(c) \/ StoreInfo(c)
  PROVE  TablesOK'
<1> USE DEF IInv, TablesOK
<1>0. handler \in [Conns -> Phases] /\ route \in [Agents -> Conns \cup {NoConn}]
  BY DEF TypeOK
<1>1. CASE Connect(c)
  <2>1. /\ handler' = [handler EXCEPT ![c] = "unnamed"] /\ handler[c] = "absent"
        /\ clients' = clients \cup {c} /\ UNCHANGED <<route, named, info>>
    BY <1>1 DEF Connect, Goto
  <2>2. OnlyAgents'
    BY <1>0, <2>1 DEF OnlyAgents, Leaving
  <2>3. NothingOutlivesItsHandler'
    BY <1>0, <2>1, ConnAssumption
       DEF NothingOutlivesItsHandler, InClients, InRoute, InNamed, InInfo, ConnsOf, Relays, Writing, Leaving,
           TypeOK
  <2>4. QED BY <1>0, <2>1, <2>2, <2>3 DEF AgentsAreNamed, Relays, Writing, TypeOK
<1>2. CASE GreetViewer(c)
  <2>1. /\ handler' = [handler EXCEPT ![c] = "sending"] /\ handler[c] = "unnamed" /\ ~IsAgent(c)
        /\ UNCHANGED <<clients, route, named, info>>
    BY <1>2 DEF GreetViewer, WriteTo, Goto, tables
  <2>2. OnlyAgents'
    BY <1>0, <2>1 DEF OnlyAgents, Leaving
  <2>3. NothingOutlivesItsHandler'
    BY <1>0, <2>1, ConnAssumption
       DEF NothingOutlivesItsHandler, InClients, InRoute, InNamed, InInfo, ConnsOf, Relays, Writing, Leaving,
           TypeOK
  <2>4. QED BY <1>0, <2>1, <2>2, <2>3 DEF AgentsAreNamed, Relays, Writing, TypeOK
<1>3. CASE Route(c)
  <2>1. /\ handler' = [handler EXCEPT ![c] = "routed"] /\ handler[c] = "unnamed" /\ IsAgent(c)
        /\ route' = [route EXCEPT ![Owner[c]] = c] /\ UNCHANGED <<clients, named, info>>
    BY <1>3 DEF Route, Goto
  <2>2. OnlyAgents'
    BY <1>0, <2>1 DEF OnlyAgents, Leaving
  <2>3. NothingOutlivesItsHandler'
    BY <1>0, <2>1, ConnAssumption
       DEF NothingOutlivesItsHandler, InClients, InRoute, InNamed, InInfo, ConnsOf, Relays, Writing, Leaving,
           TypeOK
  <2>4. QED BY <1>0, <2>1, <2>2, <2>3 DEF AgentsAreNamed, Relays, Writing, TypeOK
<1>4. CASE Name(c)
  <2>1. /\ handler' = [handler EXCEPT ![c] = "named"] /\ handler[c] = "routed"
        /\ named' = named \cup {c} /\ UNCHANGED <<clients, route, info>>
    BY <1>4 DEF Name, Goto
  <2>2. OnlyAgents'
    BY <1>0, <2>1 DEF OnlyAgents, Leaving
  <2>3. NothingOutlivesItsHandler'
    BY <1>0, <2>1, ConnAssumption
       DEF NothingOutlivesItsHandler, InClients, InRoute, InNamed, InInfo, ConnsOf, Relays, Writing, Leaving,
           TypeOK
  <2>4. QED BY <1>0, <2>1, <2>2, <2>3 DEF AgentsAreNamed, Relays, Writing, TypeOK
<1>5. CASE StoreInfo(c)
  <2>1. PICK p \in {"reading", "sending"} : handler' = [handler EXCEPT ![c] = p]
    BY <1>5 DEF StoreInfo, WriteTo, Goto
  <2>2. /\ handler[c] = "named"
        /\ info' = info \cup {Owner[c]} /\ UNCHANGED <<clients, route, named>>
    BY <1>5 DEF StoreInfo
  <2>3. OnlyAgents'
    BY <1>0, <2>1, <2>2 DEF OnlyAgents, Leaving
  <2>4. NothingOutlivesItsHandler'
    BY <1>0, <2>1, <2>2, ConnAssumption
       DEF NothingOutlivesItsHandler, InClients, InRoute, InNamed, InInfo, ConnsOf, Relays, Writing, Leaving,
           TypeOK
  <2>5. QED BY <1>0, <2>1, <2>2, <2>3, <2>4 DEF AgentsAreNamed, Relays, Writing, TypeOK
<1>6. QED BY <1>1, <1>2, <1>3, <1>4, <1>5

LEMMA CleanUpTables ==
  ASSUME IInv, NEW c \in Conns, ReadFails(c) \/ Unroute(c) \/ Unname(c) \/ DropInfo(c)
  PROVE  TablesOK'
<1> USE DEF IInv, TablesOK
<1>0. handler \in [Conns -> Phases] /\ route \in [Agents -> Conns \cup {NoConn}]
  BY DEF TypeOK
<1>1. CASE ReadFails(c)
  <2>1. PICK p \in {"closing", "gone"} :
          /\ handler' = [handler EXCEPT ![c] = p]
          /\ p = "closing" => IsAgent(c) /\ handler[c] = "reading"
          /\ p = "gone" => ~IsAgent(c) \/ handler[c] = "unnamed"
    BY <1>1 DEF ReadFails, Goto
  <2>2. /\ handler[c] \in {"unnamed", "reading"}
        /\ clients' = clients \ {c} /\ UNCHANGED <<route, named, info>>
    BY <1>1 DEF ReadFails
  <2>3. OnlyAgents'
    BY <1>0, <2>1, <2>2 DEF OnlyAgents, Leaving
  <2>4. NothingOutlivesItsHandler'
    BY <1>0, <2>1, <2>2, ConnAssumption, AgentOwners
       DEF NothingOutlivesItsHandler, OnlyAgents, InClients, InRoute, InNamed, InInfo, ConnsOf,
           Relays, Writing, Leaving, TypeOK
  <2>5. QED BY <1>0, <2>1, <2>2, <2>3, <2>4 DEF AgentsAreNamed, Relays, Writing, TypeOK
<1>2. CASE Unroute(c)
  <2>1. /\ handler' = [handler EXCEPT ![c] = "unrouted"] /\ handler[c] = "closing"
        /\ route' = [route EXCEPT ![Owner[c]] = NoConn] /\ UNCHANGED <<clients, named, info>>
    BY <1>2 DEF Unroute, Goto
  <2>2. OnlyAgents'
    BY <1>0, <2>1 DEF OnlyAgents, Leaving
  <2>3. NothingOutlivesItsHandler'
    BY <1>0, <2>1, ConnAssumption
       DEF NothingOutlivesItsHandler, InClients, InRoute, InNamed, InInfo, ConnsOf, Relays, Writing, Leaving,
           TypeOK
  <2>4. QED BY <1>0, <2>1, <2>2, <2>3 DEF AgentsAreNamed, Relays, Writing, TypeOK
<1>3. CASE Unname(c)
  <2>1. /\ handler' = [handler EXCEPT ![c] = "nameless"] /\ handler[c] = "unrouted"
        /\ named' = named \ {c} /\ UNCHANGED <<clients, route, info>>
    BY <1>3 DEF Unname, Goto
  <2>2. OnlyAgents'
    BY <1>0, <2>1 DEF OnlyAgents, Leaving
  <2>3. NothingOutlivesItsHandler'
    BY <1>0, <2>1, ConnAssumption
       DEF NothingOutlivesItsHandler, InClients, InRoute, InNamed, InInfo, ConnsOf, Relays, Writing, Leaving,
           TypeOK
  <2>4. c \notin clients
    BY <2>1 DEF NothingOutlivesItsHandler, InClients, Relays, Writing
  <2>5. QED BY <1>0, <2>1, <2>2, <2>3, <2>4 DEF AgentsAreNamed, Relays, Writing, TypeOK
<1>4. CASE DropInfo(c)
  <2>1. /\ handler' = [handler EXCEPT ![c] = "gone"] /\ handler[c] = "nameless"
        /\ info' = info \ {Owner[c]} /\ UNCHANGED <<clients, route, named>>
    BY <1>4 DEF DropInfo, Goto
  <2>2. OnlyAgents'
    BY <1>0, <2>1 DEF OnlyAgents, Leaving
  <2>3. NothingOutlivesItsHandler'
    BY <1>0, <2>1, ConnAssumption
       DEF NothingOutlivesItsHandler, InClients, InRoute, InNamed, InInfo, ConnsOf, Relays, Writing, Leaving,
           TypeOK
  <2>4. QED BY <1>0, <2>1, <2>2, <2>3 DEF AgentsAreNamed, NothingOutlivesItsHandler, Relays, Writing, TypeOK
<1>5. QED BY <1>1, <1>2, <1>3, <1>4

LEMMA OtherTables ==
  ASSUME IInv,
         \/ NotifyStarts \/ Notifies
         \/ \E c \in Conns : Drop(c) \/ Stall(c) \/ Resume(c)
         \/ \E a \in Agents : PingEnds(a) \/ RemoveRoute(a) \/ RemoveInfo(a)
  PROVE  TablesOK'
<1>1. CASE \E a \in Agents : RemoveRoute(a)
  <2>1. PICK a \in Agents : route' = [route EXCEPT ![a] = NoConn]
    BY <1>1 DEF RemoveRoute
  <2>2. UNCHANGED <<handler, clients, named, info>>
    BY <1>1 DEF RemoveRoute
  <2>3. QED BY <2>1, <2>2
         DEF IInv, TypeOK, TablesOK, OnlyAgents, NothingOutlivesItsHandler, AgentsAreNamed, ConnsOf
<1>2. CASE \E a \in Agents : RemoveInfo(a)
  <2>1. UNCHANGED <<handler, clients, route, named>> /\ info' \subseteq info
    BY <1>2 DEF RemoveInfo
  <2>2. QED BY <2>1
         DEF IInv, TypeOK, TablesOK, OnlyAgents, NothingOutlivesItsHandler, AgentsAreNamed, ConnsOf
<1>3. CASE \/ NotifyStarts \/ Notifies
           \/ \E c \in Conns : Drop(c) \/ Stall(c) \/ Resume(c)
           \/ \E a \in Agents : PingEnds(a)
  <2>1. UNCHANGED <<handler, tables>>
    BY <1>3 DEF NotifyStarts, Notifies, NotifyEnds, NotifyWrites, Drop, Stall, Resume, PingEnds
  <2>2. QED BY <2>1, RelayKeepsTables DEF tables
<1>4. QED BY <1>1, <1>2, <1>3

LEMMA IInvIsInductive == IInv /\ [Next]_vars => IInv'
<1>1. ASSUME IInv, Next PROVE IInv'
  <2>1. TypeOK'
    BY <1>1, HelloTypes, RelayTypes, CleanUpTypes, OtherTypes DEF Next, Works, RelayStep
  <2>2. TablesOK'
    BY <1>1, HelloTables, RelayTables, CleanUpTables, OtherTables DEF Next, Works, RelayStep
  <2>3. QED BY <2>1, <2>2 DEF IInv
<1>2. ASSUME IInv, UNCHANGED vars PROVE IInv'
  <2>1. TypeOK'
    BY <1>2 DEF IInv, TypeOK, vars, tables, network, relays, notice
  <2>2. TablesOK'
    BY <1>2, RelayKeepsTables DEF vars, tables
  <2>3. QED BY <2>1, <2>2 DEF IInv
<1>3. QED BY <1>1, <1>2

LEMMA IInvHolds == Spec => []IInv
BY InitInv, IInvIsInductive, PTL DEF Spec

\* The phases of the goroutines, the tables and the writes under way have their
\* types: nothing is ever sent to a connection that does not exist.
THEOREM TypeCorrect == Spec => []TypeOK
<1>1. IInv => TypeOK
  BY DEF IInv
<1>2. QED BY <1>1, IInvHolds, PTL

\* However agents reconnect while the goroutines of their former connections
\* clean up table by table: when a goroutine has ended, no table lists its
\* connection, and agentConns never leads to another agent's.
THEOREM TablesCorrect == Spec => []NothingOutlivesItsHandler
<1>1. IInv => NothingOutlivesItsHandler
  BY DEF IInv, TablesOK
<1>2. QED BY <1>1, IInvHolds, PTL

-----------------------------------------------------------------------------
(* Frames.                                                                   *)

\* What Range still has to come to had a goroutine when it was listed.
RangedArePresent ==
  /\ \A c \in Conns : \A d \in ranged[c] : handler[d] # "absent"
  /\ \A c \in clients : handler[c] # "absent"

\* A goroutine cleans up after its connection has ended for good.
LeaversAreDown == \A c \in Conns : handler[c] \in {"gone"} \cup Leaving => c \notin up

FrameInv == IInv /\ RangedArePresent /\ LeaversAreDown

\* A connection that was opened is not opened again.
LEMMA PresentStay ==
  ASSUME IInv, Next, NEW c \in Conns, handler[c] # "absent"
  PROVE  handler'[c] # "absent"
<1>1. handler \in [Conns -> Phases]
  BY DEF IInv, TypeOK
<1>2. ASSUME NEW e \in Conns, NEW d \in Conns, FrameLooks(e, d) PROVE handler'[c] # "absent"
  BY <1>1, <1>2 DEF FrameLooks, Goto
<1>3. QED
  BY <1>1, <1>2
     DEF Next, Works, Connect, GreetViewer, Route, Name, StoreInfo, ReadFails, Unroute, Unname,
         DropInfo, WriteEnds, WriteTo, Goto, Frame, FrameLooks, Command, Drop, Stall, Resume, NotifyStarts,
         Notifies, NotifyEnds, NotifyWrites, PingEnds, RemoveRoute, RemoveInfo

LEMMA RangedStep == IInv /\ RangedArePresent /\ [Next]_vars => RangedArePresent'
<1> SUFFICES ASSUME IInv, RangedArePresent, [Next]_vars PROVE RangedArePresent'
  OBVIOUS
<1>1. CASE UNCHANGED vars
  BY <1>1 DEF RangedArePresent, vars, tables, relays
<1>2. CASE Next
  <2>1. /\ ranged \in [Conns -> SUBSET Conns] /\ clients \subseteq Conns
        /\ handler \in [Conns -> Phases]
    BY DEF IInv, TypeOK
  <2>2. \A c \in Conns : ranged'[c] \subseteq ranged[c] \cup clients
    <3>1. ASSUME NEW c \in Conns, NEW d \in Conns, FrameLooks(c, d)
          PROVE  \A e \in Conns : ranged'[e] \subseteq ranged[e]
      BY <3>1, LookTypes
    <3>2. ASSUME NEW c \in Conns, Frame(c)
          PROVE  \A e \in Conns : ranged'[e] \subseteq ranged[e] \cup clients
      BY <2>1, <3>2 DEF Frame
    <3>3. CASE UNCHANGED ranged
      BY <3>3
    <3>4. QED
      BY <1>2, <3>1, <3>2, <3>3
         DEF Next, Works, Connect, GreetViewer, Route, Name, StoreInfo, ReadFails, Unroute, Unname,
             DropInfo, WriteEnds, WriteTo, Command, Drop, Stall, Resume, NotifyStarts, Notifies,
             NotifyEnds, NotifyWrites, PingEnds, RemoveRoute, RemoveInfo, relays
  <2>3. \A c \in clients' : c \in Conns /\ handler'[c] # "absent"
    BY IInvIsInductive, <1>2
       DEF IInv, TypeOK, TablesOK, NothingOutlivesItsHandler, InClients, Relays, Writing
  <2>4. QED BY <1>2, <2>1, <2>2, <2>3, PresentStay DEF RangedArePresent
<1>3. QED BY <1>1, <1>2

LEMMA DownStep == IInv /\ LeaversAreDown /\ [Next]_vars => LeaversAreDown'
<1> SUFFICES ASSUME IInv, LeaversAreDown, [Next]_vars PROVE LeaversAreDown'
  OBVIOUS
<1>1. handler \in [Conns -> Phases]
  BY DEF IInv, TypeOK
<1>2. ASSUME NEW c \in Conns, Connect(c) PROVE LeaversAreDown'
  BY <1>1, <1>2 DEF Connect, Goto, LeaversAreDown, Leaving
<1>3. ASSUME NEW c \in Conns, ReadFails(c) \/ Unroute(c) \/ Unname(c) \/ DropInfo(c)
      PROVE  LeaversAreDown'
  BY <1>1, <1>3
     DEF ReadFails, Unroute, Unname, DropInfo, Goto, LeaversAreDown, Leaving, network
<1>4. ASSUME up' \subseteq up,
             \A c \in Conns : handler'[c] = handler[c] \/ handler'[c] \notin {"gone"} \cup Leaving
      PROVE  LeaversAreDown'
  BY <1>4 DEF LeaversAreDown
<1>5. ASSUME NEW c \in Conns, RelayStep(c) \/ GreetViewer(c) \/ Route(c) \/ Name(c) \/ StoreInfo(c)
      PROVE  LeaversAreDown'
  <2>1. up' = up
    BY <1>5
       DEF RelayStep, Frame, Command, FrameLooks, WriteEnds, GreetViewer, Route, Name, StoreInfo,
           network
  <2>2. \A e \in Conns : handler'[e] = handler[e] \/ handler'[e] \notin {"gone"} \cup Leaving
    BY <1>1, <1>5
       DEF RelayStep, Frame, Command, FrameLooks, WriteEnds, GreetViewer, Route, Name, StoreInfo,
           WriteTo, Goto, Leaving
  <2>3. QED BY <1>4, <2>1, <2>2
<1>6. CASE \/ NotifyStarts \/ Notifies \/ UNCHANGED vars
           \/ \E c \in Conns : Drop(c) \/ Stall(c) \/ Resume(c)
           \/ \E a \in Agents : PingEnds(a) \/ RemoveRoute(a) \/ RemoveInfo(a)
  <2>1. handler' = handler /\ up' \subseteq up
    BY <1>6
       DEF NotifyStarts, Notifies, NotifyEnds, NotifyWrites, Drop, Stall, Resume, PingEnds,
           RemoveRoute, RemoveInfo, network, vars
  <2>2. QED BY <1>4, <2>1
<1>7. QED BY <1>2, <1>3, <1>5, <1>6 DEF Next, Works, RelayStep

\* broadcastFrame addresses no frame to an agent that is registered and connected,
\* whatever happens between its looks at two connections.
THEOREM FramesCorrect == Spec => FramesSpareAgents
<1> DEFINE Spares == \A c, d \in Conns :
                        /\ handler[c] = "ranging"
                        /\ d \in targets'[c] \ targets[c]
                        /\ IsAgent(d)
                        => d \notin up \/ handler[d] \in {"unnamed", "routed"}
<1>1. Init => FrameInv
  BY InitInv DEF Init, FrameInv, RangedArePresent, LeaversAreDown, Leaving
<1>2. FrameInv /\ [Next]_vars => FrameInv'
  BY IInvIsInductive, RangedStep, DownStep DEF FrameInv
<1>3. FrameInv /\ [Next]_vars => [Spares]_vars
  <2> SUFFICES ASSUME FrameInv, Next, NEW c \in Conns, NEW d \in Conns,
                      handler[c] = "ranging", d \in targets'[c] \ targets[c], IsAgent(d)
               PROVE  d \notin up \/ handler[d] \in {"unnamed", "routed"}
    OBVIOUS
  <2>1. handler \in [Conns -> Phases] /\ targets \in [Conns -> SUBSET Conns]
    BY DEF FrameInv, IInv, TypeOK
  <2>2. PICK e \in Conns : FrameLooks(c, e)
    <3>1. ASSUME NEW x \in Conns, WriteTo(x, "sending", {x}), handler[x] \in {"unnamed", "named"}
          PROVE  FALSE
      BY <2>1, <3>1 DEF WriteTo
    <3>2. ASSUME NEW x \in Conns, NEW to, WriteTo(x, "sending", to), handler[x] # "ranging"
          PROVE  FALSE
      BY <2>1, <3>2 DEF WriteTo
    <3>3. ASSUME NEW x \in Conns, NEW y \in Conns, WriteEnds(x, y) PROVE FALSE
      BY <2>1, <3>3 DEF WriteEnds
    <3>4. ASSUME NEW x \in Conns, NEW y \in Conns, FrameLooks(x, y), x # c PROVE FALSE
      BY <3>4, LookTypes DEF FrameInv
    <3>5. ASSUME NEW x \in Conns, GreetViewer(x) \/ StoreInfo(x) PROVE FALSE
      BY <3>1, <3>5 DEF GreetViewer, StoreInfo, relays
    <3>6. ASSUME NEW x \in Conns, NEW a \in Agents, Command(x, a) PROVE FALSE
      BY <3>2, <3>6 DEF Command
    <3>7. CASE UNCHANGED targets
      BY <3>7
    <3>8. QED
      BY <3>3, <3>4, <3>5, <3>6, <3>7
         DEF Next, Works, Connect, Route, Name, ReadFails, Unroute, Unname, DropInfo, Frame, Drop,
             Stall, Resume, NotifyStarts, Notifies, NotifyEnds, NotifyWrites, PingEnds,
             RemoveRoute, RemoveInfo, relays
  <2>3. d \in ranged[c] /\ d \notin named
    BY <2>2, LookTypes DEF FrameInv
  <2>4. handler[d] # "absent"
    BY <2>3 DEF FrameInv, RangedArePresent
  <2>5. handler[d] \notin {"named", "reading", "closing", "unrouted"} \cup Relays
    BY <2>3 DEF FrameInv, IInv, TablesOK, AgentsAreNamed
  <2>6. handler[d] \in {"unnamed", "routed", "gone"} \cup Leaving
    BY <2>1, <2>4, <2>5 DEF Phases, Hello, Leaving
  <2>7. QED BY <2>6 DEF FrameInv, LeaversAreDown
<1>4. QED BY <1>1, <1>2, <1>3, PTL DEF Spec, FramesSpareAgents

-----------------------------------------------------------------------------
(* Writes under way.                                                         *)

\* A goroutine writes only as long as it has a target, and collects them only
\* while it ranges; whom a command or a frame is on its way to had a connection.
WritesHaveTargets ==
  \A c \in Conns :
    /\ handler[c] \in Writing => targets[c] # {}
    /\ handler[c] \notin Relays => targets[c] = {}
    /\ \A d \in targets[c] : handler[d] # "absent"

\* The request that notifies all agents keeps the lock during its writes, so
\* every agent that it has still to write to is registered.
NotifiedAreNamed ==
  /\ notified # {} => notifying
  /\ notified \subseteq named

WritesInv == IInv /\ RangedArePresent /\ WritesHaveTargets /\ NotifiedAreNamed

\* The connections in the tables have a goroutine.
LEMMA ListedArePresent ==
  ASSUME IInv
  PROVE  /\ \A c \in clients : c \in Conns /\ handler[c] # "absent"
         /\ \A a \in Agents : route[a] # NoConn => route[a] \in Conns /\ handler[route[a]] # "absent"
BY DEF IInv, TypeOK, TablesOK, NothingOutlivesItsHandler, InClients, InRoute, Relays, Writing

\* A goroutine that moves without writing keeps what is known of all writes.
LEMMA MovesKeepTargets ==
  ASSUME IInv, WritesHaveTargets, NEW c \in Conns, NEW p \in Phases \ (Writing \cup {"absent"}),
         handler[c] \notin Relays, Goto(c, p), UNCHANGED targets
  PROVE  WritesHaveTargets'
BY DEF IInv, TypeOK, WritesHaveTargets, Goto, Relays

\* So does one that begins to write to connections that exist.
LEMMA WritesKeepTargets ==
  ASSUME IInv, WritesHaveTargets, NEW c \in Conns, NEW p \in Writing, NEW to \in SUBSET Conns,
         WriteTo(c, p, to), handler[c] # "absent", to # {}, \A d \in to : handler[d] # "absent"
  PROVE  WritesHaveTargets'
BY DEF IInv, TypeOK, WritesHaveTargets, WriteTo, Goto, Relays, Writing

LEMMA WritesStep == WritesInv /\ [Next]_vars => WritesHaveTargets'
<1> SUFFICES ASSUME WritesInv, [Next]_vars PROVE WritesHaveTargets'
  OBVIOUS
<1> USE DEF WritesInv
<1>0. handler \in [Conns -> Phases] /\ {"sending", "casting"} = Writing
  BY DEF IInv, TypeOK, Writing
<1>1. ASSUME NEW c \in Conns,
             Connect(c) \/ Route(c) \/ Name(c) \/ ReadFails(c) \/ Unroute(c) \/ Unname(c) \/ DropInfo(c)
      PROVE  WritesHaveTargets'
  BY <1>1, MovesKeepTargets
     DEF Connect, Route, Name, ReadFails, Unroute, Unname, DropInfo, Phases, Hello, Relays, Writing,
         Leaving, relays
<1>2. ASSUME NEW c \in Conns, GreetViewer(c) PROVE WritesHaveTargets'
  BY <1>0, <1>2, WritesKeepTargets DEF GreetViewer
<1>3. ASSUME NEW c \in Conns, StoreInfo(c) PROVE WritesHaveTargets'
  <2>1. CASE WriteTo(c, "sending", {c})
    BY <1>0, <1>3, <2>1, WritesKeepTargets DEF StoreInfo
  <2>2. CASE Goto(c, "reading") /\ UNCHANGED targets
    BY <1>3, <2>2, MovesKeepTargets DEF StoreInfo, Phases, Relays, Writing, relays
  <2>3. QED BY <1>3, <2>1, <2>2 DEF StoreInfo, relays
<1>4. ASSUME NEW c \in Conns, Frame(c) PROVE WritesHaveTargets'
  BY <1>4, MovesKeepTargets DEF Frame, Phases, Relays, Writing
<1>5. ASSUME NEW c \in Conns, NEW a \in Agents, Command(c, a) PROVE WritesHaveTargets'
  BY <1>0, <1>5, ListedArePresent, WritesKeepTargets DEF Command
<1>6. ASSUME NEW c \in Conns, NEW d \in Conns, WriteEnds(c, d) PROVE WritesHaveTargets'
  <2>1. /\ targets' = [targets EXCEPT ![c] = targets[c] \ {d}] /\ handler[c] \in Writing
        /\ IF targets'[c] = {} THEN handler' = [handler EXCEPT ![c] = "reading"]
                               ELSE UNCHANGED handler
    BY <1>6 DEF WriteEnds, Goto
  <2>2. targets \in [Conns -> SUBSET Conns]
    BY DEF IInv, TypeOK
  <2>3. \A e \in Conns : /\ targets'[e] \subseteq targets[e]
                         /\ e # c => targets'[e] = targets[e] /\ handler'[e] = handler[e]
                         /\ handler[e] # "absent" => handler'[e] # "absent"
    BY <1>0, <2>1, <2>2
  <2>4. handler'[c] \in Writing <=> targets'[c] # {}
    BY <1>0, <2>1, <2>2 DEF Writing
  <2>5. QED BY <1>0, <2>1, <2>2, <2>3, <2>4 DEF WritesHaveTargets, Relays, Writing
<1>7. ASSUME NEW c \in Conns, NEW d \in Conns, FrameLooks(c, d) PROVE WritesHaveTargets'
  <2>1. /\ \A e \in Conns : e # c => handler'[e] = handler[e] /\ targets'[e] = targets[e]
        /\ handler[c] = "ranging" /\ handler'[c] \in {"ranging", "reading", "casting"}
        /\ handler'[c] = "casting" => targets'[c] # {}
        /\ handler'[c] = "reading" => targets'[c] = {}
    BY <1>7, LookTypes
  <2>2. \A e \in Conns : handler[e] # "absent" => handler'[e] # "absent"
    BY <2>1
  <2>3. \A e \in targets'[c] : e \in Conns /\ handler[e] # "absent"
    <3>1. targets'[c] \subseteq targets[c] \cup ranged[c]
      BY <1>7, LookTypes
    <3>2. targets[c] \subseteq Conns /\ ranged[c] \subseteq Conns
      BY DEF IInv, TypeOK
    <3>3. QED BY <3>1, <3>2 DEF WritesHaveTargets, RangedArePresent
  <2>4. \A e \in Conns : targets[e] \subseteq Conns
    BY DEF IInv, TypeOK
  <2>5. QED BY <2>1, <2>2, <2>3, <2>4 DEF WritesHaveTargets, Relays, Writing
<1>8. CASE UNCHANGED <<handler, targets>>
  BY <1>8 DEF WritesHaveTargets
<1>9. QED BY <1>1, <1>2, <1>3, <1>4, <1>5, <1>6, <1>7, <1>8
          DEF Next, Works, NotifyStarts, Notifies, NotifyEnds, NotifyWrites, Drop, Stall, Resume,
              PingEnds, RemoveRoute, RemoveInfo, relays, vars

LEMMA NotifiedStep == WritesInv /\ [Next]_vars => NotifiedAreNamed'
<1> SUFFICES ASSUME WritesInv, [Next]_vars PROVE NotifiedAreNamed'
  OBVIOUS
<1> USE DEF WritesInv, NotifiedAreNamed
<1>1. ASSUME NEW c \in Conns, Unname(c) PROVE NotifiedAreNamed'
  BY <1>1 DEF Unname, MayWrite, notice
<1>2. CASE NotifyStarts \/ Notifies
  BY <1>2 DEF NotifyStarts, Notifies, NotifyEnds, NotifyWrites, tables
<1>3. CASE UNCHANGED notice /\ named \subseteq named'
  BY <1>3 DEF notice
<1>4. QED BY <1>1, <1>2, <1>3
          DEF Next, Works, Connect, GreetViewer, Route, Name, StoreInfo, ReadFails, Unroute, DropInfo,
              WriteEnds, Frame, FrameLooks, Command, Drop, Stall, Resume, PingEnds, RemoveRoute, RemoveInfo,
              tables, vars

LEMMA WritesInvHolds == Spec => []WritesInv
<1>1. Init => WritesInv
  BY InitInv DEF Init, WritesInv, RangedArePresent, WritesHaveTargets, NotifiedAreNamed, Relays,
                 Writing
<1>2. WritesInv /\ [Next]_vars => WritesInv'
  BY IInvIsInductive, RangedStep, WritesStep, NotifiedStep DEF WritesInv
<1>3. QED BY <1>1, <1>2, PTL DEF Spec

\* The agents that a notification has still to write to are registered.
NotifiedAreRegistered ==
  \A c \in notified : notifying /\ c \in named /\ handler[c] \in InNamed

\* A notification (main.go:3268-3276) writes only to agents whose goroutine has
\* registered and has not begun to forget them: none is forgotten while it
\* writes, however long a peer that does not read keeps it waiting.
THEOREM NotificationsCorrect == Spec => []NotifiedAreRegistered
<1>1. WritesInv => NotifiedAreRegistered
  BY DEF WritesInv, NotifiedAreNamed, NotifiedAreRegistered, IInv, TablesOK,
         NothingOutlivesItsHandler
<1>2. QED BY <1>1, WritesInvHolds, PTL

\* No goroutine is left in a write that has nobody to write to, and none writes
\* to a connection that was never opened: what keeps a writer from returning to
\* its read loop is a peer that does not read.
THEOREM WritesCorrect == Spec => []WritesHaveTargets
<1>1. WritesInv => WritesHaveTargets
  BY DEF WritesInv
<1>2. QED BY <1>1, WritesInvHolds, PTL

-----------------------------------------------------------------------------
(* Ping loops.                                                               *)

\* The connections of a that said hello, or ended before they did.
Begun(a) == {c \in ConnsOf(a) : handler[c] \notin {"absent", "unnamed", "routed"}}

BegunFinite == \A a \in Agents : IsFiniteSet(Begun(a))

\* Every connection of an agent adds at most one ping loop: those of former
\* connections may run on under the new one, but a tick, a command or a removal
\* never starts another.
PingLoopsBounded == \A a \in Agents : pingers[a] <= Cardinality(Begun(a))

PingInv == IInv /\ BegunFinite /\ PingLoopsBounded

\* Goroutines do not go back, and a step is a step of one of them or of none.
LEMMA HandlersGoOn ==
  ASSUME IInv, Next
  PROVE  \/ handler' = handler
         \/ \E c \in Conns :
              /\ \A d \in Conns \ {c} : handler'[d] = handler[d]
              /\ handler[c] \notin {"absent", "unnamed", "routed"}
                    => handler'[c] \notin {"absent", "unnamed", "routed"}
<1>1. handler \in [Conns -> Phases]
  BY DEF IInv, TypeOK
<1>2. QED
  BY <1>1
     DEF Next, Works, Connect, GreetViewer, Route, Name, StoreInfo, ReadFails, Unroute, Unname,
         DropInfo, WriteEnds, WriteTo, Goto, Frame, FrameLooks, Command, Drop, Stall, Resume, NotifyStarts,
         Notifies, NotifyEnds, NotifyWrites, PingEnds, RemoveRoute, RemoveInfo, Writing

LEMMA BegunGrows ==
  ASSUME IInv, BegunFinite, Next, NEW a \in Agents
  PROVE  /\ IsFiniteSet(Begun(a)') /\ Begun(a) \subseteq Begun(a)'
         /\ Cardinality(Begun(a)) \in Nat /\ Cardinality(Begun(a)') \in Nat
         /\ Cardinality(Begun(a)) <= Cardinality(Begun(a)')
<1>1. \/ Begun(a)' = Begun(a)
      \/ \E c \in Conns : Begun(a)' = Begun(a) \cup {c}
  BY HandlersGoOn DEF Begun, ConnsOf
<1>2. IsFiniteSet(Begun(a)') /\ Begun(a) \subseteq Begun(a)'
  BY <1>1, FS_AddElement DEF BegunFinite
<1>3. QED BY <1>2, FS_Subset, FS_CardinalityType DEF BegunFinite

LEMMA PingStep == PingInv /\ [Next]_vars => PingInv'
<1>1. ASSUME PingInv, Next PROVE BegunFinite' /\ PingLoopsBounded'
  <2> USE <1>1 DEF PingInv
  <2>1. BegunFinite'
    BY BegunGrows DEF BegunFinite
  <2>2. ASSUME NEW a \in Agents, pingers'[a] \in Nat, pingers'[a] <= pingers[a]
        PROVE  pingers'[a] <= Cardinality(Begun(a)')
    <3>1. pingers[a] \in Nat
      BY DEF IInv, TypeOK
    <3>2. QED BY <2>2, <3>1, BegunGrows DEF PingLoopsBounded
  <2>3. pingers \in [Agents -> Nat] /\ pingers' \in [Agents -> Nat]
    BY IInvIsInductive DEF IInv, TypeOK
  <2>4. ASSUME NEW c \in Conns, Name(c) PROVE PingLoopsBounded'
    <3>1. /\ handler[c] = "routed" /\ handler' = [handler EXCEPT ![c] = "named"]
          /\ pingers' = [pingers EXCEPT ![Owner[c]] = pingers[Owner[c]] + 1]
      BY <2>4 DEF Name, Goto
    <3>2. ASSUME NEW a \in Agents, a = Owner[c]
          PROVE  pingers'[a] <= Cardinality(Begun(a)')
      <4>1. c \notin Begun(a) /\ Begun(a)' = Begun(a) \cup {c}
        BY <3>1, <3>2 DEF Begun, ConnsOf, IInv, TypeOK
      <4>2. Cardinality(Begun(a)') = Cardinality(Begun(a)) + 1
        BY <4>1, FS_AddElement DEF BegunFinite
      <4>3. pingers'[a] = pingers[a] + 1
        BY <2>3, <3>1, <3>2
      <4>4. QED BY <2>3, <4>2, <4>3, BegunGrows DEF PingLoopsBounded
    <3>3. ASSUME NEW a \in Agents, a # Owner[c]
          PROVE  pingers'[a] <= Cardinality(Begun(a)')
      BY <2>2, <2>3, <3>1, <3>3
    <3>4. QED BY <3>2, <3>3 DEF PingLoopsBounded
  <2>5. ASSUME NEW a \in Agents, PingEnds(a) PROVE PingLoopsBounded'
    <3>1. \A b \in Agents : pingers'[b] <= pingers[b]
      BY <2>3, <2>5 DEF PingEnds
    <3>2. QED BY <2>2, <2>3, <3>1 DEF PingLoopsBounded
  <2>6. ASSUME UNCHANGED pingers PROVE PingLoopsBounded'
    <3>1. \A b \in Agents : pingers'[b] = pingers[b] /\ pingers[b] \in Nat
      BY <2>3, <2>6
    <3>2. QED BY <2>2, <2>3, <3>1 DEF PingLoopsBounded
  <2>7. PingLoopsBounded'
    BY <1>1, <2>4, <2>5, <2>6
       DEF Next, Works, Connect, GreetViewer, Route, StoreInfo, ReadFails, Unroute, Unname,
           DropInfo, WriteEnds, Frame, FrameLooks, Command, Drop, Stall, Resume, NotifyStarts, Notifies,
           NotifyEnds, NotifyWrites, RemoveRoute, RemoveInfo
  <2>8. QED BY <2>1, <2>7
<1>2. ASSUME PingInv, UNCHANGED vars PROVE BegunFinite' /\ PingLoopsBounded'
  BY <1>2 DEF PingInv, BegunFinite, PingLoopsBounded, Begun, ConnsOf, vars
<1>3. QED BY <1>1, <1>2, IInvIsInductive DEF PingInv

\* The ping loops of an agent are never more than its connections so far
\* (main.go:3715-3721, heartbeat.go:180-198).
THEOREM PingLoopsCorrect == Spec => []PingLoopsBounded
<1>1. Init => PingInv
  <2>1. ASSUME Init, NEW a \in Agents PROVE Begun(a) = {} /\ pingers[a] = 0
    BY <2>1 DEF Init, Begun, ConnsOf
  <2>2. QED BY <2>1, InitInv, FS_EmptySet DEF PingInv, BegunFinite, PingLoopsBounded
<1>2. PingInv => PingLoopsBounded
  BY DEF PingInv
<1>3. QED BY <1>1, <1>2, PingStep, PTL DEF Spec
=============================================================================
