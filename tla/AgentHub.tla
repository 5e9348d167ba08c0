------------------------------ MODULE AgentHub ------------------------------
(***************************************************************************)
(* The server's end of the WebSocket connections (/ws of startHTTPServer): *)
(* one goroutine per connection reads a hello, registers agents in three   *)
(* tables, relays frames to the viewers and commands to the agents, and    *)
(* cleans up when the connection ends.  Next to them run the ping loop of  *)
(* every registered agent, the requests that notify all agents at once and *)
(* the request that removes an agent.                                      *)
(*                                                                         *)
(* A connection is used once: an agent that reconnects takes another one,  *)
(* and the goroutine of the old one may still be cleaning up.  A stalled   *)
(* connection is one whose peer does not read, so that a write blocks.     *)
(***************************************************************************)
EXTENDS Naturals, FiniteSets

CONSTANTS
  Agents,       \* AgentIDs
  Viewer,       \* stands for any browser
  Conns,        \* WebSocket connections, numbered in the order in which each owner
                \* opens his; the bound on (re)connections
  Owner,        \* who opens a connection
  NoConn,
  ClosesFirst,  \* whether agents close a connection before they open the next
  MaxIncidents  \* bound on peers that stop reading and agents that are removed

ASSUME ViewerAssumption == Viewer \notin Agents
ASSUME ConnAssumption == Conns \subseteq Nat /\ NoConn \notin Conns
ASSUME OwnerAssumption  == Owner \in [Conns -> Agents \cup {Viewer}]
ASSUME IncidentsAssumption == MaxIncidents \in Nat
ASSUME ClosesAssumption == ClosesFirst \in BOOLEAN

VARIABLES
  handler,      \* handler[c]: where the goroutine of c is
  up,           \* the connections that neither side has closed
  stalled,      \* the open connections whose peer does not read
  incidents,    \* how often that happened
  clients,      \* wsClients
  route,        \* agentConns
  named,        \* the keys of connAgentID; the value is the owner
  info,         \* the keys of agentSystemInfo
  pingers,      \* pingers[a]: running ping loops of a
  ranged,       \* ranged[c]: what the goroutine of c has still to see of wsClients
  targets,      \* targets[c]: the connections that the goroutine of c writes to
  notifying,    \* a request that notifies all agents holds connAgentIDMu
  notified,     \* the agents it still has to write to
  removing      \* agents whose removal has closed the connection only

tables  == <<clients, route, named, info>>
network == <<up, stalled, incidents>>
notice  == <<notifying, notified>>
relays  == <<ranged, targets>>
vars    == <<handler, tables, network, pingers, relays, notice, removing>>

ConnsOf(a) == {c \in Conns : Owner[c] = a}
IsAgent(c) == Owner[c] # Viewer

\* After "routed" and "unrouted" the goroutine waits for connAgentIDMu.
Hello   == {"unnamed", "routed", "named"}
Writing == {"sending", "casting"}
Relays  == {"ranging"} \cup Writing
Leaving == {"closing", "unrouted", "nameless"}
Phases  == {"absent", "reading", "gone"} \cup Hello \cup Relays \cup Leaving

Init ==
  /\ handler = [c \in Conns |-> "absent"]
  /\ up = {}
  /\ stalled = {}
  /\ incidents = 0
  /\ clients = {}
  /\ route = [a \in Agents |-> NoConn]
  /\ named = {}
  /\ info = {}
  /\ pingers = [a \in Agents |-> 0]
  /\ ranged = [c \in Conns |-> {}]
  /\ targets = [c \in Conns |-> {}]
  /\ notifying = FALSE
  /\ notified = {}
  /\ removing = {}

-----------------------------------------------------------------------------
(* connAgentIDMu is a sync.RWMutex: a waiting writer keeps new readers out.  *)

WriterWaits == \E c \in Conns : handler[c] \in {"routed", "unrouted"}
MayRead     == ~WriterWaits
MayWrite    == ~notifying

Goto(c, phase) == handler' = [handler EXCEPT ![c] = phase]

\* A write begins: the goroutine is busy until every target was written to.
WriteTo(c, phase, to) ==
  /\ Goto(c, phase)
  /\ targets' = [targets EXCEPT ![c] = to]
  /\ UNCHANGED ranged

-----------------------------------------------------------------------------
(* The goroutine of a connection.                                            *)

\* runAgentClient has one connection at a time, unless a panic made it leave one
\* open; the server may learn later that the one before has ended.
Connect(c) ==
  /\ handler[c] = "absent"
  /\ \A d \in ConnsOf(Owner[c]) : d < c => handler[d] # "absent"
  /\ IsAgent(c) /\ ClosesFirst => ConnsOf(Owner[c]) \cap up = {}
  /\ Goto(c, "unnamed")
  /\ up' = up \cup {c}
  /\ clients' = clients \cup {c}
  /\ UNCHANGED <<stalled, incidents, route, named, info, pingers, relays, notice, removing>>

\* A browser gets the list of agents and the status.
GreetViewer(c) ==
  /\ handler[c] = "unnamed"
  /\ ~IsAgent(c)
  /\ WriteTo(c, "sending", {c})
  /\ UNCHANGED <<tables, network, pingers, notice, removing>>

\* An agent is registered in one table after the other.
Route(c) ==
  /\ handler[c] = "unnamed"
  /\ IsAgent(c)
  /\ Goto(c, "routed")
  /\ route' = [route EXCEPT ![Owner[c]] = c]
  /\ UNCHANGED <<clients, named, info, network, pingers, relays, notice, removing>>

Name(c) ==
  /\ handler[c] = "routed"
  /\ MayWrite
  /\ Goto(c, "named")
  /\ named' = named \cup {c}
  /\ pingers' = [pingers EXCEPT ![Owner[c]] = @ + 1]
  /\ UNCHANGED <<clients, route, info, network, relays, notice, removing>>

\* An outdated agent is sent the address of the update.
StoreInfo(c) ==
  /\ handler[c] = "named"
  /\ info' = info \cup {Owner[c]}
  /\ \/ /\ Goto(c, "reading")
        /\ UNCHANGED relays
     \/ WriteTo(c, "sending", {c})
  /\ UNCHANGED <<clients, route, named, network, pingers, notice, removing>>

\* broadcastFrame: an agent's frame goes to every connection without a name.
\* Range sees what is in wsClients at its start, ...
Frame(c) ==
  /\ handler[c] = "reading"
  /\ c \in up
  /\ IsAgent(c)
  /\ clients # {}
  /\ Goto(c, "ranging")
  /\ ranged' = [ranged EXCEPT ![c] = clients]
  /\ UNCHANGED <<tables, network, pingers, targets, notice, removing>>

\* ... skips what has left, but the lock is taken anew for each connection, and
\* one that Range came to before it left may have lost its name by then.
FrameLooks(c, d) ==
  /\ handler[c] = "ranging"
  /\ d \in ranged[c]
  /\ ranged' = [ranged EXCEPT ![c] = @ \ {d}]
  /\ \/ d \notin clients /\ UNCHANGED targets
     \/ MayRead /\ targets' = [targets EXCEPT ![c] = @ \cup ({d} \ named)]
  /\ IF ranged'[c] # {} THEN UNCHANGED handler
     ELSE Goto(c, IF targets'[c] = {} THEN "reading" ELSE "casting")
  /\ UNCHANGED <<tables, network, pingers, notice, removing>>

\* Variant: the lookup's result is not checked.
CommandUnchecked(c, a) ==
  /\ handler[c] = "reading"
  /\ c \in up
  /\ ~IsAgent(c)
  /\ WriteTo(c, "sending", {route[a]})
  /\ UNCHANGED <<tables, network, pingers, notice, removing>>

\* forwardToAgent: the connection is looked up, then written to without a lock.
Command(c, a) ==
  /\ handler[c] = "reading"
  /\ c \in up
  /\ ~IsAgent(c)
  /\ route[a] # NoConn
  /\ WriteTo(c, "sending", {route[a]})
  /\ UNCHANGED <<tables, network, pingers, notice, removing>>

\* A viewer that cannot be written to is forgotten; a write to a connection that
\* is lost may still succeed.
WriteEnds(c, d) ==
  /\ handler[c] \in Writing
  /\ d \in targets[c] \ stalled
  /\ targets' = [targets EXCEPT ![c] = @ \ {d}]
  /\ IF targets'[c] = {} THEN Goto(c, "reading") ELSE UNCHANGED handler
  /\ \/ UNCHANGED clients
     \/ handler[c] = "casting" /\ d \notin up /\ clients' = clients \ {d}
  /\ UNCHANGED <<route, named, info, network, pingers, ranged, notice, removing>>

\* The deferred clean-up, table by table, under the name given in the hello.
ReadFails(c) ==
  /\ c \notin up
  /\ \/ handler[c] = "unnamed" /\ Goto(c, "gone")
     \/ handler[c] = "reading" /\ Goto(c, IF IsAgent(c) THEN "closing" ELSE "gone")
  /\ clients' = clients \ {c}
  /\ UNCHANGED <<route, named, info, network, pingers, relays, notice, removing>>

\* Variant: the entry of agentConns stays.
UnrouteForgets(c) ==
  /\ handler[c] = "closing"
  /\ Goto(c, "unrouted")
  /\ UNCHANGED <<tables, network, pingers, relays, notice, removing>>

Unroute(c) ==
  /\ handler[c] = "closing"
  /\ Goto(c, "unrouted")
  /\ route' = [route EXCEPT ![Owner[c]] = NoConn]
  /\ UNCHANGED <<clients, named, info, network, pingers, relays, notice, removing>>

\* Variant: the names of all connections of the agent go, as its entry of
\* agentConns does.
UnnameAgent(c) ==
  /\ handler[c] = "unrouted"
  /\ MayWrite
  /\ Goto(c, "nameless")
  /\ named' = named \ ConnsOf(Owner[c])
  /\ UNCHANGED <<clients, route, info, network, pingers, relays, notice, removing>>

Unname(c) ==
  /\ handler[c] = "unrouted"
  /\ MayWrite
  /\ Goto(c, "nameless")
  /\ named' = named \ {c}
  /\ UNCHANGED <<clients, route, info, network, pingers, relays, notice, removing>>

DropInfo(c) ==
  /\ handler[c] = "nameless"
  /\ Goto(c, "gone")
  /\ info' = info \ {Owner[c]}
  /\ UNCHANGED <<clients, route, named, network, pingers, relays, notice, removing>>

-----------------------------------------------------------------------------
(* Notifications, ping loops and the removal of an agent.                    *)

\* The lock is held for reading during all the writes.
NotifyStarts ==
  /\ ~notifying
  /\ MayRead
  /\ notifying' = TRUE
  /\ notified' = clients \cap named
  /\ UNCHANGED <<handler, tables, network, pingers, relays, removing>>

\* Variant: the lock is taken again for every agent, as in broadcastFrame.
NotifyWritesRelocks(d) ==
  /\ d \in notified \ stalled
  /\ MayRead
  /\ notified' = notified \ {d}
  /\ UNCHANGED <<handler, tables, network, pingers, relays, notifying, removing>>

NotifyWrites(d) ==
  /\ d \in notified \ stalled
  /\ notified' = notified \ {d}
  /\ UNCHANGED <<handler, tables, network, pingers, relays, notifying, removing>>

NotifyEnds ==
  /\ notifying
  /\ notified = {}
  /\ notifying' = FALSE
  /\ UNCHANGED <<handler, tables, network, pingers, relays, notified, removing>>

\* Variant: a loop that finds no connection waits for the next tick.
PingEndsOnError(a) ==
  /\ pingers[a] > 0
  /\ route[a] \in Conns \ up
  /\ pingers' = [pingers EXCEPT ![a] = @ - 1]
  /\ UNCHANGED <<handler, tables, network, relays, notice, removing>>

\* A tick of a ping loop that finds no connection, or one that is closed.
PingEnds(a) ==
  /\ pingers[a] > 0
  /\ route[a] \notin up
  /\ pingers' = [pingers EXCEPT ![a] = @ - 1]
  /\ UNCHANGED <<handler, tables, network, relays, notice, removing>>

RemoveRoute(a) ==
  /\ incidents < MaxIncidents
  /\ incidents' = incidents + 1
  /\ removing' = removing \cup {a}
  /\ up' = up \ {route[a]}
  /\ stalled' = stalled \ {route[a]}
  /\ route' = [route EXCEPT ![a] = NoConn]
  /\ UNCHANGED <<handler, clients, named, info, pingers, relays, notice>>

RemoveInfo(a) ==
  /\ a \in removing
  /\ removing' = removing \ {a}
  /\ info' = info \ {a}
  /\ UNCHANGED <<handler, clients, route, named, network, pingers, relays, notice>>

-----------------------------------------------------------------------------
(* The peers and the network.                                                *)

Drop(c) ==
  /\ c \in up
  /\ up' = up \ {c}
  /\ stalled' = stalled \ {c}
  /\ UNCHANGED <<handler, tables, incidents, pingers, relays, notice, removing>>

Stall(c) ==
  /\ c \in up \ stalled
  /\ incidents < MaxIncidents
  /\ incidents' = incidents + 1
  /\ stalled' = stalled \cup {c}
  /\ UNCHANGED <<handler, tables, up, pingers, relays, notice, removing>>

Resume(c) ==
  /\ c \in stalled
  /\ stalled' = stalled \ {c}
  /\ UNCHANGED <<handler, tables, up, incidents, pingers, relays, notice, removing>>

-----------------------------------------------------------------------------
\* What a goroutine goes on to do by itself.
Works(c) ==
  \/ GreetViewer(c) \/ Route(c) \/ Name(c) \/ StoreInfo(c)
  \/ ReadFails(c) \/ Unroute(c) \/ Unname(c) \/ DropInfo(c)
  \/ \E d \in Conns : FrameLooks(c, d) \/ WriteEnds(c, d)

Notifies == NotifyEnds \/ \E d \in Conns : NotifyWrites(d)

Next ==
  \/ \E c \in Conns : Works(c) \/ Connect(c) \/ Frame(c) \/ Drop(c) \/ Stall(c) \/ Resume(c)
  \/ \E c \in Conns, a \in Agents : Command(c, a)
  \/ NotifyStarts \/ Notifies
  \/ \E a \in Agents : PingEnds(a) \/ RemoveRoute(a) \/ RemoveInfo(a)

Spec == Init /\ [][Next]_vars

\* Goroutines run, and a write to a peer that does not read ends at the latest
\* when TCP gives up on the connection.  Whoever reads or writes under
\* connAgentIDMu goes on.  This is what a set of connections needs of it.
Fairness(cs) ==
  /\ \A c \in cs : WF_vars(Works(c))
  /\ WF_vars(\E d \in stalled : Resume(d) \/ Drop(d))
  /\ WF_vars(Notifies \/ \E c \in Conns : Name(c) \/ Unname(c))

\* The tickers of an agent's ping loops fire.
PingFairness(a) == WF_vars(PingEnds(a))

-----------------------------------------------------------------------------
(* Properties.                                                               *)

TypeOK ==
  /\ handler \in [Conns -> Phases]
  /\ up \subseteq Conns
  /\ stalled \subseteq up
  /\ incidents \in 0 .. MaxIncidents
  /\ clients \subseteq Conns
  /\ route \in [Agents -> Conns \cup {NoConn}]
  /\ named \subseteq Conns
  /\ info \subseteq Agents
  /\ pingers \in [Agents -> Nat]
  /\ ranged \in [Conns -> SUBSET Conns]
  /\ targets \in [Conns -> SUBSET Conns]
  /\ notifying \in BOOLEAN
  /\ notified \subseteq Conns
  /\ removing \subseteq Agents

\* The phases in which a goroutine has put its connection into a table.
InClients == {"unnamed", "routed", "named", "reading"} \cup Relays
InRoute   == {"routed", "named", "reading", "closing"} \cup Relays
InNamed   == {"named", "reading", "closing", "unrouted"} \cup Relays
InInfo    == {"reading"} \cup Relays \cup Leaving

\* No table holds a connection, or an agent, whose goroutine has cleaned up:
\* commands never go to a connection that has ended, nor to another agent's.
NothingOutlivesItsHandler ==
  /\ \A c \in clients : handler[c] \in InClients
  /\ \A a \in Agents : route[a] # NoConn => Owner[route[a]] = a /\ handler[route[a]] \in InRoute
  /\ \A c \in named : handler[c] \in InNamed
  /\ \A a \in info : \E c \in ConnsOf(a) : handler[c] \in InInfo

\* broadcastFrame tells viewers from agents by the absence of a name only, and
\* looks at one connection after the other: it never addresses a frame to an
\* agent that is registered and connected, also when the agent registers, leaves
\* or reconnects between two looks (main.go:6300-6309).
FramesSpareAgents ==
  [][\A c, d \in Conns :
        /\ handler[c] = "ranging"
        /\ d \in targets'[c] \ targets[c]
        /\ IsAgent(d)
        => d \notin up \/ handler[d] \in {"unnamed", "routed"}]_vars

\* Every hello, relayed message and clean-up is completed, although one lock is
\* held during the writes to all agents and any peer may stop reading.
HandlerReturns(c) ==
  handler[c] \in Phases \ {"absent", "reading", "gone"} ~> handler[c] \in {"reading", "gone"}

Disconnected(a) == \A c \in ConnsOf(a) : handler[c] \in {"absent", "gone"}

\* However often an agent reconnected, its ping loops end when it stays away.
PingLoopsEnd(a) ==
  Disconnected(a) ~> pingers[a] = 0 \/ ~Disconnected(a)
=============================================================================
