---------------------------- MODULE LanMainLoop ----------------------------
(***************************************************************************)
(* The main loop of an instance without a GitHub repository (main.go:      *)
(* startGitHubLeaderElection up to the end of its first loop), composed    *)
(* with the LAN election that runs beside it.                              *)
(*                                                                         *)
(* The two meet in the channels elected and offer, which the main loop     *)
(* reads only while it waits for the LAN, in the table of peers, and in    *)
(* the announced mode, which both write.                                   *)
(***************************************************************************)
EXTENDS LanElection

CONSTANTS
    Relay,       \* the relay server on the Internet
    RelayFirst,  \* the values relayUp may start with
    Users,       \* the hosts whose settings a user changes
    MaxAttempts  \* the failed attempts after which a host serves (2)

ASSUME RelayAssumption == Relay \notin Host \cup {NoHost}
ASSUME RelayFirstAssumption == RelayFirst \subseteq BOOLEAN
ASSUME UsersAssumption == Users \subseteq Host
ASSUME AttemptsAssumption == MaxAttempts \in Nat \ {0}

VARIABLES
    main,        \* where the main loop of h is
    url,         \* cfg.ServerURL
    found,       \* the server whose health the main loop checks
    attempts,    \* attempts of the loop
    serverMode,  \* cfg.IsServerMode
    serving,     \* the server components run
    relayUp      \* the relay answers

mainVars == <<main, url, found, attempts, serverMode, serving, relayUp>>
vars == <<lanVars, mainVars>>

Places  == {"lan", "looping", "checking", "agent", "serving"}
Servers == Leaders \cup {Relay}

MainTypeOK ==
    /\ TypeOK
    /\ main \in [Host -> Places]
    /\ url \in [Host -> Servers]
    /\ found \in [Host -> Leaders]
    /\ attempts \in [Host -> 0..(MaxAttempts - 1)]
    /\ serverMode \in [Host -> BOOLEAN]
    /\ serving \in [Host -> BOOLEAN]
    /\ relayUp \in BOOLEAN

Init ==
    /\ LanInit
    /\ main = [h \in Host |-> "lan"]
    /\ url = [h \in Host |-> NoHost]
    /\ found = [h \in Host |-> NoHost]
    /\ attempts = [h \in Host |-> 0]
    /\ serverMode = [h \in Host |-> FALSE]
    /\ serving = [h \in Host |-> FALSE]
    /\ relayUp \in RelayFirst

-----------------------------------------------------------------------------
(* Helpers. *)

\* The LAN election goes on as before.
LanUnchanged ==
    UNCHANGED <<stateVars, mode, isLeader, leader, table, round, greeting,
                channelVars>>

\* UpdateSelf of a loop that no longer reads the channels.
Announce(h, m) == AnnounceAs(h, m) /\ UNCHANGED channelVars

\* runAgentClient of the server s.
BecomeAgent(h, s) ==
    /\ main' = [main EXCEPT ![h] = "agent"]
    /\ url' = [url EXCEPT ![h] = s]
    /\ serverMode' = [serverMode EXCEPT ![h] = FALSE]
    /\ UNCHANGED <<serving, relayUp>>

\* runServerComponents, up to where it blocks.
BecomeServer(h) ==
    /\ main' = [main EXCEPT ![h] = "serving"]
    /\ serverMode' = [serverMode EXCEPT ![h] = TRUE]
    /\ serving' = [serving EXCEPT ![h] = TRUE]
    /\ attempts' = [attempts EXCEPT ![h] = 0]
    /\ UNCHANGED <<url, relayUp>>

\* checkServerHealth.
Answers(s) == IF s = Relay THEN relayUp ELSE s \in Host /\ up[s]

\* A check of s fails: it does not answer, or not in time.
Unanswered(s) == IF Answers(s) THEN Disturb ELSE UNCHANGED disturbances

-----------------------------------------------------------------------------
(* Phase 1: wait up to 8 seconds for the LAN election.                     *)

LanElected(h) ==
    /\ TakeElected(h)
    /\ BecomeServer(h)
    /\ UNCHANGED <<found, disturbances>>

LanFoundServer(h) ==
    /\ TakeOffer(h)
    /\ BecomeAgent(h, offer[h])
    /\ UNCHANGED <<found, attempts, disturbances>>

LanTimeout(h) ==
    /\ WaitNoLonger(h)
    /\ main' = [main EXCEPT ![h] = "looping"]
    /\ UNCHANGED <<disturbances, url, found, attempts, serverMode, serving,
                   relayUp>>

-----------------------------------------------------------------------------
(* Phase 2: the configured server, the relay, a server of the LAN, oneself.*)

HasServer(h) == url[h] # NoHost /\ ~serverMode[h]

LoopRejoins(h) ==
    /\ main[h] = "looping" /\ HasServer(h)
    /\ Announce(h, "agent")
    /\ BecomeAgent(h, url[h])
    /\ UNCHANGED <<disturbances, found, attempts>>

LoopFindsRelay(h) ==
    /\ main[h] = "looping" /\ ~HasServer(h) /\ relayUp
    /\ Announce(h, "agent")
    /\ BecomeAgent(h, Relay)
    /\ UNCHANGED <<disturbances, found, attempts>>

\* Variant of LoopRetries: one attempt too many.
LoopRetriesLate(h) ==
    /\ up[h] /\ main[h] = "looping" /\ ~HasServer(h)
    /\ attempts[h] + 1 <= MaxAttempts
    /\ Unanswered(Relay)
    /\ attempts' = [attempts EXCEPT ![h] = @ + 1]
    /\ LanUnchanged
    /\ UNCHANGED <<main, url, found, serverMode, serving, relayUp>>

\* The relay does not answer; wait for the next attempt.
LoopRetries(h) ==
    /\ up[h] /\ main[h] = "looping" /\ ~HasServer(h)
    /\ attempts[h] + 1 < MaxAttempts
    /\ Unanswered(Relay)
    /\ attempts' = [attempts EXCEPT ![h] = @ + 1]
    /\ LanUnchanged
    /\ UNCHANGED <<main, url, found, serverMode, serving, relayUp>>

\* It was the last attempt: check a server of the LAN ...
LoopChecksLan(h) ==
    /\ up[h] /\ main[h] = "looping" /\ ~HasServer(h)
    /\ attempts[h] + 1 = MaxAttempts
    /\ Unanswered(Relay)
    /\ main' = [main EXCEPT ![h] = "checking"]
    /\ \E s \in ServerPeers(h) : found' = [found EXCEPT ![h] = s]
    /\ LanUnchanged
    /\ UNCHANGED <<url, attempts, serverMode, serving, relayUp>>

\* ... which answers ...
LoopFindsServer(h) ==
    /\ main[h] = "checking" /\ Answers(found[h])
    /\ Announce(h, "agent")
    /\ BecomeAgent(h, found[h])
    /\ found' = [found EXCEPT ![h] = NoHost]
    /\ attempts' = [attempts EXCEPT ![h] = 0]
    /\ UNCHANGED disturbances

\* ... or does not ...
LoopGivesUp(h) ==
    /\ main[h] = "checking"
    /\ Unanswered(found[h])
    /\ Announce(h, "server") /\ BecomeServer(h)
    /\ found' = [found EXCEPT ![h] = NoHost]

\* ... or there is none in the table.
LoopServes(h) ==
    /\ main[h] = "looping" /\ ~HasServer(h)
    /\ attempts[h] + 1 = MaxAttempts
    /\ Unanswered(Relay)
    /\ ServerPeers(h) = {}
    /\ Announce(h, "server") /\ BecomeServer(h)
    /\ UNCHANGED found

-----------------------------------------------------------------------------
(* What ends an agent or a server.                                         *)

\* Variant of AgentAutoPromotes: the server components are not started.
AgentGivesUp(h) ==
    /\ up[h] /\ main[h] = "agent" /\ ~Answers(url[h])
    /\ main' = [main EXCEPT ![h] = "looping"]
    /\ UNCHANGED <<lanVars, url, found, attempts, serverMode, serving, relayUp>>

\* The server is gone: after maxAttempts serve in the background.
AgentAutoPromotes(h) ==
    /\ up[h] /\ main[h] = "agent" /\ ~Answers(url[h])
    /\ main' = [main EXCEPT ![h] = "looping"]
    /\ serverMode' = [serverMode EXCEPT ![h] = TRUE]
    /\ serving' = [serving EXCEPT ![h] = TRUE]
    /\ UNCHANGED <<lanVars, url, found, attempts, relayUp>>

\* promote_to_server received by an agent: only the flag changes.
PromoteAgent(h) ==
    /\ up[h] /\ main[h] = "agent" /\ ~serverMode[h] /\ Disturb
    /\ serverMode' = [serverMode EXCEPT ![h] = TRUE]
    /\ LanUnchanged
    /\ UNCHANGED <<main, url, found, attempts, serving, relayUp>>

\* The server context is cancelled: set_fps, promotion, a settings sync.
ServerStops(h) ==
    /\ up[h] /\ serving[h] /\ Disturb
    /\ serving' = [serving EXCEPT ![h] = FALSE]
    /\ main' = [main EXCEPT ![h] = IF @ = "serving" THEN "looping" ELSE @]
    /\ LanUnchanged
    /\ UNCHANGED <<url, found, attempts, serverMode, relayUp>>

\* A request to the host, which is no agent, names another as its server; what
\* an agent does with a new address is AgentClient's.
Configure(h) ==
    /\ h \in Users /\ up[h] /\ main[h] # "agent" /\ Disturb
    /\ \E s \in (Host \cup {Relay}) \ {h} : url' = [url EXCEPT ![h] = s]
    /\ LanUnchanged
    /\ UNCHANGED <<main, found, attempts, serverMode, serving, relayUp>>

RelayChanges ==
    /\ Disturb
    /\ relayUp' = ~relayUp
    /\ LanUnchanged
    /\ UNCHANGED <<main, url, found, attempts, serverMode, serving>>

\* saveSettings writes cfg.ServerURL, but loadSettings does not read it back.
MainRestart(h) ==
    /\ Restart(h)
    /\ main' = [main EXCEPT ![h] = "lan"]
    /\ url' = [url EXCEPT ![h] = NoHost]
    /\ found' = [found EXCEPT ![h] = NoHost]
    /\ attempts' = [attempts EXCEPT ![h] = 0]
    /\ serverMode' = [serverMode EXCEPT ![h] = FALSE]
    /\ serving' = [serving EXCEPT ![h] = FALSE]
    /\ UNCHANGED relayUp

LanPhase(h) == LanElected(h) \/ LanFoundServer(h) \/ LanTimeout(h)

LoopPhase(h) ==
    \/ LoopRejoins(h) \/ LoopFindsRelay(h) \/ LoopRetries(h)
    \/ LoopChecksLan(h) \/ LoopFindsServer(h) \/ LoopGivesUp(h)
    \/ LoopServes(h)

MainStep(h) == LanPhase(h) \/ LoopPhase(h) \/ AgentAutoPromotes(h)

MainNext ==
    \/ \E h \in Host :
          \/ MainStep(h) \/ MainRestart(h)
          \/ PromoteAgent(h) \/ ServerStops(h) \/ Configure(h)
          \/ (LanStep(h) \/ Crash(h)) /\ UNCHANGED mainVars
    \/ RelayChanges

MainSpec == Init /\ [][MainNext]_vars

\* The main loop's requests and sleeps end.
MainFairness == \A h \in Host : WF_vars(MainStep(h))

MainLiveSpec == MainSpec /\ MainFairness

\* In addition all goroutines of the LAN election are fair (LanFairness).
FairSpec ==
    /\ MainLiveSpec
    /\ \A h \in Host :
          /\ WF_vars(LoopStep(h) /\ UNCHANGED mainVars)
          /\ WF_vars(GreetStep(h) /\ UNCHANGED mainVars)
          /\ \A g \in Host :
                /\ WF_vars(Hear(h, g) /\ UNCHANGED mainVars)
                /\ WF_vars(~up[g] /\ PeerTimesOut(h, g) /\ UNCHANGED mainVars)

-----------------------------------------------------------------------------
(* Properties. *)

\* When the disturbances are over every running host has a server for good:
\* it serves, or it is the agent of a server that answers, whatever the LAN
\* election, the relay and the crashes of the others did in the meantime (the
\* order of attempts of main.go:1405-1475 and runAgentClient's way out).
Placed(h) == serving[h] \/ (main[h] = "agent" /\ Answers(url[h]))

EveryoneServed == <>[](\A h \in Host : up[h] => Placed(h))

-----------------------------------------------------------------------------
(* What a comment says and the code does not do. *)

\* main.go:1443: "become server (only ONE machine does this)".  Two servers
\* of a LAN do not serve side by side for ever.
OneServerInTheEnd ==
    \A g, h \in Host :
        g # h /\ serving[g] /\ serving[h]
            ~> \/ ~(up[g] /\ serving[g])
               \/ ~(up[h] /\ serving[h])
=============================================================================
