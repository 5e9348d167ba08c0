---------------------------- MODULE LanElection ----------------------------
(***************************************************************************)
(* Discovery of the instances of a LAN and the election among them         *)
(* (discovery.go, lan_election.go).                                        *)
(*                                                                         *)
(* Every instance broadcasts a description of itself (PeerDiscovery.self)  *)
(* and keeps a table of the last one it received from each peer.  Two of   *)
(* its goroutines decide who leads: the election loop, every 5 seconds,    *)
(* and the receiver, when a server appears.  Both ask the server for       *)
(* /api/health first, without holding a lock, so each decision is one step *)
(* that reads and a later one that acts.                                   *)
(***************************************************************************)
EXTENDS Naturals, FiniteSets

CONSTANTS
    Host,        \* the instances of one broadcast domain, by AgentID
    NoHost,      \* the empty string
    FirstBorn,   \* FirstBorn[h]: the order in which the hosts started
    NearTie,     \* the starts are closer together than an announced uptime
                 \* is old, so a host may take itself for older than an elder
    MaxDisturbances  \* bound: faults, and announcements of the main loop

ASSUME HostAssumption == NoHost \notin Host
ASSUME BornAssumption ==
    /\ FirstBorn \in [Host -> Nat]
    /\ \A g, h \in Host : FirstBorn[g] = FirstBorn[h] => g = h
ASSUME TieAssumption == NearTie \in BOOLEAN
ASSUME DisturbanceAssumption == MaxDisturbances \in Nat

VARIABLES
    up,          \* up[h]: the process runs
    born,        \* born[h]: rank of startTime, a restart gets a higher one
    mode,        \* self.Mode, what h broadcasts
    isLeader,    \* LANLeaderElection.isLeader
    leader,      \* LANLeaderElection.leaderID
    table,       \* table[h][g]: the last announcement of g that h received
    round,       \* what runElection of h carries over its health check
    greeting,    \* the server whose health onPeerUpdate of h checks
    waiting,     \* the main loop still waits for the LAN's result
    elected,     \* lanLeaderCh is closed, while somebody reads it
    offer,       \* the server in lanAgentCh, which holds one, likewise
    disturbances \* how many disturbances are still to come

stateVars == <<up, born>>
channelVars == <<waiting, elected, offer>>
lanVars == <<stateVars, mode, isLeader, leader, table, round, greeting,
             channelVars, disturbances>>

Modes    == {"server", "agent", "standalone"}
Leaders  == Host \cup {NoHost}
Unknown  == [mode |-> "unknown", born |-> 0]
Entries  == [mode : Modes, born : Nat] \cup {Unknown}
\* server: the peer being checked; winner: the first of the sorted candidates;
\* was: isLeader as it was read before the check.
Rounds   == [server : Host, winner : Host, was : BOOLEAN]
NoRound  == [server |-> NoHost, winner |-> NoHost, was |-> FALSE]

TypeOK ==
    /\ up \in [Host -> BOOLEAN]
    /\ born \in [Host -> Nat]
    /\ mode \in [Host -> Modes]
    /\ isLeader \in [Host -> BOOLEAN]
    /\ leader \in [Host -> Leaders]
    /\ table \in [Host -> [Host -> Entries]]
    /\ round \in [Host -> Rounds \cup {NoRound}]
    /\ greeting \in [Host -> Leaders]
    /\ waiting \in [Host -> BOOLEAN]
    /\ elected \in [Host -> BOOLEAN]
    /\ offer \in [Host -> Leaders]
    /\ disturbances \in 0..MaxDisturbances

LanInit ==
    /\ up = [h \in Host |-> TRUE]
    /\ born = FirstBorn
    /\ mode = [h \in Host |-> "standalone"]
    /\ isLeader = [h \in Host |-> FALSE]
    /\ leader = [h \in Host |-> NoHost]
    /\ table = [h \in Host |-> [g \in Host |-> Unknown]]
    /\ round = [h \in Host |-> NoRound]
    /\ greeting = [h \in Host |-> NoHost]
    /\ waiting = [h \in Host |-> TRUE]
    /\ elected = [h \in Host |-> FALSE]
    /\ offer = [h \in Host |-> NoHost]
    /\ disturbances = MaxDisturbances

-----------------------------------------------------------------------------
(* Helpers. *)

Disturb == disturbances > 0 /\ disturbances' = disturbances - 1

Peers(h) == {g \in Host : table[h][g] # Unknown}

\* The peers GetServer may return: it takes the first one of a Go map.
ServerPeers(h) == {g \in Peers(h) : table[h][g].mode = "server"}

\* Variant of CurrentMode: a host that announced a server goes on doing so.
CurrentModeSticky(h) ==
    IF isLeader[h] \/ mode[h] = "server" THEN "server"
    ELSE IF leader[h] # NoHost THEN "agent" ELSE "standalone"

\* currentMode.
CurrentMode(h) ==
    IF isLeader[h] THEN "server"
    ELSE IF leader[h] # NoHost THEN "agent" ELSE "standalone"

\* How h ranks the uptimes of p and q.  Its own uptime is exact, a peer's is
\* as old as its announcement, which matters when the starts are close.
Elder(h, p, q) ==
    LET start(r) == IF r = h THEN born[h] ELSE table[h][r].born
    IN  start(p) < start(q) \/ (NearTie /\ q # h)

\* Who may come first in the candidates sorted by runElection, the announced
\* modes being those of the table and h's own being the one it has just set.
Winners(h) ==
    LET servers == ServerPeers(h) \cup (IF isLeader[h] THEN {h} ELSE {})
        all == IF servers = {} THEN Peers(h) \cup {h} ELSE servers
    IN  {w \in all : \A q \in all \ {w} : Elder(h, w, q)}

\* onLoseLeader: the URL is dropped when the channel is full.  Nobody reads
\* the channels once the main loop went on.
Offer(h, server) ==
    /\ offer' = [offer EXCEPT ![h] =
                    IF waiting[h] /\ @ = NoHost THEN server ELSE @]
    /\ UNCHANGED <<waiting, elected>>

\* onBecomeLeader.
Elect(h) ==
    /\ elected' = [elected EXCEPT ![h] = waiting[h]]
    /\ UNCHANGED <<waiting, offer>>

\* The main loop goes on.
StopWaiting(h) ==
    /\ waiting' = [waiting EXCEPT ![h] = FALSE]
    /\ elected' = [elected EXCEPT ![h] = FALSE]
    /\ offer' = [offer EXCEPT ![h] = NoHost]

\* The election loop follows or becomes the winner; announced is what
\* UpdateSelf set at the beginning of the round.
Decide(h, winner, announced) ==
    IF winner = h
      THEN /\ isLeader' = [isLeader EXCEPT ![h] = TRUE]
           /\ leader' = [leader EXCEPT ![h] = h]
           /\ mode' = [mode EXCEPT ![h] = "server"]
           /\ Elect(h)
      ELSE /\ leader' = [leader EXCEPT ![h] = winner]
           /\ mode' = [mode EXCEPT ![h] = announced]
           /\ Offer(h, winner)
           /\ UNCHANGED isLeader

Stay(h, announced) ==
    /\ mode' = [mode EXCEPT ![h] = announced]
    /\ UNCHANGED <<isLeader, leader, channelVars>>

-----------------------------------------------------------------------------
(* The election loop: runElection up to the health check, and the rest.    *)

\* No peer announces itself as a server.
ElectAlone(h) ==
    /\ up[h] /\ round[h] = NoRound
    /\ ServerPeers(h) = {}
    /\ IF isLeader[h]
         THEN Stay(h, CurrentMode(h))
         ELSE \E w \in Winners(h) : Decide(h, w, CurrentMode(h))
    /\ UNCHANGED <<stateVars, table, round, greeting, disturbances>>

\* Variant of ElectChecks: a missing server is checked too.
ElectChecksNil(h) ==
    /\ up[h] /\ round[h] = NoRound
    /\ \E w \in Winners(h) :
          round' = [round EXCEPT ![h] =
                       [server |-> NoHost, winner |-> w, was |-> isLeader[h]]]
    /\ mode' = [mode EXCEPT ![h] = CurrentMode(h)]
    /\ UNCHANGED <<stateVars, isLeader, leader, table, greeting, channelVars,
                   disturbances>>

ElectChecks(h) ==
    /\ up[h] /\ round[h] = NoRound
    /\ \E s \in ServerPeers(h), w \in Winners(h) :
          round' = [round EXCEPT ![h] =
                       [server |-> s, winner |-> w, was |-> isLeader[h]]]
    /\ mode' = [mode EXCEPT ![h] = CurrentMode(h)]
    /\ UNCHANGED <<stateVars, isLeader, leader, table, greeting, channelVars,
                   disturbances>>

\* Every instance answers /api/health, whatever it announces.
ElectFollows(h) ==
    /\ up[h] /\ round[h] # NoRound
    /\ up[round[h].server]
    /\ round' = [round EXCEPT ![h] = NoRound]
    /\ isLeader' = [isLeader EXCEPT ![h] = @ /\ ~round[h].was]
    /\ leader' = [leader EXCEPT ![h] = round[h].server]
    /\ Offer(h, round[h].server)
    /\ UNCHANGED <<stateVars, mode, table, greeting, disturbances>>

\* No answer: the server is gone, or slower than 3 seconds.
ElectUnanswered(h) ==
    /\ up[h] /\ round[h] # NoRound
    /\ IF up[round[h].server] THEN Disturb ELSE UNCHANGED disturbances
    /\ round' = [round EXCEPT ![h] = NoRound]
    /\ IF round[h].was THEN Stay(h, mode[h])
                       ELSE Decide(h, round[h].winner, mode[h])
    /\ UNCHANGED <<stateVars, table, greeting>>

-----------------------------------------------------------------------------
(* The receiver: listenLoop and onPeerUpdate.                              *)

\* Variant of Hear: the host hears its own broadcasts.
HearSelf(h, g) ==
    /\ up[h] /\ up[g] /\ greeting[h] = NoHost
    /\ table' = [table EXCEPT ![h][g] = [mode |-> mode[g], born |-> born[g]]]
    /\ greeting' = [greeting EXCEPT ![h] =
                       IF g \notin Peers(h) /\ mode[g] = "server"
                         THEN g ELSE NoHost]
    /\ UNCHANGED <<stateVars, mode, isLeader, leader, round, channelVars,
                   disturbances>>

\* h hears g.  A new peer that is a server is checked before anything else is
\* received.
Hear(h, g) ==
    /\ up[h] /\ up[g] /\ g # h /\ greeting[h] = NoHost
    /\ table' = [table EXCEPT ![h][g] = [mode |-> mode[g], born |-> born[g]]]
    /\ greeting' = [greeting EXCEPT ![h] =
                       IF g \notin Peers(h) /\ mode[g] = "server"
                         THEN g ELSE NoHost]
    /\ UNCHANGED <<stateVars, mode, isLeader, leader, round, channelVars,
                   disturbances>>

\* Variant of GreetFollows: a leader follows the server and stays one.
GreetFollowsAsLeader(h) ==
    /\ up[h] /\ greeting[h] # NoHost
    /\ up[greeting[h]]
    /\ greeting' = [greeting EXCEPT ![h] = NoHost]
    /\ leader' = [leader EXCEPT ![h] = greeting[h]]
    /\ Offer(h, greeting[h])
    /\ UNCHANGED <<stateVars, mode, isLeader, table, round, disturbances>>

\* It answers.  Only a leader, and a host that followed another one, tell the
\* main loop.
GreetFollows(h) ==
    /\ up[h] /\ greeting[h] # NoHost
    /\ up[greeting[h]]
    /\ greeting' = [greeting EXCEPT ![h] = NoHost]
    /\ isLeader' = [isLeader EXCEPT ![h] = FALSE]
    /\ leader' = [leader EXCEPT ![h] = greeting[h]]
    /\ IF isLeader[h] \/ leader[h] # greeting[h] THEN Offer(h, greeting[h])
                                                 ELSE UNCHANGED channelVars
    /\ UNCHANGED <<stateVars, mode, table, round, disturbances>>

GreetUnanswered(h) ==
    /\ up[h] /\ greeting[h] # NoHost
    /\ IF up[greeting[h]] THEN Disturb ELSE UNCHANGED disturbances
    /\ greeting' = [greeting EXCEPT ![h] = NoHost]
    /\ UNCHANGED <<stateVars, mode, isLeader, leader, table, round,
                   channelVars>>

\* cleanupLoop and onPeerLost: nothing came from g for 15 seconds.
PeerTimesOut(h, g) ==
    /\ up[h] /\ g \in Peers(h)
    /\ IF up[g] THEN Disturb ELSE UNCHANGED disturbances
    /\ table' = [table EXCEPT ![h][g] = Unknown]
    /\ leader' = IF leader[h] = g /\ isLeader[h]
                   THEN [leader EXCEPT ![h] = NoHost] ELSE leader
    /\ UNCHANGED <<stateVars, mode, isLeader, round, greeting, channelVars>>

-----------------------------------------------------------------------------
(* The rest of the program.                                                *)

\* UpdateSelf by the main loop, whatever the election decided.
AnnounceAs(h, m) ==
    /\ up[h]
    /\ mode' = [mode EXCEPT ![h] = m]
    /\ UNCHANGED <<stateVars, isLeader, leader, table, round, greeting>>

\* The main loop receives from one of the channels, or waits no longer.
TakeElected(h) ==
    waiting[h] /\ elected[h] /\ AnnounceAs(h, "server") /\ StopWaiting(h)

TakeOffer(h) ==
    waiting[h] /\ offer[h] # NoHost /\ AnnounceAs(h, "agent") /\ StopWaiting(h)

WaitNoLonger(h) ==
    /\ up[h] /\ waiting[h]
    /\ StopWaiting(h)
    /\ UNCHANGED <<stateVars, mode, isLeader, leader, table, round, greeting>>

Crash(h) ==
    /\ up[h] /\ Disturb
    /\ up' = [up EXCEPT ![h] = FALSE]
    /\ UNCHANGED <<born, mode, isLeader, leader, table, round, greeting,
                   channelVars>>

\* The process starts again, younger than all the others.
Restart(h) ==
    /\ ~up[h]
    /\ up' = [up EXCEPT ![h] = TRUE]
    /\ \E g \in Host :
          /\ \A k \in Host : born[k] <= born[g]
          /\ born' = [born EXCEPT ![h] = born[g] + 1]
    /\ mode' = [mode EXCEPT ![h] = "standalone"]
    /\ isLeader' = [isLeader EXCEPT ![h] = FALSE]
    /\ leader' = [leader EXCEPT ![h] = NoHost]
    /\ table' = [table EXCEPT ![h] = [g \in Host |-> Unknown]]
    /\ round' = [round EXCEPT ![h] = NoRound]
    /\ greeting' = [greeting EXCEPT ![h] = NoHost]
    /\ waiting' = [waiting EXCEPT ![h] = TRUE]
    /\ elected' = [elected EXCEPT ![h] = FALSE]
    /\ offer' = [offer EXCEPT ![h] = NoHost]
    /\ UNCHANGED disturbances

-----------------------------------------------------------------------------
LoopStep(h) ==
    \/ ElectAlone(h) \/ ElectChecks(h)
    \/ ElectFollows(h) \/ ElectUnanswered(h)

GreetStep(h) == GreetFollows(h) \/ GreetUnanswered(h)

LanStep(h) ==
    \/ LoopStep(h) \/ GreetStep(h)
    \/ \E g \in Host : Hear(h, g) \/ PeerTimesOut(h, g)

Next ==
    \E h \in Host :
        \/ LanStep(h) \/ Crash(h) \/ Restart(h)
        \/ (TakeElected(h) \/ TakeOffer(h) \/ WaitNoLonger(h))
              /\ UNCHANGED disturbances
        \/ \E m \in {"agent", "server"} :
              ~waiting[h] /\ AnnounceAs(h, m) /\ UNCHANGED channelVars /\ Disturb

Spec == LanInit /\ [][Next]_lanVars

\* The tickers of a live host fire, its checks end, its broadcasts are
\* received again and again, and the entry of a dead peer times out.
LanFairness ==
    \A h \in Host :
        /\ WF_lanVars(LoopStep(h)) /\ WF_lanVars(GreetStep(h))
        /\ \A g \in Host :
              /\ WF_lanVars(Hear(h, g))
              /\ WF_lanVars(~up[g] /\ PeerTimesOut(h, g))

LiveSpec == Spec /\ LanFairness

-----------------------------------------------------------------------------
(* Properties. *)

\* A host that leads names itself as the leader, and no round that it began
\* as a follower is left to make it follow somebody else, although its two
\* goroutines decide at the same time, each from what it read before a health
\* check (lan_election.go:91-155, 175-184).
LeaderNamesItself ==
    \A h \in Host :
        isLeader[h] =>
            /\ leader[h] = h
            /\ round[h] # NoRound => round[h].was

\* No host takes itself for a peer: it neither checks nor follows itself
\* (listenLoop drops the host's own broadcasts).
NeverOwnAgent ==
    \A h \in Host : offer[h] # h /\ round[h].server # h /\ greeting[h] # h

\* When the faults and the main loops' announcements are over, the hosts that
\* run agree on one leader, which is one of them, if their starts are far
\* enough apart: whatever stale announcements say, and although two leaders
\* that see each other both step down.
OneLeader ==
    \/ \A h \in Host : ~up[h]
    \/ \E l \in Host :
          /\ up[l] /\ isLeader[l]
          /\ \A h \in Host \ {l} : up[h] => leader[h] = l /\ ~isLeader[h]

LeadersConverge == <>[]OneLeader
=============================================================================
