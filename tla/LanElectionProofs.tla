------------------------- MODULE LanElectionProofs -------------------------
(* Proofs about LanElection, for every set of hosts and order of starts, and  *)
(* about LanMainLoop, whose hosts run it.                                     *)
EXTENDS LanMainLoop, TLAPS

USE HostAssumption, BornAssumption, TieAssumption, DisturbanceAssumption

\* The host's own broadcasts are not in its table.
NoSelfEntry == \A h \in Host : table[h][h] = Unknown

IInv == TypeOK /\ NoSelfEntry /\ NeverOwnAgent /\ LeaderNamesItself

\* What a step may do to the election, by itself or as part of the main loop:
\* the invariants do not depend on which announcements are disturbances.
ElectionStep ==
    \/ \E h \in Host : LanStep(h) \/ Crash(h) \/ Restart(h)
    \/ /\ disturbances' \in 0..MaxDisturbances
       /\ \/ \E h \in Host : TakeElected(h) \/ TakeOffer(h) \/ WaitNoLonger(h)
          \/ \E h \in Host, m \in {"agent", "server"} : Announce(h, m)
          \/ LanUnchanged

LEMMA ElectionAlone == TypeOK /\ [Next]_lanVars => ElectionStep
<1>1. TypeOK /\ (Disturb \/ UNCHANGED disturbances)
        => disturbances' \in 0..MaxDisturbances
  BY DEF TypeOK, Disturb
<1>2. UNCHANGED lanVars => LanUnchanged /\ UNCHANGED disturbances
  BY DEF lanVars, LanUnchanged
<1> QED BY <1>1, <1>2 DEF Next, ElectionStep, Announce

-----------------------------------------------------------------------------
(* What the helpers range over. *)

LEMMA EntryFacts == Unknown \in Entries /\ Unknown.mode \notin Modes
BY DEF Entries, Unknown, Modes

LEMMA PeersFacts ==
    ASSUME TypeOK, NEW h \in Host
    PROVE  /\ ServerPeers(h) \subseteq Host
           /\ Peers(h) \subseteq Host
           /\ Winners(h) \subseteq Host
           /\ NoSelfEntry => h \notin ServerPeers(h)
<1>1. Peers(h) \subseteq Host /\ ServerPeers(h) \subseteq Host
  BY DEF Peers, ServerPeers
<1>2. Winners(h) \subseteq ServerPeers(h) \cup Peers(h) \cup {h}
  BY DEF Winners
<1>3. NoSelfEntry => h \notin ServerPeers(h)
  BY DEF NoSelfEntry, ServerPeers, Peers
<1> QED BY <1>1, <1>2, <1>3

LEMMA CurrentModeType ==
    ASSUME NEW h \in Host PROVE CurrentMode(h) \in Modes
BY DEF CurrentMode, Modes

\* What Decide leaves of the types of the variables that it sets.
LEMMA OfferType ==
    ASSUME TypeOK, NEW h \in Host, NEW server \in Host, Offer(h, server)
    PROVE  /\ offer' \in [Host -> Leaders]
           /\ waiting' \in [Host -> BOOLEAN]
           /\ elected' \in [Host -> BOOLEAN]
<1>1. CASE waiting[h] /\ offer[h] = NoHost
  <2>1. offer' = [offer EXCEPT ![h] = server]
    BY <1>1 DEF Offer
  <2> QED BY <2>1 DEF Offer, TypeOK, Leaders
<1>2. CASE ~(waiting[h] /\ offer[h] = NoHost)
  <2>1. offer' = [offer EXCEPT ![h] = offer[h]]
    BY <1>2 DEF Offer
  <2> QED BY <2>1 DEF Offer, TypeOK, Leaders
<1> QED BY <1>1, <1>2

LEMMA DecideType ==
    ASSUME TypeOK, NEW h \in Host, NEW w \in Host, NEW m \in Modes,
           Decide(h, w, m)
    PROVE  /\ isLeader' \in [Host -> BOOLEAN]
           /\ leader' \in [Host -> Leaders]
           /\ mode' \in [Host -> Modes]
           /\ offer' \in [Host -> Leaders]
           /\ waiting' \in [Host -> BOOLEAN]
           /\ elected' \in [Host -> BOOLEAN]
<1>1. CASE w = h
  <2>1. /\ isLeader' = [isLeader EXCEPT ![h] = TRUE]
        /\ leader' = [leader EXCEPT ![h] = h]
        /\ mode' = [mode EXCEPT ![h] = "server"]
        /\ elected' = [elected EXCEPT ![h] = waiting[h]]
        /\ waiting' = waiting /\ offer' = offer
    BY <1>1 DEF Decide, Elect
  <2> QED BY <2>1 DEF TypeOK, Leaders, Modes
<1>2. CASE w # h
  <2>1. /\ leader' = [leader EXCEPT ![h] = w]
        /\ mode' = [mode EXCEPT ![h] = m]
        /\ Offer(h, w)
        /\ isLeader' = isLeader
    BY <1>2 DEF Decide
  <2> QED BY <2>1, OfferType DEF TypeOK, Leaders
<1> QED BY <1>1, <1>2

-----------------------------------------------------------------------------
(* The state is well typed. *)

LEMMA TypeInit == LanInit => TypeOK
BY EntryFacts DEF LanInit, TypeOK, Leaders, Modes

LEMMA TypeNext == TypeOK /\ ElectionStep => TypeOK'
<1> SUFFICES ASSUME TypeOK, ElectionStep PROVE TypeOK'
  OBVIOUS
<1> USE DEF TypeOK, Leaders
<1>1. ASSUME NEW h \in Host, ElectAlone(h) PROVE TypeOK'
  <2>1. CurrentMode(h) \in Modes /\ "server" \in Modes
    BY CurrentModeType DEF Modes
  <2>2. CASE isLeader[h]
    BY <1>1, <2>1, <2>2 DEF ElectAlone, Stay, stateVars, channelVars
  <2>3. CASE ~isLeader[h]
    <3>1. PICK w \in Winners(h) : Decide(h, w, CurrentMode(h))
      BY <1>1, <2>3 DEF ElectAlone
    <3>2. w \in Host
      BY <3>1, PeersFacts
    <3> QED
      BY <1>1, <2>1, <3>1, <3>2, DecideType DEF ElectAlone, stateVars
  <2> QED BY <2>2, <2>3
<1>2. ASSUME NEW h \in Host, ElectChecks(h) PROVE TypeOK'
  <2>1. PICK s \in ServerPeers(h), w \in Winners(h) :
           round' = [round EXCEPT ![h] =
                        [server |-> s, winner |-> w, was |-> isLeader[h]]]
    BY <1>2 DEF ElectChecks
  <2>2. [server |-> s, winner |-> w, was |-> isLeader[h]] \in Rounds
    BY <2>1, PeersFacts DEF Rounds
  <2> QED
    BY <1>2, <2>1, <2>2, CurrentModeType
    DEF ElectChecks, stateVars, channelVars
<1>3. ASSUME NEW h \in Host, ElectFollows(h) PROVE TypeOK'
  <2>1. round[h] \in Rounds
    BY <1>3 DEF ElectFollows
  <2>2. round[h].server \in Host /\ round[h].was \in BOOLEAN
    BY <2>1 DEF Rounds
  <2> QED
    BY <1>3, <2>2, OfferType DEF ElectFollows, stateVars
<1>4. ASSUME NEW h \in Host, ElectUnanswered(h) PROVE TypeOK'
  <2>1. round[h] \in Rounds /\ "server" \in Modes
    BY <1>4 DEF ElectUnanswered, Modes
  <2>2. disturbances' \in 0..MaxDisturbances
    BY <1>4 DEF ElectUnanswered, Disturb
  <2>3. CASE round[h].was
    BY <1>4, <2>1, <2>2, <2>3
    DEF ElectUnanswered, Stay, Rounds, stateVars, channelVars
  <2>4. CASE ~round[h].was
    <3>1. round[h].winner \in Host /\ mode[h] \in Modes
      BY <2>1 DEF Rounds
    <3>2. Decide(h, round[h].winner, mode[h])
      BY <1>4, <2>4 DEF ElectUnanswered
    <3> QED
      BY <1>4, <2>2, <3>1, <3>2, DecideType DEF ElectUnanswered, stateVars
  <2> QED BY <2>3, <2>4
<1>5. ASSUME NEW h \in Host, NEW g \in Host, Hear(h, g) PROVE TypeOK'
  <2>1. [mode |-> mode[g], born |-> born[g]] \in Entries
    BY DEF Entries
  <2> QED
    BY <1>5, <2>1 DEF Hear, stateVars, channelVars
<1>6. ASSUME NEW h \in Host, GreetFollows(h) PROVE TypeOK'
  <2>1. greeting[h] \in Host
    BY <1>6 DEF GreetFollows
  <2> QED BY <1>6, <2>1, OfferType DEF GreetFollows, stateVars, channelVars
<1>7. ASSUME NEW h \in Host, GreetUnanswered(h) PROVE TypeOK'
  BY <1>7 DEF GreetUnanswered, Disturb, stateVars, channelVars
<1>8. ASSUME NEW h \in Host, NEW g \in Host, PeerTimesOut(h, g) PROVE TypeOK'
  BY <1>8, EntryFacts DEF PeerTimesOut, Disturb, stateVars, channelVars
<1>9. ASSUME NEW h \in Host, Crash(h) PROVE TypeOK'
  BY <1>9 DEF Crash, Disturb, channelVars
<1>10. ASSUME NEW h \in Host, Restart(h) PROVE TypeOK'
  BY <1>10, EntryFacts DEF Restart, Modes
<1>11. ASSUME NEW h \in Host,
              TakeElected(h) \/ TakeOffer(h) \/ WaitNoLonger(h),
              disturbances' \in 0..MaxDisturbances
       PROVE  TypeOK'
  BY <1>11
  DEF TakeElected, TakeOffer, WaitNoLonger, AnnounceAs, StopWaiting, Modes,
      stateVars
<1>12. ASSUME NEW h \in Host, NEW m \in {"agent", "server"},
              Announce(h, m), disturbances' \in 0..MaxDisturbances
       PROVE  TypeOK'
  BY <1>12 DEF Announce, AnnounceAs, Modes, stateVars, channelVars
<1>13. CASE LanUnchanged /\ disturbances' \in 0..MaxDisturbances
  BY <1>13 DEF LanUnchanged, stateVars, channelVars
<1> QED
  BY <1>1, <1>2, <1>3, <1>4, <1>5, <1>6, <1>7, <1>8, <1>9, <1>10, <1>11,
     <1>12, <1>13
  DEF ElectionStep, LanStep, LoopStep, GreetStep

\* Every reachable state is well typed, for any number of hosts and faults.
THEOREM TypeCorrect == Spec => []TypeOK
BY TypeInit, TypeNext, ElectionAlone, PTL DEF Spec

-----------------------------------------------------------------------------
(* No host takes itself for a peer. *)

LEMMA SelfNext ==
    TypeOK /\ NoSelfEntry /\ NeverOwnAgent /\ ElectionStep
        => NoSelfEntry' /\ NeverOwnAgent'
<1> SUFFICES ASSUME TypeOK, NoSelfEntry, NeverOwnAgent, ElectionStep
             PROVE  NoSelfEntry' /\ NeverOwnAgent'
  OBVIOUS
<1> DEFINE OffersOthers == \A h \in Host : offer[h] # h
<1>1. ASSUME NEW h \in Host, NEW s \in Host, s # h, Offer(h, s)
      PROVE  OffersOthers'
  BY <1>1 DEF Offer, NeverOwnAgent, TypeOK
<1>2. ASSUME NEW h \in Host, NEW w \in Host, NEW m, Decide(h, w, m)
      PROVE  OffersOthers'
  <2>1. CASE w = h
    BY <1>2, <2>1 DEF Decide, Elect, NeverOwnAgent
  <2>2. CASE w # h
    BY <1>1, <1>2, <2>2 DEF Decide
  <2> QED BY <2>1, <2>2
<1>3. \A h \in Host : NoRound.server # h
  BY HostAssumption DEF NoRound
<1>4. ASSUME NEW h \in Host, ElectAlone(h)
      PROVE  NoSelfEntry' /\ NeverOwnAgent'
  <2>1. OffersOthers'
    BY <1>2, <1>4, PeersFacts
    DEF ElectAlone, Stay, channelVars, NeverOwnAgent
  <2> QED BY <1>4, <2>1 DEF ElectAlone, NoSelfEntry, NeverOwnAgent
<1>5. ASSUME NEW h \in Host, ElectChecks(h)
      PROVE  NoSelfEntry' /\ NeverOwnAgent'
  <2>1. PICK s \in ServerPeers(h), w \in Winners(h) :
           round' = [round EXCEPT ![h] =
                        [server |-> s, winner |-> w, was |-> isLeader[h]]]
    BY <1>5 DEF ElectChecks
  <2>2. s # h
    BY <2>1, PeersFacts
  <2> QED
    BY <1>5, <2>1, <2>2
    DEF ElectChecks, NoSelfEntry, NeverOwnAgent, TypeOK, channelVars
<1>6. ASSUME NEW h \in Host, ElectFollows(h)
      PROVE  NoSelfEntry' /\ NeverOwnAgent'
  <2>1. round[h] \in Rounds /\ round[h].server # h
    BY <1>6 DEF ElectFollows, TypeOK, NeverOwnAgent
  <2>2. OffersOthers'
    BY <1>1, <1>6, <2>1 DEF ElectFollows, Rounds
  <2> QED
    BY <1>3, <1>6, <2>2
    DEF ElectFollows, NoSelfEntry, NeverOwnAgent, TypeOK
<1>7. ASSUME NEW h \in Host, ElectUnanswered(h)
      PROVE  NoSelfEntry' /\ NeverOwnAgent'
  <2>1. round[h] \in Rounds
    BY <1>7 DEF ElectUnanswered, TypeOK
  <2>2. OffersOthers'
    BY <1>2, <1>7, <2>1
    DEF ElectUnanswered, Stay, Rounds, channelVars, NeverOwnAgent
  <2> QED
    BY <1>3, <1>7, <2>2
    DEF ElectUnanswered, NoSelfEntry, NeverOwnAgent, TypeOK
<1>8. ASSUME NEW h \in Host, NEW g \in Host, Hear(h, g)
      PROVE  NoSelfEntry' /\ NeverOwnAgent'
  BY <1>8, HostAssumption
  DEF Hear, NoSelfEntry, NeverOwnAgent, TypeOK, channelVars
<1>9. ASSUME NEW h \in Host, GreetFollows(h)
      PROVE  NoSelfEntry' /\ NeverOwnAgent'
  <2>1. greeting[h] \in Host /\ greeting[h] # h
    BY <1>9 DEF GreetFollows, NeverOwnAgent, TypeOK, Leaders
  <2>2. OffersOthers'
    BY <1>1, <1>9, <2>1 DEF GreetFollows, channelVars, NeverOwnAgent
  <2> QED
    BY <1>9, <2>2, HostAssumption
    DEF GreetFollows, NoSelfEntry, NeverOwnAgent, TypeOK
<1>10. ASSUME NEW h \in Host, GreetUnanswered(h)
       PROVE  NoSelfEntry' /\ NeverOwnAgent'
  BY <1>10, HostAssumption
  DEF GreetUnanswered, NoSelfEntry, NeverOwnAgent, TypeOK, channelVars
<1>11. ASSUME NEW h \in Host, NEW g \in Host, PeerTimesOut(h, g)
       PROVE  NoSelfEntry' /\ NeverOwnAgent'
  BY <1>11
  DEF PeerTimesOut, NoSelfEntry, NeverOwnAgent, TypeOK, channelVars
<1>12. ASSUME NEW h \in Host, Crash(h)
       PROVE  NoSelfEntry' /\ NeverOwnAgent'
  BY <1>12 DEF Crash, NoSelfEntry, NeverOwnAgent, channelVars
<1>13. ASSUME NEW h \in Host, Restart(h)
       PROVE  NoSelfEntry' /\ NeverOwnAgent'
  BY <1>3, <1>13, HostAssumption
  DEF Restart, NoSelfEntry, NeverOwnAgent, TypeOK
<1>14. ASSUME NEW h \in Host,
              TakeElected(h) \/ TakeOffer(h) \/ WaitNoLonger(h)
       PROVE  NoSelfEntry' /\ NeverOwnAgent'
  BY <1>14, HostAssumption
  DEF TakeElected, TakeOffer, WaitNoLonger, AnnounceAs, StopWaiting,
      NoSelfEntry, NeverOwnAgent, TypeOK
<1>15. ASSUME NEW h \in Host, NEW m, Announce(h, m)
       PROVE  NoSelfEntry' /\ NeverOwnAgent'
  BY <1>15 DEF Announce, AnnounceAs, NoSelfEntry, NeverOwnAgent, channelVars
<1>16. CASE LanUnchanged
  BY <1>16 DEF LanUnchanged, channelVars, NoSelfEntry, NeverOwnAgent
<1> QED
  BY <1>4, <1>5, <1>6, <1>7, <1>8, <1>9, <1>10, <1>11, <1>12, <1>13, <1>14,
     <1>15, <1>16
  DEF ElectionStep, LanStep, LoopStep, GreetStep

\* No host ever checks or follows itself, because its own broadcasts never
\* enter its table (listenLoop, discovery.go:96).
THEOREM NeverOwnAgentCorrect == Spec => []NeverOwnAgent
<1>1. LanInit => NoSelfEntry /\ NeverOwnAgent
  BY HostAssumption DEF LanInit, NoSelfEntry, NeverOwnAgent, NoRound
<1> QED
  BY <1>1, TypeInit, TypeNext, SelfNext, ElectionAlone, PTL DEF Spec

-----------------------------------------------------------------------------
(* A leader names itself. *)

LEMMA LeaderNext ==
    IInv /\ ElectionStep => LeaderNamesItself'
<1> SUFFICES ASSUME IInv, ElectionStep PROVE LeaderNamesItself'
  OBVIOUS
<1> USE DEF IInv, LeaderNamesItself
<1>1. ASSUME NEW h \in Host, NEW w \in Host, NEW m, Decide(h, w, m),
             ~isLeader[h], round'[h] = NoRound,
             \A g \in Host \ {h} : round'[g] = round[g]
      PROVE  LeaderNamesItself'
  <2>1. CASE w = h
    <3>1. isLeader' = [isLeader EXCEPT ![h] = TRUE]
          /\ leader' = [leader EXCEPT ![h] = h]
      BY <1>1, <2>1 DEF Decide
    <3> QED BY <1>1, <3>1 DEF TypeOK
  <2>2. CASE w # h
    <3>1. isLeader' = isLeader /\ leader' = [leader EXCEPT ![h] = w]
      BY <1>1, <2>2 DEF Decide
    <3> QED BY <1>1, <3>1 DEF TypeOK
  <2> QED BY <2>1, <2>2
<1>2. ASSUME NEW h \in Host, ElectAlone(h) PROVE LeaderNamesItself'
  <2>1. CASE isLeader[h]
    BY <1>2, <2>1 DEF ElectAlone, Stay
  <2>2. CASE ~isLeader[h]
    BY <1>1, <1>2, <2>2, PeersFacts DEF ElectAlone
  <2> QED BY <2>1, <2>2
<1>3. ASSUME NEW h \in Host, ElectChecks(h) PROVE LeaderNamesItself'
  BY <1>3 DEF ElectChecks, TypeOK
<1>4. ASSUME NEW h \in Host, ElectFollows(h) PROVE LeaderNamesItself'
  \* a round begun as a leader clears isLeader; another one finds it FALSE
  <2>1. isLeader'[h] = FALSE
    <3>1. isLeader[h] => round[h].was
      BY <1>4 DEF ElectFollows
    <3>2. isLeader'[h] = (isLeader[h] /\ ~round[h].was)
      BY <1>4 DEF ElectFollows, TypeOK
    <3> QED BY <3>1, <3>2
  <2>2. \A g \in Host \ {h} :
           isLeader'[g] = isLeader[g] /\ leader'[g] = leader[g]
              /\ round'[g] = round[g]
    BY <1>4 DEF ElectFollows, TypeOK
  <2> QED BY <2>1, <2>2
<1>5. ASSUME NEW h \in Host, ElectUnanswered(h) PROVE LeaderNamesItself'
  <2>1. /\ round' = [round EXCEPT ![h] = NoRound]
        /\ round[h] # NoRound /\ round[h] \in Rounds
    BY <1>5 DEF ElectUnanswered, TypeOK
  <2>2. CASE round[h].was
    BY <1>5, <2>1, <2>2 DEF ElectUnanswered, Stay, TypeOK
  <2>3. CASE ~round[h].was
    <3>1. ~isLeader[h] /\ round[h].winner \in Host
      BY <2>1, <2>3 DEF Rounds
    <3>2. Decide(h, round[h].winner, mode[h])
      BY <1>5, <2>3 DEF ElectUnanswered
    <3> QED BY <1>1, <2>1, <3>1, <3>2 DEF TypeOK
  <2> QED BY <2>2, <2>3
<1>6. ASSUME NEW h \in Host, GreetFollows(h) PROVE LeaderNamesItself'
  BY <1>6 DEF GreetFollows, TypeOK
<1>7. ASSUME NEW h \in Host, NEW g \in Host,
             PeerTimesOut(h, g)
      PROVE  LeaderNamesItself'
  \* the peer is another host, so it is not the one that a leader names
  <2>1. g # h
    BY <1>7 DEF PeerTimesOut, NoSelfEntry, Peers
  <2>2. leader' = leader
    BY <1>7, <2>1 DEF PeerTimesOut
  <2> QED BY <1>7, <2>2 DEF PeerTimesOut
<1>8. ASSUME NEW h \in Host, Restart(h) PROVE LeaderNamesItself'
  BY <1>8 DEF Restart, TypeOK
<1>9. CASE UNCHANGED <<isLeader, leader, round>>
  BY <1>9
<1> QED
  BY <1>2, <1>3, <1>4, <1>5, <1>6, <1>7, <1>8, <1>9
  DEF ElectionStep, LanStep, LoopStep, GreetStep, Hear, GreetUnanswered, Crash,
      TakeElected, TakeOffer, WaitNoLonger, Announce, AnnounceAs, LanUnchanged

\* A leader names itself, whatever the election loop and the receiver decide
\* at the same time.
THEOREM LeaderNamesItselfCorrect == Spec => []LeaderNamesItself
<1>1. LanInit => LeaderNamesItself /\ NoSelfEntry /\ NeverOwnAgent
  BY HostAssumption
  DEF LanInit, LeaderNamesItself, NoSelfEntry, NeverOwnAgent, NoRound
<1>2. LanInit => IInv
  BY <1>1, TypeInit DEF IInv
<1>3. IInv /\ [Next]_lanVars => IInv'
  BY ElectionAlone, TypeNext, SelfNext, LeaderNext DEF IInv
<1>4. IInv => LeaderNamesItself
  BY DEF IInv
<1> QED BY <1>2, <1>3, <1>4, PTL DEF Spec

\* onPeerLost (lan_election.go:201-211) never forgets anybody: it asks for a
\* lost peer that is the leader of a host that leads, and such a host names
\* itself.  A follower keeps the leader it lost until its next round.
THEOREM LostLeaderIsKept ==
    Spec => [][\A h, g \in Host : PeerTimesOut(h, g) => UNCHANGED leader]_lanVars
<1>1. ASSUME IInv, NEW h \in Host, NEW g \in Host, PeerTimesOut(h, g)
      PROVE  UNCHANGED leader
  <2>1. g # h
    BY <1>1 DEF PeerTimesOut, NoSelfEntry, Peers, IInv
  <2> QED BY <1>1, <2>1 DEF PeerTimesOut, LeaderNamesItself, IInv
<1>2. IInv /\ [Next]_lanVars
        => [\A h, g \in Host : PeerTimesOut(h, g) => UNCHANGED leader]_lanVars
  BY <1>1
<1>3. LanInit => IInv
  BY TypeInit, HostAssumption
  DEF IInv, LanInit, LeaderNamesItself, NoSelfEntry, NeverOwnAgent, NoRound
<1>4. IInv /\ [Next]_lanVars => IInv'
  BY ElectionAlone, TypeNext, SelfNext, LeaderNext DEF IInv
<1> QED BY <1>2, <1>3, <1>4, PTL DEF Spec

-----------------------------------------------------------------------------
(* Who takes the lead. *)

\* An announcement is not younger than its sender: a restart is later than
\* everything that was announced before it.
EntriesPast ==
    \A h, g \in Host : table[h][g] # Unknown => table[h][g].born <= born[g]

\* A round that a follower began will not make it the leader: the peer that it
\* checks announced a server, and servers come first in the candidates.
RoundsFollow ==
    \A h \in Host :
        round[h] # NoRound /\ ~round[h].was => round[h].winner # h

\* A host becomes the leader only at a step at which no peer in its table
\* announces a server, and, unless the starts are near each other, it started
\* before every host in its table, by the true times and not by what its stale
\* table says.
TakesTheLead(h) ==
    /\ ServerPeers(h) = {}
    /\ \A g \in Peers(h) : NearTie \/ born[h] < born[g]

EldestLeads ==
    [][\A h \in Host : ~isLeader[h] /\ isLeader'[h] => TakesTheLead(h)]_lanVars

LeadInv == IInv /\ EntriesPast /\ RoundsFollow

\* What a follower elects when nobody announces a server, and when somebody
\* does.
LEMMA FollowersWinners ==
    ASSUME TypeOK, NoSelfEntry, EntriesPast, NEW h \in Host, ~isLeader[h]
    PROVE  /\ h \in Winners(h) => TakesTheLead(h)
           /\ ServerPeers(h) # {} => h \notin Winners(h)
<1>1. ServerPeers(h) # {} => h \notin Winners(h)
  BY PeersFacts DEF Winners
<1>2. ASSUME h \in Winners(h), NEW g \in Peers(h)
      PROVE  NearTie \/ born[h] < born[g]
  <2>1. ServerPeers(h) = {}
    BY <1>1, <1>2
  <2>2. g \in Host /\ g # h /\ table[h][g] # Unknown
    BY <1>2 DEF Peers, NoSelfEntry
  <2>3. Elder(h, h, g)
    BY <1>2, <2>1, <2>2 DEF Winners
  <2>4. NearTie \/ born[h] < table[h][g].born
    BY <2>2, <2>3 DEF Elder
  <2>5. table[h][g].born <= born[g]
    BY <2>2 DEF EntriesPast
  <2>6. table[h][g].born \in Nat
    <3>1. table[h][g] \in Entries
      BY <2>2 DEF TypeOK
    <3> QED BY <3>1 DEF Entries, Unknown
  <2> QED BY <2>2, <2>4, <2>5, <2>6 DEF TypeOK
<1> QED BY <1>1, <1>2 DEF TakesTheLead

LEMMA EntriesNext ==
    TypeOK /\ EntriesPast /\ ElectionStep => EntriesPast'
<1> SUFFICES ASSUME TypeOK, EntriesPast, ElectionStep PROVE EntriesPast'
  OBVIOUS
<1>1. CASE UNCHANGED <<table, born>>
  BY <1>1 DEF EntriesPast
<1>2. ASSUME NEW h \in Host, NEW g \in Host, Hear(h, g) PROVE EntriesPast'
  <2>1. table' = [table EXCEPT ![h][g] = [mode |-> mode[g], born |-> born[g]]]
        /\ born' = born
    BY <1>2 DEF Hear, stateVars
  <2>2. born[g] <= born[g]
    BY DEF TypeOK
  <2> QED BY <2>1, <2>2 DEF EntriesPast, TypeOK
<1>3. ASSUME NEW h \in Host, NEW g \in Host, PeerTimesOut(h, g)
      PROVE  EntriesPast'
  <2>1. table' = [table EXCEPT ![h][g] = Unknown] /\ born' = born
    BY <1>3 DEF PeerTimesOut, stateVars
  <2> QED BY <2>1 DEF EntriesPast, TypeOK
<1>4. ASSUME NEW h \in Host, Restart(h) PROVE EntriesPast'
  <2>1. PICK g \in Host : /\ \A k \in Host : born[k] <= born[g]
                          /\ born' = [born EXCEPT ![h] = born[g] + 1]
    BY <1>4 DEF Restart
  <2>2. \A k \in Host : born'[k] \in Nat /\ born[k] \in Nat /\ born[k] <= born'[k]
    BY <2>1 DEF TypeOK
  <2>3. table' = [table EXCEPT ![h] = [k \in Host |-> Unknown]]
    BY <1>4 DEF Restart
  <2>4. ASSUME NEW j \in Host, NEW k \in Host, table'[j][k] # Unknown
        PROVE  table'[j][k].born <= born'[k]
    <3>1. table'[j][k] = table[j][k] /\ table[j][k] # Unknown
      BY <2>3, <2>4 DEF TypeOK
    <3>2. table[j][k].born <= born[k]
      BY <3>1 DEF EntriesPast
    <3>3. table[j][k].born \in Nat
      <4>1. table[j][k] \in Entries
        BY DEF TypeOK
      <4> QED BY <4>1 DEF Entries, Unknown
    <3> QED BY <2>2, <3>1, <3>2, <3>3
  <2> QED BY <2>4 DEF EntriesPast
<1> QED
  BY <1>1, <1>2, <1>3, <1>4
  DEF ElectionStep, LanStep, LoopStep, GreetStep, ElectAlone, ElectChecks,
      ElectFollows, ElectUnanswered, GreetFollows, GreetUnanswered, Crash,
      TakeElected, TakeOffer, WaitNoLonger, Announce, AnnounceAs,
      LanUnchanged, stateVars

LEMMA RoundsNext == LeadInv /\ ElectionStep => RoundsFollow'
<1> SUFFICES ASSUME LeadInv, ElectionStep PROVE RoundsFollow'
  OBVIOUS
<1> USE DEF LeadInv, IInv
<1>1. ASSUME NEW h \in Host, ElectChecks(h) PROVE RoundsFollow'
  <2>1. PICK s \in ServerPeers(h), w \in Winners(h) :
           round' = [round EXCEPT ![h] =
                        [server |-> s, winner |-> w, was |-> isLeader[h]]]
    BY <1>1 DEF ElectChecks
  <2>2. ~isLeader[h] => w # h
    BY <2>1, FollowersWinners
  <2> QED BY <2>1, <2>2 DEF RoundsFollow, TypeOK
<1>2. ASSUME NEW h \in Host, round' = [round EXCEPT ![h] = NoRound]
      PROVE  RoundsFollow'
  BY <1>2 DEF RoundsFollow, TypeOK
<1>3. CASE UNCHANGED round
  BY <1>3 DEF RoundsFollow
<1> QED
  BY <1>1, <1>2, <1>3
  DEF ElectionStep, LanStep, LoopStep, GreetStep, ElectAlone, ElectFollows,
      ElectUnanswered, Hear, GreetFollows, GreetUnanswered, PeerTimesOut,
      Crash, Restart, TakeElected, TakeOffer, WaitNoLonger, Announce,
      AnnounceAs, LanUnchanged

LEMMA LeadStep ==
    ASSUME LeadInv, ElectionStep, NEW h \in Host, ~isLeader[h], isLeader'[h]
    PROVE  TakesTheLead(h)
<1> USE DEF LeadInv, IInv
<1>1. ASSUME NEW g \in Host, NEW w \in Host, NEW m, Decide(g, w, m)
      PROVE  g = h /\ w = h
  <2>1. isLeader' # isLeader
    OBVIOUS
  <2>2. w = g /\ isLeader' = [isLeader EXCEPT ![g] = TRUE]
    BY <1>1, <2>1 DEF Decide
  <2> QED BY <2>2 DEF TypeOK
<1>2. ASSUME NEW g \in Host, ElectAlone(g) PROVE TakesTheLead(h)
  <2>1. ~isLeader[g]
    BY <1>2 DEF ElectAlone, Stay
  <2>2. PICK w \in Winners(g) : Decide(g, w, CurrentMode(g))
    BY <1>2, <2>1 DEF ElectAlone
  <2>3. w \in Host
    BY <2>2, PeersFacts
  <2>4. g = h /\ w = h
    BY <1>1, <2>2, <2>3
  <2> QED BY <2>2, <2>4, FollowersWinners
<1>3. ASSUME NEW g \in Host, ElectUnanswered(g) PROVE FALSE
  <2>1. ~round[g].was
    BY <1>3 DEF ElectUnanswered, Stay
  <2>2. round[g] # NoRound /\ round[g] \in Rounds
    BY <1>3 DEF ElectUnanswered, TypeOK
  <2>3. Decide(g, round[g].winner, mode[g])
    BY <1>3, <2>1 DEF ElectUnanswered
  <2>4. g = h /\ round[g].winner = h
    BY <1>1, <2>2, <2>3 DEF Rounds
  <2> QED BY <2>1, <2>2, <2>4 DEF RoundsFollow
<1>4. ASSUME NEW g \in Host, ElectFollows(g) \/ GreetFollows(g) \/ Restart(g)
      PROVE  FALSE
  BY <1>4 DEF ElectFollows, GreetFollows, Restart, TypeOK
<1> QED
  BY <1>2, <1>3, <1>4
  DEF ElectionStep, LanStep, LoopStep, GreetStep, ElectChecks, Hear,
      GreetUnanswered, PeerTimesOut, Crash, TakeElected, TakeOffer,
      WaitNoLonger, Announce, AnnounceAs, LanUnchanged

LEMMA LeadInit == LanInit => LeadInv
BY TypeInit, HostAssumption
DEF LeadInv, IInv, LanInit, LeaderNamesItself, NoSelfEntry, NeverOwnAgent,
    NoRound, EntriesPast, RoundsFollow

LEMMA LeadNext == LeadInv /\ ElectionStep => LeadInv'
BY TypeNext, SelfNext, LeaderNext, EntriesNext, RoundsNext DEF LeadInv, IInv

\* The election picks the eldest: however old the announcements are that it
\* decides from, and whatever restarts and time-outs happened, a host that
\* takes the lead is older than everyone it has heard, and has heard no server
\* (runElection, lan_election.go:69-155).  The health check of a server that
\* fails never makes the checking follower the leader.
THEOREM EldestLeadsCorrect == Spec => EldestLeads
<1>1. LeadInv /\ [Next]_lanVars => LeadInv'
  BY LeadNext, ElectionAlone DEF LeadInv, IInv
<1>2. LeadInv /\ [Next]_lanVars =>
        [\A h \in Host : ~isLeader[h] /\ isLeader'[h] => TakesTheLead(h)]_lanVars
  BY LeadStep, ElectionAlone DEF LeadInv, IInv
<1> QED BY <1>1, <1>2, LeadInit, PTL DEF Spec, EldestLeads

\* Two hosts that have heard each other, and neither of which leads, are never
\* both the winner of their own election, except when their starts are too near
\* to be told apart: nothing but NearTie makes two hosts of one domain take the
\* lead at once (the lock step of lan_election.go:84).
RivalsDiffer ==
    \A g, h \in Host :
        /\ g # h /\ g \in Peers(h) /\ h \in Peers(g)
        /\ ~isLeader[g] /\ ~isLeader[h]
        /\ g \in Winners(g) /\ h \in Winners(h)
        => NearTie

LEMMA LeadExcludes == LeadInv => RivalsDiffer
<1>1. ASSUME LeadInv PROVE RivalsDiffer
  <2>1. SUFFICES ASSUME NEW g \in Host, NEW h \in Host,
                        g \in Peers(h), h \in Peers(g),
                        ~isLeader[g], ~isLeader[h],
                        g \in Winners(g), h \in Winners(h)
                 PROVE  NearTie
    BY DEF RivalsDiffer
  <2>2. TakesTheLead(g) /\ TakesTheLead(h)
    BY <1>1, <2>1, FollowersWinners DEF LeadInv, IInv
  <2>3. born[g] \in Nat /\ born[h] \in Nat
    BY <1>1 DEF LeadInv, IInv, TypeOK
  <2> QED BY <2>1, <2>2, <2>3 DEF TakesTheLead
<1> QED BY <1>1

\* Mutual exclusion of the decisions, from tables of any age.
THEOREM RivalsDifferCorrect == Spec => []RivalsDiffer
<1>1. LeadInv /\ [Next]_lanVars => LeadInv'
  BY LeadNext, ElectionAlone DEF LeadInv, IInv
<1> QED BY <1>1, LeadInit, LeadExcludes, PTL DEF Spec

-----------------------------------------------------------------------------
(* The main loop of LanMainLoop: its steps are steps of the election.        *)

USE RelayAssumption, RelayFirstAssumption, UsersAssumption, AttemptsAssumption

\* In the main loop no host checks itself or has itself as its server.
NeverItself ==
    \A h \in Host :
        /\ url[h] # h /\ found[h] # h
        /\ main[h] = "checking" => found[h] # NoHost
        /\ main[h] = "agent" => url[h] # NoHost

LEMMA DisturbType ==
    ASSUME TypeOK, Disturb \/ UNCHANGED disturbances
    PROVE  disturbances' \in 0..MaxDisturbances
BY DEF TypeOK, Disturb

LEMMA UnansweredType ==
    ASSUME TypeOK, NEW s, Unanswered(s)
    PROVE  disturbances' \in 0..MaxDisturbances
BY DisturbType DEF Unanswered

\* Every step of the main loop is one that the invariants of the election bear.
LEMMA MainComposes == TypeOK /\ [MainNext]_vars => ElectionStep
<1> SUFFICES ASSUME TypeOK, [MainNext]_vars PROVE ElectionStep
  OBVIOUS
<1>1. ASSUME NEW h \in Host, LanPhase(h) PROVE ElectionStep
  <2>1. disturbances' \in 0..MaxDisturbances
    BY <1>1, DisturbType DEF LanPhase, LanElected, LanFoundServer, LanTimeout
  <2> QED
    BY <1>1, <2>1
    DEF LanPhase, LanElected, LanFoundServer, LanTimeout, ElectionStep
<1>2. ASSUME NEW h \in Host, LoopPhase(h) PROVE ElectionStep
  <2>1. disturbances' \in 0..MaxDisturbances
    BY <1>2, DisturbType, UnansweredType
    DEF LoopPhase, LoopRejoins, LoopFindsRelay, LoopRetries, LoopChecksLan,
        LoopFindsServer, LoopGivesUp, LoopServes
  <2>2. LanUnchanged \/ \E m \in {"agent", "server"} : Announce(h, m)
    BY <1>2
    DEF LoopPhase, LoopRejoins, LoopFindsRelay, LoopRetries, LoopChecksLan,
        LoopFindsServer, LoopGivesUp, LoopServes
  <2> QED BY <2>1, <2>2 DEF ElectionStep
<1>3. ASSUME NEW h \in Host,
             PromoteAgent(h) \/ ServerStops(h) \/ Configure(h) \/ RelayChanges
      PROVE  ElectionStep
  BY <1>3, DisturbType
  DEF PromoteAgent, ServerStops, Configure, RelayChanges, ElectionStep
<1>4. ASSUME UNCHANGED lanVars PROVE ElectionStep
  BY <1>4, DisturbType DEF lanVars, LanUnchanged, ElectionStep
<1>5. ASSUME NEW h \in Host, MainRestart(h) PROVE ElectionStep
  BY <1>5 DEF MainRestart, ElectionStep
<1>6. CASE RelayChanges
  BY <1>6, DisturbType DEF RelayChanges, ElectionStep
<1> QED
  BY <1>1, <1>2, <1>3, <1>4, <1>5, <1>6
  DEF MainNext, MainStep, AgentAutoPromotes, ElectionStep, vars

\* The type of the main loop's own variables, and what NeverItself says of them.
MainState ==
    /\ main \in [Host -> Places]
    /\ url \in [Host -> Servers]
    /\ found \in [Host -> Leaders]
    /\ attempts \in [Host -> 0..(MaxAttempts - 1)]
    /\ serverMode \in [Host -> BOOLEAN]
    /\ serving \in [Host -> BOOLEAN]
    /\ relayUp \in BOOLEAN
    /\ NeverItself

LEMMA AgentState ==
    ASSUME MainState, NEW h \in Host, NEW s \in Servers, s \notin {h, NoHost},
           BecomeAgent(h, s),
           found' \in [Host -> Leaders],
           \A g \in Host : found'[g] = found[g] \/ (g = h /\ found'[g] = NoHost),
           attempts' \in [Host -> 0..(MaxAttempts - 1)]
    PROVE  MainState'
<1>1. main' \in [Host -> Places] /\ url' \in [Host -> Servers]
  BY DEF BecomeAgent, MainState, Places
<1>2. serverMode' \in [Host -> BOOLEAN] /\ serving' \in [Host -> BOOLEAN]
      /\ relayUp' \in BOOLEAN
  BY DEF BecomeAgent, MainState
<1>3. NeverItself'
  <2>1. /\ main' = [main EXCEPT ![h] = "agent"]
        /\ url' = [url EXCEPT ![h] = s]
    BY DEF BecomeAgent
  <2> QED BY <2>1, HostAssumption DEF MainState, NeverItself
<1> QED BY <1>1, <1>2, <1>3 DEF MainState

LEMMA ServerState ==
    ASSUME MainState, NEW h \in Host, BecomeServer(h),
           found' = found \/ found' = [found EXCEPT ![h] = NoHost]
    PROVE  MainState'
<1>1. /\ main' = [main EXCEPT ![h] = "serving"]
      /\ serverMode' = [serverMode EXCEPT ![h] = TRUE]
      /\ serving' = [serving EXCEPT ![h] = TRUE]
      /\ attempts' = [attempts EXCEPT ![h] = 0]
      /\ url' = url /\ relayUp' = relayUp
  BY DEF BecomeServer
<1>2. 0 \in 0..(MaxAttempts - 1) /\ NoHost \in Leaders /\ "serving" \in Places
  BY AttemptsAssumption DEF Leaders, Places
<1>3. found' \in [Host -> Leaders] /\ attempts' \in [Host -> 0..(MaxAttempts - 1)]
      /\ main' \in [Host -> Places]
  BY <1>1, <1>2 DEF MainState
<1>4. NeverItself'
  BY <1>1, HostAssumption DEF MainState, NeverItself
<1> QED BY <1>1, <1>3, <1>4 DEF MainState

LEMMA MainInit == Init => IInv /\ MainState
<1> SUFFICES ASSUME Init PROVE IInv /\ MainState
  OBVIOUS
<1>1. LanInit
  BY DEF Init
<1>2. IInv
  BY <1>1, TypeInit, HostAssumption
  DEF IInv, LanInit, LeaderNamesItself, NoSelfEntry, NeverOwnAgent, NoRound
<1>3. MainState
  BY HostAssumption, AttemptsAssumption, RelayFirstAssumption
  DEF Init, MainState, NeverItself, Places, Servers, Leaders
<1> QED BY <1>2, <1>3

LEMMA MainStateNext == IInv /\ MainState /\ [MainNext]_vars => MainState'
<1> SUFFICES ASSUME IInv, MainState, [MainNext]_vars PROVE MainState'
  OBVIOUS
<1>0. /\ Relay \in Servers /\ Relay # NoHost /\ Relay \notin Host
      /\ Leaders \subseteq Servers /\ Host \subseteq Leaders
      /\ NoHost \in Leaders /\ 0 \in 0..(MaxAttempts - 1)
  BY RelayAssumption, AttemptsAssumption DEF Servers, Leaders
<1>1. ASSUME NEW h \in Host, LanElected(h) PROVE MainState'
  BY <1>1, ServerState DEF LanElected
<1>2. ASSUME NEW h \in Host, LanFoundServer(h) PROVE MainState'
  <2>1. offer[h] \in Servers /\ offer[h] \notin {h, NoHost}
    BY <1>0, <1>2 DEF LanFoundServer, TakeOffer, IInv, TypeOK, NeverOwnAgent
  <2> QED BY <1>2, <2>1, AgentState DEF LanFoundServer, MainState
<1>3. ASSUME NEW h \in Host, LanTimeout(h) PROVE MainState'
  BY <1>3 DEF LanTimeout, MainState, NeverItself, Places
<1>4. ASSUME NEW h \in Host, LoopRejoins(h) PROVE MainState'
  <2>1. url[h] \in Servers /\ url[h] \notin {h, NoHost}
    BY <1>4 DEF LoopRejoins, HasServer, MainState, NeverItself
  <2> QED BY <1>4, <2>1, AgentState DEF LoopRejoins, MainState
<1>5. ASSUME NEW h \in Host, LoopFindsRelay(h) PROVE MainState'
  BY <1>0, <1>5, AgentState DEF LoopFindsRelay, MainState
<1>6. ASSUME NEW h \in Host, LoopRetries(h) PROVE MainState'
  <2>1. attempts[h] + 1 \in 0..(MaxAttempts - 1)
    BY <1>6, AttemptsAssumption DEF LoopRetries, MainState
  <2> QED BY <1>6, <2>1 DEF LoopRetries, MainState, NeverItself
<1>7. ASSUME NEW h \in Host, LoopChecksLan(h) PROVE MainState'
  <2>1. PICK s \in ServerPeers(h) : found' = [found EXCEPT ![h] = s]
    BY <1>7 DEF LoopChecksLan
  <2>2. s \in Host /\ s # h /\ s # NoHost
    BY <2>1, PeersFacts, HostAssumption DEF IInv
  <2>3. /\ main' = [main EXCEPT ![h] = "checking"]
        /\ UNCHANGED <<url, attempts, serverMode, serving, relayUp>>
    BY <1>7 DEF LoopChecksLan
  <2>4. found' \in [Host -> Leaders] /\ main' \in [Host -> Places]
    BY <1>0, <2>1, <2>2, <2>3 DEF MainState, Places
  <2>5. NeverItself'
    BY <2>1, <2>2, <2>3 DEF MainState, NeverItself
  <2> QED BY <2>3, <2>4, <2>5 DEF MainState
<1>8. ASSUME NEW h \in Host, LoopFindsServer(h) PROVE MainState'
  <2>1. found[h] \in Servers /\ found[h] \notin {h, NoHost}
    BY <1>0, <1>8 DEF LoopFindsServer, MainState, NeverItself
  <2>2. /\ found' = [found EXCEPT ![h] = NoHost]
        /\ attempts' = [attempts EXCEPT ![h] = 0]
    BY <1>8 DEF LoopFindsServer
  <2>3. /\ found' \in [Host -> Leaders]
        /\ \A g \in Host : found'[g] = found[g] \/ (g = h /\ found'[g] = NoHost)
        /\ attempts' \in [Host -> 0..(MaxAttempts - 1)]
    BY <1>0, <2>2 DEF MainState
  <2> QED BY <1>8, <2>1, <2>3, AgentState DEF LoopFindsServer
<1>9. ASSUME NEW h \in Host, LoopGivesUp(h) PROVE MainState'
  BY <1>9, ServerState DEF LoopGivesUp
<1>10. ASSUME NEW h \in Host, LoopServes(h) PROVE MainState'
  BY <1>10, ServerState DEF LoopServes
<1>11. ASSUME NEW h \in Host, AgentAutoPromotes(h) PROVE MainState'
  BY <1>11 DEF AgentAutoPromotes, MainState, NeverItself, Places
<1>12. ASSUME NEW h \in Host, PromoteAgent(h) PROVE MainState'
  BY <1>12 DEF PromoteAgent, MainState, NeverItself
<1>13. ASSUME NEW h \in Host, ServerStops(h) PROVE MainState'
  BY <1>13 DEF ServerStops, MainState, NeverItself, Places
<1>14. ASSUME NEW h \in Host, Configure(h) PROVE MainState'
  <2>1. PICK s \in (Host \cup {Relay}) \ {h} : url' = [url EXCEPT ![h] = s]
    BY <1>14 DEF Configure
  <2>2. s \in Servers /\ s # h
    BY <1>0, <2>1
  <2> QED BY <1>14, <2>1, <2>2 DEF Configure, MainState, NeverItself
<1>15. ASSUME NEW h \in Host, MainRestart(h) PROVE MainState'
  <2>1. /\ main' = [main EXCEPT ![h] = "lan"]
        /\ url' = [url EXCEPT ![h] = NoHost]
        /\ found' = [found EXCEPT ![h] = NoHost]
        /\ attempts' = [attempts EXCEPT ![h] = 0]
        /\ serverMode' = [serverMode EXCEPT ![h] = FALSE]
        /\ serving' = [serving EXCEPT ![h] = FALSE]
        /\ relayUp' = relayUp
    BY <1>15 DEF MainRestart
  <2>2. main' \in [Host -> Places] /\ url' \in [Host -> Servers]
        /\ found' \in [Host -> Leaders]
        /\ attempts' \in [Host -> 0..(MaxAttempts - 1)]
    BY <1>0, <2>1 DEF MainState, Places
  <2>3. NeverItself'
    BY <2>1, HostAssumption DEF MainState, NeverItself
  <2> QED BY <2>1, <2>2, <2>3 DEF MainState
<1>16. CASE RelayChanges
  BY <1>16 DEF RelayChanges, MainState, NeverItself
<1>17. CASE UNCHANGED mainVars
  BY <1>17 DEF mainVars, MainState, NeverItself
<1> QED
  BY <1>1, <1>2, <1>3, <1>4, <1>5, <1>6, <1>7, <1>8, <1>9, <1>10, <1>11,
     <1>12, <1>13, <1>14, <1>15, <1>16, <1>17
  DEF MainNext, MainStep, LanPhase, LoopPhase, vars

LEMMA MainInductive ==
    IInv /\ MainState /\ [MainNext]_vars => (IInv /\ MainState)'
BY MainComposes, MainStateNext, TypeNext, SelfNext, LeaderNext DEF IInv

\* The main loop of a host is in one of its places, with fewer than MaxAttempts
\* attempts behind it, whatever the election beside it does
\* (main.go:1366-1475).
THEOREM MainTypeCorrect == MainSpec => []MainTypeOK
<1>1. IInv /\ MainState => MainTypeOK
  BY DEF IInv, MainState, MainTypeOK
<1> QED BY <1>1, MainInit, MainInductive, PTL DEF MainSpec

\* The election keeps its promises while the main loop empties its channels
\* and announces modes of its own (main.go:1374-1475, UpdateSelf).
THEOREM ElectionUnderMain == MainSpec => [](LeaderNamesItself /\ NeverOwnAgent)
<1>1. IInv => LeaderNamesItself /\ NeverOwnAgent
  BY DEF IInv
<1> QED BY <1>1, MainInit, MainInductive, PTL DEF MainSpec

\* A host that is an agent has a server, and it is not the host itself: from
\* whichever of the election, the loop or the settings the address came
\* (main.go:1379-1459).
THEOREM AgentsHaveAnotherServer ==
    MainSpec => [](\A h \in Host : main[h] = "agent" => url[h] \notin {h, NoHost})
<1>1. MainState => \A h \in Host : main[h] = "agent" => url[h] \notin {h, NoHost}
  BY DEF MainState, NeverItself
<1> QED BY <1>1, MainInit, MainInductive, PTL DEF MainSpec

\* The election beside the main loop: every step of the composition is a step
\* of the election or leaves it as it is, and what decides who leads keeps its
\* meaning although the main loop announces modes of its own (UpdateSelf,
\* main.go:1374-1475).
THEOREM ElectionUnderMainDecides ==
    MainSpec => /\ LanInit /\ [][ElectionStep]_lanVars
                /\ EldestLeads /\ []RivalsDiffer
<1>1. LeadInv /\ [MainNext]_vars => LeadInv'
  BY LeadNext, MainComposes DEF LeadInv, IInv
<1>2. LeadInv /\ [MainNext]_vars =>
        [\A h \in Host : ~isLeader[h] /\ isLeader'[h] => TakesTheLead(h)]_lanVars
  BY LeadStep, MainComposes DEF LeadInv, IInv
<1>3. LeadInv /\ [MainNext]_vars => [ElectionStep]_lanVars
  BY MainComposes DEF LeadInv, IInv
<1>4. Init => LanInit
  BY DEF Init
<1> QED
  BY <1>1, <1>2, <1>3, <1>4, LeadInit, LeadExcludes, PTL
  DEF MainSpec, EldestLeads
=============================================================================
