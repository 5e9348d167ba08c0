---------------------------- MODULE ElectionLease ----------------------------
(***************************************************************************)
(* What the election through primary_server.json promises: a lease that is *)
(* claimed, renewed, taken over and reclaimed in single atomic steps, each *)
(* justified by the lease as it is at that step.  The requests of main.go  *)
(* that implement it are in GitHubElection.                                *)
(***************************************************************************)
EXTENDS Integers

CONSTANTS Host, NoHost, Interval, Skew, MaxAge

VARIABLES
    lease,       \* the holder (NoHost: none yet) and the age of its last write
    unanswered   \* the hosts to which the holder did not answer since then

vars == <<lease, unanswered>>

Init ==
    /\ lease \in [holder : Host \cup {NoHost}, age : 0..MaxAge]
    /\ unanswered = {}

\* Not renewed for the election interval, on the clock of h.
Expired(h) ==
    /\ lease.holder \in Host
    /\ lease.age + Skew[h] - Skew[lease.holder] > Interval

Write(h) ==
    /\ lease' = [holder |-> h, age |-> 0]
    /\ unanswered' = {}

Claim(h)    == lease.holder = NoHost /\ Write(h)
Renew(h)    == lease.holder = h /\ Write(h)
TakeOver(h) == lease.holder # h /\ Expired(h) /\ Write(h)
Reclaim(h)  == h \in unanswered /\ Write(h)

\* The holder does not answer h ...
Probe(h) ==
    /\ lease.holder \in Host \ {h}
    /\ unanswered' = unanswered \cup {h}
    /\ UNCHANGED lease

\* ... and h gives up, or restarts, before it reclaims the lease.
Forget(h) ==
    /\ unanswered' = unanswered \ {h}
    /\ UNCHANGED lease

Tick ==
    /\ lease.holder \in Host
    /\ lease.age < MaxAge
    /\ lease' = [lease EXCEPT !.age = @ + 1]
    /\ UNCHANGED unanswered

Next ==
    \/ \E h \in Host :
          \/ Claim(h) \/ Renew(h) \/ TakeOver(h) \/ Reclaim(h)
          \/ Probe(h) \/ Forget(h)
    \/ Tick

Spec == Init /\ [][Next]_vars
=============================================================================
