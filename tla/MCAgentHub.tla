----------------------------- MODULE MCAgentHub -----------------------------
(* An agent that reconnects while its first connection ends, and a browser.  *)
EXTENDS AgentHub, TLC

CONSTANT a1

MCConns == 1 .. 3
MCOwner == 1 :> a1 @@ 2 :> a1 @@ 3 :> Viewer

\* Of the goroutines only the first has to go on, whose clean-up races the hello
\* of the second.
LiveSpec == Spec /\ Fairness({1}) /\ PingFairness(a1)

HandlersReturn == HandlerReturns(1)
PingersEnd == PingLoopsEnd(a1)
=============================================================================
