------------------------------ MODULE MCPackages ------------------------------
(***************************************************************************)
(* An instance of Packages for TLC, with three more parts that share no    *)
(* state with it or with each other: the rate limiter, the client's loop   *)
(* and the authentication of the control channel.  A behaviour runs one of *)
(* all these; the others stay in their initial states.                     *)
(***************************************************************************)
EXTENDS Packages, RateLimiter, ClientLoop, ControlAuth

MCInit ==
    /\ part \in {"junk", "auth", "pipe", "udp", "boot", "limiter", "loop", "control"}
    /\ PartsInit /\ LimiterInit /\ LoopInit /\ ControlInit

PackagesStep == Next /\ UNCHANGED <<limiterVars, loopVars, controlVars>>
LimiterStep  == part = "limiter" /\ LimiterNext /\ UNCHANGED <<vars, loopVars, controlVars>>
LoopStep     == part = "loop" /\ LoopNext /\ UNCHANGED <<vars, limiterVars, controlVars>>
ControlStep  == part = "control" /\ ControlNext /\ UNCHANGED <<vars, limiterVars, loopVars>>

MCNext == PackagesStep \/ LimiterStep \/ LoopStep \/ ControlStep

\* The fairness of each part, for the part that runs.
MCFairness ==
    /\ Fairness
    /\ WF_loopVars(part = "loop" /\ StartLoop)
    /\ \A s \in Sessions :
          /\ WF_controlVars(part = "control" /\ Handler(s))
          /\ WF_controlVars(part = "control" /\ ~up[s] /\ PeerFails(s))

MCSpec ==
    MCInit /\ [][MCNext]_<<vars, limiterVars, loopVars, controlVars>> /\ MCFairness

\* A range may be given below, above or across the default one.
PortCases == {-1, 0, 1, 5}
=============================================================================
