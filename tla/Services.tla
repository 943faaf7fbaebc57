------------------------------ MODULE Services ------------------------------
(***************************************************************************)
(* The parts of the system that serve the tasks and share no state with    *)
(* each other: the rate limiter, the ranking of sources, the probe of an   *)
(* origin, the files of a payload, the wait for all tasks and the discovery*)
(* of a swarm.  A behaviour is one of a single part, the others rest:      *)
(* nothing is lost by that, and the states of the parts add up instead of  *)
(* multiplying.                                                            *)
(***************************************************************************)
EXTENDS RateLimiter, SourceRanking, Probe, PayloadStore, WaitForAll, SwarmDiscovery

VARIABLE awake  \* the part that takes steps

vars == <<awake, limiterVars, rankingVars, probeVars, payloadVars, waitVars, swarmVars>>

OneOf(S) == CHOOSE x \in S : TRUE

(* A part that rests does so in one of its initial states. *)
Init ==
  /\ awake \in {"limiter", "ranking", "probe", "payload", "wait", "swarm"}
  /\ LimiterInit /\ (awake # "limiter" => rate = OneOf(Rates))
  /\ RankingInit /\ (awake # "ranking" => /\ works = {} /\ primary = OneOf(Mirrors)
                                          /\ \A w \in Pullers : puller[w].source = OneOf(Active))
  /\ ProbeInit /\ (awake # "probe" => server = OneOf(Servers))
  /\ PayloadInit /\ (awake # "payload" => layout = OneOf(Layouts))
  /\ WaitInit /\ (awake # "wait" => settled = {})
  /\ SwarmInit /\ (awake # "swarm" => cache = [f \in Files |-> Absent])

Limiting(A) ==
  /\ awake = "limiter" /\ A
  /\ UNCHANGED <<awake, rankingVars, probeVars, payloadVars, waitVars, swarmVars>>
Waiting(A) ==
  /\ awake = "wait" /\ A
  /\ UNCHANGED <<awake, limiterVars, rankingVars, probeVars, payloadVars, swarmVars>>

Next ==
  \/ Limiting(LimiterNext)
  \/ Waiting(WaitNext)
  \/ /\ awake = "ranking" /\ RankingNext
     /\ UNCHANGED <<awake, limiterVars, probeVars, payloadVars, waitVars, swarmVars>>
  \/ /\ awake = "probe" /\ ProbeNext
     /\ UNCHANGED <<awake, limiterVars, rankingVars, payloadVars, waitVars, swarmVars>>
  \/ /\ awake = "payload" /\ PayloadNext
     /\ UNCHANGED <<awake, limiterVars, rankingVars, probeVars, waitVars, swarmVars>>
  \/ /\ awake = "swarm" /\ SwarmNext
     /\ UNCHANGED <<awake, limiterVars, rankingVars, probeVars, payloadVars, waitVars>>

Spec == Init /\ [][Next]_vars

(* Time passes, a call of set_limit goes on, and so does whatever the      *)
(* runtime may run: a worker in acquire, the waiter, a task that settles.  *)
Fairness ==
  /\ WF_vars(Limiting(Tick)) /\ WF_vars(Limiting(SetLimit))
  /\ \A f \in Fetchers : WF_vars(Limiting(Fetching(f)))
  /\ WF_vars(Waiting(WaitStep)) /\ \A j \in Jobs : WF_vars(Waiting(SendSettled(j)))
FairSpec == Spec /\ Fairness

TypeOK ==
  LimiterTypeOK /\ RankingTypeOK /\ ProbeTypeOK /\ PayloadTypeOK /\ WaitTypeOK /\ SwarmTypeOK
=============================================================================
