---------------------------- MODULE SourceRanking ----------------------------
(***************************************************************************)
(* The sources of a task, and which of them a worker turns to after a      *)
(* failed attempt (src/domain/source.rs, src/job/mod.rs and retry_or_fail  *)
(* of src/worker/runtime.rs).  The workers of a task share the counters of *)
(* its sources; between the steps of one worker others go on.              *)
(***************************************************************************)
EXTENDS Naturals, FiniteSets

CONSTANTS
  Mirrors,      \* the sources, numbered in the order of their ids
  MetadataOnly, \* those that cannot transfer the payload
  Pullers,      \* the workers of the task
  MaxRetries    \* RetryConfig::max_retries

ASSUME RankingAssumption ==
  /\ IsFiniteSet(Mirrors) /\ Mirrors \subseteq Nat \ {0} /\ MaxRetries \in Nat
  /\ IsFiniteSet(Pullers)

VARIABLES
  works,        \* the sources that always answer; another one may or may not
  primary,      \* SourceSet::primary
  failures,     \* consecutive_failures of each source
  successes,    \* successful_transfers of each source
  puller        \* of each worker: its step, source, retries, and what it ranked

rankingVars == <<works, primary, failures, successes, puller>>

(* active_transfer_sources *)
Active == Mirrors \ MetadataOnly

(* Mutated form of Before: the failures do not count. *)
BeforeByMerit(s, r) ==
  \/ successes[s] > successes[r]
  \/ /\ successes[s] = successes[r]
     /\ \/ s = primary /\ r # primary
        \/ (s = primary) = (r = primary) /\ s < r

(* The comparison of ranked_transfer_sources *)
Before(s, r) ==
  \/ failures[s] < failures[r]
  \/ failures[s] = failures[r] /\ successes[s] > successes[r]
  \/ /\ failures[s] = failures[r] /\ successes[s] = successes[r]
     /\ \/ s = primary /\ r # primary
        \/ (s = primary) = (r = primary) /\ s < r

FirstOf(S) == CHOOSE s \in S : \A r \in S \ {s} : Before(s, r)

(* A lane is given one of the sources that can transfer. *)
RankingInit ==
  /\ works \in SUBSET Active /\ primary \in Mirrors
  /\ failures = [s \in Mirrors |-> 0] /\ successes = [s \in Mirrors |-> 0]
  /\ puller \in [Pullers -> [pc : {"pull"}, source : Active, retries : {0}, next : {0}]]

(* finish_success *)
PullSucceeds(w) ==
  LET s == puller[w].source IN
  /\ puller[w].pc = "pull"
  /\ puller' = [puller EXCEPT ![w].pc = "done"]
  /\ successes' = [successes EXCEPT ![s] = @ + 1]
  /\ failures' = [failures EXCEPT ![s] = 0]
  /\ UNCHANGED <<works, primary>>

(* retry_or_fail: the failure is recorded, ... *)
PullFails(w) ==
  LET s == puller[w].source IN
  /\ puller[w].pc = "pull" /\ s \notin works
  /\ puller' = [puller EXCEPT ![w].pc = "rank"]
  /\ failures' = [failures EXCEPT ![s] = @ + 1]
  /\ UNCHANGED <<works, primary, successes>>

(* ... the sources are ranked, ... *)
Rank(w) ==
  LET rest == Active \ {puller[w].source} IN
  /\ puller[w].pc = "rank"
  /\ puller' = [puller EXCEPT ![w].pc = "switch",
                              ![w].next = IF rest = {} THEN 0 ELSE FirstOf(rest)]
  /\ UNCHANGED <<works, primary, failures, successes>>

(* ... and the next one is taken if the counters still say so. *)
Switch(w) ==
  LET p == puller[w]
      source == IF p.next = 0 \/ failures[p.source] = 0 THEN p.source ELSE p.next
  IN
  /\ p.pc = "switch"
  /\ puller' = [puller EXCEPT ![w] =
       IF p.retries >= MaxRetries
       THEN [p EXCEPT !.pc = "failed", !.source = source]
       ELSE [p EXCEPT !.pc = "pull", !.source = source, !.retries = @ + 1, !.next = 0]]
  /\ UNCHANGED <<works, primary, failures, successes>>

RankingNext == \E w \in Pullers : PullSucceeds(w) \/ PullFails(w) \/ Rank(w) \/ Switch(w)

-----------------------------------------------------------------------------

RankingTypeOK ==
  /\ works \subseteq Active /\ primary \in Mirrors
  /\ {failures, successes} \subseteq [Mirrors -> Nat]
  /\ \A w \in Pullers :
       /\ puller[w].pc \in {"pull", "rank", "switch", "done", "failed"}
       /\ puller[w].source \in Active /\ puller[w].retries \in 0 .. MaxRetries
       /\ puller[w].next \in Active \cup {0}

(* A worker does not give up while a source of the task always answers, if *)
(* it has a retry for each other source and one for each other worker.     *)
(* Whatever those do to the counters, it fails twice at a source only if   *)
(* one of them succeeded there in between: a success clears the failures,  *)
(* so the source is ranked first again, or is not left at all.             *)
WorkingSourceIsFound ==
  works # {} /\ Cardinality(Active \ works) + Cardinality(Pullers) <= MaxRetries + 1 =>
    \A w \in Pullers : puller[w].pc # "failed"
=============================================================================
