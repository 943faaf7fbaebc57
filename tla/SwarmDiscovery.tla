--------------------------- MODULE SwarmDiscovery ---------------------------
(***************************************************************************)
(* How a torrent task finds trackers, peers, web seeds and torrent files   *)
(* before it starts (src/p2p/provider.rs, src/discovery/swarm.rs,          *)
(* src/p2p/magnet.rs and start of src/job/p2p.rs).  The providers are asked*)
(* one after the other; two of them keep files in a cache directory that   *)
(* all tasks share, and write them in place.                               *)
(*                                                                         *)
(* A candidate is a pair of its kind and its locator.  A document of the   *)
(* network is known by its version.                                        *)
(***************************************************************************)
EXTENDS Integers, FiniteSets, SequencesExt

CONSTANTS
  Resolvers,    \* the tasks that resolve
  Magnets,      \* those whose spec is a magnet link
  Own,          \* the trackers, peers and web seeds in those links
  Brought,      \* of each task: the sources its request brings
  Configs,      \* the lists of providers that are configured
  Static,       \* candidates of the configuration, in order
  Malformed,    \* locators that are no peer endpoint
  Lists,        \* of each version: its trackers
  Answers,      \* of each version of the index: a torrent file or a page
  Page,         \* the page of the discovery provider
  InputKind,    \* TorrentDiscoveryInputKind
  Limits,       \* SwarmProviderLimits, of each kind of candidate
  MaxDiagnostics,
  MaxStarts,    \* bound: resolutions, of all tasks
  MaxStorms     \* bound: crashes and failed writes

(* build_swarm_provider_resolver has one provider of tracker lists. *)
ASSUME SwarmAssumption ==
  /\ IsFiniteSet(Own) /\ \A t \in Resolvers : IsFiniteSet(Brought[t])
  /\ Limits \in [{"tracker", "peer", "seed", "locator"} -> Nat]
  /\ Lists \in Seq(Seq(STRING)) /\ Lists # <<>>
  /\ Len(Answers) \in Nat \ {0} /\ DOMAIN Answers = 1 .. Len(Answers)
  /\ Configs \subseteq Seq({"magnet", "static", "list", "index", "discovery"})
  /\ \A providers \in Configs : \A i, j \in DOMAIN providers :
       providers[i] = "list" /\ providers[j] = "list" => i = j

VARIABLES
  cache,        \* the files of the cache directory
  served,       \* the version of the list, and of the index, that is served
  sources,      \* SourceSet of each task
  starts,       \* resolutions so far
  res,          \* the resolution of each task
  storms,
  good          \* history: the version of the list that was last written to the
                \* cache by one writer alone; 0 while it is written

swarmVars == <<cache, served, sources, starts, res, storms, good>>

Files == {"list", "torrent", "text"}
Absent == [state |-> "absent", ver |-> 0, fresh |-> FALSE]
HintKinds == {"tracker", "peer", "seed"}
LocatorKinds == {"magnet", "torrent"}
Cached == <<"torrent", "cached">>
Report(found, problems) == [found |-> found, problems |-> problems]
Resting == [pc |-> "idle", todo |-> <<>>, hints |-> {}, seen |-> {}, found |-> {},
            problems |-> 0, file |-> "list", doc |-> 0, known |-> 0, list |-> 0,
            torrent |-> FALSE]

OfKind(S, k) == {c \in S : c[1] = k}

(* An earlier run of the program may have left files, old by now.  The     *)
(* request of a task brings sources, as many as it likes.                  *)
SwarmInit ==
  /\ \E S \in SUBSET Files :
       /\ cache = [f \in Files |-> IF f \in S THEN [Absent EXCEPT !.state = "whole", !.ver = 1]
                                             ELSE Absent]
       /\ good = IF "list" \in S THEN 1 ELSE 0
  /\ served = [list |-> 1, index |-> 1]
  /\ sources = [t \in Resolvers |-> Brought[t]] /\ starts = 0
  /\ res \in [Resolvers -> {Resting}] /\ storms = 0

Continue(t, r) == res' = [res EXCEPT ![t] = r]

-----------------------------------------------------------------------------
(* resolve *)

Group(c) == IF c[1] \in LocatorKinds THEN "locator" ELSE c[1]

(* Mutated form of Have: only what is new in this resolution counts. *)
HaveFound(r, g) == Cardinality({c \in r.found : Group(c) = g})

(* How many the limits are compared with: hints that were there before the *)
(* resolution count, locators do not.                                      *)
Have(r, g) ==
  Cardinality({c \in (IF g = "locator" THEN r.found ELSE r.hints) : Group(c) = g})

(* insert_candidate, for one candidate after the other: it is dropped when *)
(* it was seen, and when there are as many of its kind as allowed.         *)
Inserted(r, s) ==
  LET New(i) == s[i] \notin r.seen /\ \A j \in 1 .. i - 1 : s[j] # s[i]
      Right(i) == New(i) /\ (s[i][1] = "peer" => s[i][2] \notin Malformed)
      Earlier(i) == {j \in 1 .. i - 1 : Right(j) /\ Group(s[j]) = Group(s[i])}
      Fits(i) == Right(i) /\ Have(r, Group(s[i])) + Cardinality(Earlier(i)) < Limits[Group(s[i])]
  IN {s[i] : i \in {i \in DOMAIN s : Fits(i)}}

(* push_limited_diagnostic *)
PushDiagnostics(have, more) ==
  IF have + more < MaxDiagnostics THEN have + more ELSE MaxDiagnostics

(* The report of a provider is taken and the next provider is asked. *)
Taken(r, report) ==
  LET new == Inserted(r, report.found) IN
  [r EXCEPT !.pc = "ask", !.todo = Tail(@), !.doc = 0,
            !.seen = @ \cup ToSet(report.found), !.found = @ \cup new,
            !.hints = @ \cup {c \in new : c[1] \in HintKinds},
            !.problems = PushDiagnostics(@, report.problems)]

(* TorrentSwarmHints::from_spec_and_sources *)
InitialHints(t) ==
  (IF t \in Magnets THEN Own ELSE {}) \cup {c \in sources[t] : c[1] \in HintKinds}

(* build_swarm_provider_resolver and seed_seen_from_hints; a malformed peer*)
(* among the sources ends the start before that.                           *)
BeginResolve(t) ==
  /\ res[t].pc = "idle" /\ starts < MaxStarts
  /\ \A c \in OfKind(sources[t], "peer") : c[2] \notin Malformed
  /\ starts' = starts + 1
  /\ \E providers \in Configs :
       Continue(t, [Resting EXCEPT !.pc = "ask", !.todo = providers,
                                   !.known = IF "list" \in ToSet(providers) THEN good ELSE 0,
                                   !.hints = InitialHints(t), !.seen = InitialHints(t)])
  /\ UNCHANGED <<cache, served, sources, storms, good>>

(* start of job/p2p.rs: what was found becomes a source of the task; the   *)
(* engine is given the torrent file instead of the magnet link, if there   *)
(* is one.                                                                 *)
EndResolve(t) ==
  /\ res[t].pc = "ask" /\ res[t].todo = <<>>
  /\ sources' = [sources EXCEPT ![t] = @ \cup res[t].found]
  /\ Continue(t, [Resting EXCEPT
       !.torrent = t \in Magnets /\ Cached \in res[t].found])
  /\ UNCHANGED <<cache, served, starts, storms, good>>

Asks(t, provider) == res[t].pc = "ask" /\ res[t].todo # <<>> /\ Head(res[t].todo) = provider

-----------------------------------------------------------------------------
(* The providers without a cache *)

OwnInOrder == SetToSeq(Own)

(* MagnetHintProvider *)
AskMagnet(t) ==
  /\ Asks(t, "magnet")
  /\ Continue(t, Taken(res[t], Report(IF t \in Magnets THEN OwnInOrder ELSE <<>>, 0)))
  /\ UNCHANGED <<cache, served, sources, starts, storms, good>>

(* The elements of a sequence at some of its places, in their order *)
Picked(s, places) ==
  LET Place(i) == Cardinality({j \in places : j <= i})
  IN [n \in 1 .. Cardinality(places) |-> s[CHOOSE i \in places : Place(i) = n]]

(* StaticSwarmProvider: the malformed peers are reported; the tracker file *)
(* may be unreadable.                                                      *)
AskStatic(t) ==
  LET right == {i \in DOMAIN Static : Static[i][1] = "peer" => Static[i][2] \notin Malformed}
      inline == {i \in right : Static[i][1] # "tracker"}
      bad == Cardinality(DOMAIN Static \ right)
  IN
  /\ Asks(t, "static")
  /\ \/ Continue(t, Taken(res[t], Report(Picked(Static, right), bad)))
     \/ Continue(t, Taken(res[t], Report(Picked(Static, inline), bad + 1)))
  /\ UNCHANGED <<cache, served, sources, starts, storms, good>>

(* deduplicate *)
Deduplicated(s) == Picked(s, {i \in DOMAIN s : \A j \in 1 .. i - 1 : s[j] # s[i]})

(* discover_torrent_candidates: the locators of a page, once each; a page  *)
(* that is not a feed fails only where a feed is asked for.                *)
Discovered(page) ==
  IF InputKind = "feed" /\ ~page.feed THEN Report(<<>>, 1) ELSE Report(Deduplicated(page.found), 0)

DiscoveredPage == Discovered(Page)
DiscoveredAnswers == [v \in DOMAIN Answers |-> Discovered(Answers[v])]

(* DiscoverySwarmProvider *)
AskDiscovery(t) ==
  /\ Asks(t, "discovery")
  /\ \E report \in {DiscoveredPage, Report(<<>>, 1)} : Continue(t, Taken(res[t], report))
  /\ UNCHANGED <<cache, served, sources, starts, storms, good>>

-----------------------------------------------------------------------------
(* The providers with a cache: TrackerListProvider and IndexFeedProvider *)

(* is_fresh_cache *)
IsFresh(f) == cache[f].fresh
Exists(f) == cache[f].state # "absent"

(* parse_tracker_lines of a whole file, and of one that is cut *)
Lines(file) ==
  IF file.state = "whole" THEN Lists[file.ver]
  ELSE IF file.state = "cut" THEN <<"torn">> ELSE <<>>

(* discover of the list; the version is that of a list read whole. *)
TakeList(r, lines, ver, problems) ==
  [Taken(r, Report([i \in DOMAIN lines |-> <<"tracker", lines[i]>>], problems))
     EXCEPT !.list = ver]
TakeListFile(r, problems) ==
  TakeList(r, Lines(cache["list"]),
           IF cache["list"].state = "whole" THEN cache["list"].ver ELSE 0, problems)

(* discover of the index: of a torrent file the path is the candidate,     *)
(* whatever is in the file; a text is searched.                            *)
CachedTorrent(problems) == Report(<<Cached>>, problems)
IndexText(problems) ==
  IF cache["text"].state = "whole"
  THEN [DiscoveredAnswers[cache["text"].ver] EXCEPT !.problems = @ + problems]
  ELSE Report(<<>>, problems)

AskList(t) ==
  /\ Asks(t, "list")
  /\ Continue(t, [res[t] EXCEPT !.pc = IF IsFresh("list") THEN "read" ELSE "fetch", !.file = "list"])
  /\ UNCHANGED <<cache, served, sources, starts, storms, good>>

(* expand_index_url_template: the address names the info hash. *)
Expandable(t) == t \in Magnets

(* read_source of the index, up to the request *)
LookUpIndex(r) ==
  IF IsFresh("torrent") THEN Taken(r, CachedTorrent(0))
  ELSE [r EXCEPT !.pc = IF IsFresh("text") THEN "read" ELSE "fetch", !.file = "text"]

AskIndex(t) ==
  /\ Asks(t, "index")
  /\ Continue(t, IF Expandable(t) THEN LookUpIndex(res[t]) ELSE Taken(res[t], Report(<<>>, 1)))
  /\ UNCHANGED <<cache, served, sources, starts, storms, good>>

(* A fresh file that cannot be read, a cut one for example, is nothing. *)
ReadFresh(t) ==
  LET r == res[t] IN
  /\ r.pc = "read"
  /\ \/ r.file = "list" /\ Continue(t, TakeListFile(r, 0))
     \/ r.file = "text" /\ Continue(t, Taken(r, IndexText(0)))
     \/ cache[r.file].state = "cut" /\ Continue(t, Taken(r, Report(<<>>, 0)))
  /\ UNCHANGED <<cache, served, sources, starts, storms, good>>

FetchList(t) ==
  /\ res[t].pc = "fetch" /\ res[t].file = "list"
  /\ Continue(t, [res[t] EXCEPT !.pc = "open", !.doc = served.list])
  /\ UNCHANGED <<cache, served, sources, starts, storms, good>>

(* looks_like_torrent_response *)
FileOf(answer) == IF answer.torrent THEN "torrent" ELSE "text"

FetchIndex(t) ==
  /\ res[t].pc = "fetch" /\ res[t].file = "text"
  /\ Continue(t, [res[t] EXCEPT !.pc = "open", !.doc = served.index,
                                !.file = FileOf(Answers[served.index])])
  /\ UNCHANGED <<cache, served, sources, starts, storms, good>>

(* Mutated form of StaleList: the stale file is not used. *)
StaleListUnused(r) == Taken(r, Report(<<>>, 1))

(* Without an answer a stale file is used, ... *)
StaleList(r) == IF Exists("list") THEN TakeListFile(r, 1) ELSE Taken(r, Report(<<>>, 1))

(* ... a torrent before a text. *)
StaleIndex(r) == Taken(r, IF Exists("torrent") THEN CachedTorrent(1) ELSE IndexText(1))

FetchFails(t) ==
  /\ res[t].pc = "fetch"
  /\ Continue(t, IF res[t].file = "list" THEN StaleList(res[t]) ELSE StaleIndex(res[t]))
  /\ UNCHANGED <<cache, served, sources, starts, storms, good>>

(* tokio::fs::write creates or empties the file ... *)
OpenCache(t) ==
  LET f == res[t].file IN
  /\ res[t].pc = "open"
  /\ cache' = [cache EXCEPT ![f] = [state |-> "empty", ver |-> 0, fresh |-> TRUE]]
  /\ good' = IF f = "list" THEN 0 ELSE good
  /\ res' = [u \in Resolvers |->
       IF u = t THEN [res[t] EXCEPT !.pc = "write"]
       ELSE IF f = "list" THEN [res[u] EXCEPT !.known = 0] ELSE res[u]]
  /\ UNCHANGED <<served, sources, starts, storms>>

(* What was fetched is used, written or not. *)
Fetched(r, problems) ==
  IF r.file = "list" THEN TakeList(r, Lists[r.doc], r.doc, problems)
  ELSE IF r.file = "torrent" THEN Taken(r, CachedTorrent(problems))
  ELSE Taken(r, [DiscoveredAnswers[r.doc] EXCEPT !.problems = @ + problems])

Alone(t) == \A u \in Resolvers \ {t} : res[u].pc = "write" => res[u].file # res[t].file

(* ... and fills it; two who write the same file may leave a mixture. *)
WriteCache(t) ==
  LET r == res[t]
      f == r.file
      mixed == cache[f].state \in {"whole", "cut"} /\ cache[f].ver # r.doc
  IN
  /\ r.pc = "write"
  /\ \E state \in {"whole"} \cup IF mixed THEN {"cut"} ELSE {} :
       cache' = [cache EXCEPT ![f] = [state |-> state, ver |-> r.doc, fresh |-> TRUE]]
  /\ good' = IF f = "list" /\ Alone(t) /\ cache[f].state = "empty" THEN r.doc ELSE good
  /\ Continue(t, Fetched(r, 0))
  /\ UNCHANGED <<served, sources, starts, storms>>

(* A write that fails leaves what it has written. *)
WriteFails(t) ==
  LET r == res[t] IN
  /\ storms < MaxStorms /\ storms' = storms + 1
  /\ \/ r.pc = "open" /\ UNCHANGED cache
     \/ /\ r.pc = "write"
        /\ \E state \in {"empty", "cut"} : cache' = [cache EXCEPT ![r.file].state = state]
  /\ Continue(t, Fetched(r, 1))
  /\ UNCHANGED <<served, sources, starts, good>>

-----------------------------------------------------------------------------
(* The rest of the world *)

(* is_fresh_cache: the time to live of a file ends. *)
Age(f) ==
  /\ cache[f].fresh /\ cache' = [cache EXCEPT ![f].fresh = FALSE]
  /\ UNCHANGED <<served, sources, starts, res, storms, good>>

Publish(what) ==
  /\ served[what] + 1 \in DOMAIN (IF what = "list" THEN Lists ELSE Answers)
  /\ served' = [served EXCEPT ![what] = @ + 1]
  /\ UNCHANGED <<cache, sources, starts, res, storms, good>>

(* The process stops; the sources of a task were stored with it. *)
SwarmCrash ==
  /\ storms < MaxStorms /\ storms' = storms + 1
  /\ \E t \in Resolvers : res[t].pc # "idle"
  /\ res' = [t \in Resolvers |-> Resting]
  /\ \E S \in SUBSET {f \in Files : cache[f].state = "empty"
                             /\ \E t \in Resolvers : res[t].pc = "write" /\ res[t].file = f} :
       cache' = [f \in Files |-> IF f \in S THEN [cache[f] EXCEPT !.state = "cut"] ELSE cache[f]]
  /\ UNCHANGED <<served, sources, starts, good>>

Resolving(t) ==
  \/ AskMagnet(t) \/ AskStatic(t) \/ AskDiscovery(t) \/ AskList(t) \/ AskIndex(t) \/ ReadFresh(t)
  \/ FetchList(t) \/ FetchIndex(t) \/ FetchFails(t) \/ OpenCache(t) \/ WriteCache(t) \/ WriteFails(t) \/ EndResolve(t)
SwarmNext ==
  \/ \E t \in Resolvers : BeginResolve(t) \/ Resolving(t)
  \/ \E f \in Files : Age(f)
  \/ \E what \in {"list", "index"} : Publish(what)
  \/ SwarmCrash

-----------------------------------------------------------------------------

SwarmTypeOK ==
  /\ \A f \in Files : /\ cache[f].state \in {"absent", "empty", "cut", "whole"}
                      /\ cache[f].fresh => cache[f].state # "absent"
  /\ \A t \in Resolvers : /\ res[t].pc \in {"idle", "ask", "read", "fetch", "open", "write"}
                          /\ res[t].hints \subseteq res[t].seen
                          /\ res[t].problems \in 0 .. MaxDiagnostics
  /\ storms \in 0 .. MaxStorms /\ good \in 0 .. served.list

(* The hints a task has without any provider *)
OwnHints(t) == (IF t \in Magnets THEN Own ELSE {}) \cup Brought[t]

(* However often a task is started, the providers add no trackers, peers   *)
(* or web seeds beyond the limits, though what earlier starts found comes  *)
(* back as hints: the engine is given as many as the limit, or, where the  *)
(* magnet link and the request have more, just those.  Their number is not *)
(* limited by anything in the code.                                        *)
HintsAreBounded ==
  \A t \in Resolvers : \A k \in HintKinds :
    LET own == Cardinality(OfKind(OwnHints(t), k)) IN
    Cardinality(OfKind(res[t].hints, k)) <= (IF own > Limits[k] THEN own ELSE Limits[k])

(* A tracker list that was in the cache when a resolution began is used by *)
(* it, or a newer one is, whole, whatever becomes of the fetch and of the  *)
(* write; only another task that writes the list in between may spoil it.  *)
KnownListIsUsed ==
  \A t \in Resolvers :
    res[t].pc = "ask" /\ res[t].todo = <<>> => res[t].list >= res[t].known
=============================================================================
