---------------------------- MODULE SwarmProofs ----------------------------
(***************************************************************************)
(* Theorems about the discovery of a swarm, for every number of tasks,     *)
(* providers, candidates, limits and versions of the documents: the hints  *)
(* of a task stay within the limits, and a tracker list that was in the    *)
(* cache is not lost.                                                      *)
(***************************************************************************)
EXTENDS ServicesProofs

(* The discovery of a swarm *)

(* Only the discovery changes the state of the discovery. *)
LEMMA SwarmAlone ==
  ASSUME [Next]_vars
  PROVE  SwarmNext \/ UNCHANGED swarmVars
BY DEF Next, vars, Limiting, Waiting

(* Of a set of numbers: those up to one of them, and those before it *)
UpToOne(F, i) == {j \in F : j <= i}
BeforeOne(F, i) == {j \in F : j < i}

(* What they are made of. *)
LEMMA UpToOneSets ==
  ASSUME NEW F, \A i \in F : i \in Nat, NEW i \in F
  PROVE  /\ BeforeOne(F, i) \in SUBSET Nat /\ \A j \in BeforeOne(F, i) : j <= i
         /\ UpToOne(F, i) = BeforeOne(F, i) \cup {i} /\ i \notin BeforeOne(F, i)
BY DEF UpToOne, BeforeOne

(* They grow with the number. *)
LEMMA UpToOneGrows ==
  ASSUME NEW F, \A i \in F : i \in Nat, NEW i \in F
  PROVE  /\ \A j \in F : j > i => /\ UpToOne(F, i) \in SUBSET UpToOne(F, j)
                                  /\ j \in UpToOne(F, j) /\ j \notin UpToOne(F, i)
         /\ (\A j \in F : ~(j > i)) => F = UpToOne(F, i)
BY DEF UpToOne

(* They are finite, and differ by one. *)
LEMMA UpToOneSize ==
  ASSUME NEW F, \A i \in F : i \in Nat, NEW i \in F
  PROVE  /\ IsFiniteSet(UpToOne(F, i)) /\ Cardinality(UpToOne(F, i)) \in Nat
         /\ Cardinality(UpToOne(F, i)) = Cardinality(BeforeOne(F, i)) + 1
         /\ Cardinality(BeforeOne(F, i)) \in Nat
<1>1. IsFiniteSet(BeforeOne(F, i))
  BY UpToOneSets, FS_BoundedSetOfNaturals
<1>2. Cardinality(BeforeOne(F, i)) \in Nat
  BY <1>1, FS_CardinalityType
<1> QED
  BY <1>1, <1>2, UpToOneSets, FS_AddElement

(* A set of places, each of which has fewer than n of them before it, has  *)
(* at most n.                                                              *)
LEMMA FewBefore ==
  ASSUME NEW F, \A i \in F : i \in Nat, NEW n \in Nat,
         \A i \in F : Cardinality(BeforeOne(F, i)) < n
  PROVE  IsFiniteSet(F) /\ Cardinality(F) <= n
<1>1. \A i \in F : Cardinality(UpToOne(F, i)) <= n /\ n - Cardinality(UpToOne(F, i)) \in Nat
  BY UpToOneSize
<1>2. CASE F = {}
  BY <1>2, FS_EmptySet
<1>3. CASE F # {}
  <2> DEFINE Gaps == {n - Cardinality(UpToOne(F, i)) : i \in F}
  <2>1. Gaps \in SUBSET Nat /\ Gaps # {}
    BY <1>1, <1>3
  <2>2. PICK g \in Gaps : \A h \in Gaps : g <= h
    BY <2>1, LeastNumber
  <2>3. PICK i \in F : g = n - Cardinality(UpToOne(F, i))
    BY <2>2
  <2>4. ASSUME NEW j \in F, j > i PROVE FALSE
    <3>1. /\ UpToOne(F, i) \in SUBSET UpToOne(F, j)
          /\ j \in UpToOne(F, j) /\ j \notin UpToOne(F, i)
      BY <2>4, UpToOneGrows
    <3>2. /\ Cardinality(UpToOne(F, i)) <= Cardinality(UpToOne(F, j))
          /\ Cardinality(UpToOne(F, i)) # Cardinality(UpToOne(F, j))
      BY <3>1, UpToOneSize, FS_Subset
    <3>3. n - Cardinality(UpToOne(F, j)) >= n - Cardinality(UpToOne(F, i))
      BY <2>2, <2>3
    <3> QED
      BY <3>2, <3>3, UpToOneSize
  <2>5. F = UpToOne(F, i)
    BY <2>4, UpToOneGrows
  <2> QED
    BY <1>1, <2>5, UpToOneSize
<1> QED
  BY <1>2, <1>3

(* What the limits leave of a kind of hints. *)
Allowed(t, k) ==
  LET own == Cardinality(OfKind(OwnHints(t), k)) IN IF own > Limits[k] THEN own ELSE Limits[k]

(* A set of hints within the limits. *)
Within(t, S) ==
  \A k \in HintKinds : IsFiniteSet(OfKind(S, k)) /\ Cardinality(OfKind(S, k)) <= Allowed(t, k)

(* The candidates among S that are hints. *)
Hints(S) == {c \in S : c[1] \in HintKinds}

(* A report is a sequence. *)
Places(s) == DOMAIN s \subseteq Nat \ {0}

(* The limits are numbers, and at least what a task has of its own. *)
LEMMA AllowedType ==
  ASSUME NEW t \in Resolvers, NEW k \in HintKinds
  PROVE  /\ IsFiniteSet(OfKind(OwnHints(t), k)) /\ Cardinality(OfKind(OwnHints(t), k)) \in Nat
         /\ Limits[k] \in Nat /\ Allowed(t, k) \in Nat
         /\ Limits[k] <= Allowed(t, k) /\ Cardinality(OfKind(OwnHints(t), k)) <= Allowed(t, k)
<1>0. IsFiniteSet(Own) /\ IsFiniteSet(Brought[t]) /\ IsFiniteSet({})
  BY SwarmAssumption, FS_EmptySet
<1>1. OfKind(OwnHints(t), k) \in SUBSET OwnHints(t) /\ IsFiniteSet(OwnHints(t))
  BY <1>0, FS_Union DEF OfKind, OwnHints
<1>2. IsFiniteSet(OfKind(OwnHints(t), k)) /\ Cardinality(OfKind(OwnHints(t), k)) \in Nat
  BY <1>1, FS_Subset, FS_CardinalityType
<1>3. Limits[k] \in Nat
  BY SwarmAssumption DEF HintKinds
<1> QED
  BY <1>2, <1>3 DEF Allowed

(* A part of what is allowed is allowed. *)
LEMMA WithinSubset ==
  ASSUME NEW t \in Resolvers, NEW S, NEW T, T \subseteq S, Within(t, S)
  PROVE  Within(t, T)
<1> SUFFICES ASSUME NEW k \in HintKinds
             PROVE  IsFiniteSet(OfKind(T, k)) /\ Cardinality(OfKind(T, k)) <= Allowed(t, k)
  BY DEF Within
<1>1. OfKind(T, k) \in SUBSET OfKind(S, k)
  BY DEF OfKind
<1>2. IsFiniteSet(OfKind(S, k)) /\ Cardinality(OfKind(S, k)) <= Allowed(t, k)
  BY DEF Within
<1>3. IsFiniteSet(OfKind(T, k)) /\ Cardinality(OfKind(T, k)) <= Cardinality(OfKind(S, k))
  BY <1>1, <1>2, FS_Subset
<1>4. Cardinality(OfKind(T, k)) \in Nat /\ Cardinality(OfKind(S, k)) \in Nat
  BY <1>2, <1>3, FS_CardinalityType
<1> QED
  BY <1>2, <1>3, <1>4, AllowedType

(* insert_candidate keeps the limits. *)
LEMMA InsertedWithin ==
  ASSUME NEW t \in Resolvers, NEW r, NEW s, Within(t, r.hints), Places(s)
  PROVE  Within(t, r.hints \cup Hints(Inserted(r, s)))
<1> SUFFICES ASSUME NEW k \in HintKinds
             PROVE  LET U == OfKind(r.hints \cup Hints(Inserted(r, s)), k)
                    IN  IsFiniteSet(U) /\ Cardinality(U) <= Allowed(t, k)
  BY DEF Within
<1> DEFINE New(i) == s[i] \notin r.seen /\ \A j \in 1 .. i - 1 : s[j] # s[i]
           Right(i) == New(i) /\ (s[i][1] = "peer" => s[i][2] \notin Malformed)
           Earlier(i) == {j \in 1 .. i - 1 : Right(j) /\ Group(s[j]) = Group(s[i])}
           Fits(i) == Right(i) /\ Have(r, Group(s[i])) + Cardinality(Earlier(i)) < Limits[Group(s[i])]
           F == {i \in DOMAIN s : Fits(i) /\ s[i][1] = k}
           old == OfKind(r.hints, k)
           added == {s[i] : i \in F}
<1>0. k \notin LocatorKinds /\ k # "locator"
  BY DEF HintKinds, LocatorKinds
<1>1. \A c : Group(c) = k <=> c[1] = k
  BY <1>0 DEF Group
<1>2. Have(r, k) = Cardinality(old)
  BY <1>0, <1>1 DEF Have, OfKind
<1>3. IsFiniteSet(old) /\ Cardinality(old) <= Allowed(t, k) /\ Cardinality(old) \in Nat
  BY FS_CardinalityType DEF Within
<1>4. OfKind(r.hints \cup Hints(Inserted(r, s)), k) = old \cup added
  <2>1. Inserted(r, s) = {s[i] : i \in {i \in DOMAIN s : Fits(i)}}
    BY DEF Inserted
  <2>2. OfKind(Hints(Inserted(r, s)), k) = added
    BY <2>1 DEF OfKind, Hints
  <2>3. OfKind(r.hints \cup Hints(Inserted(r, s)), k) = old \cup OfKind(Hints(Inserted(r, s)), k)
    BY DEF OfKind
  <2> QED
    BY <2>2, <2>3
<1>5. \A i \in F : i \in Nat /\ i # 0
  BY DEF Places
<1>6. \A i \in F : Right(i) /\ s[i][1] = k /\ Cardinality(old) + Cardinality(Earlier(i)) < Limits[k]
  BY <1>1, <1>2
<1>7. \A i \in F : BeforeOne(F, i) \in SUBSET Earlier(i)
  BY <1>1, <1>5 DEF BeforeOne
<1>8. \A i \in F : IsFiniteSet(Earlier(i)) /\ Cardinality(Earlier(i)) \in Nat
  <2> SUFFICES ASSUME NEW i \in F PROVE IsFiniteSet(Earlier(i)) /\ Cardinality(Earlier(i)) \in Nat
    OBVIOUS
  <2>1. IsFiniteSet(1 .. i - 1)
    <3>1. i - 1 \in Int /\ 1 \in Int
      BY <1>5
    <3> QED
      BY <3>1, FS_Interval
  <2>2. Earlier(i) \in SUBSET (1 .. i - 1)
    OBVIOUS
  <2> HIDE DEF Earlier
  <2> QED
    BY <2>1, <2>2, FS_Subset, FS_CardinalityType
<1> HIDE DEF Earlier, Right, F, New
<1>9. \A i \in F : /\ Cardinality(BeforeOne(F, i)) < Limits[k] - Cardinality(old)
                   /\ Limits[k] - Cardinality(old) \in Nat
  <2> SUFFICES ASSUME NEW i \in F
               PROVE  /\ Cardinality(BeforeOne(F, i)) < Limits[k] - Cardinality(old)
                      /\ Limits[k] - Cardinality(old) \in Nat
    OBVIOUS
  <2>1. /\ IsFiniteSet(BeforeOne(F, i))
        /\ Cardinality(BeforeOne(F, i)) <= Cardinality(Earlier(i))
    BY <1>7, <1>8, FS_Subset
  <2>2. Cardinality(BeforeOne(F, i)) \in Nat
    BY <2>1, FS_CardinalityType
  <2> QED
    BY <1>3, <1>6, <1>8, <2>1, <2>2, AllowedType
<1>10. CASE F = {}
  <2>1. added = {}
    BY <1>10
  <2> QED
    BY <1>3, <1>4, <2>1
<1>11. CASE F # {}
  <2>1. Limits[k] - Cardinality(old) \in Nat
    BY <1>9, <1>11
  <2>2. IsFiniteSet(F) /\ Cardinality(F) <= Limits[k] - Cardinality(old)
    BY <1>5, <1>9, <2>1, FewBefore
  <2>3. [i \in F |-> s[i]] \in Surjection(F, added)
    BY DEF Surjection
  <2>4. IsFiniteSet(added) /\ Cardinality(added) <= Cardinality(F)
    BY <2>2, <2>3, FS_Surjection
  <2>5. Cardinality(added) \in Nat /\ Cardinality(F) \in Nat
    BY <2>2, <2>4, FS_CardinalityType
  <2>6. IsFiniteSet(old \cup added) /\ Cardinality(old \cup added) <= Cardinality(old) + Cardinality(added)
    <3>1. IsFiniteSet(old \cap added) /\ Cardinality(old \cap added) \in Nat
      BY <1>3, FS_Subset, FS_CardinalityType
    <3>2. /\ IsFiniteSet(old \cup added)
          /\ Cardinality(old \cup added)
               = Cardinality(old) + Cardinality(added) - Cardinality(old \cap added)
      BY <1>3, <2>4, FS_Union
    <3> QED
      BY <1>3, <2>5, <3>1, <3>2
  <2>7. Cardinality(old \cup added) \in Nat
    BY <2>6, FS_CardinalityType
  <2>8. Cardinality(old \cup added) <= Limits[k]
    BY <1>3, <2>2, <2>4, <2>5, <2>6, <2>7, AllowedType
  <2>9. Cardinality(old \cup added) <= Allowed(t, k)
    BY <2>7, <2>8, AllowedType
  <2> QED
    BY <1>4, <2>6, <2>9
<1> QED
  BY <1>10, <1>11

-----------------------------------------------------------------------------

(* The fields of a resolution. *)
Fields == {"pc", "todo", "hints", "seen", "found", "problems", "file", "doc", "known", "list", "torrent"}
Shape(r) == DOMAIN r = Fields
(* The providers, the documents behind a file, the states of a file, and a list
   of providers that has the tracker list at most once. *)
Kinds == {"magnet", "static", "list", "index", "discovery"}
Docs(f) == IF f = "list" THEN DOMAIN Lists ELSE DOMAIN Answers
Entries == [state : {"absent", "empty", "cut", "whole"}, ver : Nat, fresh : BOOLEAN]
OneList(s) == \A i, j \in DOMAIN s : s[i] = "list" /\ s[j] = "list" => i = j

(* Types of a resolution, and the provider that the file it works on belongs to. *)
ResTypes(r) ==
  /\ Shape(r) /\ r.pc \in {"idle", "ask", "read", "fetch", "open", "write"} /\ r.file \in Files
  /\ r.todo \in Seq(Kinds) /\ OneList(r.todo)
  /\ r.known \in Nat /\ r.list \in Nat /\ r.doc \in Nat
  /\ r.pc \in {"open", "write"} => r.doc \in Docs(r.file)
  /\ r.pc \in {"read", "fetch"} => r.file \in {"list", "text"}
  /\ r.pc \in {"read", "fetch", "open", "write"} =>
       r.todo # <<>> /\ (Head(r.todo) = "list" <=> r.file = "list")

(* Types of the discovery: what is in the cache was served. *)
SwarmTypes ==
  /\ served \in [list : DOMAIN Lists, index : DOMAIN Answers]
  /\ cache \in [Files -> Entries] /\ \A f \in Files : cache[f].state = "whole" => cache[f].ver \in Docs(f)
  /\ good \in Nat
  /\ DOMAIN res = Resolvers /\ DOMAIN sources = Resolvers
  /\ \A t \in Resolvers : ResTypes(res[t])

(* The steps of a resolution between its begin and its end *)
Moved(r, q) ==
  /\ q.pc # "idle" /\ q.todo = r.todo /\ q.hints = r.hints /\ q.found = r.found /\ q.list = r.list
Took(r, q) ==
  /\ q.pc = "ask" /\ r.todo # <<>> /\ q.todo = Tail(r.todo)
  /\ Head(r.todo) # "list" => q.list = r.list
  /\ \E s : /\ Places(s) /\ q.found = r.found \cup Inserted(r, s)
            /\ q.hints = r.hints \cup Hints(Inserted(r, s))
Went(r, q) == ResTypes(q) /\ q.known = r.known /\ (Moved(r, q) \/ Took(r, q))

(* The documents are numbered from one; a list is a sequence. *)
LEMMA DocTypes ==
  /\ DOMAIN Lists \subseteq Nat \ {0} /\ 1 \in DOMAIN Lists
  /\ DOMAIN Answers \subseteq Nat \ {0} /\ 1 \in DOMAIN Answers
  /\ \A f : Docs(f) \subseteq Nat \ {0} /\ 1 \in Docs(f)
  /\ \A v \in DOMAIN Lists : Places(Lists[v])
<1>1. DOMAIN Lists = 1 .. Len(Lists) /\ Len(Lists) \in Nat /\ Len(Lists) # 0
  BY SwarmAssumption
<1>2. \A v \in DOMAIN Lists : Lists[v] \in Seq(STRING)
  BY SwarmAssumption
<1>3. \A v \in DOMAIN Lists : Places(Lists[v])
  BY <1>2 DEF Places
<1>4. DOMAIN Lists \subseteq Nat \ {0} /\ 1 \in DOMAIN Lists
  BY <1>1
<1>5. DOMAIN Answers \subseteq Nat \ {0} /\ 1 \in DOMAIN Answers
  BY SwarmAssumption
<1> QED
  BY <1>3, <1>4, <1>5 DEF Docs

(* What is left of a list of providers after the first. *)
LEMMA TailFacts ==
  ASSUME NEW s \in Seq(Kinds), s # <<>>
  PROVE  /\ Tail(s) \in Seq(Kinds) /\ Head(s) \in Kinds
         /\ OneList(s) => OneList(Tail(s))
         /\ OneList(s) /\ Head(s) = "list" => \A i \in DOMAIN Tail(s) : Tail(s)[i] # "list"
         /\ Head(s) # "list" /\ (\E i \in DOMAIN s : s[i] = "list")
              => \E i \in DOMAIN Tail(s) : Tail(s)[i] = "list"
         /\ (\E i \in DOMAIN Tail(s) : Tail(s)[i] = "list") => \E i \in DOMAIN s : s[i] = "list"
<1>1. /\ Tail(s) \in Seq(Kinds) /\ Head(s) \in Kinds /\ Head(s) = s[1]
      /\ DOMAIN s = 1 .. Len(s) /\ Len(s) \in Nat /\ Len(s) # 0
      /\ DOMAIN Tail(s) = 1 .. Len(s) - 1
      /\ \A i \in 1 .. Len(s) - 1 : Tail(s)[i] = s[i + 1]
  OBVIOUS
<1>2. \A i \in DOMAIN Tail(s) : i + 1 \in DOMAIN s /\ i + 1 # 1 /\ Tail(s)[i] = s[i + 1]
  BY <1>1
<1>3. \A i \in DOMAIN s : i # 1 => i - 1 \in DOMAIN Tail(s) /\ Tail(s)[i - 1] = s[i]
  BY <1>1
<1>4. 1 \in DOMAIN s
  BY <1>1
<1>5. OneList(s) => OneList(Tail(s))
  <2> SUFFICES ASSUME OneList(s), NEW i \in DOMAIN Tail(s), NEW j \in DOMAIN Tail(s),
                      Tail(s)[i] = "list", Tail(s)[j] = "list"
               PROVE  i = j
    BY DEF OneList
  <2>1. i + 1 = j + 1
    BY <1>2 DEF OneList
  <2> QED
    BY <1>1, <2>1
<1>6. OneList(s) /\ Head(s) = "list" => \A i \in DOMAIN Tail(s) : Tail(s)[i] # "list"
  BY <1>1, <1>2, <1>4 DEF OneList
<1>7. Head(s) # "list" /\ (\E i \in DOMAIN s : s[i] = "list")
              => \E i \in DOMAIN Tail(s) : Tail(s)[i] = "list"
  BY <1>1, <1>3
<1>8. (\E i \in DOMAIN Tail(s) : Tail(s)[i] = "list") => \E i \in DOMAIN s : s[i] = "list"
  BY <1>2
<1> QED
  BY <1>1, <1>5, <1>6, <1>7, <1>8

(* The fields after a report. *)
LEMMA TakenFields ==
  ASSUME NEW r, Shape(r), NEW report
  PROVE  LET q == Taken(r, report) IN
         /\ Shape(q) /\ q.pc = "ask" /\ q.todo = Tail(r.todo) /\ q.doc = 0 /\ q.file = r.file
         /\ q.known = r.known /\ q.list = r.list
         /\ q.found = r.found \cup Inserted(r, report.found)
         /\ q.hints = r.hints \cup Hints(Inserted(r, report.found))
BY DEF Taken, Shape, Fields, Hints

(* A report takes a provider off the list, ... *)
LEMMA TakenWent ==
  ASSUME NEW r, ResTypes(r), r.todo # <<>>, NEW report, Places(report.found)
  PROVE  Went(r, Taken(r, report)) /\ Took(r, Taken(r, report))
<1> DEFINE q == Taken(r, report)
<1>1. /\ Shape(q) /\ q.pc = "ask" /\ q.todo = Tail(r.todo) /\ q.doc = 0 /\ q.file = r.file
      /\ q.known = r.known /\ q.list = r.list
      /\ q.found = r.found \cup Inserted(r, report.found)
      /\ q.hints = r.hints \cup Hints(Inserted(r, report.found))
  BY TakenFields DEF ResTypes
<1> HIDE DEF q
<1>2. q.todo \in Seq(Kinds) /\ OneList(q.todo)
  BY <1>1, TailFacts DEF ResTypes
<1>3. ResTypes(q)
  BY <1>1, <1>2 DEF ResTypes
<1>4. Took(r, q)
  BY <1>1 DEF Took
<1>5. Went(r, q)
  BY <1>1, <1>3, <1>4 DEF Went
<1> QED
  BY <1>4, <1>5 DEF q

(* ... that of the tracker list sets the version too. *)
LEMMA TakeListWent ==
  ASSUME NEW r, ResTypes(r), r.todo # <<>>, Head(r.todo) = "list",
         NEW lines, Places(lines), NEW ver \in Nat, NEW problems
  PROVE  LET q == TakeList(r, lines, ver, problems) IN Went(r, q) /\ Took(r, q) /\ q.list = ver
<1> DEFINE report == Report([i \in DOMAIN lines |-> <<"tracker", lines[i]>>], problems)
           p == Taken(r, report)
           q == TakeList(r, lines, ver, problems)
<1>0. Places(report.found)
  BY DEF Places, Report
<1> HIDE DEF report
<1>1. Went(r, p) /\ Took(r, p)
  BY <1>0, TakenWent
<1>2. Shape(p) /\ p.pc = "ask"
  BY TakenFields DEF ResTypes
<1>3. q = [p EXCEPT !.list = ver]
  BY DEF TakeList, report
<1> HIDE DEF p, q
<1>4. /\ Shape(q) /\ q.pc = p.pc /\ q.todo = p.todo /\ q.doc = p.doc /\ q.file = p.file
      /\ q.known = p.known /\ q.list = ver /\ q.found = p.found /\ q.hints = p.hints
  BY <1>2, <1>3 DEF Shape, Fields
<1>5. ResTypes(q)
  BY <1>1, <1>4 DEF Went, ResTypes
<1>6. Took(r, q)
  BY <1>1, <1>2, <1>4 DEF Took
<1>7. Went(r, q) /\ Took(r, q) /\ q.list = ver
  BY <1>1, <1>4, <1>5, <1>6 DEF Went
<1> QED
  BY <1>7 DEF q

(* All reports are sequences. *)
LEMMA ReportPlaces ==
  /\ Places(<<>>) /\ Places(<<Cached>>) /\ Places(OwnInOrder)
  /\ \A s, T : Places(Picked(s, T))
  /\ Places(DiscoveredPage.found)
  /\ \A v \in DOMAIN Answers : Places(DiscoveredAnswers[v].found)
<1>1. Places(<<>>) /\ Places(<<Cached>>)
  BY DEF Places
<1>2. Places(OwnInOrder)
  <2>1. PICK f \in Bijection(1 .. Cardinality(Own), Own) : TRUE
    BY SwarmAssumption, FS_CardinalityType DEF ExistsBijection
  <2>2. f \in [1 .. Cardinality(Own) -> Own] /\ IsInjective(f)
    BY <2>1 DEF Bijection, Injection, IsInjective
  <2>3. OwnInOrder \in [1 .. Cardinality(Own) -> Own]
    BY <2>2 DEF OwnInOrder, SetToSeq
  <2> QED
    BY <2>3 DEF Places
<1>3. \A s, T : Places(Picked(s, T))
  BY DEF Places, Picked
<1>4. \A p : Places(Discovered(p).found)
  BY <1>1, <1>3 DEF Discovered, Report, Deduplicated
<1> QED
  BY <1>1, <1>2, <1>3, <1>4 DEF DiscoveredPage, DiscoveredAnswers

(* So are the reports of the files in the cache. *)
LEMMA CacheReports ==
  ASSUME SwarmTypes, NEW n
  PROVE  /\ Places(CachedTorrent(n).found) /\ Places(IndexText(n).found)
         /\ Places(Lines(cache["list"]))
         /\ (IF cache["list"].state = "whole" THEN cache["list"].ver ELSE 0) \in Nat
<1>1. /\ "text" \in Files /\ "list" \in Files /\ cache["text"] \in Entries /\ cache["list"] \in Entries
      /\ cache["text"].state = "whole" => cache["text"].ver \in DOMAIN Answers
      /\ cache["list"].state = "whole" => cache["list"].ver \in DOMAIN Lists
  BY DEF SwarmTypes, Files, Docs
<1>2. Places(CachedTorrent(n).found)
  BY ReportPlaces DEF CachedTorrent, Report
<1>3. Places(Lines(cache["list"]))
  <2>1. Places(<<"torn">>)
    BY DEF Places
  <2> QED
    BY <1>1, <2>1, DocTypes, ReportPlaces DEF Lines
<1>4. Places(IndexText(n).found)
  <2>1. CASE cache["text"].state = "whole"
    <3> DEFINE v == cache["text"].ver
               d == DiscoveredAnswers[v]
    <3>1. v \in DOMAIN Answers /\ Places(d.found)
      BY <1>1, <2>1, ReportPlaces
    <3>2. DOMAIN d = {"found", "problems"}
      BY <3>1 DEF DiscoveredAnswers, Discovered, Report
    <3>3. IndexText(n) = [d EXCEPT !.problems = @ + n]
      BY <2>1 DEF IndexText
    <3> HIDE DEF d, v
    <3>4. IndexText(n).found = d.found
      BY <3>2, <3>3
    <3> QED
      BY <3>1, <3>4
  <2>2. CASE cache["text"].state # "whole"
    BY <2>2, ReportPlaces DEF IndexText, Report
  <2> QED
    BY <2>1, <2>2
<1> QED
  BY <1>1, <1>2, <1>3, <1>4 DEF Entries

(* What was fetched is taken, its version with it. *)
LEMMA FetchedWent ==
  ASSUME NEW r, ResTypes(r), r.pc \in {"open", "write"}, NEW n
  PROVE  LET q == Fetched(r, n) IN Went(r, q) /\ Took(r, q) /\ (r.file = "list" => q.list = r.doc)
<1>1. /\ r.todo # <<>> /\ (Head(r.todo) = "list" <=> r.file = "list")
      /\ r.doc \in Docs(r.file) /\ r.doc \in Nat
  BY DEF ResTypes
<1>2. CASE r.file = "list"
  BY <1>1, <1>2, TakeListWent, DocTypes DEF Fetched, Docs
<1>3. CASE r.file = "torrent"
  <2>1. Places(CachedTorrent(n).found)
    BY ReportPlaces DEF CachedTorrent, Report
  <2> QED
    BY <1>1, <1>3, <2>1, TakenWent DEF Fetched
<1>4. CASE r.file \notin {"list", "torrent"}
  <2> DEFINE d == DiscoveredAnswers[r.doc]
  <2>1. r.doc \in DOMAIN Answers /\ Places(d.found)
    BY <1>1, <1>4, ReportPlaces DEF Docs
  <2>2. DOMAIN d = {"found", "problems"}
    BY <2>1 DEF DiscoveredAnswers, Discovered, Report
  <2>3. [d EXCEPT !.problems = @ + n].found = d.found
    <3> HIDE DEF d
    <3> QED
      BY <2>2
  <2>4. Fetched(r, n) = Taken(r, [d EXCEPT !.problems = @ + n])
    BY <1>4 DEF Fetched
  <2> HIDE DEF d
  <2> QED
    BY <1>1, <1>4, <2>1, <2>3, <2>4, TakenWent
<1> QED
  BY <1>2, <1>3, <1>4

(* A provider with a cache is asked: the report is still to come. *)
LEMMA AskedWent ==
  ASSUME NEW r, ResTypes(r), r.pc = "ask", r.todo # <<>>, NEW p \in {"read", "fetch"},
         NEW f \in {"list", "text"}, Head(r.todo) = "list" <=> f = "list"
  PROVE  Went(r, [r EXCEPT !.pc = p, !.file = f])
<1> DEFINE q == [r EXCEPT !.pc = p, !.file = f]
<1>1. /\ Shape(q) /\ q.pc = p /\ q.todo = r.todo /\ q.doc = r.doc /\ q.file = f
      /\ q.known = r.known /\ q.list = r.list /\ q.found = r.found /\ q.hints = r.hints
  BY DEF ResTypes, Shape, Fields
<1> HIDE DEF q
<1>2. ResTypes(q) /\ Moved(r, q)
  BY <1>1 DEF ResTypes, Moved, Files
<1>3. Went(r, q)
  BY <1>1, <1>2 DEF Went
<1> QED
  BY <1>3 DEF q

(* So it is after the fetch and while the file is written. *)
LEMMA OpenedWent ==
  ASSUME NEW r, ResTypes(r), r.pc \in {"fetch", "open"}, NEW q, Shape(q), q.pc \in {"open", "write"},
         q.file \in Files, q.doc \in Docs(q.file), r.file = "list" <=> q.file = "list",
         q.todo = r.todo, q.known = r.known, q.list = r.list, q.found = r.found, q.hints = r.hints
  PROVE  Went(r, q)
<1>1. q.doc \in Nat
  BY DocTypes
<1>2. ResTypes(q) /\ Moved(r, q)
  BY <1>1 DEF ResTypes, Moved
<1> QED
  BY <1>2 DEF Went

(* The steps of one resolution that change only it *)
Alike(t) == /\ UNCHANGED <<sources, starts>> /\ DOMAIN res' = Resolvers
            /\ \A u \in Resolvers : u # t => res'[u] = res[u]

(* Continue is such a step. *)
LEMMA ContinueAlike ==
  ASSUME SwarmTypes, NEW t \in Resolvers, NEW r, Continue(t, r), UNCHANGED <<sources, starts>>
  PROVE  Alike(t) /\ res'[t] = r
BY DEF SwarmTypes, Continue, Alike

(* Asking a provider. *)
LEMMA AskGoes ==
  ASSUME SwarmTypes, NEW t \in Resolvers,
         \/ AskMagnet(t) \/ AskStatic(t) \/ AskDiscovery(t) \/ AskList(t) \/ AskIndex(t)
  PROVE  Alike(t) /\ Went(res[t], res'[t]) /\ UNCHANGED <<cache, served, good>>
         /\ res[t].pc = "ask" /\ (res'[t].pc = "ask" => Head(res[t].todo) # "list")
         /\ res'[t].pc \in {"ask", "read", "fetch"}
<1> DEFINE r == res[t]
<1>0. ResTypes(r) /\ r.pc = "ask" /\ r.todo # <<>>
  BY DEF SwarmTypes, AskMagnet, AskStatic, AskDiscovery, AskList, AskIndex, Asks
<1>1. CASE AskMagnet(t)
  <2>1. PICK s : /\ s \in {OwnInOrder, <<>>} /\ Continue(t, Taken(r, Report(s, 0)))
                 /\ Head(r.todo) = "magnet" /\ UNCHANGED <<cache, served, sources, starts, storms, good>>
    BY <1>1 DEF AskMagnet, Asks
  <2>2. Places(Report(s, 0).found)
    BY <2>1, ReportPlaces DEF Report
  <2> QED
    BY <1>0, <2>1, <2>2, TakenWent, ContinueAlike DEF Took
<1>2. CASE AskStatic(t)
  <2>1. PICK T, n : /\ Continue(t, Taken(r, Report(Picked(Static, T), n)))
                    /\ Head(r.todo) = "static" /\ UNCHANGED <<cache, served, sources, starts, storms, good>>
    BY <1>2 DEF AskStatic, Asks
  <2>2. Places(Report(Picked(Static, T), n).found)
    BY <2>1, ReportPlaces DEF Report
  <2> QED
    BY <1>0, <2>1, <2>2, TakenWent, ContinueAlike DEF Took
<1>3. CASE AskDiscovery(t)
  <2>1. PICK report : /\ report \in {DiscoveredPage, Report(<<>>, 1)} /\ Continue(t, Taken(r, report))
                      /\ Head(r.todo) = "discovery" /\ UNCHANGED <<cache, served, sources, starts, storms, good>>
    BY <1>3 DEF AskDiscovery, Asks
  <2>2. Places(report.found)
    BY <2>1, ReportPlaces DEF Report
  <2> QED
    BY <1>0, <2>1, <2>2, TakenWent, ContinueAlike DEF Took
<1>4. CASE AskList(t)
  <2>1. PICK p \in {"read", "fetch"} :
              /\ Continue(t, [r EXCEPT !.pc = p, !.file = "list"])
              /\ Head(r.todo) = "list" /\ UNCHANGED <<cache, served, sources, starts, storms, good>>
    BY <1>4 DEF AskList, Asks
  <2>2. Went(r, [r EXCEPT !.pc = p, !.file = "list"])
    BY <1>0, <2>1, AskedWent
  <2>3. res'[t] = [r EXCEPT !.pc = p, !.file = "list"] /\ Alike(t)
    BY <2>1, ContinueAlike
  <2>4. res'[t].pc = p
    BY <1>0, <2>3 DEF ResTypes, Shape, Fields
  <2> QED
    BY <1>0, <2>1, <2>2, <2>3, <2>4
<1>5. CASE AskIndex(t)
  <2>0. Head(r.todo) = "index" /\ UNCHANGED <<cache, served, sources, starts, storms, good>>
    BY <1>5 DEF AskIndex, Asks
  <2>1. CASE \E report : Places(report.found) /\ Continue(t, Taken(r, report))
    BY <1>0, <2>0, <2>1, TakenWent, ContinueAlike DEF Took
  <2>2. CASE \E p \in {"read", "fetch"} : Continue(t, [r EXCEPT !.pc = p, !.file = "text"])
    <3>1. PICK p \in {"read", "fetch"} : Continue(t, [r EXCEPT !.pc = p, !.file = "text"])
      BY <2>2
    <3>2. Went(r, [r EXCEPT !.pc = p, !.file = "text"])
      BY <1>0, <2>0, AskedWent
    <3>3. res'[t] = [r EXCEPT !.pc = p, !.file = "text"] /\ Alike(t)
      BY <2>0, <3>1, ContinueAlike
    <3>4. res'[t].pc = p
      BY <1>0, <3>3 DEF ResTypes, Shape, Fields
    <3> QED
      BY <1>0, <2>0, <3>2, <3>3, <3>4
  <2>3. Places(CachedTorrent(0).found) /\ Places(Report(<<>>, 1).found)
    BY ReportPlaces DEF CachedTorrent, Report
  <2> QED
    BY <1>5, <2>1, <2>2, <2>3 DEF AskIndex, LookUpIndex
<1> QED
  BY <1>1, <1>2, <1>3, <1>4, <1>5

(* Reading the cache, fresh or stale: the list that is there whole is taken. *)
LEMMA ReadGoes ==
  ASSUME SwarmTypes, NEW t \in Resolvers, ReadFresh(t) \/ FetchFails(t)
  PROVE  /\ Alike(t) /\ Went(res[t], res'[t]) /\ Took(res[t], res'[t]) /\ UNCHANGED <<cache, served, good>>
         /\ res'[t].pc = "ask" /\ res[t].pc \in {"read", "fetch"}
         /\ res[t].file = "list" /\ cache["list"].state = "whole" => res'[t].list = cache["list"].ver
<1> DEFINE r == res[t]
           ver == IF cache["list"].state = "whole" THEN cache["list"].ver ELSE 0
<1>0. /\ ResTypes(r) /\ r.pc \in {"read", "fetch"} /\ r.todo # <<>> /\ r.file \in {"list", "text"}
      /\ Head(r.todo) = "list" <=> r.file = "list"
      /\ UNCHANGED <<cache, served, sources, starts, storms, good>>
  BY DEF SwarmTypes, ReadFresh, FetchFails, ResTypes
<1>1. ASSUME NEW report, Places(report.found), Continue(t, Taken(r, report)),
             r.file = "list" => cache["list"].state # "whole"
      PROVE  /\ Alike(t) /\ Went(res[t], res'[t]) /\ Took(res[t], res'[t]) /\ res'[t].pc = "ask"
             /\ res[t].file = "list" /\ cache["list"].state = "whole" => res'[t].list = cache["list"].ver
  <2>1. Taken(r, report).pc = "ask"
    BY <1>0, TakenFields DEF ResTypes
  <2> QED
    BY <1>0, <1>1, <2>1, TakenWent, ContinueAlike
<1>2. ASSUME NEW n, r.file = "list", Continue(t, TakeListFile(r, n))
      PROVE  /\ Alike(t) /\ Went(res[t], res'[t]) /\ Took(res[t], res'[t]) /\ res'[t].pc = "ask"
             /\ res[t].file = "list" /\ cache["list"].state = "whole" => res'[t].list = cache["list"].ver
  <2>1. Places(Lines(cache["list"])) /\ ver \in Nat
    BY CacheReports
  <2>2. TakeListFile(r, n) = TakeList(r, Lines(cache["list"]), ver, n)
    BY DEF TakeListFile
  <2>3. Went(r, TakeListFile(r, n)) /\ Took(r, TakeListFile(r, n)) /\ TakeListFile(r, n).list = ver
    BY <1>0, <1>2, <2>1, <2>2, TakeListWent
  <2>4. TakeListFile(r, n).pc = "ask"
    <3> DEFINE p == Taken(r, Report([i \in DOMAIN Lines(cache["list"]) |-> <<"tracker", Lines(cache["list"])[i]>>], n))
    <3>1. Shape(p) /\ p.pc = "ask"
      BY <1>0, TakenFields DEF ResTypes
    <3>2. TakeListFile(r, n) = [p EXCEPT !.list = ver]
      BY <2>2 DEF TakeList
    <3> HIDE DEF p
    <3> QED
      BY <3>1, <3>2 DEF Shape, Fields
  <2> QED
    BY <1>0, <1>2, <2>3, <2>4, ContinueAlike
<1>3. CASE ReadFresh(t)
  <2>1. \/ r.file = "list" /\ Continue(t, TakeListFile(r, 0))
        \/ r.file = "text" /\ Continue(t, Taken(r, IndexText(0)))
        \/ cache[r.file].state = "cut" /\ Continue(t, Taken(r, Report(<<>>, 0)))
    BY <1>3 DEF ReadFresh
  <2>2. Places(IndexText(0).found) /\ Places(Report(<<>>, 0).found)
    BY CacheReports, ReportPlaces DEF Report
  <2> QED
    BY <1>0, <1>1, <1>2, <2>1, <2>2
<1>4. CASE FetchFails(t)
  <2>1. \/ r.file = "list" /\ Continue(t, StaleList(r))
        \/ r.file = "text" /\ Continue(t, StaleIndex(r))
    BY <1>0, <1>4 DEF FetchFails
  <2>2. /\ Places(IndexText(1).found) /\ Places(Report(<<>>, 1).found)
        /\ Places(CachedTorrent(1).found)
    BY CacheReports, ReportPlaces DEF Report
  <2>3. ~Exists("list") => cache["list"].state # "whole"
    BY DEF Exists
  <2> QED
    BY <1>0, <1>1, <1>2, <2>1, <2>2, <2>3 DEF StaleList, StaleIndex
<1> QED
  BY <1>0, <1>3, <1>4

(* The document comes. *)
LEMMA FetchGoes ==
  ASSUME SwarmTypes, NEW t \in Resolvers, FetchList(t) \/ FetchIndex(t)
  PROVE  /\ Alike(t) /\ Went(res[t], res'[t]) /\ UNCHANGED <<cache, served, good>>
         /\ res[t].pc = "fetch" /\ res'[t].pc = "open" /\ res'[t].todo = res[t].todo
         /\ res[t].file = "list" <=> res'[t].file = "list"
         /\ res[t].file = "list" => res'[t].doc = served.list
<1> DEFINE r == res[t]
           q == res'[t]
<1>0. /\ ResTypes(r) /\ r.pc = "fetch" /\ r.file \in {"list", "text"}
      /\ UNCHANGED <<cache, served, sources, starts, storms, good>>
      /\ served.list \in Docs("list") /\ \A f \in Files : f # "list" => served.index \in Docs(f)
  BY DEF SwarmTypes, FetchList, FetchIndex, ResTypes, Docs
<1>1. CASE FetchList(t)
  <2>1. Alike(t) /\ q = [r EXCEPT !.pc = "open", !.doc = served.list] /\ r.file = "list"
    BY <1>0, <1>1, ContinueAlike DEF FetchList
  <2> HIDE DEF r, q
  <2>2. /\ Shape(q) /\ q.pc = "open" /\ q.todo = r.todo /\ q.doc = served.list /\ q.file = r.file
        /\ q.known = r.known /\ q.list = r.list /\ q.found = r.found /\ q.hints = r.hints
    BY <1>0, <2>1 DEF ResTypes, Shape, Fields
  <2>3. Went(r, q)
    BY <1>0, <2>1, <2>2, OpenedWent DEF Files
  <2> QED
    BY <1>0, <2>1, <2>2, <2>3 DEF r, q
<1>2. CASE FetchIndex(t)
  <2>1. PICK f \in {"torrent", "text"} :
          /\ Alike(t) /\ q = [r EXCEPT !.pc = "open", !.doc = served.index, !.file = f]
          /\ r.file = "text"
    BY <1>0, <1>2, ContinueAlike DEF FetchIndex, FileOf
  <2> HIDE DEF r, q
  <2>2. /\ Shape(q) /\ q.pc = "open" /\ q.todo = r.todo /\ q.doc = served.index /\ q.file = f
        /\ q.known = r.known /\ q.list = r.list /\ q.found = r.found /\ q.hints = r.hints
    BY <1>0, <2>1 DEF ResTypes, Shape, Fields
  <2>3. Went(r, q)
    BY <1>0, <2>1, <2>2, OpenedWent DEF Files
  <2> QED
    BY <1>0, <2>1, <2>2, <2>3 DEF r, q
<1> QED
  BY <1>1, <1>2

(* The file is emptied: nobody else can count on the list any more. *)
LEMMA OpenGoes ==
  ASSUME SwarmTypes, NEW t \in Resolvers, OpenCache(t)
  PROVE  /\ UNCHANGED <<sources, starts, served>> /\ DOMAIN res' = Resolvers
         /\ Went(res[t], res'[t]) /\ res[t].pc = "open" /\ res'[t].pc = "write"
         /\ res'[t].file = res[t].file /\ res'[t].doc = res[t].doc /\ res'[t].todo = res[t].todo
         /\ \A u \in Resolvers : u # t =>
              res'[u] = IF res[t].file = "list" THEN [res[u] EXCEPT !.known = 0] ELSE res[u]
         /\ cache' = [cache EXCEPT ![res[t].file] = [state |-> "empty", ver |-> 0, fresh |-> TRUE]]
         /\ good' = IF res[t].file = "list" THEN 0 ELSE good
<1> DEFINE r == res[t]
           q == res'[t]
<1>0. /\ ResTypes(r) /\ r.pc = "open" /\ r.file \in Files /\ r.doc \in Docs(r.file)
      /\ UNCHANGED <<served, sources, starts, storms>>
  BY DEF SwarmTypes, OpenCache, ResTypes
<1>1. /\ DOMAIN res' = Resolvers /\ q = [r EXCEPT !.pc = "write"]
      /\ \A u \in Resolvers : u # t =>
           res'[u] = IF res[t].file = "list" THEN [res[u] EXCEPT !.known = 0] ELSE res[u]
  BY DEF OpenCache
<1> HIDE DEF r, q
<1>2. /\ Shape(q) /\ q.pc = "write" /\ q.todo = r.todo /\ q.doc = r.doc /\ q.file = r.file
      /\ q.known = r.known /\ q.list = r.list /\ q.found = r.found /\ q.hints = r.hints
  BY <1>0, <1>1 DEF ResTypes, Shape, Fields
<1>3. Went(r, q)
  BY <1>0, <1>2, OpenedWent
<1> QED
  BY <1>0, <1>1, <1>2, <1>3 DEF r, q, OpenCache

(* The file is written, or not: what was fetched is taken. *)
LEMMA WriteGoes ==
  ASSUME SwarmTypes, NEW t \in Resolvers, WriteCache(t) \/ WriteFails(t)
  PROVE  /\ Alike(t) /\ Went(res[t], res'[t]) /\ Took(res[t], res'[t]) /\ UNCHANGED served
         /\ res[t].pc \in {"open", "write"} /\ res'[t].pc = "ask"
         /\ res[t].file = "list" => res'[t].list = res[t].doc
<1> DEFINE r == res[t]
<1>1. PICK n : /\ Continue(t, Fetched(r, n)) /\ r.pc \in {"open", "write"}
               /\ UNCHANGED <<served, sources, starts>>
  BY DEF WriteCache, WriteFails
<1>2. ResTypes(r) /\ r.todo # <<>>
  BY <1>1 DEF SwarmTypes, ResTypes
<1>3. Went(r, Fetched(r, n)) /\ Took(r, Fetched(r, n)) /\ (r.file = "list" => Fetched(r, n).list = r.doc)
  BY <1>1, <1>2, FetchedWent
<1>4. Fetched(r, n).pc = "ask"
  <2>1. \A report : Taken(r, report).pc = "ask" /\ Shape(Taken(r, report))
    BY <1>2, TakenFields DEF ResTypes
  <2>2. \A report, v : [Taken(r, report) EXCEPT !.list = v].pc = "ask"
    BY <2>1 DEF Shape, Fields
  <2> QED
    BY <2>1, <2>2 DEF Fetched, TakeList
<1> QED
  BY <1>1, <1>3, <1>4, ContinueAlike

-----------------------------------------------------------------------------
(* The invariants *)

(* The tracker list is still to be asked; its file is being filled. *)
Pending(r) == \E i \in DOMAIN r.todo : r.todo[i] = "list"
Writes(r) == r.pc = "write" /\ r.file = "list"
(* Of a resolution that knew of a list, when g is the list in the cache: before the
   tracker list is asked it is the one in the cache, or at least as new a one is
   about to be written; afterwards it has been used. *)
KnownOf(r, g) ==
  r.known # 0 =>
    IF ~Pending(r) THEN r.list >= r.known
    ELSE /\ ~Writes(r) => g = r.known
         /\ r.pc \in {"open", "write"} /\ r.file = "list" => r.doc >= r.known

(* The inductive form of KnownListIsUsed. *)
KnownInvariant ==
  /\ good <= served.list
  /\ good # 0 => /\ cache["list"].state = "whole" /\ cache["list"].ver = good
                 /\ \A t \in Resolvers : ~Writes(res[t])
  /\ \A t \in Resolvers :
       /\ KnownOf(res[t], good)
       /\ res[t].pc \in {"open", "write"} /\ res[t].file = "list" => res[t].doc <= served.list

(* The hints of a resolution are within the limits and have all that can become a
   source of the task. *)
Sound(t, r) ==
  /\ Within(t, r.hints)
  /\ r.pc # "idle" => InitialHints(t) \subseteq r.hints /\ Hints(r.found) \subseteq r.hints

(* The inductive form of HintsAreBounded: the sources that come back at the next
   start are within the limits, as well as the hints of each resolution. *)
HintsInvariant ==
  \A t \in Resolvers : Within(t, InitialHints(t)) /\ Sound(t, res[t])

(* A resolution that has not begun. *)
Rests(r) == /\ ResTypes(r) /\ r.pc = "idle" /\ r.known = 0 /\ r.hints = {} /\ r.todo = <<>>

(* No resolution: before the first, and after one has ended. *)
LEMMA RestingRests ==
  /\ Rests(Resting)
  /\ \A b : Rests([Resting EXCEPT !.torrent = b])
<1>1. <<>> \in Seq(Kinds) /\ OneList(<<>>)
  BY DEF OneList
<1>2. /\ Shape(Resting) /\ Resting.pc = "idle" /\ Resting.file = "list" /\ Resting.todo = <<>>
      /\ Resting.known = 0 /\ Resting.list = 0 /\ Resting.doc = 0 /\ Resting.hints = {}
      /\ Resting.found = {}
  BY DEF Resting, Shape, Fields
<1>3. Rests(Resting)
  BY <1>1, <1>2 DEF Rests, ResTypes, Files
<1>4. ASSUME NEW b
      PROVE  Rests([Resting EXCEPT !.torrent = b])
  <2> DEFINE q == [Resting EXCEPT !.torrent = b]
  <2>1. /\ Shape(q) /\ q.pc = "idle" /\ q.file = "list" /\ q.todo = <<>>
        /\ q.known = 0 /\ q.list = 0 /\ q.doc = 0 /\ q.hints = {}
    BY <1>2 DEF Shape, Fields
  <2> HIDE DEF q
  <2>2. Rests(q)
    BY <1>1, <2>1 DEF Rests, ResTypes, Files
  <2> QED
    BY <2>2 DEF q
<1> QED
  BY <1>3, <1>4

(* A resolution begins with what the task has. *)
LEMMA BeginGoes ==
  ASSUME SwarmTypes, NEW t \in Resolvers, BeginResolve(t)
  PROVE  /\ DOMAIN res' = Resolvers /\ (\A u \in Resolvers : u # t => res'[u] = res[u])
         /\ UNCHANGED <<cache, served, sources, good>>
         /\ ResTypes(res'[t]) /\ res'[t].pc = "ask" /\ res'[t].hints = InitialHints(t)
         /\ res'[t].found = {} /\ res'[t].known \in {0, good}
         /\ res'[t].known # 0 => Pending(res'[t])
<1>1. PICK providers \in Configs :
        Continue(t, [Resting EXCEPT !.pc = "ask", !.todo = providers,
                                    !.known = IF "list" \in ToSet(providers) THEN good ELSE 0,
                                    !.hints = InitialHints(t), !.seen = InitialHints(t)])
  BY DEF BeginResolve
<1> DEFINE q == res'[t]
           k == IF "list" \in ToSet(providers) THEN good ELSE 0
<1>2. /\ UNCHANGED <<cache, served, sources, storms, good>> /\ DOMAIN res' = Resolvers
      /\ \A u \in Resolvers : u # t => res'[u] = res[u]
      /\ q = [Resting EXCEPT !.pc = "ask", !.todo = providers, !.known = k,
                             !.hints = InitialHints(t), !.seen = InitialHints(t)]
  BY <1>1 DEF BeginResolve, Continue, SwarmTypes
<1> HIDE DEF q, k
<1>3. /\ Shape(q) /\ q.pc = "ask" /\ q.file = "list" /\ q.todo = providers
      /\ q.known = k /\ q.list = 0 /\ q.doc = 0 /\ q.hints = InitialHints(t) /\ q.found = {}
  BY <1>2 DEF Resting, Shape, Fields
<1>4. providers \in Seq(Kinds) /\ OneList(providers)
  BY SwarmAssumption DEF Kinds, OneList
<1>5. k \in {0, good} /\ good \in Nat /\ (k # 0 => \E i \in DOMAIN providers : providers[i] = "list")
  BY DEF SwarmTypes, k, ToSet
<1>6. ResTypes(q)
  BY <1>3, <1>4, <1>5 DEF ResTypes, Files
<1>7. q.known # 0 => Pending(q)
  BY <1>3, <1>5 DEF Pending
<1> QED
  BY <1>2, <1>3, <1>5, <1>6, <1>7 DEF q

(* It ends: what was found becomes a source. *)
LEMMA EndGoes ==
  ASSUME SwarmTypes, NEW t \in Resolvers, EndResolve(t)
  PROVE  /\ DOMAIN res' = Resolvers /\ (\A u \in Resolvers : u # t => res'[u] = res[u])
         /\ UNCHANGED <<cache, served, good>> /\ Rests(res'[t]) /\ res[t].pc # "idle"
         /\ sources' = [sources EXCEPT ![t] = sources[t] \cup res[t].found]
BY RestingRests DEF EndResolve, Continue, SwarmTypes

(* A crash: files that were being written may be cut. *)
LEMMA CrashGoes ==
  ASSUME SwarmTypes, SwarmCrash
  PROVE  /\ DOMAIN res' = Resolvers /\ (\A t \in Resolvers : Rests(res'[t]))
         /\ UNCHANGED <<served, sources, good>>
         /\ cache' \in [Files -> Entries]
         /\ \A f \in Files : cache[f].state # "empty" => cache'[f] = cache[f]
         /\ \A f \in Files : cache'[f].state = "whole" => cache'[f] = cache[f]
<1>1. /\ res' = [t \in Resolvers |-> Resting] /\ UNCHANGED <<served, sources, starts, good>>
  BY DEF SwarmCrash
<1>2. PICK S \in SUBSET {f \in Files : cache[f].state = "empty"} :
        cache' = [f \in Files |-> IF f \in S THEN [cache[f] EXCEPT !.state = "cut"] ELSE cache[f]]
  BY DEF SwarmCrash
<1>3. \A f \in Files : cache[f] \in Entries
  BY DEF SwarmTypes
<1>4. \A f \in Files : /\ [cache[f] EXCEPT !.state = "cut"] \in Entries
                       /\ [cache[f] EXCEPT !.state = "cut"].state = "cut"
  BY <1>3 DEF Entries
<1>5. cache' \in [Files -> Entries]
  BY <1>2, <1>3, <1>4
<1> QED
  BY <1>1, <1>2, <1>4, <1>5, RestingRests

(* What a step does to the cache, and that it keeps the types of it *)
LEMMA CacheGoes ==
  ASSUME SwarmTypes, NEW t \in Resolvers, OpenCache(t) \/ WriteCache(t) \/ WriteFails(t)
  PROVE  /\ cache' \in [Files -> Entries] /\ good' \in Nat
         /\ \A f \in Files : cache'[f].state = "whole" => cache'[f].ver \in Docs(f)
         /\ \A f \in Files : f # res[t].file => cache'[f] = cache[f]
         /\ res[t].pc = "open" /\ WriteFails(t) => cache' = cache
<1> DEFINE f == res[t].file
           d == res[t].doc
<1>0. /\ f \in Files /\ d \in Nat /\ d \in Docs(f) /\ good \in Nat
      /\ cache \in [Files -> Entries] /\ \A g \in Files : cache[g].state = "whole" => cache[g].ver \in Docs(g)
  BY DEF SwarmTypes, ResTypes, OpenCache, WriteCache, WriteFails
<1>1. ASSUME NEW e \in Entries, e.state = "whole" => e.ver = d, cache' = [cache EXCEPT ![f] = e]
      PROVE  /\ cache' \in [Files -> Entries]
             /\ \A g \in Files : cache'[g].state = "whole" => cache'[g].ver \in Docs(g)
             /\ \A g \in Files : g # f => cache'[g] = cache[g]
  <2>1. \A g \in Files : cache'[g] = IF g = f THEN e ELSE cache[g]
    BY <1>0, <1>1
  <2> QED
    BY <1>0, <1>1, <2>1
<1>2. good' \in Nat
  BY <1>0 DEF OpenCache, WriteCache, WriteFails
<1>3. CASE OpenCache(t)
  <2>1. PICK e : e = [state |-> "empty", ver |-> 0, fresh |-> TRUE]
    OBVIOUS
  <2>2. e \in Entries /\ e.state = "empty" /\ cache' = [cache EXCEPT ![f] = e]
    BY <1>3, <2>1 DEF OpenCache, Entries
  <2>3. ~(res[t].pc = "open" /\ WriteFails(t)) \/ cache' = cache
    BY <1>3 DEF OpenCache, WriteFails
  <2> QED
    BY <1>1, <1>2, <2>2, <2>3
<1>4. CASE WriteCache(t)
  <2>1. PICK state \in {"whole", "cut"} :
          cache' = [cache EXCEPT ![f] = [state |-> state, ver |-> d, fresh |-> TRUE]]
    BY <1>4 DEF WriteCache
  <2>2. PICK e : e = [state |-> state, ver |-> d, fresh |-> TRUE]
    OBVIOUS
  <2>3. e \in Entries /\ e.ver = d
    BY <1>0, <2>2 DEF Entries
  <2>4. ~(res[t].pc = "open" /\ WriteFails(t))
    BY <1>4 DEF WriteCache
  <2> QED
    BY <1>1, <1>2, <2>1, <2>2, <2>3, <2>4
<1>5. CASE WriteFails(t) /\ res[t].pc = "open"
  BY <1>0, <1>2, <1>5 DEF WriteFails
<1>6. CASE WriteFails(t) /\ res[t].pc = "write"
  <2>1. PICK state \in {"empty", "cut"} : cache' = [cache EXCEPT ![f].state = state]
    BY <1>6 DEF WriteFails
  <2>2. PICK c \in Entries : c = cache[f]
    BY <1>0
  <2>3. PICK e : e = [c EXCEPT !.state = state]
    OBVIOUS
  <2>4. e \in Entries /\ e.state = state
    BY <2>2, <2>3 DEF Entries
  <2>5. cache' = [cache EXCEPT ![f] = e]
    BY <2>1, <2>2, <2>3
  <2> QED
    BY <1>1, <1>2, <1>6, <2>1, <2>4, <2>5
<1> QED
  BY <1>3, <1>4, <1>5, <1>6 DEF WriteFails

(* A new version is served. *)
LEMMA ServedGoes ==
  ASSUME SwarmTypes, NEW what \in {"list", "index"}, Publish(what)
  PROVE  /\ served' \in [list : DOMAIN Lists, index : DOMAIN Answers] /\ served.list <= served'.list
         /\ UNCHANGED <<cache, sources, res, good>>
<1>1. PICK s \in [list : DOMAIN Lists, index : DOMAIN Answers] : s = served
  BY DEF SwarmTypes
<1>2. /\ served' = [s EXCEPT ![what] = s[what] + 1] /\ UNCHANGED <<cache, sources, res, good>>
      /\ s[what] + 1 \in DOMAIN (IF what = "list" THEN Lists ELSE Answers)
  BY <1>1 DEF Publish
<1>3. s.list \in Nat
  BY <1>1, DocTypes
<1>4. CASE what = "list"
  BY <1>1, <1>2, <1>3, <1>4
<1>5. CASE what = "index"
  BY <1>1, <1>2, <1>3, <1>5
<1> QED
  BY <1>4, <1>5

(* A file is no longer fresh. *)
LEMMA AgeGoes ==
  ASSUME SwarmTypes, NEW f \in Files, Age(f)
  PROVE  /\ cache' \in [Files -> Entries] /\ UNCHANGED <<served, sources, res, good>>
         /\ \A g \in Files : cache'[g].state = cache[g].state /\ cache'[g].ver = cache[g].ver
<1>1. PICK c \in Entries : c = cache[f]
  BY DEF SwarmTypes
<1>2. PICK e : e = [c EXCEPT !.fresh = FALSE]
  OBVIOUS
<1>3. e \in Entries /\ e.state = c.state /\ e.ver = c.ver
  BY <1>2 DEF Entries
<1>4. cache' = [cache EXCEPT ![f] = e] /\ UNCHANGED <<served, sources, res, good>>
  BY <1>1, <1>2 DEF Age
<1>5. cache \in [Files -> Entries]
  BY DEF SwarmTypes
<1>6. \A g \in Files : cache'[g] = IF g = f THEN e ELSE cache[g]
  BY <1>4, <1>5
<1> QED
  BY <1>1, <1>3, <1>4, <1>5, <1>6

(* A resolution that cannot count on the list. *)
LEMMA ForgotTypes ==
  ASSUME NEW r, ResTypes(r)
  PROVE  LET q == [r EXCEPT !.known = 0] IN
         /\ ResTypes(q) /\ q.known = 0 /\ q.pc = r.pc /\ q.file = r.file
         /\ q.hints = r.hints /\ q.found = r.found
<1> DEFINE q == [r EXCEPT !.known = 0]
<1>1. /\ Shape(q) /\ q.pc = r.pc /\ q.todo = r.todo /\ q.doc = r.doc /\ q.file = r.file
      /\ q.known = 0 /\ q.list = r.list /\ q.found = r.found /\ q.hints = r.hints
  BY DEF ResTypes, Shape, Fields
<1> HIDE DEF q
<1>2. ResTypes(q)
  BY <1>1 DEF ResTypes
<1>3. /\ ResTypes(q) /\ q.known = 0 /\ q.pc = r.pc /\ q.file = r.file
      /\ q.hints = r.hints /\ q.found = r.found
  BY <1>1, <1>2
<1> QED
  BY <1>3 DEF q

(* The kinds of steps of the discovery, by what they do to a resolution *)
StepOf(t) ==
  /\ DOMAIN res' = Resolvers /\ UNCHANGED sources /\ res[t].pc # "idle" /\ Went(res[t], res'[t])
  /\ \A u \in Resolvers : u # t => res'[u] = res[u] \/ res'[u] = [res[u] EXCEPT !.known = 0]

(* All steps between begin and end are such. *)
LEMMA ResolvingGoes ==
  ASSUME SwarmTypes, NEW t \in Resolvers, Resolving(t), ~EndResolve(t)
  PROVE  StepOf(t)
<1>1. CASE AskMagnet(t) \/ AskStatic(t) \/ AskDiscovery(t) \/ AskList(t) \/ AskIndex(t)
  BY <1>1, AskGoes DEF Alike, StepOf
<1>2. CASE ReadFresh(t) \/ FetchFails(t)
  BY <1>2, ReadGoes DEF Alike, StepOf
<1>3. CASE FetchList(t) \/ FetchIndex(t)
  BY <1>3, FetchGoes DEF Alike, StepOf
<1>4. CASE OpenCache(t)
  BY <1>4, OpenGoes DEF StepOf
<1>5. CASE WriteCache(t) \/ WriteFails(t)
  BY <1>5, WriteGoes DEF Alike, StepOf
<1> QED
  BY <1>1, <1>2, <1>3, <1>4, <1>5 DEF Resolving

(* The initial states are well typed. *)
LEMMA SwarmTypesInit ==
  ASSUME Init
  PROVE  SwarmTypes
<1>0. SwarmInit
  BY DEF Init
<1>1. served = [list |-> 1, index |-> 1] /\ sources = [t \in Resolvers |-> Brought[t]]
      /\ res \in [Resolvers -> {Resting}]
  BY <1>0 DEF SwarmInit
<1>2. served \in [list : DOMAIN Lists, index : DOMAIN Answers]
  BY <1>1, DocTypes
<1>3. PICK S \in SUBSET Files :
        /\ cache = [f \in Files |-> IF f \in S THEN [Absent EXCEPT !.state = "whole", !.ver = 1]
                                              ELSE Absent]
        /\ good = IF "list" \in S THEN 1 ELSE 0
  BY <1>0 DEF SwarmInit
<1>4. PICK e : e = [Absent EXCEPT !.state = "whole", !.ver = 1]
  OBVIOUS
<1>5. e \in Entries /\ e.ver = 1 /\ Absent \in Entries /\ Absent.state = "absent"
  BY <1>4 DEF Absent, Entries
<1>6. /\ cache \in [Files -> Entries]
      /\ \A f \in Files : cache[f].state = "whole" => cache[f].ver \in Docs(f)
  <2>1. \A f \in Files : cache[f] = IF f \in S THEN e ELSE Absent
    BY <1>3, <1>4
  <2>2. cache \in [Files -> Entries]
    BY <1>3, <1>4, <1>5
  <2> QED
    BY <1>5, <2>1, <2>2, DocTypes
<1>7. \A t \in Resolvers : ResTypes(res[t])
  BY <1>1, RestingRests DEF Rests
<1> QED
  BY <1>1, <1>2, <1>3, <1>6, <1>7 DEF SwarmTypes

(* Every step keeps the types. *)
LEMMA SwarmTypesStep ==
  ASSUME SwarmTypes, [Next]_vars
  PROVE  SwarmTypes'
<1>0. SwarmNext \/ UNCHANGED swarmVars
  BY SwarmAlone
<1>1. CASE UNCHANGED swarmVars
  BY <1>1 DEF swarmVars, SwarmTypes
<1>2. ASSUME NEW t \in Resolvers, BeginResolve(t)
      PROVE  SwarmTypes'
  BY <1>2, BeginGoes DEF SwarmTypes
<1>3. ASSUME NEW t \in Resolvers, EndResolve(t)
      PROVE  SwarmTypes'
  <2>1. DOMAIN sources' = Resolvers
    BY <1>3, EndGoes DEF SwarmTypes
  <2> QED
    BY <1>3, <2>1, EndGoes DEF SwarmTypes, Rests
<1>4. ASSUME NEW t \in Resolvers, Resolving(t), ~EndResolve(t)
      PROVE  SwarmTypes'
  <2>1. StepOf(t)
    BY <1>4, ResolvingGoes
  <2>2. \A u \in Resolvers : ResTypes(res'[u])
    BY <2>1, ForgotTypes DEF StepOf, Went, SwarmTypes
  <2>3. UNCHANGED served
    BY <1>4 DEF Resolving, AskMagnet, AskStatic, AskDiscovery, AskList, AskIndex, ReadFresh,
                FetchList, FetchIndex, FetchFails, OpenCache, WriteCache, WriteFails
  <2>4. CASE UNCHANGED <<cache, good>>
    BY <2>1, <2>2, <2>3, <2>4 DEF SwarmTypes, StepOf
  <2>5. CASE OpenCache(t) \/ WriteCache(t) \/ WriteFails(t)
    BY <2>1, <2>2, <2>3, <2>5, CacheGoes DEF SwarmTypes, StepOf
  <2> QED
    BY <1>4, <2>4, <2>5 DEF Resolving, AskMagnet, AskStatic, AskDiscovery, AskList, AskIndex, ReadFresh,
                FetchList, FetchIndex, FetchFails
<1>5. ASSUME NEW f \in Files, Age(f)
      PROVE  SwarmTypes'
  BY <1>5, AgeGoes DEF SwarmTypes
<1>6. ASSUME NEW what \in {"list", "index"}, Publish(what)
      PROVE  SwarmTypes'
  BY <1>6, ServedGoes DEF SwarmTypes
<1>7. CASE SwarmCrash
  BY <1>7, CrashGoes DEF SwarmTypes, Rests
<1> QED
  BY <1>0, <1>1, <1>2, <1>3, <1>4, <1>5, <1>6, <1>7 DEF SwarmNext

-----------------------------------------------------------------------------
(* HintsAreBounded *)

(* A step keeps the hints of its resolution within the limits. *)
LEMMA WentSound ==
  ASSUME NEW t \in Resolvers, NEW r, NEW q, Sound(t, r), r.pc # "idle", Went(r, q)
  PROVE  Sound(t, q)
<1>1. CASE Moved(r, q)
  BY <1>1 DEF Moved, Sound
<1>2. CASE Took(r, q)
  <2>1. PICK s : /\ Places(s) /\ q.found = r.found \cup Inserted(r, s)
                 /\ q.hints = r.hints \cup Hints(Inserted(r, s))
    BY <1>2 DEF Took
  <2>2. Within(t, q.hints)
    BY <2>1, InsertedWithin DEF Sound
  <2>3. Hints(q.found) = Hints(r.found) \cup Hints(Inserted(r, s))
    BY <2>1 DEF Hints
  <2> QED
    BY <2>1, <2>2, <2>3 DEF Sound
<1> QED
  BY <1>1, <1>2 DEF Went

(* No hints are within the limits, ... *)
LEMMA WithinEmpty ==
  ASSUME NEW t \in Resolvers
  PROVE  Within(t, {})
<1>1. \A k : OfKind({}, k) = {}
  BY DEF OfKind
<1>2. \A k \in HintKinds : 0 <= Allowed(t, k)
  BY AllowedType
<1> QED
  BY <1>1, <1>2, FS_EmptySet DEF Within

(* ... and so are those of a magnet link and of the request. *)
LEMMA WithinOwn ==
  ASSUME NEW t \in Resolvers
  PROVE  Within(t, OwnHints(t))
BY AllowedType DEF Within

(* Every step keeps the invariant. *)
LEMMA HintsStep ==
  ASSUME SwarmTypes, HintsInvariant, [Next]_vars
  PROVE  HintsInvariant'
<1>0. SwarmNext \/ UNCHANGED swarmVars
  BY SwarmAlone
<1>i. UNCHANGED sources => \A t \in Resolvers : InitialHints(t)' = InitialHints(t)
  BY DEF InitialHints
<1>1. CASE UNCHANGED <<res, sources>>
  BY <1>1, <1>i DEF HintsInvariant, Sound
<1>2. ASSUME NEW t \in Resolvers, BeginResolve(t)
      PROVE  HintsInvariant'
  <2>1. /\ (\A u \in Resolvers : u # t => res'[u] = res[u]) /\ UNCHANGED sources
        /\ res'[t].hints = InitialHints(t) /\ res'[t].found = {}
    BY <1>2, BeginGoes
  <2>2. Hints(res'[t].found) = {}
    BY <2>1 DEF Hints
  <2> QED
    BY <1>i, <2>1, <2>2 DEF HintsInvariant, Sound
<1>3. ASSUME NEW t \in Resolvers, EndResolve(t)
      PROVE  HintsInvariant'
  <2>1. /\ (\A u \in Resolvers : u # t => res'[u] = res[u])
        /\ Rests(res'[t]) /\ res[t].pc # "idle"
        /\ sources' = [sources EXCEPT ![t] = sources[t] \cup res[t].found]
    BY <1>3, EndGoes
  <2>2. \A u \in Resolvers : sources'[u] = IF u = t THEN sources[t] \cup res[t].found ELSE sources[u]
    BY <2>1 DEF SwarmTypes
  <2>3. \A u \in Resolvers : u # t => InitialHints(u)' = InitialHints(u)
    BY <2>2 DEF InitialHints
  <2>4. InitialHints(t)' = InitialHints(t) \cup Hints(res[t].found)
    BY <2>2 DEF InitialHints, Hints
  <2>5. InitialHints(t)' \subseteq res[t].hints /\ Within(t, res[t].hints)
    BY <2>1, <2>4 DEF HintsInvariant, Sound
  <2>6. Within(t, InitialHints(t)')
    BY <2>5, WithinSubset
  <2> QED
    BY <2>1, <2>3, <2>6, WithinEmpty DEF HintsInvariant, Sound, Rests
<1>4. ASSUME NEW t \in Resolvers, Resolving(t), ~EndResolve(t)
      PROVE  HintsInvariant'
  <2>1. StepOf(t)
    BY <1>4, ResolvingGoes
  <2>2. Sound(t, res'[t])
    BY <2>1, WentSound DEF StepOf, HintsInvariant
  <2>3. \A u \in Resolvers : u # t => /\ res'[u].pc = res[u].pc /\ res'[u].hints = res[u].hints
                                      /\ res'[u].found = res[u].found
    BY <2>1, ForgotTypes DEF StepOf, SwarmTypes
  <2>4. \A u \in Resolvers : Sound(u, res'[u])
    BY <2>2, <2>3 DEF HintsInvariant, Sound
  <2> QED
    BY <1>i, <2>1, <2>4 DEF HintsInvariant, Sound, StepOf
<1>5. CASE SwarmCrash
  BY <1>5, <1>i, CrashGoes, WithinEmpty DEF HintsInvariant, Sound, Rests
<1>6. CASE UNCHANGED swarmVars \/ (\E f \in Files : Age(f)) \/ (\E what \in {"list", "index"} : Publish(what))
  BY <1>1, <1>6 DEF swarmVars, Age, Publish
<1> QED
  BY <1>0, <1>2, <1>3, <1>4, <1>5, <1>6 DEF SwarmNext

(* It holds at first. *)
LEMMA HintsInit ==
  ASSUME Init
  PROVE  HintsInvariant
<1>1. sources = [t \in Resolvers |-> Brought[t]] /\ res \in [Resolvers -> {Resting}]
  BY DEF Init, SwarmInit
<1>2. \A t \in Resolvers : InitialHints(t) \subseteq OwnHints(t)
  BY <1>1 DEF InitialHints, OwnHints
<1>3. \A t \in Resolvers : Rests(res[t])
  BY <1>1, RestingRests
<1> QED
  BY <1>2, <1>3, WithinOwn, WithinSubset, WithinEmpty DEF HintsInvariant, Sound, Rests

(* However often a task is started, the providers add no hints beyond the   *)
(* limits to those the task has of its own.                                 *)
THEOREM HintsAreBoundedCorrect == Spec => []HintsAreBounded
<1>1. Init => SwarmTypes /\ HintsInvariant
  BY SwarmTypesInit, HintsInit
<1>2. SwarmTypes /\ HintsInvariant /\ [Next]_vars => (SwarmTypes /\ HintsInvariant)'
  BY SwarmTypesStep, HintsStep
<1>3. HintsInvariant => HintsAreBounded
  BY DEF HintsInvariant, Sound, Within, Allowed, HintsAreBounded
<1> QED
  BY <1>1, <1>2, <1>3, PTL DEF Spec

-----------------------------------------------------------------------------
(* KnownListIsUsed *)

(* Whether the list is still to be asked, after a step. *)
LEMMA WentPending ==
  ASSUME NEW r, NEW q, ResTypes(r), ResTypes(q)
  PROVE  /\ q.todo = r.todo => (Pending(q) <=> Pending(r))
         /\ Took(r, q) /\ Head(r.todo) # "list" => (Pending(q) <=> Pending(r)) /\ q.list = r.list
         /\ Took(r, q) /\ Head(r.todo) = "list" => ~Pending(q)
         /\ r.todo # <<>> /\ Head(r.todo) = "list" => Pending(r)
<1>0. r.todo \in Seq(Kinds) /\ OneList(r.todo)
  BY DEF ResTypes
<1>1. r.todo # <<>> => 1 \in DOMAIN r.todo /\ Head(r.todo) = r.todo[1]
  BY <1>0
<1>2. Took(r, q) => q.todo = Tail(r.todo) /\ r.todo # <<>>
  BY DEF Took
<1>3. q.todo = r.todo => (Pending(q) <=> Pending(r))
  BY DEF Pending
<1>4. Took(r, q) /\ Head(r.todo) # "list" => (Pending(q) <=> Pending(r))
  BY <1>0, <1>2, TailFacts DEF Pending
<1>5. Took(r, q) /\ Head(r.todo) = "list" => ~Pending(q)
  BY <1>0, <1>2, TailFacts DEF Pending
<1>6. r.todo # <<>> /\ Head(r.todo) = "list" => Pending(r)
  BY <1>1 DEF Pending
<1> QED
  BY <1>3, <1>4, <1>5, <1>6 DEF Took

(* A step of t that leaves the list as it is. *)
LEMMA KnownSame ==
  ASSUME KnownInvariant, NEW t \in Resolvers, \A u \in Resolvers : u # t => res'[u] = res[u],
         UNCHANGED <<served, good>>, cache'["list"] = cache["list"] \/ good = 0,
         good # 0 => ~Writes(res'[t]), KnownOf(res'[t], good),
         res'[t].pc \in {"open", "write"} /\ res'[t].file = "list" => res'[t].doc <= served.list
  PROVE  KnownInvariant'
BY DEF KnownInvariant, KnownOf, Writes, Pending

(* Every step keeps the invariant. *)
LEMMA KnownStep ==
  ASSUME SwarmTypes, KnownInvariant, [Next]_vars
  PROVE  KnownInvariant'
<1>0. SwarmNext \/ UNCHANGED swarmVars
  BY SwarmAlone
<1>t. /\ good \in Nat /\ served.list \in Nat /\ served.list # 0 /\ "list" \in Files
      /\ good <= served.list
      /\ \A t \in Resolvers : ResTypes(res[t]) /\ KnownOf(res[t], good)
  BY DocTypes DEF SwarmTypes, Files, KnownInvariant
<1>1. CASE UNCHANGED <<res, good, served>> /\ cache'["list"].state = cache["list"].state
           /\ cache'["list"].ver = cache["list"].ver
  BY <1>1 DEF KnownInvariant, KnownOf, Writes, Pending
<1>2. ASSUME NEW t \in Resolvers, BeginResolve(t)
      PROVE  KnownInvariant'
  <2>1. /\ (\A u \in Resolvers : u # t => res'[u] = res[u])
        /\ UNCHANGED <<cache, served, sources, good>> /\ res'[t].pc = "ask"
        /\ res'[t].known \in {0, good} /\ (res'[t].known # 0 => Pending(res'[t]))
    BY <1>2, BeginGoes
  <2>2. KnownOf(res'[t], good)
    BY <2>1 DEF KnownOf, Writes
  <2> QED
    BY <2>1, <2>2, KnownSame DEF Writes
<1>3. ASSUME NEW t \in Resolvers, EndResolve(t)
      PROVE  KnownInvariant'
  <2>1. /\ (\A u \in Resolvers : u # t => res'[u] = res[u]) /\ UNCHANGED <<cache, served, good>>
        /\ Rests(res'[t])
    BY <1>3, EndGoes
  <2> QED
    BY <2>1, KnownSame DEF KnownOf, Writes, Rests
<1>4. ASSUME NEW t \in Resolvers,
             AskMagnet(t) \/ AskStatic(t) \/ AskDiscovery(t) \/ AskList(t) \/ AskIndex(t)
      PROVE  KnownInvariant'
  <2>1. /\ (\A u \in Resolvers : u # t => res'[u] = res[u]) /\ Went(res[t], res'[t])
        /\ UNCHANGED <<cache, served, good>> /\ res[t].pc = "ask"
        /\ res'[t].pc = "ask" => Head(res[t].todo) # "list"
        /\ res'[t].pc \in {"ask", "read", "fetch"}
    BY <1>4, AskGoes DEF Alike
  <2>2. /\ ResTypes(res'[t]) /\ res'[t].known = res[t].known /\ (Pending(res'[t]) <=> Pending(res[t]))
        /\ res'[t].list = res[t].list
    BY <1>t, <2>1, WentPending DEF Went, Moved, Took
  <2>3. KnownOf(res'[t], good)
    BY <1>t, <2>1, <2>2 DEF KnownOf, Writes
  <2> QED
    BY <2>1, <2>3, KnownSame DEF Writes
<1>5. ASSUME NEW t \in Resolvers, ReadFresh(t) \/ FetchFails(t)
      PROVE  KnownInvariant'
  <2>1. /\ (\A u \in Resolvers : u # t => res'[u] = res[u]) /\ ResTypes(res'[t])
        /\ Took(res[t], res'[t]) /\ res'[t].known = res[t].known
        /\ UNCHANGED <<cache, served, good>> /\ res[t].pc \in {"read", "fetch"} /\ res'[t].pc = "ask"
        /\ res[t].file = "list" /\ cache["list"].state = "whole" => res'[t].list = cache["list"].ver
    BY <1>5, ReadGoes DEF Alike, Went
  <2>2. res[t].todo # <<>> /\ (Head(res[t].todo) = "list" <=> res[t].file = "list")
    BY <1>t, <2>1 DEF ResTypes
  <2>3. CASE res[t].file # "list"
    <3>1. (Pending(res'[t]) <=> Pending(res[t])) /\ res'[t].list = res[t].list
      BY <1>t, <2>1, <2>2, <2>3, WentPending
    <3>2. KnownOf(res'[t], good)
      BY <1>t, <2>1, <3>1 DEF KnownOf, Writes
    <3> QED
      BY <2>1, <3>2, KnownSame DEF Writes
  <2>4. CASE res[t].file = "list"
    <3>1. Pending(res[t]) /\ ~Pending(res'[t])
      BY <1>t, <2>1, <2>2, <2>4, WentPending
    <3>2. res[t].known # 0 => good = res[t].known /\ good # 0
      BY <1>t, <2>1, <3>1 DEF KnownOf, Writes
    <3>3. res[t].known # 0 => res'[t].list = good
      BY <2>1, <2>4, <3>2 DEF KnownInvariant
    <3>4. KnownOf(res'[t], good)
      BY <1>t, <2>1, <3>1, <3>2, <3>3 DEF KnownOf
    <3> QED
      BY <2>1, <3>4, KnownSame DEF Writes
  <2> QED
    BY <2>3, <2>4
<1>6. ASSUME NEW t \in Resolvers, FetchList(t) \/ FetchIndex(t)
      PROVE  KnownInvariant'
  <2>1. /\ (\A u \in Resolvers : u # t => res'[u] = res[u]) /\ Went(res[t], res'[t])
        /\ UNCHANGED <<cache, served, good>> /\ res[t].pc = "fetch" /\ res'[t].pc = "open"
        /\ res'[t].todo = res[t].todo
        /\ res[t].file = "list" <=> res'[t].file = "list"
        /\ res[t].file = "list" => res'[t].doc = served.list
    BY <1>6, FetchGoes DEF Alike
  <2>2. /\ ResTypes(res'[t]) /\ res'[t].known = res[t].known /\ (Pending(res'[t]) <=> Pending(res[t]))
        /\ res'[t].list = res[t].list
    BY <1>t, <2>1, WentPending DEF Went, Moved, Took
  <2>3. KnownOf(res'[t], good)
    BY <1>t, <2>1, <2>2 DEF KnownOf, Writes
  <2>4. res'[t].file = "list" => res'[t].doc <= served.list
    BY <1>t, <2>1
  <2> QED
    BY <2>1, <2>3, <2>4, KnownSame DEF Writes
<1>7. ASSUME NEW t \in Resolvers, OpenCache(t)
      PROVE  KnownInvariant'
  <2>1. /\ UNCHANGED <<sources, starts, served>> /\ Went(res[t], res'[t])
        /\ res[t].pc = "open" /\ res'[t].pc = "write"
        /\ res'[t].file = res[t].file /\ res'[t].doc = res[t].doc /\ res'[t].todo = res[t].todo
        /\ \A u \in Resolvers : u # t =>
             res'[u] = IF res[t].file = "list" THEN [res[u] EXCEPT !.known = 0] ELSE res[u]
        /\ good' = IF res[t].file = "list" THEN 0 ELSE good
    BY <1>7, OpenGoes
  <2>2. /\ ResTypes(res'[t]) /\ res'[t].known = res[t].known /\ (Pending(res'[t]) <=> Pending(res[t]))
        /\ res'[t].list = res[t].list
    BY <1>t, <2>1, WentPending DEF Went, Moved, Took
  <2>3. CASE res[t].file = "list"
    <3>1. \A u \in Resolvers : u # t => /\ res'[u].known = 0 /\ res'[u].pc = res[u].pc
                                        /\ res'[u].file = res[u].file /\ res'[u].doc = res[u].doc
      <4> SUFFICES ASSUME NEW u \in Resolvers, u # t
                   PROVE  /\ res'[u].known = 0 /\ res'[u].pc = res[u].pc
                          /\ res'[u].file = res[u].file /\ res'[u].doc = res[u].doc
        OBVIOUS
      <4>1. res'[u] = [res[u] EXCEPT !.known = 0] /\ Shape(res[u])
        BY <1>t, <2>1, <2>3 DEF ResTypes
      <4> QED
        BY <4>1 DEF Shape, Fields
    <3>2. KnownOf(res'[t], 0)
      BY <1>t, <2>1, <2>2, <2>3 DEF KnownOf, Writes
    <3>3. \A u \in Resolvers : KnownOf(res'[u], 0)
      BY <3>1, <3>2 DEF KnownOf
    <3>4. \A u \in Resolvers : res'[u].pc \in {"open", "write"} /\ res'[u].file = "list"
                                 => res'[u].doc <= served.list
      BY <2>1, <3>1 DEF KnownInvariant
    <3> QED
      BY <1>t, <2>1, <2>3, <3>3, <3>4 DEF KnownInvariant, KnownOf, Writes, Pending
  <2>4. CASE res[t].file # "list"
    <3>1. cache'["list"] = cache["list"]
      BY <1>t, <1>7, <2>4, CacheGoes
    <3>2. KnownOf(res'[t], good)
      BY <1>t, <2>1, <2>2, <2>4 DEF KnownOf, Writes
    <3> QED
      BY <2>1, <2>4, <3>1, <3>2, KnownSame DEF Writes
  <2> QED
    BY <2>3, <2>4
<1>8. ASSUME NEW t \in Resolvers, WriteCache(t) \/ WriteFails(t)
      PROVE  KnownInvariant'
  <2>1. /\ (\A u \in Resolvers : u # t => res'[u] = res[u]) /\ ResTypes(res'[t])
        /\ Took(res[t], res'[t]) /\ res'[t].known = res[t].known
        /\ UNCHANGED served /\ res[t].pc \in {"open", "write"} /\ res'[t].pc = "ask"
        /\ res[t].file = "list" => res'[t].list = res[t].doc
    BY <1>8, WriteGoes DEF Alike, Went
  <2>2. res[t].todo # <<>> /\ (Head(res[t].todo) = "list" <=> res[t].file = "list")
    BY <1>t, <2>1 DEF ResTypes
  <2>3. CASE res[t].file # "list"
    <3>1. (Pending(res'[t]) <=> Pending(res[t])) /\ res'[t].list = res[t].list
      BY <1>t, <2>1, <2>2, <2>3, WentPending
    <3>2. KnownOf(res'[t], good)
      BY <1>t, <2>1, <2>3, <3>1 DEF KnownOf, Writes
    <3>3. cache'["list"] = cache["list"] /\ good' = good
      BY <1>t, <1>8, <2>3, CacheGoes DEF WriteCache, WriteFails
    <3> QED
      BY <2>1, <3>2, <3>3, KnownSame DEF Writes
  <2>4. CASE res[t].file = "list"
    <3>1. Pending(res[t]) /\ ~Pending(res'[t]) /\ ~Writes(res'[t])
      BY <1>t, <2>1, <2>2, <2>4, WentPending DEF Writes
    <3>2. \A g : KnownOf(res'[t], g)
      BY <1>t, <2>1, <2>4, <3>1 DEF KnownOf
    <3>3. CASE good' = good /\ (cache'["list"] = cache["list"] \/ good = 0)
      BY <2>1, <3>1, <3>2, <3>3, KnownSame
    <3>4. CASE WriteFails(t)
      <4>1. good' = good /\ (res[t].pc = "open" => cache' = cache)
        BY <3>4, CacheGoes DEF WriteFails
      <4>2. res[t].pc = "write" => good = 0
        BY <2>4 DEF KnownInvariant, Writes
      <4> QED
        BY <2>1, <3>3, <4>1, <4>2
    <3>5. CASE WriteCache(t)
      <4>1. res[t].pc = "write" /\ good = 0
        BY <2>4, <3>5 DEF WriteCache, KnownInvariant, Writes
      <4>2. CASE Alone(t) /\ cache["list"].state = "empty"
        <5>1. good' = res[t].doc
          BY <2>4, <3>5, <4>2 DEF WriteCache
        <5>2. cache'["list"].state = "whole" /\ cache'["list"].ver = res[t].doc
          <6>1. cache' = [cache EXCEPT !["list"] = [state |-> "whole", ver |-> res[t].doc, fresh |-> TRUE]]
            BY <2>4, <3>5, <4>2 DEF WriteCache
          <6>2. cache'["list"] = [state |-> "whole", ver |-> res[t].doc, fresh |-> TRUE]
            BY <1>t, <6>1 DEF SwarmTypes
          <6> QED
            BY <6>2
        <5>3. \A u \in Resolvers : u # t => ~Writes(res[u])
          BY <2>4, <4>2 DEF Alone, Writes
        <5>4. \A u \in Resolvers : u # t => KnownOf(res[u], res[t].doc)
          BY <1>t, <4>1, <5>3 DEF KnownOf
        <5>5. res[t].doc <= served.list
          BY <2>1, <2>4 DEF KnownInvariant
        <5>6. \A u \in Resolvers : KnownOf(res'[u], good') /\ ~Writes(res'[u])
          BY <2>1, <3>1, <3>2, <5>1, <5>3, <5>4
        <5>7. \A u \in Resolvers : res'[u].pc \in {"open", "write"} /\ res'[u].file = "list"
                                     => res'[u].doc <= served.list
          BY <2>1 DEF KnownInvariant
        <5> QED
          BY <2>1, <5>1, <5>2, <5>5, <5>6, <5>7 DEF KnownInvariant, KnownOf, Writes, Pending
      <4>3. CASE ~(Alone(t) /\ cache["list"].state = "empty")
        <5>1. good' = good
          BY <2>4, <3>5, <4>3 DEF WriteCache
        <5> QED
          BY <3>3, <4>1, <5>1
      <4> QED
        BY <4>2, <4>3
    <3> QED
      BY <1>8, <3>4, <3>5
  <2> QED
    BY <2>3, <2>4
<1>9. CASE SwarmCrash
  <2>1. /\ \A t \in Resolvers : Rests(res'[t])
        /\ UNCHANGED <<served, sources, good>>
        /\ cache["list"].state # "empty" => cache'["list"] = cache["list"]
    BY <1>9, <1>t, CrashGoes
  <2> QED
    BY <2>1 DEF KnownInvariant, KnownOf, Writes, Pending, Rests
<1>10. ASSUME NEW what \in {"list", "index"}, Publish(what)
       PROVE  KnownInvariant'
  <2>1. served.list <= served'.list /\ served'.list \in Nat /\ UNCHANGED <<cache, sources, res, good>>
    BY <1>10, ServedGoes, DocTypes
  <2>2. \A t \in Resolvers : res[t].doc \in Nat
    BY <1>t DEF ResTypes
  <2>3. /\ good <= served'.list
        /\ \A t \in Resolvers : res[t].pc \in {"open", "write"} /\ res[t].file = "list"
                                  => res[t].doc <= served'.list
    BY <1>t, <2>1, <2>2 DEF KnownInvariant
  <2> QED
    BY <2>1, <2>3 DEF KnownInvariant, KnownOf, Writes, Pending
<1>11. ASSUME NEW f \in Files, Age(f)
       PROVE  KnownInvariant'
  BY <1>1, <1>11, <1>t, AgeGoes
<1>12. CASE UNCHANGED swarmVars
  BY <1>1, <1>12 DEF swarmVars
<1> QED
  BY <1>0, <1>2, <1>3, <1>4, <1>5, <1>6, <1>7, <1>8, <1>9, <1>10, <1>11, <1>12 DEF SwarmNext, Resolving

(* It holds at first. *)
LEMMA KnownInit ==
  ASSUME Init
  PROVE  KnownInvariant
<1>1. PICK S \in SUBSET Files :
        /\ cache = [f \in Files |-> IF f \in S THEN [Absent EXCEPT !.state = "whole", !.ver = 1]
                                              ELSE Absent]
        /\ good = IF "list" \in S THEN 1 ELSE 0
  BY DEF Init, SwarmInit
<1>2. served.list = 1 /\ \A t \in Resolvers : Rests(res[t])
  BY RestingRests DEF Init, SwarmInit
<1>3. PICK e : e = [Absent EXCEPT !.state = "whole", !.ver = 1]
  OBVIOUS
<1>4. e.state = "whole" /\ e.ver = 1
  BY <1>3 DEF Absent
<1>5. "list" \in S => cache["list"] = e
  BY <1>1, <1>3
<1> QED
  BY <1>1, <1>2, <1>4, <1>5 DEF KnownInvariant, KnownOf, Writes, Rests

(* A list that was in the cache is used, or a newer one. *)
THEOREM KnownListIsUsedCorrect == Spec => []KnownListIsUsed
<1>1. Init => SwarmTypes /\ KnownInvariant
  BY SwarmTypesInit, KnownInit
<1>2. SwarmTypes /\ KnownInvariant /\ [Next]_vars => (SwarmTypes /\ KnownInvariant)'
  BY SwarmTypesStep, KnownStep
<1>3. SwarmTypes /\ KnownInvariant => KnownListIsUsed
  <2> SUFFICES ASSUME SwarmTypes, KnownInvariant, NEW t \in Resolvers, res[t].todo = <<>>
               PROVE  res[t].list >= res[t].known
    BY DEF KnownListIsUsed
  <2>1. ~Pending(res[t])
    BY DEF Pending
  <2>2. res[t].list \in Nat /\ res[t].known \in Nat
    BY DEF SwarmTypes, ResTypes
  <2> QED
    BY <2>1, <2>2 DEF KnownInvariant, KnownOf
<1> QED
  BY <1>1, <1>2, <1>3, PTL DEF Spec
=============================================================================
