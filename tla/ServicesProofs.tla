--------------------------- MODULE ServicesProofs ---------------------------
(***************************************************************************)
(* Theorems about the rate limiter, the ranking of sources, the probe and  *)
(* the files of a payload, for every number of workers, rates, slices,     *)
(* sources, versions of a resource and lengths of files.                   *)
(***************************************************************************)
EXTENDS Services, FiniteSetTheorems, NaturalsInduction, SequenceTheorems, TLAPS

(* A non-empty set of numbers has a least one. *)
LEMMA LeastNumber ==
  ASSUME NEW S \in SUBSET Nat, S # {}
  PROVE  \E n \in S : \A m \in S : n <= m
<1>1. PICK x \in S : \A y \in S : ~(<<y, x>> \in OpToRel(<, Nat))
  BY NatLessThanWellFounded, WFMin, Zenon
<1>2. \A y \in S : ~(y < x)
  BY <1>1 DEF OpToRel
<1>3. x \in Nat /\ \A y \in S : y \in Nat
  OBVIOUS
<1> QED
  BY <1>2, <1>3

-----------------------------------------------------------------------------
(* Durations and sums of them *)

(* The largest slice there is. *)
LEMMA LargestSize == MaxSize \in Sizes /\ MaxSize \in Nat /\ \A n \in Sizes : n <= MaxSize
BY LimiterAssumption DEF MaxSize

(* Integer division rounds down. *)
LEMMA Division ==
  ASSUME NEW x \in Nat, NEW r \in Nat, r # 0
  PROVE  /\ x \div r \in Nat
         /\ r * (x \div r) <= x /\ x < r * (x \div r) + r
OBVIOUS

(* A product grows with its factor, ... *)
LEMMA Times ==
  ASSUME NEW a \in Nat, NEW b \in Nat, NEW u \in Nat, a <= b
  PROVE  a * u <= b * u /\ a * u \in Nat /\ b * u \in Nat
OBVIOUS

(* ... and a quotient with its dividend. *)
LEMMA Divided ==
  ASSUME NEW x \in Nat, NEW y \in Nat, NEW r \in Nat, r # 0, x <= y
  PROVE  x \div r <= y \div r
<1> DEFINE p == x \div r
           q == y \div r
<1>1. /\ p \in Nat /\ q \in Nat /\ r * p <= x /\ y < r * q + r
  BY Division
<1>2. SUFFICES ASSUME p >= q + 1 PROVE FALSE
  BY <1>1
<1> HIDE DEF p, q
<1>3. r * p >= r * (q + 1)
  BY <1>1, <1>2
<1>4. r * (q + 1) = r * q + r
  BY <1>1
<1>5. r * p \in Nat /\ r * q \in Nat
  BY <1>1
<1> QED
  BY <1>1, <1>3, <1>4, <1>5

(* Duration: no slice takes longer than the largest. *)
LEMMA DurationBound ==
  ASSUME NEW n \in Sizes, NEW r \in Nat \ {0}
  PROVE  /\ Duration(n, r) \in Nat /\ Duration(MaxSize, r) \in Nat
         /\ Duration(n, r) <= Duration(MaxSize, r)
<1>1. n \in Nat /\ n <= MaxSize /\ MaxSize \in Nat
  BY LargestSize, LimiterAssumption
<1>2. n * Unit \in Nat /\ MaxSize * Unit \in Nat /\ n * Unit <= MaxSize * Unit
  BY <1>1, Times, LimiterAssumption
<1> QED
  BY <1>2, Divided, Division DEF Duration

(* The sum of the weights of a set: the pairs of a member and a unit of its weight. *)
Units(w, C, d) == {x \in C \X (1 .. d) : x[2] <= w[x[1]]}
Weight(w, C, d) == Cardinality(Units(w, C, d))

(* The first n numbers are n. *)
LEMMA UpTo ==
  ASSUME NEW n \in Nat
  PROVE  IsFiniteSet(1 .. n) /\ Cardinality(1 .. n) = n
BY FS_Interval

(* A weight is at most d for each member, ... *)
LEMMA WeightBound ==
  ASSUME NEW C, IsFiniteSet(C), NEW d \in Nat, NEW w
  PROVE  /\ IsFiniteSet(Units(w, C, d)) /\ Weight(w, C, d) \in Nat
         /\ Weight(w, C, d) <= Cardinality(C) * d
<1>1. IsFiniteSet(1 .. d) /\ Cardinality(1 .. d) = d
  BY UpTo
<1>2. IsFiniteSet(C \X (1 .. d)) /\ Cardinality(C \X (1 .. d)) = Cardinality(C) * d
  BY <1>1, FS_Product
<1>3. Units(w, C, d) \in SUBSET (C \X (1 .. d))
  BY DEF Units
<1> QED
  BY <1>2, <1>3, FS_Subset, FS_CardinalityType DEF Weight

(* ... that of a part is no larger, ... *)
LEMMA WeightSubset ==
  ASSUME NEW C, IsFiniteSet(C), NEW B \in SUBSET C, NEW d \in Nat, NEW w
  PROVE  Weight(w, B, d) <= Weight(w, C, d)
<1>1. IsFiniteSet(Units(w, C, d))
  BY WeightBound
<1>2. Units(w, B, d) \in SUBSET Units(w, C, d)
  BY DEF Units
<1> QED
  BY <1>1, <1>2, FS_Subset DEF Weight

(* ... only the weights of the members matter, ... *)
LEMMA WeightSame ==
  ASSUME NEW C, NEW d \in Nat, NEW v, NEW w, \A x \in C : v[x] = w[x]
  PROVE  Weight(v, C, d) = Weight(w, C, d)
<1>1. Units(v, C, d) = Units(w, C, d)
  BY DEF Units
<1> QED
  BY <1>1 DEF Weight

(* ... and one more member adds its own. *)
LEMMA WeightAdd ==
  ASSUME NEW C, IsFiniteSet(C), NEW d \in Nat, NEW w, NEW f, f \notin C, w[f] \in 0 .. d
  PROVE  Weight(w, C \cup {f}, d) = Weight(w, C, d) + w[f]
<1> DEFINE F == {f} \X (1 .. w[f])
<1>0. PICK n \in Nat : n = w[f] /\ n <= d
  OBVIOUS
<1>1. IsFiniteSet(1 .. n) /\ Cardinality(1 .. n) = n
  BY UpTo
<1>2. IsFiniteSet(F) /\ Cardinality(F) = w[f]
  <2>1. IsFiniteSet({f}) /\ Cardinality({f}) = 1
    BY FS_Singleton
  <2>2. F = {f} \X (1 .. n)
    BY <1>0
  <2>3. IsFiniteSet({f} \X (1 .. n)) /\ Cardinality({f} \X (1 .. n)) = 1 * n
    <3>1. /\ IsFiniteSet({f} \X (1 .. n))
          /\ Cardinality({f} \X (1 .. n)) = Cardinality({f}) * Cardinality(1 .. n)
      BY <1>1, <2>1, FS_Product, Zenon
    <3> QED
      BY <1>1, <2>1, <3>1, Zenon
  <2> QED
    BY <1>0, <2>2, <2>3
<1>3. Units(w, C \cup {f}, d) = Units(w, C, d) \cup F
  BY DEF Units
<1>4. Units(w, C, d) \cap F = {}
  BY DEF Units
<1>5. IsFiniteSet(Units(w, C, d)) /\ Weight(w, C, d) \in Nat
  BY WeightBound
<1>6. Cardinality(Units(w, C, d) \cup F)
        = Cardinality(Units(w, C, d)) + Cardinality(F) - Cardinality(Units(w, C, d) \cap F)
  BY <1>2, <1>5, FS_Union
<1>7. Cardinality(Units(w, C, d) \cap F) = 0
  BY <1>4, FS_EmptySet
<1>8. Cardinality(Units(w, C, d)) \in Nat
  BY <1>5 DEF Weight
<1> HIDE DEF F
<1>9. Cardinality(Units(w, C \cup {f}, d)) = Cardinality(Units(w, C, d)) + n
  <2>1. Cardinality(F) = n
    BY <1>0, <1>2
  <2>2. Cardinality(Units(w, C, d) \cup F) = Cardinality(Units(w, C, d)) + n - 0
    BY <1>6, <1>7, <2>1
  <2>3. Cardinality(Units(w, C, d) \cup F) = Cardinality(Units(w, C, d)) + n
    BY <2>2, <1>8
  <2> QED
    BY <1>3, <2>3
<1> QED
  BY <1>0, <1>9 DEF Weight

-----------------------------------------------------------------------------
(* The rate limiter *)

(* The steps of a call of acquire. *)
Steps ==
  [pc : {"idle", "load", "reserve", "sleep"}, size : Sizes \cup {0}, heard : Nat,
   rate : Rates \cup {0}, until : Nat]

(* Types of the limiter; a slot is reserved at a rate that is not zero. *)
LimiterTypes ==
  /\ rate \in Rates /\ nextAt \in Nat /\ level \in Nat /\ told \in 0 .. MaxChanges
  /\ setting \in {"no", "reset", "tell"} /\ leaked \in BOOLEAN
  /\ setting # "no" => told < MaxChanges
  /\ acq \in [Fetchers -> Steps]
  /\ \A f \in Fetchers :
       /\ acq[f].heard <= told
       /\ acq[f].pc # "idle" => acq[f].size \in Sizes
       /\ acq[f].pc \in {"reserve", "sleep"} => acq[f].rate # 0
       /\ acq[f].pc # "sleep" => acq[f].until = 0

(* What is a number is one. *)
LEMMA NumberTypes ==
  ASSUME LimiterTypes
  PROVE  /\ rate \in Nat /\ told \in Nat
         /\ \A f \in Fetchers : /\ acq[f] \in Steps /\ acq[f].heard \in Nat /\ acq[f].until \in Nat
                                /\ acq[f].rate \in Nat
<1>1. \A x \in Steps : x.heard \in Nat /\ x.until \in Nat /\ x.rate \in Nat
  <2>1. \A x \in Steps : x.heard \in Nat /\ x.until \in Nat /\ x.rate \in Rates \cup {0}
    BY DEF Steps
  <2>2. \A r \in Rates \cup {0} : r \in Nat
    BY LimiterAssumption
  <2> QED
    BY <2>1, <2>2
<1> QED
  BY <1>1, LimiterAssumption DEF LimiterTypes

(* A fetcher that is not in acquire. *)
LEMMA IdleFacts == Idle \in Steps /\ Idle.pc = "idle" /\ Idle.heard = 0 /\ Idle.until = 0
BY DEF Idle, Steps

(* What the steps of acquire do to the record of their fetcher. *)
LEMMA FetcherFacts ==
  ASSUME LimiterTypes, NEW f \in Fetchers
  PROVE  /\ Acquire(f) => \E n \in Sizes :
              LET r == [Idle EXCEPT !.pc = "load", !.size = n, !.heard = told] IN
              /\ acq' = [acq EXCEPT ![f] = r] /\ r \in Steps /\ r.pc = "load" /\ r.size = n
              /\ r.heard = told /\ r.until = 0
         /\ LoadRate(f) /\ rate # 0 =>
              LET r == [acq[f] EXCEPT !.pc = "reserve", !.rate = rate] IN
              /\ acq' = [acq EXCEPT ![f] = r] /\ r \in Steps /\ r.pc = "reserve" /\ r.size = acq[f].size
              /\ r.heard = acq[f].heard /\ r.until = acq[f].until /\ r.rate = rate
         /\ Reserve(f) =>
              LET r == [acq[f] EXCEPT !.pc = "sleep", !.until = nextAt] IN
              /\ acq' = [acq EXCEPT ![f] = r] /\ r \in Steps /\ r.pc = "sleep" /\ r.size = acq[f].size
              /\ r.heard = acq[f].heard /\ r.until = nextAt /\ r.rate = acq[f].rate
         /\ Woken(f) =>
              LET r == [acq[f] EXCEPT !.pc = "load", !.heard = told, !.until = 0] IN
              /\ acq' = [acq EXCEPT ![f] = r] /\ r \in Steps /\ r.pc = "load" /\ r.size = acq[f].size
              /\ r.heard = told /\ r.until = 0
<1>0. acq[f] \in Steps /\ told \in Nat /\ rate \in Rates /\ nextAt \in Nat
  BY NumberTypes DEF LimiterTypes
<1>2. ASSUME Acquire(f)
      PROVE  \E n \in Sizes :
              LET r == [Idle EXCEPT !.pc = "load", !.size = n, !.heard = told] IN
              /\ acq' = [acq EXCEPT ![f] = r] /\ r \in Steps /\ r.pc = "load" /\ r.size = n
              /\ r.heard = told /\ r.until = 0
  BY <1>2, <1>0 DEF Acquire, Become, Steps, Idle
<1>3. ASSUME LoadRate(f), rate # 0
      PROVE  LET r == [acq[f] EXCEPT !.pc = "reserve", !.rate = rate] IN
              /\ acq' = [acq EXCEPT ![f] = r] /\ r \in Steps /\ r.pc = "reserve" /\ r.size = acq[f].size
              /\ r.heard = acq[f].heard /\ r.until = acq[f].until /\ r.rate = rate
  BY <1>3, <1>0 DEF LoadRate, Become, Steps
<1>4. ASSUME Reserve(f)
      PROVE  LET r == [acq[f] EXCEPT !.pc = "sleep", !.until = nextAt] IN
              /\ acq' = [acq EXCEPT ![f] = r] /\ r \in Steps /\ r.pc = "sleep" /\ r.size = acq[f].size
              /\ r.heard = acq[f].heard /\ r.until = nextAt /\ r.rate = acq[f].rate
  BY <1>4, <1>0 DEF Reserve, Become, Steps
<1>5. ASSUME Woken(f)
      PROVE  LET r == [acq[f] EXCEPT !.pc = "load", !.heard = told, !.until = 0] IN
              /\ acq' = [acq EXCEPT ![f] = r] /\ r \in Steps /\ r.pc = "load" /\ r.size = acq[f].size
              /\ r.heard = told /\ r.until = 0
  BY <1>5, <1>0 DEF Woken, Become, Steps
<1> QED
  BY <1>2, <1>3, <1>4, <1>5

(* A new record of one fetcher leaves those of the others. *)
LEMMA Becomes ==
  ASSUME acq \in [Fetchers -> Steps], NEW f \in Fetchers, NEW r \in Steps, acq' = [acq EXCEPT ![f] = r]
  PROVE  /\ acq' \in [Fetchers -> Steps]
         /\ \A g \in Fetchers : acq'[g] = IF g = f THEN r ELSE acq[g]
OBVIOUS

(* Time passes for all that sleep. *)
LEMMA TickFacts ==
  ASSUME LimiterTypes, Tick
  PROVE  /\ acq' \in [Fetchers -> Steps]
         /\ \A f \in Fetchers : /\ acq'[f].pc = acq[f].pc /\ acq'[f].size = acq[f].size
                                /\ acq'[f].heard = acq[f].heard /\ acq'[f].rate = acq[f].rate
                                /\ acq'[f].until = Later(acq[f].until)
<1>1. \A n \in Nat : Later(n) \in Nat
  BY DEF Later
<1>2. \A f \in Fetchers : acq[f] \in Steps /\ acq'[f] = [acq[f] EXCEPT !.until = Later(@)]
  BY NumberTypes DEF Tick
<1>3. ASSUME NEW f \in Fetchers
      PROVE  /\ acq'[f] \in Steps
             /\ acq'[f].pc = acq[f].pc /\ acq'[f].size = acq[f].size
             /\ acq'[f].heard = acq[f].heard /\ acq'[f].rate = acq[f].rate
             /\ acq'[f].until = Later(acq[f].until)
  <2>1. PICK x \in Steps : x = acq[f]
    BY <1>2
  <2>2. Later(x.until) \in Nat
    BY <1>1 DEF Steps
  <2>3. PICK n \in Nat : n = Later(x.until)
    BY <2>2
  <2>4. acq'[f] = [x EXCEPT !.until = n]
    BY <1>2, <2>1, <2>3
  <2> QED
    BY <2>1, <2>3, <2>4 DEF Steps
<1> QED
  BY <1>3 DEF Tick

(* The initial states are well typed. *)
LEMMA LimiterTypesInit == Init => LimiterTypes
<1> SUFFICES ASSUME Init PROVE LimiterTypes
  OBVIOUS
<1>1. Idle \in Steps /\ Idle.pc = "idle" /\ Idle.heard = 0 /\ Idle.until = 0
  BY IdleFacts
<1>2. \A f \in Fetchers : acq[f] = Idle
  BY DEF Init, LimiterInit
<1>3. acq \in [Fetchers -> Steps]
  BY <1>1 DEF Init, LimiterInit
<1>4. /\ rate \in Rates /\ nextAt \in Nat /\ level \in Nat /\ told = 0 /\ setting = "no"
  BY DEF Init, LimiterInit
<1>5. told \in 0 .. MaxChanges
  BY <1>4, LimiterAssumption
<1>6. leaked \in BOOLEAN
  BY DEF Init, LimiterInit
<1> QED
  BY <1>1, <1>2, <1>3, <1>4, <1>5, <1>6 DEF LimiterTypes

(* A step of the system is one of the limiter, or leaves it alone. *)
LEMMA LimiterAlone == [Next]_vars => LimiterNext \/ UNCHANGED limiterVars
BY DEF Next, vars, Limiting, Waiting

(* Every step keeps the types. *)
LEMMA LimiterTypesStep == LimiterTypes /\ [Next]_vars => LimiterTypes'
<1> SUFFICES ASSUME LimiterTypes, LimiterNext \/ UNCHANGED limiterVars PROVE LimiterTypes'
  BY LimiterAlone
<1>0. /\ rate \in Nat /\ told \in Nat /\ MaxChanges \in Nat
      /\ \A f \in Fetchers : acq[f].heard \in Nat /\ acq[f].until \in Nat
  BY NumberTypes, LimiterAssumption
<1>1. CASE UNCHANGED limiterVars
  BY <1>1 DEF limiterVars, LimiterTypes
<1>2. CASE Tick
  <2>1. Later(nextAt) \in Nat /\ Later(level) \in Nat /\ Later(0) = 0
    BY DEF Later, LimiterTypes
  <2> QED
    BY <1>2, <2>1, TickFacts DEF Tick, LimiterTypes
<1>3. CASE StoreRate \/ SetLimit
  <2>1. /\ told' \in 0 .. MaxChanges /\ told <= told' /\ (setting' # "no" => told' < MaxChanges)
        /\ acq' = acq
    BY <1>3, <1>0 DEF StoreRate, SetLimit, ResetSlots, TellWaiters, LimiterTypes
  <2>2. \A f \in Fetchers : acq[f].heard <= told'
    BY <1>0, <2>1 DEF LimiterTypes
  <2>3. rate' \in Rates /\ nextAt' \in Nat /\ level' \in Nat /\ setting' \in {"no", "reset", "tell"}
    BY <1>3 DEF StoreRate, SetLimit, ResetSlots, TellWaiters, LimiterTypes
  <2>4. leaked' \in BOOLEAN
    BY <1>3 DEF StoreRate, SetLimit, ResetSlots, TellWaiters, LimiterTypes
  <2> QED
    BY <2>1, <2>2, <2>3, <2>4 DEF LimiterTypes
<1>4. ASSUME NEW f \in Fetchers, Acquire(f) \/ Fetching(f)
      PROVE  LimiterTypes'
  <2>1. ASSUME NEW r \in Steps, acq' = [acq EXCEPT ![f] = r],
               r.heard <= told, r.pc # "idle" => r.size \in Sizes,
               r.pc \in {"reserve", "sleep"} => r.rate # 0, r.pc # "sleep" => r.until = 0,
               UNCHANGED <<rate, told, setting>>, nextAt' \in Nat, level' \in Nat, leaked' \in BOOLEAN
        PROVE  LimiterTypes'
    <3>1. acq' \in [Fetchers -> Steps] /\ \A g \in Fetchers : acq'[g] = IF g = f THEN r ELSE acq[g]
      BY <2>1, Becomes DEF LimiterTypes
    <3> QED
      BY <2>1, <3>1 DEF LimiterTypes
  <2>2. CASE Acquire(f)
    <3>1. UNCHANGED <<rate, nextAt, told, setting, level, leaked>>
      BY <2>2 DEF Acquire
    <3>2. PICK n \in Sizes :
            LET r == [Idle EXCEPT !.pc = "load", !.size = n, !.heard = told] IN
            /\ acq' = [acq EXCEPT ![f] = r] /\ r \in Steps /\ r.pc = "load" /\ r.size = n
            /\ r.heard = told /\ r.until = 0
      BY <2>2, FetcherFacts
    <3>3. PICK r \in Steps : /\ acq' = [acq EXCEPT ![f] = r] /\ r.pc = "load" /\ r.size = n
                             /\ r.heard = told /\ r.until = 0
      BY <3>2
    <3> QED
      BY <2>1, <3>1, <3>3, <1>0 DEF LimiterTypes
  <2>3. CASE LoadRate(f) /\ rate # 0
    <3>1. UNCHANGED <<rate, nextAt, told, setting, level, leaked>> /\ acq[f].pc = "load"
      BY <2>3 DEF LoadRate
    <3>2. PICK r \in Steps : /\ acq' = [acq EXCEPT ![f] = r] /\ r.pc = "reserve" /\ r.size = acq[f].size
                             /\ r.heard = acq[f].heard /\ r.until = acq[f].until /\ r.rate = rate
      BY <2>3, FetcherFacts
    <3> QED
      BY <2>1, <2>3, <3>1, <3>2 DEF LimiterTypes
  <2>4. CASE LoadRate(f) /\ rate = 0
    <3>1. UNCHANGED <<rate, nextAt, told, setting, level, leaked>> /\ acq' = [acq EXCEPT ![f] = Idle]
      BY <2>4 DEF LoadRate, Become
    <3>2. Idle \in Steps /\ Idle.pc = "idle" /\ Idle.heard <= told /\ Idle.until = 0
      BY IdleFacts, <1>0
    <3> QED
      BY <2>1, <3>1, <3>2 DEF LimiterTypes
  <2>5. CASE Reserve(f)
    <3>1. UNCHANGED <<rate, told, setting, level>> /\ acq[f].pc = "reserve"
      BY <2>5 DEF Reserve
    <3>2. PICK r \in Steps : /\ acq' = [acq EXCEPT ![f] = r] /\ r.pc = "sleep" /\ r.size = acq[f].size
                             /\ r.heard = acq[f].heard /\ r.until = nextAt /\ r.rate = acq[f].rate
      BY <2>5, FetcherFacts
    <3>3. leaked' \in BOOLEAN
      BY <2>5 DEF Reserve
    <3>4. nextAt' \in Nat
      <4>1. acq[f].rate \in Nat \ {0} /\ acq[f].size \in Sizes
        BY <3>1, NumberTypes DEF LimiterTypes
      <4>2. Duration(acq[f].size, acq[f].rate) \in Nat
        BY <4>1, DurationBound
      <4> QED
        BY <2>5, <4>2 DEF Reserve, LimiterTypes
    <3> QED
      BY <2>1, <3>1, <3>2, <3>3, <3>4 DEF LimiterTypes
  <2>6. CASE Slept(f)
    <3>1. UNCHANGED <<rate, nextAt, told, setting, leaked>> /\ acq' = [acq EXCEPT ![f] = Idle]
          /\ acq[f].pc = "sleep"
      BY <2>6 DEF Slept, Become
    <3>2. level' \in Nat
      <4>1. rate # 0 => Duration(acq[f].size, rate) \in Nat
        BY <3>1, <1>0, DurationBound DEF LimiterTypes
      <4> QED
        BY <2>6, <4>1 DEF Slept, LimiterTypes
    <3>3. Idle \in Steps /\ Idle.pc = "idle" /\ Idle.heard <= told /\ Idle.until = 0
      BY IdleFacts, <1>0
    <3> QED
      BY <2>1, <3>1, <3>2, <3>3 DEF LimiterTypes
  <2>7. CASE Woken(f)
    <3>1. UNCHANGED <<rate, nextAt, told, setting, level, leaked>> /\ acq[f].pc = "sleep"
      BY <2>7 DEF Woken
    <3>2. PICK r \in Steps : /\ acq' = [acq EXCEPT ![f] = r] /\ r.pc = "load" /\ r.size = acq[f].size
                             /\ r.heard = told /\ r.until = 0
      BY <2>7, FetcherFacts
    <3> QED
      BY <2>1, <3>1, <3>2, <1>0 DEF LimiterTypes
  <2> QED
    BY <1>4, <2>2, <2>3, <2>4, <2>5, <2>6, <2>7 DEF Fetching
<1> QED
  BY <1>1, <1>2, <1>3, <1>4 DEF LimiterNext

(* The records of all fetchers after a step of one of them. *)
LEMMA Others ==
  ASSUME LimiterTypes, NEW f \in Fetchers, Acquire(f) \/ Fetching(f)
  PROVE  \A g \in Fetchers : g # f => acq'[g] = acq[g]
<1>1. \E r : acq' = [acq EXCEPT ![f] = r]
  BY DEF Acquire, Fetching, LoadRate, Reserve, Slept, Woken, Become
<1> QED
  BY <1>1 DEF LimiterTypes

(* acquire is called: nothing but the step of the caller changes. *)
LEMMA AfterAcquire ==
  ASSUME LimiterTypes, NEW f \in Fetchers, Acquire(f)
  PROVE  acq'[f].pc = "load" /\ UNCHANGED <<rate, nextAt, told, setting, level, leaked>>
<1>1. PICK n \in Sizes :
        acq' = [acq EXCEPT ![f] = [Idle EXCEPT !.pc = "load", !.size = n, !.heard = told]]
  BY DEF Acquire, Become
<1>2. acq'[f] = [Idle EXCEPT !.pc = "load", !.size = n, !.heard = told]
  BY <1>1 DEF LimiterTypes
<1> QED
  BY <1>2 DEF Acquire, Idle

(* The rate is read: without a limit the call returns. *)
LEMMA AfterLoad ==
  ASSUME LimiterTypes, NEW f \in Fetchers, LoadRate(f)
  PROVE  /\ acq[f].pc = "load" /\ UNCHANGED <<rate, nextAt, told, setting, level, leaked>>
         /\ \/ acq'[f].pc = "idle"
            \/ acq'[f].pc = "reserve" /\ acq'[f].rate = rate
<1>1. CASE rate = 0
  <2>1. acq'[f] = Idle
    BY <1>1 DEF LoadRate, Become, LimiterTypes
  <2> QED
    BY <2>1, IdleFacts DEF LoadRate
<1>2. CASE rate # 0
  <2>1. PICK r \in Steps : acq' = [acq EXCEPT ![f] = r] /\ r.pc = "reserve" /\ r.rate = rate
    BY <1>2, FetcherFacts
  <2>2. acq'[f] = r
    BY <2>1 DEF LimiterTypes
  <2> QED
    BY <2>1, <2>2 DEF LoadRate
<1> QED
  BY <1>1, <1>2

(* A slot is reserved behind the last one. *)
LEMMA AfterReserve ==
  ASSUME LimiterTypes, NEW f \in Fetchers, Reserve(f)
  PROVE  /\ acq[f].pc = "reserve" /\ UNCHANGED <<rate, told, setting, level>>
         /\ nextAt' = nextAt + Duration(acq[f].size, acq[f].rate)
         /\ acq'[f].pc = "sleep" /\ acq'[f].size = acq[f].size /\ acq'[f].heard = acq[f].heard
         /\ acq'[f].until = nextAt /\ acq'[f].rate = acq[f].rate
<1>1. PICK r \in Steps : /\ acq' = [acq EXCEPT ![f] = r] /\ r.pc = "sleep" /\ r.size = acq[f].size
                         /\ r.heard = acq[f].heard /\ r.until = nextAt /\ r.rate = acq[f].rate
  BY FetcherFacts
<1>2. acq'[f] = r
  BY <1>1 DEF LimiterTypes
<1> QED
  BY <1>1, <1>2 DEF Reserve

(* A sleep ends: the slice passes, or the change that woke it is looked at. *)
LEMMA AfterSleep ==
  ASSUME LimiterTypes, NEW f \in Fetchers, Slept(f) \/ Woken(f)
  PROVE  /\ acq[f].pc = "sleep" /\ acq'[f].pc \in {"idle", "load"}
         /\ UNCHANGED <<rate, nextAt, told, setting, leaked>>
         /\ Slept(f) => /\ acq[f].until = 0
                        /\ rate # 0 => level' = level + Duration(acq[f].size, rate)
         /\ Woken(f) => acq[f].heard # told /\ level' = level
<1>1. CASE Slept(f)
  <2>1. acq'[f] = Idle
    BY <1>1 DEF Slept, Become, LimiterTypes
  <2> QED
    BY <1>1, <2>1, IdleFacts DEF Slept, Woken
<1>2. CASE Woken(f)
  <2>1. PICK r \in Steps : acq' = [acq EXCEPT ![f] = r] /\ r.pc = "load"
    BY <1>2, FetcherFacts
  <2>2. acq'[f] = r
    BY <2>1 DEF LimiterTypes
  <2> QED
    BY <1>2, <2>1, <2>2 DEF Slept, Woken
<1> QED
  BY <1>1, <1>2

(* The fetchers whose slices are to pass without a slot of their own, and those
   of them that may pass within t ticks *)
Owed == {f \in Fetchers : acq[f].pc = "sleep" \/ (acq[f].pc = "reserve" /\ acq[f].rate # rate)}
Due(t) == {f \in Owed : acq[f].until <= t}
Slot == Duration(MaxSize, rate)
Share == [f \in Fetchers |-> Duration(acq[f].size, rate)]
Everyone == Cardinality(Fetchers) * Slot

(* RateIsKept with what is still owed: the slices whose slots are reserved, all of
   them up to the end of the last slot, and within every t those that are due by then. *)
RateInvariant ==
  rate # 0 /\ setting # "reset" =>
    /\ level + Weight(Share, Owed, Slot) <= Everyone + nextAt
    /\ \A t \in Nat : level + Weight(Share, Due(t), Slot) <= Everyone + t + Slot

(* The share of a fetcher is at most a slot, that of all at most a slot for each. *)
LEMMA ShareTypes ==
  ASSUME LimiterTypes, rate # 0
  PROVE  /\ Slot \in Nat /\ Everyone \in Nat
         /\ \A f \in Owed : Share[f] \in 0 .. Slot
         /\ IsFiniteSet(Owed) /\ \A t : IsFiniteSet(Due(t))
         /\ \A B \in SUBSET Owed : Weight(Share, B, Slot) \in Nat /\ Weight(Share, B, Slot) <= Everyone
<1>0. rate \in Nat \ {0}
  BY NumberTypes
<1>1. Slot \in Nat
  BY <1>0, LargestSize, DurationBound DEF Slot
<1>2. IsFiniteSet(Fetchers) /\ Cardinality(Fetchers) \in Nat
  BY LimiterAssumption, FS_CardinalityType
<1>3. Everyone \in Nat
  BY <1>1, <1>2 DEF Everyone
<1>4. ASSUME NEW f \in Owed PROVE Share[f] \in 0 .. Slot
  <2>1. f \in Fetchers /\ acq[f].size \in Sizes
    BY DEF Owed, LimiterTypes
  <2>2. Duration(acq[f].size, rate) \in Nat /\ Duration(acq[f].size, rate) <= Slot
    BY <2>1, <1>0, DurationBound DEF Slot
  <2>3. Share[f] = Duration(acq[f].size, rate)
    BY <2>1 DEF Share
  <2> QED
    BY <2>2, <2>3, <1>1
<1>5. IsFiniteSet(Owed) /\ \A t : IsFiniteSet(Due(t))
  <2>1. Owed \in SUBSET Fetchers /\ \A t : Due(t) \in SUBSET Fetchers
    BY DEF Owed, Due
  <2> QED
    BY <1>2, <2>1, FS_Subset
<1>6. ASSUME NEW B \in SUBSET Owed
      PROVE  Weight(Share, B, Slot) \in Nat /\ Weight(Share, B, Slot) <= Everyone
  <2>1. B \in SUBSET Fetchers
    BY DEF Owed
  <2>2. IsFiniteSet(B)
    BY <1>2, <2>1, FS_Subset
  <2>3. Weight(Share, B, Slot) <= Weight(Share, Fetchers, Slot)
    BY <1>1, <1>2, <2>1, WeightSubset
  <2>4. Weight(Share, B, Slot) \in Nat /\ Weight(Share, Fetchers, Slot) \in Nat
    BY <1>1, <1>2, <2>2, WeightBound
  <2>5. Weight(Share, Fetchers, Slot) <= Everyone
    BY <1>1, <1>2, WeightBound DEF Everyone
  <2> QED
    BY <2>3, <2>4, <2>5, <1>3
<1> QED
  BY <1>1, <1>3, <1>4, <1>5, <1>6

(* What is left of a wait after a tick. *)
LEMMA LaterFacts == \A n \in Nat : Later(n) \in Nat /\ (n = 0 => Later(n) = 0) /\ (n # 0 => Later(n) = n - 1)
BY DEF Later

(* A step after which nothing more is owed keeps the invariant. *)
LEMMA RateKeeps ==
  ASSUME LimiterTypes, LimiterTypes', RateInvariant, UNCHANGED <<rate, level>>, nextAt <= nextAt',
         setting' # "reset" => setting # "reset",
         Owed' \subseteq Owed, \A f \in Owed' : acq'[f].size = acq[f].size,
         \A t \in Nat : Due(t)' \subseteq Due(t)
  PROVE  RateInvariant'
<1> SUFFICES ASSUME rate' # 0, setting' # "reset" PROVE RateInvariant'
  BY DEF RateInvariant
<1>1. rate # 0 /\ setting # "reset"
  OBVIOUS
<1>2. Slot' = Slot /\ Everyone' = Everyone
  BY DEF Slot, Everyone
<1>3. \A f \in Owed' : Share'[f] = Share[f]
  BY DEF Share, Owed
<1>4. \A B \in SUBSET Owed' : Weight(Share', B, Slot) = Weight(Share, B, Slot)
  BY <1>1, <1>3, ShareTypes, WeightSame
<1>5. Slot \in Nat /\ Everyone \in Nat /\ IsFiniteSet(Owed) /\ \A t : IsFiniteSet(Due(t))
  BY <1>1, ShareTypes
<1>6. \A B \in SUBSET Owed : Weight(Share, B, Slot) \in Nat
  BY <1>1, ShareTypes
<1>n. nextAt \in Nat /\ nextAt' \in Nat /\ level \in Nat
  BY DEF LimiterTypes
<1>7. level' + Weight(Share', Owed', Slot') <= Everyone' + nextAt'
  <2>1. Weight(Share', Owed', Slot') = Weight(Share, Owed', Slot)
    BY <1>2, <1>4
  <2>2. Weight(Share, Owed', Slot) <= Weight(Share, Owed, Slot)
    BY <1>5, WeightSubset
  <2>3. Weight(Share, Owed', Slot) \in Nat /\ Weight(Share, Owed, Slot) \in Nat
    BY <1>6
  <2>4. level + Weight(Share, Owed, Slot) <= Everyone + nextAt
    BY <1>1 DEF RateInvariant
  <2> QED
    BY <1>2, <1>5, <1>n, <2>1, <2>2, <2>3, <2>4
<1>8. ASSUME NEW t \in Nat
      PROVE  level' + Weight(Share', Due(t)', Slot') <= Everyone' + t + Slot'
  <2>0. Due(t)' \subseteq Owed' /\ Due(t) \subseteq Owed
    BY DEF Due
  <2>1. Weight(Share', Due(t)', Slot') = Weight(Share, Due(t)', Slot)
    BY <1>2, <1>4, <2>0
  <2>2. Weight(Share, Due(t)', Slot) <= Weight(Share, Due(t), Slot)
    BY <1>5, WeightSubset
  <2>3. Weight(Share, Due(t)', Slot) \in Nat /\ Weight(Share, Due(t), Slot) \in Nat
    BY <1>6, <2>0
  <2>4. level + Weight(Share, Due(t), Slot) <= Everyone + t + Slot
    BY <1>1 DEF RateInvariant
  <2> QED
    BY <1>2, <1>5, <1>n, <2>1, <2>2, <2>3, <2>4
<1> QED
  BY <1>7, <1>8 DEF RateInvariant

(* With an empty bucket there is room for a slice of everyone. *)
LEMMA RateEmpty == LimiterTypes /\ level = 0 => RateInvariant
<1> SUFFICES ASSUME LimiterTypes, level = 0, rate # 0 PROVE RateInvariant
  BY DEF RateInvariant
<1>1. Slot \in Nat /\ Everyone \in Nat /\ nextAt \in Nat
  BY ShareTypes DEF LimiterTypes
<1>2. \A B \in SUBSET Owed : Weight(Share, B, Slot) \in Nat /\ Weight(Share, B, Slot) <= Everyone
  BY ShareTypes
<1>3. Weight(Share, Owed, Slot) \in Nat /\ Weight(Share, Owed, Slot) <= Everyone
  BY <1>2
<1>4. ASSUME NEW t \in Nat PROVE Weight(Share, Due(t), Slot) \in Nat /\ Weight(Share, Due(t), Slot) <= Everyone
  BY <1>2 DEF Due
<1> QED
  BY <1>1, <1>3, <1>4 DEF RateInvariant

(* The same after a step. *)
LEMMA RateEmptyNext == (LimiterTypes /\ level = 0 => RateInvariant)'
BY RateEmpty, PTL

(* Every step keeps the invariant: a slot that is reserved moves the end of the last
   one by its own length, a slice that passes was owed, and set_limit starts afresh. *)
LEMMA RateStep ==
  ASSUME LimiterTypes, LimiterTypes', RateInvariant, [Next]_vars
  PROVE  RateInvariant'
<1>0. LimiterNext \/ UNCHANGED limiterVars
  BY LimiterAlone
<1>n. /\ nextAt \in Nat /\ nextAt' \in Nat /\ level \in Nat /\ level' \in Nat /\ rate \in Nat
      /\ \A f \in Fetchers : acq[f].until \in Nat
  BY NumberTypes DEF LimiterTypes
<1>1. CASE UNCHANGED limiterVars
  BY <1>1, <1>n, RateKeeps DEF limiterVars, Owed, Due
<1>2. CASE StoreRate
  BY <1>2 DEF StoreRate, RateInvariant
<1>3. CASE ResetSlots
  BY <1>3, RateEmptyNext DEF ResetSlots
<1>4. CASE TellWaiters
  BY <1>4, <1>n, RateKeeps DEF TellWaiters, Owed, Due
<1>5. CASE Tick
  <2>1. CASE level' = 0
    BY <2>1, RateEmptyNext
  <2>2. CASE level' # 0 /\ rate # 0 /\ setting # "reset"
    <3>1. level' = level - 1 /\ level > 0 /\ UNCHANGED <<rate, setting>> /\ nextAt' >= nextAt - 1
      BY <1>5, <1>n, <2>2, LaterFacts DEF Tick
    <3>2. Owed' = Owed /\ Share' = Share /\ Slot' = Slot /\ Everyone' = Everyone
      BY <1>5, <3>1, TickFacts DEF Owed, Share, Slot, Everyone
    <3>3. \A t \in Nat : Due(t)' = Due(t + 1)
      <4>1. ASSUME NEW t \in Nat, NEW f \in Fetchers
            PROVE  acq'[f].until <= t <=> acq[f].until <= t + 1
        <5>1. acq'[f].until = Later(acq[f].until) /\ acq[f].until \in Nat
          BY <1>5, <1>n, TickFacts
        <5> QED
          BY <5>1, LaterFacts
      <4> QED
        BY <3>2, <4>1 DEF Due, Owed
    <3>4. Slot \in Nat /\ Everyone \in Nat
      BY <2>2, ShareTypes
    <3>5. \A B \in SUBSET Owed : Weight(Share, B, Slot) \in Nat
      BY <2>2, ShareTypes
    <3>6. level' + Weight(Share', Owed', Slot') <= Everyone' + nextAt'
      <4>1. level + Weight(Share, Owed, Slot) <= Everyone + nextAt
        BY <2>2 DEF RateInvariant
      <4>2. Weight(Share, Owed, Slot) \in Nat
        BY <3>5
      <4> QED
        BY <3>1, <3>2, <3>4, <4>1, <4>2, <1>n
    <3>7. ASSUME NEW t \in Nat
          PROVE  level' + Weight(Share', Due(t)', Slot') <= Everyone' + t + Slot'
      <4>1. level + Weight(Share, Due(t + 1), Slot) <= Everyone + (t + 1) + Slot
        BY <2>2 DEF RateInvariant
      <4>2. Weight(Share, Due(t + 1), Slot) \in Nat
        BY <3>5 DEF Due
      <4>3. Weight(Share', Due(t)', Slot') = Weight(Share, Due(t + 1), Slot)
        BY <3>2, <3>3
      <4> QED
        BY <3>1, <3>2, <3>4, <4>1, <4>2, <4>3, <1>n
    <3> QED
      BY <3>6, <3>7 DEF RateInvariant
  <2> QED
    BY <1>5, <2>1, <2>2 DEF Tick, RateInvariant
<1>6. ASSUME NEW f \in Fetchers, Acquire(f) \/ LoadRate(f) \/ Woken(f)
      PROVE  RateInvariant'
  <2>1. UNCHANGED <<rate, level, nextAt, setting>>
    BY <1>6, AfterAcquire, AfterLoad, AfterSleep
  <2>2. \A g \in Fetchers : g # f => acq'[g] = acq[g]
    BY <1>6, Others DEF Fetching
  <2>3. f \notin Owed'
    BY <1>6, <2>1, AfterAcquire, AfterLoad, AfterSleep DEF Owed
  <2>4. Owed' \subseteq Owed /\ \A g \in Owed' : acq'[g] = acq[g]
    BY <2>1, <2>2, <2>3 DEF Owed
  <2>5. \A t \in Nat : Due(t)' \subseteq Due(t)
    BY <2>4 DEF Due
  <2> QED
    BY <1>n, <2>1, <2>4, <2>5, RateKeeps
<1>7. ASSUME NEW f \in Fetchers, Slept(f)
      PROVE  RateInvariant'
  <2>1. SUFFICES ASSUME rate # 0, setting # "reset" PROVE RateInvariant'
    BY <1>7, AfterSleep DEF RateInvariant
  <2>2. /\ acq[f].pc = "sleep" /\ acq'[f].pc \in {"idle", "load"} /\ acq[f].until = 0
        /\ UNCHANGED <<rate, nextAt, setting>> /\ level' = level + Duration(acq[f].size, rate)
    BY <1>7, <2>1, AfterSleep
  <2>3. \A g \in Fetchers : g # f => acq'[g] = acq[g]
    BY <1>7, Others DEF Fetching
  <2>4. Owed = Owed' \cup {f} /\ f \notin Owed' /\ \A g \in Owed' : acq'[g] = acq[g]
    BY <2>2, <2>3 DEF Owed
  <2>5. \A t \in Nat : Due(t) = Due(t)' \cup {f} /\ f \notin Due(t)'
    BY <2>2, <2>4 DEF Due
  <2>6. Slot' = Slot /\ Everyone' = Everyone /\ \A g \in Owed' : Share'[g] = Share[g]
    BY <2>2, <2>4 DEF Slot, Everyone, Share, Owed
  <2>7. /\ Slot \in Nat /\ Everyone \in Nat /\ Share[f] \in 0 .. Slot
        /\ IsFiniteSet(Owed) /\ \A t : IsFiniteSet(Due(t))
        /\ \A B \in SUBSET Owed : Weight(Share, B, Slot) \in Nat
    BY <2>1, <2>4, ShareTypes
  <2>8. level' = level + Share[f]
    BY <2>2 DEF Share
  <2>9. ASSUME NEW B \in SUBSET Owed'
        PROVE  /\ Weight(Share', B, Slot') = Weight(Share, B, Slot)
               /\ Weight(Share, B \cup {f}, Slot) = Weight(Share, B, Slot) + Share[f]
               /\ Weight(Share, B, Slot) \in Nat
    <3>1. IsFiniteSet(B) /\ f \notin B /\ B \in SUBSET Owed
      BY <2>4, <2>7, FS_Subset
    <3>2. Weight(Share', B, Slot') = Weight(Share, B, Slot)
      BY <2>6, <2>7, WeightSame
    <3> QED
      BY <3>1, <3>2, <2>7, WeightAdd
  <2>10. level' + Weight(Share', Owed', Slot') <= Everyone' + nextAt'
    <3>1. level + Weight(Share, Owed, Slot) <= Everyone + nextAt
      BY <2>1 DEF RateInvariant
    <3>2. Weight(Share, Owed, Slot) = Weight(Share, Owed', Slot) + Share[f]
      BY <2>4, <2>9
    <3>3. Weight(Share', Owed', Slot') = Weight(Share, Owed', Slot) /\ Weight(Share, Owed', Slot) \in Nat
      BY <2>9
    <3> QED
      BY <1>n, <2>2, <2>6, <2>7, <2>8, <3>1, <3>2, <3>3
  <2>11. ASSUME NEW t \in Nat
         PROVE  level' + Weight(Share', Due(t)', Slot') <= Everyone' + t + Slot'
    <3>0. Due(t)' \subseteq Owed'
      BY DEF Due
    <3>1. level + Weight(Share, Due(t), Slot) <= Everyone + t + Slot
      BY <2>1 DEF RateInvariant
    <3>2. Weight(Share, Due(t), Slot) = Weight(Share, Due(t)', Slot) + Share[f]
      BY <2>5, <2>9, <3>0
    <3>3. Weight(Share', Due(t)', Slot') = Weight(Share, Due(t)', Slot) /\ Weight(Share, Due(t)', Slot) \in Nat
      BY <2>9, <3>0
    <3> QED
      BY <1>n, <2>2, <2>6, <2>7, <2>8, <3>1, <3>2, <3>3
  <2> QED
    BY <2>10, <2>11 DEF RateInvariant
<1>8. ASSUME NEW f \in Fetchers, Reserve(f)
      PROVE  RateInvariant'
  <2>1. /\ acq[f].pc = "reserve" /\ UNCHANGED <<rate, setting, level>>
        /\ nextAt' = nextAt + Duration(acq[f].size, acq[f].rate)
        /\ acq'[f].pc = "sleep" /\ acq'[f].size = acq[f].size
        /\ acq'[f].until = nextAt /\ acq'[f].rate = acq[f].rate
    BY <1>8, AfterReserve
  <2>2. acq[f].until = 0 /\ acq[f].rate \in Nat \ {0} /\ acq[f].size \in Sizes
    BY <2>1, NumberTypes DEF LimiterTypes
  <2>3. Duration(acq[f].size, acq[f].rate) \in Nat
    BY <2>2, DurationBound
  <2>4. \A g \in Fetchers : g # f => acq'[g] = acq[g]
    BY <1>8, Others DEF Fetching
  <2>5. CASE acq[f].rate # rate
    <3>1. f \in Owed /\ Owed' \subseteq Owed /\ \A g \in Owed' : acq'[g].size = acq[g].size
      BY <2>1, <2>4, <2>5 DEF Owed
    <3>2. \A t \in Nat : Due(t)' \subseteq Due(t)
      BY <2>1, <2>2, <2>4, <3>1 DEF Due, Owed
    <3>3. nextAt <= nextAt'
      BY <1>n, <2>1, <2>3
    <3> QED
      BY <2>1, <3>1, <3>2, <3>3, RateKeeps
  <2>6. CASE acq[f].rate = rate
    <3>1. SUFFICES ASSUME rate # 0, setting # "reset" PROVE RateInvariant'
      BY <2>1 DEF RateInvariant
    <3>2. Owed' = Owed \cup {f} /\ f \notin Owed
      BY <2>1, <2>4, <2>6 DEF Owed
    <3>3. Slot' = Slot /\ Everyone' = Everyone /\ \A g \in Owed' : Share'[g] = Share[g]
      BY <2>1, <2>4 DEF Slot, Everyone, Share, Owed
    <3>4. /\ Slot \in Nat /\ Everyone \in Nat /\ IsFiniteSet(Owed)
          /\ \A B \in SUBSET Owed : Weight(Share, B, Slot) \in Nat
      BY <3>1, ShareTypes
    <3>5. Share[f] = Duration(acq[f].size, rate) /\ Share[f] \in 0 .. Slot
      <4>1. Share[f] = Duration(acq[f].size, rate)
        BY DEF Share
      <4>2. Duration(acq[f].size, rate) \in Nat /\ Duration(acq[f].size, rate) <= Slot
        BY <2>2, <2>6, DurationBound DEF Slot
      <4> QED
        BY <4>1, <4>2, <3>4
    <3>6. ASSUME NEW B \in SUBSET Owed
          PROVE  /\ Weight(Share', B, Slot') = Weight(Share, B, Slot)
                 /\ Weight(Share', B \cup {f}, Slot') = Weight(Share, B, Slot) + Share[f]
      <4>1. IsFiniteSet(B) /\ f \notin B
        BY <3>2, <3>4, FS_Subset
      <4>2. Weight(Share', B, Slot') = Weight(Share, B, Slot)
        BY <3>2, <3>3, <3>4, WeightSame
      <4>3. Weight(Share', B \cup {f}, Slot') = Weight(Share, B \cup {f}, Slot)
        BY <3>2, <3>3, <3>4, WeightSame
      <4>4. Weight(Share, B \cup {f}, Slot) = Weight(Share, B, Slot) + Share[f]
        BY <4>1, <3>4, <3>5, WeightAdd
      <4> QED
        BY <4>2, <4>3, <4>4
    <3>7. level + Weight(Share, Owed, Slot) <= Everyone + nextAt
      BY <3>1 DEF RateInvariant
    <3>8. level' + Weight(Share', Owed', Slot') <= Everyone' + nextAt'
      <4>1. Weight(Share', Owed', Slot') = Weight(Share, Owed, Slot) + Share[f] /\ Weight(Share, Owed, Slot) \in Nat
        BY <3>2, <3>4, <3>6
      <4>2. nextAt' = nextAt + Share[f]
        BY <2>1, <2>6, <3>5
      <4> QED
        BY <1>n, <2>1, <3>3, <3>4, <3>5, <3>7, <4>1, <4>2
    <3>9. ASSUME NEW t \in Nat
          PROVE  level' + Weight(Share', Due(t)', Slot') <= Everyone' + t + Slot'
      <4>0. Due(t) \in SUBSET Owed
        BY DEF Due
      <4>1. CASE nextAt <= t
        <5>1. Due(t)' = Due(t) \cup {f}
          BY <2>1, <2>4, <3>2, <4>1 DEF Due, Owed
        <5>2. Weight(Share', Due(t)', Slot') = Weight(Share, Due(t), Slot) + Share[f]
          BY <3>6, <4>0, <5>1
        <5>3. Weight(Share, Due(t), Slot) <= Weight(Share, Owed, Slot)
          BY <3>4, <4>0, WeightSubset
        <5>4. Weight(Share, Due(t), Slot) \in Nat /\ Weight(Share, Owed, Slot) \in Nat
          BY <3>4, <4>0
        <5> QED
          BY <1>n, <2>1, <3>3, <3>4, <3>5, <3>7, <4>1, <5>2, <5>3, <5>4
      <4>2. CASE ~(nextAt <= t)
        <5>1. Due(t)' = Due(t)
          BY <2>1, <2>4, <3>2, <4>2 DEF Due, Owed
        <5>2. Weight(Share', Due(t)', Slot') = Weight(Share, Due(t), Slot)
          BY <3>6, <4>0, <5>1
        <5>3. level + Weight(Share, Due(t), Slot) <= Everyone + t + Slot
          BY <3>1 DEF RateInvariant
        <5> QED
          BY <2>1, <3>3, <5>2, <5>3
      <4> QED
        BY <4>1, <4>2
    <3> QED
      BY <3>8, <3>9 DEF RateInvariant
  <2> QED
    BY <2>5, <2>6
<1> QED
  BY <1>0, <1>1, <1>2, <1>3, <1>4, <1>5, <1>6, <1>7, <1>8 DEF LimiterNext, SetLimit, Fetching

(* What has passed the limiter never exceeds the rate by more than a slice of each
   worker, and one more. *)
THEOREM RateIsKeptCorrect == Spec => []RateIsKept
<1>1. Init => LimiterTypes /\ RateInvariant
  <2> SUFFICES ASSUME Init PROVE LimiterTypes /\ RateInvariant
    OBVIOUS
  <2>1. LimiterTypes /\ level = 0
    BY LimiterTypesInit DEF Init, LimiterInit
  <2> QED
    BY <2>1, RateEmpty
<1>2. LimiterTypes /\ RateInvariant /\ [Next]_vars => (LimiterTypes /\ RateInvariant)'
  BY LimiterTypesStep, RateStep
<1>3. LimiterTypes /\ RateInvariant => RateIsKept
  <2> SUFFICES ASSUME LimiterTypes, RateInvariant, rate # 0, setting = "no"
               PROVE  level <= (Cardinality(Fetchers) + 1) * Duration(MaxSize, rate)
    BY DEF RateIsKept
  <2>1. Slot \in Nat /\ Everyone \in Nat /\ level \in Nat /\ Cardinality(Fetchers) \in Nat
    BY ShareTypes, LimiterAssumption, FS_CardinalityType DEF LimiterTypes
  <2>2. Weight(Share, Due(0), Slot) \in Nat
    BY ShareTypes DEF Due
  <2>3. level + Weight(Share, Due(0), Slot) <= Everyone + 0 + Slot
    BY DEF RateInvariant
  <2>4. level <= Everyone + Slot
    BY <2>1, <2>2, <2>3
  <2>5. (Cardinality(Fetchers) + 1) * Slot = Everyone + Slot
    BY <2>1 DEF Everyone
  <2> QED
    BY <2>4, <2>5 DEF Slot
<1> QED
  BY <1>1, <1>2, <1>3, PTL DEF Spec

(* The fetchers that sleep and know of the last change, and those of them that
   still do after t ticks *)
Informed == {f \in Fetchers : acq[f].pc = "sleep" /\ acq[f].heard = told}
Behind(t) == {g \in Informed : acq[g].until > t}

(* LimitReachesSleepers with what it rests on: after a change has been told, the
   waits of those that know of it are made of slots of the new rate, one for each that
   waits longer than t and one for the slot at t. *)
Reach ==
  /\ setting = "tell" /\ ~leaked => nextAt = 0
  /\ setting = "no" =>
       \A f \in Fetchers :
         acq[f].pc \in {"reserve", "sleep"} /\ acq[f].heard = told => acq[f].rate = rate
  /\ setting = "no" /\ ~leaked /\ rate # 0 =>
       \A t \in Nat :
         /\ nextAt <= t + Slot * (1 + Cardinality(Behind(t)))
         /\ \A f \in Informed : acq[f].until <= t + Slot * (1 + Cardinality(Behind(t) \ {f}))

(* The sets of sleepers are finite. *)
LEMMA BehindTypes ==
  /\ IsFiniteSet(Informed)
  /\ \A t : IsFiniteSet(Behind(t)) /\ Cardinality(Behind(t)) \in Nat
  /\ \A t, f : IsFiniteSet(Behind(t) \ {f}) /\ Cardinality(Behind(t) \ {f}) \in Nat
<1>1. Informed \in SUBSET Fetchers
  BY DEF Informed
<1>2. IsFiniteSet(Informed)
  BY <1>1, LimiterAssumption, FS_Subset
<1>3. ASSUME NEW t PROVE IsFiniteSet(Behind(t)) /\ Cardinality(Behind(t)) \in Nat
  <2>1. Behind(t) \in SUBSET Informed
    BY DEF Behind
  <2> QED
    BY <1>2, <2>1, FS_Subset, FS_CardinalityType
<1>4. ASSUME NEW t, NEW f
      PROVE  IsFiniteSet(Behind(t) \ {f}) /\ Cardinality(Behind(t) \ {f}) \in Nat
  BY <1>3, FS_RemoveElement, FS_CardinalityType
<1> QED
  BY <1>2, <1>3, <1>4

(* Slots, multiplied. *)
LEMMA Products ==
  ASSUME NEW d \in Nat, NEW b \in Nat, NEW c \in Nat, b <= c
  PROVE  /\ d * (1 + b) \in Nat /\ d * (1 + b) <= d * (1 + c) /\ d <= d * (1 + b)
         /\ d * (1 + (b + 1)) = d * (1 + b) + d
<1>1. d * (1 + b) = d + d * b /\ d * (1 + c) = d + d * c /\ d * (1 + (b + 1)) = d + d * b + d
  OBVIOUS
<1>2. d * b \in Nat /\ d * c \in Nat /\ d * b <= d * c
  OBVIOUS
<1> QED
  BY <1>1, <1>2

(* Every step keeps it. *)
LEMMA ReachStep ==
  ASSUME LimiterTypes, LimiterTypes', Reach, [Next]_vars
  PROVE  Reach'
<1>0. LimiterNext \/ UNCHANGED limiterVars
  BY LimiterAlone
<1>n. /\ nextAt \in Nat /\ nextAt' \in Nat /\ rate \in Nat /\ told \in Nat
      /\ \A f \in Fetchers : acq[f].until \in Nat /\ acq[f].heard \in Nat /\ acq[f].heard <= told
  BY NumberTypes DEF LimiterTypes
<1>1. CASE UNCHANGED limiterVars
  BY <1>1 DEF limiterVars, Reach, Informed, Behind, Slot
<1>2. CASE StoreRate \/ ResetSlots
  BY <1>2 DEF StoreRate, ResetSlots, Reach
<1>3. CASE TellWaiters
  <2>1. told' = told + 1 /\ setting' = "no" /\ UNCHANGED <<rate, nextAt, acq, leaked>> /\ setting = "tell"
    BY <1>3 DEF TellWaiters
  <2>2. \A f \in Fetchers : acq'[f].heard # told'
    BY <2>1, <1>n
  <2>3. Informed' = {}
    BY <2>2 DEF Informed
  <2>4. ASSUME rate # 0, ~leaked, NEW t \in Nat
        PROVE  nextAt' <= t + Slot' * (1 + Cardinality(Behind(t)'))
    <3>1. nextAt' = 0
      BY <2>1, <2>4 DEF Reach
    <3>2. Slot' = Slot /\ Slot \in Nat
      BY <2>1, <2>4, ShareTypes DEF Slot
    <3>3. Behind(t)' = {}
      BY <2>3 DEF Behind
    <3>4. Cardinality(Behind(t)') = 0
      BY <3>3, FS_EmptySet
    <3> QED
      BY <3>1, <3>2, <3>4, Products
  <2> QED
    BY <2>1, <2>2, <2>3, <2>4 DEF Reach
<1>4. CASE Tick
  <2>1. UNCHANGED <<rate, told, setting, leaked>> /\ nextAt' = Later(nextAt)
    BY <1>4 DEF Tick
  <2>2. /\ \A f \in Fetchers : /\ acq'[f].pc = acq[f].pc /\ acq'[f].heard = acq[f].heard
                               /\ acq'[f].rate = acq[f].rate
                               /\ acq'[f].until = Later(acq[f].until)
    BY <1>4, TickFacts
  <2>3. Informed' = Informed /\ Slot' = Slot
    BY <2>1, <2>2 DEF Informed, Slot
  <2>4. \A t \in Nat : Behind(t)' = Behind(t + 1)
    <3>1. ASSUME NEW t \in Nat, NEW f \in Fetchers
          PROVE  acq'[f].until > t <=> acq[f].until > t + 1
      <4>1. acq'[f].until = Later(acq[f].until) /\ acq[f].until \in Nat
        BY <1>n, <2>2
      <4> QED
        BY <4>1, LaterFacts
    <3> QED
      BY <2>3, <3>1 DEF Behind, Informed
  <2>5. ASSUME setting = "no", ~leaked, rate # 0, NEW t \in Nat
        PROVE  /\ nextAt' <= t + Slot' * (1 + Cardinality(Behind(t)'))
               /\ \A f \in Informed' : acq'[f].until <= t + Slot' * (1 + Cardinality(Behind(t)' \ {f}))
    <3>1. Slot \in Nat
      BY <2>5, ShareTypes
    <3>2. nextAt' <= t + Slot * (1 + Cardinality(Behind(t + 1)))
      <4>1. nextAt <= (t + 1) + Slot * (1 + Cardinality(Behind(t + 1)))
        BY <2>5 DEF Reach
      <4>2. Slot * (1 + Cardinality(Behind(t + 1))) \in Nat
        BY <3>1, BehindTypes, Products
      <4> QED
        BY <4>1, <4>2, <1>n, <2>1, LaterFacts
    <3>3. ASSUME NEW f \in Informed
          PROVE  acq'[f].until <= t + Slot * (1 + Cardinality(Behind(t + 1) \ {f}))
      <4>1. acq[f].until <= (t + 1) + Slot * (1 + Cardinality(Behind(t + 1) \ {f}))
        BY <2>5 DEF Reach
      <4>2. Slot * (1 + Cardinality(Behind(t + 1) \ {f})) \in Nat
        <5>1. Cardinality(Behind(t + 1) \ {f}) \in Nat
          BY BehindTypes
        <5> QED
          BY <3>1, <5>1, Products
      <4>3. acq'[f].until = Later(acq[f].until) /\ acq[f].until \in Nat
        BY <1>n, <2>2 DEF Informed
      <4> QED
        BY <4>1, <4>2, <4>3, LaterFacts
    <3> QED
      BY <2>3, <2>4, <3>2, <3>3
  <2>6. setting = "tell" /\ ~leaked => nextAt' = 0
    BY <2>1, LaterFacts DEF Reach
  <2> QED
    BY <2>1, <2>2, <2>5, <2>6 DEF Reach
<1>5. ASSUME NEW f \in Fetchers, Acquire(f) \/ LoadRate(f) \/ Slept(f) \/ Woken(f)
      PROVE  Reach'
  <2>1. UNCHANGED <<rate, nextAt, told, setting, leaked>>
    BY <1>5, AfterAcquire, AfterLoad, AfterSleep
  <2>2. \A g \in Fetchers : g # f => acq'[g] = acq[g]
    BY <1>5, Others DEF Fetching
  <2>3. acq'[f].pc \in {"idle", "load"} \/ (acq'[f].pc = "reserve" /\ acq'[f].rate = rate)
    BY <1>5, AfterAcquire, AfterLoad, AfterSleep
  <2>4. acq[f].pc = "sleep" => acq[f].until = 0 \/ acq[f].heard # told
    BY <1>5, AfterLoad, AfterSleep DEF Acquire
  <2>5. Informed' \subseteq Informed /\ \A g \in Informed' : acq'[g] = acq[g]
    BY <2>1, <2>2, <2>3 DEF Informed
  <2>6. \A t \in Nat : Behind(t)' = Behind(t)
    <3>1. \A t \in Nat : f \notin Behind(t)
      BY <2>4 DEF Behind, Informed
    <3>2. f \notin Informed'
      BY <2>3 DEF Informed
    <3>3. \A g \in Fetchers : g # f => (g \in Informed' <=> g \in Informed)
      BY <2>1, <2>2 DEF Informed
    <3> QED
      BY <2>2, <2>5, <3>1, <3>2, <3>3 DEF Behind, Informed
  <2>7. Slot' = Slot
    BY <2>1 DEF Slot
  <2>8. setting = "no" =>
          \A g \in Fetchers :
            acq'[g].pc \in {"reserve", "sleep"} /\ acq'[g].heard = told => acq'[g].rate = rate
    BY <2>1, <2>2, <2>3 DEF Reach
  <2> QED
    BY <2>1, <2>5, <2>6, <2>7, <2>8 DEF Reach
<1>6. ASSUME NEW f \in Fetchers, Reserve(f)
      PROVE  Reach'
  <2>1. /\ acq[f].pc = "reserve" /\ UNCHANGED <<rate, told, setting>>
        /\ nextAt' = nextAt + Duration(acq[f].size, acq[f].rate)
        /\ acq'[f].pc = "sleep" /\ acq'[f].heard = acq[f].heard
        /\ acq'[f].until = nextAt /\ acq'[f].rate = acq[f].rate
    BY <1>6, AfterReserve
  <2>2. \A g \in Fetchers : g # f => acq'[g] = acq[g]
    BY <1>6, Others DEF Fetching
  <2>3. leaked' <=> leaked \/ setting # "no" \/ acq[f].heard # told
    BY <1>6 DEF Reserve
  <2>4. setting = "no" =>
          \A g \in Fetchers :
            acq'[g].pc \in {"reserve", "sleep"} /\ acq'[g].heard = told => acq'[g].rate = rate
    BY <2>1, <2>2 DEF Reach
  <2>5. SUFFICES ASSUME setting = "no", ~leaked', rate # 0, NEW t \in Nat
                 PROVE  /\ nextAt' <= t + Slot' * (1 + Cardinality(Behind(t)'))
                        /\ \A g \in Informed' : acq'[g].until <= t + Slot' * (1 + Cardinality(Behind(t)' \ {g}))
    BY <2>1, <2>3, <2>4 DEF Reach
  <2>6. ~leaked /\ acq[f].heard = told /\ acq[f].rate = rate
    BY <2>1, <2>3, <2>5 DEF Reach
  <2>7. Informed' = Informed \cup {f} /\ f \notin Informed
    BY <2>1, <2>2, <2>6 DEF Informed
  <2>8. Slot' = Slot /\ Slot \in Nat
    BY <2>1, <2>5, ShareTypes DEF Slot
  <2>9. PICK d \in Nat : nextAt' = nextAt + d /\ d <= Slot
    <3>1. acq[f].size \in Sizes /\ rate \in Nat \ {0}
      BY <1>n, <2>1, <2>5 DEF LimiterTypes
    <3>2. Duration(acq[f].size, rate) \in Nat /\ Duration(acq[f].size, rate) <= Slot
      BY <3>1, DurationBound DEF Slot
    <3> QED
      BY <2>1, <2>6, <3>2
  <2>10. Behind(t) \subseteq Behind(t)' /\ f \notin Behind(t) /\ (nextAt > t => Behind(t)' = Behind(t) \cup {f})
        /\ Behind(t)' \ {f} = Behind(t)
    BY <2>1, <2>2, <2>7 DEF Behind, Informed
  <2>11. /\ nextAt <= t + Slot * (1 + Cardinality(Behind(t)))
         /\ \A g \in Informed : acq[g].until <= t + Slot * (1 + Cardinality(Behind(t) \ {g}))
    BY <2>5, <2>6 DEF Reach
  <2>f. IsFiniteSet(Behind(t)') /\ Cardinality(Behind(t)') \in Nat
        /\ \A g : IsFiniteSet(Behind(t)' \ {g}) /\ Cardinality(Behind(t)' \ {g}) \in Nat
    <3>1. Behind(t)' \subseteq Behind(t) \cup {f}
      BY <2>10
    <3>2. IsFiniteSet(Behind(t) \cup {f})
      BY BehindTypes, FS_AddElement
    <3>3. IsFiniteSet(Behind(t)')
      BY <3>1, <3>2, FS_Subset
    <3> QED
      BY <3>3, FS_CardinalityType, FS_RemoveElement
  <2>12. nextAt' <= t + Slot * (1 + Cardinality(Behind(t)'))
    <3>1. CASE nextAt > t
      <4>1. Cardinality(Behind(t)') = Cardinality(Behind(t)) + 1
        BY <2>10, <3>1, BehindTypes, FS_AddElement
      <4>2. Cardinality(Behind(t)) \in Nat
        BY BehindTypes
      <4>3. /\ Slot * (1 + (Cardinality(Behind(t)) + 1)) = Slot * (1 + Cardinality(Behind(t))) + Slot
            /\ Slot * (1 + Cardinality(Behind(t))) \in Nat
        BY <2>8, <4>2, Products
      <4> QED
        BY <1>n, <2>8, <2>9, <2>11, <4>1, <4>3
    <3>2. CASE ~(nextAt > t)
      <4>1. Slot <= Slot * (1 + Cardinality(Behind(t)')) /\ Slot * (1 + Cardinality(Behind(t)')) \in Nat
        BY <2>8, <2>f, Products
      <4> QED
        BY <1>n, <2>8, <2>9, <3>2, <4>1
    <3> QED
      BY <3>1, <3>2
  <2>13. ASSUME NEW g \in Informed'
         PROVE  acq'[g].until <= t + Slot * (1 + Cardinality(Behind(t)' \ {g}))
    <3>1. CASE g = f
      <4>1. acq'[g].until = nextAt /\ Behind(t)' \ {g} = Behind(t)
        BY <2>1, <2>10, <3>1
      <4> QED
        BY <2>11, <4>1
    <3>2. CASE g # f
      <4>1. g \in Informed /\ acq'[g] = acq[g] /\ acq[g].until \in Nat
        BY <1>n, <2>2, <2>7, <3>2 DEF Informed
      <4>2. Behind(t) \ {g} \in SUBSET (Behind(t)' \ {g})
        BY <2>10
      <4>3. Cardinality(Behind(t) \ {g}) <= Cardinality(Behind(t)' \ {g})
        BY <2>f, <4>2, FS_Subset
      <4>4. Cardinality(Behind(t) \ {g}) \in Nat /\ Cardinality(Behind(t)' \ {g}) \in Nat
        BY <2>f, BehindTypes
      <4>5. /\ Slot * (1 + Cardinality(Behind(t) \ {g})) <= Slot * (1 + Cardinality(Behind(t)' \ {g}))
            /\ Slot * (1 + Cardinality(Behind(t) \ {g})) \in Nat
            /\ Slot * (1 + Cardinality(Behind(t)' \ {g})) \in Nat
        BY <2>8, <4>3, <4>4, Products
      <4>6. acq[g].until <= t + Slot * (1 + Cardinality(Behind(t) \ {g}))
        BY <2>11, <4>1
      <4> QED
        BY <4>1, <4>5, <4>6
    <3> QED
      BY <3>1, <3>2
  <2> QED
    BY <2>8, <2>12, <2>13
<1> QED
  BY <1>0, <1>1, <1>2, <1>3, <1>4, <1>5, <1>6 DEF LimiterNext, SetLimit, Fetching

(* Once the sleepers were told of a new limit, none waits longer than a slice of
   each worker takes at it. *)
THEOREM LimitReachesSleepersCorrect == Spec => []LimitReachesSleepers
<1>1. Init => LimiterTypes /\ Reach
  <2> SUFFICES ASSUME Init PROVE LimiterTypes /\ Reach
    OBVIOUS
  <2>1. LimiterTypes /\ nextAt = 0 /\ setting = "no" /\ \A f \in Fetchers : acq[f].pc = "idle"
    BY LimiterTypesInit, IdleFacts DEF Init, LimiterInit
  <2>2. Informed = {}
    BY <2>1 DEF Informed
  <2>3. ASSUME rate # 0, NEW t \in Nat PROVE nextAt <= t + Slot * (1 + Cardinality(Behind(t)))
    <3>1. Slot \in Nat /\ Cardinality(Behind(t)) \in Nat
      BY <2>1, <2>3, ShareTypes, BehindTypes
    <3>2. Slot * (1 + Cardinality(Behind(t))) \in Nat
      BY <3>1, Products
    <3> QED
      BY <2>1, <3>2
  <2> QED
    BY <2>1, <2>2, <2>3 DEF Reach
<1>2. LimiterTypes /\ Reach /\ [Next]_vars => (LimiterTypes /\ Reach)'
  BY LimiterTypesStep, ReachStep
<1>3. LimiterTypes /\ Reach => LimitReachesSleepers
  <2> SUFFICES ASSUME LimiterTypes, Reach, setting = "no", ~leaked, NEW f \in Fetchers,
                      acq[f].pc = "sleep", acq[f].heard = told
               PROVE  rate # 0 /\ acq[f].until <= Cardinality(Fetchers) * Duration(MaxSize, rate)
    BY DEF LimitReachesSleepers
  <2>1. rate # 0 /\ f \in Informed /\ acq[f].until \in Nat
    BY NumberTypes DEF Reach, LimiterTypes, Informed
  <2>2. acq[f].until <= 0 + Slot * (1 + Cardinality(Behind(0) \ {f}))
    BY <2>1 DEF Reach
  <2>3. Slot \in Nat /\ Cardinality(Behind(0) \ {f}) \in Nat
    BY <2>1, ShareTypes, BehindTypes
  <2>4. 1 + Cardinality(Behind(0) \ {f}) <= Cardinality(Fetchers)
    <3>1. IsFiniteSet(Fetchers \ {f}) /\ Cardinality(Fetchers \ {f}) = Cardinality(Fetchers) - 1
          /\ Cardinality(Fetchers) \in Nat
      BY LimiterAssumption, FS_RemoveElement, FS_CardinalityType
    <3>2. Behind(0) \ {f} \in SUBSET (Fetchers \ {f})
      BY DEF Behind, Informed
    <3>3. Cardinality(Behind(0) \ {f}) <= Cardinality(Fetchers \ {f})
      BY <3>1, <3>2, FS_Subset
    <3> QED
      BY <2>3, <3>1, <3>3
  <2>5. Cardinality(Fetchers) \in Nat
    BY LimiterAssumption, FS_CardinalityType
  <2>6. (1 + Cardinality(Behind(0) \ {f})) * Slot <= Cardinality(Fetchers) * Slot
    BY <2>3, <2>4, <2>5, Times
  <2>7. /\ (1 + Cardinality(Behind(0) \ {f})) * Slot = Slot * (1 + Cardinality(Behind(0) \ {f}))
        /\ Slot * (1 + Cardinality(Behind(0) \ {f})) \in Nat /\ Cardinality(Fetchers) * Slot \in Nat
    BY <2>3, <2>5
  <2> QED
    BY <2>1, <2>2, <2>6, <2>7 DEF Slot
<1> QED
  BY <1>1, <1>2, <1>3, PTL DEF Spec

-----------------------------------------------------------------------------
(* The ranking of sources *)

(* The steps of a worker. *)
Records ==
  [pc : {"pull", "rank", "switch", "done", "failed"}, source : Active, retries : 0 .. MaxRetries,
   next : Active \cup {0}]

(* Types of the ranking. *)
RankingTypes ==
  /\ works \subseteq Active /\ primary \in Mirrors
  /\ failures \in [Mirrors -> Nat] /\ successes \in [Mirrors -> Nat]
  /\ puller \in [Pullers -> Records]

(* The source that comes before all others of a set. *)
IsFirst(s, S) == s \in S /\ \A r \in S \ {s} : Before(s, r)

(* The comparison of ranked_transfer_sources orders the sources, failures first. *)
LEMMA BeforeOrders ==
  ASSUME RankingTypes
  PROVE  /\ \A r, s \in Mirrors : r # s => Before(r, s) \/ Before(s, r)
         /\ \A r, s, t \in Mirrors : Before(r, s) /\ Before(s, t) => Before(r, t)
         /\ \A r, s \in Mirrors : Before(r, s) => failures[r] <= failures[s]
<1>0. \A s \in Mirrors : s \in Nat /\ failures[s] \in Nat /\ successes[s] \in Nat
  BY RankingAssumption DEF RankingTypes
<1>1. \A r, s \in Mirrors : r # s => Before(r, s) \/ Before(s, r)
  BY <1>0 DEF Before
<1>2. \A r, s, t \in Mirrors : Before(r, s) /\ Before(s, t) => Before(r, t)
  BY <1>0 DEF Before
<1>3. \A r, s \in Mirrors : Before(r, s) => failures[r] <= failures[s]
  BY <1>0 DEF Before
<1> QED
  BY <1>1, <1>2, <1>3

(* So every set of sources has a first one: a smallest set without one would have one. *)
LEMMA FirstExists ==
  ASSUME RankingTypes, NEW S \in SUBSET Mirrors, S # {}
  PROVE  IsFirst(FirstOf(S), S)
<1> DEFINE Lacks == {n \in Nat : \E T \in SUBSET Mirrors :
                       T # {} /\ Cardinality(T) = n /\ ~\E s \in T : IsFirst(s, T)}
<1>1. \A T \in SUBSET Mirrors : IsFiniteSet(T) /\ Cardinality(T) \in Nat
  BY RankingAssumption, FS_Subset, FS_CardinalityType
<1>2. ASSUME NEW n \in Lacks, \A m \in Lacks : n <= m
      PROVE  FALSE
  <2>1. PICK T \in SUBSET Mirrors : T # {} /\ Cardinality(T) = n /\ ~\E s \in T : IsFirst(s, T)
    OBVIOUS
  <2>2. PICK x \in T : TRUE
    BY <2>1
  <2>3. T \ {x} \in SUBSET Mirrors /\ Cardinality(T \ {x}) = n - 1 /\ Cardinality(T \ {x}) \in Nat
    BY <1>1, <2>1, <2>2, FS_RemoveElement
  <2>4. CASE T \ {x} = {}
    BY <2>1, <2>2, <2>4 DEF IsFirst
  <2>5. CASE T \ {x} # {}
    <3>1. n - 1 \notin Lacks
      BY <1>2, <2>3
    <3>2. PICK s \in T \ {x} : IsFirst(s, T \ {x})
      BY <2>3, <2>5, <3>1
    <3>3. x \in Mirrors /\ s \in Mirrors /\ s # x
      BY <2>1, <2>2, <3>2
    <3>4. CASE Before(s, x)
      <4>1. IsFirst(s, T)
        BY <3>2, <3>4 DEF IsFirst
      <4> QED
        BY <2>1, <3>2, <4>1
    <3>5. CASE Before(x, s)
      <4>1. IsFirst(x, T)
        BY <2>1, <2>2, <3>2, <3>3, <3>5, BeforeOrders DEF IsFirst
      <4> QED
        BY <2>1, <2>2, <4>1
    <3> QED
      BY <3>3, <3>4, <3>5, BeforeOrders
  <2> QED
    BY <2>4, <2>5
<1>3. Lacks = {}
  BY <1>2, LeastNumber
<1>4. \E s \in S : IsFirst(s, S)
  BY <1>1, <1>3
<1>5. FirstOf(S) \in S /\ \A r \in S \ {FirstOf(S)} : Before(FirstOf(S), r)
  BY <1>4 DEF FirstOf, IsFirst
<1> QED
  BY <1>5 DEF IsFirst

(* Only the ranking changes the state of the ranking. *)
LEMMA RankingAlone == [Next]_vars => RankingNext \/ UNCHANGED rankingVars
BY DEF Next, vars, Limiting, Waiting

(* The initial states are well typed. *)
LEMMA RankingTypesInit == Init => RankingTypes
BY RankingAssumption DEF Init, RankingInit, RankingTypes, Records

(* The step of a worker as the new record of that worker *)
LEMMA PullerFacts ==
  ASSUME RankingTypes, NEW w \in Pullers
  PROVE  LET p == puller[w] IN
         /\ PullSucceeds(w) => \E r \in Records :
              /\ puller' = [puller EXCEPT ![w] = r] /\ r.pc = "done"
         /\ PullFails(w) => \E r \in Records :
              /\ puller' = [puller EXCEPT ![w] = r] /\ r.pc = "rank"
              /\ r.source = p.source /\ r.retries = p.retries
         /\ Rank(w) => \E r \in Records :
              /\ puller' = [puller EXCEPT ![w] = r] /\ r.pc = "switch"
              /\ r.source = p.source /\ r.retries = p.retries
              /\ Active \ {p.source} # {} => r.next = FirstOf(Active \ {p.source})
         /\ Switch(w) => \E r \in Records :
              /\ puller' = [puller EXCEPT ![w] = r]
              /\ p.next # 0 /\ failures[p.source] # 0 => r.source = p.next
              /\ r.source \in {p.source, p.next}
              /\ \/ p.retries >= MaxRetries /\ r.pc = "failed"
                 \/ p.retries < MaxRetries /\ r.pc = "pull" /\ r.retries = p.retries + 1
<1>0. PICK p \in Records : p = puller[w]
  BY DEF RankingTypes
<1>1. ASSUME PullSucceeds(w)
      PROVE  \E r \in Records : puller' = [puller EXCEPT ![w] = r] /\ r.pc = "done"
  <2>1. puller' = [puller EXCEPT ![w] = [p EXCEPT !.pc = "done"]]
    BY <1>0, <1>1 DEF PullSucceeds
  <2>2. [p EXCEPT !.pc = "done"] \in Records /\ [p EXCEPT !.pc = "done"].pc = "done"
    BY DEF Records
  <2> QED
    BY <2>1, <2>2
<1>2. ASSUME PullFails(w)
      PROVE  \E r \in Records :
              /\ puller' = [puller EXCEPT ![w] = r] /\ r.pc = "rank"
              /\ r.source = p.source /\ r.retries = p.retries
  <2> DEFINE r == [p EXCEPT !.pc = "rank"]
  <2>1. puller' = [puller EXCEPT ![w] = r]
    BY <1>0, <1>2 DEF PullFails
  <2>2. r \in Records /\ r.pc = "rank" /\ r.source = p.source /\ r.retries = p.retries
    BY DEF Records
  <2> QED
    BY <2>1, <2>2
<1>3. ASSUME Rank(w)
      PROVE  \E r \in Records :
              /\ puller' = [puller EXCEPT ![w] = r] /\ r.pc = "switch"
              /\ r.source = p.source /\ r.retries = p.retries
              /\ Active \ {p.source} # {} => r.next = FirstOf(Active \ {p.source})
  <2> DEFINE rest == Active \ {p.source}
             n == IF rest = {} THEN 0 ELSE FirstOf(rest)
             r == [p EXCEPT !.pc = "switch", !.next = n]
  <2>1. rest # {} => FirstOf(rest) \in rest
    BY FirstExists DEF IsFirst, Active
  <2>2. n \in Active \cup {0}
    BY <2>1
  <2>3. puller' = [puller EXCEPT ![w] = r]
    BY <1>0, <1>3 DEF Rank
  <2> HIDE DEF n
  <2>4. r \in Records /\ r.pc = "switch" /\ r.source = p.source /\ r.retries = p.retries /\ r.next = n
    BY <2>2 DEF Records
  <2> QED
    BY <2>3, <2>4 DEF n
<1>4. ASSUME Switch(w)
      PROVE  \E r \in Records :
              /\ puller' = [puller EXCEPT ![w] = r]
              /\ p.next # 0 /\ failures[p.source] # 0 => r.source = p.next
              /\ r.source \in {p.source, p.next}
              /\ \/ p.retries >= MaxRetries /\ r.pc = "failed"
                 \/ p.retries < MaxRetries /\ r.pc = "pull" /\ r.retries = p.retries + 1
  <2> DEFINE s == IF p.next = 0 \/ failures[p.source] = 0 THEN p.source ELSE p.next
             f == [p EXCEPT !.pc = "failed", !.source = s]
             g == [p EXCEPT !.pc = "pull", !.source = s, !.retries = @ + 1, !.next = 0]
  <2>1. /\ s \in Active /\ (p.next # 0 /\ failures[p.source] # 0 => s = p.next)
        /\ s \in {p.source, p.next}
    BY DEF Records
  <2>2. puller' = [puller EXCEPT ![w] = IF p.retries >= MaxRetries THEN f ELSE g]
    BY <1>0, <1>4 DEF Switch
  <2>3. p.retries \in 0 .. MaxRetries /\ MaxRetries \in Nat
    BY RankingAssumption DEF Records
  <2> HIDE DEF s
  <2>4. f \in Records /\ f.pc = "failed" /\ f.source = s
    BY <2>1 DEF Records
  <2>5. ASSUME p.retries < MaxRetries
        PROVE  g \in Records /\ g.pc = "pull" /\ g.source = s /\ g.retries = p.retries + 1
    <3>1. p.retries + 1 \in 0 .. MaxRetries
      BY <2>3, <2>5
    <3> QED
      BY <2>1, <3>1 DEF Records
  <2> HIDE DEF f, g
  <2>6. CASE p.retries >= MaxRetries
    BY <2>1, <2>2, <2>4, <2>6
  <2>7. CASE p.retries < MaxRetries
    <3>1. ~(p.retries >= MaxRetries)
      BY <2>3, <2>7
    <3> QED
      BY <2>1, <2>2, <2>5, <2>7, <3>1
  <2> QED
    BY <2>3, <2>6, <2>7
<1> QED
  BY <1>0, <1>1, <1>2, <1>3, <1>4

(* Every step keeps the types. *)
LEMMA RankingTypesStep == RankingTypes /\ [Next]_vars => RankingTypes'
<1> SUFFICES ASSUME RankingTypes, RankingNext \/ UNCHANGED rankingVars PROVE RankingTypes'
  BY RankingAlone
<1>1. CASE UNCHANGED rankingVars
  BY <1>1 DEF rankingVars, RankingTypes
<1>2. ASSUME NEW w \in Pullers, PullSucceeds(w) \/ PullFails(w) \/ Rank(w) \/ Switch(w)
      PROVE  RankingTypes'
  <2>1. \E r \in Records : puller' = [puller EXCEPT ![w] = r]
    BY <1>2, PullerFacts
  <2>2. puller' \in [Pullers -> Records]
    BY <2>1 DEF RankingTypes
  <2>3. failures' \in [Mirrors -> Nat] /\ successes' \in [Mirrors -> Nat] /\ UNCHANGED <<works, primary>>
    <3>1. puller[w].source \in Mirrors
      BY DEF RankingTypes, Records, Active
    <3> QED
      BY <1>2, <3>1 DEF PullSucceeds, PullFails, Rank, Switch, RankingTypes
  <2> QED
    BY <2>2, <2>3 DEF RankingTypes
<1> QED
  BY <1>1, <1>2 DEF RankingNext

(* The places where a worker may fail: a source that does not always answer, with
   the number of successes it had by then.  A success opens one more. *)
Spots(S) == {x \in (Active \ works) \X Nat : x[2] <= S[x[1]]}
Done == {w \in Pullers : puller[w].pc = "done"}

(* The places where a worker has failed: as many as it has spent retries, and each
   that is still the present one of its source has a failure on record. *)
Here(s) == <<s, successes[s]>>
Tried(w, T) ==
  LET p == puller[w] IN
  /\ \A x \in T : x[2] = successes[x[1]] => failures[x[1]] # 0
  /\ p.pc = "pull" => Cardinality(T) = p.retries /\ Here(p.source) \notin T
  /\ p.pc \in {"rank", "switch"} => Cardinality(T) = p.retries + 1 /\ p.source \notin works
  /\ p.pc = "switch" => p.next \in Active /\ Here(p.next) \notin T

(* The inductive form of WorkingSourceIsFound. *)
Ranked ==
  /\ \A s \in works : failures[s] = 0
  /\ IsFiniteSet(Spots(successes))
  /\ Cardinality(Spots(successes)) <= Cardinality(Active \ works) + Cardinality(Done)
  /\ works # {} => \A w \in Pullers : \E T \in SUBSET Spots(successes) : Tried(w, T)
  /\ WorkingSourceIsFound

(* The finite sets of the ranking. *)
LEMMA RankingFinite ==
  ASSUME RankingTypes
  PROVE  /\ IsFiniteSet(Active \ works) /\ Cardinality(Active \ works) \in Nat
         /\ \A P \in SUBSET Pullers : IsFiniteSet(P) /\ Cardinality(P) \in Nat
                                      /\ Cardinality(P) <= Cardinality(Pullers)
         /\ Cardinality(Pullers) \in Nat
<1>1. Active \ works \in SUBSET Mirrors
  BY DEF Active
<1> QED
  BY <1>1, RankingAssumption, FS_Subset, FS_CardinalityType

(* A success opens at most one place, and ends a worker. *)
LEMMA SpotsGrow ==
  ASSUME RankingTypes, Ranked, NEW w \in Pullers,
         PullSucceeds(w) \/ PullFails(w) \/ Rank(w) \/ Switch(w)
  PROVE  /\ Spots(successes) \subseteq Spots(successes')
         /\ IsFiniteSet(Spots(successes'))
         /\ Cardinality(Spots(successes')) <= Cardinality(Active \ works) + Cardinality(Done')
<1>0. /\ puller \in [Pullers -> Records] /\ puller[w] \in Records /\ puller[w].source \in Mirrors
      /\ successes \in [Mirrors -> Nat] /\ Active \subseteq Mirrors
  BY DEF RankingTypes, Records, Active
<1>1. PICK r \in Records : puller' = [puller EXCEPT ![w] = r]
  BY PullerFacts
<1>2. \A v \in Pullers : puller'[v] = IF v = w THEN r ELSE puller[v]
  BY <1>0, <1>1
<1>3. Done \in SUBSET Pullers /\ Done' \in SUBSET Pullers
  BY DEF Done
<1>4. CASE PullSucceeds(w)
  <2> DEFINE s == puller[w].source
             n == successes[s] + 1
  <2>1. r.pc = "done" /\ puller[w].pc = "pull"
    <3>1. PICK q \in Records : puller' = [puller EXCEPT ![w] = q] /\ q.pc = "done"
      BY <1>4, PullerFacts
    <3>2. puller'[w] = q
      BY <1>0, <3>1
    <3> QED
      BY <1>2, <1>4, <3>1, <3>2 DEF PullSucceeds
  <2>2. Done' = Done \cup {w} /\ w \notin Done
    BY <1>2, <2>1 DEF Done
  <2>3. Cardinality(Done') = Cardinality(Done) + 1 /\ Cardinality(Done) \in Nat
    BY <1>3, <2>2, RankingFinite, FS_AddElement
  <2>4. \A t \in Mirrors : successes'[t] = IF t = s THEN n ELSE successes[t]
    BY <1>0, <1>4 DEF PullSucceeds
  <2>5. n \in Nat /\ n > successes[s]
    BY <1>0
  <2> HIDE DEF s, n
  <2>6. \A t \in Active \ works : t \in Mirrors /\ successes[t] \in Nat
    BY <1>0
  <2>7. Spots(successes) \subseteq Spots(successes')
    <3> SUFFICES ASSUME NEW t \in Active \ works, NEW m \in Nat, m <= successes[t]
                 PROVE  m <= successes'[t]
      BY DEF Spots
    <3> QED
      BY <2>4, <2>5, <2>6
  <2>8. Spots(successes') \subseteq Spots(successes) \cup {<<s, n>>}
    <3> SUFFICES ASSUME NEW t \in Active \ works, NEW m \in Nat, m <= successes'[t]
                 PROVE  m <= successes[t] \/ (t = s /\ m = n)
      BY DEF Spots
    <3>1. t # s => m <= successes[t]
      BY <2>4, <2>6
    <3>2. t = s => m <= successes[s] \/ m = n
      BY <2>4, <2>5, <2>6 DEF n
    <3> QED
      BY <3>1, <3>2
  <2>9. /\ IsFiniteSet(Spots(successes) \cup {<<s, n>>})
        /\ Cardinality(Spots(successes) \cup {<<s, n>>}) <= Cardinality(Spots(successes)) + 1
        /\ Cardinality(Spots(successes)) \in Nat
        /\ Cardinality(Spots(successes) \cup {<<s, n>>}) \in Nat
    <3>1. IsFiniteSet(Spots(successes)) /\ Cardinality(Spots(successes)) \in Nat
      BY FS_CardinalityType DEF Ranked
    <3>2. /\ IsFiniteSet(Spots(successes) \cup {<<s, n>>})
          /\ Cardinality(Spots(successes) \cup {<<s, n>>}) =
               IF <<s, n>> \in Spots(successes) THEN Cardinality(Spots(successes))
                                              ELSE Cardinality(Spots(successes)) + 1
      BY <3>1, FS_AddElement
    <3> QED
      BY <3>1, <3>2, FS_CardinalityType
  <2>10. /\ IsFiniteSet(Spots(successes')) /\ Cardinality(Spots(successes')) \in Nat
         /\ Cardinality(Spots(successes')) <= Cardinality(Spots(successes) \cup {<<s, n>>})
    BY <2>8, <2>9, FS_Subset, FS_CardinalityType
  <2>11. Cardinality(Spots(successes)) <= Cardinality(Active \ works) + Cardinality(Done)
    BY DEF Ranked
  <2>12. Cardinality(Spots(successes')) <= Cardinality(Active \ works) + Cardinality(Done')
    BY <2>3, <2>9, <2>10, <2>11, RankingFinite
  <2> QED
    BY <2>7, <2>10, <2>12
<1>5. CASE PullFails(w) \/ Rank(w) \/ Switch(w)
  <2>1. successes' = successes /\ puller[w].pc # "done"
    BY <1>5 DEF PullFails, Rank, Switch
  <2>2. Done \subseteq Done'
    BY <1>2, <2>1 DEF Done
  <2>3. Cardinality(Done) <= Cardinality(Done') /\ Cardinality(Done) \in Nat /\ Cardinality(Done') \in Nat
    BY <1>3, <2>2, RankingFinite, FS_Subset
  <2>4. /\ Cardinality(Spots(successes)) \in Nat /\ IsFiniteSet(Spots(successes))
        /\ Cardinality(Spots(successes)) <= Cardinality(Active \ works) + Cardinality(Done)
    BY FS_CardinalityType DEF Ranked
  <2>5. Cardinality(Spots(successes)) <= Cardinality(Active \ works) + Cardinality(Done')
    BY <2>3, <2>4, RankingFinite
  <2> QED
    BY <2>1, <2>4, <2>5
<1> QED
  BY <1>4, <1>5

(* Every step keeps it: a source that works has no failures, so what is ranked first
   after a failure has none, and the worker has not failed there since its last success. *)
LEMMA RankedStep ==
  ASSUME RankingTypes, Ranked, [Next]_vars
  PROVE  Ranked'
<1>0. RankingNext \/ UNCHANGED rankingVars
  BY RankingAlone
<1>1. CASE UNCHANGED rankingVars
  BY <1>1 DEF rankingVars, Ranked, WorkingSourceIsFound, Tried, Spots, Done, Here
<1>2. ASSUME NEW w \in Pullers, PullSucceeds(w) \/ PullFails(w) \/ Rank(w) \/ Switch(w)
      PROVE  Ranked'
  <2>0. /\ UNCHANGED works /\ failures \in [Mirrors -> Nat] /\ works \subseteq Active /\ Active \subseteq Mirrors
        /\ puller[w] \in Records /\ puller[w].source \in Active /\ puller[w].retries \in 0 .. MaxRetries
        /\ puller[w].next \in Active \cup {0} /\ MaxRetries \in Nat /\ successes \in [Mirrors -> Nat]
    BY <1>2, RankingAssumption DEF RankingTypes, Records, Active, PullSucceeds, PullFails, Rank, Switch
  <2>1. PICK r \in Records : puller' = [puller EXCEPT ![w] = r]
    BY <1>2, PullerFacts
  <2>2. \A v \in Pullers : puller'[v] = IF v = w THEN r ELSE puller[v]
    BY <2>1 DEF RankingTypes
  <2>3. \A s \in works : failures'[s] = 0
    <3>1. PullFails(w) => puller[w].source \notin works
      BY DEF PullFails
    <3> QED
      BY <1>2, <2>0, <3>1 DEF PullSucceeds, PullFails, Rank, Switch, Ranked
  <2>p. /\ Spots(successes) \subseteq Spots(successes') /\ IsFiniteSet(Spots(successes'))
        /\ Cardinality(Spots(successes')) <= Cardinality(Active \ works) + Cardinality(Done')
    BY <1>2, SpotsGrow
  <2>4. \A s \in Active : \/ successes'[s] = successes[s] /\ (failures[s] # 0 => failures'[s] # 0)
                          \/ successes'[s] = successes[s] + 1
    BY <1>2, <2>0 DEF PullSucceeds, PullFails, Rank, Switch
  <2>5. ASSUME NEW T \in SUBSET Spots(successes),
               \A x \in T : x[2] = successes[x[1]] => failures[x[1]] # 0
        PROVE  /\ \A x \in T : x[2] = successes'[x[1]] => failures'[x[1]] # 0
               /\ \A s \in Active : Here(s) \notin T => <<s, successes'[s]>> \notin T
    <3>1. \A x \in T : x[1] \in Active /\ x[2] \in Nat /\ x[2] <= successes[x[1]] /\ successes[x[1]] \in Nat
      BY <2>0 DEF Spots
    <3>2. ASSUME NEW x \in T, x[2] = successes'[x[1]] PROVE failures'[x[1]] # 0
      <4>1. successes'[x[1]] # successes[x[1]] + 1
        BY <3>1, <3>2
      <4> QED
        BY <2>4, <2>5, <3>1, <3>2, <4>1
    <3>3. ASSUME NEW s \in Active, Here(s) \notin T, <<s, successes'[s]>> \in T PROVE FALSE
      <4>1. successes'[s] <= successes[s] /\ successes[s] \in Nat
        BY <3>1, <3>3
      <4> QED
        BY <2>4, <3>3, <4>1 DEF Here
    <3> QED
      BY <3>2, <3>3
  <2>6. ASSUME works # {}
        PROVE  /\ \A v \in Pullers : \E T \in SUBSET Spots(successes') : Tried(v, T)'
               /\ Cardinality(Active \ works) + Cardinality(Pullers) <= MaxRetries + 1
                    /\ puller[w].pc # "failed" => r.pc # "failed"
    <3>1. ASSUME NEW v \in Pullers, v # w PROVE \E T \in SUBSET Spots(successes') : Tried(v, T)'
      <4>1. PICK T \in SUBSET Spots(successes) : Tried(v, T)
        BY <2>6 DEF Ranked
      <4>2. puller'[v] = puller[v] /\ puller[v].source \in Active
        BY <2>2, <3>1 DEF RankingTypes, Records
      <4>3. Tried(v, T)'
        BY <2>0, <2>5, <4>1, <4>2 DEF Tried, Here
      <4> QED
        BY <2>p, <4>1, <4>3
    <3>2. PICK T \in SUBSET Spots(successes) : Tried(w, T)
      BY <2>6 DEF Ranked
    <3>3. IsFiniteSet(T) /\ Cardinality(T) \in Nat /\ Cardinality(Spots(successes)) \in Nat
          /\ Cardinality(T) <= Cardinality(Spots(successes))
      BY FS_Subset, FS_CardinalityType DEF Ranked
    <3>4. CASE PullSucceeds(w)
      <4>1. r.pc = "done"
        <5>1. PICK q \in Records : puller' = [puller EXCEPT ![w] = q] /\ q.pc = "done"
          BY <3>4, PullerFacts
        <5>2. puller'[w] = q
          BY <5>1 DEF RankingTypes
        <5> QED
          BY <5>1, <5>2, <2>2
      <4>2. Tried(w, {})'
        BY <2>2, <4>1 DEF Tried
      <4> QED
        BY <3>1, <4>1, <4>2
    <3>5. CASE PullFails(w)
      <4> DEFINE x == Here(puller[w].source)
      <4>1. r.pc = "rank" /\ r.source = puller[w].source /\ r.retries = puller[w].retries
        <5>1. PICK q \in Records :
              /\ puller' = [puller EXCEPT ![w] = q] /\ q.pc = "rank"
              /\ q.source = puller[w].source /\ q.retries = puller[w].retries
          BY <3>5, PullerFacts
        <5>2. puller'[w] = q
          BY <5>1 DEF RankingTypes
        <5> QED
          BY <5>1, <5>2, <2>2
      <4>2. /\ puller[w].pc = "pull" /\ puller[w].source \notin works /\ successes' = successes
            /\ failures'[puller[w].source] # 0
        BY <2>0, <3>5 DEF PullFails
      <4>3. x \notin T /\ Cardinality(T) = puller[w].retries
        BY <3>2, <4>2 DEF Tried
      <4>4. x \in Spots(successes) /\ x[1] = puller[w].source
        <5>1. puller[w].source \in Active \ works /\ successes[puller[w].source] \in Nat
          BY <2>0, <4>2
        <5> QED
          BY <5>1 DEF Here, Spots
      <4> HIDE DEF x
      <4>5. Cardinality(T \cup {x}) = puller[w].retries + 1
        BY <3>3, <4>3, FS_AddElement
      <4>6. \A y \in T \cup {x} : y[2] = successes'[y[1]] => failures'[y[1]] # 0
        BY <2>5, <3>2, <4>2, <4>4 DEF Tried
      <4>7. PICK U \in SUBSET Spots(successes') : U = T \cup {x}
        BY <4>2, <4>4
      <4>8. Tried(w, U)'
        BY <2>0, <2>2, <4>1, <4>2, <4>5, <4>6, <4>7 DEF Tried
      <4> QED
        BY <3>1, <4>1, <4>8
    <3>6. CASE Rank(w)
      <4> DEFINE rest == Active \ {puller[w].source}
      <4>1. /\ r.pc = "switch" /\ r.source = puller[w].source /\ r.retries = puller[w].retries
            /\ rest # {} => r.next = FirstOf(rest)
        <5>1. PICK q \in Records :
              /\ puller' = [puller EXCEPT ![w] = q] /\ q.pc = "switch"
              /\ q.source = puller[w].source /\ q.retries = puller[w].retries
              /\ rest # {} => q.next = FirstOf(rest)
          BY <3>6, PullerFacts
        <5>2. puller'[w] = q
          BY <5>1 DEF RankingTypes
        <5> QED
          BY <5>1, <5>2, <2>2
      <4>2. puller[w].pc = "rank" /\ failures' = failures /\ successes' = successes
        BY <3>6 DEF Rank
      <4>3. puller[w].source \notin works /\ Cardinality(T) = puller[w].retries + 1
        BY <3>2, <4>2 DEF Tried
      <4>4. PICK g \in works : TRUE
        BY <2>6
      <4>5. g \in rest /\ failures[g] = 0 /\ rest \in SUBSET Mirrors
        BY <2>0, <4>3, <4>4 DEF Ranked
      <4>6. IsFirst(FirstOf(rest), rest)
        BY <4>5, FirstExists
      <4>7. failures[FirstOf(rest)] = 0 /\ FirstOf(rest) \in rest
        <5>1. FirstOf(rest) \in rest /\ FirstOf(rest) \in Mirrors /\ failures[FirstOf(rest)] \in Nat
          BY <2>0, <4>5, <4>6 DEF IsFirst
        <5>2. FirstOf(rest) = g \/ Before(FirstOf(rest), g)
          BY <4>5, <4>6 DEF IsFirst
        <5>3. failures[FirstOf(rest)] <= 0
          BY <4>5, <5>1, <5>2, BeforeOrders
        <5> QED
          BY <5>1, <5>3
      <4>8. FirstOf(rest) \in Active /\ Here(FirstOf(rest)) \notin T
        BY <3>2, <4>7 DEF Tried, Here
      <4>9. Tried(w, T)'
        BY <2>0, <2>2, <3>2, <4>1, <4>2, <4>3, <4>5, <4>8 DEF Tried, Here
      <4> QED
        BY <2>p, <3>1, <4>1, <4>9
    <3>7. CASE Switch(w)
      <4>1. puller[w].pc = "switch" /\ failures' = failures /\ successes' = successes
        BY <3>7 DEF Switch
      <4>2. /\ Cardinality(T) = puller[w].retries + 1 /\ puller[w].source \notin works
            /\ puller[w].next \in Active /\ Here(puller[w].next) \notin T
            /\ \A x \in T : x[2] = successes[x[1]] => failures[x[1]] # 0
        BY <3>2, <4>1 DEF Tried
      <4>3. puller[w].next # 0
        BY <2>0, <4>2, RankingAssumption
      <4>4. /\ r.source = puller[w].next \/ failures[r.source] = 0
            /\ \/ puller[w].retries >= MaxRetries /\ r.pc = "failed"
               \/ puller[w].retries < MaxRetries /\ r.pc = "pull" /\ r.retries = puller[w].retries + 1
        <5>1. PICK q \in Records :
              /\ puller' = [puller EXCEPT ![w] = q]
              /\ puller[w].next # 0 /\ failures[puller[w].source] # 0 => q.source = puller[w].next
              /\ q.source \in {puller[w].source, puller[w].next}
              /\ \/ puller[w].retries >= MaxRetries /\ q.pc = "failed"
                 \/ puller[w].retries < MaxRetries /\ q.pc = "pull" /\ q.retries = puller[w].retries + 1
          BY <3>7, PullerFacts
        <5>2. r = q
          BY <2>2, <5>1 DEF RankingTypes
        <5>3. failures[puller[w].source] # 0 => q.source = puller[w].next
          BY <4>3, <5>1
        <5> QED
          BY <5>1, <5>2, <5>3
      <4>5. Here(r.source) \notin T
        <5>1. CASE r.source = puller[w].next
          BY <4>2, <5>1
        <5>2. CASE failures[r.source] = 0
          BY <4>2, <5>2 DEF Here
        <5> QED
          BY <4>4, <5>1, <5>2
      <4>6. Cardinality(Active \ works) + Cardinality(Pullers) <= MaxRetries + 1 => r.pc # "failed"
        <5>1. Done \in SUBSET (Pullers \ {w})
          BY <4>1 DEF Done
        <5>2. /\ Cardinality(Pullers \ {w}) = Cardinality(Pullers) - 1 /\ IsFiniteSet(Pullers \ {w})
          BY RankingAssumption, FS_RemoveElement, RankingFinite
        <5>3. Cardinality(Done) <= Cardinality(Pullers) - 1 /\ Cardinality(Done) \in Nat
          BY <5>1, <5>2, FS_Subset, FS_CardinalityType
        <5>4. Cardinality(Spots(successes)) <= Cardinality(Active \ works) + Cardinality(Done)
          BY DEF Ranked
        <5>5. /\ Cardinality(Active \ works) \in Nat /\ Cardinality(Pullers) \in Nat
              /\ puller[w].retries \in Nat
          BY <2>0, RankingFinite
        <5>6. puller[w].retries + 1 <= Cardinality(Active \ works) + Cardinality(Pullers) - 1
          BY <3>3, <4>2, <5>3, <5>4, <5>5
        <5> QED
          BY <2>0, <4>4, <5>5, <5>6
      <4>7. Tried(w, T)'
        BY <2>0, <2>2, <3>2, <4>1, <4>2, <4>4, <4>5 DEF Tried, Here
      <4> QED
        BY <2>p, <3>1, <4>6, <4>7
    <3> QED
      BY <1>2, <3>4, <3>5, <3>6, <3>7
  <2>7. WorkingSourceIsFound'
    BY <2>0, <2>2, <2>6 DEF WorkingSourceIsFound, Ranked, Active
  <2>8. Spots(successes)' = Spots(successes') /\ (Active \ works)' = Active \ works
    BY <2>0 DEF Spots, Active
  <2> QED
    BY <2>0, <2>3, <2>p, <2>6, <2>7, <2>8 DEF Ranked
<1> QED
  BY <1>0, <1>1, <1>2 DEF RankingNext

(* At first there is one place of each source. *)
LEMMA RankedInit ==
  ASSUME Init
  PROVE  Ranked
<1>1. RankingTypes
  BY RankingTypesInit
<1>2. /\ \A s \in works : failures[s] = 0
      /\ \A s \in Mirrors : successes[s] = 0
      /\ \A w \in Pullers : puller[w].pc = "pull" /\ puller[w].retries = 0
  BY DEF Init, RankingInit, Active
<1>3. \A w \in Pullers : Tried(w, {})
  BY <1>2, FS_EmptySet DEF Tried
<1>4. Spots(successes) \subseteq (Active \ works) \X {0}
  BY <1>2 DEF Spots, Active
<1>5. /\ IsFiniteSet((Active \ works) \X {0})
      /\ Cardinality((Active \ works) \X {0}) = Cardinality(Active \ works)
  <2>1. IsFiniteSet({0}) /\ Cardinality({0}) = 1
    BY FS_Singleton
  <2>2. Cardinality((Active \ works) \X {0}) = Cardinality(Active \ works) * 1
    BY <1>1, <2>1, RankingFinite, FS_Product
  <2> QED
    BY <1>1, <2>1, <2>2, RankingFinite, FS_Product
<1>6. /\ IsFiniteSet(Spots(successes)) /\ Cardinality(Spots(successes)) <= Cardinality(Active \ works)
      /\ Cardinality(Spots(successes)) \in Nat
  BY <1>4, <1>5, FS_Subset, FS_CardinalityType
<1>7. Done \in SUBSET Pullers
  BY DEF Done
<1>8. Cardinality(Spots(successes)) <= Cardinality(Active \ works) + Cardinality(Done)
  BY <1>1, <1>6, <1>7, RankingFinite
<1> QED
  BY <1>2, <1>3, <1>6, <1>8 DEF Ranked, WorkingSourceIsFound

(* A worker with a retry for each source that does not always answer, and for each  *)
(* other worker, finds one that does.                                               *)
THEOREM WorkingSourceIsFoundCorrect == Spec => []WorkingSourceIsFound
<1>1. Init => RankingTypes /\ Ranked
  BY RankingTypesInit, RankedInit
<1>2. RankingTypes /\ Ranked /\ [Next]_vars => (RankingTypes /\ Ranked)'
  BY RankingTypesStep, RankedStep
<1>3. Ranked => WorkingSourceIsFound
  BY DEF Ranked
<1> QED
  BY <1>1, <1>2, <1>3, PTL DEF Spec

-----------------------------------------------------------------------------
(* The probe *)

(* Only the probe changes the state of the probe. *)
LEMMA ProbeAlone ==
  ASSUME [Next]_vars
  PROVE  ProbeNext \/ UNCHANGED probeVars
BY DEF Next, vars, Limiting, Waiting

(* A length and a validator that a header may tell. *)
ToldLengths == {NoLength} \cup {Lengths[v] : v \in Versions}
Tags == {NoTag} \cup Versions
Probes == [length : ToldLengths, ranges : BOOLEAN, tag : Tags]

(* The answer to HEAD, if there is one, is of one version throughout. *)
HeadIsOfOneVersion ==
  \/ asked.head = 0 /\ head.length = NoLength /\ head.tag = NoTag
  \/ /\ asked.head \in Versions
     /\ head.length \in {NoLength, Lengths[asked.head]} /\ head.tag \in {NoTag, asked.head}

(* ProbeIsOfOneVersion with what it rests on. *)
ProbeInvariant ==
  /\ server \in Servers /\ version \in Versions
  /\ asked \in [head : Versions \cup {0}, get : Versions \cup {0}]
  /\ head \in Probes
  /\ HeadIsOfOneVersion
  /\ probing # "done" => asked.get = 0
  /\ probing = "empty" => head.length = 0
  /\ ProbeIsOfOneVersion

(* It holds at first. *)
LEMMA ProbeStarts ==
  ASSUME Init
  PROVE  ProbeInvariant
<1>1. PICK n \in Nat \ {0} : Versions = 1 .. n
  BY ProbeAssumption DEF Versions
<1>2. /\ server \in Servers /\ version = 1 /\ probing = "head" /\ head = NoProbe
      /\ asked = [head |-> 0, get |-> 0]
  BY DEF Init, ProbeInit
<1>3. version \in Versions
  BY <1>1, <1>2
<1>4. head \in Probes /\ head.length = NoLength /\ head.tag = NoTag
  BY <1>2 DEF NoProbe, Probes, ToldLengths, Tags
<1>5. asked \in [head : Versions \cup {0}, get : Versions \cup {0}] /\ asked.head = 0 /\ asked.get = 0
  BY <1>2
<1> QED
  BY <1>2, <1>3, <1>4, <1>5 DEF ProbeInvariant, HeadIsOfOneVersion, ProbeIsOfOneVersion

(* Every step keeps it, a replaced resource included. *)
LEMMA ProbeStep ==
  ASSUME ProbeInvariant, [Next]_vars
  PROVE  ProbeInvariant'
<1>0. ProbeNext \/ UNCHANGED probeVars
  BY ProbeAlone
<1>1. PICK n \in Nat \ {0} : Versions = 1 .. n /\ 0 \notin Versions /\ \A v \in Versions : Lengths[v] \in Nat
  <2>1. Len(Lengths) \in Nat \ {0} /\ DOMAIN Lengths = 1 .. Len(Lengths) /\ Lengths \in Seq(Nat)
    BY ProbeAssumption
  <2>2. Versions = 1 .. Len(Lengths) /\ 0 \notin Versions
    BY <2>1 DEF Versions
  <2>3. \A v \in Versions : Lengths[v] \in Nat
    BY <2>1, <2>2
  <2> QED
    BY <2>1, <2>2, <2>3
<1>t. /\ asked \in [head : Versions \cup {0}, get : Versions \cup {0}]
      /\ head \in Probes /\ version \in Versions /\ server \in Servers
  BY DEF ProbeInvariant
<1>s. server.getLength \in BOOLEAN /\ server.getTag \in BOOLEAN /\ server.accepts \in BOOLEAN
      /\ server.headLength \in BOOLEAN /\ server.headTag \in BOOLEAN
  BY <1>t, ProbeAssumption
<1>2. CASE UNCHANGED probeVars
  BY <1>2 DEF probeVars, ProbeInvariant, HeadIsOfOneVersion, ProbeIsOfOneVersion, Versions
<1>3. CASE Replace
  BY <1>3 DEF Replace, ProbeInvariant, HeadIsOfOneVersion, ProbeIsOfOneVersion, Versions
<1>4. CASE AskHead
  <2>0. /\ probing = "head" /\ probing' # "done" /\ asked.get = 0
        /\ UNCHANGED <<server, version>>
    BY <1>4 DEF AskHead, ProbeInvariant
  <2>1. CASE UNCHANGED <<head, asked>> /\ probing' # "empty"
    BY <2>0, <2>1 DEF ProbeInvariant, HeadIsOfOneVersion, ProbeIsOfOneVersion, Versions
  <2>2. CASE /\ head' = [length |-> Length(server.headLength), ranges |-> server.accepts,
                         tag |-> Tag(server.headTag)]
             /\ asked' = [asked EXCEPT !.head = version]
             /\ probing' = IF head'.length = 0 THEN "empty" ELSE "get"
    <3>1. /\ Length(server.headLength) \in ToldLengths
          /\ Length(server.headLength) \in {NoLength, Lengths[version]}
          /\ Tag(server.headTag) \in Tags /\ Tag(server.headTag) \in {NoTag, version}
      BY <1>t DEF Length, Tag, Told, ToldLengths, Tags
    <3>2. /\ head' \in Probes /\ head'.length \in {NoLength, Lengths[version]}
          /\ head'.tag \in {NoTag, version}
      BY <1>s, <2>2, <3>1 DEF Probes
    <3>3. /\ asked' \in [head : Versions \cup {0}, get : Versions \cup {0}]
          /\ asked'.head = version /\ asked'.get = 0
      BY <1>t, <2>0, <2>2
    <3> QED
      BY <1>t, <2>0, <2>2, <3>2, <3>3 DEF ProbeInvariant, HeadIsOfOneVersion, ProbeIsOfOneVersion
  <2> QED
    BY <1>4, <2>1, <2>2 DEF AskHead
<1>5. CASE Empty
  <2>1. /\ probing = "empty" /\ probe' = head /\ UNCHANGED <<server, version, head, asked>>
        /\ head.length = 0 /\ asked.get = 0 /\ probing' = "done"
    BY <1>5 DEF Empty, ProbeInvariant
  <2>2. /\ asked.head \in Versions /\ head.length = Lengths[asked.head]
        /\ head.tag \in {NoTag, asked.head}
    BY <2>1 DEF ProbeInvariant, HeadIsOfOneVersion, NoLength
  <2>3. ProbeIsOfOneVersion'
    BY <1>1, <2>1, <2>2 DEF ProbeIsOfOneVersion
  <2> QED
    BY <2>1, <2>3 DEF ProbeInvariant, HeadIsOfOneVersion
<1>6. CASE GetFirstByte
  <2>0. probing = "get" /\ UNCHANGED <<server, version, head>>
    BY <1>6 DEF GetFirstByte
  <2>1. CASE probing' = "failed" /\ UNCHANGED <<probe, asked>>
    BY <2>0, <2>1 DEF ProbeInvariant, HeadIsOfOneVersion, ProbeIsOfOneVersion
  <2>2. CASE /\ probing' = "done" /\ asked' = [asked EXCEPT !.get = version]
             /\ probe' = [length |-> IF Status = "partial" THEN Length(server.getLength)
                                     ELSE OrHead(Length(server.getLength)),
                          ranges |-> Status = "partial" \/ (Status = "unsatisfiable"
                                                            /\ OrHead(Length(server.getLength)) > 0),
                          tag |-> Merged(Tag(server.getTag))]
    <3>1. /\ asked' \in [head : Versions \cup {0}, get : Versions \cup {0}]
          /\ asked'.head = asked.head /\ asked'.get = version
      BY <1>t, <2>2
    <3>2. version # 0 /\ Lengths[version] # NoLength
      BY <1>1, <1>t DEF NoLength
    <3>3. server.getLength /\ server.getTag => probe'.length = Lengths[version] /\ probe'.tag = version
      BY <2>2, <3>2 DEF Length, Tag, Told, OrHead, Merged, NoTag
    <3>4. ProbeIsOfOneVersion'
      BY <2>0, <3>1, <3>2, <3>3 DEF ProbeIsOfOneVersion
    <3> QED
      BY <2>0, <2>2, <3>1, <3>4 DEF ProbeInvariant, HeadIsOfOneVersion
  <2> QED
    BY <1>6, <2>1, <2>2 DEF GetFirstByte
<1> QED
  BY <1>0, <1>2, <1>3, <1>4, <1>5, <1>6 DEF ProbeNext

(* Length and validator of a probe are those of one version. *)
THEOREM ProbeIsOfOneVersionCorrect == Spec => []ProbeIsOfOneVersion
<1>1. ProbeInvariant => ProbeIsOfOneVersion
  BY DEF ProbeInvariant
<1> QED
  BY <1>1, ProbeStarts, ProbeStep, PTL DEF Spec

-----------------------------------------------------------------------------
(* Where the files of a payload end *)

(* What the recursion of EndOf asks of a function. *)
EndsUpTo(f, k) == f = [i \in 0 .. k |-> IF i = 0 THEN 0 ELSE f[i - 1] + layout[i]]

(* EndOf is the last value of such a function. *)
LEMMA EndIsChosen ==
  ASSUME NEW k
  PROVE  EndOf(k) = (CHOOSE f : EndsUpTo(f, k))[k]
BY DEF EndOf, EndsUpTo

(* Such a function exists, since a least k without one would have one, ... *)
LEMMA EndsExist ==
  ASSUME layout \in Seq(Nat), NEW k \in 0 .. Len(layout)
  PROVE  \E f : EndsUpTo(f, k)
<1> DEFINE S == {n \in 0 .. Len(layout) : ~ \E f : EndsUpTo(f, n)}
<1> SUFFICES ASSUME S # {} PROVE FALSE
  OBVIOUS
<1>1. PICK n \in S : \A m \in S : n <= m
  <2> S \in SUBSET Nat
    OBVIOUS
  <2> HIDE DEF S
  <2> QED BY LeastNumber
<1>2. n \in Nat /\ n <= Len(layout) /\ ~ \E f : EndsUpTo(f, n)
  OBVIOUS
<1>3. CASE n = 0
  <2> DEFINE f == [i \in 0 .. 0 |-> 0]
  <2>1. EndsUpTo(f, 0)
    BY DEF EndsUpTo
  <2> QED BY <1>2, <1>3, <2>1
<1>4. CASE n # 0
  <2>1. n - 1 \in 0 .. Len(layout) /\ n - 1 \notin S
    BY <1>1, <1>2, <1>4
  <2>2. PICK g : EndsUpTo(g, n - 1)
    BY <2>1
  <2> DEFINE f == [i \in 0 .. n |-> IF i = n THEN g[n - 1] + layout[n] ELSE g[i]]
  <2>3. \A i \in 0 .. n - 1 : g[i] = IF i = 0 THEN 0 ELSE g[i - 1] + layout[i]
    BY <2>2 DEF EndsUpTo
  <2>4. \A i \in 0 .. n : f[i] = IF i = 0 THEN 0 ELSE f[i - 1] + layout[i]
    BY <1>2, <1>4, <2>3
  <2>5. f = [i \in 0 .. n |-> IF i = 0 THEN 0 ELSE f[i - 1] + layout[i]]
    BY <2>4
  <2> QED BY <1>2, <2>5 DEF EndsUpTo
<1> QED BY <1>3, <1>4

(* ... and two of them agree. *)
LEMMA EndsAgree ==
  ASSUME NEW k \in Nat, NEW m \in Nat, k <= m, NEW f, NEW g, EndsUpTo(f, k), EndsUpTo(g, m)
  PROVE  \A i \in 0 .. k : f[i] = g[i]
<1> DEFINE S == {i \in 0 .. k : f[i] # g[i]}
<1> SUFFICES ASSUME S # {} PROVE FALSE
  OBVIOUS
<1>1. PICK n \in S : \A j \in S : n <= j
  <2> S \in SUBSET Nat
    OBVIOUS
  <2> HIDE DEF S
  <2> QED BY LeastNumber
<1>2. n \in 0 .. k /\ f[n] # g[n]
  OBVIOUS
<1>3. /\ f[n] = IF n = 0 THEN 0 ELSE f[n - 1] + layout[n]
      /\ g[n] = IF n = 0 THEN 0 ELSE g[n - 1] + layout[n]
  BY <1>2 DEF EndsUpTo
<1>4. n # 0 => n - 1 \in 0 .. k /\ n - 1 \notin S
  BY <1>1, <1>2
<1> QED BY <1>2, <1>3, <1>4

(* Each file begins where the one before ends. *)
LEMMA Ends ==
  ASSUME layout \in Seq(Nat)
  PROVE  /\ EndOf(0) = 0
         /\ \A k \in 1 .. Len(layout) : EndOf(k) = EndOf(k - 1) + layout[k]
<1> DEFINE F(k) == CHOOSE f : EndsUpTo(f, k)
<1>1. \A k \in 0 .. Len(layout) : EndsUpTo(F(k), k) /\ EndOf(k) = F(k)[k]
  BY EndIsChosen, EndsExist
<1> HIDE DEF F
<1>2. EndOf(0) = 0
  <2>1. EndsUpTo(F(0), 0) /\ EndOf(0) = F(0)[0]
    BY <1>1
  <2> QED BY <2>1 DEF EndsUpTo
<1>3. ASSUME NEW k \in 1 .. Len(layout)
      PROVE  EndOf(k) = EndOf(k - 1) + layout[k]
  <2>1. /\ EndsUpTo(F(k), k) /\ EndOf(k) = F(k)[k]
        /\ EndsUpTo(F(k - 1), k - 1) /\ EndOf(k - 1) = F(k - 1)[k - 1]
    BY <1>1
  <2>2. F(k)[k - 1] = F(k - 1)[k - 1]
    BY <2>1, EndsAgree
  <2>3. F(k)[k] = F(k)[k - 1] + layout[k]
    BY <2>1 DEF EndsUpTo
  <2> QED BY <2>1, <2>2, <2>3
<1> QED BY <1>2, <1>3

(* Ends are numbers, in order. *)
LEMMA EndsInOrder ==
  ASSUME layout \in Seq(Nat)
  PROVE  /\ \A k \in 0 .. Len(layout) : EndOf(k) \in Nat
         /\ \A j \in 0 .. Len(layout) : \A i \in 0 .. j : EndOf(i) <= EndOf(j)
<1>1. \A k \in 0 .. Len(layout) : EndOf(k) \in Nat
  <2> DEFINE S == {k \in 0 .. Len(layout) : EndOf(k) \notin Nat}
  <2> SUFFICES ASSUME S # {} PROVE FALSE
    OBVIOUS
  <2>1. PICK n \in S : \A j \in S : n <= j
    <3> S \in SUBSET Nat
      OBVIOUS
    <3> HIDE DEF S
    <3> QED BY LeastNumber
  <2>2. n \in 0 .. Len(layout) /\ EndOf(n) \notin Nat
    OBVIOUS
  <2>3. n # 0
    BY <2>2, Ends
  <2>4. n - 1 \in 0 .. Len(layout) /\ n - 1 \notin S /\ n \in 1 .. Len(layout)
    BY <2>1, <2>2, <2>3
  <2>5. EndOf(n - 1) \in Nat /\ layout[n] \in Nat
    BY <2>4
  <2>6. EndOf(n) = EndOf(n - 1) + layout[n]
    BY <2>4, Ends
  <2> QED BY <2>2, <2>5, <2>6
<1>2. ASSUME NEW i \in Nat
      PROVE  \A j \in i .. Len(layout) : EndOf(i) <= EndOf(j)
  <2> DEFINE S == {j \in i .. Len(layout) : ~(EndOf(i) <= EndOf(j))}
  <2> SUFFICES ASSUME S # {} PROVE FALSE
    OBVIOUS
  <2>1. PICK n \in S : \A j \in S : n <= j
    <3> S \in SUBSET Nat
      OBVIOUS
    <3> HIDE DEF S
    <3> QED BY LeastNumber
  <2>2. n \in i .. Len(layout) /\ ~(EndOf(i) <= EndOf(n))
    OBVIOUS
  <2>3. n # i
    BY <1>1, <2>2
  <2>4. n - 1 \in i .. Len(layout) /\ n - 1 \notin S /\ n \in 1 .. Len(layout)
    BY <2>1, <2>2, <2>3
  <2>5. EndOf(i) <= EndOf(n - 1) /\ layout[n] \in Nat
    BY <2>4
  <2>6. EndOf(n) = EndOf(n - 1) + layout[n]
    BY <2>4, Ends
  <2>7. EndOf(i) \in Nat /\ EndOf(n - 1) \in Nat
    BY <1>1, <2>2, <2>4
  <2> QED BY <2>2, <2>5, <2>6, <2>7
<1> QED BY <1>1, <1>2

-----------------------------------------------------------------------------
(* The parts of a slice *)

Parts == [file : Segments, at : Nat, first : Nat, size : Nat \ {0}]
SliceRests == [start : Nat, left : Nat, sent : Nat, parts : Seq(Parts)]

(* Where a file begins in the payload. *)
Base(k) == IF Bounded THEN StartOf(k) ELSE 0

(* A part of the first bytes of a slice is inside of its file. *)
GoodPart(p, offset, sent) ==
  /\ p \in Parts
  /\ p.first + p.size <= sent
  /\ Base(p.file) + p.at = offset + p.first
  /\ IF Bounded THEN p.at + p.size <= layout[p.file] ELSE p.file = 1

Bytes(p) == p.first .. p.first + p.size - 1

GoodParts(s, offset, sent) ==
  /\ s \in Seq(Parts)
  /\ \A j \in 1 .. Len(s) : GoodPart(s[j], offset, sent)
  /\ \A g \in 0 .. sent - 1 : \E j \in 1 .. Len(s) : g \in Bytes(s[j])

(* What is left of a slice after the first k files. *)
GoodRest(r, k, offset, size) ==
  /\ r \in SliceRests
  /\ r.start = offset + r.sent /\ r.sent + r.left = size
  /\ r.left = 0 \/ r.start >= EndOf(k)
  /\ GoodParts(r.parts, offset, r.sent)

(* A file begins and ends at numbers. *)
LEMMA FileTypes ==
  ASSUME layout \in Seq(Nat), NEW k \in Segments
  PROVE  /\ k \in 1 .. Len(layout) /\ layout[k] \in Nat
         /\ StartOf(k) \in Nat /\ EndOf(k) \in Nat /\ StartOf(k) = EndOf(k - 1)
         /\ EndOf(k) = StartOf(k) + layout[k]
<1>1. k \in 1 .. Len(layout) /\ k - 1 \in 0 .. Len(layout) /\ k \in 0 .. Len(layout) /\ layout[k] \in Nat
  BY DEF Segments
<1>2. EndOf(k) \in Nat /\ EndOf(k - 1) \in Nat /\ EndOf(k) = EndOf(k - 1) + layout[k]
  BY <1>1, Ends, EndsInOrder
<1> QED
  BY <1>1, <1>2 DEF StartOf

(* One part more. *)
LEMMA OnePartMore ==
  ASSUME NEW parts, NEW p, NEW offset \in Nat, NEW sent \in Nat, NEW n \in Nat,
         GoodParts(parts, offset, sent), GoodPart(p, offset, sent + n), p.first = sent, p.size = n
  PROVE  GoodParts(Append(parts, p), offset, sent + n)
<1>1. parts \in Seq(Parts) /\ p \in Parts
  BY DEF GoodParts, GoodPart
<1>2. /\ Append(parts, p) \in Seq(Parts) /\ Len(Append(parts, p)) = Len(parts) + 1
      /\ \A j \in 1 .. Len(parts) : Append(parts, p)[j] = parts[j]
      /\ Append(parts, p)[Len(parts) + 1] = p
      /\ Len(parts) \in Nat
  BY <1>1
<1>3. \A j \in 1 .. Len(parts) : GoodPart(parts[j], offset, sent + n)
  <2> SUFFICES ASSUME NEW j \in 1 .. Len(parts) PROVE GoodPart(parts[j], offset, sent + n)
    OBVIOUS
  <2>1. GoodPart(parts[j], offset, sent)
    BY DEF GoodParts
  <2>2. PICK a \in Nat, b \in Nat : a = parts[j].first /\ b = parts[j].size
    BY <2>1 DEF GoodPart, Parts
  <2>3. a + b <= sent
    BY <2>1, <2>2 DEF GoodPart
  <2>4. a + b <= sent + n
    BY <2>3
  <2> QED BY <2>1, <2>2, <2>4 DEF GoodPart
<1>4. \A j \in 1 .. Len(parts) + 1 : GoodPart(Append(parts, p)[j], offset, sent + n)
  <2> SUFFICES ASSUME NEW j \in 1 .. Len(parts) + 1
               PROVE  GoodPart(Append(parts, p)[j], offset, sent + n)
    OBVIOUS
  <2>1. j \in 1 .. Len(parts) \/ j = Len(parts) + 1
    BY <1>2
  <2> QED BY <1>2, <1>3, <2>1
<1>5. ASSUME NEW g \in 0 .. (sent + n) - 1
      PROVE  \E j \in 1 .. Len(parts) + 1 : g \in Bytes(Append(parts, p)[j])
  <2>1. CASE g < sent
    <3>1. g \in 0 .. sent - 1
      BY <2>1
    <3>2. PICK j \in 1 .. Len(parts) : g \in Bytes(parts[j])
      BY <3>1 DEF GoodParts
    <3>3. j \in 1 .. Len(parts) + 1 /\ Append(parts, p)[j] = parts[j]
      BY <1>2
    <3> QED BY <3>2, <3>3
  <2>2. CASE ~(g < sent)
    <3>1. g \in Bytes(p)
      BY <2>2 DEF Bytes
    <3>2. Len(parts) + 1 \in 1 .. Len(parts) + 1
      BY <1>2
    <3> QED BY <1>2, <3>1, <3>2
  <2> QED BY <2>1, <2>2
<1> QED BY <1>2, <1>4, <1>5 DEF GoodParts

(* One more file takes what fits into it. *)
LEMMA TakeKeeps ==
  ASSUME layout \in Seq(Nat), Bounded, NEW k \in Segments, NEW r, NEW offset \in Nat, NEW size \in Nat,
         GoodRest(r, k - 1, offset, size)
  PROVE  GoodRest(Take(k, r), k, offset, size)
<1>1. PICK begins \in Nat, ends \in Nat :
        /\ begins = StartOf(k) /\ ends = EndOf(k)
        /\ begins = EndOf(k - 1) /\ layout[k] = ends - begins
  <2>1. /\ StartOf(k) \in Nat /\ EndOf(k) \in Nat /\ layout[k] \in Nat
        /\ StartOf(k) = EndOf(k - 1) /\ EndOf(k) = StartOf(k) + layout[k]
    BY FileTypes
  <2>2. layout[k] = EndOf(k) - StartOf(k)
    BY <2>1
  <2> QED BY <2>1, <2>2
<1>2. PICK start \in Nat, left \in Nat, sent \in Nat :
        /\ start = r.start /\ left = r.left /\ sent = r.sent
        /\ start = offset + sent /\ sent + left = size /\ (left = 0 \/ start >= begins)
  BY <1>1 DEF GoodRest, SliceRests
<1>n. start = offset + sent /\ sent + left = size /\ (left = 0 \/ start >= begins)
  BY <1>2
<1>g. GoodParts(r.parts, offset, sent)
  BY <1>2 DEF GoodRest
<1>3. left # 0 => Largest(start, begins) = start
  BY <1>2 DEF Largest
<1>4. CASE left = 0
  BY <1>2, <1>4 DEF Take, GoodRest
<1>5. CASE left # 0 /\ start >= ends
  <2>1. Take(k, r) = r
    BY <1>1, <1>2, <1>3, <1>5 DEF Take
  <2> QED BY <1>1, <1>2, <1>5, <2>1 DEF GoodRest
<1>6. CASE left # 0 /\ start < ends
  <2>0. PICK n \in Nat : n = IF ends - start < left THEN ends - start ELSE left
    <3>1. ends - start \in Nat
      BY <1>6
    <3> QED BY <3>1
  <2>1. /\ n # 0 /\ n <= left /\ start + n <= ends
        /\ n = left \/ start + n = ends
    BY <1>6, <2>0
  <2>2. PICK at \in Nat, rest \in Nat : at = start - begins /\ rest = left - n
    <3>1. start - begins \in Nat /\ left - n \in Nat
      BY <1>n, <1>6, <2>1
    <3> QED BY <3>1
  <2> DEFINE p == [file |-> k, at |-> at, first |-> sent, size |-> n]
             q == [start |-> start + n, left |-> rest, sent |-> sent + n,
                   parts |-> Append(r.parts, p)]
  <2>3. Take(k, r) = q
    <3>1. start < EndOf(k) /\ ~(start >= EndOf(k))
      BY <1>1, <1>6
    <3> QED BY <1>1, <1>2, <1>3, <1>6, <2>0, <2>2, <3>1 DEF Take, Least
  <2>4. p \in Parts
    BY <2>1 DEF Parts
  <2>5. GoodPart(p, offset, sent + n)
    <3>1. begins + at = offset + sent /\ at + n <= ends - begins
      BY <1>n, <2>1, <2>2
    <3>2. p.file = k /\ p.at = at /\ p.first = sent /\ p.size = n
      OBVIOUS
    <3>3. Base(k) = begins
      BY <1>1 DEF Base
    <3>4. p.first + p.size <= sent + n
      BY <3>2
    <3>5. Base(p.file) + p.at = offset + p.first
      BY <3>1, <3>2, <3>3
    <3>6. p.at + p.size <= layout[p.file]
      BY <1>1, <3>1, <3>2
    <3> QED BY <2>4, <3>4, <3>5, <3>6 DEF GoodPart
  <2>6. GoodParts(Append(r.parts, p), offset, sent + n)
    <3>1. p.first = sent /\ p.size = n
      OBVIOUS
    <3> HIDE DEF p
    <3> QED BY <1>g, <2>5, <3>1, OnePartMore
  <2>7. q \in SliceRests
    <3>1. Append(r.parts, p) \in Seq(Parts)
      BY <2>6 DEF GoodParts
    <3> HIDE DEF p
    <3> QED BY <3>1 DEF SliceRests
  <2>8. /\ q.start = offset + q.sent /\ q.sent + q.left = size
        /\ q.left = 0 \/ q.start >= ends
    BY <1>n, <2>1, <2>2
  <2>9. q.parts = Append(r.parts, p) /\ q.sent = sent + n
    OBVIOUS
  <2> HIDE DEF q
  <2>10. GoodRest(q, k, offset, size)
    BY <1>1, <2>6, <2>7, <2>8, <2>9 DEF GoodRest
  <2> QED BY <2>3, <2>10
<1> QED BY <1>4, <1>5, <1>6

(* What the recursion of ResolveWrites asks of a function. *)
RestsUpTo(f, n, offset, size) ==
  f = [k \in 0 .. n |-> IF k = 0 THEN [start |-> offset, left |-> size, sent |-> 0, parts |-> <<>>]
                                 ELSE Take(k, f[k - 1])]

(* The parts of a slice are those of the last value of such a function. *)
LEMMA ResolvedIsChosen ==
  ASSUME Bounded, NEW offset, NEW size
  PROVE  ResolveWrites(offset, size) =
           (CHOOSE f : RestsUpTo(f, Len(layout), offset, size))[Len(layout)].parts
BY DEF ResolveWrites, RestsUpTo

LEMMA RestsExist ==
  ASSUME layout \in Seq(Nat), NEW offset, NEW size
  PROVE  \E f : RestsUpTo(f, Len(layout), offset, size)
<1> DEFINE S == {n \in 0 .. Len(layout) : ~ \E f : RestsUpTo(f, n, offset, size)}
           none == [start |-> offset, left |-> size, sent |-> 0, parts |-> <<>>]
<1> SUFFICES ASSUME S # {} PROVE FALSE
  <2> Len(layout) \in 0 .. Len(layout)
    OBVIOUS
  <2> QED OBVIOUS
<1>1. PICK n \in S : \A m \in S : n <= m
  <2> S \in SUBSET Nat
    OBVIOUS
  <2> HIDE DEF S
  <2> QED BY LeastNumber
<1>2. n \in Nat /\ n <= Len(layout) /\ ~ \E f : RestsUpTo(f, n, offset, size)
  OBVIOUS
<1>3. CASE n = 0
  <2> DEFINE f == [k \in 0 .. 0 |-> none]
  <2>1. RestsUpTo(f, 0, offset, size)
    BY DEF RestsUpTo
  <2> QED BY <1>2, <1>3, <2>1
<1>4. CASE n # 0
  <2>1. n - 1 \in 0 .. Len(layout) /\ n - 1 \notin S
    BY <1>1, <1>2, <1>4
  <2>2. PICK g : RestsUpTo(g, n - 1, offset, size)
    BY <2>1
  <2> DEFINE f == [k \in 0 .. n |-> IF k = n THEN Take(n, g[n - 1]) ELSE g[k]]
  <2>3. \A k \in 0 .. n - 1 : g[k] = IF k = 0 THEN none ELSE Take(k, g[k - 1])
    BY <2>2 DEF RestsUpTo
  <2> HIDE DEF none
  <2>4. \A k \in 0 .. n : f[k] = IF k = 0 THEN none ELSE Take(k, f[k - 1])
    BY <1>2, <1>4, <2>3
  <2>5. f = [k \in 0 .. n |-> IF k = 0 THEN none ELSE Take(k, f[k - 1])]
    BY <2>4
  <2> QED BY <1>2, <2>5 DEF RestsUpTo, none
<1> QED BY <1>3, <1>4

(* The parts of a slice are inside of their files and make up the slice. *)
LEMMA SliceIsResolved ==
  ASSUME layout \in Seq(Nat) \ {<<>>}, NEW offset \in Nat, NEW size \in Nat \ {0},
         Bounded => offset + size <= Total
  PROVE  GoodParts(ResolveWrites(offset, size), offset, size)
<1>0. Len(layout) \in Nat \ {0} /\ layout \in Seq(Nat)
  OBVIOUS
<1>1. CASE Bounded
  <2>1. PICK f : RestsUpTo(f, Len(layout), offset, size)
                 /\ ResolveWrites(offset, size) = f[Len(layout)].parts
    BY <1>0, <1>1, RestsExist, ResolvedIsChosen
  <2>2. /\ f[0] = [start |-> offset, left |-> size, sent |-> 0, parts |-> <<>>]
        /\ \A k \in 1 .. Len(layout) : f[k] = Take(k, f[k - 1])
    <3> DEFINE none == [start |-> offset, left |-> size, sent |-> 0, parts |-> <<>>]
    <3>1. f = [k \in 0 .. Len(layout) |-> IF k = 0 THEN none ELSE Take(k, f[k - 1])]
      BY <2>1 DEF RestsUpTo
    <3> HIDE DEF none
    <3>2. f[0] = none
      BY <1>0, <3>1
    <3>3. ASSUME NEW k \in 1 .. Len(layout)
          PROVE  f[k] = Take(k, f[k - 1])
      <4>1. k \in 0 .. Len(layout) /\ k # 0
        BY <1>0
      <4> QED BY <3>1, <4>1
    <3> QED BY <3>2, <3>3 DEF none
  <2>3. GoodRest(f[0], 0, offset, size)
    <3>1. EndOf(0) = 0
      BY <1>0, Ends
    <3>2. GoodParts(<<>>, offset, 0)
      BY DEF GoodParts
    <3>3. f[0] \in SliceRests
      BY <2>2 DEF SliceRests
    <3> QED BY <2>2, <3>1, <3>2, <3>3 DEF GoodRest
  <2>4. \A k \in 0 .. Len(layout) : GoodRest(f[k], k, offset, size)
    <3> DEFINE S == {k \in 0 .. Len(layout) : ~GoodRest(f[k], k, offset, size)}
    <3> SUFFICES ASSUME S # {} PROVE FALSE
      OBVIOUS
    <3>1. PICK n \in S : \A m \in S : n <= m
      <4> S \in SUBSET Nat
        OBVIOUS
      <4> HIDE DEF S
      <4> QED BY LeastNumber
    <3>2. n \in 0 .. Len(layout) /\ ~GoodRest(f[n], n, offset, size)
      OBVIOUS
    <3>3. n # 0
      BY <2>3, <3>2
    <3>4. n - 1 \in 0 .. Len(layout) /\ n - 1 \notin S /\ n \in 1 .. Len(layout)
      BY <3>1, <3>2, <3>3
    <3>5. GoodRest(f[n - 1], n - 1, offset, size) /\ n \in Segments /\ f[n] = Take(n, f[n - 1])
      BY <1>0, <2>2, <3>4 DEF Segments
    <3> QED BY <1>0, <1>1, <3>2, <3>5, TakeKeeps
  <2> DEFINE r == f[Len(layout)]
  <2>5. GoodRest(r, Len(layout), offset, size)
    BY <1>0, <2>4
  <2>6. EndOf(Len(layout)) \in Nat /\ offset + size <= EndOf(Len(layout))
    BY <1>0, <1>1, EndsInOrder DEF Total
  <2>7. r.sent = size
    <3>1. /\ r.sent \in Nat /\ r.left \in Nat /\ r.start = offset + r.sent /\ r.sent + r.left = size
          /\ r.left = 0 \/ r.start >= EndOf(Len(layout))
      BY <2>5 DEF GoodRest, SliceRests
    <3> HIDE DEF r
    <3> QED BY <2>6, <3>1
  <2> QED BY <2>1, <2>5, <2>7 DEF GoodRest
<1>2. CASE ~Bounded
  <2> DEFINE p == [file |-> 1, at |-> offset, first |-> 0, size |-> size]
  <2>1. ResolveWrites(offset, size) = <<p>>
    BY <1>2 DEF ResolveWrites
  <2>2. p \in Parts
    BY <1>0 DEF Parts, Segments
  <2>3. GoodPart(p, offset, size)
    BY <1>2, <2>2 DEF GoodPart, Base
  <2>4. \A g \in 0 .. size - 1 : g \in Bytes(p)
    BY DEF Bytes
  <2> HIDE DEF p
  <2>5. <<p>> \in Seq(Parts) /\ Len(<<p>>) = 1 /\ <<p>>[1] = p
    BY <2>2
  <2> QED BY <2>1, <2>3, <2>4, <2>5 DEF GoodParts
<1> QED BY <1>1, <1>2

-----------------------------------------------------------------------------
(* The bytes on disk *)

FilePlaces == 0 .. MaxOffset + MaxPart

(* A byte of the payload belongs to a place of a file. *)
Inside(k, p) == IF Bounded THEN p < layout[k] ELSE k = 1
InPlace(g) ==
  \E k \in Segments : \E p \in FilePlaces : Inside(k, p) /\ g = Base(k) + p /\ disk[k][p] = g + 1

(* Where a byte belongs depends on nothing but the layout. *)
LEMMA SamePlaces ==
  ASSUME UNCHANGED layout
  PROVE  /\ Segments' = Segments /\ Parts' = Parts
         /\ \A k : Base(k)' = Base(k)
         /\ \A k, p : Inside(k, p)' <=> Inside(k, p)
         /\ \A p, offset, sent : GoodPart(p, offset, sent)' <=> GoodPart(p, offset, sent)
<1>1. \A k : EndOf(k)' = EndOf(k)
  BY DEF EndOf
<1>2. Segments' = Segments /\ Total' = Total
  BY <1>1 DEF Segments, Total
<1>3. Parts' = Parts /\ (Bounded <=> Bounded')
  BY <1>2 DEF Parts, Bounded
<1>4. \A k : StartOf(k)' = StartOf(k)
  BY <1>1 DEF StartOf
<1>5. \A k : Base(k)' = Base(k)
  BY <1>3, <1>4 DEF Base
<1>6. \A k, p : Inside(k, p)' <=> Inside(k, p)
  BY <1>3 DEF Inside
<1>7. \A p, offset, sent : GoodPart(p, offset, sent)' <=> GoodPart(p, offset, sent)
  BY <1>3, <1>5 DEF GoodPart
<1> QED BY <1>2, <1>3, <1>5, <1>6, <1>7

(* No two files hold the same byte. *)
LEMMA OneFile ==
  ASSUME layout \in Seq(Nat), NEW g \in Nat, NEW j \in Segments, NEW k \in Segments,
         g \in StartOf(j) .. EndOf(j) - 1, g \in StartOf(k) .. EndOf(k) - 1
  PROVE  j = k
<1>1. /\ j \in 1 .. Len(layout) /\ k \in 1 .. Len(layout)
      /\ StartOf(j) = EndOf(j - 1) /\ StartOf(k) = EndOf(k - 1)
      /\ EndOf(j) \in Nat /\ EndOf(k) \in Nat /\ StartOf(j) \in Nat /\ StartOf(k) \in Nat
  BY FileTypes
<1>2. g >= EndOf(j - 1) /\ g >= EndOf(k - 1) /\ g < EndOf(j) /\ g < EndOf(k)
  BY <1>1
<1>3. ~(j < k)
  <2> SUFFICES ASSUME j < k PROVE FALSE
    OBVIOUS
  <2>1. k - 1 \in 0 .. Len(layout) /\ j \in 0 .. k - 1
    BY <1>1
  <2>2. EndOf(j) <= EndOf(k - 1) /\ EndOf(k - 1) \in Nat
    BY <2>1, EndsInOrder
  <2> QED BY <1>1, <1>2, <2>2
<1>4. ~(k < j)
  <2> SUFFICES ASSUME k < j PROVE FALSE
    OBVIOUS
  <2>1. j - 1 \in 0 .. Len(layout) /\ k \in 0 .. j - 1
    BY <1>1
  <2>2. EndOf(k) <= EndOf(j - 1) /\ EndOf(j - 1) \in Nat
    BY <2>1, EndsInOrder
  <2> QED BY <1>1, <1>2, <2>2
<1> QED BY <1>1, <1>3, <1>4

(* A byte that is in place is where the property looks for it. *)
LEMMA PlaceIsFound ==
  ASSUME layout \in Seq(Nat), NEW g \in Nat, InPlace(g)
  PROVE  disk[FileOfByte(g)][PlaceOfByte(g)] = g + 1
<1>1. PICK k \in Segments, p \in FilePlaces : Inside(k, p) /\ g = Base(k) + p /\ disk[k][p] = g + 1
  BY DEF InPlace
<1>2. p \in Int /\ 0 <= p
  BY DEF FilePlaces
<1>3. CASE Bounded
  <2>1. layout[k] \in Nat /\ StartOf(k) \in Nat /\ EndOf(k) = StartOf(k) + layout[k]
    BY FileTypes
  <2>2. p < layout[k] /\ g = StartOf(k) + p
    BY <1>1, <1>3 DEF Inside, Base
  <2>3. g \in StartOf(k) .. EndOf(k) - 1 /\ p = g - StartOf(k)
    BY <1>2, <2>1, <2>2
  <2>4. \A j \in Segments : g \in StartOf(j) .. EndOf(j) - 1 => j = k
    BY <2>3, OneFile
  <2>5. FileOfByte(g) = k
    BY <1>3, <2>3, <2>4 DEF FileOfByte
  <2>6. PlaceOfByte(g) = p
    BY <1>3, <2>3, <2>5 DEF PlaceOfByte
  <2> QED BY <1>1, <2>5, <2>6
<1>4. CASE ~Bounded
  <2>1. k = 1 /\ g = p
    BY <1>1, <1>2, <1>4 DEF Inside, Base
  <2>2. FileOfByte(g) = k /\ PlaceOfByte(g) = p
    BY <1>4, <2>1 DEF FileOfByte, PlaceOfByte
  <2> QED BY <1>1, <2>2
<1> QED BY <1>3, <1>4

-----------------------------------------------------------------------------
(* Writers of a payload *)

Writings == [pc : {"idle", "lock", "write", "done"}, offset : 0 .. MaxOffset,
             size : 0 .. MaxPart, parts : Seq(Parts)]

PayloadTypes ==
  /\ layout \in Layouts
  /\ disk \in [Segments -> [FilePlaces -> Nat]]
  /\ cursor \in [Segments -> Nat]
  /\ holder \in [Segments -> Writers \cup {NobodyHolds}]
  /\ writing \in [Writers -> Writings]

(* Nothing but right bytes has been written. *)
DiskIsRight ==
  \A k \in Segments : \A p \in FilePlaces :
    disk[k][p] # 0 => Inside(k, p) /\ disk[k][p] = Base(k) + p + 1

(* Each byte of a slice is in place or in a part that is left. *)
Covered(c) ==
  \A g \in 0 .. c.size - 1 :
    InPlace(c.offset + g) \/ \E j \in 1 .. Len(c.parts) : g \in Bytes(c.parts[j])

(* A writer between its seek and its write holds the handle, which is      *)
(* where the writer left it.                                               *)
Working(w) ==
  /\ \A j \in 1 .. Len(writing[w].parts) :
       GoodPart(writing[w].parts[j], writing[w].offset, writing[w].size)
  /\ writing[w].pc # "idle" => Covered(writing[w])
  /\ writing[w].pc = "write" =>
       /\ writing[w].parts # <<>>
       /\ holder[writing[w].parts[1].file] = w
       /\ cursor[writing[w].parts[1].file] = writing[w].parts[1].at
  /\ writing[w].pc = "done" => writing[w].parts = <<>>

PayloadInvariant == PayloadTypes /\ DiskIsRight /\ \A w \in Writers : Working(w)

(* Only the writers of a payload change its state. *)
LEMMA PayloadAlone == [Next]_vars => PayloadNext \/ UNCHANGED payloadVars
BY DEF Next, vars, Limiting, Waiting, payloadVars

(* Nothing has been written at first, and nobody writes. *)
LEMMA PayloadStarts == Init => PayloadInvariant
<1> SUFFICES ASSUME Init PROVE PayloadInvariant
  OBVIOUS
<1>1. PayloadInit
  BY DEF Init
<1>2. PayloadTypes
  <2>1. disk \in [Segments -> [FilePlaces -> Nat]]
    BY <1>1 DEF PayloadInit, FilePlaces
  <2>2. cursor \in [Segments -> Nat] /\ holder \in [Segments -> Writers \cup {NobodyHolds}]
    BY <1>1 DEF PayloadInit
  <2>3. NotWriting \in Writings
    BY PayloadAssumption DEF NotWriting, Writings
  <2> QED BY <1>1, <2>1, <2>2, <2>3 DEF PayloadInit, PayloadTypes
<1>3. DiskIsRight
  BY <1>1 DEF PayloadInit, DiskIsRight, FilePlaces
<1>4. ASSUME NEW w \in Writers
      PROVE  Working(w)
  BY <1>1 DEF PayloadInit, Working, NotWriting
<1> QED BY <1>2, <1>3, <1>4 DEF PayloadInvariant

(* A byte stays in place, when places are only given their right bytes. *)
LEMMA StaysInPlace ==
  ASSUME PayloadTypes, UNCHANGED layout, NEW g,
         \A k \in Segments : \A p \in FilePlaces :
           disk'[k][p] = disk[k][p] \/ disk'[k][p] = Base(k) + p + 1,
         InPlace(g)
  PROVE  InPlace(g)'
<1>1. PICK k \in Segments, p \in FilePlaces : Inside(k, p) /\ g = Base(k) + p /\ disk[k][p] = g + 1
  BY DEF InPlace
<1>2. disk'[k][p] = g + 1
  BY <1>1
<1>3. k \in Segments' /\ p \in FilePlaces' /\ Inside(k, p)' /\ g = Base(k)' + p
  BY <1>1, SamePlaces DEF FilePlaces
<1> QED BY <1>2, <1>3 DEF InPlace

(* Writers other than the one that takes a step go on as they were. *)
LEMMA OthersWork ==
  ASSUME PayloadTypes, UNCHANGED layout, NEW v \in Writers, Working(v),
         writing'[v] = writing[v],
         \A g : InPlace(g) => InPlace(g)',
         writing[v].pc = "write" =>
           /\ holder'[writing[v].parts[1].file] = holder[writing[v].parts[1].file]
           /\ cursor'[writing[v].parts[1].file] = cursor[writing[v].parts[1].file]
  PROVE  Working(v)'
<1>1. (\A j \in 1 .. Len(writing[v].parts) :
         GoodPart(writing[v].parts[j], writing[v].offset, writing[v].size))'
  <2>1. \A j \in 1 .. Len(writing[v].parts) :
          GoodPart(writing[v].parts[j], writing[v].offset, writing[v].size)
    BY DEF Working
  <2> QED BY <2>1, SamePlaces
<1>2. (writing[v].pc # "idle" => Covered(writing[v]))'
  BY DEF Working, Covered, Bytes
<1>3. (writing[v].pc = "write" =>
         /\ writing[v].parts # <<>>
         /\ holder[writing[v].parts[1].file] = v
         /\ cursor[writing[v].parts[1].file] = writing[v].parts[1].at)'
  BY DEF Working
<1>4. (writing[v].pc = "done" => writing[v].parts = <<>>)'
  BY DEF Working
<1> QED BY <1>1, <1>2, <1>3, <1>4 DEF Working

(* What a writer does: its own record changes, the places of files do not. *)
LEMMA WriterFacts ==
  ASSUME PayloadTypes, NEW w \in Writers
  PROVE  /\ layout \in Seq(Nat) /\ layout # <<>>
         /\ writing[w] \in Writings
         /\ writing[w].offset \in 0 .. MaxOffset /\ writing[w].size \in 0 .. MaxPart
         /\ writing[w].parts \in Seq(Parts)
         /\ \A e : writing' = [writing EXCEPT ![w] = e] =>
              writing'[w] = e /\ \A v \in Writers : v # w => writing'[v] = writing[v]
<1>1. layout \in Seq(Nat) /\ layout # <<>>
  BY PayloadAssumption DEF PayloadTypes
<1>2. writing[w] \in Writings /\ writing \in [Writers -> Writings]
  BY DEF PayloadTypes
<1> QED BY <1>1, <1>2 DEF Writings

(* Steps of a writer that leave the disk and the handles alone. *)
LEMMA QuietStep ==
  ASSUME PayloadInvariant, NEW w \in Writers, NEW e \in Writings,
         UNCHANGED <<layout, disk, cursor, holder>>,
         writing' = [writing EXCEPT ![w] = e],
         \A j \in 1 .. Len(e.parts) : GoodPart(e.parts[j], e.offset, e.size),
         e.pc # "idle" => Covered(e), e.pc # "write", e.pc = "done" => e.parts = <<>>
  PROVE  PayloadInvariant'
<1>1. /\ PayloadTypes /\ DiskIsRight /\ \A v \in Writers : Working(v)
      /\ UNCHANGED layout
  BY DEF PayloadInvariant
<1>2. writing'[w] = e /\ \A v \in Writers : v # w => writing'[v] = writing[v]
  BY <1>1, WriterFacts
<1>3. \A g : InPlace(g) => InPlace(g)'
  BY <1>1, SamePlaces DEF InPlace, FilePlaces
<1>4. PayloadTypes'
  <2>1. Writings' = Writings
    BY <1>1, SamePlaces DEF Writings
  <2>2. writing' \in [Writers -> Writings]
    BY <1>1 DEF PayloadTypes
  <2>3. (disk \in [Segments -> [FilePlaces -> Nat]])' /\ (cursor \in [Segments -> Nat])'
        /\ (holder \in [Segments -> Writers \cup {NobodyHolds}])' /\ (layout \in Layouts)'
    BY <1>1, SamePlaces DEF PayloadTypes, FilePlaces
  <2> QED BY <2>1, <2>2, <2>3 DEF PayloadTypes
<1>5. DiskIsRight'
  BY <1>1, SamePlaces DEF DiskIsRight, FilePlaces
<1>6. Working(w)'
  <2>1. (\A j \in 1 .. Len(writing[w].parts) :
           GoodPart(writing[w].parts[j], writing[w].offset, writing[w].size))'
    BY <1>1, <1>2, SamePlaces
  <2>2. (writing[w].pc # "idle" => Covered(writing[w]))'
    BY <1>2, <1>3 DEF Covered, Bytes
  <2> QED BY <1>2, <2>1, <2>2 DEF Working
<1>7. ASSUME NEW v \in Writers, v # w
      PROVE  Working(v)'
  BY <1>1, <1>2, <1>3, <1>7, OthersWork
<1> QED BY <1>4, <1>5, <1>6, <1>7 DEF PayloadInvariant

(* A slice is resolved into parts that cover it. *)
LEMMA WriteAtKeeps ==
  ASSUME PayloadInvariant, NEW w \in Writers, WriteAt(w)
  PROVE  PayloadInvariant'
<1>1. PayloadTypes
  BY DEF PayloadInvariant
<1>2. PICK offset \in 0 .. MaxOffset, size \in 1 .. MaxPart :
        /\ Bounded => offset + size <= Total
        /\ writing' = [writing EXCEPT ![w] =
             [pc |-> "lock", offset |-> offset, size |-> size,
              parts |-> ResolveWrites(offset, size)]]
  BY DEF WriteAt
<1> DEFINE parts == ResolveWrites(offset, size)
           e == [pc |-> "lock", offset |-> offset, size |-> size, parts |-> parts]
<1>3. GoodParts(parts, offset, size)
  <2>1. offset \in Nat /\ size \in Nat \ {0}
    BY PayloadAssumption
  <2> QED BY <1>1, <1>2, <2>1, WriterFacts, SliceIsResolved
<1> HIDE DEF parts
<1>4. e \in Writings
  BY <1>3, PayloadAssumption DEF GoodParts, Writings
<1>5. \A j \in 1 .. Len(e.parts) : GoodPart(e.parts[j], e.offset, e.size)
  BY <1>3 DEF GoodParts
<1>6. Covered(e)
  BY <1>3 DEF GoodParts, Covered
<1>7. UNCHANGED <<layout, disk, cursor, holder>> /\ writing' = [writing EXCEPT ![w] = e]
  BY <1>2 DEF WriteAt, parts
<1>8. e.pc = "lock"
  OBVIOUS
<1> HIDE DEF e
<1> QED BY <1>4, <1>5, <1>6, <1>7, <1>8, QuietStep

(* With no part left, all bytes of a slice are in place. *)
LEMMA WrittenKeeps ==
  ASSUME PayloadInvariant, NEW w \in Writers, Written(w)
  PROVE  PayloadInvariant'
<1>1. PayloadTypes /\ Working(w)
  BY DEF PayloadInvariant
<1> DEFINE e == [writing[w] EXCEPT !.pc = "done"]
<1>2. writing[w] \in Writings /\ writing[w].pc = "lock" /\ writing[w].parts = <<>>
  BY <1>1, WriterFacts DEF Written
<1>3. e \in Writings /\ e.pc = "done" /\ e.parts = <<>> /\ e.offset = writing[w].offset
      /\ e.size = writing[w].size
  BY <1>2 DEF Writings
<1>4. UNCHANGED <<layout, disk, cursor, holder>> /\ writing' = [writing EXCEPT ![w] = e]
  BY DEF Written
<1> HIDE DEF e
<1>5. Covered(e)
  BY <1>1, <1>2, <1>3 DEF Working, Covered
<1>6. \A j \in 1 .. Len(e.parts) : GoodPart(e.parts[j], e.offset, e.size)
  BY <1>1, <1>2, <1>3 DEF Working
<1> QED BY <1>3, <1>4, <1>5, <1>6, QuietStep

(* The part that a writer is about to write. *)
LEMMA PartFacts ==
  ASSUME PayloadTypes, NEW w \in Writers, Working(w), writing[w].parts # <<>>
  PROVE  /\ Part(w) = writing[w].parts[1]
         /\ GoodPart(Part(w), writing[w].offset, writing[w].size)
         /\ Part(w).file \in Segments /\ Part(w).at \in Nat /\ Part(w).first \in Nat
         /\ Part(w).size \in Nat \ {0}
<1>1. writing[w].parts \in Seq(Parts)
  BY WriterFacts
<1>2. Part(w) = writing[w].parts[1] /\ 1 \in 1 .. Len(writing[w].parts)
  BY <1>1 DEF Part
<1>3. GoodPart(Part(w), writing[w].offset, writing[w].size)
  BY <1>2 DEF Working
<1> QED BY <1>2, <1>3 DEF GoodPart, Parts

(* A seek under the lock disturbs nobody else: the handle was free. *)
LEMMA LockKeeps ==
  ASSUME PayloadInvariant, NEW w \in Writers, Lock(w)
  PROVE  PayloadInvariant'
<1>1. /\ PayloadTypes /\ DiskIsRight /\ \A v \in Writers : Working(v)
      /\ UNCHANGED layout /\ UNCHANGED disk
      /\ writing[w].parts # <<>> /\ writing[w].pc = "lock"
  BY DEF PayloadInvariant, Lock
<1> DEFINE e == [writing[w] EXCEPT !.pc = "write"]
           k == Part(w).file
<1>2. writing[w] \in Writings
  BY <1>1, WriterFacts
<1>3. e \in Writings /\ e.pc = "write" /\ e.parts = writing[w].parts
      /\ e.offset = writing[w].offset /\ e.size = writing[w].size
  BY <1>2 DEF Writings
<1>4. writing' = [writing EXCEPT ![w] = e]
  BY DEF Lock
<1> HIDE DEF e
<1>5. writing'[w] = e /\ \A v \in Writers : v # w => writing'[v] = writing[v]
  BY <1>1, <1>4, WriterFacts
<1>6. k = writing[w].parts[1].file /\ Part(w).at = writing[w].parts[1].at
      /\ k \in Segments /\ Part(w).at \in Nat
  BY <1>1, PartFacts
<1>7. /\ holder[k] = NobodyHolds
      /\ holder' = [holder EXCEPT ![k] = w] /\ cursor' = [cursor EXCEPT ![k] = Part(w).at]
  BY DEF Lock
<1> HIDE DEF k
<1>8. /\ holder' \in [Segments -> Writers \cup {NobodyHolds}] /\ cursor' \in [Segments -> Nat]
      /\ holder'[k] = w /\ cursor'[k] = Part(w).at
      /\ \A j \in Segments : j # k => holder'[j] = holder[j] /\ cursor'[j] = cursor[j]
  BY <1>1, <1>6, <1>7 DEF PayloadTypes
<1>9. \A g : InPlace(g) => InPlace(g)'
  BY <1>1, SamePlaces DEF InPlace, FilePlaces
<1>10. PayloadTypes'
  <2>1. Writings' = Writings
    BY <1>1, SamePlaces DEF Writings
  <2>2. writing' \in [Writers -> Writings]
    BY <1>1, <1>3, <1>4 DEF PayloadTypes
  <2>3. (disk \in [Segments -> [FilePlaces -> Nat]])' /\ (layout \in Layouts)'
    BY <1>1, SamePlaces DEF PayloadTypes, FilePlaces
  <2>4. (cursor \in [Segments -> Nat])' /\ (holder \in [Segments -> Writers \cup {NobodyHolds}])'
    BY <1>1, <1>8, SamePlaces
  <2> QED BY <2>1, <2>2, <2>3, <2>4 DEF PayloadTypes
<1>11. DiskIsRight'
  BY <1>1, SamePlaces DEF DiskIsRight, FilePlaces
<1>12. Working(w)'
  <2>1. (\A j \in 1 .. Len(writing[w].parts) :
           GoodPart(writing[w].parts[j], writing[w].offset, writing[w].size))'
    <3>1. \A j \in 1 .. Len(e.parts) : GoodPart(e.parts[j], e.offset, e.size)
      BY <1>1, <1>3 DEF Working
    <3> QED BY <1>1, <1>5, <3>1, SamePlaces
  <2>2. Covered(writing[w])
    BY <1>1 DEF Working
  <2>3. (writing[w].pc # "idle" => Covered(writing[w]))'
    BY <1>3, <1>5, <1>9, <2>2 DEF Covered, Bytes
  <2>4. (writing[w].parts # <<>>)' /\ (holder[writing[w].parts[1].file] = w)'
        /\ (cursor[writing[w].parts[1].file] = writing[w].parts[1].at)'
    BY <1>1, <1>3, <1>5, <1>6, <1>8
  <2>5. writing'[w].pc = "write"
    BY <1>3, <1>5
  <2> QED BY <2>1, <2>3, <2>4, <2>5 DEF Working
<1>13. ASSUME NEW v \in Writers, v # w
       PROVE  Working(v)'
  <2>1. writing[v].pc = "write" =>
          /\ writing[v].parts # <<>> /\ holder[writing[v].parts[1].file] = v
    BY <1>1 DEF Working
  <2>2. v # NobodyHolds
    BY PayloadAssumption
  <2>3. writing[v].pc = "write" =>
          /\ holder'[writing[v].parts[1].file] = holder[writing[v].parts[1].file]
          /\ cursor'[writing[v].parts[1].file] = cursor[writing[v].parts[1].file]
    <3> SUFFICES ASSUME writing[v].pc = "write"
                 PROVE  /\ holder'[writing[v].parts[1].file] = holder[writing[v].parts[1].file]
                        /\ cursor'[writing[v].parts[1].file] = cursor[writing[v].parts[1].file]
      OBVIOUS
    <3>1. writing[v].parts[1].file \in Segments
      BY <1>1, <2>1, PartFacts
    <3>2. writing[v].parts[1].file # k
      BY <1>7, <2>1, <2>2
    <3> QED BY <1>8, <3>1, <3>2
  <2> QED BY <1>1, <1>5, <1>9, <1>13, <2>3, OthersWork
<1> QED BY <1>10, <1>11, <1>12, <1>13 DEF PayloadInvariant

(* A part is written into its places, each of which gets its right byte. *)
LEMMA PartIsWritten ==
  ASSUME PayloadInvariant, NEW w \in Writers, WriteAll(w)
  PROVE  /\ disk' \in [Segments -> [FilePlaces -> Nat]]
         /\ \A k \in Segments : \A p \in FilePlaces :
              \/ disk'[k][p] = disk[k][p]
              \/ Inside(k, p) /\ disk'[k][p] = Base(k) + p + 1
         /\ \A g \in Bytes(Part(w)) : \A x : x = writing[w].offset + g => InPlace(x)'
<1>1. /\ PayloadTypes /\ Working(w) /\ writing[w].pc = "write" /\ UNCHANGED layout
  BY DEF PayloadInvariant, WriteAll
<1> DEFINE part == Part(w)
           k == part.file
           offset == writing[w].offset
           size == writing[w].size
<1>2. writing[w].parts # <<>>
  BY <1>1 DEF Working
<1>3. /\ GoodPart(part, offset, size) /\ k \in Segments
      /\ part.at \in Nat /\ part.first \in Nat /\ part.size \in Nat \ {0}
      /\ cursor[k] = part.at
  BY <1>1, <1>2, PartFacts DEF Working
<1>4. disk' = [disk EXCEPT ![k] = [p \in DOMAIN disk[k] |->
         IF p \in cursor[k] .. cursor[k] + part.size - 1
         THEN offset + part.first + (p - cursor[k]) + 1 ELSE disk[k][p]]]
  BY DEF WriteAll
<1>5. offset \in Nat /\ offset <= MaxOffset /\ size \in Nat /\ size <= MaxPart
      /\ MaxPart \in Nat /\ MaxOffset \in Nat
  BY <1>1, WriterFacts, PayloadAssumption
<1>6. /\ part.first + part.size <= size /\ Base(k) + part.at = offset + part.first
      /\ IF Bounded THEN part.at + part.size <= layout[k] ELSE k = 1
  BY <1>3 DEF GoodPart
<1>7. Base(k) \in Nat /\ layout[k] \in Nat
  BY <1>1, <1>3, WriterFacts, FileTypes DEF Base
<1> HIDE DEF part, k, offset, size
<1>8. DOMAIN disk = Segments /\ DOMAIN disk[k] = FilePlaces /\ disk[k] \in [FilePlaces -> Nat]
      /\ disk \in [Segments -> [FilePlaces -> Nat]]
  BY <1>1, <1>3 DEF PayloadTypes
<1> DEFINE new == [p \in FilePlaces |->
              IF p \in part.at .. part.at + part.size - 1
              THEN offset + part.first + (p - part.at) + 1 ELSE disk[k][p]]
<1>9. disk' = [disk EXCEPT ![k] = new]
  BY <1>3, <1>4, <1>8
<1>10. \A p \in FilePlaces : p \in Int /\ p >= 0
  BY DEF FilePlaces
<1>11. ASSUME NEW p \in FilePlaces
       PROVE  /\ new[p] \in Nat
              /\ p \in part.at .. part.at + part.size - 1 => new[p] = Base(k) + p + 1
              /\ p \notin part.at .. part.at + part.size - 1 => new[p] = disk[k][p]
  <2>1. CASE p \in part.at .. part.at + part.size - 1
    <3>1. new[p] = offset + part.first + (p - part.at) + 1
      BY <2>1
    <3> HIDE DEF new
    <3>2. new[p] = Base(k) + p + 1 /\ new[p] \in Nat
      BY <1>3, <1>5, <1>6, <1>7, <1>10, <3>1
    <3> QED BY <2>1, <3>2
  <2>2. CASE p \notin part.at .. part.at + part.size - 1
    BY <1>8, <2>2
  <2> QED BY <2>1, <2>2
<1>12. new \in [FilePlaces -> Nat]
  BY <1>11
<1> HIDE DEF new
<1>13. disk' \in [Segments -> [FilePlaces -> Nat]] /\ disk'[k] = new
       /\ \A j \in Segments : j # k => disk'[j] = disk[j]
  BY <1>3, <1>8, <1>9, <1>12
<1>14. ASSUME NEW p \in FilePlaces, p \in part.at .. part.at + part.size - 1
       PROVE  Inside(k, p)
  <2>1. p < part.at + part.size
    BY <1>3, <1>10, <1>14
  <2>2. Bounded => p < layout[k]
    BY <1>3, <1>6, <1>7, <1>10, <2>1
  <2> QED BY <1>6, <2>2 DEF Inside
<1>15. \A j \in Segments : \A p \in FilePlaces :
         \/ disk'[j][p] = disk[j][p]
         \/ Inside(j, p) /\ disk'[j][p] = Base(j) + p + 1
  BY <1>11, <1>13, <1>14
<1>16. ASSUME NEW g \in Bytes(part), NEW x, x = offset + g
       PROVE  InPlace(x)'
  <2> DEFINE p == part.at + (g - part.first)
  <2>1. g \in Int /\ part.first <= g /\ g < part.first + part.size
    BY <1>3, <1>16 DEF Bytes
  <2>2. /\ p \in Int /\ 0 <= p /\ p <= MaxOffset + MaxPart
        /\ p \in part.at .. part.at + part.size - 1 /\ Base(k) + p = x
    BY <1>3, <1>5, <1>6, <1>7, <1>16, <2>1
  <2> HIDE DEF p
  <2>3. p \in FilePlaces
    BY <1>5, <2>2 DEF FilePlaces
  <2>4. disk'[k][p] = x + 1 /\ Inside(k, p)
    BY <1>11, <1>13, <1>14, <2>2, <2>3
  <2> QED BY <1>1, <1>3, <2>2, <2>3, <2>4, SamePlaces DEF InPlace, FilePlaces
<1>17. \A g \in Bytes(Part(w)) : \A x : x = writing[w].offset + g => InPlace(x)'
  BY <1>16 DEF part, offset
<1> QED BY <1>13, <1>15, <1>17

(* A write puts its part in place and frees the handle. *)
LEMMA WriteAllKeeps ==
  ASSUME PayloadInvariant, NEW w \in Writers, WriteAll(w)
  PROVE  PayloadInvariant'
<1>1. /\ PayloadTypes /\ DiskIsRight /\ \A v \in Writers : Working(v)
      /\ UNCHANGED layout /\ writing[w].pc = "write"
  BY DEF PayloadInvariant, WriteAll
<1> DEFINE s == writing[w].parts
           e == [writing[w] EXCEPT !.pc = "lock", !.parts = Tail(s)]
           k == Part(w).file
<1>2. s # <<>> /\ s \in Seq(Parts) /\ holder[k] = w /\ cursor[k] = Part(w).at
      /\ k \in Segments /\ Part(w).size \in Nat /\ Part(w) = s[1] /\ writing[w] \in Writings
  BY <1>1, PartFacts, WriterFacts DEF Working
<1>3. writing' = [writing EXCEPT ![w] = e]
  BY DEF WriteAll
<1>4. /\ holder' = [holder EXCEPT ![k] = NobodyHolds]
      /\ cursor' = [cursor EXCEPT ![k] = @ + Part(w).size]
  BY DEF WriteAll
<1>5. /\ Tail(s) \in Seq(Parts) /\ Len(Tail(s)) = Len(s) - 1 /\ Len(s) \in Nat \ {0}
      /\ \A j \in 1 .. Len(s) - 1 : Tail(s)[j] = s[j + 1]
  BY <1>2
<1>6. e \in Writings /\ e.pc = "lock" /\ e.parts = Tail(s)
      /\ e.offset = writing[w].offset /\ e.size = writing[w].size
  BY <1>2, <1>5 DEF Writings
<1> HIDE DEF e, k
<1>7. writing'[w] = e /\ \A v \in Writers : v # w => writing'[v] = writing[v]
  BY <1>1, <1>3, WriterFacts
<1>8. /\ holder' \in [Segments -> Writers \cup {NobodyHolds}] /\ cursor' \in [Segments -> Nat]
      /\ \A j \in Segments : j # k => holder'[j] = holder[j] /\ cursor'[j] = cursor[j]
  BY <1>1, <1>2, <1>4 DEF PayloadTypes
<1>9. /\ disk' \in [Segments -> [FilePlaces -> Nat]]
      /\ \A j \in Segments : \A p \in FilePlaces :
           \/ disk'[j][p] = disk[j][p]
           \/ Inside(j, p) /\ disk'[j][p] = Base(j) + p + 1
      /\ \A g \in Bytes(Part(w)) : \A x : x = writing[w].offset + g => InPlace(x)'
  BY PartIsWritten
<1>10. \A g : InPlace(g) => InPlace(g)'
  BY <1>1, <1>9, StaysInPlace
<1>11. PayloadTypes'
  <2>1. Writings' = Writings
    BY <1>1, SamePlaces DEF Writings
  <2>2. writing' \in [Writers -> Writings]
    BY <1>1, <1>3, <1>6 DEF PayloadTypes
  <2>3. (disk \in [Segments -> [FilePlaces -> Nat]])' /\ (layout \in Layouts)'
    BY <1>1, <1>9, SamePlaces DEF PayloadTypes, FilePlaces
  <2>4. (cursor \in [Segments -> Nat])' /\ (holder \in [Segments -> Writers \cup {NobodyHolds}])'
    BY <1>1, <1>8, SamePlaces
  <2> QED BY <2>1, <2>2, <2>3, <2>4 DEF PayloadTypes
<1>12. DiskIsRight'
  BY <1>1, <1>9, SamePlaces DEF DiskIsRight, FilePlaces
<1>13. Working(w)'
  <2>1. (\A j \in 1 .. Len(writing[w].parts) :
           GoodPart(writing[w].parts[j], writing[w].offset, writing[w].size))'
    <3>1. \A j \in 1 .. Len(s) : GoodPart(s[j], writing[w].offset, writing[w].size)
      BY <1>1 DEF Working
    <3>2. \A j \in 1 .. Len(e.parts) : GoodPart(e.parts[j], e.offset, e.size)
      BY <1>5, <1>6, <3>1
    <3> QED BY <1>1, <1>7, <3>2, SamePlaces
  <2>2. ASSUME NEW g \in 0 .. e.size - 1
        PROVE  \/ \A x : x = e.offset + g => InPlace(x)'
               \/ \E j \in 1 .. Len(e.parts) : g \in Bytes(e.parts[j])
    <3>1. InPlace(writing[w].offset + g) \/ \E j \in 1 .. Len(s) : g \in Bytes(s[j])
      BY <1>1, <1>6, <2>2 DEF Working, Covered
    <3>2. CASE InPlace(writing[w].offset + g)
      BY <1>6, <1>10, <3>2
    <3>3. ASSUME NEW j \in 1 .. Len(s), g \in Bytes(s[j])
          PROVE  \/ \A x : x = e.offset + g => InPlace(x)'
                 \/ \E i \in 1 .. Len(e.parts) : g \in Bytes(e.parts[i])
      <4>1. CASE j = 1
        BY <1>2, <1>6, <1>9, <3>3, <4>1
      <4>2. CASE j # 1
        <5>1. j - 1 \in 1 .. Len(e.parts) /\ (j - 1) + 1 = j /\ j - 1 \in 1 .. Len(s) - 1
          BY <1>5, <1>6, <4>2
        <5>2. e.parts[j - 1] = s[j]
          BY <1>5, <1>6, <5>1
        <5> QED BY <3>3, <5>1, <5>2
      <4> QED BY <4>1, <4>2
    <3> QED BY <3>1, <3>2, <3>3
  <2>3. (Covered(writing[w]))'
    <3>1. Covered(writing[w])' <=>
            \A g \in 0 .. e.size - 1 :
              \/ \A x : x = e.offset + g => InPlace(x)'
              \/ \E j \in 1 .. Len(e.parts) : g \in Bytes(e.parts[j])
      BY <1>7 DEF Covered, Bytes
    <3> QED BY <2>2, <3>1
  <2>4. writing'[w].pc = "lock"
    BY <1>6, <1>7
  <2> QED BY <2>1, <2>3, <2>4 DEF Working
<1>14. ASSUME NEW v \in Writers, v # w
       PROVE  Working(v)'
  <2>1. writing[v].pc = "write" =>
          /\ writing[v].parts # <<>> /\ holder[writing[v].parts[1].file] = v
    BY <1>1 DEF Working
  <2>2. writing[v].pc = "write" =>
          /\ holder'[writing[v].parts[1].file] = holder[writing[v].parts[1].file]
          /\ cursor'[writing[v].parts[1].file] = cursor[writing[v].parts[1].file]
    <3> SUFFICES ASSUME writing[v].pc = "write"
                 PROVE  /\ holder'[writing[v].parts[1].file] = holder[writing[v].parts[1].file]
                        /\ cursor'[writing[v].parts[1].file] = cursor[writing[v].parts[1].file]
      OBVIOUS
    <3>1. writing[v].parts[1].file \in Segments
      BY <1>1, <2>1, PartFacts
    <3>2. writing[v].parts[1].file # k
      BY <1>2, <1>14, <2>1
    <3> QED BY <1>8, <3>1, <3>2
  <2> QED BY <1>1, <1>7, <1>10, <1>14, <2>2, OthersWork
<1> QED BY <1>11, <1>12, <1>13, <1>14 DEF PayloadInvariant

(* Each step of the services keeps the invariant of the payload. *)
LEMMA PayloadStep == PayloadInvariant /\ [Next]_vars => PayloadInvariant'
<1> SUFFICES ASSUME PayloadInvariant, [Next]_vars
             PROVE  PayloadInvariant'
  OBVIOUS
<1>1. CASE UNCHANGED payloadVars
  <2>1. UNCHANGED <<layout, disk, cursor, holder, writing>>
    BY <1>1 DEF payloadVars
  <2>2. PayloadTypes'
    BY <2>1, SamePlaces DEF PayloadInvariant, PayloadTypes, Writings, FilePlaces
  <2>3. DiskIsRight'
    BY <2>1, SamePlaces DEF PayloadInvariant, DiskIsRight, FilePlaces
  <2>4. \A g : InPlace(g) => InPlace(g)'
    BY <2>1, SamePlaces DEF InPlace, FilePlaces
  <2>5. \A w \in Writers : Working(w)'
    BY <2>1, <2>4, OthersWork DEF PayloadInvariant
  <2> QED BY <2>2, <2>3, <2>5 DEF PayloadInvariant
<1>2. ASSUME NEW w \in Writers, WriteAt(w) \/ Lock(w) \/ WriteAll(w) \/ Written(w)
      PROVE  PayloadInvariant'
  BY <1>2, WriteAtKeeps, LockKeeps, WriteAllKeeps, WrittenKeeps
<1> QED BY <1>1, <1>2, PayloadAlone DEF PayloadNext

(* Slices land where they belong: the parts of resolve_writes tile a slice *)
(* whatever the lengths of the files, and the lock of a handle is held     *)
(* from the seek to the end of the write, for any number of workers.       *)
THEOREM BytesAreInPlaceCorrect == Spec => []BytesAreInPlace
<1>1. PayloadInvariant => BytesAreInPlace
  <2> SUFFICES ASSUME PayloadInvariant PROVE BytesAreInPlace
    OBVIOUS
  <2>1. PayloadTypes /\ DiskIsRight /\ layout \in Seq(Nat)
    BY PayloadAssumption DEF PayloadInvariant, PayloadTypes
  <2>2. ASSUME NEW k \in Segments, NEW p \in DOMAIN disk[k], disk[k][p] # 0
        PROVE  IF Bounded THEN p < layout[k] /\ disk[k][p] = StartOf(k) + p + 1
                          ELSE k = 1 /\ disk[k][p] = p + 1
    <3>0. DOMAIN disk[k] = FilePlaces
      BY <2>1 DEF PayloadTypes
    <3>1. p \in FilePlaces /\ p \in Int
      BY <3>0 DEF FilePlaces
    <3>2. Inside(k, p) /\ disk[k][p] = Base(k) + p + 1
      BY <2>1, <2>2, <3>1 DEF DiskIsRight
    <3> QED BY <3>1, <3>2 DEF Inside, Base
  <2>3. ASSUME NEW w \in Writers, writing[w].pc = "done",
               NEW g \in writing[w].offset .. writing[w].offset + writing[w].size - 1
        PROVE  disk[FileOfByte(g)][PlaceOfByte(g)] = g + 1
    <3>1. writing[w].offset \in Nat /\ writing[w].size \in Nat
      BY <2>1, WriterFacts, PayloadAssumption
    <3>2. writing[w].parts = <<>> /\ Covered(writing[w])
      BY <2>3 DEF PayloadInvariant, Working
    <3>3. g \in Nat /\ g - writing[w].offset \in 0 .. writing[w].size - 1
          /\ writing[w].offset + (g - writing[w].offset) = g
      BY <3>1
    <3>4. InPlace(writing[w].offset + (g - writing[w].offset))
      BY <3>2, <3>3 DEF Covered
    <3> QED BY <2>1, <3>3, <3>4, PlaceIsFound
  <2> QED BY <2>2, <2>3 DEF BytesAreInPlace
<1> QED BY <1>1, PayloadStarts, PayloadStep, PTL DEF Spec
=============================================================================
