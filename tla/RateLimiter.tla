----------------------------- MODULE RateLimiter -----------------------------
(***************************************************************************)
(* The download rate limiter that all workers share (src/rate_limiter.rs). *)
(* The rate is an atomic, the next free instant is behind a lock, and a    *)
(* watch channel tells sleepers that the rate has changed: three steps of  *)
(* set_limit that interleave with the steps of acquire.                    *)
(*                                                                         *)
(* Instants are kept relative to now, as the ticks that are left.          *)
(***************************************************************************)
EXTENDS Integers, FiniteSets

CONSTANTS
  Fetchers,     \* the workers that fetch slices
  Rates,        \* the limits that are set; 0 is no limit
  Sizes,        \* of slices
  Unit,         \* ticks that a slice of size 1 takes at rate 1
  MaxChanges    \* bound: calls of set_limit

ASSUME LimiterAssumption ==
  /\ IsFiniteSet(Fetchers) /\ Rates \subseteq Nat /\ Unit \in Nat /\ MaxChanges \in Nat
  /\ Sizes \subseteq Nat /\ \E n \in Sizes : \A k \in Sizes : k <= n

VARIABLES
  rate,         \* bytes_per_second
  nextAt,       \* next_available_at
  told,         \* version of the watch channel
  setting,      \* step of set_limit
  acq,          \* of each fetcher: its step of acquire and its locals
  level,        \* history: a bucket that fills with what was let through and
                \* drains at the present rate
  leaked        \* history: a slot was reserved by a worker that is yet to be told,
                \* which reserves another one then

limiterVars == <<rate, nextAt, told, setting, acq, level, leaked>>

Idle == [pc |-> "idle", size |-> 0, heard |-> 0, rate |-> 0, until |-> 0]
MaxSize == CHOOSE n \in Sizes : \A k \in Sizes : k <= n

(* duration_for *)
Duration(size, r) == (size * Unit) \div r

LimiterInit ==
  /\ rate \in Rates /\ nextAt = 0 /\ told = 0 /\ setting = "no"
  /\ acq = [f \in Fetchers |-> Idle] /\ level = 0 /\ leaked = FALSE

Later(n) == IF n > 0 THEN n - 1 ELSE 0
Tick ==
  /\ nextAt > 0 \/ level > 0 \/ \E f \in Fetchers : acq[f].until > 0
  /\ nextAt' = Later(nextAt) /\ level' = Later(level)
  /\ acq' = [f \in Fetchers |-> [acq[f] EXCEPT !.until = Later(@)]]
  /\ UNCHANGED <<rate, told, setting, leaked>>

-----------------------------------------------------------------------------
(* set_limit_kib_per_sec *)

StoreRate ==
  /\ setting = "no" /\ told < MaxChanges
  /\ \E r \in Rates \ {rate} : rate' = r
  /\ setting' = "reset"
  /\ UNCHANGED <<nextAt, told, acq, level, leaked>>

ResetSlots ==
  /\ setting = "reset" /\ setting' = "tell"
  /\ nextAt' = 0 /\ level' = 0 /\ leaked' = FALSE
  /\ UNCHANGED <<rate, told, acq>>

(* Mutated form of TellWaiters: the sleepers are not woken. *)
TellWaitersLater ==
  /\ setting = "tell" /\ setting' = "no"
  /\ UNCHANGED <<rate, nextAt, told, acq, level, leaked>>

TellWaiters ==
  /\ setting = "tell" /\ setting' = "no"
  /\ told' = told + 1
  /\ UNCHANGED <<rate, nextAt, acq, level, leaked>>

-----------------------------------------------------------------------------
(* acquire *)

Become(f, r) == acq' = [acq EXCEPT ![f] = r]

Acquire(f) ==
  /\ acq[f].pc = "idle"
  /\ \E n \in Sizes : Become(f, [Idle EXCEPT !.pc = "load", !.size = n, !.heard = told])
  /\ UNCHANGED <<rate, nextAt, told, setting, level, leaked>>

LoadRate(f) ==
  /\ acq[f].pc = "load"
  /\ IF rate = 0 THEN Become(f, Idle)
                 ELSE Become(f, [acq[f] EXCEPT !.pc = "reserve", !.rate = rate])
  /\ UNCHANGED <<rate, nextAt, told, setting, level, leaked>>

(* Mutated form of Reserve: the slot that was free is not taken. *)
ReserveNothing(f) ==
  /\ acq[f].pc = "reserve"
  /\ Become(f, [acq[f] EXCEPT !.pc = "sleep", !.until = nextAt])
  /\ leaked' = (leaked \/ setting # "no" \/ acq[f].heard # told)
  /\ UNCHANGED <<rate, nextAt, told, setting, level>>

Reserve(f) ==
  /\ acq[f].pc = "reserve"
  /\ Become(f, [acq[f] EXCEPT !.pc = "sleep", !.until = nextAt])
  /\ nextAt' = nextAt + Duration(acq[f].size, acq[f].rate)
  /\ leaked' = (leaked \/ setting # "no" \/ acq[f].heard # told)
  /\ UNCHANGED <<rate, told, setting, level>>

(* Mutated form of Slept: only a change of the rate ends the wait. *)
SleptForever(f) == FALSE /\ UNCHANGED limiterVars

Slept(f) ==
  /\ acq[f].pc = "sleep" /\ acq[f].until = 0
  /\ Become(f, Idle)
  /\ level' = IF rate = 0 THEN 0 ELSE level + Duration(acq[f].size, rate)
  /\ UNCHANGED <<rate, nextAt, told, setting, leaked>>

Woken(f) ==
  /\ acq[f].pc = "sleep" /\ acq[f].heard # told
  /\ Become(f, [acq[f] EXCEPT !.pc = "load", !.heard = told, !.until = 0])
  /\ UNCHANGED <<rate, nextAt, told, setting, level, leaked>>

Fetching(f) == LoadRate(f) \/ Reserve(f) \/ Slept(f) \/ Woken(f)
SetLimit == ResetSlots \/ TellWaiters
LimiterNext ==
  Tick \/ StoreRate \/ SetLimit \/ \E f \in Fetchers : Acquire(f) \/ Fetching(f)

-----------------------------------------------------------------------------

LimiterTypeOK ==
  /\ rate \in Rates /\ {nextAt, level} \subseteq Nat /\ told \in 0 .. MaxChanges
  /\ setting \in {"no", "reset", "tell"} /\ leaked \in BOOLEAN
  /\ \A f \in Fetchers :
       /\ acq[f].pc \in {"idle", "load", "reserve", "sleep"}
       /\ acq[f].heard <= told /\ acq[f].rate \in Rates \cup {0} /\ acq[f].until \in Nat

(* What has passed the limiter never exceeds the rate by more than the     *)
(* slices that are under way: late sleepers and slots of an earlier rate   *)
(* let through at most one slice of each worker, and one more.             *)
RateIsKept ==
  rate # 0 /\ setting = "no" =>
    level <= (Cardinality(Fetchers) + 1) * Duration(MaxSize, rate)

(* A new limit reaches the workers that sleep: once they were told, nobody *)
(* waits longer than a slice of each worker takes at the new rate, unless a*)
(* slot was reserved between the reset and the waking.                     *)
LimitReachesSleepers ==
  setting = "no" /\ ~leaked =>
    \A f \in Fetchers :
      acq[f].pc = "sleep" /\ acq[f].heard = told =>
        /\ rate # 0
        /\ acq[f].until <= Cardinality(Fetchers) * Duration(MaxSize, rate)

(* Every acquire returns. *)
AcquireReturns == \A f \in Fetchers : acq[f].pc # "idle" ~> acq[f].pc = "idle"
=============================================================================
