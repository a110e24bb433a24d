----------------------------- MODULE TokenBucket -----------------------------
(***************************************************************************)
(* struct TokenBucket of src/src/services/upload.rs: the one rate limiter  *)
(* that all uploads share.  Time is counted in ticks, Second ticks to the  *)
(* second; a rate is in units of data per tick.  The bucket holds at most  *)
(* one second's worth of tokens, so the time since the last refill counts  *)
(* up to one second and no further.                                        *)
(*                                                                         *)
(* clock and passed observe the bucket through a window of MaxClock ticks  *)
(* that may be opened at any moment: how long ago it was opened and how    *)
(* much the bucket has let through since.  They change nothing.            *)
(***************************************************************************)
EXTENDS Integers

CONSTANTS Second, MaxClock

ASSUME TimeAssumption == Second \in Nat \ {0} /\ MaxClock \in Nat

VARIABLES
  rate,     \* rate_bytes_per_sec; 0: unlimited
  tokens,
  elapsed,  \* time since last_refill
  clock,    \* ticks since the window was opened
  passed    \* what consume has let through in it

bucketVars == <<rate, tokens, elapsed, clock, passed>>

BucketTypeOK ==
  /\ {rate, tokens, passed} \subseteq Nat
  /\ elapsed \in 0..Second
  /\ clock \in 0..MaxClock

\* TokenBucket::new
BucketInit(r) ==
  /\ rate = r /\ tokens = r * Second
  /\ elapsed = 0 /\ clock = 0 /\ passed = 0

\* set_rate: tokens and the last refill stay as they are.  The window closes.
SetRate(r) ==
  /\ rate' = r
  /\ clock' = MaxClock /\ passed' = 0
  /\ UNCHANGED <<tokens, elapsed>>

Tick ==
  /\ elapsed < Second \/ clock < MaxClock
  /\ elapsed' = IF elapsed < Second THEN elapsed + 1 ELSE elapsed
  /\ clock'   = IF clock < MaxClock THEN clock + 1 ELSE clock
  /\ UNCHANGED <<rate, tokens, passed>>

\* Open the window here: from now on clock and passed count afresh.
Observe ==
  /\ clock' = 0 /\ passed' = 0
  /\ UNCHANGED <<rate, tokens, elapsed>>

\* Faulty: the tokens saved up while nobody asked are not capped.
UncappedRefill(limit) == tokens + elapsed * limit

\* The tokens after a refill at the rate that consume read when it was called.
Refilled(limit) ==
  LET sum == tokens + elapsed * limit IN
  IF sum > limit * Second THEN limit * Second ELSE sum

\* Faulty: takes the tokens without looking whether they are there.
ConsumeUnchecked(n, limit, granted) ==
  /\ granted = TRUE
  /\ tokens' = Refilled(limit) - n
  /\ elapsed' = 0
  /\ passed' = IF clock < MaxClock THEN passed + n ELSE passed
  /\ UNCHANGED <<rate, clock>>

\* One turn of the loop in consume: refill, and take n tokens if they are there.
Consume(n, limit, granted) ==
  /\ granted = (Refilled(limit) >= n)
  /\ tokens' = IF granted THEN Refilled(limit) - n ELSE Refilled(limit)
  /\ elapsed' = 0
  /\ passed' = IF granted /\ clock < MaxClock THEN passed + n ELSE passed
  /\ UNCHANGED <<rate, clock>>
=============================================================================
