----------------------------- MODULE KeyedLimiter -----------------------------
(***************************************************************************)
(* The two rate limiters that main.rs builds: governor's keyed limiter     *)
(* with a quota of Burst permits, one of which comes back every Period.    *)
(* Submissions use one key per address and geohash cell (two an hour), the *)
(* public GeoJSON one key per address (two a minute).                      *)
(*                                                                         *)
(* The crate is not part of the repository: its contract is a bucket of    *)
(* Burst permits per key, kept in the memory of the process only.  The     *)
(* bucket is written as a debt, the time until all its permits are back.   *)
(***************************************************************************)
EXTENDS Integers

CONSTANTS Key,      \* the keys that requests are counted under
          Burst,    \* permits of a full bucket (2 in main.rs)
          Period    \* ticks until one permit comes back

ASSUME BurstAssumption == Burst \in Nat \ {0}
ASSUME PeriodAssumption == Period \in Nat \ {0}

VARIABLES debt,     \* per key, ticks until the bucket is full again
          ages      \* per key, ticks since the i-th latest admission (a history)

limiterVars == <<debt, ages>>

\* The time a quota is given for: Burst permits per Window.
Window == Burst * Period

Latest == 1 .. 2 * Burst

\* A process starts without any state: every bucket is full.
LimiterInit ==
    /\ debt = [k \in Key |-> 0]
    /\ ages = [k \in Key |-> [i \in Latest |-> Window]]

PermittedAtZero(k) == debt[k] <= Burst * Period

\* check_key is Ok: a permit is there.
Permitted(k) == debt[k] <= (Burst - 1) * Period

Admit(k) ==
    /\ Permitted(k)
    /\ debt' = [debt EXCEPT ![k] = debt[k] + Period]
    /\ ages' = [ages EXCEPT ![k] = [i \in Latest |-> IF i = 1 THEN 0 ELSE ages[k][i - 1]]]

RefuseCharging(k) ==
    /\ ~Permitted(k)
    /\ debt' = [debt EXCEPT ![k] = Window]
    /\ UNCHANGED ages

\* check_key is Err: nothing is taken from the bucket.
Refuse(k) ==
    /\ ~Permitted(k)
    /\ UNCHANGED limiterVars

\* Time passes for every key; a history older than the window is forgotten.
Tick ==
    /\ debt' = [k \in Key |-> IF debt[k] = 0 THEN 0 ELSE debt[k] - 1]
    /\ ages' = [k \in Key |-> [i \in Latest |->
                    IF ages[k][i] < Window THEN ages[k][i] + 1 ELSE Window]]

\* The process ends and starts again with empty memory.
Restart ==
    /\ debt' = [k \in Key |-> 0]
    /\ ages' = [k \in Key |-> [i \in Latest |-> Window]]

LimiterNext == Tick \/ Restart \/ \E k \in Key : Admit(k) \/ Refuse(k)

LimiterSpec == LimiterInit /\ [][LimiterNext]_limiterVars

-----------------------------------------------------------------------------
(* What the limiter promises.                                              *)

LimiterTypeOK ==
    /\ debt \in [Key -> 0 .. Window]
    /\ ages \in [Key -> [Latest -> 0 .. Window]]

\* However requests of a key are spread, a sliding window of one run of the
\* process holds fewer than twice the quota: the admission before the last
\* 2 * Burst - 1 is at least a window old (main.rs:135 and 139; with a quota of
\* two, three in any hour, not two).
SlidingWindow == \A k \in Key : ages[k][2 * Burst] = Window

\* The strengthening that is inductive: i admissions within a window leave a
\* debt of at least i periods less the time since the first of them.
DebtCovers ==
    \A k \in Key : \A i \in Latest :
        ages[k][i] < Window => debt[k] + ages[k][i] >= i * Period

LimiterIInv == LimiterTypeOK /\ DebtCovers
=============================================================================
