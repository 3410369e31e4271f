------------------------------- MODULE Retention -------------------------------
(***************************************************************************)
(* The retention policy of the prune command: the walk over the snapshots, *)
(* newest first, that counts them per day, per week and per month, and     *)
(* keeps as many of each as the policy says.                               *)
(*                                                                         *)
(* A snapshot is the day it was taken; a day is a number, and the calendar *)
(* a parameter.  What deleting a snapshot does to the repository is the    *)
(* business of module Prune.                                               *)
(***************************************************************************)
EXTENDS Naturals, FiniteSets, Sequences

CONSTANTS
  RetentionDays,   \* the days snapshots are taken on
  YearOf,          \* day -> calendar year
  MonthOf,         \* day -> month of the year
  WeekNumberOf,    \* day -> number of its ISO week
  WeekOf,          \* day -> its week, from Monday to Sunday
  Policies,        \* records with keep_daily, keep_weekly and keep_monthly
  MaxSnapshots,    \* bound: how many snapshots there are
  MaxPrunes        \* bound: how many prunes

ASSUME RetentionAssumption ==
  /\ RetentionDays \subseteq Nat
  /\ Policies \subseteq [keep_daily : Nat, keep_weekly : Nat, keep_monthly : Nat]
  /\ MaxSnapshots \in Nat /\ MaxPrunes \in Nat

VARIABLES
  rtDays,    \* the snapshots, oldest first: the day of each
  rtStep,    \* "idle" or "walk"
  rtPolicy,  \* of the running prune
  rtAt,      \* the snapshot the walk is at
  daily_counts, weekly_counts, monthly_counts,   \* key -> count
  rtKeep,    \* to_keep
  rtPrunes

countsVars == <<daily_counts, weekly_counts, monthly_counts>>
retentionVars == <<rtDays, rtStep, rtPolicy, rtAt, countsVars, rtKeep, rtPrunes>>

NoCounts == [k \in {} |-> 0]
NoPolicy == [keep_daily |-> 0, keep_weekly |-> 0, keep_monthly |-> 0]

RetentionInit ==
  /\ rtDays = <<>> /\ rtStep = "idle" /\ rtPolicy = NoPolicy /\ rtAt = 0
  /\ daily_counts = NoCounts /\ weekly_counts = NoCounts /\ monthly_counts = NoCounts
  /\ rtKeep = {} /\ rtPrunes = 0

\* A backup on the day of the last one or later.
TakeSnapshot ==
  /\ rtStep = "idle" /\ Len(rtDays) < MaxSnapshots
  /\ \E d \in RetentionDays :
       /\ \A i \in DOMAIN rtDays : rtDays[i] <= d
       /\ rtDays' = Append(rtDays, d)
  /\ UNCHANGED <<rtStep, rtPolicy, rtAt, countsVars, rtKeep, rtPrunes>>

\* cmd_prune wants one count at least, prune_snapshots one snapshot.
StartPrune ==
  /\ rtStep = "idle" /\ rtDays # <<>> /\ rtPrunes < MaxPrunes
  /\ rtPolicy' \in Policies /\ rtPolicy' # NoPolicy
  /\ daily_counts' = NoCounts /\ weekly_counts' = NoCounts /\ monthly_counts' = NoCounts
  /\ rtKeep' = {}
  /\ rtStep' = "walk" /\ rtAt' = Len(rtDays) /\ rtPrunes' = rtPrunes + 1
  /\ UNCHANGED rtDays

CountOf(counts, key) == IF key \in DOMAIN counts THEN counts[key] ELSE 0

\* Slip: the entry is made without counting the snapshot it is made for.
CountedLate(counts, key, keep) ==
  [k \in DOMAIN counts \cup {key} |->
     IF k # key THEN counts[k]
     ELSE IF k \in DOMAIN counts /\ counts[k] < keep THEN counts[k] + 1 ELSE CountOf(counts, k)]

\* The entry is made in any case; it goes up while it is below what is kept.
Counted(counts, key, keep) ==
  [k \in DOMAIN counts \cup {key} |->
     IF k # key THEN counts[k]
     ELSE IF CountOf(counts, key) < keep THEN CountOf(counts, key) + 1 ELSE CountOf(counts, key)]

DayKey(d) == <<YearOf[d], MonthOf[d], d>>
MonthKey(d) == <<YearOf[d], MonthOf[d]>>

\* Slip: weeks are counted by their number alone.
WeekKeyNumber(d) == <<WeekNumberOf[d]>>

\* The calendar year, not the year the ISO week belongs to.
WeekKey(d) == <<YearOf[d], WeekNumberOf[d]>>

Under(counts, key, keep) == CountOf(counts, key) < keep

Keeps(d) ==
  \/ Under(daily_counts, DayKey(d), rtPolicy.keep_daily)
  \/ Under(weekly_counts, WeekKey(d), rtPolicy.keep_weekly)
  \/ Under(monthly_counts, MonthKey(d), rtPolicy.keep_monthly)

\* From the newest to the oldest.
Current == rtAt

\* One turn of the loop.
WalkOne ==
  /\ rtStep = "walk" /\ rtAt > 0
  /\ LET d == rtDays[Current]
     IN  /\ rtKeep' = IF Keeps(d) THEN rtKeep \cup {Current} ELSE rtKeep
         /\ daily_counts' = Counted(daily_counts, DayKey(d), rtPolicy.keep_daily)
         /\ weekly_counts' = Counted(weekly_counts, WeekKey(d), rtPolicy.keep_weekly)
         /\ monthly_counts' = Counted(monthly_counts, MonthKey(d), rtPolicy.keep_monthly)
  /\ rtAt' = rtAt - 1
  /\ UNCHANGED <<rtDays, rtStep, rtPolicy, rtPrunes>>

\* The snapshots that are not kept are deleted; the others stay in their order.
DeleteRest ==
  /\ rtStep = "walk" /\ rtAt = 0
  /\ \E kept \in [1..Cardinality(rtKeep) -> rtKeep] :
       /\ \A m, n \in DOMAIN kept : m < n => kept[m] < kept[n]
       /\ rtDays' = [n \in DOMAIN kept |-> rtDays[kept[n]]]
  /\ rtStep' = "idle" /\ rtAt' = 0 /\ rtKeep' = {}
  /\ UNCHANGED <<rtPolicy, countsVars, rtPrunes>>

RetentionNext == TakeSnapshot \/ StartPrune \/ WalkOne \/ DeleteRest

RetentionSpec == RetentionInit /\ [][RetentionNext]_retentionVars

-----------------------------------------------------------------------------
\* Correctness, of the snapshots a finished walk keeps.

WalkDone == rtStep = "walk" /\ rtAt = 0

\* The n newest of some snapshots.
NewestOf(S, n) == {i \in S : Cardinality({j \in S : i < j}) < n}

\* Days of one number and year that are in two weeks: the end of December and
\* the beginning of January, when the last days are in week 1.
KeyShared(week) ==
  \E d, e \in RetentionDays :
    /\ WeekOf[d] = week /\ WeekOf[e] # week
    /\ YearOf[d] = YearOf[e] /\ WeekNumberOf[d] = WeekNumberOf[e]

\* Of every day and month, and of every week whose key no other week shares,
\* the newest snapshots are kept, as many as the policy says (prune_snapshots,
\* "most recent snapshots per day", "per week", "per month"); and whatever the
\* policy, the newest of all.
NewestOfPeriodsKept ==
  WalkDone =>
    /\ Len(rtDays) \in rtKeep
    /\ \A d \in RetentionDays :
         LET taken(period(_)) == {i \in DOMAIN rtDays : period(rtDays[i]) = period(d)}
         IN  /\ NewestOf(taken(LAMBDA e : e), rtPolicy.keep_daily) \subseteq rtKeep
             /\ NewestOf(taken(MonthKey), rtPolicy.keep_monthly) \subseteq rtKeep
             /\ ~KeyShared(WeekOf[d]) =>
                  NewestOf(taken(LAMBDA e : WeekOf[e]), rtPolicy.keep_weekly) \subseteq rtKeep

\* Nothing is kept that no rule asks for: in its day, its month and its part of
\* the week before or after New Year, as many newer ones are there as may stay.
NothingElseKept ==
  WalkDone => \A i \in rtKeep :
    LET newer(same(_)) == Cardinality({j \in DOMAIN rtDays : i < j /\ same(rtDays[j])})
        d == rtDays[i]
    IN  \/ newer(LAMBDA e : e = d) < rtPolicy.keep_daily
        \/ newer(LAMBDA e : WeekKey(e) = WeekKey(d)) < rtPolicy.keep_weekly
        \/ newer(LAMBDA e : MonthKey(e) = MonthKey(d)) < rtPolicy.keep_monthly

================================================================================
