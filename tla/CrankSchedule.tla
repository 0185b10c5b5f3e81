--------------------------- MODULE CrankSchedule ---------------------------
(* When a tab may be cranked (crank/index.ts, "Intervals, last runs, due /   *)
(* next-run math"). Times are seconds. An interval that is not set is None,  *)
(* a tab that was never cranked has the last run Never.                      *)
EXTENDS Integers

None == 0
Never == -1
Cron == 300   \* ZCRANK_CRON_SECONDS: the engine ticks every five minutes
Grace == 300  \* ZCRANK_GRACE_SECONDS

\* longestInterval(): the longest of the intervals set on a tab's keys.
Longest(S) == IF S \ {None} = {} THEN None
              ELSE CHOOSE i \in S \ {None} : \A j \in S \ {None} : j <= i

\* effectiveInterval(): the longest, or the global default.
Effective(S, global) == IF Longest(S) = None THEN global ELSE Longest(S)

\* isDue()
Due(i, last, now) == \/ i <= Cron
                     \/ last = Never
                     \/ now >= last + (i - Grace)

\* Math.ceil(t / Cron) * Cron
TickFrom(t) == ((t + (Cron - 1)) \div Cron) * Cron

\* nextRunMs() of a tab that is on.
NextRun(i, last, now) ==
  LET free == last + (i - Grace)
  IN  IF i > Cron /\ last # Never /\ free > now THEN TickFrom(free) ELSE TickFrom(now)
=============================================================================
