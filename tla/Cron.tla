--------------------------------- MODULE Cron ---------------------------------
(***************************************************************************)
(* Cron expressions as governance/scheduler.py reads them: the values of a *)
(* field, what is accepted, and the next time an expression matches.       *)
(*                                                                         *)
(* Times are seconds since 1970-01-01 UTC.  An expression is a record of   *)
(* five fields, a field a set of parts: what split(",") leaves of it.      *)
(***************************************************************************)
EXTENDS Integers, FiniteSets, FiniteSetsExt

Every == [kind |-> "every", from |-> 0, to |-> 0]           \* *
Step(n) == [kind |-> "step", from |-> n, to |-> 0]          \* */n
Range2(a, b) == [kind |-> "range", from |-> a, to |-> b]    \* a-b
One(n) == [kind |-> "range", from |-> n, to |-> n]          \* n

Fields == {"minute", "hour", "day", "month", "weekday"}

Lowest == [minute |-> 0, hour |-> 0, day |-> 1, month |-> 1, weekday |-> 0]
Highest == [minute |-> 59, hour |-> 23, day |-> 31, month |-> 12, weekday |-> 6]

PartValues(f, part) ==
  CASE part.kind = "every" -> Lowest[f]..Highest[f]
    [] part.kind = "step" -> {v \in Lowest[f]..Highest[f] : (v - Lowest[f]) % part.from = 0}
    [] part.kind = "range" -> part.from..part.to

FieldValues(f, parts) == UNION {PartValues(f, part) : part \in parts}

PartAccepted(part) ==
  /\ part.kind = "step" => part.from > 0
  /\ part.kind = "range" => part.from <= part.to

FieldAccepted(f, parts) ==
  /\ parts # {}
  /\ \A part \in parts : PartAccepted(part)
  /\ FieldValues(f, parts) \subseteq Lowest[f]..Highest[f]

ValidCron(cron) == \A f \in Fields : FieldAccepted(f, cron[f])

-----------------------------------------------------------------------------
(* datetime.fromtimestamp for a day number: year, month and day are those of *)
(* the Gregorian calendar, counted from a 1st of March; Monday is weekday 0. *)

Minute == 60
Day == 86400

Date(d) ==
  LET z == d + 719468
      inEra == z % 146097
      yearOfEra == (inEra - inEra \div 1460 + inEra \div 36524 - inEra \div 146096) \div 365
      inYear == inEra - (365 * yearOfEra + yearOfEra \div 4 - yearOfEra \div 100)
      m == (5 * inYear + 2) \div 153 IN
  [day |-> inYear - (153 * m + 2) \div 5 + 1,
   month |-> IF m < 10 THEN m + 3 ELSE m - 9,
   weekday |-> (d + 3) % 7]

DayMatches(cron, d) ==
  \A f \in {"day", "month", "weekday"} : Date(d)[f] \in FieldValues(f, cron[f])

TimesOfDay(cron) ==
  {3600 * h + Minute * m : h \in FieldValues("hour", cron.hour),
                           m \in FieldValues("minute", cron.minute)}

\* The search tries this many minutes: 366 days.
SearchedMinutes == 527040

Never == -1

\* The first of the full minutes after the given time that matches, or Never
\* (the code raises): looked for day by day.
NextRunAfter(cron, after) ==
  LET first == (after \div Minute + 1) * Minute
      final == first + (SearchedMinutes - 1) * Minute
      times == TimesOfDay(cron)
      TimesOn(d) == {x \in times : first <= Day * d + x /\ Day * d + x <= final}
      Hit(d) == DayMatches(cron, d) /\ TimesOn(d) # {}
      days == (first \div Day)..(final \div Day) IN
  IF \A d \in days : ~Hit(d) THEN Never
  ELSE LET d == CHOOSE d \in days : Hit(d) /\ \A e \in days : e < d => ~Hit(e)
       IN Day * d + Min(TimesOn(d))
=============================================================================
