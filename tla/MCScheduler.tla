----------------------------- MODULE MCScheduler -----------------------------
(* Times around the 28th of February 2028, a Monday, and the year after.     *)
EXTENDS Scheduler

CONSTANT p1

Start == 21242 * Day  \* 2028-02-28 00:00 UTC

At(fields) == [f \in Fields |-> IF f \in DOMAIN fields THEN fields[f] ELSE {Every}]

EveryMinute == At([minute |-> {Every}, hour |-> {One(0)}])
EveryOther == At([minute |-> {Step(2)}, hour |-> {One(0)}])
LeapDay == At([minute |-> {One(0)}, hour |-> {One(0)}, day |-> {One(29)}, month |-> {One(2)}])
Daily == At([minute |-> {One(1)}, hour |-> {One(0)}])

Minutely == <<EveryMinute, EveryOther>>
WithLeapDay == <<LeapDay, Daily>>

Patient == <<500, 30>>

FewMinutes == {Start + t : t \in {5, 60, 90, 150, 240, 270}}
LeapWeek == {Start + t : t \in {0, Day, Day + 60, Day + 90}}
=============================================================================
