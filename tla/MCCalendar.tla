----------------------------- MODULE MCCalendar -----------------------------
(***************************************************************************)
(* One struct TIME driven through the seconds around every day boundary of *)
(* the years in Years, by the code's increment and carries, against the    *)
(* closed form of the Gregorian calendar.                                  *)
(***************************************************************************)
EXTENDS Calendar

CONSTANT Years      \* years whose every day is started from

VARIABLES shown,    \* Datagram.msk (or .local) after Time_counting
          count     \* seconds counted since the start

MaxSteps == 4       \* from :58 over the boundary and into the next minute

\* Every day of the years, in the last two minutes of an hour, of a day.
Starts ==
    [second: {58, 59}, minute: {58, 59}, hour: {0, 22, 23},
     day: 1..31, month: 1..12, year: Years]

CountInit ==
    /\ shown \in {s \in Starts : Normal(s)}
    /\ count = 0

CountNext ==
    /\ count < MaxSteps
    /\ shown' = Time_counting(AddSecond(shown))
    /\ count' = count + 1

CountSpec == CountInit /\ [][CountNext]_<<shown, count>>

\* Time_counting (Main.c:515) yields a date that exists, at a time of day
\* that exists, after every increment: no 31 April, no 29 February outside
\* leap years (2100 included), no 24:00.
StaysNormal == Normal(shown)

\* One increment of Counting_seconds followed by Time_counting advances the
\* instant shown by exactly one second, over minute, hour, day, month, year
\* and leap-day boundaries alike.
AdvancesOneSecond == [][Elapsed(shown, shown') = 1]_<<shown, count>>
=============================================================================
