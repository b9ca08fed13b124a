--------------------------- MODULE MCCronSchedule ---------------------------
(***************************************************************************)
(* The occurrences around a change of the clock: an hour (two minutes) is  *)
(* set back at instant 36, in zones whose wall clock is then at hour 1 or  *)
(* elsewhere in the day.                                                   *)
(***************************************************************************)
EXTENDS CronSchedule

MCCrons ==
    [minute : {{}, {0}, {1}}, hour : {{}, {1}, {0, 2}}, dayOfMonth : {{}, {1}, {3}},
     month : {{}, {1}, {2}}, dayOfWeek : {{}, {0}}]
Shifting == {[change |-> 36, before |-> c, since |-> c - 2] : c \in {0, 2, 4}}
=============================================================================
