---------------------------- MODULE GuestClock ----------------------------
(***************************************************************************)
(* The clock of ModRuntime (core/brew/mod_runtime.cpp): uptime_ms_ moves   *)
(* at every turn of the main loop and, because a guest may poll it without *)
(* ever returning to that loop, at every read; and its calendar.           *)
(***************************************************************************)
EXTENDS Integers

CONSTANTS
    Wide,       \* clock values; 2^32 in the code
    PerRead,    \* uptime_advance_per_read_
    TickMs,     \* elapsed time of a turn of the loop
    Wait        \* what the guest waits for

VARIABLES
    uptime,     \* uptime_ms_
    from,       \* where the guest's wait began; -1 when it does not wait
    reads       \* how often it has looked since

clockVars == <<uptime, from, reads>>

ClockTypeOK == uptime \in 0..Wide - 1 /\ from \in -1..Wide - 1 /\ reads \in Nat

ClockInit == uptime \in 0..Wide - 1 /\ from = -1 /\ reads = 0

(* A read gives the value before its own advance. *)
Advanced_OnlyByTicks == uptime

Advanced == (uptime + PerRead) % Wide

BeginWait == from = -1 /\ from' = uptime /\ reads' = 0 /\ uptime' = Advanced

Poll ==
    /\ from # -1
    /\ from' = IF (uptime - from) % Wide >= Wait THEN -1 ELSE from
    /\ reads' = IF from' = -1 THEN 0 ELSE reads + 1
    /\ uptime' = Advanced

TickClock == uptime' = (uptime + TickMs) % Wide /\ UNCHANGED <<from, reads>>

(* The loop turns only between the guest's calls: not while it polls. *)
ClockNext == BeginWait \/ Poll \/ (from = -1 /\ TickClock)

ClockSpec == ClockInit /\ [][ClockNext]_clockVars

-----------------------------------------------------------------------------
(* GETJULIANDATE: the calendar of a day counted from 1980-01-06. *)

BrewEpoch == 3657       \* that day, from 1970-01-01

Civil(day) ==
    LET z == day + BrewEpoch + 719468
        era == z \div 146097
        doe == z - era * 146097
        yoe == (doe - doe \div 1460 + doe \div 36524 - doe \div 146096) \div 365
        doy == doe - (365 * yoe + yoe \div 4 - yoe \div 100)
        mp == (5 * doy + 2) \div 153
        m == IF mp < 10 THEN mp + 3 ELSE mp - 9
    IN  [y |-> yoe + era * 400 + (IF m <= 2 THEN 1 ELSE 0), m |-> m,
         d |-> doy - (153 * mp + 2) \div 5 + 1, w |-> day % 7]

-----------------------------------------------------------------------------
(* Properties. *)

(* A guest that polls the clock inside one call, where no turn of the loop can
   move it, waits for as many reads as it should and no more, over the end of
   the clock too (GetUpTimeMsImpl, Tick). *)
BusyWaitEnds == reads * PerRead < Wait + PerRead

Leap(y) == y % 4 = 0 /\ (y % 100 # 0 \/ y % 400 = 0)

DaysIn(y, m) == IF m = 2 THEN IF Leap(y) THEN 29 ELSE 28
                ELSE IF m \in {4, 6, 9, 11} THEN 30 ELSE 31

DayAfter(c) ==
    IF c.d < DaysIn(c.y, c.m) THEN [c EXCEPT !.d = @ + 1, !.w = (@ + 1) % 7]
    ELSE [y |-> IF c.m = 12 THEN c.y + 1 ELSE c.y, m |-> IF c.m = 12 THEN 1 ELSE c.m + 1,
          d |-> 1, w |-> (c.w + 1) % 7]

(* Over every day that 32-bit seconds reach, the date GETJULIANDATE gives is
   the one after the day before's (AeeGetJulianDateImpl). *)
CalendarRight ==
    /\ Civil(0) = [y |-> 1980, m |-> 1, d |-> 6, w |-> 0]
    /\ \A day \in 0..49709 : Civil(day + 1) = DayAfter(Civil(day))

-----------------------------------------------------------------------------
(* Why a wait ends, for any clock that does not go round while the guest waits
   (MCPlatform): what has passed is what its reads have added, the first included. *)
ClockBounds ==
    /\ {Wide, PerRead, TickMs, Wait} \subseteq Nat
    /\ PerRead > 0 /\ Wait > 0 /\ Wait + PerRead <= Wide

ClockInv ==
    /\ uptime \in 0..Wide - 1 /\ from \in -1..Wide - 1 /\ reads \in Nat
    /\ IF from = -1 THEN reads = 0
       ELSE /\ (uptime - from) % Wide = (reads + 1) * PerRead
            /\ reads * PerRead < Wait
=============================================================================
