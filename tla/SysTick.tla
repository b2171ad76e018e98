------------------------------ MODULE SysTick ------------------------------
(***************************************************************************)
(* ampm_lib/lib/sys_tick.c: the 32-bit tick and the timers that every task *)
(* of the main loop polls.  A timer is never told that it has run out: it  *)
(* compares the tick with the one at its start each time it is asked, so   *)
(* what it answers must survive the wrap of the tick.                      *)
(***************************************************************************)
EXTENDS Integers

CONSTANTS
  Ticks,        \* values of the tick (2^32)
  MaxElapsed    \* bound: ticks after InitTimeout

ASSUME TickAssumption == Ticks \in Nat /\ Ticks >= 2 /\ MaxElapsed \in Nat

VARIABLES
  now,          \* sysTickCounter32
  t,            \* the Timeout_Type
  answer,       \* what CheckTimeout returned last; 0 is SYSTICK_TIMEOUT
  running,      \* history: InitTimeout was called
  elapsed,      \* history: ticks since then
  expired       \* history: CheckTimeout has said so since then

tickVars == <<now, t, answer, running, elapsed, expired>>

Word == 0 .. Ticks - 1
Timeout_Type == [start_time : Word, timeout : Word, crc : Word]

(* Unsigned sums.                                                          *)
Plus(a, b) == IF a + b >= Ticks THEN a + b - Ticks ELSE a + b

(* A timer on the stack, as tTrackerTask, starts with any content.         *)
TickInit ==
  /\ now \in Word /\ t \in Timeout_Type /\ answer = 0
  /\ running = FALSE /\ elapsed = 0 /\ expired = FALSE

SysTick_Task ==
  /\ elapsed < MaxElapsed
  /\ now' = Plus(now, 1) /\ elapsed' = IF running THEN elapsed + 1 ELSE 0
  /\ UNCHANGED <<t, answer, running, expired>>

InitTimeout(timeout) ==
  /\ t' = [start_time |-> now, timeout |-> timeout, crc |-> Plus(now, timeout)]
  /\ running' = TRUE /\ elapsed' = 0 /\ expired' = FALSE
  /\ UNCHANGED <<now, answer>>

(* Mutant of Since: the distance back to the start.                        *)
SinceBackwards == IF now >= t.start_time THEN now - t.start_time ELSE t.start_time - now

(* The ticks since the start: one too few once the tick has wrapped.       *)
Since == IF now >= t.start_time THEN now - t.start_time ELSE Ticks - 1 - t.start_time + now

(* What CheckTimeout returns; a timer that nobody has started has run out, *)
(* unless its content happens to add up.                                   *)
Remaining ==
  IF Plus(t.start_time, t.timeout) # t.crc \/ Since >= t.timeout THEN 0 ELSE t.timeout - Since

CheckTimeout ==
  /\ answer' = Remaining /\ expired' = (expired \/ (running /\ Remaining = 0))
  /\ UNCHANGED <<now, t, running, elapsed>>

TickNext == SysTick_Task \/ (\E timeout \in Word : InitTimeout(timeout)) \/ CheckTimeout

TickSpec == TickInit /\ [][TickNext]_tickVars

-----------------------------------------------------------------------------
(* Type invariant.                                                         *)
TickTypeOK ==
  /\ now \in Word /\ t \in Timeout_Type /\ answer \in Word
  /\ running \in BOOLEAN /\ elapsed \in Nat /\ expired \in BOOLEAN

(* A timer that is running is never found expired before its time, over    *)
(* any number of wraps of the tick.                                        *)
NeverEarly == running /\ Remaining = 0 => elapsed >= t.timeout

(* It is found expired at the latest one tick late, and from then on until *)
(* the tick comes round to where it started.                               *)
ExpiredStays ==
  running /\ elapsed < Ticks /\ (expired \/ elapsed > t.timeout) => Remaining = 0
=============================================================================
