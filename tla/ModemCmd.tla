------------------------------ MODULE ModemCmd ------------------------------
(***************************************************************************)
(* The one command that can be with the modem (at_send_cmd_task.c), as     *)
(* operators on a record: its phase, the command itself and the retries it *)
(* has left.  A command is only known by a name; the texts that answer it  *)
(* are the two outcomes "ok" and "fail".                                   *)
(***************************************************************************)
EXTENDS Naturals, Sequences

Phases == {"send", "wait", "ok", "error"}

(* ModemCmdTask_IsIdle.                                                    *)
IsIdle(c) == c.phase \in {"ok", "error"}

(* ModemCmdTask_SendCmd: refused while a command is under way.  criticalCmd*)
(* is never set by the program.                                            *)
SendCmd(c, name, retryNum) ==
  IF IsIdle(c) THEN [phase |-> "send", name |-> name, retry |-> retryNum] ELSE c

(* ModemCmdTask_SetWait: wait for an answer to what was written directly.  *)
SetWait(c, name) ==
  IF IsIdle(c) THEN [phase |-> "wait", name |-> name, retry |-> 0] ELSE c

(* Mutant of Again: the retries are not counted.                           *)
AgainUncounted(c) ==
  IF c.retry > 0 THEN [c EXCEPT !.phase = "send"] ELSE [c EXCEPT !.phase = "error"]

(* Once more, or over.                                                     *)
Again(c) ==
  IF c.retry > 0 THEN [c EXCEPT !.phase = "send", !.retry = c.retry - 1]
                 ELSE [c EXCEPT !.phase = "error"]

(* What the texts that are found in the input make of the command: the     *)
(* loop goes on over the rest of the input after the first.                *)
Found(c, res) == IF res = "ok" THEN [c EXCEPT !.phase = "ok"] ELSE Again(c)

(* The one or two texts that one call finds.                               *)
FoundAll(c, batch) ==
  IF Len(batch) = 1 THEN Found(c, batch[1]) ELSE Found(Found(c, batch[1]), batch[2])
=============================================================================
