------------------------------ MODULE SmsInbox ------------------------------
(***************************************************************************)
(* How a text message becomes a command: the parser of the modem's output  *)
(* (at_cmd_sms_parser.c, in the UART interrupt) puts the locations of      *)
(* received messages into smsUnreadRingBuff, two bytes each; SMS_Manage    *)
(* (sms_task.c, main loop) takes them out, asks the modem for each message,*)
(* deletes it there and executes it.                                       *)
(*                                                                         *)
(* The modem and its memory are external: it serves the commands it is     *)
(* sent one after the other.  A message is announced by +CMTI when the     *)
(* modem is in command mode, and listed by AT+CMGL in any case.  RINGBUF   *)
(* operations are atomic here; UartRx looks inside them.                   *)
(***************************************************************************)
EXTENDS RingOps, SequencesExt

CONSTANTS
  Byte,       \* values of a byte (256)
  MaxLoc,     \* messages the modem's memory holds
  MaxMsg,     \* bound: messages received
  MaxFault    \* bound: answers that are garbled or come too late

ASSUME InboxAssumption ==
  /\ Byte \in Nat \ {0} /\ MaxLoc \in 1 .. Byte - 1
  /\ MaxMsg \in Nat /\ MaxFault \in Nat

VARIABLES
  store,         \* the modem's memory: a message or None at each location
  cmds,          \* commands the modem has not served yet
  ring,          \* smsUnreadRingBuff
  dataBuf,       \* smsDataBuf, as the number of the message in it
  readFinish,    \* flagSmsReadFinish
  pc,            \* where SMS_Manage is
  smsLoc,
  begun,         \* a message was taken since timeOutFunc was started
  msgs, faults,  \* counters that bound the model
  executed,      \* history: the messages CMD_CfgParse was called with
  deleted,       \* history: the messages the modem has deleted
  crossed        \* history: the messages that came to the location at hand

modem == <<store, cmds>>
parser == <<ring, dataBuf, readFinish>>
task == <<pc, smsLoc, begun>>
history == <<executed, deleted, crossed>>
vars == <<modem, parser, task, msgs, faults, history>>

None == 0
Loc == 1 .. MaxLoc
Messages == 1 .. MaxMsg

Init ==
  /\ store = [l \in Loc |-> None] /\ cmds = <<>>
  /\ ring = EmptyRing(0) /\ dataBuf = None /\ readFinish = FALSE
  /\ pc = "idle" /\ smsLoc = 0 /\ begun = FALSE
  /\ msgs = 0 /\ faults = 0
  /\ executed = {} /\ deleted = {} /\ crossed = {}

(* SMS_Process: the low byte of the location, then the high byte.          *)
PutLoc(r, l) == Put(Put(r, l % Byte), l \div Byte)

(* AT+CMGL="ALL" lists every stored message, whatever the ring holds.      *)
PutAll(r) ==
  FoldLeft(LAMBDA q, l : IF store[l] # None THEN PutLoc(q, l) ELSE q,
           r, [l \in Loc |-> l])

Send(op, l) == cmds' = Append(cmds, [op |-> op, loc |-> l])
-----------------------------------------------------------------------------
(* The modem and the parser of its output.                                 *)

(* A message arrives.  Its +CMTI is parsed unless the modem is in data     *)
(* mode, which it never is while SMS_Manage runs.                          *)
Arrive ==
  /\ msgs < MaxMsg /\ msgs' = msgs + 1
  /\ \E l \in Loc :
       /\ store[l] = None
       /\ store' = [store EXCEPT ![l] = msgs + 1]
       /\ \/ ring' = PutLoc(ring, l)
          \/ pc = "idle" /\ UNCHANGED ring
       /\ crossed' = IF pc \in {"wait", "delete"} /\ smsLoc = l
                     THEN crossed \cup {msgs + 1} ELSE crossed
  /\ UNCHANGED <<cmds, dataBuf, readFinish, task, faults, executed, deleted>>

Served(op) == /\ cmds # <<>> /\ Head(cmds).op = op
              /\ cmds' = Tail(cmds)

ListServed ==
  /\ Served("list")
  /\ ring' = PutAll(ring)
  /\ UNCHANGED <<store, dataBuf, readFinish, task, msgs, faults, history>>

(* +CMGR: SMS_ReadMsg copies the message.  An empty location has none, and *)
(* a garbled answer is not recognised.                                     *)
ReadServed ==
  /\ Served("read")
  /\ LET l == Head(cmds).loc
         there == l \in Loc /\ store[l] # None
     IN \/ /\ there
           /\ dataBuf' = store[l] /\ readFinish' = TRUE /\ UNCHANGED faults
        \/ /\ there /\ faults < MaxFault /\ faults' = faults + 1
           /\ UNCHANGED <<dataBuf, readFinish>>
        \/ /\ ~there
           /\ UNCHANGED <<dataBuf, readFinish, faults>>
  /\ UNCHANGED <<store, ring, task, msgs, history>>

DeleteServed ==
  /\ Served("delete")
  /\ LET l == Head(cmds).loc
     IN IF l \in Loc
        THEN /\ store' = [store EXCEPT ![l] = None]
             /\ deleted' = deleted \cup ({store[l]} \ {None})
        ELSE UNCHANGED <<store, deleted>>
  /\ UNCHANGED <<parser, task, msgs, faults, executed, crossed>>

Modem == ListServed \/ ReadServed \/ DeleteServed
-----------------------------------------------------------------------------
(* SMS_Manage.                                                             *)

(* Mutant of List: the messages are not listed.                            *)
ListNothing ==
  /\ pc = "idle"
  /\ pc' = "list" /\ begun' = FALSE
  /\ UNCHANGED <<modem, parser, smsLoc, msgs, faults, history>>

(* On smsNewMessageFlag or every SMS_TIME_CHECK: AT+CMGF=1, AT+CMGL="ALL". *)
List ==
  /\ pc = "idle"
  /\ pc' = "list" /\ begun' = FALSE /\ Send("list", 0)
  /\ UNCHANGED <<store, parser, smsLoc, msgs, faults, history>>

(* Mutant of Answered: nobody waits.                                       *)
AnsweredAtOnce == UNCHANGED faults

(* The main loop waits until the modem has answered, or too short a time.  *)
Answered == \/ cmds = <<>> /\ UNCHANGED faults
            \/ cmds # <<>> /\ faults < MaxFault /\ faults' = faults + 1

Listed ==
  /\ pc = "list" /\ Answered
  /\ pc' = "take"
  /\ UNCHANGED <<modem, parser, smsLoc, begun, msgs, history>>

(* Mutant of Take: flagSmsReadFinish is left from the message before.      *)
TakeStaleFlag ==
  /\ pc = "take" /\ Fill(ring) >= 2
  /\ smsLoc' = Oldest(ring) + Byte * Oldest(Drop(ring))
  /\ ring' = Drop(Drop(ring))
  /\ Send("read", smsLoc') /\ pc' = "wait" /\ begun' = TRUE
  /\ UNCHANGED <<store, dataBuf, readFinish, msgs, faults, history>>

(* Take a location out of the ring and ask for the message.                *)
Take ==
  /\ pc = "take" /\ Fill(ring) >= 2
  /\ smsLoc' = Oldest(ring) + Byte * Oldest(Drop(ring))
  /\ ring' = Drop(Drop(ring))
  /\ readFinish' = FALSE
  /\ Send("read", smsLoc') /\ pc' = "wait" /\ begun' = TRUE
  /\ UNCHANGED <<store, dataBuf, msgs, faults, history>>

(* The ring is empty, or ten seconds are over: the rest waits for the next *)
(* call.  The first message is taken a second after the clock started.     *)
Return ==
  /\ pc = "take" /\ (Fill(ring) < 2 \/ begun)
  /\ pc' = "idle"
  /\ UNCHANGED <<modem, parser, smsLoc, begun, msgs, faults, history>>

(* Wait for the message, three seconds at most, then delete it.            *)
Delete ==
  /\ pc = "wait"
  /\ \/ readFinish /\ UNCHANGED faults
     \/ ~readFinish /\ Answered
  /\ Send("delete", smsLoc) /\ pc' = "delete"
  /\ UNCHANGED <<store, parser, smsLoc, begun, msgs, history>>

(* MODEM_SendCommand sends AT+CMGD again when no answer came in time.      *)
DeleteAgain ==
  /\ pc = "delete" /\ cmds # <<>>
  /\ faults < MaxFault /\ faults' = faults + 1
  /\ Send("delete", smsLoc)
  /\ UNCHANGED <<store, parser, task, msgs, history>>

(* Execute what was read; without an answer, go on to the next.            *)
Execute ==
  /\ pc = "delete" /\ Answered
  /\ executed' = IF readFinish THEN executed \cup {dataBuf} ELSE executed
  /\ pc' = "take"
  /\ UNCHANGED <<modem, parser, smsLoc, begun, msgs, deleted,
                 crossed>>

Manage == List \/ Listed \/ Take \/ Return \/ Delete \/ Execute

Next == Arrive \/ Modem \/ Manage \/ DeleteAgain

Spec == Init /\ [][Next]_vars

(* The main loop calls SMS_Manage again and again, and the modem answers.  *)
FairSpec == Spec /\ WF_vars(Modem) /\ WF_vars(Manage)
-----------------------------------------------------------------------------
(* A message the modem has deleted is executed, or SMS_Manage is about to  *)
(* execute it (smsDataBuf still holds it), or it came to the very location *)
(* that SMS_Manage was reading and deleting.  For every other one that is  *)
(* lost an answer was garbled or late.                                     *)
AboutToExecute == IF pc = "delete" /\ readFinish THEN {dataBuf} ELSE {}
LossesPaid ==
  Cardinality(deleted \ (executed \cup crossed \cup AboutToExecute)) <= faults

(* No message is executed twice, although it is announced, listed once per *)
(* call, and may have got the location of another one.                     *)
ExecutedOnce ==
  [][pc = "delete" /\ pc' = "take" /\ readFinish => dataBuf \notin executed]_vars

(* SMS_Manage deletes no message it has not received: the comment at its   *)
(* AT+CMGD says `delete just received SMS'.                                *)
DeletesReceived ==
  [][pc = "wait" /\ pc' = "delete" /\ smsLoc \in Loc /\ store[smsLoc] # None
       => readFinish]_vars

(* Every message is executed in the end, announced or not, unless it came  *)
(* to the location at hand; even after a garbled or late answer it does not*)
(* stay in the modem.                                                      *)
MessagesExecuted ==
  \A m \in Messages :
    msgs >= m ~> \/ m \in executed \cup crossed
                 \/ faults > 0 /\ m \in deleted
=============================================================================
