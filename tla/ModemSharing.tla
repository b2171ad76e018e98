---------------------------- MODULE ModemSharing ----------------------------
(***************************************************************************)
(* How the tasks of the main loop (GSM_GPRS_Task, main.c) share the one    *)
(* modem: bringing it up (Gsm_Task), sending text messages (Sms_Task),     *)
(* answering calls (VoiceCall_Task) and dialling or changing between data  *)
(* and command mode (GsmCommon_Task).  modemIsBusy is the lock between     *)
(* them, ModemCmd_Task the queue of one command they all use.              *)
(*                                                                         *)
(* One action is one call of a task; pc gives the order of the calls in a  *)
(* turn.  A timer is the parameter "late" of a call: it has or has not run *)
(* out.  The modem is external: it answers a command with success, failure *)
(* or not at all, before the command's timeout; StrayAnswer is the answer  *)
(* that comes for no command or for an earlier one.  Messages from the     *)
(* modem nobody asked for (a ring, the caller's number, the carrier lost,  *)
(* a busy line) are handled in the UART interrupt, so at any time.         *)
(***************************************************************************)
EXTENDS ModemCmd, SequencesExt

CONSTANTS
  Slot,         \* the records of type SMS_LIST_TYPE
  TextMode,     \* those that are sent as text; the others are sent as PDU
  Reply,        \* replySms, which SMS_Manage fills
  Location,     \* locationSms, which CallTask fills
  None,
  Starts,       \* commands in atGsmCmdStart (10)
  Retry,        \* tryAgainNum of a command that is retried (1 to 20)
  TryNum,       \* tryNum of a message (3)
  CmdRetry,     \* gsmCmdRetry (3)
  HangUps,      \* retries of ATH in a row (5)
  Timeouts,     \* commands without an answer until the modem is restarted (10)
  MaxSend,      \* bound: messages to send
  MaxUrc,       \* bound: messages from the modem nobody asked for
  MaxTraffic,   \* bound: these two together
  MaxStray,     \* bound: stray answers
  MaxReenter,   \* bound: times GSM_GPRS_Task is left and entered again
  MaxEvents     \* bound: messages nobody asked for, stray answers and re-entries together

ASSUME SharingAssumption ==
  /\ TextMode \subseteq Slot /\ Reply \in Slot /\ Location \in Slot /\ None \notin Slot \cup {"sms", "call", "common"}
  /\ {Starts, Retry, TryNum, CmdRetry, HangUps, Timeouts} \subseteq Nat
  /\ {MaxSend, MaxUrc, MaxTraffic, MaxStray, MaxReenter, MaxEvents} \subseteq Nat

VARIABLES
  pc,           \* the task called next
  gsm,          \* gsm_TaskPhase
  cmd,          \* modemCmd_TaskPhase and cmdPckSend
  list,         \* length of atCmdList
  timeouts,     \* cmdTimeoutCount
  busy,         \* modemIsBusy and modemIsBusySource
  cmdMode, online,        \* modemCmdMode, modem_IsOnline
  sms,          \* smsPhase
  at,           \* smsMsg
  queue,        \* smsList
  msg,          \* the records: pending (msg and phone not NULL), tries, flag
  centre,       \* getServiceCenterNumber
  call,         \* voiceCall_TaskPhase
  ring,         \* the flags of atCmdCallParser
  hangUps,      \* hangUpCallRetry
  athSent,      \* callSentATH
  common,       \* gsmCommonPhase
  cmdRetry,     \* gsmCmdRetry
  flags,        \* modemDialFlag, modemToCommandModeFlag, modemToDataModeFlag
  arg,          \* AppRun's arg: the modem was registered when the loop was left
  accepted,     \* history: the modem has taken the text last written, and its OK was heard
  mixed,        \* history: two tasks work at once, or answers may be mixed up
  sends, urcs, strays, reenters   \* counters that bound the model

mode == <<cmdMode, online>>
smsVars == <<sms, at, queue, msg, centre>>
callVars == <<call, ring, hangUps>>
commonVars == <<common, cmdRetry>>
Eventful == urcs + strays + reenters < MaxEvents
bounds == <<sends, urcs, strays, reenters>>
vars == <<pc, gsm, cmd, list, timeouts, busy, mode, smsVars, callVars, athSent,
          commonVars, flags, arg, accepted, mixed, bounds>>

Quiet == [flag |-> FALSE, detect |-> FALSE, incoming |-> FALSE, miss |-> FALSE,
          number |-> FALSE, far |-> FALSE, busy |-> FALSE, noAnswer |-> FALSE, failed |-> FALSE,
          auto |-> FALSE]
NoFlags == [dial |-> FALSE, toCmd |-> FALSE, toData |-> FALSE]

Init ==
  /\ pc = "send" /\ gsm = "turnOn"
  /\ cmd = [phase |-> "ok", name |-> "none", retry |-> 0] /\ list = 0 /\ timeouts = 0
  /\ busy = None /\ cmdMode = TRUE /\ online = FALSE
  /\ sms = "idle" /\ at = None /\ queue = <<>> /\ centre = FALSE
  /\ msg = [s \in Slot |-> [pending |-> FALSE, tries |-> 0, flag |-> "none"]]
  /\ call = "idle" /\ ring = Quiet /\ hangUps = 0 /\ athSent = FALSE
  /\ common = "idle" /\ cmdRetry = CmdRetry /\ flags = NoFlags /\ arg = FALSE
  /\ accepted = "no" /\ mixed = FALSE
  /\ sends = 0 /\ urcs = 0 /\ strays = 0 /\ reenters = 0

-----------------------------------------------------------------------------
(* The lock.                                                               *)

(* Mutant of KeptOut: the lock is only looked at.                          *)
KeptOutNever(me) == FALSE

(* What keeps a task out: the modem is another's, and no call is answered. *)
KeptOut(me) == busy \notin {None, me} /\ call # "inCalling"

(* Mutant of AfterTask: the lock is not given back.                        *)
AfterTaskKept(b, me, was, is) == IF is # "idle" THEN me ELSE b

(* The end of a task: the lock is taken or given back.                     *)
AfterTask(b, me, was, is) ==
  IF is # "idle" THEN me ELSE IF b = me \/ was # "idle" THEN None ELSE b

(* GsmTask_Init, without modemIsBusy.                                      *)
GsmTask_Init == gsm' = "turnOn" /\ cmdMode' = TRUE /\ online' = FALSE

(* Both Sms_Task and GsmCommon_Task may work while a call is answered, on  *)
(* one command.                                                            *)
Mixes(is, was) == mixed \/ (call = "inCalling" /\ (is # "idle" \/ was # "idle"))

-----------------------------------------------------------------------------
(* Messages to send.                                                       *)

(* Sms_SendMsg: list_add takes the record out before it appends it.        *)
Sms_SendMsg(s) ==
  /\ sends < MaxSend /\ sends + urcs < MaxTraffic /\ sends' = sends + 1
  /\ msg' = [msg EXCEPT ![s] = [pending |-> TRUE, tries |-> TryNum, flag |-> "new"]]
  /\ queue' = Append(Remove(queue, s), s)

(* SmsCheckMessage_IsEmpty.                                                *)
NoMessage == sms = "idle" /\ \A i \in DOMAIN queue : ~msg[queue[i]].pending

(* list_item_next.                                                         *)
NextIn(s) ==
  LET i == CHOOSE j \in DOMAIN queue : queue[j] = s
  IN  IF i = Len(queue) THEN None ELSE queue[i + 1]

(* AlarmTask and RequestTableTask: a message, unless the record still      *)
(* holds one that was not tried yet.                                       *)
QueueMessage ==
  /\ pc = "send" /\ pc' = "gsm"
  /\ \/ \E s \in Slot \ {Location} : msg[s].flag # "new" /\ Sms_SendMsg(s)
     \/ UNCHANGED <<sends, msg, queue>>
  /\ UNCHANGED <<gsm, cmd, list, timeouts, busy, mode, sms, at, centre, callVars, athSent,
                 commonVars, flags, arg, accepted, mixed, urcs, strays, reenters>>

(* CallTask: the first caller's number makes the call one to be answered,  *)
(* and the owner is also sent a message.  The main loop calls it twice a   *)
(* turn, before and after GsmCommon_Task, which is kept out while a call   *)
(* comes in: the second call does all the first would.                     *)
CallTask ==
  /\ pc = "callTask" /\ call # "idle" /\ pc' = "main"
  /\ IF call = "incoming" /\ ring.number /\ msg[Location].flag # "new"
     THEN /\ ring' = [ring EXCEPT !.auto = TRUE]
          /\ Sms_SendMsg(Location) \/ UNCHANGED <<sends, msg, queue>>
     ELSE UNCHANGED <<ring, sends, msg, queue>>
  /\ UNCHANGED <<gsm, cmd, list, timeouts, busy, mode, sms, at, centre, call, hangUps, athSent,
                 commonVars, flags, arg, accepted, mixed, urcs, strays, reenters>>

-----------------------------------------------------------------------------
(* Gsm_Task: bringing the modem up.  MODEM_CONFIG_0 only starts a timer.   *)

Answer(name) == cmd.phase = name

Gsm_Task(late) ==
  /\ pc = "gsm" /\ pc' = IF cmdMode THEN "sms" ELSE "common"
  /\ \/ gsm = "turnOn" /\ gsm' = "sendAt" /\ UNCHANGED <<cmd, list>>
     \/ /\ gsm = "sendAt" /\ UNCHANGED list
        /\ IF late /\ IsIdle(cmd)
           THEN cmd' = SendCmd(cmd, "at", Retry) /\ gsm' = "config"
           ELSE UNCHANGED <<cmd, gsm>>
     \/ /\ gsm = "config" /\ UNCHANGED cmd
        /\ IF Answer("ok") /\ late THEN list' = Starts /\ gsm' = "registration"
           ELSE /\ UNCHANGED list
                /\ gsm' = IF Answer("error") THEN "turnOn" ELSE gsm
     \/ /\ gsm = "registration" /\ UNCHANGED list
        /\ IF list = 0 /\ Answer("ok")
           THEN cmd' = SendCmd(cmd, "cops", Retry) /\ gsm' = "waitRegistration"
           ELSE /\ UNCHANGED cmd
                /\ gsm' = IF late \/ Answer("error") THEN "turnOn" ELSE gsm
     \/ /\ gsm = "waitRegistration" /\ UNCHANGED <<cmd, list>>
        /\ IF list = 0 /\ Answer("ok") THEN gsm' \in {"coverage", "turnOn"}  \* modemIMEIPass
           ELSE gsm' = IF late \/ Answer("error") THEN "turnOn" ELSE gsm
     \/ gsm = "coverage" /\ UNCHANGED <<gsm, cmd, list>>
  /\ UNCHANGED <<timeouts, busy, mode, smsVars, callVars, athSent, commonVars, flags, arg,
                 accepted, mixed, bounds>>

-----------------------------------------------------------------------------
(* Sms_Task: sending the messages of the queue one after the other.        *)

SmsIdle ==
  /\ sms = "idle"
  /\ IF gsm # "coverage" THEN UNCHANGED <<sms, at>>
     ELSE IF at = None
     THEN at' = (IF queue = <<>> THEN None ELSE Head(queue)) /\ UNCHANGED sms
     ELSE IF msg[at].pending THEN sms' = "delayStart" /\ UNCHANGED at
     ELSE at' = NextIn(at) /\ UNCHANGED sms
  /\ UNCHANGED <<cmd, msg, centre, accepted, gsm, mode>>

SmsDelayStart(late) ==
  /\ sms = "delayStart"
  /\ IF late /\ IsIdle(cmd)
     THEN cmd' = SendCmd(cmd, "cmgf", Retry) /\ sms' = "startSend"
     ELSE UNCHANGED <<cmd, sms>>
  /\ UNCHANGED <<at, msg, centre, accepted, gsm, mode>>

SmsStartSend(late) ==
  /\ sms = "startSend"
  /\ IF Answer("ok")
     THEN /\ sms' = IF msg[at].pending THEN "waitInit" ELSE "idle"
          /\ IF msg[at].pending /\ at \notin TextMode
             THEN centre' = FALSE /\ cmd' = SendCmd(cmd, "csca", Retry)
             ELSE UNCHANGED <<centre, cmd>>
     ELSE /\ sms' = IF Answer("error") \/ late THEN "idle" ELSE sms
          /\ UNCHANGED <<centre, cmd>>
  /\ UNCHANGED <<at, msg, accepted, gsm, mode>>

(* Without the number of the service centre a PDU is not announced to the  *)
(* modem, and yet an answer is waited for.  A message with no text or no   *)
(* number to go to counts as sent.                                         *)
SmsWaitInit(late) ==
  /\ sms = "waitInit"
  /\ IF ~late \/ ~IsIdle(cmd) THEN UNCHANGED <<cmd, sms, msg>>
     ELSE IF Answer("error") THEN sms' = "sendFail" /\ UNCHANGED <<cmd, msg>>
     ELSE \/ /\ sms' = "waitAnswer" /\ UNCHANGED msg
             /\ cmd' = IF at \in TextMode \/ centre THEN SendCmd(cmd, "cmgs", 0) ELSE cmd
          \/ sms' = "sent" /\ UNCHANGED <<cmd, msg>>            \* msg[0] or phone[0] is 0
          \/ /\ at \notin TextMode /\ centre                    \* pdu_len < 0
             /\ sms' = "idle" /\ UNCHANGED cmd
             /\ msg' = [msg EXCEPT ![at].pending = FALSE, ![at].flag = "fail"]
  /\ UNCHANGED <<at, centre, accepted, gsm, mode>>

(* A text that does not follow a prompt is nothing the modem answers.      *)
SmsWaitAnswer ==
  /\ sms = "waitAnswer"
  /\ IF Answer("ok")
     THEN /\ cmd' = SetWait(cmd, IF cmd.name = "cmgs" THEN "text" ELSE "noise")
          /\ sms' = "waitSend" /\ accepted' = "no"
     ELSE /\ sms' = IF Answer("error") THEN "sendFail" ELSE sms
          /\ UNCHANGED <<cmd, accepted>>
  /\ UNCHANGED <<at, msg, centre, gsm, mode>>

SmsWaitSend ==
  /\ sms = "waitSend"
  /\ sms' = CASE Answer("ok") -> "sent" [] Answer("error") -> "sendFail" [] OTHER -> sms
  /\ UNCHANGED <<cmd, at, msg, centre, accepted, gsm, mode>>

(* Mutant of SmsSent: the message stays in its record.                     *)
SmsSentKept ==
  /\ sms = "sent" /\ sms' = "idle"
  /\ msg' = [msg EXCEPT ![at].flag = "sent"]
  /\ UNCHANGED <<cmd, at, centre, accepted, gsm, mode>>

SmsSent ==
  /\ sms = "sent" /\ sms' = "idle"
  /\ msg' = [msg EXCEPT ![at].pending = FALSE, ![at].flag = "sent"]
  /\ accepted' = "no"
  /\ UNCHANGED <<cmd, at, centre, gsm, mode>>

SmsSendFail(late) ==
  /\ sms = "sendFail"
  /\ IF late
     THEN /\ msg' = [msg EXCEPT ![at] = [pending |-> @.pending /\ @.tries > 0, flag |-> "fail",
                                         tries |-> IF @.tries > 0 THEN @.tries - 1 ELSE 0]]
          /\ cmd' = SendCmd(cmd, "creg", Retry)
          /\ sms' = IF IsIdle(cmd) THEN "checkNetwork" ELSE sms
     ELSE UNCHANGED <<msg, cmd, sms>>
  /\ UNCHANGED <<at, centre, accepted, gsm, mode>>

(* The task stays in this phase when it restarts the modem.                *)
SmsCheckNetwork ==
  /\ sms = "checkNetwork"
  /\ sms' = IF Answer("ok") \/ (Answer("error") /\ call = "inCalling") THEN "idle" ELSE sms
  /\ IF Answer("error") /\ call # "inCalling" THEN GsmTask_Init
                                              ELSE UNCHANGED <<gsm, mode>>
  /\ UNCHANGED <<cmd, at, msg, centre, accepted>>

SmsWork(late) ==
  \/ SmsIdle \/ SmsDelayStart(late) \/ SmsStartSend(late) \/ SmsWaitInit(late)
  \/ SmsWaitAnswer \/ SmsWaitSend \/ SmsSent \/ SmsSendFail(late) \/ SmsCheckNetwork

Sms_Task(late) ==
  /\ pc = "sms" /\ pc' = "call"
  /\ IF KeptOut("sms") \/ (gsm # "coverage" /\ sms # "idle")
     THEN /\ sms' = IF gsm # "coverage" THEN "idle" ELSE sms
          /\ busy' = IF KeptOut("sms") THEN busy ELSE AfterTask(busy, "sms", sms, sms')
          /\ accepted' = IF gsm = "coverage" THEN accepted ELSE "no"
          /\ UNCHANGED <<cmd, at, msg, centre, gsm, mode, mixed>>
     ELSE /\ SmsWork(late)
          /\ busy' = AfterTask(IF gsm' # gsm THEN None ELSE busy, "sms", sms, sms')
          /\ mixed' = Mixes(sms', sms)
  /\ UNCHANGED <<list, timeouts, queue, callVars, athSent, commonVars, flags, arg, bounds>>

-----------------------------------------------------------------------------
(* VoiceCall_Task, for calls that come in: nothing in the program calls    *)
(* VoiceCallTask_StartCall, _AnswerCall or _EndCall.  VoiceSetup is empty, *)
(* so SETUP_ANSWER_CALL is part of "answer"; "ended" is END_CALL,          *)
(* MISS_CALL, BUSY_CALL, NO_ANSWER_CALL and UNSUCCESS_CALL.                *)

CallIdle ==
  /\ call = "idle" /\ UNCHANGED <<cmd, hangUps, athSent>>
  /\ IF ring.incoming THEN call' = "incoming" /\ UNCHANGED ring
     ELSE ring' = [ring EXCEPT !.number = FALSE] /\ UNCHANGED call

CallIncoming(late) ==
  /\ call = "incoming" /\ UNCHANGED <<cmd, hangUps, athSent>>
  /\ ring' = [ring EXCEPT !.miss = FALSE]
  /\ call' = CASE ring.miss -> "ended"
               [] ~ring.miss /\ ring.auto /\ ring.number /\ IsIdle(cmd) -> "answer"
               [] OTHER -> IF late THEN "ended" ELSE call

CallAnswer ==
  /\ call = "answer" /\ UNCHANGED <<ring, hangUps, athSent>>
  /\ cmd' = SendCmd(cmd, "ata", 0)
  /\ call' = IF IsIdle(cmd) THEN "waitAnswer" ELSE call

CallWaitAnswer(late) ==
  /\ call = "waitAnswer" /\ UNCHANGED <<cmd, hangUps, athSent>>
  /\ ring' = [ring EXCEPT !.miss = FALSE]
  /\ call' = CASE ring.miss -> "ended"
               [] ~ring.miss /\ Answer("ok") -> "inCalling"
               [] OTHER -> IF late \/ Answer("error") THEN "ended" ELSE call

InCalling(late) ==
  /\ call = "inCalling" /\ UNCHANGED <<hangUps, athSent>>
  /\ IF late THEN /\ call' = IF IsIdle(cmd) THEN "hangUp" ELSE call
                  /\ UNCHANGED <<ring, cmd>>
     ELSE IF ring.far THEN /\ call' = "checkEnd" /\ ring' = [ring EXCEPT !.far = FALSE, !.failed = FALSE]
                           /\ cmd' = SendCmd(cmd, "ceer", 0)
     ELSE LET over == IF ring.busy THEN "busy" ELSE IF ring.noAnswer THEN "noAnswer" ELSE "failed"
          IN  /\ call' = IF ring[over] THEN "ended" ELSE call
              /\ ring' = [ring EXCEPT ![over] = FALSE] /\ UNCHANGED cmd

CallHangUp ==
  /\ call = "hangUp" /\ call' = "waitHangUp" /\ UNCHANGED <<ring, hangUps>>
  /\ cmd' = SendCmd(cmd, "ath", Retry) /\ athSent' = TRUE

CallWaitHangUp(late) ==
  /\ call = "waitHangUp" /\ UNCHANGED <<cmd, ring, athSent>>
  /\ IF Answer("ok") THEN call' = "ensure" /\ UNCHANGED hangUps
     ELSE IF ~late /\ ~Answer("error") THEN UNCHANGED <<call, hangUps>>
     ELSE IF hangUps < HangUps THEN call' = "hangUp" /\ hangUps' = hangUps + 1
     ELSE call' = "ended" /\ hangUps' = 0

CallEnding(late) ==
  /\ UNCHANGED <<cmd, hangUps, athSent>>
  /\ \/ call = "ensure" /\ call' = (IF late THEN "ended" ELSE call) /\ UNCHANGED ring
     \/ /\ call = "checkEnd"
        /\ IF Answer("ok") \/ late THEN call' = "ended" /\ ring' = [ring EXCEPT !.failed = FALSE]
                                   ELSE UNCHANGED <<call, ring>>
     \/ call = "ended" /\ call' = "endPhase" /\ UNCHANGED ring
     \/ /\ call = "endPhase" /\ call' = "idle"
        /\ ring' = [ring EXCEPT !.number = FALSE, !.incoming = FALSE]

CallWork(late) ==
  \/ CallIdle \/ CallIncoming(late) \/ CallAnswer \/ CallWaitAnswer(late) \/ InCalling(late)
  \/ CallHangUp \/ CallWaitHangUp(late) \/ CallEnding(late)

(* VoiceCallTask_Init, and the phase of a task that has nothing to do.     *)
CallInit == call' = "idle" /\ ring' = Quiet /\ hangUps' = 0

(* Half an hour after the task was last seen idle (it is not called in data*)
(* mode) it starts from nothing.                                           *)
CallExpired == CallInit /\ UNCHANGED <<cmd, athSent>>

(* VoiceCall_Task.  voiceCall_OldTaskPhase is never set, so the last       *)
(* condition of the function is never true.                                *)
VoiceCall_Task(late) ==
  /\ pc = "call" /\ pc' = "cmd"
  /\ IF gsm # "coverage"
     THEN CallInit /\ UNCHANGED <<cmd, athSent, busy>>
     ELSE IF busy \notin {None, "call"} THEN UNCHANGED <<cmd, callVars, athSent, busy>>
     ELSE (CallWork(late) \/ CallExpired) /\ busy' = AfterTask(busy, "call", "idle", call')
  /\ UNCHANGED <<gsm, list, timeouts, mode, smsVars, commonVars, flags, arg, accepted, mixed,
                 bounds>>

-----------------------------------------------------------------------------
(* ModemCmd_Task, with the modem's answers (external).                     *)

(* What the modem answers a command: NO CARRIER may follow the OK to ATH.  *)
Answers(name) ==
  IF name = "noise" THEN {}
  ELSE {<<"ok">>, <<"fail">>} \cup (IF name = "ath" THEN {<<"ok", "fail">>} ELSE {})

(* A command for which no answer came is sent again; after too many of     *)
(* them the modem is restarted.  What came too late is not heard: the modem*)
(* may have taken a text all the same.                                     *)
CmdExpired ==
  /\ cmd' = Again(cmd)
  /\ IF cmd.retry > 0 THEN UNCHANGED <<timeouts, gsm, mode, busy>>
     ELSE IF timeouts > Timeouts THEN timeouts' = 0 /\ GsmTask_Init /\ busy' = None
     ELSE timeouts' = timeouts + 1 /\ UNCHANGED <<gsm, mode, busy>>
  /\ accepted' \in {accepted} \cup (IF sms = "waitSend" /\ cmd.name = "text" THEN {"unheard"} ELSE {})
  /\ UNCHANGED <<list, centre, mixed, strays>>

CmdAnswered(batch) ==
  /\ cmd' = FoundAll(cmd, batch) /\ timeouts' = 0
  /\ IF cmd.name = "csca" THEN centre' \in {centre, TRUE} ELSE UNCHANGED centre
  /\ UNCHANGED <<list, gsm, mode, busy>>

CmdWait(late) ==
  /\ cmd.phase = "wait"
  /\ IF late THEN CmdExpired
     ELSE \/ UNCHANGED <<cmd, timeouts, list, centre, gsm, mode, busy, accepted, mixed, strays>>
          \/ \E batch \in Answers(cmd.name) :
               /\ CmdAnswered(batch)
               /\ accepted' = IF sms = "waitSend" /\ cmd.name = "text" /\ batch = <<"ok">>
                              THEN "heard" ELSE accepted
               /\ UNCHANGED <<mixed, strays>>
          \/ \E batch \in {<<"ok">>, <<"fail">>, <<"ok", "fail">>, <<"fail", "ok">>} :  \* StrayAnswer
               /\ strays < MaxStray /\ Eventful /\ strays' = strays + 1
               /\ CmdAnswered(batch) /\ mixed' = TRUE /\ UNCHANGED accepted

CmdDone ==
  /\ IsIdle(cmd)
  /\ cmd' = IF list > 0 /\ Answer("ok") THEN [phase |-> "send", name |-> "start", retry |-> Retry] ELSE cmd
  /\ list' = IF list > 0 /\ Answer("ok") THEN list - 1 ELSE 0
  /\ UNCHANGED <<timeouts, centre, gsm, mode, busy, accepted, mixed, strays>>

ModemCmd_Task(late) ==
  /\ pc = "cmd" /\ pc' = "common"
  /\ \/ /\ cmd.phase = "send"
        /\ cmd' = IF late THEN [cmd EXCEPT !.phase = "wait"] ELSE cmd
        /\ UNCHANGED <<timeouts, list, centre, gsm, mode, busy, accepted, mixed, strays>>
     \/ CmdWait(late)
     \/ CmdDone
  /\ UNCHANGED <<sms, at, queue, msg, callVars, athSent, commonVars, flags, arg, sends, urcs,
                 reenters>>

-----------------------------------------------------------------------------
(* GsmCommon_Task: dialling, and changing between data and command mode.   *)

CommonPhase == IF gsm = "coverage" THEN common ELSE "idle"

CommonIdle ==
  /\ CommonPhase = "idle" /\ athSent' = FALSE
  /\ LET on == online /\ ~athSent IN
     /\ online' = (on /\ ~flags.dial)
     /\ cmdMode' = (cmdMode \/ ~on)
     /\ IF flags.dial THEN common' = "dial0" /\ flags' = [flags EXCEPT !.dial = FALSE]
        ELSE IF flags.toCmd
        THEN common' = (IF cmdMode' THEN "idle" ELSE "toCmd") /\ flags' = [flags EXCEPT !.toCmd = FALSE]
        ELSE IF flags.toData THEN common' = "toData" /\ flags' = [flags EXCEPT !.toData = FALSE]
        ELSE common' = "idle" /\ UNCHANGED flags
  /\ cmdRetry' = IF common' = "idle" THEN cmdRetry ELSE CmdRetry
  /\ UNCHANGED <<cmd, gsm>>

(* Hanging up whatever there is: the answers do not matter.                *)
HangUpFirst == [dial0 |-> [cmd |-> "escape", to |-> "dial01"], dial01 |-> [cmd |-> "at", to |-> "dial02"],
                dial02 |-> [cmd |-> "ath", to |-> "dial1"], dial1 |-> [cmd |-> "cgact", to |-> "dial2"]]

Dial1 ==
  /\ common \in DOMAIN HangUpFirst /\ IsIdle(cmd)
  /\ cmd' = SendCmd(cmd, HangUpFirst[common].cmd, 0) /\ common' = HangUpFirst[common].to
  /\ UNCHANGED <<cmdRetry, flags, athSent, gsm, mode>>

Dial2(late) ==
  /\ common \in {"dial2", "dial3"}
  /\ IF Answer("ok")
     THEN /\ cmd' = IF common = "dial2" THEN SendCmd(cmd, "cgdcont", 0) ELSE SendCmd(cmd, "dial", Retry)
          /\ common' = IF common = "dial2" THEN "dial3" ELSE "dial4"
     ELSE /\ late \/ Answer("error")
          /\ common' = (IF common = "dial2" THEN "fail" ELSE "idle") /\ UNCHANGED cmd
  /\ UNCHANGED <<cmdRetry, flags, athSent, gsm, mode>>

Dial4(late) ==
  /\ common = "dial4" /\ UNCHANGED <<cmd, cmdRetry, flags, athSent, gsm>>
  /\ IF Answer("ok") THEN common' = "idle" /\ cmdMode' = FALSE /\ online' = TRUE
     ELSE (late \/ Answer("error")) /\ common' = "fail" /\ UNCHANGED mode

(* A failure is counted, and the last one restarts the modem.              *)
TryAgain(to) ==
  IF cmdRetry > 0
  THEN common' = to /\ cmdRetry' = cmdRetry - 1 /\ UNCHANGED <<gsm, mode>>
  ELSE common' = "idle" /\ cmdRetry' = CmdRetry /\ GsmTask_Init

DialFail ==
  common = "fail" /\ TryAgain("dial0") /\ UNCHANGED <<cmd, flags, athSent>>

ToData ==
  /\ common = "toData"
  /\ IF IsIdle(cmd) THEN cmd' = SendCmd(cmd, "ato", Retry) /\ common' = "waitToData"
     ELSE ~cmdMode /\ common' = "idle" /\ UNCHANGED cmd
  /\ UNCHANGED <<cmdRetry, flags, athSent, gsm, mode>>

WaitToData(late) ==
  /\ common = "waitToData" /\ common' = "idle"
  /\ IF Answer("ok") THEN cmdMode' = FALSE /\ UNCHANGED online
     ELSE (late \/ Answer("error")) /\ online' = FALSE /\ UNCHANGED cmdMode
  /\ UNCHANGED <<cmd, cmdRetry, flags, athSent, gsm>>

(* "+++" is written whether or not a command may be sent.                  *)
ToCmd(late) ==
  /\ common = "toCmd" /\ late
  /\ common' = "checkCmd" /\ cmdMode' = TRUE /\ cmd' = SendCmd(cmd, "escape", 0)
  /\ UNCHANGED <<cmdRetry, flags, athSent, gsm, online>>

CheckCmd ==
  /\ common = "checkCmd" /\ IsIdle(cmd)
  /\ IF Answer("ok") THEN common' = "idle" /\ UNCHANGED cmd
     ELSE common' = "waitToCmd" /\ cmd' = SendCmd(cmd, "at", Retry)
  /\ UNCHANGED <<cmdRetry, flags, athSent, gsm, mode>>

WaitToCmd(late) ==
  /\ common = "waitToCmd" /\ UNCHANGED <<cmd, flags, athSent>>
  /\ IF Answer("ok") THEN common' = "idle" /\ UNCHANGED <<cmdRetry, gsm, mode>>
     ELSE (late \/ Answer("error")) /\ TryAgain("toCmd")

CommonWork(late) ==
  \/ CommonIdle \/ Dial1 \/ Dial2(late) \/ Dial4(late) \/ DialFail
  \/ ToData \/ WaitToData(late) \/ ToCmd(late) \/ CheckCmd \/ WaitToCmd(late)

CommonWaits(late) ==
  /\ ~IsIdle(cmd) \/ common = "toCmd"
  /\ \/ common \in DOMAIN HangUpFirst \cup {"checkCmd"}
     \/ common \in {"dial2", "dial3", "dial4", "waitToData", "waitToCmd", "toCmd"} /\ ~late
     \/ common = "toData" /\ cmdMode
  /\ UNCHANGED <<cmd, commonVars, flags, athSent, gsm, mode>>

GsmCommon_Task(late) ==
  /\ pc = "common" /\ pc' = "callTask"
  /\ IF KeptOut("common")
     THEN /\ common' = CommonPhase
          /\ UNCHANGED <<cmd, cmdRetry, flags, athSent, gsm, mode, busy, mixed>>
     ELSE /\ \/ CommonIdle
             \/ gsm = "coverage" /\ (CommonWork(late) \/ CommonWaits(late))
          /\ busy' = AfterTask(IF gsm' # gsm THEN None ELSE busy, "common", common, common')
          /\ mixed' = Mixes(common', common)
  /\ UNCHANGED <<list, timeouts, smsVars, callVars, arg, accepted, bounds>>

-----------------------------------------------------------------------------
(* The rest of a turn.                                                     *)

IsRinging == ring.flag \/ ring.detect       \* Modem_IsRinging

(* vTcpIpTask in data mode: PPP may give the link up (PPP_ManageLink).     *)
vTcpIpTask ==
  /\ pc = "callTask" /\ call = "idle" /\ pc' = "main"
  /\ online' \in IF ~cmdMode /\ busy = None /\ NoMessage THEN {online, FALSE} ELSE {online}
  /\ UNCHANGED <<gsm, cmd, list, timeouts, busy, cmdMode, smsVars, callVars, athSent, commonVars,
                 flags, arg, accepted, mixed, bounds>>

(* What the main loop decides (main.c): whether there are messages to read,*)
(* data to send or none left is the environment's choice.  SMS_Manage      *)
(* talks to the modem itself, past the command under way.                  *)
Decide ==
  /\ pc = "main" /\ pc' = "ring"
  /\ \/ UNCHANGED <<flags, sends, msg, queue, mixed>>
     \/ /\ gsm = "coverage" /\ busy = None
        /\ \/ /\ cmdMode                                                  \* SMS_Manage
              /\ mixed' = (mixed \/ ~IsIdle(cmd)) /\ UNCHANGED flags
              /\ Sms_SendMsg(Reply) \/ UNCHANGED <<sends, msg, queue>>
           \/ /\ cmdMode /\ NoMessage /\ call = "idle" /\ ~IsRinging /\ common = "idle"
              /\ flags' = IF online THEN [flags EXCEPT !.toData = TRUE]
                                    ELSE [flags EXCEPT !.dial = TRUE]
              /\ UNCHANGED <<sends, msg, queue, mixed>>
           \/ /\ ~cmdMode                                                 \* COMM_GoToCmdMode
              /\ flags' = [flags EXCEPT !.toCmd = TRUE]
              /\ UNCHANGED <<sends, msg, queue, mixed>>
  /\ UNCHANGED <<gsm, cmd, list, timeouts, busy, mode, sms, at, centre, callVars, athSent,
                 commonVars, arg, accepted, urcs, strays, reenters>>

(* RING_Process, once a second: "over", the five seconds of                *)
(* ringingCountDown are over; "giveUp", the call has come in for ten.      *)
RingCounted(r, over) ==
  IF r.flag /\ ~r.detect THEN [r EXCEPT !.flag = FALSE, !.detect = TRUE, !.miss = FALSE]
  ELSE IF ~r.detect \/ ~over THEN r
  ELSE [r EXCEPT !.detect = FALSE, !.incoming = r.flag,
                 !.miss = IF r.flag THEN r.miss ELSE r.incoming]

AllIdle ==
  /\ sms = "idle" /\ call = "idle" /\ common = "idle"
  /\ IsIdle(cmd) /\ list = 0

RING_Process(over, giveUp) ==
  /\ pc = "ring" /\ pc' = "send"
  /\ LET r == RingCounted(ring, over) IN
     ring' = IF giveUp /\ r.incoming THEN [r EXCEPT !.miss = FALSE, !.incoming = FALSE] ELSE r
  /\ flags' = [flags EXCEPT !.toCmd = @ \/ (ring.flag /\ ~ring.detect /\ ~cmdMode)]
  /\ mixed' = (mixed /\ ~AllIdle) /\ accepted' = IF mixed THEN "no" ELSE accepted
  /\ UNCHANGED <<gsm, cmd, list, timeouts, busy, mode, smsVars, call, hangUps, athSent,
                 commonVars, arg, bounds>>

(* GSM_GPRS_Task is left after two minutes (tAppTimeout) or once a day     *)
(* (tResetApp) and entered again by AppRun: the modem's lock is dropped,   *)
(* but not what the tasks are at.                                          *)
Reenter ==
  /\ pc = "send" /\ reenters < MaxReenter /\ Eventful /\ reenters' = reenters + 1
  /\ arg' = (arg \/ gsm = "coverage")
  /\ gsm' \in {"turnOn"} \cup (IF arg' THEN {"coverage"} ELSE {})
  /\ cmdMode' = TRUE /\ online' = FALSE /\ busy' = None
  /\ mixed' = (mixed \/ ~AllIdle) /\ accepted' = "no"
  /\ UNCHANGED <<pc, cmd, list, timeouts, smsVars, callVars, athSent, commonVars, flags, sends,
                 urcs, strays>>

-----------------------------------------------------------------------------
(* What the modem says unasked (external), handled in the UART interrupt:  *)
(* RingCallProcess, GetCallerNumber, CallCancel, CallBusy, CallNoAnswer and*)
(* CallErrorReport.  The steps left out of the guard neither read nor set  *)
(* what these do: an interrupt before one of them is the same as one after *)
(* it.                                                                     *)
Urc ==
  /\ pc \in {"call", "common", "callTask", "main", "ring"}
  /\ urcs < MaxUrc /\ sends + urcs < MaxTraffic /\ Eventful /\ urcs' = urcs + 1
  /\ \/ ring' = [ring EXCEPT !.flag = TRUE] /\ UNCHANGED online
     \/ /\ \E known \in BOOLEAN :
             ring' = [ring EXCEPT !.incoming = TRUE, !.flag = TRUE, !.detect = FALSE,
                                  !.miss = FALSE, !.number = @ \/ known]
        /\ UNCHANGED online
     \/ /\ ring' = [ring EXCEPT !.far = TRUE, !.flag = FALSE, !.detect = FALSE,
                                !.miss = FALSE, !.incoming = FALSE]
        /\ online' = FALSE
     \/ \E over \in {"busy", "noAnswer", "failed"} : ring' = [ring EXCEPT ![over] = TRUE] /\ UNCHANGED online
  /\ UNCHANGED <<pc, gsm, cmd, list, timeouts, busy, cmdMode, smsVars, call, hangUps, athSent,
                 commonVars, flags, arg, accepted, mixed, sends, strays, reenters>>

Turn ==
  \/ QueueMessage \/ CallTask \/ vTcpIpTask \/ Decide
  \/ \E late \in BOOLEAN : \/ Gsm_Task(late) \/ Sms_Task(late) \/ VoiceCall_Task(late)
                           \/ ModemCmd_Task(late) \/ GsmCommon_Task(late)
  \/ \E over, giveUp \in BOOLEAN : RING_Process(over, giveUp)

Next == Turn \/ Reenter \/ Urc

Spec == Init /\ [][Next]_vars

(* The loop goes round, and a timer that runs is seen to have run out:     *)
(* the tick never stops and every call of a task looks at its timer.       *)
FairSpec ==
  /\ Spec /\ WF_vars(Turn)
  /\ SF_vars(Gsm_Task(TRUE)) /\ SF_vars(Sms_Task(TRUE)) /\ SF_vars(VoiceCall_Task(TRUE))
  /\ SF_vars(ModemCmd_Task(TRUE)) /\ SF_vars(GsmCommon_Task(TRUE))

-----------------------------------------------------------------------------
(* Each phase that looks at the outcome of a command finds that of the     *)
(* command the task has sent, and not of another's: modemIsBusy and        *)
(* ModemCmdTask_IsIdle together keep the tasks apart.  (Not so while       *)
(* "mixed", and for a PDU that was not announced for want of a service     *)
(* centre.  Bringing the modem up a second time may take the outcome of a  *)
(* start command left in the list for that of its "AT": MODEM_TURN_ON does *)
(* not empty the list.)                                                    *)
Asked ==
  [sms |-> [startSend |-> {"cmgf"}, waitInit |-> {"cmgf", "csca"},
            waitAnswer |-> IF at \notin TextMode /\ ~centre THEN {"csca"} ELSE {"cmgs"},
            waitSend |-> {"text", "noise"}, checkNetwork |-> {"creg"}],
   call |-> [waitAnswer |-> {"ata"}, waitHangUp |-> {"ath"}, checkEnd |-> {"ceer"}],
   common |-> [dial2 |-> {"cgact"}, dial3 |-> {"cgdcont"}, dial4 |-> {"dial"},
               waitToData |-> {"ato"}, checkCmd |-> {"escape", "at"}, waitToCmd |-> {"at"}],
   gsm |-> [config |-> {"at", "start"}, waitRegistration |-> {"cops"}]]

OwnAnswer ==
  LET Own(task, phase) ==
        pc = task /\ phase \in DOMAIN Asked[task] /\ IsIdle(cmd) => cmd.name \in Asked[task][phase]
  IN  ~mixed => /\ gsm = "coverage" /\ ~KeptOut("sms") => Own("sms", sms)
                /\ gsm = "coverage" /\ busy \in {None, "call"} => Own("call", call)
                /\ gsm = "coverage" /\ ~KeptOut("common") => Own("common", common)
                /\ Own("gsm", gsm)

(* A text the modem has taken, and said so in time, is not written to it   *)
(* again: what counts as its sending and what the task makes of it agree.  *)
(* A text whose OK comes after the ten seconds of SetWait is written again *)
(* ("unheard").  (Not so while "mixed", nor for a text that was taken then *)
(* or before the modem was restarted.)                                     *)
HeardOnce ==
  [][sms = "waitAnswer" /\ sms' = "waitSend" => accepted # "heard" \/ mixed']_vars

(* A command under way ends, although ModemCmd_Task is not called in data  *)
(* mode and a command may be put there (an ATO left over from before the   *)
(* dial): the task that waits for it gives the mode up.                    *)
CommandEnds == ~IsIdle(cmd) ~> IsIdle(cmd)

(* The lock is given back, whatever the modem does or fails to do.         *)
ModemIsReleased == busy # None ~> busy = None
=============================================================================
