------------------------- MODULE ModemSharingProofs -------------------------
(***************************************************************************)
(* The tasks that share the modem, for every number of records, retries,   *)
(* faults and messages: a task that looks at the outcome of a command      *)
(* finds that of its own, and a text the modem has taken and answered in   *)
(* time is not sent twice.                                                 *)
(***************************************************************************)
EXTENDS ModemSharing, TLAPS

Tasks == {"send", "gsm", "sms", "call", "cmd", "common", "callTask", "main", "ring"}
Dialling == {"dial0", "dial01", "dial02", "dial1", "dial2", "dial3", "dial4", "fail"}
Names == {"none", "start", "at", "cops", "cmgf", "csca", "cmgs", "text", "noise", "creg",
          "ata", "ath", "ceer", "escape", "cgact", "cgdcont", "dial", "ato"}
CommonPhases == Dialling \cup {"idle", "toData", "waitToData", "toCmd", "checkCmd", "waitToCmd"}

(* What became of the text last written to the modem.                      *)
Fates == {"no", "heard", "unheard"}

Command == [phase : Phases, name : Names, retry : Nat]

TypeOK ==
  /\ pc \in Tasks /\ common \in CommonPhases /\ list \in Nat
  /\ cmd \in Command
  /\ cmdMode \in BOOLEAN /\ online \in BOOLEAN /\ mixed \in BOOLEAN /\ accepted \in Fates

(* Out of coverage there is no data mode, and bringing the modem up finds  *)
(* the tasks at rest: each was called once in the turn that turned it on.  *)
CommonRests == common # "idle" => common \in {"dial0", "toData"} /\ busy = "common"

Bringing ==
  /\ gsm # "coverage" => cmdMode /\ ~online
  /\ pc \in {"sms", "call", "cmd"} => cmdMode
  /\ gsm # "coverage" /\ pc \in {"call", "cmd"} => sms \in {"idle", "checkNetwork"}
  /\ gsm = "sendAt" => /\ pc # "sms" => sms = "idle"
                       /\ pc \notin {"sms", "call"} => call = "idle"
                       /\ pc \notin {"sms", "call", "cmd", "common"} => CommonRests
  /\ gsm \in {"config", "registration", "waitRegistration"} =>
       sms = "idle" /\ call = "idle" /\ CommonRests
  /\ gsm = "config" => cmd.name \in {"at", "start"}
  /\ gsm = "waitRegistration" => cmd.name = "cops" /\ list = 0

(* The lock is held by the task that is at work.                           *)
Locked ==
  /\ sms # "idle" => busy = "sms"
  /\ call # "idle" => busy = "call"
  /\ common # "idle" => busy = "common"

(* What the command is that a task at work has sent.                       *)
SmsAsks ==
  /\ sms = "startSend" => cmd.name = "cmgf"
  /\ sms = "waitInit" => cmd.name = IF at \in TextMode THEN "cmgf" ELSE "csca"
  /\ sms = "waitAnswer" => IF at \notin TextMode /\ ~centre THEN cmd.name = "csca" /\ IsIdle(cmd)
                                                            ELSE cmd.name = "cmgs"
  /\ sms = "waitSend" => cmd.name \in {"text", "noise"}
  /\ sms = "sent" => IsIdle(cmd)
  /\ sms = "checkNetwork" => cmd.name = "creg"

CallAsks ==
  /\ call = "waitAnswer" => cmd.name = "ata"
  /\ call = "inCalling" => IsIdle(cmd)
  /\ call = "hangUp" => IsIdle(cmd) \/ cmd.name = "ath"
  /\ call = "waitHangUp" => cmd.name = "ath"
  /\ call = "checkEnd" => cmd.name = "ceer"

CommonAsks ==
  /\ common = "dial2" => cmd.name = "cgact"
  /\ common = "dial3" => cmd.name = "cgdcont"
  /\ common = "dial4" => cmd.name = "dial"
  /\ common = "waitToData" => cmd.name = "ato"
  /\ common = "toCmd" => IsIdle(cmd) \/ cmd.name \in {"escape", "at"}
  /\ common = "checkCmd" => cmd.name \in {"escape", "at"}
  /\ common = "waitToCmd" => cmd.name = "at"

(* In data mode no command is under way but the one that leaves it.        *)
DataMode ==
  /\ common \in Dialling => ~online
  /\ common = "idle" /\ ~cmdMode /\ online => IsIdle(cmd)
  /\ common = "toData" /\ ~cmdMode => IsIdle(cmd)

Covered == list = 0 /\ Locked /\ SmsAsks /\ CallAsks /\ CommonAsks /\ DataMode

(* A text the modem has taken, and said so in time.                        *)
Taken ==
  accepted = "heard" => gsm = "coverage" /\ (sms = "sent" \/ (sms = "waitSend" /\ cmd.phase = "ok"))

IInv ==
  /\ TypeOK /\ Bringing
  /\ ~mixed => (gsm = "coverage" => Covered) /\ Taken
-----------------------------------------------------------------------------
(* The command.                                                            *)
LEMMA Sent ==
  ASSUME NEW c \in Command, NEW name \in Names, NEW n \in Nat
  PROVE  /\ SendCmd(c, name, n) \in Command
         /\ IsIdle(c) => SendCmd(c, name, n).name = name /\ ~IsIdle(SendCmd(c, name, n))
         /\ ~IsIdle(c) => SendCmd(c, name, n) = c
BY DEF SendCmd, Command, IsIdle, Phases

LEMMA Named == {"none", "start", "at", "cops", "cmgf", "csca", "cmgs", "text", "noise", "creg", "ata", "ath",
                "ceer", "escape", "cgact", "cgdcont", "dial", "ato"} \subseteq Names
BY DEF Names

(* Every command of the tasks.                                             *)
LEMMA Sendable ==
  ASSUME IInv
  PROVE  \A name \in Names, n \in {0, Retry} :
           /\ SendCmd(cmd, name, n) \in Command
           /\ IsIdle(cmd) => SendCmd(cmd, name, n).name = name /\ ~IsIdle(SendCmd(cmd, name, n))
           /\ ~IsIdle(cmd) => SendCmd(cmd, name, n) = cmd
<1>1. Retry \in Nat /\ cmd \in Command
  BY SharingAssumption DEF IInv, TypeOK
<1> QED BY <1>1, Sent

LEMMA WaitSet ==
  ASSUME NEW c \in Command, NEW name \in Names
  PROVE  /\ SetWait(c, name) \in Command
         /\ IsIdle(c) => SetWait(c, name).name = name /\ SetWait(c, name).phase = "wait"
         /\ ~IsIdle(c) => SetWait(c, name) = c
BY DEF SetWait, Command, IsIdle, Phases

LEMMA Repeated ==
  ASSUME NEW c \in Command
  PROVE  Again(c) \in Command /\ Again(c).name = c.name
<1>1. c.retry > 0 => c.retry - 1 \in Nat
  BY DEF Command
<1> QED BY <1>1 DEF Again, Command, Phases

LEMMA FoundOne ==
  ASSUME NEW c \in Command, NEW res
  PROVE  /\ Found(c, res) \in Command /\ Found(c, res).name = c.name
         /\ res = "ok" => Found(c, res).phase = "ok"
BY Repeated DEF Found, Command, Phases

LEMMA FoundSome ==
  ASSUME NEW c \in Command, NEW batch
  PROVE  /\ FoundAll(c, batch) \in Command /\ FoundAll(c, batch).name = c.name
         /\ batch = <<"ok">> => FoundAll(c, batch).phase = "ok"
<1>1. \A res : Found(c, res) \in Command /\ Found(c, res).name = c.name
  BY FoundOne
<1>2. \A r, s : Found(Found(c, r), s) \in Command /\ Found(Found(c, r), s).name = c.name
  BY <1>1, FoundOne
<1>3. batch = <<"ok">> => FoundAll(c, batch).phase = "ok"
  BY FoundOne DEF FoundAll
<1> QED BY <1>1, <1>2, <1>3 DEF FoundAll
-----------------------------------------------------------------------------
(* At the start nothing is at work.                                        *)
LEMMA InitInv == Init => IInv
<1> SUFFICES ASSUME Init PROVE IInv
  OBVIOUS
<1>1. [phase |-> "ok", name |-> "none", retry |-> 0] \in Command
  <2>1. "ok" \in Phases /\ "none" \in Names /\ 0 \in Nat
    BY DEF Phases, Names
  <2> QED BY <2>1 DEF Command
<1>2. TypeOK
  BY <1>1 DEF Init, TypeOK, Tasks, Fates, CommonPhases
<1> QED BY <1>2 DEF Init, IInv, Bringing, Taken
-----------------------------------------------------------------------------
(* Steps that leave the command and the tasks alone.                       *)
Still == UNCHANGED <<gsm, cmd, list, busy, cmdMode, sms, at, centre, call, common>>

LEMMA StillInv ==
  ASSUME IInv, Still,
         pc' = pc \/ (pc \in {"send", "callTask", "main"} /\ pc' \in {"gsm", "main", "ring"}),
         online' \in {online, FALSE}, mixed' \in {mixed, TRUE}, accepted' = accepted
  PROVE  IInv'
<1>1. TypeOK'
  BY DEF IInv, TypeOK, Still, Tasks
<1>2. Bringing'
  <2>1. gsm' # "coverage" => cmdMode' /\ ~online'
    <3>1. gsm # "coverage" => cmdMode /\ online = FALSE
      BY DEF IInv, TypeOK, Bringing
    <3> QED BY <3>1 DEF Still
  <2>5. /\ pc' \in {"sms", "call", "cmd"} => cmdMode'
        /\ gsm' # "coverage" /\ pc' \in {"call", "cmd"} => sms' \in {"idle", "checkNetwork"}
    BY DEF IInv, Bringing, Still
  <2>2. CommonRests' = CommonRests
    BY DEF CommonRests, Still
  <2>3. gsm' = "sendAt" => /\ pc' # "sms" => sms' = "idle"
                           /\ pc' \notin {"sms", "call"} => call' = "idle"
                           /\ pc' \notin {"sms", "call", "cmd", "common"} => CommonRests'
    BY <2>2 DEF IInv, Bringing, Still
  <2>4. /\ gsm' \in {"config", "registration", "waitRegistration"} =>
              sms' = "idle" /\ call' = "idle" /\ CommonRests'
        /\ gsm' = "config" => cmd'.name \in {"at", "start"}
        /\ gsm' = "waitRegistration" => cmd'.name = "cops" /\ list' = 0
    BY <2>2 DEF IInv, Bringing, Still
  <2> QED BY <2>1, <2>2, <2>3, <2>4, <2>5 DEF Bringing
<1>3. ~mixed' /\ gsm' = "coverage" => Covered'
  BY DEF IInv, TypeOK, Covered, Locked, SmsAsks, CallAsks, CommonAsks, DataMode, IsIdle, Still
<1>4. ~mixed' => Taken'
  BY DEF IInv, TypeOK, Taken, Still
<1> QED BY <1>1, <1>2, <1>3, <1>4 DEF IInv

LEMMA QueueMessageInv == IInv /\ QueueMessage => IInv'
<1> SUFFICES ASSUME IInv, QueueMessage PROVE IInv'
  OBVIOUS
<1>1. Still /\ pc = "send" /\ pc' = "gsm" /\ online' = online /\ mixed' = mixed /\ accepted' = accepted
  BY DEF QueueMessage, Still, mode, Sms_SendMsg, callVars, commonVars
<1> QED BY <1>1, StillInv

LEMMA CallTaskInv == IInv /\ CallTask => IInv'
<1> SUFFICES ASSUME IInv, CallTask PROVE IInv'
  OBVIOUS
<1>1. Still /\ pc = "callTask" /\ pc' = "main" /\ online' = online /\ mixed' = mixed /\ accepted' = accepted
  BY DEF CallTask, Still, mode, commonVars
<1> QED BY <1>1, StillInv

LEMMA TcpIpInv == IInv /\ vTcpIpTask => IInv'
<1> SUFFICES ASSUME IInv, vTcpIpTask PROVE IInv'
  OBVIOUS
<1>1. /\ Still /\ pc = "callTask" /\ pc' = "main" /\ online' \in {online, FALSE}
      /\ mixed' = mixed /\ accepted' = accepted
  BY DEF vTcpIpTask, Still, smsVars, callVars, commonVars
<1> QED BY <1>1, StillInv

LEMMA DecideInv == IInv /\ Decide => IInv'
<1> SUFFICES ASSUME IInv, Decide PROVE IInv'
  OBVIOUS
<1>1. Still /\ pc = "main" /\ pc' = "ring" /\ online' = online /\ accepted' = accepted
  BY DEF Decide, Still, mode, callVars, commonVars
<1>2. mixed' \in {mixed, TRUE}
  BY DEF Decide, IInv, TypeOK, IsIdle
<1> QED BY <1>1, <1>2, StillInv

LEMMA UrcInv == IInv /\ Urc => IInv'
<1> SUFFICES ASSUME IInv, Urc PROVE IInv'
  OBVIOUS
<1>1. Still /\ pc' = pc /\ online' \in {online, FALSE} /\ mixed' = mixed /\ accepted' = accepted
  BY DEF Urc, Still, smsVars, commonVars
<1> QED BY <1>1, StillInv

LEMMA StutterInv == IInv /\ UNCHANGED vars => IInv'
<1> SUFFICES ASSUME IInv, UNCHANGED vars PROVE IInv'
  OBVIOUS
<1>1. Still /\ pc' = pc /\ online' = online /\ mixed' = mixed /\ accepted' = accepted
  BY DEF vars, Still, mode, smsVars, callVars, commonVars
<1> QED BY <1>1, StillInv

(* The answers are told apart again once nothing is at work.               *)
LEMMA RestInv ==
  ASSUME sms = "idle", call = "idle", common = "idle", IsIdle(cmd), list = 0
  PROVE  Covered
BY DEF Covered, Locked, SmsAsks, CallAsks, CommonAsks, DataMode, Dialling

LEMMA RingInv ==
  ASSUME IInv, NEW over \in BOOLEAN, NEW giveUp \in BOOLEAN, RING_Process(over, giveUp)
  PROVE  IInv'
<1>1. UNCHANGED <<gsm, cmd, list, busy, cmdMode, online, sms, at, centre, call, common>>
  BY DEF RING_Process, mode, smsVars, commonVars
<1>2. pc = "ring" /\ pc' = "send" /\ mixed' = (mixed /\ ~AllIdle) /\ accepted' = IF mixed THEN "no" ELSE accepted
  BY DEF RING_Process
<1>3. TypeOK'
  BY <1>1, <1>2 DEF IInv, TypeOK, Tasks, Fates
<1>4. Bringing'
  <2>1. CommonRests' = CommonRests
    BY <1>1 DEF CommonRests
  <2>2. (gsm # "coverage" => cmdMode /\ ~online)' = (gsm # "coverage" => cmdMode /\ ~online)
    BY <1>1
  <2> QED BY <1>1, <1>2, <2>1, <2>2 DEF IInv, Bringing
<1>5. ~mixed' /\ gsm' = "coverage" => Covered'
  <2>1. Covered' = Covered
    BY <1>1 DEF Covered, Locked, SmsAsks, CallAsks, CommonAsks, DataMode, IsIdle
  <2>2. mixed /\ ~mixed' => Covered
    BY <1>2, RestInv DEF AllIdle, IInv, TypeOK
  <2> QED BY <1>1, <1>2, <2>1, <2>2 DEF IInv, TypeOK
<1>6. ~mixed' => Taken'
  BY <1>1, <1>2 DEF IInv, TypeOK, Taken
<1> QED BY <1>3, <1>4, <1>5, <1>6 DEF IInv

LEMMA ReenterInv == IInv /\ Reenter => IInv'
<1> SUFFICES ASSUME IInv, Reenter PROVE IInv'
  OBVIOUS
<1>1. /\ UNCHANGED <<pc, cmd, list, sms, at, centre, call, common>> /\ pc = "send"
      /\ gsm' \in {"turnOn", "coverage"} /\ cmdMode' = TRUE /\ online' = FALSE /\ busy' = None
      /\ mixed' = (mixed \/ ~AllIdle) /\ accepted' = "no"
  BY DEF Reenter, smsVars, callVars, commonVars
<1>2. TypeOK'
  BY <1>1 DEF IInv, TypeOK, Fates
<1>3. Bringing'
  BY <1>1 DEF Bringing
<1>4. ~mixed' => Covered'
  <2>1. ~mixed' => AllIdle
    BY <1>1 DEF IInv, TypeOK
  <2>2. AllIdle => AllIdle'
    BY <1>1 DEF AllIdle, IsIdle
  <2>3. AllIdle' => Covered'
    BY RestInv, PTL DEF AllIdle
  <2> QED BY <2>1, <2>2, <2>3
<1>5. Taken'
  BY <1>1 DEF Taken
<1> QED BY <1>2, <1>3, <1>4, <1>5 DEF IInv
-----------------------------------------------------------------------------
(* Bringing the modem up.                                                  *)
LEMMA GsmInv ==
  ASSUME IInv, NEW late \in BOOLEAN, Gsm_Task(late)
  PROVE  IInv'
<1>1. /\ UNCHANGED <<busy, cmdMode, online, sms, at, centre, call, common, mixed, accepted>>
      /\ pc = "gsm" /\ pc' = IF cmdMode THEN "sms" ELSE "common"
  BY DEF Gsm_Task, mode, smsVars, callVars, commonVars
<1>2. Starts \in Nat /\ Retry \in Nat
  BY SharingAssumption
<1>3. TypeOK'
  <2>1. cmd' \in Command
    BY Sendable, Named DEF Gsm_Task, IInv, TypeOK
  <2>2. list' \in Nat
    BY <1>2 DEF Gsm_Task, IInv, TypeOK
  <2> QED BY <1>1, <2>1, <2>2 DEF IInv, TypeOK, Tasks
<1>4. CommonRests' = CommonRests
  BY <1>1 DEF CommonRests
<1>5. gsm = "coverage" <=> gsm' = "coverage" /\ gsm # "waitRegistration"
  BY DEF Gsm_Task
<1>6. gsm' = "coverage" => UNCHANGED <<cmd, list>>
  BY DEF Gsm_Task
<1>7. Bringing'
  <2>1. gsm' # "coverage" => cmdMode' /\ online' = FALSE
    BY <1>1, <1>5 DEF IInv, TypeOK, Bringing
  <2>2. pc' \in {"sms", "call", "cmd"} => pc' = "sms" /\ cmdMode'
    BY <1>1
  <2>3. gsm' = "sendAt" => /\ pc' # "sms" => sms' = "idle"
                           /\ pc' \notin {"sms", "call"} => call' = "idle"
                           /\ pc' \notin {"sms", "call", "cmd", "common"} => CommonRests'
    BY <1>1, <1>4 DEF IInv, Bringing, Gsm_Task
  <2>4. gsm' \in {"config", "registration", "waitRegistration"} =>
           sms' = "idle" /\ call' = "idle" /\ CommonRests'
    BY <1>1, <1>4 DEF IInv, Bringing, Gsm_Task
  <2>5. /\ gsm' = "config" => cmd'.name \in {"at", "start"}
        /\ gsm' = "waitRegistration" => cmd'.name = "cops" /\ list' = 0
    BY Sendable, Named DEF IInv, Bringing, Gsm_Task, Answer, IsIdle
  <2> QED BY <2>1, <2>2, <2>3, <2>4, <2>5 DEF Bringing
<1>8. ~mixed' /\ gsm' = "coverage" => Covered'
  <2>1. CASE gsm = "coverage"
    <3>1. Covered' = Covered
      BY <1>1, <1>6, <2>1, <1>5 DEF Covered, Locked, SmsAsks, CallAsks, CommonAsks, DataMode, IsIdle
    <3> QED BY <1>1, <2>1, <3>1 DEF IInv
  <2>2. CASE gsm = "waitRegistration" /\ gsm' = "coverage"
    <3>1. sms = "idle" /\ call = "idle" /\ CommonRests /\ list = 0 /\ cmdMode /\ online = FALSE
      BY <2>2 DEF IInv, TypeOK, Bringing
    <3> QED BY <1>1, <1>6, <2>2, <3>1 DEF Covered, Locked, SmsAsks, CallAsks, CommonAsks, DataMode, CommonRests
  <2> QED BY <1>5, <2>1, <2>2
<1>9. ~mixed' => Taken'
  <2>1. gsm # "coverage" /\ ~mixed => accepted # "heard"
    BY DEF IInv, Taken
  <2>2. gsm = "coverage" => gsm' = "coverage" /\ cmd' = cmd
    BY <1>5, <1>6
  <2> QED BY <1>1, <2>1, <2>2 DEF IInv, Taken
<1> QED BY <1>3, <1>7, <1>8, <1>9 DEF IInv
-----------------------------------------------------------------------------
(* Calls.                                                                  *)
LEMMA CallInv ==
  ASSUME IInv, NEW late \in BOOLEAN, VoiceCall_Task(late)
  PROVE  IInv'
<1>1. /\ UNCHANGED <<gsm, list, cmdMode, online, sms, at, centre, common, mixed, accepted>>
      /\ pc = "call" /\ pc' = "cmd"
  BY DEF VoiceCall_Task, mode, smsVars, commonVars
<1>2. Retry \in Nat /\ 0 \in Nat
  BY SharingAssumption
<1>3. gsm # "coverage" => call' = "idle" /\ cmd' = cmd /\ busy' = busy
  BY DEF VoiceCall_Task, CallInit
<1>4. gsm = "coverage" /\ busy \notin {None, "call"} => call' = call /\ cmd' = cmd /\ busy' = busy
  BY DEF VoiceCall_Task, callVars
<1>5. gsm = "coverage" /\ busy \in {None, "call"} => (CallWork(late) \/ CallExpired) /\ busy' = AfterTask(busy, "call", "idle", call')
  BY DEF VoiceCall_Task
<1>6. CallWork(late) \/ CallExpired => cmd' \in Command
  BY Sendable, Named DEF CallWork, CallIdle, CallIncoming, CallAnswer, CallWaitAnswer, InCalling, CallHangUp,
     CallWaitHangUp, CallEnding, CallExpired, IInv, TypeOK
<1>7. TypeOK'
  BY <1>1, <1>3, <1>4, <1>5, <1>6 DEF IInv, TypeOK, Tasks
<1>8. Bringing'
  <2>1. CASE gsm = "coverage"
    BY <1>1, <2>1 DEF IInv, Bringing
  <2>2. CASE gsm # "coverage"
    <3>1. CommonRests' = CommonRests
      BY <1>1, <1>3, <2>2 DEF CommonRests
    <3>2. gsm' # "coverage" => cmdMode' /\ online' = FALSE
      BY <1>1 DEF IInv, TypeOK, Bringing
    <3>3. gsm' = "sendAt" => sms' = "idle" /\ call' = "idle"
      BY <1>1, <1>3 DEF IInv, Bringing
    <3>4. gsm' \in {"config", "registration", "waitRegistration"} =>
             sms' = "idle" /\ call' = "idle" /\ CommonRests'
      BY <1>1, <1>3, <3>1 DEF IInv, Bringing
    <3>5. /\ gsm' = "config" => cmd'.name \in {"at", "start"}
          /\ gsm' = "waitRegistration" => cmd'.name = "cops" /\ list' = 0
      BY <1>1, <1>3 DEF IInv, Bringing
    <3>6. sms' \in {"idle", "checkNetwork"} /\ cmdMode'
      BY <1>1, <2>2 DEF IInv, Bringing
    <3> QED BY <1>1, <3>2, <3>3, <3>4, <3>5, <3>6 DEF Bringing
  <2> QED BY <2>1, <2>2
<1>9. ~mixed' /\ gsm' = "coverage" => Covered'
  <2> SUFFICES ASSUME ~mixed, gsm = "coverage" PROVE Covered'
    BY <1>1
  <2>1. Covered
    BY DEF IInv
  <2>2. CASE busy \notin {None, "call"}
    <3>1. Covered' = Covered
      BY <1>1, <1>4, <2>2 DEF Covered, Locked, SmsAsks, CallAsks, CommonAsks, DataMode, IsIdle
    <3> QED BY <2>1, <3>1
  <2>3. CASE busy \in {None, "call"}
    <3>1. (CallWork(late) \/ CallExpired) /\ busy' = AfterTask(busy, "call", "idle", call')
      BY <1>5, <2>3
    <3>2. sms = "idle" /\ common = "idle"
      BY <2>1, <2>3, SharingAssumption DEF Covered, Locked
    <3>3. CallAsks'
      BY <2>1, <3>1, Sendable, Named DEF CallWork, CallIdle, CallIncoming, CallAnswer, CallWaitAnswer, InCalling,
         CallHangUp, CallWaitHangUp, CallEnding, CallExpired, CallInit, Covered, CallAsks, Answer, IsIdle
    <3>4. Locked'
      BY <1>1, <3>1, <3>2 DEF Locked, AfterTask
    <3>5. SmsAsks' /\ CommonAsks'
      BY <1>1, <3>2 DEF SmsAsks, CommonAsks
    <3>6. DataMode'
      BY <1>1, <3>2 DEF DataMode, Dialling, IInv, Bringing
    <3> QED BY <1>1, <2>1, <3>3, <3>4, <3>5, <3>6 DEF Covered
  <2> QED BY <2>2, <2>3
<1>10. ~mixed' => Taken'
  <2> SUFFICES ASSUME ~mixed, accepted = "heard" PROVE Taken'
    BY <1>1 DEF Taken
  <2>1. gsm = "coverage" /\ sms # "idle" /\ Taken
    BY DEF IInv, Taken
  <2>2. busy = "sms" => cmd' = cmd
    BY <1>4, <2>1, SharingAssumption
  <2> QED BY <1>1, <2>1, <2>2 DEF IInv, Taken, Covered, Locked
<1> QED BY <1>7, <1>8, <1>9, <1>10 DEF IInv
-----------------------------------------------------------------------------
(* The command under way.                                                  *)
Restarted == gsm' = "turnOn" /\ cmdMode' = TRUE /\ online' = FALSE

(* What one call of ModemCmd_Task does to what the tasks look at.          *)
LEMMA CmdSteps ==
  ASSUME IInv, NEW late \in BOOLEAN, ModemCmd_Task(late)
  PROVE  /\ UNCHANGED <<sms, at, call, common>> /\ pc = "cmd" /\ pc' = "common"
         /\ UNCHANGED <<gsm, cmdMode, online, busy>> \/ Restarted
         /\ cmd' \in Command /\ list' \in Nat /\ (list = 0 => list' = 0)
         /\ cmd'.name # cmd.name => cmd'.name = "start" /\ list # 0
         /\ IsIdle(cmd) /\ list = 0 => cmd' = cmd
         /\ IsIdle(cmd) => centre' = centre /\ gsm' = gsm
         /\ centre' # centre => cmd.name = "csca"
         /\ mixed' \in {mixed, TRUE}
         /\ ~mixed' => \/ accepted' = accepted /\ (accepted = "heard" => ~IsIdle(cmd) \/ list # 0 \/ cmd' = cmd)
                       \/ accepted' = "unheard"
                       \/ accepted' = "heard" /\ sms = "waitSend" /\ cmd'.phase = "ok" /\ gsm' = gsm
         /\ accepted' \in Fates
<1>1. /\ UNCHANGED <<sms, at, call, common>> /\ pc = "cmd" /\ pc' = "common"
  BY DEF ModemCmd_Task, callVars, commonVars
<1>2. cmd \in Command /\ list \in Nat /\ mixed \in BOOLEAN /\ accepted \in Fates
  BY DEF IInv, TypeOK
<1>3. CASE cmd.phase = "send" /\ cmd' = (IF late THEN [cmd EXCEPT !.phase = "wait"] ELSE cmd)
           /\ UNCHANGED <<timeouts, list, centre, gsm, mode, busy, accepted, mixed, strays>>
  <2>1. cmd' \in Command /\ cmd'.name = cmd.name /\ ~IsIdle(cmd)
    BY <1>2, <1>3 DEF Command, Phases, IsIdle
  <2> QED BY <1>1, <1>2, <1>3, <2>1 DEF mode
<1>4. CASE CmdWait(late)
  <2>1. ~IsIdle(cmd)
    BY <1>4 DEF CmdWait, IsIdle
  <2>2. CASE CmdExpired
    <3>1. cmd' \in Command /\ cmd'.name = cmd.name
      BY <1>2, <2>2, Repeated DEF CmdExpired
    <3>2. UNCHANGED <<gsm, cmdMode, online, busy>> \/ Restarted
      BY <2>2 DEF CmdExpired, GsmTask_Init, Restarted, mode
    <3>3. accepted' \in {accepted, "unheard"}
      BY <2>2 DEF CmdExpired
    <3> QED BY <1>1, <1>2, <2>1, <2>2, <3>1, <3>2, <3>3 DEF CmdExpired, Fates
  <2>3. CASE UNCHANGED <<cmd, timeouts, list, centre, gsm, mode, busy, accepted, mixed, strays>>
    BY <1>1, <1>2, <2>1, <2>3 DEF mode
  <2>4. ASSUME NEW batch, CmdAnswered(batch)
        PROVE  /\ UNCHANGED <<gsm, cmdMode, online, busy, list>>
               /\ cmd' \in Command /\ cmd'.name = cmd.name
               /\ centre' # centre => cmd.name = "csca"
               /\ batch = <<"ok">> => cmd'.phase = "ok"
    BY <1>2, <2>4, FoundSome DEF CmdAnswered, mode
  <2>5. ASSUME NEW batch, CmdAnswered(batch), UNCHANGED mixed,
               accepted' = IF sms = "waitSend" /\ cmd.name = "text" /\ batch = <<"ok">> THEN "heard" ELSE accepted
        PROVE  \/ accepted' = accepted
               \/ accepted' = "heard" /\ sms = "waitSend" /\ cmd'.phase = "ok" /\ gsm' = gsm
    BY <1>2, <2>4, <2>5
  <2>6. CASE \E batch \in Answers(cmd.name) :
               /\ CmdAnswered(batch)
               /\ accepted' = IF sms = "waitSend" /\ cmd.name = "text" /\ batch = <<"ok">>
                              THEN "heard" ELSE accepted
               /\ UNCHANGED <<mixed, strays>>
    BY <1>1, <1>2, <2>1, <2>4, <2>5, <2>6 DEF Fates
  <2>7. CASE \E batch \in {<<"ok">>, <<"fail">>, <<"ok", "fail">>, <<"fail", "ok">>} :
               /\ strays < MaxStray /\ strays' = strays + 1
               /\ CmdAnswered(batch) /\ mixed' = TRUE /\ UNCHANGED accepted
    BY <1>1, <1>2, <2>1, <2>4, <2>7
  <2> QED BY <1>4, <2>2, <2>3, <2>6, <2>7 DEF CmdWait
<1>5. CASE CmdDone
  <2>1. UNCHANGED <<centre, gsm, cmdMode, online, busy, accepted, mixed>>
    BY <1>5 DEF CmdDone, mode
  <2>2. cmd' \in Command
    BY <1>2, <1>5, SharingAssumption, Named DEF CmdDone, Command, Phases
  <2>3. list' \in Nat /\ (list = 0 => list' = 0 /\ cmd' = cmd)
    BY <1>2, <1>5 DEF CmdDone
  <2>4. cmd'.name # cmd.name => cmd'.name = "start" /\ list # 0
    BY <1>2, <1>5 DEF CmdDone
  <2> QED BY <1>1, <1>2, <2>1, <2>2, <2>3, <2>4
<1> QED BY <1>3, <1>4, <1>5 DEF ModemCmd_Task

LEMMA CmdInv ==
  ASSUME IInv, NEW late \in BOOLEAN, ModemCmd_Task(late)
  PROVE  IInv'
<1>1. TypeOK'
  BY CmdSteps DEF IInv, TypeOK, Tasks, Restarted
<1>2. Bringing'
  <2>1. CASE Restarted
    BY <2>1, CmdSteps DEF Bringing, Restarted
  <2>2. CASE UNCHANGED <<gsm, cmdMode, online, busy>>
    <3>1. CommonRests' = CommonRests
      BY <2>2, CmdSteps DEF CommonRests
    <3>2. gsm' # "coverage" => cmdMode' /\ online' = FALSE
      BY <2>2 DEF IInv, TypeOK, Bringing
    <3>3. pc' \notin {"sms", "call", "cmd"} /\ (gsm' = "sendAt" => sms' = "idle" /\ call' = "idle")
      BY <2>2, CmdSteps DEF IInv, Bringing
    <3>4. gsm' \in {"config", "registration", "waitRegistration"} =>
             sms' = "idle" /\ call' = "idle" /\ CommonRests'
      BY <2>2, <3>1, CmdSteps DEF IInv, Bringing
    <3>5. /\ gsm' = "config" => cmd'.name \in {"at", "start"}
          /\ gsm' = "waitRegistration" => cmd'.name = "cops" /\ list' = 0
      BY <2>2, CmdSteps DEF IInv, Bringing
    <3> QED BY <3>2, <3>3, <3>4, <3>5, CmdSteps DEF Bringing
  <2> QED BY <2>1, <2>2, CmdSteps
<1>3. ~mixed' /\ gsm' = "coverage" => Covered'
  <2> SUFFICES ASSUME ~mixed', gsm' = "coverage" PROVE Covered'
    OBVIOUS
  <2>1. UNCHANGED <<gsm, cmdMode, online, busy>> /\ Covered /\ list = 0 /\ cmd'.name = cmd.name
    BY CmdSteps DEF Restarted, IInv, Covered
  <2>2. UNCHANGED <<sms, at, call, common>> /\ list' = 0 /\ (IsIdle(cmd) => cmd' = cmd /\ centre' = centre)
        /\ (centre' # centre => cmd.name = "csca")
    BY <2>1, CmdSteps
  <2>3. IsIdle(cmd) => IsIdle(cmd)'
    BY <2>2 DEF IsIdle
  <2>4. Locked'
    BY <2>1, <2>2 DEF Covered, Locked
  <2>5. SmsAsks'
    <3>1. sms = "waitAnswer" => centre' = centre
      BY <2>1, <2>2 DEF Covered, SmsAsks
    <3> QED BY <2>1, <2>2, <2>3, <3>1 DEF Covered, SmsAsks
  <2>6. CallAsks'
    BY <2>1, <2>2, <2>3 DEF Covered, CallAsks
  <2>7. CommonAsks'
    BY <2>1, <2>2, <2>3 DEF Covered, CommonAsks
  <2>8. DataMode'
    BY <2>1, <2>2, <2>3 DEF Covered, DataMode
  <2> QED BY <2>2, <2>4, <2>5, <2>6, <2>7, <2>8 DEF Covered
<1>4. ~mixed' => Taken'
  <2> SUFFICES ASSUME ~mixed', accepted' = "heard" PROVE Taken'
    BY DEF Taken
  <2>1. ~mixed
    BY CmdSteps
  <2>2. CASE accepted' = accepted
    <3>1. gsm = "coverage" /\ list = 0 /\ IsIdle(cmd)
      BY <2>1, <2>2 DEF IInv, Taken, Covered, SmsAsks, IsIdle
    <3>2. cmd' = cmd /\ sms' = sms
      BY <3>1, CmdSteps
    <3>3. gsm' = gsm
      BY <3>1, CmdSteps
    <3> QED BY <2>1, <2>2, <3>2, <3>3 DEF IInv, Taken
  <2>3. CASE sms = "waitSend" /\ cmd'.phase = "ok" /\ gsm' = gsm
    BY <2>3, CmdSteps DEF IInv, Bringing, Taken
  <2> QED BY <2>2, <2>3, CmdSteps
<1> QED BY <1>1, <1>2, <1>3, <1>4 DEF IInv
-----------------------------------------------------------------------------
(* Sending messages.                                                       *)

(* What one call of the task leaves of the command and the lock, when it   *)
(* has the modem to itself.                                                *)
LEMMA SmsSteps ==
  ASSUME IInv, NEW late \in BOOLEAN, SmsWork(late)
  PROVE  /\ cmd' \in Command
         /\ UNCHANGED <<gsm, cmdMode, online>> \/ (Restarted /\ sms' = "checkNetwork")
         /\ sms = "idle" => UNCHANGED <<gsm, cmd, centre>> /\ sms' \in {"idle", "delayStart"}
         /\ sms = "idle" /\ gsm # "coverage" => sms' = "idle"
         /\ sms = "waitSend" /\ cmd.phase = "ok" => sms' = "sent" /\ UNCHANGED <<gsm, cmd, accepted>>
         /\ sms = "sent" => accepted' = "no"
         /\ accepted' \in {accepted, "no"}
<1>1. cmd' \in Command
  <2>1. cmd \in Command /\ {"text", "noise"} \subseteq Names
    BY Named DEF IInv, TypeOK
  <2>2. SmsWaitAnswer => cmd' \in Command
    BY <2>1, WaitSet DEF SmsWaitAnswer
  <2>3. SmsDelayStart(late) \/ SmsStartSend(late) \/ SmsWaitInit(late) \/ SmsSendFail(late) => cmd' \in Command
    BY <2>1, Sendable, Named DEF SmsDelayStart, SmsStartSend, SmsWaitInit, SmsSendFail
  <2>4. SmsIdle \/ SmsWaitSend \/ SmsSent \/ SmsCheckNetwork => cmd' \in Command
    BY <2>1 DEF SmsIdle, SmsWaitSend, SmsSent, SmsCheckNetwork
  <2> QED BY <2>2, <2>3, <2>4 DEF SmsWork
<1>2. UNCHANGED <<gsm, cmdMode, online>> \/ (Restarted /\ sms' = "checkNetwork")
  BY DEF SmsWork, SmsIdle, SmsDelayStart, SmsStartSend, SmsWaitInit, SmsWaitAnswer, SmsWaitSend, SmsSent,
     SmsSendFail, SmsCheckNetwork, mode, GsmTask_Init, Restarted, Answer
<1>3. /\ sms = "idle" => UNCHANGED <<gsm, cmd, centre>> /\ sms' \in {"idle", "delayStart"}
      /\ sms = "idle" /\ gsm # "coverage" => sms' = "idle"
  BY DEF SmsWork, SmsIdle, SmsDelayStart, SmsStartSend, SmsWaitInit, SmsWaitAnswer, SmsWaitSend, SmsSent,
     SmsSendFail, SmsCheckNetwork
<1>4. sms = "waitSend" /\ cmd.phase = "ok" => sms' = "sent" /\ UNCHANGED <<gsm, cmd, accepted>>
  BY DEF SmsWork, SmsIdle, SmsDelayStart, SmsStartSend, SmsWaitInit, SmsWaitAnswer, SmsWaitSend, SmsSent,
     SmsSendFail, SmsCheckNetwork, Answer
<1>5. (sms = "sent" => accepted' = "no") /\ accepted' \in {accepted, "no"}
  BY DEF SmsWork, SmsIdle, SmsDelayStart, SmsStartSend, SmsWaitInit, SmsWaitAnswer, SmsWaitSend, SmsSent,
     SmsSendFail, SmsCheckNetwork
<1> QED BY <1>1, <1>2, <1>3, <1>4, <1>5

(* The task goes on to a phase that waits only with its command under way. *)
LEMMA SmsAsksOn ==
  ASSUME IInv, NEW late \in BOOLEAN, SmsWork(late), SmsAsks
  PROVE  SmsAsks'
<1>1. cmd \in Command /\ {"text", "noise"} \subseteq Names
  BY Named DEF IInv, TypeOK
<1>2. SmsIdle => SmsAsks'
  BY DEF SmsIdle, SmsAsks
<1>3. SmsDelayStart(late) => SmsAsks'
  BY Sendable, Named DEF SmsDelayStart, SmsAsks
<1>4. SmsStartSend(late) => SmsAsks'
  BY Sendable, Named DEF SmsStartSend, SmsAsks, Answer, IsIdle
<1>5. SmsWaitInit(late) => SmsAsks'
  BY Sendable, Named DEF SmsWaitInit, SmsAsks, IsIdle
<1>6. SmsWaitAnswer => SmsAsks'
  BY <1>1, WaitSet DEF SmsWaitAnswer, SmsAsks, Answer, IsIdle
<1>7. SmsWaitSend => SmsAsks'
  BY DEF SmsWaitSend, SmsAsks, Answer, IsIdle
<1>8. SmsSent => SmsAsks'
  BY DEF SmsSent, SmsAsks
<1>9. SmsSendFail(late) => SmsAsks'
  BY Sendable, Named DEF SmsSendFail, SmsAsks
<1>10. SmsCheckNetwork => SmsAsks'
  BY DEF SmsCheckNetwork, SmsAsks
<1> QED BY <1>2, <1>3, <1>4, <1>5, <1>6, <1>7, <1>8, <1>9, <1>10 DEF SmsWork

LEMMA SmsInv ==
  ASSUME IInv, NEW late \in BOOLEAN, Sms_Task(late)
  PROVE  IInv'
<1>1. UNCHANGED <<list, call, common>> /\ pc = "sms" /\ pc' = "call" /\ cmdMode
  BY DEF Sms_Task, callVars, commonVars, IInv, Bringing
<1>2. CASE KeptOut("sms") \/ (gsm # "coverage" /\ sms # "idle")
  <2>1. /\ sms' = IF gsm # "coverage" THEN "idle" ELSE sms
        /\ busy' = IF KeptOut("sms") THEN busy ELSE AfterTask(busy, "sms", sms, sms')
        /\ accepted' = IF gsm = "coverage" THEN accepted ELSE "no"
        /\ UNCHANGED <<cmd, at, centre, gsm, cmdMode, online, mixed>>
    BY <1>2 DEF Sms_Task, mode
  <2>2. TypeOK'
    BY <1>1, <2>1 DEF IInv, TypeOK, Tasks, Fates
  <2>3. gsm \in {"coverage", "config", "registration", "waitRegistration"} => busy' = busy
    BY <1>2, <2>1 DEF IInv, Bringing
  <2>4. Bringing'
    <3>1. gsm' # "coverage" => cmdMode' /\ ~online'
      BY <2>1 DEF IInv, Bringing
    <3>2. gsm' \in {"config", "registration", "waitRegistration"} =>
             sms' = "idle" /\ call' = "idle" /\ CommonRests'
      BY <1>1, <2>1, <2>3 DEF IInv, Bringing, CommonRests
    <3>3. /\ gsm' = "config" => cmd'.name \in {"at", "start"}
          /\ gsm' = "waitRegistration" => cmd'.name = "cops" /\ list' = 0
      BY <1>1, <2>1 DEF IInv, Bringing
    <3> QED BY <1>1, <2>1, <3>1, <3>2, <3>3 DEF Bringing
  <2>5. gsm = "coverage" => UNCHANGED <<sms, busy, accepted>>
    BY <2>1, <2>3 DEF IInv, TypeOK
  <2>6. gsm = "coverage" => Covered' = Covered
    BY <1>1, <2>1, <2>5 DEF Covered, Locked, SmsAsks, CallAsks, CommonAsks, DataMode, IsIdle
  <2>7. ~mixed' => Taken'
    BY <2>1, <2>5 DEF IInv, Taken
  <2> QED BY <2>1, <2>2, <2>4, <2>6, <2>7 DEF IInv
<1>3. CASE ~(KeptOut("sms") \/ (gsm # "coverage" /\ sms # "idle"))
  <2>1. /\ SmsWork(late) /\ mixed' = Mixes(sms', sms)
        /\ busy' = AfterTask(IF gsm' # gsm THEN None ELSE busy, "sms", sms, sms')
    BY <1>3 DEF Sms_Task
  <2>2. mixed' \in BOOLEAN /\ accepted' \in Fates
    BY <2>1, SmsSteps DEF Mixes, IInv, TypeOK, Fates
  <2>3. TypeOK'
    BY <1>1, <2>1, <2>2, SmsSteps DEF IInv, TypeOK, Tasks, Restarted
  <2>4. Bringing'
    <3>1. CASE Restarted /\ sms' = "checkNetwork"
      BY <1>1, <3>1 DEF Bringing, Restarted
    <3>2. CASE UNCHANGED <<gsm, cmdMode, online>> /\ gsm = "coverage"
      BY <1>1, <3>2 DEF Bringing
    <3>3. CASE UNCHANGED <<gsm, cmdMode, online>> /\ gsm # "coverage"
      <4>1. sms' = "idle" /\ sms = "idle" /\ cmd' = cmd
        BY <1>3, <2>1, <3>3, SmsSteps
      <4>2. CommonRests => CommonRests'
        BY <1>1, <2>1, <3>3, <4>1 DEF CommonRests, AfterTask
      <4>3. gsm' # "coverage" => cmdMode' /\ ~online'
        BY <3>3 DEF IInv, Bringing
      <4>4. gsm' \in {"config", "registration", "waitRegistration"} =>
               sms' = "idle" /\ call' = "idle" /\ CommonRests'
        BY <1>1, <3>3, <4>1, <4>2 DEF IInv, Bringing
      <4>5. /\ gsm' = "config" => cmd'.name \in {"at", "start"}
            /\ gsm' = "waitRegistration" => cmd'.name = "cops" /\ list' = 0
        BY <1>1, <3>3, <4>1 DEF IInv, Bringing
      <4> QED BY <1>1, <3>3, <4>1, <4>3, <4>4, <4>5 DEF Bringing
    <3> QED BY <2>1, <3>1, <3>2, <3>3, SmsSteps
  <2>5. ~mixed' => ~mixed /\ (call = "inCalling" => sms = "idle" /\ sms' = "idle")
    BY <2>1 DEF Mixes
  <2>6. ~mixed' /\ gsm' = "coverage" => Covered'
    <3> SUFFICES ASSUME ~mixed', gsm' = "coverage" PROVE Covered'
      OBVIOUS
    <3>1. UNCHANGED <<gsm, cmdMode, online>> /\ Covered
      BY <2>1, <2>5, SmsSteps DEF Restarted, IInv
    <3>2. SmsAsks'
      BY <2>1, <3>1, SmsAsksOn DEF Covered
    <3>3. busy' = AfterTask(busy, "sms", sms, sms')
      BY <2>1, <3>1
    <3>4. CASE sms = "idle"
      <4>1. cmd' = cmd
        BY <2>1, <3>4, SmsSteps
      <4>2. CallAsks' /\ CommonAsks' /\ DataMode'
        BY <1>1, <3>1, <4>1 DEF Covered, CallAsks, CommonAsks, DataMode, IsIdle
      <4>3. CASE call = "inCalling"
        <5>1. Locked'
          BY <1>1, <2>5, <3>1, <3>3, <3>4, <4>3 DEF Covered, Locked, AfterTask
        <5> QED BY <1>1, <3>1, <3>2, <4>2, <5>1 DEF Covered
      <4>4. CASE call # "inCalling"
        <5>1. busy \in {None, "sms"}
          BY <1>3, <4>4 DEF KeptOut
        <5>2. call = "idle" /\ common = "idle"
          BY <3>1, <5>1, SharingAssumption DEF Covered, Locked
        <5>3. Locked'
          BY <1>1, <3>3, <5>2 DEF Locked, AfterTask
        <5> QED BY <1>1, <3>1, <3>2, <4>2, <5>3 DEF Covered
      <4> QED BY <4>3, <4>4
    <3>5. CASE sms # "idle"
      <4>1. call = "idle" /\ common = "idle"
        BY <3>1, <3>5 DEF Covered, Locked
      <4>2. Locked'
        BY <1>1, <3>3, <4>1 DEF Locked, AfterTask
      <4>3. CallAsks' /\ CommonAsks'
        BY <1>1, <4>1 DEF CallAsks, CommonAsks
      <4>4. DataMode'
        BY <1>1, <3>1, <4>1 DEF DataMode, Dialling
      <4> QED BY <1>1, <3>1, <3>2, <4>2, <4>3, <4>4 DEF Covered
    <3> QED BY <3>4, <3>5
  <2>7. ~mixed' => Taken'
    <3> SUFFICES ASSUME ~mixed', accepted' = "heard" PROVE Taken'
      BY DEF Taken
    <3>1. sms # "sent" /\ accepted = "heard" /\ Taken
      BY <2>1, <2>5, SmsSteps DEF IInv
    <3>2. gsm = "coverage" /\ sms = "waitSend" /\ cmd.phase = "ok"
      BY <3>1 DEF Taken
    <3> QED BY <2>1, <3>2, SmsSteps DEF Taken
  <2> QED BY <2>3, <2>4, <2>6, <2>7 DEF IInv
<1> QED BY <1>2, <1>3
-----------------------------------------------------------------------------
(* Dialling and the mode.                                                  *)
CommonStep(late) == CommonIdle \/ (gsm = "coverage" /\ (CommonWork(late) \/ CommonWaits(late)))

(* What one call of the task leaves, when it is not kept out.              *)
LEMMA CommonSteps ==
  ASSUME IInv, NEW late \in BOOLEAN, CommonStep(late)
  PROVE  /\ cmd' \in Command /\ common' \in CommonPhases
         /\ cmdMode' \in BOOLEAN /\ online' \in BOOLEAN
         /\ gsm' = gsm \/ Restarted
         /\ gsm # "coverage" \/ common = "idle" => CommonIdle
<1>1. cmd' \in Command
  <2>1. cmd \in Command
    BY DEF IInv, TypeOK
  <2>2. Dial1 => cmd' \in Command
    <3>1. common \in DOMAIN HangUpFirst => HangUpFirst[common].cmd \in Names
      BY Named DEF HangUpFirst
    <3> QED BY <3>1, Sendable DEF Dial1
  <2>3. Dial2(late) \/ ToData \/ ToCmd(late) \/ CheckCmd => cmd' \in Command
    BY <2>1, Sendable, Named DEF Dial2, ToData, ToCmd, CheckCmd
  <2>4. CommonIdle \/ Dial4(late) \/ DialFail \/ WaitToData(late) \/ WaitToCmd(late) \/ CommonWaits(late) => cmd' = cmd
    BY DEF CommonIdle, Dial4, DialFail, WaitToData, WaitToCmd, CommonWaits
  <2> QED BY <2>1, <2>2, <2>3, <2>4 DEF CommonStep, CommonWork
<1>2. common' \in CommonPhases
  <2>1. common \in CommonPhases
    BY DEF IInv, TypeOK
  <2>2. Dial1 => common' \in CommonPhases
    BY DEF Dial1, HangUpFirst, CommonPhases, Dialling
  <2> QED BY <2>1, <2>2 DEF CommonStep, CommonWork, CommonWaits, CommonIdle, Dial2, Dial4, DialFail, ToData,
             WaitToData, ToCmd, CheckCmd, WaitToCmd, TryAgain, CommonPhases, Dialling, commonVars
<1>3. cmdMode' \in BOOLEAN /\ online' \in BOOLEAN /\ (gsm' = gsm \/ Restarted)
  <2>1. cmdMode \in BOOLEAN /\ online \in BOOLEAN
    BY DEF IInv, TypeOK
  <2>2. CommonIdle => cmdMode' \in BOOLEAN /\ online' \in BOOLEAN /\ gsm' = gsm
    BY DEF CommonIdle
  <2>3. DialFail \/ WaitToCmd(late) => UNCHANGED <<gsm, cmdMode, online>> \/ Restarted
    BY DEF DialFail, WaitToCmd, TryAgain, GsmTask_Init, Restarted, mode
  <2>4. Dial1 \/ Dial2(late) \/ Dial4(late) \/ ToData \/ WaitToData(late) \/ ToCmd(late) \/ CheckCmd
          \/ CommonWaits(late) => cmdMode' \in {cmdMode, TRUE, FALSE} /\ online' \in {online, TRUE, FALSE} /\ gsm' = gsm
    BY DEF Dial1, Dial2, Dial4, ToData, WaitToData, ToCmd, CheckCmd, CommonWaits, mode
  <2> QED BY <2>1, <2>2, <2>3, <2>4 DEF CommonStep, CommonWork, Restarted
<1>4. gsm # "coverage" \/ common = "idle" => CommonIdle
  BY DEF CommonStep, CommonWork, CommonWaits, Dial1, HangUpFirst, Dial2, Dial4, DialFail, ToData, WaitToData, ToCmd,
     CheckCmd, WaitToCmd
<1> QED BY <1>1, <1>2, <1>3, <1>4

(* From rest: data mode is left, and entered again, with no command under  *)
(* way, and a dial ends it.                                                *)
LEMMA CommonIdleOn ==
  ASSUME IInv, CommonIdle, gsm = "coverage", Covered
  PROVE  cmd' = cmd /\ CommonAsks' /\ DataMode'
<1>1. common = "idle" /\ cmd' = cmd /\ cmdMode \in BOOLEAN
  BY DEF CommonIdle, CommonPhase, IInv, TypeOK
<1>2. common' \in {"idle", "dial0", "toCmd", "toData"}
  BY DEF CommonIdle
<1>3. common' = "dial0" => ~online'
  BY DEF CommonIdle
<1>4. ~cmdMode' => ~cmdMode /\ online
  BY <1>1 DEF CommonIdle
<1>5. common' = "toCmd" => ~cmdMode'
  BY DEF CommonIdle
<1>6. ~cmdMode' => IsIdle(cmd)
  BY <1>1, <1>4 DEF Covered, DataMode
<1>7. CommonAsks'
  BY <1>1, <1>2, <1>5, <1>6 DEF CommonAsks
<1>8. DataMode'
  BY <1>1, <1>2, <1>3, <1>6 DEF DataMode, Dialling
<1> QED BY <1>1, <1>7, <1>8

(* At work: what is waited for has been sent.                              *)
LEMMA CommonAsksOn ==
  ASSUME IInv, NEW late \in BOOLEAN, CommonWork(late) \/ CommonWaits(late), common # "idle", gsm' = "coverage",
         gsm = "coverage", CommonAsks, DataMode
  PROVE  CommonAsks' /\ DataMode'
<1>1. cmdMode \in BOOLEAN /\ online \in BOOLEAN
  BY DEF IInv, TypeOK
<1>2. ~CommonIdle
  BY DEF CommonIdle, CommonPhase
<1>3. ASSUME Dial1 PROVE CommonAsks' /\ DataMode'
  <2>1. IsIdle(cmd) /\ common \in {"dial0", "dial01", "dial02", "dial1"} /\ UNCHANGED mode
    BY <1>3 DEF Dial1, HangUpFirst
  <2>2. common' \in {"dial01", "dial02", "dial1", "dial2"}
    BY <1>3 DEF Dial1, HangUpFirst
  <2>3. common' = "dial2" => cmd' = SendCmd(cmd, "cgact", 0)
    BY <1>3, <2>1 DEF Dial1, HangUpFirst
  <2>4. common' = "dial2" => cmd'.name = "cgact"
    BY <2>1, <2>3, Sendable, Named
  <2> QED BY <2>1, <2>2, <2>4 DEF CommonAsks, DataMode, Dialling, mode
<1>4. ASSUME Dial2(late) PROVE CommonAsks' /\ DataMode'
  <2>1. common \in {"dial2", "dial3"} /\ common' \in {"dial3", "dial4", "fail", "idle"} /\ UNCHANGED mode
    BY <1>4 DEF Dial2
  <2>2. (common' = "dial3" => cmd'.name = "cgdcont") /\ (common' = "dial4" => cmd'.name = "dial")
    BY <1>4, Sendable, Named DEF Dial2, Answer, IsIdle
  <2> QED BY <2>1, <2>2 DEF CommonAsks, DataMode, Dialling, mode
<1>5. ASSUME Dial4(late) PROVE CommonAsks' /\ DataMode'
  BY <1>5 DEF Dial4, CommonAsks, DataMode, Dialling, mode, Answer, IsIdle
<1>6. ASSUME DialFail PROVE CommonAsks' /\ DataMode'
  BY <1>6 DEF DialFail, TryAgain, GsmTask_Init, CommonAsks, DataMode, Dialling, mode
<1>7. ASSUME ToData PROVE CommonAsks' /\ DataMode'
  <2>1. common = "toData" /\ UNCHANGED mode
    BY <1>7 DEF ToData
  <2>2. IsIdle(cmd) => common' = "waitToData" /\ cmd'.name = "ato"
    BY <1>7, Sendable, Named DEF ToData
  <2>3. IsIdle(cmd)
    BY <1>7, <2>1 DEF ToData, DataMode
  <2> QED BY <2>1, <2>2, <2>3 DEF CommonAsks, DataMode, Dialling
<1>8. ASSUME WaitToData(late) PROVE CommonAsks' /\ DataMode'
  BY <1>8 DEF WaitToData, CommonAsks, DataMode, Dialling, Answer, IsIdle
<1>9. ASSUME ToCmd(late) PROVE CommonAsks' /\ DataMode'
  <2>1. common = "toCmd" /\ common' = "checkCmd" /\ cmd' = SendCmd(cmd, "escape", 0)
    BY <1>9 DEF ToCmd
  <2>2. cmd'.name \in {"escape", "at"}
    BY <2>1, Sendable, Named DEF CommonAsks
  <2> QED BY <2>1, <2>2 DEF CommonAsks, DataMode, Dialling
<1>10. ASSUME CheckCmd PROVE CommonAsks' /\ DataMode'
  <2>1. IsIdle(cmd) /\ common' \in {"idle", "waitToCmd"}
    BY <1>10 DEF CheckCmd
  <2>2. common' = "waitToCmd" => cmd'.name = "at"
    BY <1>10, Sendable, Named DEF CheckCmd
  <2>3. common' = "idle" => cmd' = cmd
    BY <1>10 DEF CheckCmd
  <2> QED BY <2>1, <2>2, <2>3 DEF CommonAsks, DataMode, Dialling, IsIdle
<1>11. ASSUME WaitToCmd(late) PROVE CommonAsks' /\ DataMode'
  BY <1>11 DEF WaitToCmd, TryAgain, GsmTask_Init, CommonAsks, DataMode, Dialling, Answer, IsIdle
<1>12. ASSUME CommonWaits(late) PROVE CommonAsks' /\ DataMode'
  BY <1>12 DEF CommonWaits, commonVars, mode, CommonAsks, DataMode, IsIdle
<1> QED BY <1>2, <1>3, <1>4, <1>5, <1>6, <1>7, <1>8, <1>9, <1>10, <1>11, <1>12 DEF CommonWork

LEMMA CommonInv ==
  ASSUME IInv, NEW late \in BOOLEAN, GsmCommon_Task(late)
  PROVE  IInv'
<1>1. UNCHANGED <<list, sms, at, centre, call, accepted>> /\ pc = "common" /\ pc' = "callTask"
  BY DEF GsmCommon_Task, smsVars, callVars
<1>2. CASE KeptOut("common")
  <2>1. common' = CommonPhase /\ UNCHANGED <<cmd, gsm, cmdMode, online, busy, mixed>>
    BY <1>2 DEF GsmCommon_Task, mode
  <2>2. TypeOK'
    BY <1>1, <2>1 DEF IInv, TypeOK, Tasks, CommonPhase, CommonPhases
  <2>3. Bringing'
    <3>1. gsm' # "coverage" => cmdMode' /\ ~online' /\ CommonRests'
      BY <2>1 DEF IInv, Bringing, CommonPhase, CommonRests
    <3>2. (gsm' = "sendAt" => sms' = "idle" /\ call' = "idle")
      BY <1>1, <2>1 DEF IInv, Bringing
    <3>3. gsm' \in {"config", "registration", "waitRegistration"} => sms' = "idle" /\ call' = "idle"
      BY <1>1, <2>1 DEF IInv, Bringing
    <3>4. /\ gsm' = "config" => cmd'.name \in {"at", "start"}
          /\ gsm' = "waitRegistration" => cmd'.name = "cops" /\ list' = 0
      BY <1>1, <2>1 DEF IInv, Bringing
    <3> QED BY <1>1, <3>1, <3>2, <3>3, <3>4 DEF Bringing
  <2>4. gsm = "coverage" => Covered' = Covered
    BY <1>1, <2>1 DEF CommonPhase, Covered, Locked, SmsAsks, CallAsks, CommonAsks, DataMode, IsIdle
  <2>5. Taken' = Taken
    BY <1>1, <2>1 DEF Taken
  <2> QED BY <2>1, <2>2, <2>3, <2>4, <2>5 DEF IInv
<1>3. CASE ~KeptOut("common")
  <2>1. /\ CommonStep(late) /\ mixed' = Mixes(common', common)
        /\ busy' = AfterTask(IF gsm' # gsm THEN None ELSE busy, "common", common, common')
    BY <1>3 DEF GsmCommon_Task, CommonStep
  <2>2. TypeOK'
    <3>1. mixed' \in BOOLEAN
      BY <2>1 DEF Mixes, IInv, TypeOK
    <3> QED BY <1>1, <2>1, <3>1, CommonSteps DEF IInv, TypeOK, Tasks
  <2>3. gsm # "coverage" =>
          UNCHANGED <<cmd, gsm>> /\ cmdMode' /\ ~online' /\ common' \in {"idle", "dial0", "toData"} /\ CommonRests'
    <3> SUFFICES ASSUME gsm # "coverage"
                 PROVE  /\ UNCHANGED <<cmd, gsm>> /\ cmdMode' /\ ~online' /\ CommonRests'
                        /\ common' \in {"idle", "dial0", "toData"}
      OBVIOUS
    <3>1. CommonIdle /\ cmdMode /\ ~online
      BY <2>1, CommonSteps DEF IInv, Bringing
    <3>2. UNCHANGED <<cmd, gsm>> /\ cmdMode' /\ ~online'
      BY <3>1 DEF CommonIdle
    <3>3. common' \in {"idle", "dial0", "toData"}
      BY <3>1, <3>2 DEF CommonIdle
    <3> QED BY <2>1, <3>2, <3>3 DEF CommonRests, AfterTask
  <2>4. Bringing'
    <3>1. CASE gsm = "coverage" /\ gsm' = gsm
      BY <1>1, <3>1 DEF Bringing
    <3>2. CASE Restarted
      BY <1>1, <3>2 DEF Bringing, Restarted
    <3>3. CASE gsm # "coverage"
      <4>1. gsm' = "sendAt" => sms' = "idle" /\ call' = "idle"
        BY <1>1, <2>3, <3>3 DEF IInv, Bringing
      <4>2. gsm' \in {"config", "registration", "waitRegistration"} => sms' = "idle" /\ call' = "idle"
        BY <1>1, <2>3, <3>3 DEF IInv, Bringing
      <4>3. /\ gsm' = "config" => cmd'.name \in {"at", "start"}
            /\ gsm' = "waitRegistration" => cmd'.name = "cops" /\ list' = 0
        BY <1>1, <2>3, <3>3 DEF IInv, Bringing
      <4> QED BY <1>1, <2>3, <3>3, <4>1, <4>2, <4>3 DEF Bringing
    <3> QED BY <2>1, <3>1, <3>2, <3>3, CommonSteps
  <2>5. ~mixed' => ~mixed /\ (call = "inCalling" => common = "idle" /\ common' = "idle")
    BY <2>1 DEF Mixes
  <2>6. ~mixed' /\ gsm' = "coverage" => Covered'
    <3> SUFFICES ASSUME ~mixed', gsm' = "coverage" PROVE Covered'
      OBVIOUS
    <3>1. gsm = "coverage" /\ Covered /\ busy' = AfterTask(busy, "common", common, common')
      BY <2>1, <2>3, <2>5 DEF IInv
    <3>2. CASE common = "idle"
      <4>1. cmd' = cmd /\ CommonAsks' /\ DataMode'
        BY <2>1, <3>1, <3>2, CommonSteps, CommonIdleOn
      <4>2. SmsAsks' /\ CallAsks'
        BY <1>1, <3>1, <4>1 DEF Covered, SmsAsks, CallAsks, IsIdle
      <4>3. Locked'
        <5>1. CASE call = "inCalling"
          BY <1>1, <2>5, <3>1, <3>2, <5>1 DEF Covered, Locked, AfterTask
        <5>2. CASE call # "inCalling"
          <6>1. busy \in {None, "common"}
            BY <1>3, <5>2 DEF KeptOut
          <6>2. sms = "idle" /\ call = "idle"
            BY <3>1, <6>1, SharingAssumption DEF Covered, Locked
          <6> QED BY <1>1, <3>1, <6>2 DEF Locked, AfterTask
        <5> QED BY <5>1, <5>2
      <4> QED BY <1>1, <3>1, <4>1, <4>2, <4>3 DEF Covered
    <3>3. CASE common # "idle"
      <4>1. sms = "idle" /\ call = "idle"
        BY <3>1, <3>3 DEF Covered, Locked
      <4>2. Locked' /\ SmsAsks' /\ CallAsks'
        BY <1>1, <3>1, <4>1 DEF Locked, AfterTask, SmsAsks, CallAsks
      <4>3. CommonWork(late) \/ CommonWaits(late)
        BY <2>1, <3>1, <3>3 DEF CommonStep, CommonIdle, CommonPhase
      <4>4. CommonAsks' /\ DataMode'
        BY <3>1, <3>3, <4>3, CommonAsksOn DEF Covered
      <4> QED BY <1>1, <3>1, <4>2, <4>4 DEF Covered
    <3> QED BY <3>2, <3>3
  <2>7. ~mixed' => Taken'
    <3> SUFFICES ASSUME ~mixed', accepted = "heard" PROVE Taken'
      BY <1>1 DEF Taken
    <3>1. gsm = "coverage" /\ sms # "idle" /\ Covered
      BY <2>5 DEF IInv, Taken
    <3>2. busy = "sms" /\ call = "idle"
      BY <3>1 DEF Covered, Locked
    <3> QED BY <1>3, <3>2, SharingAssumption DEF KeptOut
  <2> QED BY <2>2, <2>4, <2>6, <2>7 DEF IInv
<1> QED BY <1>2, <1>3
-----------------------------------------------------------------------------
(* Every step keeps it.                                                    *)
LEMMA StepInv == IInv /\ [Next]_vars => IInv'
<1> SUFFICES ASSUME IInv, [Next]_vars PROVE IInv'
  OBVIOUS
<1>1. CASE QueueMessage \/ CallTask \/ vTcpIpTask \/ Decide
  BY <1>1, QueueMessageInv, CallTaskInv, TcpIpInv, DecideInv
<1>2. ASSUME NEW late \in BOOLEAN,
             \/ Gsm_Task(late) \/ Sms_Task(late) \/ VoiceCall_Task(late) \/ ModemCmd_Task(late)
             \/ GsmCommon_Task(late)
      PROVE  IInv'
  BY <1>2, GsmInv, SmsInv, CallInv, CmdInv, CommonInv
<1>3. ASSUME NEW over \in BOOLEAN, NEW giveUp \in BOOLEAN, RING_Process(over, giveUp)
      PROVE  IInv'
  BY <1>3, RingInv
<1>4. CASE Reenter \/ Urc \/ UNCHANGED vars
  BY <1>4, ReenterInv, UrcInv, StutterInv
<1> QED BY <1>1, <1>2, <1>3, <1>4 DEF Next, Turn

(* In every reachable state in which the answers are told apart (~mixed),  *)
(* whatever was sent, answered or lost before: the lock is held by the one *)
(* task at work, the command is the one that task has sent, and a text     *)
(* whose OK was heard is known to its task as sent.                        *)
THEOREM SharingInvariant == Spec => []IInv
<1> QED BY InitInv, StepInv, PTL DEF Spec

(* A task that looks at the outcome of a command finds that of the command *)
(* it has sent itself (Sms_Task, VoiceCall_Task, GsmCommon_Task, Gsm_Task),*)
(* for every number of messages, retries and restarts of the modem, until  *)
(* the answers may be mixed up: a stray answer, work during a call that was*)
(* answered, SMS_Manage over a command under way or a re-entry while a task*)
(* is at work.  Then nothing is said until every task has come to rest.    *)
THEOREM SharingOwnAnswer == Spec => []OwnAnswer
<1>1. IInv => OwnAnswer
  <2> SUFFICES ASSUME IInv, ~mixed
               PROVE  /\ gsm = "coverage" => SmsAsks /\ CallAsks /\ CommonAsks
                      /\ gsm = "config" => cmd.name \in {"at", "start"}
                      /\ gsm = "waitRegistration" => cmd.name \in {"cops"}
    BY DEF OwnAnswer, Asked, SmsAsks, CallAsks, CommonAsks
  <2> QED BY DEF IInv, Bringing, Covered
<1> QED BY <1>1, SharingInvariant, PTL

(* A text the modem has taken and answered within the ten seconds of       *)
(* SetWait is not written to it a second time, outside the times OwnAnswer *)
(* leaves out.  A text whose OK comes later is written again.              *)
THEOREM SharingHeardOnce == Spec => HeardOnce
<1>1. IInv /\ [Next]_vars => [sms = "waitAnswer" /\ sms' = "waitSend" => accepted # "heard" \/ mixed']_vars
  <2> SUFFICES ASSUME IInv, Next, sms = "waitAnswer", sms' = "waitSend", accepted = "heard", ~mixed' PROVE FALSE
    BY DEF IInv, TypeOK
  <2>1. mixed
    BY DEF IInv, Taken, TypeOK
  <2>2. PICK late \in BOOLEAN : Sms_Task(late)
    BY DEF Next, Turn, QueueMessage, CallTask, vTcpIpTask, Decide, Gsm_Task, VoiceCall_Task, ModemCmd_Task,
       GsmCommon_Task, RING_Process, Reenter, Urc, smsVars
  <2> QED BY <2>1, <2>2 DEF Sms_Task, Mixes
<1> QED BY <1>1, SharingInvariant, PTL DEF Spec, HeardOnce
=============================================================================
