---------------------------- MODULE ConfigStore ----------------------------
(***************************************************************************)
(* The configuration: sysCfg in RAM, its copy in the MCU's flash, and the  *)
(* handlers that change it word by word and save it (system_config.c).     *)
(*                                                                         *)
(* The interrupt of the RTC copies the flash over sysCfg between any two   *)
(* steps of a handler, and between the packets of a download; the power    *)
(* may fail at any time.                                                   *)
(***************************************************************************)
EXTENDS Integers, Sequences

CONSTANTS
  Words,         \* words of the configuration; the first is the id
  Setting,       \* values of a word
  Default,       \* the one CFG_Load puts into a blank word
  CheckSum(_),   \* the sum over the words
  SyncEvery,     \* seconds of rtcCnt in a period (600)
  MaxCommand,    \* bound: commands
  MaxFault,      \* bound: erasures and programs that fail
  MaxCut,        \* bound: cuts of the power
  MaxTorn        \* bound: reloads and commands that come into another one

Blank == -1
NoSum == -1
Unknown == <<>>    \* the target, after a cut
Data == [1 .. Words -> Setting \cup {Blank}]
Crc == Words + 1
Slots == 1 .. Crc

ASSUME ConfigStoreAssumption ==
  /\ Words \in Nat \ {0} /\ Setting \subseteq Nat /\ Default \in Setting
  /\ \A data \in Data : CheckSum(data) \in Nat
  /\ SyncEvery \in Nat \ {0}
  /\ MaxCommand \in Nat /\ MaxFault \in Nat /\ MaxCut \in Nat /\ MaxTorn \in Nat

VARIABLES
  flash,         \* CONFIG_AREA
  ram,           \* sysCfg
  todo,          \* what is left of the handler that runs
  writing,       \* CFG_Save's progress: 0 none, 1 the erasure, k + 1 slot k
  kept,          \* the id a factory reset has put aside
  pool, sent,    \* the configuration being downloaded, packets that have come
  rtcCnt,        \* modulo SyncEvery
  target,        \* history: what the handler is to bring about
  may,           \* history: what the tracker may be configured to
  saved,         \* history: what CFG_Save was called with
  used           \* how much of each bound is used up

vars == <<flash, ram, todo, writing, kept, pool, sent, rtcCnt, target, may, saved, used>>
history == <<target, may, saved>>

Bounds == [command |-> MaxCommand, fault |-> MaxFault, cut |-> MaxCut, torn |-> MaxTorn]
Use(kinds) == /\ \A kind \in kinds : used[kind] < Bounds[kind]
              /\ used' = [kind \in DOMAIN Bounds |->
                            IF kind \in kinds THEN used[kind] + 1 ELSE used[kind]]

Wrapped(n, size) == IF n = size THEN 0 ELSE n

DataOf(config) == [k \in 1 .. Words |-> config[k]]
With(data, crc) == [k \in Slots |-> IF k = Crc THEN crc ELSE data[k]]
Right(config) == config[Crc] = CheckSum(DataOf(config))
Erased == [k \in Slots |-> IF k = Crc THEN NoSum ELSE Blank]

(* CFG_Load: a configuration with a wrong sum is taken for blank, and each *)
(* blank word gets its default.  A word stands for what is filled in       *)
(* together, as an APN with its user and password; an empty APN counts as  *)
(* blank too, and the settings here are none of them empty.                *)
Filled(data) == [k \in 1 .. Words |-> IF data[k] = Blank THEN Default ELSE data[k]]
Checked(config) == IF Right(config) THEN config ELSE Erased

Loaded == LET config == Checked(flash) IN With(Filled(DataOf(config)), config[Crc])
Restored == Filled(DataOf(Checked(flash)))
Defaults == [k \in 1 .. Words |-> Default]
-----------------------------------------------------------------------------
(* The steps of the handlers.                                              *)
Set(k, val) == [op |-> "set", at |-> k, val |-> val]
Do(op) == [op |-> op, at |-> 0, val |-> Blank]

Steps == {Set(k, val) : k \in 1 .. Words, val \in Setting}
         \cup {Do(op) : op \in {"keep", "wipe", "restore", "load", "save", "write", "reset"}}

(* A command by SMS that sets one word; the factory reset by SMS (in which *)
(* the device is reset half a minute later) and by the server; CFG_Load    *)
(* when the resolver found no address; SMS_Manage's CFG_Save.              *)
SetWord(k, val) == <<Set(k, val), Do("save")>>
FactorySmsUnsaved == <<Do("keep"), Do("wipe"), Do("load"), Do("restore"), Do("save")>>
FactorySms == <<Do("keep"), Do("wipe"), Do("save"), Do("load"), Do("restore"), Do("save")>>
FactoryReset == <<Do("keep"), Do("wipe"), Do("restore"), Do("save"), Do("reset")>>
Reread == <<Do("load")>>
Resave == <<Do("save")>>

Init ==
  /\ \E data \in [1 .. Words -> Setting] :
       /\ flash = With(data, CheckSum(data)) /\ ram = flash /\ pool = data
       /\ target = data /\ may = {data} /\ saved = {data}
  /\ todo = <<>> /\ writing = 0 /\ kept = Default /\ sent = 0 /\ rtcCnt = 0
  /\ used = [kind \in DOMAIN Bounds |-> 0]

Idle == todo = <<>>
Torn == IF sent > 0 THEN {"torn"} ELSE {}

Command ==
  /\ Idle /\ Use({"command"} \cup Torn)
  /\ \/ \E k \in 1 .. Words, val \in Setting :
          todo' = SetWord(k, val) /\ target' = [DataOf(ram) EXCEPT ![k] = val]
     \/ /\ todo' \in {FactorySms, FactoryReset}
        /\ target' = [Defaults EXCEPT ![1] = ram[1]]
     \/ todo' \in {Reread, Resave} /\ target' = DataOf(ram)
  /\ UNCHANGED <<flash, ram, writing, kept, pool, sent, rtcCnt, may, saved>>

(* Opcode 0x0D brings the configuration in packets, the last of which has  *)
(* it saved.                                                               *)
Download ==
  /\ Idle /\ sent = 0 /\ Use({"command"})
  /\ pool' \in [1 .. Words -> Setting]
  /\ todo' = IF Words = 1 THEN SetWord(1, pool'[1]) ELSE <<Set(1, pool'[1])>>
  /\ sent' = Wrapped(1, Words) /\ target' = IF Words = 1 THEN pool' ELSE target
  /\ UNCHANGED <<flash, ram, writing, kept, rtcCnt, may, saved>>

Packet ==
  /\ Idle /\ sent > 0
  /\ LET k == sent + 1
     IN IF k = Words THEN todo' = SetWord(k, pool[k]) /\ target' = pool
        ELSE todo' = <<Set(k, pool[k])>> /\ UNCHANGED target
  /\ sent' = Wrapped(sent + 1, Words)
  /\ UNCHANGED <<flash, ram, writing, kept, pool, rtcCnt, may, saved, used>>

(* The power fails, or the device resets itself.                           *)
Restart ==
  /\ todo' = <<Do("load")>> /\ ram' = Erased /\ writing' = 0 /\ sent' = 0
  /\ kept' = Default /\ rtcCnt' = 0

Return ==
  /\ todo' = Tail(todo)
  /\ may' = IF Len(todo) = 1 /\ sent = 0 /\ target # Unknown THEN {target} ELSE may

(* One step of a handler.                                                  *)
Step ==
  /\ todo # <<>> /\ writing = 0
  /\ LET do == Head(todo)
     IN \/ /\ do.op = "set" /\ ram' = [ram EXCEPT ![do.at] = do.val] /\ Return
           /\ UNCHANGED <<flash, writing, kept, sent, rtcCnt, target, saved>>
        \/ /\ do.op = "keep" /\ kept' = ram[1] /\ Return
           /\ UNCHANGED <<flash, ram, writing, sent, rtcCnt, target, saved>>
        \/ /\ do.op = "wipe" /\ ram' = Erased /\ Return
           /\ UNCHANGED <<flash, writing, kept, sent, rtcCnt, target, saved>>
        \/ /\ do.op = "restore" /\ ram' = [ram EXCEPT ![1] = kept] /\ Return
           /\ UNCHANGED <<flash, writing, kept, sent, rtcCnt, target, saved>>
        \/ /\ do.op = "load" /\ ram' = Loaded
           /\ IF Loaded = flash THEN Return
              ELSE todo' = <<Do("save")>> \o Tail(todo) /\ UNCHANGED may
           /\ UNCHANGED <<flash, writing, kept, sent, rtcCnt, target, saved>>
        \/ /\ do.op = "save"
           /\ IF ram = flash THEN Return
              ELSE todo' = <<Do("write")>> \o Tail(todo) /\ UNCHANGED may
           /\ UNCHANGED <<flash, ram, writing, kept, sent, rtcCnt, target, saved>>
        \/ /\ do.op = "write"
           /\ ram' = With(DataOf(ram), CheckSum(DataOf(ram))) /\ writing' = 1
           /\ saved' = saved \cup {Filled(DataOf(ram))}
           /\ UNCHANGED <<flash, todo, kept, sent, rtcCnt, target, may>>
        \/ /\ do.op = "reset" /\ Restart
           /\ UNCHANGED <<flash, target, may, saved>>
  /\ UNCHANGED <<pool, used>>

(* CFG_Save with the interrupts off: the erasure, then word after word; an *)
(* erasure that fails, or a word that does not read back, ends it.         *)
WriteInPlace ==
  /\ writing > 0
  /\ IF writing = 1 THEN UNCHANGED flash
     ELSE flash' = [flash EXCEPT ![writing - 1] = ram[writing - 1]]
  /\ IF writing - 1 = Crc THEN writing' = 0 /\ Return
     ELSE writing' = writing + 1 /\ UNCHANGED <<todo, may>>
  /\ UNCHANGED <<ram, kept, pool, sent, rtcCnt, target, saved, used>>

Write ==
  /\ writing > 0
  /\ \/ /\ writing = 1 /\ flash' = Erased /\ writing' = 2
        /\ UNCHANGED <<todo, may, used>>
     \/ /\ writing > 1 /\ flash' = [flash EXCEPT ![writing - 1] = ram[writing - 1]]
        /\ IF writing - 1 = Crc THEN writing' = 0 /\ Return
           ELSE writing' = writing + 1 /\ UNCHANGED <<todo, may>>
        /\ UNCHANGED used
     \/ /\ Use({"fault"}) /\ flash' \in {flash, IF writing = 1 THEN Erased ELSE flash}
        /\ writing' = 0 /\ Return
  /\ UNCHANGED <<ram, kept, pool, sent, rtcCnt, target, saved>>

(* The interrupt of the RTC, once a second.                                *)
Tick ==
  /\ writing = 0
  /\ Use(IF Idle /\ sent = 0 THEN {} ELSE {"torn"})
  /\ rtcCnt' = Wrapped(rtcCnt + 1, SyncEvery)
  /\ ram' = IF rtcCnt' # 0 THEN flash ELSE ram
  /\ UNCHANGED <<flash, todo, writing, kept, pool, sent, target, may, saved>>

PowerCut ==
  /\ Use({"cut"}) /\ Restart
  /\ may' = IF Idle THEN may ELSE (may \cup {target, Defaults}) \ {Unknown}
  /\ target' = Unknown
  /\ UNCHANGED <<flash, pool, saved>>

Next == Command \/ Download \/ Packet \/ Step \/ Write \/ Tick \/ PowerCut

Spec == Init /\ [][Next]_vars
-----------------------------------------------------------------------------
(* What the configuration store keeps has the shape of a configuration,    *)
(* and a write in progress has its handler waiting for it.                 *)
TypeOK ==
  /\ flash \in [Slots -> Int] /\ DataOf(flash) \in Data
  /\ ram \in [Slots -> Int] /\ DataOf(ram) \in Data
  /\ todo \in Seq(Steps)
  /\ writing \in 0 .. Crc + 1 /\ (writing > 0 => todo # <<>>)
  /\ kept \in Setting \cup {Blank} /\ pool \in [1 .. Words -> Setting]
  /\ sent \in 0 .. Words - 1 /\ rtcCnt \in 0 .. SyncEvery - 1
  /\ target \in Data \cup {Unknown} /\ may \subseteq Data /\ saved \subseteq Data
  /\ DOMAIN used = DOMAIN Bounds
  /\ \A kind \in DOMAIN used : used[kind] \in 0 .. Bounds[kind]

(* What a start would find in the flash is a configuration CFG_Save was    *)
(* called with, whole, or the default one: never a part of one or a        *)
(* mixture of two, whenever the power fails, whatever does not program,    *)
(* and whatever comes into a handler.                                      *)
RestoredWasSaved == Restored \in saved \cup {Defaults}

(* Once a handler has returned, the tracker works with the configuration   *)
(* it was asked for, and would find it in the flash when it starts; after  *)
(* a cut, with the one before, the one asked for, or the default one.  (As *)
(* long as nothing has failed to program and nothing has come into it.)    *)
IdleIsAsked ==
  Idle /\ sent = 0 /\ used.fault = 0 /\ used.torn = 0
    => DataOf(ram) \in may /\ ram = flash /\ Restored = DataOf(ram)
=============================================================================
