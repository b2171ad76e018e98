------------------------- MODULE ConfigStoreProofs -------------------------
(***************************************************************************)
(* Proofs about ConfigStore, for every number of words, set of values and  *)
(* sum of the words.                                                       *)
(***************************************************************************)
EXTENDS ConfigStore, SequenceTheorems, TLAPS

Config == {config \in [Slots -> Int] : DataOf(config) \in Data}

(* A configuration in flash whose sum is right is one CFG_Save was called  *)
(* with.                                                                   *)
Intact == Right(flash) => Filled(DataOf(flash)) \in saved

(* While CFG_Save writes, sysCfg is what it was called with, and the flash *)
(* has the words written so far, the others erased, the sum among them.    *)
InProgress ==
  writing > 0 =>
    /\ Filled(DataOf(ram)) \in saved /\ ram[Crc] = CheckSum(DataOf(ram))
    /\ writing > 1 => \A k \in Slots :
         flash[k] = IF k < writing - 1 THEN ram[k] ELSE Erased[k]

Inv == TypeOK /\ Intact /\ InProgress
-----------------------------------------------------------------------------
(* The helpers on configurations return configurations.                    *)
LEMMA ErasedType == Erased \in Config /\ DataOf(Erased) = [k \in 1 .. Words |-> Blank]
  BY ConfigStoreAssumption DEF Erased, Config, DataOf, Data, Slots, Crc, Blank, NoSum

LEMMA FilledType ==
  ASSUME NEW data \in Data
  PROVE  Filled(data) \in Data
  BY ConfigStoreAssumption DEF Filled, Data

LEMMA WithType ==
  ASSUME NEW data \in Data, NEW crc \in Int
  PROVE  With(data, crc) \in Config /\ DataOf(With(data, crc)) = data
         /\ With(data, crc)[Crc] = crc
<1>1. \A k \in 1 .. Words : k \in Slots /\ k # Crc /\ data[k] \in Int
  <2>1. \A k \in 1 .. Words : data[k] \in Setting \cup {Blank}
    BY DEF Data
  <2>2. Setting \cup {Blank} \subseteq Int
    BY ConfigStoreAssumption DEF Blank
  <2>3. \A k \in 1 .. Words : k \in Slots /\ k # Crc
    BY ConfigStoreAssumption DEF Slots, Crc
  <2> QED  BY <2>1, <2>2, <2>3
<1>2. Crc \in Slots
  BY ConfigStoreAssumption DEF Slots, Crc
<1>3. \A k \in Slots : k # Crc => k \in 1 .. Words
  BY ConfigStoreAssumption DEF Slots, Crc
<1>4. With(data, crc) \in [Slots -> Int]
  BY <1>1, <1>3 DEF With
<1>5. DataOf(With(data, crc)) = data
  <2>1. data = [k \in 1 .. Words |-> data[k]]
    BY DEF Data
  <2> QED  BY <1>1, <2>1 DEF DataOf, With
<1> QED  BY <1>2, <1>4, <1>5 DEF Config, With

LEMMA SetType ==
  ASSUME NEW config \in Config, NEW k \in 1 .. Words, NEW val \in Setting \cup {Blank}
  PROVE  [config EXCEPT ![k] = val] \in Config
<1>1. k \in Slots /\ val \in Int
  BY ConfigStoreAssumption DEF Slots, Crc, Blank
<1>2. \A j \in 1 .. Words : j \in Slots /\ config[j] \in Setting \cup {Blank}
  BY ConfigStoreAssumption DEF Config, DataOf, Data, Slots, Crc
<1>3. [config EXCEPT ![k] = val] \in [Slots -> Int]
  BY <1>1 DEF Config
<1> QED  BY <1>1, <1>2, <1>3 DEF Config, DataOf, Data

LEMMA LoadedType ==
  ASSUME flash \in Config
  PROVE  Loaded \in Config
<1>1. Checked(flash) \in Config
  BY ErasedType DEF Checked
<1>2. Checked(flash)[Crc] \in Int
  BY <1>1, ConfigStoreAssumption DEF Config, Slots, Crc
<1>3. Filled(DataOf(Checked(flash))) \in Data
  BY <1>1, FilledType DEF Config
<1> QED  BY <1>2, <1>3, WithType DEF Loaded

LEMMA SumType ==
  ASSUME NEW config \in Config
  PROVE  CheckSum(DataOf(config)) \in Nat
  BY ConfigStoreAssumption DEF Config

(* The bounds.                                                             *)
UsedType == /\ DOMAIN used = DOMAIN Bounds
            /\ \A kind \in DOMAIN used : used[kind] \in 0 .. Bounds[kind]

LEMMA UseType ==
  ASSUME UsedType, NEW kinds, Use(kinds), kinds \subseteq DOMAIN Bounds
  PROVE  UsedType'
<1>1. \A kind \in DOMAIN Bounds : Bounds[kind] \in Nat
  BY ConfigStoreAssumption DEF Bounds
<1>2. DOMAIN Bounds = DOMAIN Bounds'
  BY DEF Bounds
<1> QED  BY <1>1 DEF Use, UsedType, Bounds
-----------------------------------------------------------------------------
(* The steps of the handlers.                                              *)
LEMMA StepsType ==
  /\ \A k \in 1 .. Words, val \in Setting : Set(k, val) \in Steps
  /\ \A op \in {"keep", "wipe", "restore", "load", "save", "write", "reset"} : Do(op) \in Steps
  /\ \A do \in Steps : do.op = "set" => do.at \in 1 .. Words /\ do.val \in Setting
  BY DEF Steps, Set, Do

LEMMA HandlersType ==
  /\ \A k \in 1 .. Words, val \in Setting :
       SetWord(k, val) \in Seq(Steps) /\ <<Set(k, val)>> \in Seq(Steps)
  /\ FactorySms \in Seq(Steps) /\ FactoryReset \in Seq(Steps)
  /\ Reread \in Seq(Steps) /\ Resave \in Seq(Steps) /\ <<Do("load")>> \in Seq(Steps)
<1>1. \A k \in 1 .. Words, val \in Setting :
        SetWord(k, val) \in Seq(Steps) /\ <<Set(k, val)>> \in Seq(Steps)
  BY StepsType DEF SetWord
<1>2. \A a, b, c, d, e, f \in Steps : <<a, b, c, d, e, f>> \in Seq(Steps)
  OBVIOUS
<1>3. \A a, b, c, d, e \in Steps : <<a, b, c, d, e>> \in Seq(Steps)
  OBVIOUS
<1>4. FactorySms \in Seq(Steps) /\ FactoryReset \in Seq(Steps)
  BY <1>2, <1>3, StepsType DEF FactorySms, FactoryReset
<1> QED  BY <1>1, <1>4, StepsType DEF Reread, Resave

LEMMA TodoType ==
  ASSUME todo \in Seq(Steps), todo # <<>>
  PROVE  /\ Head(todo) \in Steps /\ Tail(todo) \in Seq(Steps)
         /\ \A op \in {"save", "write"} : <<Do(op)>> \o Tail(todo) \in Seq(Steps)
                                       /\ <<Do(op)>> \o Tail(todo) # <<>>
<1>1. Head(todo) \in Steps /\ Tail(todo) \in Seq(Steps)
  OBVIOUS
<1>2. \A do \in Steps, rest \in Seq(Steps) : <<do>> \o rest \in Seq(Steps) /\ <<do>> \o rest # <<>>
  OBVIOUS
<1> QED  BY <1>1, <1>2, StepsType

LEMMA ReturnType ==
  ASSUME TypeOK, todo # <<>>, Return
  PROVE  todo' \in Seq(Steps) /\ may' \subseteq Data
<1>1. todo' \in Seq(Steps)
  BY TodoType DEF TypeOK, Return
<1>2. target # Unknown => {target} \subseteq Data
  BY DEF TypeOK
<1> QED  BY <1>1, <1>2 DEF TypeOK, Return

LEMMA TypeParts ==
  ASSUME TypeOK
  PROVE  flash \in Config /\ ram \in Config /\ UsedType
  BY DEF TypeOK, Config, UsedType

LEMMA FirstWord ==
  ASSUME NEW config \in Config
  PROVE  1 \in 1 .. Words /\ config[1] \in Setting \cup {Blank}
<1>1. 1 \in 1 .. Words
  BY ConfigStoreAssumption
<1>2. DataOf(config) \in Data /\ DataOf(config)[1] = config[1]
  BY <1>1 DEF DataOf, Config
<1> QED  BY <1>1, <1>2 DEF Data

LEMMA DefaultsType ==
  Defaults \in Data /\ \A val \in Setting \cup {Blank} : [Defaults EXCEPT ![1] = val] \in Data
  BY ConfigStoreAssumption DEF Defaults, Data
-----------------------------------------------------------------------------
LEMMA InitInv == Init => Inv
<1> SUFFICES ASSUME Init PROVE Inv
  OBVIOUS
<1>1. PICK data \in [1 .. Words -> Setting] :
        /\ flash = With(data, CheckSum(data)) /\ ram = flash /\ pool = data
        /\ target = data /\ may = {data} /\ saved = {data}
  BY DEF Init
<1>2. data \in Data
  BY DEF Data
<1>3. CheckSum(data) \in Int
  BY <1>2, ConfigStoreAssumption
<1>4. /\ flash \in Config /\ DataOf(flash) = data
  BY <1>1, <1>2, <1>3, WithType
<1>5. Filled(data) = data
  <2>1. \A k \in 1 .. Words : data[k] # Blank
    BY ConfigStoreAssumption DEF Blank
  <2> QED  BY <2>1 DEF Filled
<1>6. UsedType
  BY ConfigStoreAssumption DEF UsedType, Init, Bounds
<1>7. TypeOK
  <2>1. <<>> \in Seq(Steps)
    OBVIOUS
  <2>2. /\ writing \in 0 .. Crc + 1 /\ (writing > 0 => todo # <<>>)
        /\ sent \in 0 .. Words - 1 /\ rtcCnt \in 0 .. SyncEvery - 1
    BY ConfigStoreAssumption DEF Init, Crc
  <2> QED  BY <1>1, <1>2, <1>4, <1>6, <2>1, <2>2, ConfigStoreAssumption
           DEF TypeOK, Init, Config, UsedType
<1> QED  BY <1>1, <1>4, <1>5, <1>7 DEF Inv, Intact, InProgress, Init

LEMMA CommandInv ==
  ASSUME Inv, Command
  PROVE  Inv'
<1>1. todo' \in Seq(Steps)
  BY HandlersType DEF Command
<1>2. target' \in Data
  <2>1. ram \in Config
    BY TypeParts DEF Inv
  <2>2. \A k \in 1 .. Words, val \in Setting : [DataOf(ram) EXCEPT ![k] = val] \in Data
    BY <2>1 DEF Config, Data
  <2>3. [Defaults EXCEPT ![1] = ram[1]] \in Data /\ DataOf(ram) \in Data
    BY <2>1, FirstWord, DefaultsType DEF Config
  <2> QED  BY <2>2, <2>3 DEF Command
<1>3. UsedType'
  <2>1. {"command"} \cup Torn \subseteq DOMAIN Bounds
    BY DEF Torn, Bounds
  <2> QED  BY <2>1, UseType, TypeParts DEF Inv, Command
<1>4. writing = 0
  BY DEF Inv, TypeOK, Command, Idle
<1> QED  BY <1>1, <1>2, <1>3, <1>4 DEF Inv, TypeOK, Intact, InProgress, Command, UsedType, Right, DataOf

LEMMA PacketInv ==
  ASSUME Inv, Download \/ Packet
  PROVE  Inv'
<1>1. writing = 0 /\ Words \in Nat \ {0}
  BY ConfigStoreAssumption DEF Inv, TypeOK, Download, Packet, Idle
<1>2. pool' \in [1 .. Words -> Setting] /\ pool' \in Data
  BY DEF Inv, TypeOK, Download, Packet, Data
<1>3. sent' \in 0 .. Words - 1
  BY <1>1 DEF Inv, TypeOK, Download, Packet, Wrapped
<1>4. todo' \in Seq(Steps)
  <2>1. CASE Download
    <3>1. 1 \in 1 .. Words /\ pool'[1] \in Setting
      BY <1>1, <1>2
    <3> QED  BY <2>1, <3>1, HandlersType DEF Download
  <2>2. CASE Packet
    <3>1. sent + 1 \in 1 .. Words
      BY <1>1, <2>2 DEF Inv, TypeOK, Packet
    <3>2. pool[sent + 1] \in Setting
      BY <3>1 DEF Inv, TypeOK
    <3> QED  BY <2>2, <3>1, <3>2, HandlersType DEF Packet
  <2> QED  BY <2>1, <2>2
<1>5. target' \in Data \cup {Unknown}
  BY <1>2 DEF Inv, TypeOK, Download, Packet
<1>6. UsedType'
  <2>1. CASE Download
    BY <2>1, UseType, TypeParts DEF Inv, Download, Bounds
  <2>2. CASE Packet
    BY <2>2, TypeParts DEF Inv, Packet, UsedType, Bounds
  <2> QED  BY <2>1, <2>2
<1>7. UNCHANGED <<flash, ram, writing, kept, rtcCnt, may, saved>>
  BY DEF Download, Packet
<1>8. TypeOK'
  BY <1>1, <1>2, <1>3, <1>4, <1>5, <1>6, <1>7 DEF Inv, TypeOK, UsedType, DataOf
<1> QED  BY <1>1, <1>7, <1>8 DEF Inv, Intact, InProgress, Right, DataOf

(* A step that leaves the flash alone and does not start writing.          *)
LEMMA RamInv ==
  ASSUME Inv, writing = 0, writing' = 0, ram' \in Config, todo' \in Seq(Steps),
         may' \subseteq Data, target' \in Data \cup {Unknown}, UsedType',
         kept' \in Setting \cup {Blank}, sent' \in 0 .. Words - 1,
         rtcCnt' \in 0 .. SyncEvery - 1, UNCHANGED <<flash, pool, saved>>
  PROVE  Inv'
<1>1. TypeOK'
  <2>1. DataOf(ram') = DataOf(ram)' /\ DataOf(flash)' = DataOf(flash)
    BY DEF DataOf
  <2> QED  BY <2>1, ConfigStoreAssumption DEF Inv, TypeOK, UsedType, Config, Crc
<1> QED  BY <1>1 DEF Inv, Intact, InProgress, Right, DataOf

LEMMA RestartType ==
  ASSUME Restart
  PROVE  /\ writing' = 0 /\ ram' \in Config /\ todo' \in Seq(Steps)
         /\ kept' \in Setting \cup {Blank} /\ sent' \in 0 .. Words - 1
         /\ rtcCnt' \in 0 .. SyncEvery - 1
  BY ErasedType, HandlersType, ConfigStoreAssumption DEF Restart

LEMMA StepInv ==
  ASSUME Inv, Step
  PROVE  Inv'
<1> DEFINE do == Head(todo)
<1>0. /\ TypeOK /\ writing = 0 /\ todo # <<>> /\ UNCHANGED <<pool, used>>
      /\ flash \in Config /\ ram \in Config /\ UsedType'
  BY TypeParts DEF Inv, Step, UsedType, Bounds
<1>1. do \in Steps /\ \A op \in {"save", "write"} : <<Do(op)>> \o Tail(todo) \in Seq(Steps)
  BY <1>0, TodoType DEF TypeOK
<1>2. Return => todo' \in Seq(Steps) /\ may' \subseteq Data
  BY <1>0, ReturnType
<1>3. /\ kept \in Setting \cup {Blank} /\ sent \in 0 .. Words - 1 /\ may \subseteq Data
      /\ rtcCnt \in 0 .. SyncEvery - 1 /\ target \in Data \cup {Unknown}
  BY <1>0 DEF TypeOK
<1>4. CASE do.op = "set" /\ ram' = [ram EXCEPT ![do.at] = do.val] /\ Return
           /\ UNCHANGED <<flash, writing, kept, sent, rtcCnt, target, saved>>
  <2>1. ram' \in Config
    BY <1>0, <1>1, <1>4, StepsType, SetType
  <2> QED  BY <1>0, <1>2, <1>3, <1>4, <2>1, RamInv
<1>5. CASE do.op = "keep" /\ kept' = ram[1] /\ Return
           /\ UNCHANGED <<flash, ram, writing, sent, rtcCnt, target, saved>>
  <2>1. kept' \in Setting \cup {Blank}
    BY <1>0, <1>5, FirstWord
  <2> QED  BY <1>0, <1>2, <1>3, <1>5, <2>1, RamInv
<1>6. CASE do.op = "wipe" /\ ram' = Erased /\ Return
           /\ UNCHANGED <<flash, writing, kept, sent, rtcCnt, target, saved>>
  BY <1>0, <1>2, <1>3, <1>6, ErasedType, RamInv
<1>7. CASE do.op = "restore" /\ ram' = [ram EXCEPT ![1] = kept] /\ Return
           /\ UNCHANGED <<flash, writing, kept, sent, rtcCnt, target, saved>>
  <2>1. ram' \in Config
    BY <1>0, <1>3, <1>7, FirstWord, SetType
  <2> QED  BY <1>0, <1>2, <1>3, <1>7, <2>1, RamInv
<1>8. CASE /\ do.op = "load" /\ ram' = Loaded
           /\ IF Loaded = flash THEN Return
              ELSE todo' = <<Do("save")>> \o Tail(todo) /\ UNCHANGED may
           /\ UNCHANGED <<flash, writing, kept, sent, rtcCnt, target, saved>>
  <2>1. ram' \in Config
    BY <1>0, <1>8, LoadedType
  <2>2. todo' \in Seq(Steps) /\ may' \subseteq Data
    BY <1>1, <1>2, <1>3, <1>8
  <2> QED  BY <1>0, <1>3, <1>8, <2>1, <2>2, RamInv
<1>9. CASE /\ do.op = "save"
           /\ IF ram = flash THEN Return
              ELSE todo' = <<Do("write")>> \o Tail(todo) /\ UNCHANGED may
           /\ UNCHANGED <<flash, ram, writing, kept, sent, rtcCnt, target, saved>>
  <2>1. todo' \in Seq(Steps) /\ may' \subseteq Data
    BY <1>1, <1>2, <1>3, <1>9
  <2> QED  BY <1>0, <1>3, <1>9, <2>1, RamInv
<1>10. CASE /\ do.op = "write"
            /\ ram' = With(DataOf(ram), CheckSum(DataOf(ram))) /\ writing' = 1
            /\ saved' = saved \cup {Filled(DataOf(ram))}
            /\ UNCHANGED <<flash, todo, kept, sent, rtcCnt, target, may>>
  <2>1. DataOf(ram) \in Data /\ CheckSum(DataOf(ram)) \in Int
    BY <1>0, SumType DEF Config
  <2>2. /\ ram' \in Config /\ DataOf(ram') = DataOf(ram)
        /\ ram'[Crc] = CheckSum(DataOf(ram))
    BY <1>10, <2>1, WithType
  <2>3. Filled(DataOf(ram)) \in Data
    BY <2>1, FilledType
  <2>4. 1 \in 0 .. Crc + 1
    BY ConfigStoreAssumption DEF Crc
  <2>5. DataOf(ram)' = DataOf(ram) /\ DataOf(flash)' = DataOf(flash)
    BY <1>10, <2>2 DEF DataOf
  <2>6. TypeOK'
    BY <1>0, <1>3, <1>10, <2>2, <2>3, <2>4, <2>5 DEF TypeOK, UsedType, Config
  <2>7. Intact'
    BY <1>10, <2>5 DEF Inv, Intact, Right
  <2>8. InProgress'
    BY <1>10, <2>2, <2>5 DEF InProgress
  <2> QED  BY <2>6, <2>7, <2>8 DEF Inv
<1>11. CASE do.op = "reset" /\ Restart /\ UNCHANGED <<flash, target, may, saved>>
  BY <1>0, <1>3, <1>11, RestartType, RamInv
<1> QED
  BY <1>4, <1>5, <1>6, <1>7, <1>8, <1>9, <1>10, <1>11 DEF Step

LEMMA TickInv ==
  ASSUME Inv, Tick
  PROVE  Inv'
<1>1. UsedType'
  <2>1. {} \subseteq DOMAIN Bounds /\ {"torn"} \subseteq DOMAIN Bounds
    BY DEF Bounds
  <2> QED  BY <2>1, UseType, TypeParts DEF Inv, Tick
<1>2. ram' \in Config
  BY TypeParts DEF Inv, Tick
<1>3. rtcCnt' \in 0 .. SyncEvery - 1
  BY ConfigStoreAssumption DEF Inv, TypeOK, Tick, Wrapped
<1> QED  BY <1>1, <1>2, <1>3, RamInv DEF Inv, TypeOK, Tick

LEMMA WriteInv ==
  ASSUME Inv, Write
  PROVE  Inv'
<1>0. /\ TypeOK /\ writing > 0 /\ writing \in 1 .. Crc + 1 /\ todo # <<>> /\ Crc \in Nat \ {0}
      /\ flash \in Config /\ ram \in Config /\ UNCHANGED <<ram, kept, pool, sent, rtcCnt, target, saved>>
  BY TypeParts, ConfigStoreAssumption DEF Inv, TypeOK, Write, Crc
<1>1. Return => todo' \in Seq(Steps) /\ may' \subseteq Data
  BY <1>0, ReturnType
<1>2. /\ todo \in Seq(Steps) /\ may \subseteq Data /\ UsedType
  BY <1>0, TypeParts DEF TypeOK
<1>3. DataOf(ram)' = DataOf(ram)
  BY <1>0 DEF DataOf
<1>4. ASSUME flash' \in Config, writing' \in 0 .. Crc + 1, writing' > 0 => todo' # <<>>,
             todo' \in Seq(Steps), may' \subseteq Data, UsedType'
      PROVE  TypeOK'
  <2>1. DataOf(flash') = DataOf(flash)'
    BY DEF DataOf
  <2> QED  BY <1>0, <1>3, <1>4, <2>1 DEF TypeOK, UsedType, Config
<1>5. Erased[Crc] = NoSum /\ ~(NoSum \in Nat) /\ Crc \in Slots
  BY <1>0 DEF Erased, Slots, NoSum
<1>6. \A config \in Config : config[Crc] = NoSum => ~Right(config)
  BY <1>5, SumType DEF Right
<1>7. CASE writing = 1 /\ flash' = Erased /\ writing' = 2 /\ UNCHANGED <<todo, may, used>>
  <2>1. TypeOK'
    <3>1. flash' \in Config
      BY <1>7, ErasedType
    <3>2. UsedType'
      BY <1>2, <1>7 DEF UsedType, Bounds
    <3> QED  BY <1>0, <1>2, <1>4, <1>7, <3>1, <3>2
  <2>2. Intact'
    <3>1. ~Right(flash')
      BY <1>5, <1>6, <1>7, ErasedType
    <3> QED  BY <3>1 DEF Intact, Right, DataOf
  <2>3. InProgress'
    BY <1>0, <1>3, <1>7 DEF Inv, InProgress, Slots
  <2> QED  BY <2>1, <2>2, <2>3 DEF Inv
<1>8. CASE /\ writing > 1 /\ flash' = [flash EXCEPT ![writing - 1] = ram[writing - 1]]
           /\ IF writing - 1 = Crc THEN writing' = 0 /\ Return
              ELSE writing' = writing + 1 /\ UNCHANGED <<todo, may>>
           /\ UNCHANGED used
  <2> DEFINE at == writing - 1
  <2>1. at \in Slots
    BY <1>0, <1>8 DEF Slots
  <2>2. \A k \in Slots : flash'[k] = IF k < at + 1 THEN ram[k] ELSE Erased[k]
    <3>1. \A k \in Slots : flash[k] = IF k < at THEN ram[k] ELSE Erased[k]
      BY <1>0, <1>8 DEF Inv, InProgress
    <3>2. flash \in [Slots -> Int]
      BY <1>0 DEF Config
    <3>3. \A k \in Slots : flash'[k] = IF k = at THEN ram[k] ELSE flash[k]
      BY <1>8, <2>1, <3>2
    <3>4. \A k \in Slots : k < at + 1 <=> k < at \/ k = at
      BY <2>1 DEF Slots
    <3> QED  BY <3>1, <3>3, <3>4
  <2>3. flash' \in Config
    <3>1. flash' \in [Slots -> Int]
      BY <1>0, <1>8, <2>1 DEF Config
    <3>2. \A k \in 1 .. Words : /\ k \in Slots /\ ram[k] \in Setting \cup {Blank}
                                /\ Erased[k] \in Setting \cup {Blank}
      <4>1. \A k \in 1 .. Words : k \in Slots
        BY ConfigStoreAssumption DEF Slots, Crc
      <4>2. \A config \in Config, k \in 1 .. Words : config[k] \in Setting \cup {Blank}
        BY DEF Config, DataOf, Data
      <4> QED  BY <1>0, ErasedType, <4>1, <4>2
    <3>3. \A k \in 1 .. Words : flash'[k] \in Setting \cup {Blank}
      BY <2>2, <3>2
    <3> QED  BY <3>1, <3>3 DEF Config, DataOf, Data
  <2>4. TypeOK'
    <3>1. UsedType'
      BY <1>2, <1>8 DEF UsedType, Bounds
    <3>2. writing' \in 0 .. Crc + 1 /\ (writing' > 0 => todo' # <<>>)
      BY <1>0, <1>8
    <3>3. todo' \in Seq(Steps) /\ may' \subseteq Data
      BY <1>1, <1>2, <1>8
    <3> QED  BY <1>4, <2>3, <3>1, <3>2, <3>3
  <2>5. CASE at = Crc
    <3>1. \A k \in Slots : flash'[k] = ram[k]
      BY <1>0, <2>2, <2>5 DEF Slots
    <3>2. DataOf(flash)' = DataOf(ram)
      <4>1. \A k \in 1 .. Words : k \in Slots
        BY ConfigStoreAssumption DEF Slots, Crc
      <4> QED  BY <3>1, <4>1 DEF DataOf
    <3>3. Filled(DataOf(ram)) \in saved
      BY <1>0 DEF Inv, InProgress
    <3>4. Intact' /\ InProgress'
      BY <1>0, <1>8, <2>5, <3>2, <3>3 DEF Intact, InProgress
    <3> QED  BY <2>4, <3>4 DEF Inv
  <2>6. CASE at # Crc
    <3>1. flash'[Crc] = NoSum
      BY <1>0, <1>5, <2>1, <2>2, <2>6 DEF Slots
    <3>2. ~Right(flash')
      BY <1>6, <2>3, <3>1
    <3>3. Intact'
      BY <3>2 DEF Intact, Right, DataOf
    <3>4. writing' = at + 2 /\ at + 2 - 1 = at + 1
      BY <1>0, <1>8, <2>6
    <3>5. InProgress'
      BY <1>0, <1>3, <2>2, <3>4 DEF Inv, InProgress
    <3> QED  BY <2>4, <3>3, <3>5 DEF Inv
  <2> QED  BY <2>5, <2>6
<1>9. CASE /\ Use({"fault"}) /\ flash' \in {flash, IF writing = 1 THEN Erased ELSE flash}
           /\ writing' = 0 /\ Return
  <2>1. flash' \in Config /\ (flash' = flash \/ flash' = Erased)
    BY <1>0, <1>9, ErasedType
  <2>2. TypeOK'
    <3>1. UsedType'
      <4>1. {"fault"} \subseteq DOMAIN Bounds
        BY DEF Bounds
      <4> QED  BY <1>2, <1>9, <4>1, UseType
    <3> QED  BY <1>0, <1>1, <1>4, <1>9, <2>1, <3>1
  <2>3. ~Right(Erased)
    BY <1>5, <1>6, ErasedType
  <2>4. Intact'
    BY <1>0, <2>1, <2>3 DEF Inv, Intact, Right, DataOf
  <2>5. InProgress'
    BY <1>9 DEF InProgress
  <2> QED  BY <2>2, <2>4, <2>5 DEF Inv
<1> QED  BY <1>7, <1>8, <1>9 DEF Write

LEMMA PowerCutInv ==
  ASSUME Inv, PowerCut
  PROVE  Inv'
<1>1. UsedType'
  <2>1. {"cut"} \subseteq DOMAIN Bounds
    BY DEF Bounds
  <2> QED  BY <2>1, UseType, TypeParts DEF Inv, PowerCut
<1>2. may' \subseteq Data
  BY DefaultsType DEF Inv, TypeOK, PowerCut
<1>3. target' = Unknown /\ UNCHANGED <<flash, pool, saved>> /\ Restart
  BY DEF PowerCut
<1>4. TypeOK'
  <2>1. DataOf(ram') = DataOf(ram)' /\ DataOf(flash)' = DataOf(flash)
    BY <1>3 DEF DataOf
  <2>2. 0 \in 0 .. Crc + 1
    BY ConfigStoreAssumption DEF Crc
  <2> QED  BY <1>1, <1>2, <1>3, <2>1, <2>2, RestartType DEF Inv, TypeOK, UsedType, Config
<1> QED  BY <1>3, <1>4, RestartType DEF Inv, Intact, InProgress, Right, DataOf
-----------------------------------------------------------------------------
LEMMA StutterInv ==
  ASSUME Inv, UNCHANGED vars
  PROVE  Inv'
  BY DEF Inv, TypeOK, Intact, InProgress, Right, DataOf, vars, Bounds

(* The invariant is kept by every step: what the flash promises, and how   *)
(* far CFG_Save has come.                                                  *)
THEOREM Invariant == Spec => []Inv
<1>1. Inv /\ [Next]_vars => Inv'
  <2> SUFFICES ASSUME Inv, [Next]_vars PROVE Inv'
    OBVIOUS
  <2> QED
    BY CommandInv, PacketInv, StepInv, WriteInv, TickInv, PowerCutInv, StutterInv DEF Next
<1> QED  BY InitInv, <1>1, PTL DEF Spec

(* The configuration store has its types.                                  *)
THEOREM TypeCorrect == Spec => []TypeOK
<1>1. Inv => TypeOK
  BY DEF Inv
<1> QED  BY <1>1, Invariant, PTL

(* What a start finds in the flash (CFG_Load) is a configuration CFG_Save  *)
(* was called with, whole, or the default one.                             *)
THEOREM AlwaysRestored == Spec => []RestoredWasSaved
<1>1. Inv => RestoredWasSaved
  <2> SUFFICES ASSUME Inv PROVE RestoredWasSaved
    OBVIOUS
  <2>1. CASE Right(flash)
    BY <2>1 DEF Inv, Intact, RestoredWasSaved, Restored, Checked
  <2>2. CASE ~Right(flash)
    <3>1. Restored = Defaults
      BY <2>2, ErasedType DEF Restored, Checked, Filled, Defaults
    <3> QED  BY <3>1 DEF RestoredWasSaved
  <2> QED  BY <2>1, <2>2
<1> QED  BY <1>1, Invariant, PTL
-----------------------------------------------------------------------------
(***************************************************************************)
(* IdleIsAsked.  As long as nothing has failed to program and nothing has  *)
(* come into a handler, what is left of it, run on what sysCfg, the flash  *)
(* and the id put aside hold, brings about the target: one disjunct for    *)
(* each point a handler can be at.                                         *)
(***************************************************************************)
Clean == used.fault = 0 /\ used.torn = 0

Full == [1 .. Words -> Setting]
NoWords == [k \in 1 .. Words |-> Blank]

(* The flash is a configuration without blanks, which a start would find.  *)
Sound == DataOf(flash) \in Full /\ Restored = DataOf(flash)

(* The configuration the handler may end with.                             *)
Goal(data) == IF target = Unknown THEN data \in may ELSE data = target

(* The defaults with the id val.                                           *)
Factory(val) == [Defaults EXCEPT ![1] = val]

Resting == todo = <<>> /\ sent = 0 /\ ram = flash /\ Sound /\ Restored \in may

(* A download of whose packets n have been stored.                         *)
Downloading ==
  /\ sent > 0 /\ Sound /\ Restored \in may
  /\ \E n \in 0 .. sent :
       /\ \/ todo = <<>> /\ n = sent
          \/ todo = <<Set(sent, pool[sent])>> /\ n = sent - 1
       /\ DataOf(ram) = [k \in 1 .. Words |-> IF k <= n THEN pool[k] ELSE flash[k]]

Changing ==
  /\ sent = 0 /\ Sound /\ DataOf(ram) \in Full
  /\ \E k \in 1 .. Words, val \in Setting :
       todo = SetWord(k, val) /\ target = [DataOf(ram) EXCEPT ![k] = val]

(* The last write of a handler, and CFG_Load at a start.                   *)
Saving ==
  /\ sent = 0 /\ DataOf(ram) \in Full /\ Goal(DataOf(ram))
  /\ \/ todo = <<Do("save")>> /\ (ram = flash => Sound)
     \/ todo = <<Do("write")>>

Starting == sent = 0 /\ todo = <<Do("load")>> /\ Goal(Restored)

(* The factory reset by SMS, ...                                           *)
ResettingSms ==
  /\ sent = 0
  /\ \/ /\ todo = <<Do("keep"), Do("wipe"), Do("save"), Do("load"), Do("restore"), Do("save")>>
        /\ ram[1] \in Setting /\ target = Factory(ram[1])
     \/ /\ kept \in Setting /\ target = Factory(kept)
        /\ \/ todo = <<Do("wipe"), Do("save"), Do("load"), Do("restore"), Do("save")>>
           \/ /\ todo = <<Do("save"), Do("load"), Do("restore"), Do("save")>>
              /\ DataOf(ram) = NoWords
           \/ /\ todo = <<Do("write"), Do("load"), Do("restore"), Do("save")>>
              /\ DataOf(ram) = NoWords
           \/ /\ todo = <<Do("load"), Do("restore"), Do("save")>> /\ Restored = Defaults
           \/ /\ todo = <<Do("save"), Do("restore"), Do("save")>>
              /\ DataOf(ram) = Defaults /\ (ram = flash => Sound)
           \/ /\ todo = <<Do("write"), Do("restore"), Do("save")>>
              /\ DataOf(ram) = Defaults
           \/ /\ todo = <<Do("restore"), Do("save")>> /\ DataOf(ram) = Defaults /\ Sound

(* ... and the one by the server.                                          *)
Resetting ==
  /\ sent = 0
  /\ \/ /\ todo = <<Do("keep"), Do("wipe"), Do("restore"), Do("save"), Do("reset")>>
        /\ ram[1] \in Setting /\ target = Factory(ram[1]) /\ Sound
     \/ /\ kept \in Setting /\ target = Factory(kept)
        /\ \/ todo = <<Do("wipe"), Do("restore"), Do("save"), Do("reset")>> /\ Sound
           \/ /\ todo = <<Do("restore"), Do("save"), Do("reset")>>
              /\ DataOf(ram) = NoWords /\ Sound
           \/ /\ todo = <<Do("save"), Do("reset")>>
              /\ Filled(DataOf(ram)) = target /\ Sound
           \/ /\ todo = <<Do("write"), Do("reset")>> /\ Filled(DataOf(ram)) = target
           \/ /\ todo = <<Do("reset")>> /\ Restored = target

(* A start would find the configuration of before, the one asked for or    *)
(* the default one.                                                        *)
Known == Restored \in may \cup {target, Defaults}

OnTrack ==
  Clean => /\ Resting \/ Downloading \/ Changing \/ Saving \/ Starting
              \/ ResettingSms \/ Resetting
           /\ Known
           /\ writing > 0 => Head(todo) = Do("write")
-----------------------------------------------------------------------------
(* The helpers on configurations without blanks.                           *)
LEMMA FullType ==
  ASSUME NEW data \in Full
  PROVE  data \in Data /\ Filled(data) = data /\ data # Unknown
<1>1. \A k \in 1 .. Words : data[k] # Blank
  BY ConfigStoreAssumption DEF Full, Blank
<1>2. Filled(data) = data
  BY <1>1 DEF Filled, Full
<1>3. data # Unknown
  <2>1. DOMAIN data = 1 .. Words /\ 1 \in 1 .. Words
    BY ConfigStoreAssumption DEF Full
  <2>2. Len(Unknown) = 0 /\ DOMAIN Unknown = 1 .. 0
    BY DEF Unknown
  <2>3. ~(1 \in 1 .. 0)
    OBVIOUS
  <2> QED  BY <2>1, <2>2, <2>3
<1> QED  BY <1>2, <1>3 DEF Full, Data

LEMMA FilledFull ==
  ASSUME NEW data \in Data
  PROVE  Filled(data) \in Full
  BY ConfigStoreAssumption DEF Filled, Data, Full

LEMMA RestoredFull ==
  ASSUME flash \in Config
  PROVE  Restored \in Full /\ DataOf(Loaded) = Restored
<1>1. Checked(flash) \in Config
  BY ErasedType DEF Checked
<1>2. Checked(flash)[Crc] \in Int /\ DataOf(Checked(flash)) \in Data
  BY <1>1, ConfigStoreAssumption DEF Config, Slots, Crc
<1>3. Restored \in Full
  BY <1>2, FilledFull DEF Restored
<1>4. Filled(DataOf(Checked(flash))) \in Data
  BY <1>2, FilledType
<1> QED  BY <1>2, <1>3, <1>4, WithType DEF Loaded, Restored

(* A blank configuration is filled with the defaults, one that has only    *)
(* its id left gets the others.                                            *)
LEMMA FactoryFilled ==
  /\ NoWords \in Data /\ Filled(NoWords) = Defaults /\ Defaults \in Full
  /\ \A val \in Setting : /\ Factory(val) \in Full
                          /\ Filled([NoWords EXCEPT ![1] = val]) = Factory(val)
<1>1. 1 \in 1 .. Words /\ Default \in Setting /\ \A val \in Setting : val # Blank
  BY ConfigStoreAssumption DEF Blank
<1>2. NoWords \in Data /\ Filled(NoWords) = Defaults /\ Defaults \in Full
  BY <1>1 DEF NoWords, Data, Filled, Defaults, Full
<1>3. ASSUME NEW val \in Setting
      PROVE  /\ Factory(val) \in Full
             /\ Filled([NoWords EXCEPT ![1] = val]) = Factory(val)
  BY <1>1 DEF NoWords, Filled, Defaults, Full, Factory
<1> QED  BY <1>2, <1>3

LEMMA DataOfSet ==
  ASSUME NEW config \in Config, NEW k \in 1 .. Words, NEW val
  PROVE  DataOf([config EXCEPT ![k] = val]) = [DataOf(config) EXCEPT ![k] = val]
<1>1. \A j \in 1 .. Words : j \in Slots
  BY ConfigStoreAssumption DEF Slots, Crc
<1>2. \A j \in 1 .. Words : [config EXCEPT ![k] = val][j] = IF j = k THEN val ELSE config[j]
  BY <1>1 DEF Config
<1>3. DataOf([config EXCEPT ![k] = val]) = [j \in 1 .. Words |-> IF j = k THEN val ELSE config[j]]
  BY ONLY <1>2 DEF DataOf
<1>4. [DataOf(config) EXCEPT ![k] = val] = [j \in 1 .. Words |-> IF j = k THEN val ELSE config[j]]
  <2>1. /\ DataOf(config) \in [1 .. Words -> Setting \cup {Blank}]
        /\ \A j \in 1 .. Words : DataOf(config)[j] = config[j]
    BY DEF DataOf, Config, Data
  <2> QED  BY <2>1
<1> QED  BY ONLY <1>3, <1>4

(* A step that leaves the flash alone.                                     *)
LEMMA FlashSame ==
  ASSUME flash' = flash
  PROVE  Restored' = Restored /\ Sound' = Sound
  BY DEF Restored, Sound, Checked, Right, DataOf

(* A handler's step is done: the last one has the tracker configured.      *)
LEMMA Returns ==
  ASSUME Return, todo \in Seq(Steps), todo # <<>>
  PROVE  /\ todo' = Tail(todo)
         /\ Len(todo) # 1 \/ sent # 0 => may' = may
         /\ Len(todo) = 1 /\ sent = 0 => \A data : Goal(data) => data \in may'
  BY DEF Return, Goal

LEMMA Tuples ==
  /\ \A a : /\ Head(<<a>>) = a /\ Tail(<<a>>) = <<>> /\ Len(<<a>>) = 1
            /\ <<a>> # <<>>
  /\ \A a, b : /\ Head(<<a, b>>) = a /\ Tail(<<a, b>>) = <<b>> /\ Len(<<a, b>>) = 2
               /\ <<a, b>> # <<>>
  /\ \A a, b, c : /\ Head(<<a, b, c>>) = a /\ Tail(<<a, b, c>>) = <<b, c>>
                  /\ Len(<<a, b, c>>) = 3 /\ <<a, b, c>> # <<>>
  /\ \A a, b, c, d : /\ Head(<<a, b, c, d>>) = a /\ Tail(<<a, b, c, d>>) = <<b, c, d>>
                     /\ Len(<<a, b, c, d>>) = 4 /\ <<a, b, c, d>> # <<>>
  /\ \A a, b, c, d, e : /\ Head(<<a, b, c, d, e>>) = a
                        /\ Tail(<<a, b, c, d, e>>) = <<b, c, d, e>>
                        /\ Len(<<a, b, c, d, e>>) = 5 /\ <<a, b, c, d, e>> # <<>>
  /\ \A a, b, c, d, e, f : /\ Head(<<a, b, c, d, e, f>>) = a
                           /\ Tail(<<a, b, c, d, e, f>>) = <<b, c, d, e, f>>
                           /\ Len(<<a, b, c, d, e, f>>) = 6
                           /\ <<a, b, c, d, e, f>> # <<>>
  OBVIOUS
-----------------------------------------------------------------------------
LEMMA InitTrack == Init => OnTrack
<1> SUFFICES ASSUME Init PROVE OnTrack
  OBVIOUS
<1>1. PICK data \in [1 .. Words -> Setting] :
        /\ flash = With(data, CheckSum(data)) /\ ram = flash
        /\ target = data /\ may = {data}
  BY DEF Init
<1>2. data \in Full /\ data \in Data /\ Filled(data) = data
  BY FullType DEF Full
<1>3. CheckSum(data) \in Int
  BY <1>2, ConfigStoreAssumption
<1>4. DataOf(flash) = data /\ flash[Crc] = CheckSum(data)
  BY <1>1, <1>2, <1>3, WithType
<1>5. Restored = data
  BY <1>2, <1>4 DEF Restored, Checked, Right
<1>6. Resting
  BY <1>1, <1>2, <1>4, <1>5 DEF Resting, Sound, Init
<1> QED  BY <1>1, <1>5, <1>6 DEF OnTrack, Known, Init

(* With nothing at work the tracker is resting, or between two packets.    *)
LEMMA IdleTrack ==
  ASSUME OnTrack, Clean, Idle
  PROVE  Resting \/ (Downloading /\ sent # 0)
<1>1. \A a, b, c, d, e, f : /\ <<>> # <<a>> /\ <<>> # <<a, b>> /\ <<>> # <<a, b, c>>
                           /\ <<>> # <<a, b, c, d>> /\ <<>> # <<a, b, c, d, e>>
                           /\ <<>> # <<a, b, c, d, e, f>>
  OBVIOUS
<1>2. ~Changing
  BY <1>1 DEF Idle, Changing, SetWord
<1>3. ~Saving /\ ~Starting
  BY <1>1 DEF Idle, Saving, Starting
<1>4. ~ResettingSms
  BY <1>1 DEF Idle, ResettingSms
<1>5. ~Resetting
  BY <1>1 DEF Idle, Resetting
<1>6. Downloading => sent # 0
  BY DEF Downloading
<1> QED  BY <1>2, <1>3, <1>4, <1>5, <1>6 DEF OnTrack, Known

LEMMA CommandTrack ==
  ASSUME Inv, OnTrack, Command
  PROVE  OnTrack'
<1> SUFFICES ASSUME Clean' PROVE OnTrack'
  BY DEF OnTrack, Known
<1>0. /\ TypeOK /\ ram \in Config /\ flash \in Config /\ writing = 0 /\ Idle
      /\ UNCHANGED <<flash, ram, writing, kept, pool, sent, may, saved>>
  BY TypeParts DEF Inv, TypeOK, Command, Idle
<1>1. Clean /\ Torn = {}
  <2>1. /\ used.fault \in Nat /\ used.torn \in Nat
        /\ used'.fault = used.fault /\ used'.torn = used.torn + (IF sent > 0 THEN 1 ELSE 0)
    BY <1>0, ConfigStoreAssumption DEF Command, Use, Torn, Bounds, TypeOK
  <2>2. sent \in Nat
    BY <1>0, ConfigStoreAssumption DEF TypeOK
  <2> QED  BY <2>1, <2>2 DEF Clean, Torn
<1>2. Resting /\ Sound /\ sent = 0 /\ DataOf(ram) = Restored /\ DataOf(ram) \in Full
  BY <1>0, <1>1, IdleTrack DEF Resting, Sound, Torn, Downloading
<1>3. /\ Sound' /\ Restored' = Restored /\ DataOf(ram)' = DataOf(ram) /\ sent' = 0
      /\ Restored' \in may'
  BY <1>0, <1>2, FlashSame DEF DataOf, Resting
<1>4. CASE \E k \in 1 .. Words, val \in Setting :
             todo' = SetWord(k, val) /\ target' = [DataOf(ram) EXCEPT ![k] = val]
  <2>1. Changing'
    BY <1>2, <1>3, <1>4 DEF Changing
  <2> QED  BY <1>0, <1>3, <2>1 DEF OnTrack, Known
<1>5. CASE todo' \in {FactorySms, FactoryReset} /\ target' = [Defaults EXCEPT ![1] = ram[1]]
  <2>1. ram'[1] \in Setting /\ target' = Factory(ram'[1])
    <3>1. 1 \in 1 .. Words /\ DataOf(ram)[1] = ram[1]
      BY ConfigStoreAssumption DEF DataOf
    <3> QED  BY <1>0, <1>2, <1>5, <3>1 DEF Full, Factory
  <2>2. CASE todo' = FactorySms
    BY <1>0, <1>3, <2>1, <2>2 DEF OnTrack, Known, ResettingSms, FactorySms
  <2>3. CASE todo' = FactoryReset
    BY <1>0, <1>3, <2>1, <2>3 DEF OnTrack, Known, Resetting, FactoryReset
  <2> QED  BY <1>5, <2>2, <2>3
<1>6. CASE todo' \in {Reread, Resave} /\ target' = DataOf(ram)
  <2>1. target' # Unknown
    BY <1>2, <1>6, FullType
  <2>2. CASE todo' = Reread
    BY <1>0, <1>2, <1>3, <1>6, <2>1, <2>2 DEF OnTrack, Known, Starting, Reread, Goal
  <2>3. CASE todo' = Resave
    BY <1>0, <1>2, <1>3, <1>6, <2>1, <2>3 DEF OnTrack, Known, Saving, Resave, Goal
  <2> QED  BY <1>6, <2>2, <2>3
<1> QED  BY <1>4, <1>5, <1>6 DEF Command

LEMMA PacketTrack ==
  ASSUME Inv, OnTrack, Download \/ Packet
  PROVE  OnTrack'
<1> SUFFICES ASSUME Clean' PROVE OnTrack'
  BY DEF OnTrack, Known
<1>0. /\ TypeOK /\ ram \in Config /\ flash \in Config /\ writing = 0 /\ Idle
      /\ UNCHANGED <<flash, ram, writing, kept, may, saved>>
      /\ Words \in Nat \ {0} /\ sent \in 0 .. Words - 1
  BY TypeParts, ConfigStoreAssumption DEF Inv, TypeOK, Download, Packet, Idle
<1>1. Clean
  BY <1>0 DEF Clean, Download, Packet, Use, Bounds
<1>2. Resting \/ (Downloading /\ sent # 0)
  BY <1>0, <1>1, IdleTrack
<1>3. /\ Sound /\ Restored \in may /\ Sound' /\ Restored' = Restored /\ Restored' \in may'
      /\ DataOf(ram)' = DataOf(ram) /\ DataOf(flash) \in Full
  BY <1>0, <1>2, FlashSame DEF DataOf, Resting, Downloading, Sound
<1> DEFINE k == sent + 1
<1>4. /\ k \in 1 .. Words /\ pool' \in Full /\ pool'[k] \in Setting
      /\ sent' = IF k = Words THEN 0 ELSE k
      /\ DataOf(ram) = [j \in 1 .. Words |-> IF j < k THEN pool'[j] ELSE flash[j]]
  <2>1. CASE Download
    <3>1. sent = 0 /\ pool' \in Full /\ k = 1
      BY <2>1 DEF Download, Full
    <3>2. DataOf(ram) = [j \in 1 .. Words |-> IF j < k THEN pool'[j] ELSE flash[j]]
      BY <1>2, <3>1 DEF Resting, DataOf
    <3>3. sent' = IF k = Words THEN 0 ELSE k
      BY <2>1, <3>1 DEF Download, Wrapped
    <3> QED  BY <1>0, <3>1, <3>2, <3>3 DEF Full
  <2>2. CASE Packet
    <3>1. sent > 0 /\ pool' = pool /\ Downloading /\ todo = <<>>
      BY <1>2, <2>2 DEF Packet, Resting, Idle
    <3>2. pool \in Full /\ k \in 1 .. Words
      BY <1>0, <3>1 DEF TypeOK, Full
    <3>3. \A a : <<>> # <<a>>
      OBVIOUS
    <3>4. DataOf(ram) = [j \in 1 .. Words |-> IF j <= sent THEN pool[j] ELSE flash[j]]
      BY <3>1, <3>3 DEF Downloading
    <3>5. \A j \in 1 .. Words : j <= sent <=> j < k
      BY <1>0
    <3>6. sent' = IF k = Words THEN 0 ELSE k
      BY <2>2 DEF Packet, Wrapped
    <3> QED  BY <3>1, <3>2, <3>4, <3>5, <3>6 DEF Full
  <2> QED  BY <2>1, <2>2
<1>5. CASE k = Words
  <2>1. todo' = SetWord(k, pool'[k]) /\ target' = pool'
    BY <1>0, <1>5 DEF Download, Packet
  <2>2. pool' = [DataOf(ram) EXCEPT ![k] = pool'[k]]
    BY <1>0, <1>4, <1>5 DEF Full
  <2>3. DataOf(ram) \in Full
    <3>1. \A j \in 1 .. Words : pool'[j] \in Setting /\ flash[j] \in Setting
      BY <1>3, <1>4 DEF Full, DataOf
    <3> QED  BY <1>4, <3>1 DEF Full
  <2> HIDE DEF k
  <2> QED  BY <1>0, <1>3, <1>4, <1>5, <2>1, <2>2, <2>3 DEF OnTrack, Known, Changing
<1>6. CASE k # Words
  <2>1. todo' = <<Set(k, pool'[k])>> /\ sent' = k /\ k > 0
    BY <1>0, <1>4, <1>6 DEF Download, Packet
  <2>2. \A j \in 1 .. Words : j <= k - 1 <=> j < k
    BY <1>0
  <2>3. DataOf(ram)' = [j \in 1 .. Words |-> IF j <= k - 1 THEN pool'[j] ELSE flash'[j]]
    BY <1>0, <1>3, <1>4, <2>2
  <2>4. k - 1 \in 0 .. sent'
    BY <1>4, <2>1
  <2> HIDE DEF k
  <2>5. Downloading'
    BY <1>3, <2>1, <2>3, <2>4 DEF Downloading
  <2> QED  BY <1>0, <1>3, <2>5 DEF OnTrack, Known
<1> QED  BY <1>5, <1>6

LEMMA TickTrack ==
  ASSUME Inv, OnTrack, Tick
  PROVE  OnTrack'
<1> SUFFICES ASSUME Clean' PROVE OnTrack'
  BY DEF OnTrack, Known
<1>0. /\ TypeOK /\ writing = 0 /\ UNCHANGED <<flash, todo, writing, kept, pool, sent, target, may>>
  BY DEF Inv, Tick
<1>1. Clean /\ Idle /\ sent = 0
  <2>1. used.fault \in Nat /\ used.torn \in Nat
    BY <1>0, ConfigStoreAssumption DEF TypeOK, Bounds
  <2>2. sent \in Nat
    BY <1>0, ConfigStoreAssumption DEF TypeOK
  <2>3. CASE Idle /\ sent = 0
    BY <2>3 DEF Tick, Use, Clean, Bounds
  <2>4. CASE ~(Idle /\ sent = 0)
    <3>1. used'.torn = used.torn + 1
      BY <2>4 DEF Tick, Use, Bounds
    <3> QED  BY <2>1, <3>1 DEF Clean
  <2> QED  BY <2>3, <2>4
<1>2. Resting
  BY <1>1, IdleTrack
<1>3. ram' = ram
  BY <1>2 DEF Tick, Resting
<1>4. Restored' = Restored /\ Sound' = Sound
  BY <1>0, FlashSame
<1>5. Resting' /\ Restored' \in may'
  BY <1>0, <1>2, <1>3, <1>4 DEF Resting
<1> QED  BY <1>0, <1>5 DEF OnTrack, Known

LEMMA CutTrack ==
  ASSUME Inv, OnTrack, PowerCut
  PROVE  OnTrack'
<1> SUFFICES ASSUME Clean' PROVE OnTrack'
  BY DEF OnTrack, Known
<1>0. /\ TypeOK /\ flash \in Config /\ Restart /\ flash' = flash /\ target' = Unknown
  BY TypeParts DEF Inv, PowerCut
<1>1. Clean
  BY DEF Clean, PowerCut, Use, Bounds
<1>2. Restored \in Full /\ Restored # Unknown
  BY <1>0, RestoredFull, FullType
<1>3. Restored \in may'
  <2>1. CASE Idle
    <3>1. Restored \in may
      BY <1>1, <2>1, IdleTrack DEF Resting, Downloading
    <3> QED  BY <2>1, <3>1 DEF PowerCut
  <2>2. CASE ~Idle
    BY <1>1, <1>2, <2>2 DEF OnTrack, Known, PowerCut
  <2> QED  BY <2>1, <2>2
<1>4. Restored' = Restored
  BY <1>0, FlashSame
<1>5. sent' = 0 /\ todo' = <<Do("load")>> /\ writing' = 0
  BY <1>0 DEF Restart
<1>6. Starting'
  BY <1>0, <1>3, <1>4, <1>5 DEF Starting, Goal
<1> QED  BY <1>3, <1>4, <1>5, <1>6 DEF OnTrack, Known

LEMMA Operations ==
  /\ \A op, other : (Do(op) = Do(other)) <=> (op = other)
  /\ \A op : Do(op).op = op
  /\ \A k, val : Set(k, val).op = "set" /\ Set(k, val).at = k /\ Set(k, val).val = val
  BY DEF Do, Set

(* Where a handler is that has CFG_Save write.                             *)
LEMMA AtWrite ==
  ASSUME Inv, OnTrack, Clean, writing > 0
  PROVE  /\ sent = 0
         /\ \/ todo = <<Do("write")>> /\ DataOf(ram) \in Full /\ Goal(DataOf(ram))
            \/ /\ todo = <<Do("write"), Do("load"), Do("restore"), Do("save")>>
               /\ kept \in Setting /\ target = Factory(kept) /\ DataOf(ram) = NoWords
            \/ /\ todo = <<Do("write"), Do("restore"), Do("save")>>
               /\ kept \in Setting /\ target = Factory(kept) /\ DataOf(ram) = Defaults
            \/ /\ todo = <<Do("write"), Do("reset")>>
               /\ kept \in Setting /\ target = Factory(kept) /\ Filled(DataOf(ram)) = target
<1>1. Head(todo).op = "write" /\ todo # <<>>
  BY Operations DEF OnTrack, Known, Inv, TypeOK
<1>2. ~Resting
  BY <1>1 DEF Resting
<1>3. ~Downloading
  BY <1>1, Tuples, Operations DEF Downloading
<1>4. ~Changing
  BY <1>1, Tuples, Operations DEF Changing, SetWord
<1>5. ~Starting
  BY <1>1, Tuples, Operations DEF Starting
<1>6. CASE Saving
  <2>1. todo # <<Do("save")>>
    BY <1>1, Tuples, Operations
  <2> QED  BY <1>6, <2>1 DEF Saving
<1>7. CASE ResettingSms
  <2>1. \A op, a, b, c, d, e : op # "write" =>
          /\ todo # <<Do(op), a, b, c, d, e>> /\ todo # <<Do(op), a, b, c, d>>
          /\ todo # <<Do(op), a, b, c>> /\ todo # <<Do(op), a, b>> /\ todo # <<Do(op), a>>
    BY <1>1, Tuples, Operations
  <2> QED  BY <1>7, <2>1 DEF ResettingSms
<1>8. CASE Resetting
  <2>1. \A op, a, b, c, d : op # "write" =>
          /\ todo # <<Do(op), a, b, c, d>> /\ todo # <<Do(op), a, b, c>>
          /\ todo # <<Do(op), a, b>> /\ todo # <<Do(op), a>> /\ todo # <<Do(op)>>
    BY <1>1, Tuples, Operations
  <2> QED  BY <1>8, <2>1 DEF Resetting
<1> QED  BY <1>2, <1>3, <1>4, <1>5, <1>6, <1>7, <1>8 DEF OnTrack, Known

(* A flash whose sum has not been written is taken for blank; one whose    *)
(* sum is right is what it says.                                           *)
LEMMA Reading ==
  ASSUME NEW config \in Config
  PROVE  /\ config[Crc] = NoSum => Filled(DataOf(Checked(config))) = Defaults
         /\ Right(config) => Filled(DataOf(Checked(config))) = Filled(DataOf(config))
<1>1. CASE config[Crc] = NoSum
  <2>1. ~(NoSum \in Nat)
    BY DEF NoSum
  <2>2. ~Right(config)
    BY <1>1, <2>1, SumType DEF Right
  <2>3. Checked(config) = Erased /\ DataOf(Erased) = NoWords
    BY <2>2, ErasedType DEF Checked, NoWords
  <2>4. Filled(DataOf(Checked(config))) = Defaults /\ ~Right(config)
    BY <2>2, <2>3, FactoryFilled
  <2> QED  BY <2>4
<1>2. CASE config[Crc] # NoSum
  BY <1>2 DEF Checked
<1> QED  BY <1>1, <1>2

LEMMA WriteTrack ==
  ASSUME Inv, OnTrack, Write
  PROVE  OnTrack'
<1> SUFFICES ASSUME Clean' PROVE OnTrack'
  BY DEF OnTrack, Known
<1>0. /\ TypeOK /\ ram \in Config /\ flash \in Config /\ writing \in 1 .. Crc + 1
      /\ UNCHANGED <<ram, kept, pool, sent, rtcCnt, target>> /\ Crc \in Nat \ {0}
      /\ todo \in Seq(Steps) /\ todo # <<>> /\ DataOf(ram)' = DataOf(ram)
  BY TypeParts, ConfigStoreAssumption DEF Inv, TypeOK, Write, Crc, DataOf
<1>1. Clean /\ used' = used
  <2>1. used.fault \in Nat
    BY <1>0, ConfigStoreAssumption DEF TypeOK, Bounds
  <2>2. CASE UNCHANGED used
    BY <2>2 DEF Clean
  <2>3. CASE Use({"fault"})
    <3>1. used'.fault = used.fault + 1
      BY <2>3 DEF Use, Bounds
    <3> QED  BY <2>1, <3>1 DEF Clean
  <2> QED  BY <2>2, <2>3 DEF Write
<1>2. sent = 0 /\ sent' = 0
  BY <1>0, <1>1, AtWrite
<1>3. Inv' /\ flash' \in Config
  <2>1. Inv'
    BY WriteInv
  <2> QED  BY <2>1 DEF Inv, TypeOK, Config, DataOf
<1>4. CASE ~(writing - 1 = Crc)
  <2>1. writing' = writing + 1 /\ UNCHANGED <<todo, may>>
    <3>1. ~Use({"fault"})
      BY <1>0, <1>1, ConfigStoreAssumption DEF Use, TypeOK, Bounds
    <3>2. CASE writing = 1 /\ flash' = Erased /\ writing' = 2 /\ UNCHANGED <<todo, may, used>>
      BY <3>2
    <3> QED  BY <1>4, <3>1, <3>2 DEF Write
  <2>2. flash'[Crc] = NoSum
    BY <1>0, <1>3, <1>4, <2>1 DEF Inv, InProgress, Erased, Slots
  <2>3. Restored' = Defaults
    BY <1>3, <2>2, Reading DEF Restored, Checked, Right, DataOf
  <2>4. /\ Goal(DataOf(ram))' = Goal(DataOf(ram)) /\ Factory(kept)' = Factory(kept)
        /\ Filled(DataOf(ram))' = Filled(DataOf(ram))
    BY <1>0, <2>1 DEF Goal, Factory
  <2>5. Saving' \/ ResettingSms' \/ Resetting'
    <3>1. CASE todo = <<Do("write")>> /\ DataOf(ram) \in Full /\ Goal(DataOf(ram))
      BY <1>0, <1>2, <2>1, <2>4, <3>1 DEF Saving
    <3>2. CASE /\ todo = <<Do("write"), Do("load"), Do("restore"), Do("save")>>
               /\ kept \in Setting /\ target = Factory(kept) /\ DataOf(ram) = NoWords
      BY <1>0, <1>2, <2>1, <2>4, <3>2 DEF ResettingSms
    <3>3. CASE /\ todo = <<Do("write"), Do("restore"), Do("save")>>
               /\ kept \in Setting /\ target = Factory(kept) /\ DataOf(ram) = Defaults
      BY <1>0, <1>2, <2>1, <2>4, <3>3 DEF ResettingSms
    <3>4. CASE /\ todo = <<Do("write"), Do("reset")>>
               /\ kept \in Setting /\ target = Factory(kept) /\ Filled(DataOf(ram)) = target
      BY <1>0, <1>2, <2>1, <2>4, <3>4 DEF Resetting
    <3> QED  BY <1>0, <1>1, <3>1, <3>2, <3>3, <3>4, AtWrite
  <2>6. Head(todo') = Do("write")
    BY <1>0, <1>1, <2>1 DEF OnTrack, Known
  <2> QED  BY <2>3, <2>5, <2>6 DEF OnTrack, Known
<1>5. CASE writing - 1 = Crc
  <2>1. Return /\ writing' = 0 /\ flash' = [flash EXCEPT ![Crc] = ram[Crc]]
    <3>1. ~Use({"fault"})
      BY <1>0, <1>1, ConfigStoreAssumption DEF Use, TypeOK, Bounds
    <3> QED  BY <1>0, <1>5, <3>1 DEF Write
  <2>2. flash' = ram
    <3>1. \A k \in Slots : flash[k] = IF k < Crc THEN ram[k] ELSE Erased[k]
      BY <1>0, <1>5 DEF Inv, InProgress
    <3>2. \A k \in Slots : k < Crc \/ k = Crc
      BY <1>0 DEF Slots
    <3>3. flash \in [Slots -> Int] /\ ram \in [Slots -> Int]
      BY <1>0 DEF Config
    <3>4. \A k \in Slots : flash'[k] = ram[k]
      BY <2>1, <3>1, <3>2, <3>3
    <3> QED  BY <2>1, <3>3, <3>4
  <2>3. Right(ram)
    BY <1>0 DEF Inv, InProgress, Right
  <2>4. Restored' = Filled(DataOf(ram)) /\ DataOf(flash)' = DataOf(ram)
    BY <1>0, <2>2, <2>3, Reading DEF Restored, Checked, Right, DataOf
  <2>5. /\ todo' = Tail(todo)
        /\ Len(todo) # 1 => may' = may
        /\ Len(todo) = 1 => \A data : Goal(data) => data \in may'
    BY <1>0, <1>2, <2>1, Returns
  <2>6. CASE todo = <<Do("write")>> /\ DataOf(ram) \in Full /\ Goal(DataOf(ram))
    <3>1. todo' = <<>> /\ DataOf(ram) \in may'
      BY <2>5, <2>6, Tuples
    <3>2. Restored' = DataOf(ram)
      BY <2>4, <2>6, FullType
    <3>3. Resting'
      BY <1>0, <1>2, <2>2, <2>4, <2>6, <3>1, <3>2 DEF Resting, Sound
    <3> QED  BY <2>1, <3>1, <3>2, <3>3 DEF OnTrack, Known
  <2>7. CASE /\ todo = <<Do("write"), Do("load"), Do("restore"), Do("save")>>
             /\ kept \in Setting /\ target = Factory(kept) /\ DataOf(ram) = NoWords
    <3>1. todo' = <<Do("load"), Do("restore"), Do("save")>>
      BY <2>5, <2>7, Tuples
    <3>2. Restored' = Defaults /\ Restored' = Defaults'
      BY <2>4, <2>7, FactoryFilled DEF Defaults
    <3>3. ResettingSms'
      BY <1>0, <1>2, <2>7, <3>1, <3>2 DEF ResettingSms
    <3> QED  BY <2>1, <3>2, <3>3 DEF OnTrack, Known
  <2>8. CASE /\ todo = <<Do("write"), Do("restore"), Do("save")>>
             /\ kept \in Setting /\ target = Factory(kept) /\ DataOf(ram) = Defaults
    <3>1. todo' = <<Do("restore"), Do("save")>>
      BY <2>5, <2>8, Tuples
    <3>2. Restored' = Defaults /\ DataOf(flash)' = Defaults /\ Defaults \in Full
      BY <2>4, <2>8, FactoryFilled, FullType
    <3>3. Sound'
      BY <3>2 DEF Sound
    <3>4. ResettingSms'
      BY <1>0, <1>2, <2>8, <3>1, <3>3 DEF ResettingSms
    <3> QED  BY <2>1, <3>2, <3>4 DEF OnTrack, Known
  <2>9. CASE /\ todo = <<Do("write"), Do("reset")>>
             /\ kept \in Setting /\ target = Factory(kept) /\ Filled(DataOf(ram)) = target
    <3>1. todo' = <<Do("reset")>>
      BY <2>5, <2>9, Tuples
    <3>2. Restored' = target'
      BY <1>0, <2>4, <2>9
    <3>3. Resetting'
      BY <1>0, <1>2, <2>9, <3>1, <3>2 DEF Resetting
    <3> QED  BY <2>1, <3>2, <3>3 DEF OnTrack, Known
  <2> QED  BY <1>0, <1>1, <2>6, <2>7, <2>8, <2>9, AtWrite
<1> QED  BY <1>4, <1>5

(* What the steps of the handlers do while nothing has gone wrong.         *)
LEMMA StepIs ==
  ASSUME Step
  PROVE  LET do == Head(todo)
         IN /\ do.op = "set" => /\ ram' = [ram EXCEPT ![do.at] = do.val] /\ Return
                                /\ UNCHANGED <<flash, writing, kept, sent, target>>
            /\ do.op = "keep" => /\ kept' = ram[1] /\ Return
                                 /\ UNCHANGED <<flash, ram, writing, sent, target>>
            /\ do.op = "wipe" => /\ ram' = Erased /\ Return
                                 /\ UNCHANGED <<flash, writing, kept, sent, target>>
            /\ do.op = "restore" => /\ ram' = [ram EXCEPT ![1] = kept] /\ Return
                                    /\ UNCHANGED <<flash, writing, kept, sent, target>>
            /\ do.op = "load" =>
                 /\ ram' = Loaded
                 /\ IF Loaded = flash THEN Return
                    ELSE todo' = <<Do("save")>> \o Tail(todo) /\ UNCHANGED may
                 /\ UNCHANGED <<flash, writing, kept, sent, target>>
            /\ do.op = "save" =>
                 /\ IF ram = flash THEN Return
                    ELSE todo' = <<Do("write")>> \o Tail(todo) /\ UNCHANGED may
                 /\ UNCHANGED <<flash, ram, writing, kept, sent, target>>
            /\ do.op = "write" =>
                 /\ ram' = With(DataOf(ram), CheckSum(DataOf(ram)))
                 /\ UNCHANGED <<flash, todo, kept, sent, target, may>>
            /\ do.op = "reset" => Restart /\ UNCHANGED <<flash, target, may>>
  BY DEF Step

LEMMA Expanded ==
  ASSUME NEW a \in Steps, NEW b \in Steps, NEW c \in Steps, NEW d \in Steps
  PROVE  /\ <<a>> \o <<>> = <<a>>
         /\ <<a>> \o <<b>> = <<a, b>>
         /\ <<a>> \o <<b, c>> = <<a, b, c>>
         /\ <<a>> \o <<b, c, d>> = <<a, b, c, d>>
<1>1. <<a>> \o <<>> = <<a>>
  OBVIOUS
<1>2. ASSUME NEW rest \in Seq(Steps), NEW whole \in Seq(Steps), Len(whole) = Len(rest) + 1,
             whole[1] = a, \A i \in 1 .. Len(rest) : whole[i + 1] = rest[i]
      PROVE  <<a>> \o rest = whole
  <2>1. <<a>> \in Seq(Steps) /\ Len(<<a>>) = 1 /\ <<a>>[1] = a
    OBVIOUS
  <2>2. <<a>> \o rest \in Seq(Steps) /\ Len(<<a>> \o rest) = Len(whole)
    BY <1>2, <2>1, ConcatProperties
  <2>3. \A i \in 1 .. Len(whole) : (<<a>> \o rest)[i] = whole[i]
    <3> TAKE i \in 1 .. Len(whole)
    <3>1. (<<a>> \o rest)[i] = IF i <= 1 THEN <<a>>[i] ELSE rest[i - 1]
      BY <1>2, <2>1, ConcatProperties
    <3>2. i > 1 => i - 1 \in 1 .. Len(rest) /\ (i - 1) + 1 = i
      BY <1>2
    <3> QED  BY <1>2, <2>1, <3>1, <3>2
  <2> QED  BY <2>2, <2>3, SeqEqual
<1>3. <<a>> \o <<b>> = <<a, b>>
  <2> DEFINE rest == <<b>>
  <2> DEFINE whole == <<a, b>>
  <2>1. rest \in Seq(Steps) /\ whole \in Seq(Steps) /\ Len(rest) = 1 /\ Len(whole) = 2
    OBVIOUS
  <2>2. whole[1] = a /\ \A i \in 1 .. 1 : whole[i + 1] = rest[i]
    OBVIOUS
  <2>3. <<a>> \o rest = whole
    <3> HIDE DEF rest, whole
    <3>1. Len(whole) = Len(rest) + 1
      BY <2>1
    <3>2. \A i \in 1 .. Len(rest) : whole[i + 1] = rest[i]
      BY <2>1, <2>2
    <3> QED  BY ONLY <1>2, <2>1, <2>2, <3>1, <3>2, Zenon
  <2> QED  BY ONLY <2>3 DEF rest, whole
<1>4. <<a>> \o <<b, c>> = <<a, b, c>>
  <2> DEFINE rest == <<b, c>>
  <2> DEFINE whole == <<a, b, c>>
  <2>1. rest \in Seq(Steps) /\ whole \in Seq(Steps) /\ Len(rest) = 2 /\ Len(whole) = 3
    OBVIOUS
  <2>2. whole[1] = a /\ \A i \in 1 .. 2 : whole[i + 1] = rest[i]
    OBVIOUS
  <2>3. <<a>> \o rest = whole
    <3> HIDE DEF rest, whole
    <3>1. Len(whole) = Len(rest) + 1
      BY <2>1
    <3>2. \A i \in 1 .. Len(rest) : whole[i + 1] = rest[i]
      BY <2>1, <2>2
    <3> QED  BY ONLY <1>2, <2>1, <2>2, <3>1, <3>2, Zenon
  <2> QED  BY ONLY <2>3 DEF rest, whole
<1>5. <<a>> \o <<b, c, d>> = <<a, b, c, d>>
  <2> DEFINE rest == <<b, c, d>>
  <2> DEFINE whole == <<a, b, c, d>>
  <2>1. rest \in Seq(Steps) /\ whole \in Seq(Steps) /\ Len(rest) = 3 /\ Len(whole) = 4
    OBVIOUS
  <2>2. whole[1] = a /\ \A i \in 1 .. 3 : whole[i + 1] = rest[i]
    OBVIOUS
  <2>3. <<a>> \o rest = whole
    <3> HIDE DEF rest, whole
    <3>1. Len(whole) = Len(rest) + 1
      BY <2>1
    <3>2. \A i \in 1 .. Len(rest) : whole[i + 1] = rest[i]
      BY <2>1, <2>2
    <3> QED  BY ONLY <1>2, <2>1, <2>2, <3>1, <3>2, Zenon
  <2> QED  BY ONLY <2>3 DEF rest, whole
<1> QED  BY <1>1, <1>3, <1>4, <1>5

LEMMA WrittenData ==
  ASSUME ram \in Config, ram' = With(DataOf(ram), CheckSum(DataOf(ram)))
  PROVE  DataOf(ram)' = DataOf(ram)
<1>1. DataOf(ram) \in Data /\ CheckSum(DataOf(ram)) \in Int
  BY SumType DEF Config
<1>2. DataOf(ram') = DataOf(ram)'
  BY DEF DataOf
<1> QED  BY <1>1, <1>2, WithType

LEMMA StepSmall ==
  ASSUME Inv, Known, Step, Resting \/ Downloading \/ Changing \/ Saving \/ Starting
  PROVE  OnTrack'
<1>0. /\ TypeOK /\ ram \in Config /\ flash \in Config /\ writing = 0 /\ pool' = pool
      /\ todo \in Seq(Steps) /\ todo # <<>>
  BY TypeParts DEF Inv, TypeOK, Step
<1>1. ~Resting
  BY <1>0 DEF Resting
<1>2. CASE Downloading
  <2>1. PICK n \in 0 .. sent :
          /\ todo = <<Set(sent, pool[sent])>> /\ n = sent - 1
          /\ DataOf(ram) = [k \in 1 .. Words |-> IF k <= n THEN pool[k] ELSE flash[k]]
    BY <1>0, <1>2 DEF Downloading
  <2>2. sent > 0 /\ sent \in 1 .. Words /\ pool[sent] \in Setting /\ Sound /\ Restored \in may
    BY <1>0, <1>2, ConfigStoreAssumption DEF Downloading, TypeOK
  <2>3. /\ ram' = [ram EXCEPT ![sent] = pool[sent]] /\ Return
        /\ UNCHANGED <<flash, writing, kept, sent, target>>
    BY <2>1, StepIs, Tuples, Operations
  <2>4. todo' = <<>> /\ may' = may
    BY <1>0, <2>1, <2>2, <2>3, Returns, Tuples
  <2>5. DataOf(ram') = [k \in 1 .. Words |-> IF k <= sent THEN pool[k] ELSE flash[k]]
    <3>1. DataOf(ram') = [DataOf(ram) EXCEPT ![sent] = pool[sent]]
      BY <1>0, <2>2, <2>3, DataOfSet
    <3>2. \A k \in 1 .. Words : k <= sent <=> k <= n \/ k = sent
      BY <2>1, <2>2
    <3> QED  BY <2>1, <2>2, <3>1, <3>2
  <2>6. Sound' /\ Restored' \in may'
    BY <2>2, <2>3, <2>4, FlashSame
  <2>7. DataOf(ram)' = [k \in 1 .. Words |-> IF k <= sent' THEN pool'[k] ELSE flash'[k]]
    BY <1>0, <2>3, <2>5 DEF DataOf
  <2>8. sent' \in 0 .. sent' /\ sent' > 0
    BY <2>2, <2>3
  <2>9. Downloading'
    BY <2>4, <2>6, <2>7, <2>8 DEF Downloading
  <2> QED  BY <1>0, <2>3, <2>6, <2>9 DEF OnTrack, Known
<1>3. CASE Changing
  <2>1. PICK k \in 1 .. Words, val \in Setting :
          todo = <<Set(k, val), Do("save")>> /\ target = [DataOf(ram) EXCEPT ![k] = val]
    BY <1>3 DEF Changing, SetWord
  <2>2. /\ ram' = [ram EXCEPT ![k] = val] /\ Return
        /\ UNCHANGED <<flash, writing, kept, sent, target>>
    BY <2>1, StepIs, Tuples, Operations
  <2>3. sent = 0 /\ Sound /\ DataOf(ram) \in Full
    BY <1>3 DEF Changing
  <2>4. todo' = <<Do("save")>> /\ may' = may
    BY <1>0, <2>1, <2>2, Returns, Tuples
  <2>5. DataOf(ram)' = target /\ target \in Full
    <3>1. DataOf(ram') = DataOf(ram)'
      BY DEF DataOf
    <3> QED  BY <1>0, <2>1, <2>2, <2>3, <3>1, DataOfSet DEF Full
  <2>6. Goal(DataOf(ram))'
    BY <2>2, <2>5, FullType DEF Goal
  <2>7. Sound' /\ Restored' = Restored
    BY <2>2, <2>3, FlashSame
  <2>8. Saving'
    BY <2>2, <2>3, <2>4, <2>5, <2>6, <2>7 DEF Saving, Full
  <2>9. Known'
    BY <2>2, <2>4, <2>7 DEF Known
  <2> QED  BY <1>0, <2>2, <2>8, <2>9 DEF OnTrack
<1>4. CASE Saving
  <2>1. sent = 0 /\ DataOf(ram) \in Full /\ Goal(DataOf(ram))
    BY <1>4 DEF Saving
  <2>2. CASE todo = <<Do("save")>> /\ (ram = flash => Sound)
    <3>1. /\ IF ram = flash THEN Return
             ELSE todo' = <<Do("write")>> \o Tail(todo) /\ UNCHANGED may
          /\ UNCHANGED <<flash, ram, writing, kept, sent, target>>
      BY <2>2, StepIs, Tuples, Operations
    <3>2. /\ DataOf(ram)' = DataOf(ram) /\ Restored' = Restored /\ Sound' = Sound
      BY <3>1, FlashSame DEF DataOf
    <3>3. CASE ram = flash
      <4>1. todo' = <<>> /\ DataOf(ram) \in may'
        BY <1>0, <2>1, <2>2, <3>1, <3>3, Returns, Tuples
      <4>2. Resting'
        BY <2>1, <2>2, <3>1, <3>2, <3>3, <4>1 DEF Resting, Sound
      <4>3. Known'
        BY <4>2 DEF Resting, Known
      <4> QED  BY <1>0, <3>1, <4>2, <4>3 DEF OnTrack
    <3>4. CASE ram # flash
      <4>1. todo' = <<Do("write")>> /\ may' = may
        BY <2>2, <3>1, <3>4, Tuples, Expanded, StepsType
      <4>2. Goal(DataOf(ram))'
        BY <2>1, <3>1, <3>2, <4>1 DEF Goal
      <4>3. Saving'
        BY <2>1, <3>1, <3>2, <4>1, <4>2 DEF Saving
      <4>4. Known'
        BY <3>1, <3>2, <4>1 DEF Known
      <4> QED  BY <1>0, <3>1, <4>3, <4>4 DEF OnTrack
    <3> QED  BY <3>3, <3>4
  <2>3. CASE todo = <<Do("write")>>
    <3>1. /\ ram' = With(DataOf(ram), CheckSum(DataOf(ram)))
          /\ UNCHANGED <<flash, todo, kept, sent, target, may>>
      BY <2>3, StepIs, Tuples, Operations
    <3>2. DataOf(ram)' = DataOf(ram) /\ Restored' = Restored
      BY <1>0, <3>1, FlashSame, WrittenData
    <3>3. Goal(DataOf(ram))'
      BY <2>1, <3>1, <3>2 DEF Goal
    <3>4. Saving'
      BY <2>1, <2>3, <3>1, <3>2, <3>3 DEF Saving
    <3>5. Known' /\ Head(todo') = Do("write")
      BY <2>3, <3>1, <3>2, Tuples DEF Known
    <3> QED  BY <3>4, <3>5 DEF OnTrack
  <2> QED  BY <1>4, <2>2, <2>3 DEF Saving
<1>5. CASE Starting
  <2>1. sent = 0 /\ todo = <<Do("load")>> /\ Goal(Restored)
    BY <1>5 DEF Starting
  <2>2. /\ ram' = Loaded
        /\ IF Loaded = flash THEN Return
           ELSE todo' = <<Do("save")>> \o Tail(todo) /\ UNCHANGED may
        /\ UNCHANGED <<flash, writing, kept, sent, target>>
    BY <2>1, StepIs, Tuples, Operations
  <2>3. /\ DataOf(ram') = Restored /\ DataOf(ram') = DataOf(ram)' /\ Restored \in Full
        /\ Restored' = Restored
    BY <1>0, <2>2, RestoredFull, FlashSame DEF DataOf
  <2>4. CASE Loaded = flash
    <3>1. todo' = <<>> /\ Restored \in may'
      BY <1>0, <2>1, <2>2, <2>4, Returns, Tuples
    <3>2. Resting'
      BY <2>1, <2>2, <2>3, <2>4, <3>1 DEF Resting, Sound
    <3>3. Known'
      BY <3>2 DEF Resting, Known
    <3> QED  BY <1>0, <2>2, <3>2, <3>3 DEF OnTrack
  <2>5. CASE Loaded # flash
    <3>1. todo' = <<Do("save")>> /\ may' = may
      BY <2>1, <2>2, <2>5, Tuples, Expanded, StepsType
    <3>2. Goal(DataOf(ram))'
      BY <2>1, <2>2, <2>3, <3>1 DEF Goal
    <3>3. Saving'
      BY <2>1, <2>2, <2>3, <2>5, <3>1, <3>2 DEF Saving, Full
    <3>4. Known'
      BY <2>2, <2>3, <3>1 DEF Known
    <3> QED  BY <1>0, <2>2, <3>3, <3>4 DEF OnTrack
  <2> QED  BY <2>4, <2>5
<1> QED  BY <1>1, <1>2, <1>3, <1>4, <1>5

(* The steps that both factory resets are made of.                         *)
LEMMA FactoryWords ==
  ASSUME ram \in Config, kept \in Setting, target = Factory(kept)
  PROVE  /\ target # Unknown /\ target \in Full
         /\ DataOf(Erased) = NoWords
         /\ DataOf(ram) = NoWords =>
              Filled(DataOf([ram EXCEPT ![1] = kept])) = target
         /\ DataOf(ram) = Defaults =>
              DataOf([ram EXCEPT ![1] = kept]) = target
<1>1. 1 \in 1 .. Words
  BY ConfigStoreAssumption
<1>2. DataOf([ram EXCEPT ![1] = kept]) = [DataOf(ram) EXCEPT ![1] = kept]
  BY <1>1, DataOfSet
<1>3. target \in Full /\ target # Unknown
  BY FactoryFilled, FullType
<1>4. DataOf(Erased) = NoWords
  BY ErasedType DEF NoWords
<1> QED  BY <1>2, <1>3, <1>4, FactoryFilled DEF Factory

LEMMA StepSms ==
  ASSUME Inv, Known, Step, ResettingSms
  PROVE  OnTrack'
<1>0. /\ TypeOK /\ ram \in Config /\ flash \in Config /\ writing = 0 /\ sent = 0
      /\ todo \in Seq(Steps) /\ todo # <<>>
  BY TypeParts DEF Inv, TypeOK, Step, ResettingSms
<1>1. CASE /\ todo = <<Do("keep"), Do("wipe"), Do("save"), Do("load"), Do("restore"), Do("save")>>
           /\ ram[1] \in Setting /\ target = Factory(ram[1])
  <2>1. kept' = ram[1] /\ Return /\ UNCHANGED <<flash, ram, writing, sent, target>>
    BY <1>1, StepIs, Tuples, Operations
  <2>2. /\ todo' = <<Do("wipe"), Do("save"), Do("load"), Do("restore"), Do("save")>>
        /\ may' = may
    BY <1>0, <1>1, <2>1, Returns, Tuples
  <2>3. ResettingSms'
    BY <1>0, <1>1, <2>1, <2>2 DEF ResettingSms, Factory
  <2>4. Known'
    BY <2>1, <2>2, FlashSame DEF Known
  <2> QED  BY <1>0, <2>1, <2>3, <2>4 DEF OnTrack
<1>2. ASSUME kept \in Setting, target = Factory(kept)
      PROVE  /\ UNCHANGED <<kept, target>> => kept' \in Setting /\ target' = Factory(kept)'
             /\ UNCHANGED <<flash, target, may>> => Known'
             /\ target # Unknown /\ target \in Full /\ DataOf(Erased) = NoWords
             /\ DataOf(ram) = Defaults =>
                  DataOf([ram EXCEPT ![1] = kept]) = target
             /\ \A config : ram' = config => DataOf(ram)' = DataOf(config)
  BY <1>0, <1>2, FactoryWords, FlashSame DEF Known, Factory, DataOf
<1>3. CASE /\ todo = <<Do("wipe"), Do("save"), Do("load"), Do("restore"), Do("save")>>
           /\ kept \in Setting /\ target = Factory(kept)
  <2>1. ram' = Erased /\ Return /\ UNCHANGED <<flash, writing, kept, sent, target>>
    BY <1>3, StepIs, Tuples, Operations
  <2>2. todo' = <<Do("save"), Do("load"), Do("restore"), Do("save")>> /\ may' = may
    BY <1>0, <1>3, <2>1, Returns, Tuples
  <2>3. DataOf(ram)' = NoWords /\ NoWords = NoWords'
    BY <1>2, <1>3, <2>1 DEF NoWords
  <2>4. ResettingSms'
    BY <1>0, <1>2, <1>3, <2>1, <2>2, <2>3 DEF ResettingSms
  <2> QED  BY <1>0, <1>2, <1>3, <2>1, <2>2, <2>4 DEF OnTrack
<1>4. CASE /\ todo = <<Do("save"), Do("load"), Do("restore"), Do("save")>>
           /\ kept \in Setting /\ target = Factory(kept) /\ DataOf(ram) = NoWords
  <2>1. /\ IF ram = flash THEN Return
           ELSE todo' = <<Do("write")>> \o Tail(todo) /\ UNCHANGED may
        /\ UNCHANGED <<flash, ram, writing, kept, sent, target>>
    BY <1>4, StepIs, Tuples, Operations
  <2>2. DataOf(ram)' = NoWords
    BY <1>2, <1>4, <2>1
  <2>3. CASE ram = flash
    <3>1. todo' = <<Do("load"), Do("restore"), Do("save")>> /\ may' = may
      BY <1>0, <1>4, <2>1, <2>3, Returns, Tuples
    <3>2. Restored' = Defaults
      <4>1. DataOf(Checked(flash)) = NoWords
        BY <1>2, <1>4, <2>3 DEF Checked
      <4>2. Restored = Defaults
        BY <4>1, FactoryFilled DEF Restored
      <4> QED  BY <2>1, <4>2, FlashSame
    <3>3. ResettingSms'
      BY <1>0, <1>2, <1>4, <2>1, <3>1, <3>2 DEF ResettingSms
    <3> QED  BY <1>0, <1>2, <1>4, <2>1, <3>1, <3>3 DEF OnTrack
  <2>4. CASE ram # flash
    <3>1. todo' = <<Do("write"), Do("load"), Do("restore"), Do("save")>> /\ may' = may
      BY <1>4, <2>1, <2>4, Tuples, Expanded, StepsType
    <3>2. ResettingSms'
      BY <1>0, <1>2, <1>4, <2>1, <2>2, <3>1 DEF ResettingSms
    <3> QED  BY <1>0, <1>2, <1>4, <2>1, <3>1, <3>2 DEF OnTrack
  <2> QED  BY <2>3, <2>4
<1>5. CASE /\ todo = <<Do("write"), Do("load"), Do("restore"), Do("save")>>
           /\ kept \in Setting /\ target = Factory(kept) /\ DataOf(ram) = NoWords
  <2>1. /\ ram' = With(DataOf(ram), CheckSum(DataOf(ram)))
        /\ UNCHANGED <<flash, todo, kept, sent, target, may>>
    BY <1>5, StepIs, Tuples, Operations
  <2>2. DataOf(ram)' = NoWords
    BY <1>0, <1>5, <2>1, WrittenData
  <2>3. ResettingSms' /\ Head(todo') = Do("write")
    BY <1>0, <1>2, <1>5, <2>1, <2>2, Tuples DEF ResettingSms
  <2> QED  BY <1>2, <1>5, <2>1, <2>3 DEF OnTrack
<1>6. CASE /\ todo = <<Do("load"), Do("restore"), Do("save")>> /\ Restored = Defaults
           /\ kept \in Setting /\ target = Factory(kept)
  <2>1. /\ ram' = Loaded
        /\ IF Loaded = flash THEN Return
           ELSE todo' = <<Do("save")>> \o Tail(todo) /\ UNCHANGED may
        /\ UNCHANGED <<flash, writing, kept, sent, target>>
    BY <1>6, StepIs, Tuples, Operations
  <2>2. DataOf(ram)' = Defaults /\ Restored \in Full /\ DataOf(Loaded) = Restored
    BY <1>0, <1>2, <1>6, <2>1, RestoredFull
  <2>3. CASE Loaded = flash
    <3>1. todo' = <<Do("restore"), Do("save")>> /\ may' = may
      BY <1>0, <1>6, <2>1, <2>3, Returns, Tuples
    <3>2. Sound'
      BY <2>1, <2>2, <2>3, FlashSame DEF Sound
    <3>3. ResettingSms'
      BY <1>0, <1>2, <1>6, <2>1, <2>2, <3>1, <3>2 DEF ResettingSms
    <3> QED  BY <1>0, <1>2, <1>6, <2>1, <3>1, <3>3 DEF OnTrack
  <2>4. CASE Loaded # flash
    <3>1. todo' = <<Do("save"), Do("restore"), Do("save")>> /\ may' = may
      BY <1>6, <2>1, <2>4, Tuples, Expanded, StepsType
    <3>2. ram' # flash'
      BY <2>1, <2>4
    <3>3. ResettingSms'
      BY <1>0, <1>2, <1>6, <2>1, <2>2, <3>1, <3>2 DEF ResettingSms
    <3> QED  BY <1>0, <1>2, <1>6, <2>1, <3>1, <3>3 DEF OnTrack
  <2> QED  BY <2>3, <2>4
<1>7. CASE /\ todo = <<Do("save"), Do("restore"), Do("save")>>
           /\ kept \in Setting /\ target = Factory(kept)
           /\ DataOf(ram) = Defaults /\ (ram = flash => Sound)
  <2>1. /\ IF ram = flash THEN Return
           ELSE todo' = <<Do("write")>> \o Tail(todo) /\ UNCHANGED may
        /\ UNCHANGED <<flash, ram, writing, kept, sent, target>>
    BY <1>7, StepIs, Tuples, Operations
  <2>2. DataOf(ram)' = Defaults
    BY <1>2, <1>7, <2>1
  <2>3. CASE ram = flash
    <3>1. todo' = <<Do("restore"), Do("save")>> /\ may' = may /\ Sound'
      BY <1>0, <1>7, <2>1, <2>3, Returns, Tuples, FlashSame
    <3>2. ResettingSms'
      BY <1>0, <1>2, <1>7, <2>1, <2>2, <3>1 DEF ResettingSms
    <3> QED  BY <1>0, <1>2, <1>7, <2>1, <3>1, <3>2 DEF OnTrack
  <2>4. CASE ram # flash
    <3>1. todo' = <<Do("write"), Do("restore"), Do("save")>> /\ may' = may
      BY <1>7, <2>1, <2>4, Tuples, Expanded, StepsType
    <3>2. ResettingSms'
      BY <1>0, <1>2, <1>7, <2>1, <2>2, <3>1 DEF ResettingSms
    <3> QED  BY <1>0, <1>2, <1>7, <2>1, <3>1, <3>2 DEF OnTrack
  <2> QED  BY <2>3, <2>4
<1>8. CASE /\ todo = <<Do("write"), Do("restore"), Do("save")>>
           /\ kept \in Setting /\ target = Factory(kept) /\ DataOf(ram) = Defaults
  <2>1. /\ ram' = With(DataOf(ram), CheckSum(DataOf(ram)))
        /\ UNCHANGED <<flash, todo, kept, sent, target, may>>
    BY <1>8, StepIs, Tuples, Operations
  <2>2. DataOf(ram)' = Defaults
    BY <1>0, <1>8, <2>1, WrittenData
  <2>3. ResettingSms' /\ Head(todo') = Do("write")
    BY <1>0, <1>2, <1>8, <2>1, <2>2, Tuples DEF ResettingSms
  <2> QED  BY <1>2, <1>8, <2>1, <2>3 DEF OnTrack
<1>9. CASE /\ todo = <<Do("restore"), Do("save")>> /\ DataOf(ram) = Defaults /\ Sound
           /\ kept \in Setting /\ target = Factory(kept)
  <2>1. /\ ram' = [ram EXCEPT ![1] = kept] /\ Return
        /\ UNCHANGED <<flash, writing, kept, sent, target>>
    BY <1>9, StepIs, Tuples, Operations
  <2>2. todo' = <<Do("save")>> /\ may' = may
    BY <1>0, <1>9, <2>1, Returns, Tuples
  <2>3. DataOf(ram)' = target /\ target \in Full /\ target # Unknown
    BY <1>2, <1>9, <2>1
  <2>4. Goal(DataOf(ram))' /\ Sound'
    BY <1>9, <2>1, <2>3, FlashSame DEF Goal
  <2>5. Saving'
    BY <1>0, <2>1, <2>2, <2>3, <2>4 DEF Saving, Full
  <2> QED  BY <1>0, <1>2, <1>9, <2>1, <2>2, <2>5 DEF OnTrack
<1> QED
  BY <1>1, <1>3, <1>4, <1>5, <1>6, <1>7, <1>8, <1>9 DEF ResettingSms

LEMMA StepReset ==
  ASSUME Inv, Known, Step, Resetting
  PROVE  OnTrack'
<1>0. /\ TypeOK /\ ram \in Config /\ flash \in Config /\ writing = 0 /\ sent = 0
      /\ todo \in Seq(Steps) /\ todo # <<>>
  BY TypeParts DEF Inv, TypeOK, Step, Resetting
<1>1. CASE /\ todo = <<Do("keep"), Do("wipe"), Do("restore"), Do("save"), Do("reset")>>
           /\ ram[1] \in Setting /\ target = Factory(ram[1]) /\ Sound
  <2>1. kept' = ram[1] /\ Return /\ UNCHANGED <<flash, ram, writing, sent, target>>
    BY <1>1, StepIs, Tuples, Operations
  <2>2. todo' = <<Do("wipe"), Do("restore"), Do("save"), Do("reset")>> /\ may' = may
    BY <1>0, <1>1, <2>1, Returns, Tuples
  <2>3. Known' /\ Sound'
    BY <1>1, <2>1, <2>2, FlashSame DEF Known
  <2>4. Resetting'
    BY <1>0, <1>1, <2>1, <2>2, <2>3 DEF Resetting, Factory
  <2> QED  BY <1>0, <2>1, <2>3, <2>4 DEF OnTrack
<1>2. ASSUME kept \in Setting, target = Factory(kept)
      PROVE  /\ UNCHANGED <<kept, target>> => kept' \in Setting /\ target' = Factory(kept)'
             /\ UNCHANGED <<flash, target, may>> => Known'
             /\ target # Unknown /\ target \in Full /\ DataOf(Erased) = NoWords
             /\ DataOf(ram) = NoWords =>
                  Filled(DataOf([ram EXCEPT ![1] = kept])) = target
             /\ \A config : ram' = config => /\ DataOf(ram)' = DataOf(config)
                                            /\ Filled(DataOf(ram))' = Filled(DataOf(config))
  BY <1>0, <1>2, FactoryWords, FlashSame DEF Known, Factory, DataOf, Filled
<1>3. CASE /\ todo = <<Do("wipe"), Do("restore"), Do("save"), Do("reset")>> /\ Sound
           /\ kept \in Setting /\ target = Factory(kept)
  <2>1. ram' = Erased /\ Return /\ UNCHANGED <<flash, writing, kept, sent, target>>
    BY <1>3, StepIs, Tuples, Operations
  <2>2. todo' = <<Do("restore"), Do("save"), Do("reset")>> /\ may' = may
    BY <1>0, <1>3, <2>1, Returns, Tuples
  <2>3. DataOf(ram)' = NoWords /\ Sound'
    BY <1>2, <1>3, <2>1, FlashSame
  <2>4. Resetting'
    BY <1>0, <1>2, <1>3, <2>1, <2>2, <2>3 DEF Resetting
  <2> QED  BY <1>0, <1>2, <1>3, <2>1, <2>2, <2>4 DEF OnTrack
<1>4. CASE /\ todo = <<Do("restore"), Do("save"), Do("reset")>>
           /\ kept \in Setting /\ target = Factory(kept) /\ DataOf(ram) = NoWords /\ Sound
  <2>1. /\ ram' = [ram EXCEPT ![1] = kept] /\ Return
        /\ UNCHANGED <<flash, writing, kept, sent, target>>
    BY <1>4, StepIs, Tuples, Operations
  <2>2. todo' = <<Do("save"), Do("reset")>> /\ may' = may
    BY <1>0, <1>4, <2>1, Returns, Tuples
  <2>3. Filled(DataOf(ram))' = target /\ Sound'
    BY <1>2, <1>4, <2>1, FlashSame
  <2>4. Resetting'
    BY <1>0, <1>2, <1>4, <2>1, <2>2, <2>3 DEF Resetting
  <2> QED  BY <1>0, <1>2, <1>4, <2>1, <2>2, <2>4 DEF OnTrack
<1>5. CASE /\ todo = <<Do("save"), Do("reset")>> /\ Filled(DataOf(ram)) = target /\ Sound
           /\ kept \in Setting /\ target = Factory(kept)
  <2>1. /\ IF ram = flash THEN Return
           ELSE todo' = <<Do("write")>> \o Tail(todo) /\ UNCHANGED may
        /\ UNCHANGED <<flash, ram, writing, kept, sent, target>>
    BY <1>5, StepIs, Tuples, Operations
  <2>2. Restored' = Restored
    BY <2>1, FlashSame
  <2>3. CASE ram = flash
    <3>1. todo' = <<Do("reset")>> /\ may' = may
      BY <1>0, <1>5, <2>1, <2>3, Returns, Tuples
    <3>2. Restored = target
      BY <1>5, <2>3, FullType DEF Sound
    <3>3. Resetting'
      BY <1>0, <1>2, <1>5, <2>1, <2>2, <3>1, <3>2 DEF Resetting
    <3> QED  BY <1>0, <1>2, <1>5, <2>1, <3>1, <3>3 DEF OnTrack
  <2>4. CASE ram # flash
    <3>1. todo' = <<Do("write"), Do("reset")>> /\ may' = may
      BY <1>5, <2>1, <2>4, Tuples, Expanded, StepsType
    <3>2. Filled(DataOf(ram))' = target'
      BY <1>2, <1>5, <2>1
    <3>3. Resetting'
      BY <1>0, <1>2, <1>5, <2>1, <3>1, <3>2 DEF Resetting
    <3> QED  BY <1>0, <1>2, <1>5, <2>1, <3>1, <3>3 DEF OnTrack
  <2> QED  BY <2>3, <2>4
<1>6. CASE /\ todo = <<Do("write"), Do("reset")>> /\ Filled(DataOf(ram)) = target
           /\ kept \in Setting /\ target = Factory(kept)
  <2>1. /\ ram' = With(DataOf(ram), CheckSum(DataOf(ram)))
        /\ UNCHANGED <<flash, todo, kept, sent, target, may>>
    BY <1>6, StepIs, Tuples, Operations
  <2>2. DataOf(ram)' = DataOf(ram)
    BY <1>0, <2>1, WrittenData
  <2>3. Filled(DataOf(ram))' = target'
    BY <1>6, <2>1, <2>2 DEF Filled
  <2>4. Resetting' /\ Head(todo') = Do("write")
    BY <1>0, <1>2, <1>6, <2>1, <2>3, Tuples DEF Resetting
  <2> QED  BY <1>2, <1>6, <2>1, <2>4 DEF OnTrack
<1>7. CASE /\ todo = <<Do("reset")>> /\ Restored = target
           /\ kept \in Setting /\ target = Factory(kept)
  <2>1. Restart /\ UNCHANGED <<flash, target, may>>
    BY <1>7, StepIs, Tuples, Operations
  <2>2. Restored' = target' /\ target' # Unknown
    BY <1>2, <1>7, <2>1, FlashSame
  <2>3. Starting' /\ writing' = 0
    BY <2>1, <2>2 DEF Restart, Starting, Goal
  <2> QED  BY <1>2, <1>7, <2>1, <2>3 DEF OnTrack
<1> QED
  BY <1>1, <1>3, <1>4, <1>5, <1>6, <1>7 DEF Resetting

LEMMA StepTrack ==
  ASSUME Inv, OnTrack, Step
  PROVE  OnTrack'
<1> SUFFICES ASSUME Clean PROVE OnTrack'
  BY DEF OnTrack, Clean, Step
<1>1. Known
  BY DEF OnTrack
<1> QED  BY <1>1, StepSmall, StepSms, StepReset DEF OnTrack
-----------------------------------------------------------------------------
LEMMA StutterTrack ==
  ASSUME OnTrack, UNCHANGED vars
  PROVE  OnTrack'
<1>1. UNCHANGED <<flash, ram, todo, writing, kept, pool, sent, target, may, used>>
  BY DEF vars
<1>2. Restored' = Restored /\ Sound' = Sound /\ DataOf(ram)' = DataOf(ram)
  BY <1>1, FlashSame DEF DataOf
<1>3. Known' = Known /\ Clean' = Clean
  BY <1>1, <1>2 DEF Known, Clean
<1>4. Resting' = Resting /\ Starting' = Starting /\ Saving' = Saving
  BY <1>1, <1>2 DEF Resting, Starting, Saving, Goal
<1>5. Downloading' = Downloading
  BY <1>1, <1>2 DEF Downloading
<1>6. Changing' = Changing
  BY <1>1, <1>2 DEF Changing
<1>7. ResettingSms' = ResettingSms
  BY <1>1, <1>2 DEF ResettingSms, Factory
<1>8. Resetting' = Resetting
  BY <1>1, <1>2 DEF Resetting, Factory, Filled
<1> QED  BY <1>1, <1>3, <1>4, <1>5, <1>6, <1>7, <1>8 DEF OnTrack

(* Once a handler has returned, the tracker works with the configuration   *)
(* it was asked for and would find it in the flash when it starts; after a *)
(* cut, with the one before, the one asked for or the default one.         *)
THEOREM AskedCorrect == Spec => []IdleIsAsked
<1>1. Inv /\ OnTrack /\ [Next]_vars => OnTrack'
  <2> SUFFICES ASSUME Inv, OnTrack, [Next]_vars PROVE OnTrack'
    OBVIOUS
  <2> QED
    BY CommandTrack, PacketTrack, StepTrack, WriteTrack, TickTrack, CutTrack, StutterTrack
       DEF Next
<1>2. OnTrack => IdleIsAsked
  <2> SUFFICES ASSUME OnTrack, Idle, sent = 0, Clean
               PROVE  DataOf(ram) \in may /\ ram = flash /\ Restored = DataOf(ram)
    BY DEF IdleIsAsked, Clean
  <2>1. Resting
    BY IdleTrack
  <2> QED  BY <2>1 DEF Resting, Sound
<1> QED  BY InitTrack, <1>1, <1>2, Invariant, PTL DEF Spec
=============================================================================
