---------------------------- MODULE ValueJournal ----------------------------
(***************************************************************************)
(* The single values the tracker keeps in the SPI flash (DB_U32Load and    *)
(* DB_U32Save, ampm_lib/db/db.c): each save appends the value and its      *)
(* checksum to a sector, the load takes the last entry that is whole.  One *)
(* action is one flash operation, so that the power can be cut between any *)
(* two of them, and in the middle of one.                                  *)
(*                                                                         *)
(* Two values programmed over each other leave Junk, which has no right    *)
(* checksum: that a mixture happens to have one is left out.  The load     *)
(* leaves 1 in oldValue when it finds nothing: 1 is no value of a caller.  *)
(***************************************************************************)
EXTENDS Naturals, FiniteSetsExt

CONSTANTS
  Variable,     \* the values in RAM (gpsLat, gpsDir, powerOfTimeDelay, ...)
  SavedAt,      \* the sector each is saved in
  LoadedFrom,   \* the sector each is loaded from
  NSector,      \* sectors, one after the other
  NSlot,        \* entries of five bytes in a sector (819)
  Datum,        \* what is saved
  Zero,         \* the value when nothing is found
  MaxSave,      \* bound: saves
  MaxCut,       \* bound: power cuts
  MaxFault      \* bound: words and checksums that are not programmed right

Sector == 0 .. NSector - 1

Blank == "blank"
Junk == "junk"

ASSUME JournalAssumption ==
  /\ NSector \in Nat /\ NSlot \in Nat \ {0}
  /\ SavedAt \in [Variable -> Sector] /\ LoadedFrom \in [Variable -> Sector]
  /\ \A v \in Variable : SavedAt[v] + 1 \in Sector
  /\ {Zero, Blank, Junk} \cap Datum = {}
  /\ {MaxSave, MaxCut, MaxFault} \subseteq Nat

VARIABLES
  flash,        \* the sectors' entries: the word and whose checksum it has
  last,         \* the last byte of each sector
  ram,          \* DB_U32: value, and cnt in entries
  op,           \* the flash operation under way: that of the save of op.v
  saved,        \* history: the value last saved and read back, or found at the start
  spilled,      \* history: an entry was written over the end of its sector
  saves, cuts, faults

journalVars == <<flash, last, ram, op, saved, spilled, saves, cuts, faults>>

Empty == [i \in 0 .. NSlot - 1 |-> [word |-> Blank, sum |-> Blank]]

(* A program over what is not blank.                                       *)
Over(old, new) == IF old \in {Blank, new} THEN new ELSE Junk

Whole(e) == e.word \in Datum /\ e.sum = e.word

(* Mutant of NewestEntry: the first entry that is whole.                   *)
NewestFirst(s) == LET W == {i \in 0 .. NSlot - 1 : Whole(flash[s][i])} IN
                  IF W = {} THEN 0 ELSE Min(W) + 1

(* The entry after the last whole one, and 0 if there is none.             *)
NewestEntry(s) == LET W == {i \in 0 .. NSlot - 1 : Whole(flash[s][i])} IN
             IF W = {} THEN 0 ELSE Max(W) + 1

(* DB_U32Load.                                                             *)
DB_U32Load(v) ==
  LET n == NewestEntry(LoadedFrom[v])
  IN  [cnt |-> n, value |-> IF n = 0 THEN Zero ELSE flash[LoadedFrom[v]][n - 1].word]

Idle == [pc |-> "idle"]

JournalInit ==
  /\ flash = [s \in Sector |-> Empty] /\ last = [s \in Sector |-> Blank]
  /\ ram = [v \in Variable |-> DB_U32Load(v)] /\ op = Idle
  /\ saved = [v \in Variable |-> Zero] /\ spilled = FALSE
  /\ saves = 0 /\ cuts = 0 /\ faults = 0

Busy(pc) == [op EXCEPT !.pc = pc]

(* DB_U32Save up to the loop: from the start again after the last entry.   *)
DB_U32Save(v, d) ==
  /\ op = Idle /\ ram[v].value # d
  /\ saves < MaxSave /\ saves' = saves + 1
  /\ LET cnt == IF ram[v].cnt >= NSlot THEN 0 ELSE ram[v].cnt IN
     /\ ram' = [ram EXCEPT ![v] = [value |-> d, cnt |-> cnt]]
     /\ op' = [pc |-> IF cnt = 0 THEN "erase" ELSE "word", v |-> v]
  /\ UNCHANGED <<flash, last, saved, spilled, cuts, faults>>

(* SST25_Write erases a sector when it writes at its start.                *)
Erase ==
  /\ op.pc = "erase" /\ op' = Busy("word")
  /\ flash' = [flash EXCEPT ![SavedAt[op.v]] = Empty]
  /\ last' = [last EXCEPT ![SavedAt[op.v]] = Blank]
  /\ UNCHANGED <<ram, saved, spilled, saves, cuts, faults>>

(* The word.  The entry after the last one has its first byte in this      *)
(* sector and the rest in the next, which SST25_Write erases for it.       *)
Word(d) ==
  LET s == SavedAt[op.v]
      i == ram[op.v].cnt
  IN IF i < NSlot
     THEN /\ flash' = [flash EXCEPT ![s][i].word = Over(@, d)]
          /\ UNCHANGED <<last, spilled>>
     ELSE /\ last' = [last EXCEPT ![s] = Over(@, d), ![s + 1] = Blank]
          /\ flash' = [flash EXCEPT ![s + 1] = [Empty EXCEPT ![0].word = Junk]]
          /\ spilled' = TRUE

WriteWord ==
  /\ op.pc = "word" /\ op' = Busy("sum")
  /\ \/ Word(ram[op.v].value) /\ UNCHANGED faults
     \/ Word(Junk) /\ faults < MaxFault /\ faults' = faults + 1
  /\ UNCHANGED <<ram, saved, saves, cuts>>

(* The checksum; that of the entry after the last is Junk there already.   *)
Sum(d) ==
  LET i == ram[op.v].cnt IN
  /\ flash' = IF i < NSlot THEN [flash EXCEPT ![SavedAt[op.v]][i].sum = Over(@, d)] ELSE flash
  /\ UNCHANGED <<last, spilled>>

WriteSum ==
  /\ op.pc = "sum" /\ op' = Busy("check")
  /\ \/ Sum(ram[op.v].value) /\ UNCHANGED faults
     \/ Sum(Junk) /\ faults < MaxFault /\ faults' = faults + 1
  /\ UNCHANGED <<ram, saved, saves, cuts>>

(* What was written is read back, and written to the next entry if it is   *)
(* not right.                                                              *)
Check ==
  LET v == op.v
      i == ram[v].cnt
      right == IF i < NSlot THEN flash[SavedAt[v]][i] = [word |-> ram[v].value, sum |-> ram[v].value]
                            ELSE last[SavedAt[v]] = ram[v].value
  IN
  /\ op.pc = "check"
  /\ ram' = [ram EXCEPT ![v].cnt = IF right \/ i < NSlot THEN i + 1 ELSE 0]
  /\ op' = IF right \/ i >= NSlot THEN Idle ELSE Busy("word")
  /\ saved' = IF right THEN [saved EXCEPT ![v] = ram[v].value] ELSE saved
  /\ UNCHANGED <<flash, last, spilled, saves, cuts, faults>>

(* A cut, in the middle of a program or not, and the start that follows.   *)
PowerCut ==
  /\ cuts < MaxCut /\ cuts' = cuts + 1
  /\ \/ UNCHANGED <<flash, last, spilled>>
     \/ op.pc = "word" /\ Word(Junk)
     \/ op.pc = "sum" /\ Sum(Junk)
  /\ ram' = [v \in Variable |-> DB_U32Load(v)'] /\ op' = Idle
  /\ saved' = [v \in Variable |-> ram'[v].value]
  /\ UNCHANGED <<saves, faults>>

JournalNext ==
  \/ \E v \in Variable, d \in Datum : DB_U32Save(v, d)
  \/ Erase \/ WriteWord \/ WriteSum \/ Check \/ PowerCut

JournalSpec == JournalInit /\ [][JournalNext]_journalVars

-----------------------------------------------------------------------------
(* A start finds the value that was saved last; the value whose save is    *)
(* under way may also be found new, or not at all when its sector has just *)
(* been erased for a new round.                                            *)
Found(v) ==
  \/ DB_U32Load(v).value = saved[v]
  \/ op # Idle /\ v = op.v /\ DB_U32Load(v).value \in {ram[v].value, Zero}

Remembered == \A v \in Variable : Found(v)

(* The same, up to the first entry that is written over the end of its     *)
(* sector.                                                                 *)
RememberedInSector == ~spilled => Remembered
=============================================================================
