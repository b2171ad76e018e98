--------------------------- MODULE SmsInboxProofs ---------------------------
(***************************************************************************)
(* What holds of the text messages for every number of locations, messages *)
(* and answers that are garbled or late: no loss without such an answer,   *)
(* and no message executed twice.                                          *)
(***************************************************************************)
EXTENDS SmsInbox, SequenceTheorems, FunctionTheorems, FiniteSetTheorems, TLAPS

Entries(s) == {s[i] : i \in DOMAIN s}
Is(c, op, l) == c.op = op /\ c.loc = l
Deletes(s) == {i \in DOMAIN s : s[i].op = "delete"}
Reads(s) == {i \in DOMAIN s : s[i].op = "read"}

TypeOK ==
  /\ msgs \in Nat /\ faults \in Nat
  /\ store \in [Loc -> 0 .. msgs]
  /\ cmds \in Seq(Entries(cmds))
  /\ dataBuf \in 0 .. msgs /\ readFinish \in BOOLEAN
  /\ readFinish => dataBuf # None
  /\ executed \in SUBSET (1 .. msgs) /\ deleted \in SUBSET (1 .. msgs)
  /\ crossed \in SUBSET (1 .. msgs)

(* SMS_Manage has a message at hand, the one at smsLoc.                    *)
InHand == pc \in {"wait", "delete"}

(* The commands the modem has not served: the last one that reads is that  *)
(* of the message at hand, only its own deletion comes after it, and each  *)
(* earlier one is followed by the deletion of what it reads.               *)
CmdsInOrder ==
  /\ InHand /\ Reads(cmds) # {} =>
       \E i \in DOMAIN cmds : /\ Is(cmds[i], "read", smsLoc)
                              /\ \A j \in i + 1 .. Len(cmds) : Is(cmds[j], "delete", smsLoc)
  /\ pc = "delete" /\ cmds # <<>> => Is(cmds[Len(cmds)], "delete", smsLoc)
  /\ \A i \in Reads(cmds) :
       \/ i < Len(cmds) /\ Is(cmds[i + 1], "delete", cmds[i].loc)
       \/ i = Len(cmds) /\ pc = "wait"

(* What is lost, if nothing that is still to be read comes in between.     *)
Held == IF pc = "delete" /\ readFinish /\ Reads(cmds) = {} THEN {dataBuf} ELSE {}
Lost == deleted \ (executed \cup crossed \cup Held)

(* The deletions under way that are not of the message at hand ...         *)
OwedIn(s, at) == Cardinality(Deletes(s)) - (IF at = "delete" /\ Deletes(s) # {} THEN 1 ELSE 0)
Owed == OwedIn(cmds, pc)

(* ... which itself is lost when its answer was garbled.                   *)
Read == IF readFinish THEN {dataBuf} ELSE {}
Doomed ==
  /\ InHand /\ Reads(cmds) = {} /\ (pc = "delete" => Deletes(cmds) # {})
  /\ smsLoc \in Loc /\ store[smsLoc] # None
  /\ store[smsLoc] \notin executed \cup crossed \cup Read

(* Every loss, and every one that is sure to come, is paid by a fault.     *)
Balance == Cardinality(Lost) + Owed + (IF Doomed THEN 1 ELSE 0) <= faults

(* What is executed, or is about to be, is deleted before it is read again.*)
ExpiringIn(s, l) ==
  \E j \in DOMAIN s : /\ Is(s[j], "delete", l)
                      /\ \A i \in 1 .. j - 1 : ~Is(s[i], "read", l)
Unread(s, l) == \A i \in DOMAIN s : ~Is(s[i], "read", l)
Expiring(l) == ExpiringIn(cmds, l)

Apart == \A k, l \in Loc : store[k] = store[l] /\ store[k] # None => k = l
ExecutedExpire == \A l \in Loc : store[l] # None /\ store[l] \in executed => Expiring(l)
BufferNew ==
  InHand /\ readFinish =>
    /\ dataBuf \notin executed
    /\ \A l \in Loc : store[l] = dataBuf =>
         \/ Expiring(l)
         \/ pc = "wait" /\ l = smsLoc /\ Unread(cmds, l)

NotTwice == Apart /\ ExecutedExpire /\ BufferNew

IInv == TypeOK /\ CmdsInOrder /\ Balance /\ NotTwice
-----------------------------------------------------------------------------
(* Sequences of commands.                                                  *)
LEMMA OwnEntries ==
  ASSUME NEW S, NEW s \in Seq(S)
  PROVE  s \in Seq(Entries(s)) /\ DOMAIN s = 1 .. Len(s) /\ Len(s) \in Nat
<1>1. DOMAIN s = 1 .. Len(s) /\ Len(s) \in Nat
  OBVIOUS
<1>2. s = [i \in 1 .. Len(s) |-> s[i]]
  OBVIOUS
<1>3. \A i \in 1 .. Len(s) : s[i] \in Entries(s)
  BY <1>1 DEF Entries
<1> HIDE DEF Entries
<1> QED
  BY <1>1, <1>2, <1>3, SeqDef

LEMMA TailIs ==
  ASSUME NEW S, NEW s \in Seq(S), s # <<>>
  PROVE  /\ Tail(s) \in Seq(Entries(Tail(s)))
         /\ Len(s) \in Nat \ {0} /\ DOMAIN s = 1 .. Len(s)
         /\ Len(Tail(s)) = Len(s) - 1 /\ DOMAIN Tail(s) = 1 .. Len(s) - 1
         /\ \A i \in 1 .. Len(s) - 1 : Tail(s)[i] = s[i + 1]
         /\ Head(s) = s[1]
<1>1. /\ Tail(s) \in Seq(S) /\ Len(s) \in Nat \ {0} /\ Len(Tail(s)) = Len(s) - 1
      /\ Head(s) = s[1]
  BY HeadTailProperties, LenProperties
<1>2. \A i \in 1 .. Len(s) - 1 : Tail(s)[i] = s[i + 1]
  BY HeadTailProperties, LenProperties
<1>3. Tail(s) \in Seq(Entries(Tail(s))) /\ DOMAIN Tail(s) = 1 .. Len(Tail(s))
  BY <1>1, OwnEntries
<1>4. DOMAIN s = 1 .. Len(s)
  BY OwnEntries
<1> QED
  BY ONLY <1>1, <1>2, <1>3, <1>4

LEMMA AppendIs ==
  ASSUME NEW S, NEW s \in Seq(S), NEW c
  PROVE  /\ Append(s, c) \in Seq(Entries(Append(s, c)))
         /\ Len(s) \in Nat /\ DOMAIN s = 1 .. Len(s)
         /\ Len(Append(s, c)) = Len(s) + 1 /\ DOMAIN Append(s, c) = 1 .. Len(s) + 1
         /\ \A i \in 1 .. Len(s) : Append(s, c)[i] = s[i]
         /\ Append(s, c)[Len(s) + 1] = c
<1>1. s \in Seq(S \cup {c})
  OBVIOUS
<1>2. /\ Append(s, c) \in Seq(S \cup {c}) /\ Len(Append(s, c)) = Len(s) + 1
      /\ Append(s, c)[Len(s) + 1] = c
  BY <1>1, AppendProperties
<1>3. \A i \in 1 .. Len(s) : Append(s, c)[i] = s[i]
  BY <1>1, AppendProperties
<1>4. /\ Append(s, c) \in Seq(Entries(Append(s, c)))
      /\ DOMAIN Append(s, c) = 1 .. Len(Append(s, c))
  BY <1>2, OwnEntries
<1>5. Len(s) \in Nat /\ DOMAIN s = 1 .. Len(s)
  BY OwnEntries
<1> QED
  BY ONLY <1>2, <1>3, <1>4, <1>5

(* How many deletions there are.                                           *)
LEMMA DeletesFinite ==
  ASSUME NEW S, NEW s \in Seq(S)
  PROVE  IsFiniteSet(Deletes(s)) /\ Cardinality(Deletes(s)) \in Nat
         /\ (Deletes(s) # {} => Cardinality(Deletes(s)) >= 1)
<1>1. Len(s) \in Nat /\ Deletes(s) \subseteq 1 .. Len(s)
  BY OwnEntries DEF Deletes
<1>2. IsFiniteSet(1 .. Len(s))
  BY <1>1, FS_Interval
<1>3. IsFiniteSet(Deletes(s))
  BY <1>1, <1>2, FS_Subset
<1>4. Cardinality(Deletes(s)) \in Nat /\ (Cardinality(Deletes(s)) = 0 <=> Deletes(s) = {})
  BY <1>3, FS_CardinalityType, FS_EmptySet
<1> QED
  BY <1>3, <1>4

LEMMA DeletesTail ==
  ASSUME NEW S, NEW s \in Seq(S), s # <<>>
  PROVE  Cardinality(Deletes(s)) = Cardinality(Deletes(Tail(s)))
                                   + (IF Head(s).op = "delete" THEN 1 ELSE 0)
<1> DEFINE D == Deletes(Tail(s))
           E == {i \in Deletes(s) : i > 1}
           f == [i \in D |-> i + 1]
<1>1. IsFiniteSet(D) /\ IsFiniteSet(Deletes(s)) /\ Cardinality(D) \in Nat
  BY TailIs, DeletesFinite
<1>2. D \subseteq Nat /\ E = {i + 1 : i \in D}
  <2>1. \A i \in D : i \in Nat /\ i + 1 \in E
    BY TailIs DEF Deletes
  <2>2. \A i \in E : i - 1 \in D /\ i = (i - 1) + 1
    BY TailIs DEF Deletes
  <2> QED
    BY <2>1, <2>2
<1>3. f \in Bijection(D, E)
  <2>1. f \in [D -> E]
    BY <1>2
  <2>2. \A a, b \in D : f[a] = f[b] => a = b
    BY <1>2
  <2>3. \A e \in E : \E a \in D : f[a] = e
    BY <1>2
  <2> QED
    BY <2>1, <2>2, <2>3, Fun_IsBij
<1>4. Cardinality(E) = Cardinality(D)
  BY <1>1, <1>3, FS_Bijection DEF ExistsBijection
<1>5. IsFiniteSet(E)
  BY <1>1, FS_Subset
<1>6. CASE Head(s).op = "delete"
  <2>1. Deletes(s) = E \cup {1} /\ 1 \notin E
    BY <1>6, TailIs DEF Deletes
  <2>2. Cardinality(E \cup {1}) = Cardinality(E) + 1
    BY <1>5, <2>1, FS_AddElement
  <2> QED
    BY <1>1, <1>4, <1>6, <2>1, <2>2
<1>7. CASE Head(s).op # "delete"
  <2>1. Deletes(s) = E
    BY <1>7, TailIs DEF Deletes
  <2>2. Cardinality(Deletes(s)) = Cardinality(D)
    BY <1>4, <2>1
  <2> HIDE DEF E, f
  <2> QED
    BY <1>1, <1>7, <2>2
<1> QED
  BY <1>6, <1>7

LEMMA DeletesAppend ==
  ASSUME NEW S, NEW s \in Seq(S), NEW c
  PROVE  Cardinality(Deletes(Append(s, c))) = Cardinality(Deletes(s))
                                              + (IF c.op = "delete" THEN 1 ELSE 0)
<1>1. IsFiniteSet(Deletes(s)) /\ Cardinality(Deletes(s)) \in Nat
  BY DeletesFinite
<1>2. CASE c.op = "delete"
  <2>1. Deletes(Append(s, c)) = Deletes(s) \cup {Len(s) + 1} /\ Len(s) + 1 \notin Deletes(s)
    BY <1>2, AppendIs DEF Deletes
  <2> QED
    BY <1>1, <1>2, <2>1, FS_AddElement
<1>3. CASE c.op # "delete"
  <2>1. Deletes(Append(s, c)) = Deletes(s)
    BY <1>3, AppendIs DEF Deletes
  <2> QED
    BY <1>1, <1>3, <2>1
<1> QED
  BY <1>2, <1>3
-----------------------------------------------------------------------------
(* Types.                                                                  *)

(* What a step does to the commands.                                       *)
LEMMA CmdsStep ==
  ASSUME TypeOK, [Next]_vars
  PROVE  \/ UNCHANGED cmds
         \/ cmds # <<>> /\ cmds' = Tail(cmds)
         \/ \E c : cmds' = Append(cmds, c)
BY DEF Next, vars, modem, parser, task, history, Arrive, Modem, Served, ListServed, ReadServed,
       DeleteServed, Manage, List, Listed, Take, Return, Delete, DeleteAgain, Execute, Send

LEMMA TypeStep ==
  ASSUME TypeOK, [Next]_vars
  PROVE  TypeOK'
<1> USE InboxAssumption
<1>1. cmds' \in Seq(Entries(cmds'))
  <2>1. cmds \in Seq(Entries(cmds))
    BY DEF TypeOK
  <2>2. CASE cmds' = cmds
    BY <2>1, <2>2
  <2>3. CASE cmds # <<>> /\ cmds' = Tail(cmds)
    BY <2>1, <2>3, TailIs
  <2>4. ASSUME NEW c, cmds' = Append(cmds, c)
        PROVE  cmds' \in Seq(Entries(cmds'))
    BY <2>1, <2>4, AppendIs
  <2> QED
    BY <2>2, <2>3, <2>4, CmdsStep
<1>2. CASE Arrive
  <2>1. msgs' = msgs + 1 /\ msgs \in Nat
    BY <1>2 DEF TypeOK, Arrive
  <2>2. 0 .. msgs \subseteq 0 .. msgs' /\ 1 .. msgs \subseteq 1 .. msgs' /\ msgs' \in 1 .. msgs'
    BY <2>1
  <2>3. store' \in [Loc -> 0 .. msgs']
    <3>1. PICK l \in Loc : store' = [store EXCEPT ![l] = msgs']
      BY <1>2, <2>1 DEF Arrive
    <3>2. store \in [Loc -> 0 .. msgs'] /\ msgs' \in 0 .. msgs'
      BY <2>1, <2>2 DEF TypeOK
    <3> QED
      BY <3>1, <3>2
  <2>4. crossed' \in SUBSET (1 .. msgs')
    <3>1. crossed' \in {crossed, crossed \cup {msgs'}}
      BY <1>2, <2>1 DEF Arrive
    <3> QED
      BY <2>2, <3>1 DEF TypeOK
  <2>5. UNCHANGED <<dataBuf, readFinish, faults, executed, deleted>>
    BY <1>2 DEF Arrive
  <2>6. dataBuf' \in 0 .. msgs' /\ executed' \in SUBSET (1 .. msgs') /\ deleted' \in SUBSET (1 .. msgs')
    BY <2>2, <2>5 DEF TypeOK
  <2>7. faults' \in Nat /\ readFinish' \in BOOLEAN /\ (readFinish' => dataBuf' # None)
    BY <2>5 DEF TypeOK
  <2>8. msgs' \in Nat
    BY <2>1
  <2> QED
    BY ONLY <1>1, <2>3, <2>4, <2>6, <2>7, <2>8 DEF TypeOK
<1>3. CASE ListServed
  BY <1>1, <1>3 DEF TypeOK, ListServed, task, history
<1>4. CASE ReadServed
  <2>1. /\ dataBuf' = dataBuf /\ readFinish' = readFinish
        \/ \E l \in Loc : store[l] # None /\ dataBuf' = store[l] /\ readFinish' = TRUE
    BY <1>4 DEF ReadServed
  <2>2. dataBuf' \in 0 .. msgs /\ readFinish' \in BOOLEAN /\ (readFinish' => dataBuf' # None)
    <3>1. CASE dataBuf' = dataBuf /\ readFinish' = readFinish
      BY <3>1 DEF TypeOK
    <3>2. ASSUME NEW l \in Loc, store[l] # None, dataBuf' = store[l], readFinish' = TRUE
          PROVE  dataBuf' \in 0 .. msgs /\ readFinish' \in BOOLEAN /\ dataBuf' # None
      BY <3>2 DEF TypeOK
    <3> QED
      BY <2>1, <3>1, <3>2
  <2>3. UNCHANGED <<store, msgs, executed, deleted, crossed>> /\ faults' \in Nat
    BY <1>4 DEF TypeOK, ReadServed, history
  <2> QED
    BY <1>1, <2>2, <2>3 DEF TypeOK
<1>5. CASE DeleteServed
  <2>1. store' \in [Loc -> 0 .. msgs]
    BY <1>5 DEF TypeOK, DeleteServed, None
  <2>2. deleted' \in SUBSET (1 .. msgs)
    <3>1. \A l \in Loc : {store[l]} \ {None} \subseteq 1 .. msgs
      BY DEF TypeOK, None
    <3> QED
      BY <1>5, <3>1 DEF TypeOK, DeleteServed
  <2> QED
    BY <1>1, <1>5, <2>1, <2>2 DEF TypeOK, DeleteServed, parser, task
<1>6. CASE List
  BY <1>1, <1>6 DEF TypeOK, List, parser, history
<1>7. CASE Listed
  BY <1>1, <1>7 DEF TypeOK, Listed, Answered, modem, parser, history
<1>8. CASE Take
  BY <1>1, <1>8 DEF TypeOK, Take, history
<1>9. CASE Return
  BY <1>1, <1>9 DEF TypeOK, Return, modem, parser, history
<1>10. CASE Delete
  BY <1>1, <1>10 DEF TypeOK, Delete, Answered, parser, history
<1>11. CASE Execute
  BY <1>1, <1>11 DEF TypeOK, Execute, Answered, modem, parser, None
<1>12. CASE DeleteAgain
  BY <1>1, <1>12 DEF TypeOK, DeleteAgain, parser, task, history
<1>13. CASE UNCHANGED vars
  BY <1>1, <1>13 DEF TypeOK, vars, modem, parser, task, history
<1> QED
  BY <1>2, <1>3, <1>4, <1>5, <1>6, <1>7, <1>8, <1>9, <1>10, <1>11, <1>12, <1>13
     DEF Next, Modem, Manage
-----------------------------------------------------------------------------
(* The commands.                                                           *)

(* The modem serves the first of them.                                     *)
LEMMA OrderTail ==
  ASSUME TypeOK, CmdsInOrder, cmds # <<>>, cmds' = Tail(cmds), UNCHANGED <<pc, smsLoc>>
  PROVE  CmdsInOrder'
<1> DEFINE n == Len(cmds)
<1>1. /\ n \in Nat \ {0} /\ DOMAIN cmds = 1 .. n
      /\ Len(cmds') = n - 1 /\ DOMAIN cmds' = 1 .. n - 1
      /\ \A i \in 1 .. n - 1 : cmds'[i] = cmds[i + 1]
  BY TailIs DEF TypeOK
<1>2. \A i \in Reads(cmds') : i \in 1 .. n - 1 /\ i + 1 \in Reads(cmds)
  BY <1>1 DEF Reads
<1>3. ASSUME InHand, Reads(cmds') # {}
      PROVE  \E i \in DOMAIN cmds' : /\ Is(cmds'[i], "read", smsLoc)
                                     /\ \A j \in i + 1 .. n - 1 : Is(cmds'[j], "delete", smsLoc)
  <2>1. PICK k \in Reads(cmds') : TRUE
    BY <1>3
  <2>2. PICK i \in 1 .. n : /\ Is(cmds[i], "read", smsLoc)
                            /\ \A j \in i + 1 .. n : Is(cmds[j], "delete", smsLoc)
    BY <1>1, <1>2, <1>3, <2>1 DEF CmdsInOrder
  <2>3. i # 1
    BY <1>1, <1>2, <2>1, <2>2 DEF Is, Reads
  <2>4. i - 1 \in 1 .. n - 1 /\ cmds'[i - 1] = cmds[i]
    BY <1>1, <2>3
  <2>5. \A j \in i .. n - 1 : Is(cmds'[j], "delete", smsLoc)
    BY <1>1, <2>2, <2>4
  <2>6. \A j \in (i - 1) + 1 .. n - 1 : Is(cmds'[j], "delete", smsLoc)
    BY <2>2, <2>5
  <2>7. Is(cmds'[i - 1], "read", smsLoc)
    BY <2>2, <2>4
  <2> QED
    BY <1>1, <2>4, <2>6, <2>7
<1>4. ASSUME pc = "delete", cmds' # <<>>
      PROVE  Is(cmds'[n - 1], "delete", smsLoc)
  <2>1. n - 1 \in 1 .. n - 1
    BY <1>1, <1>4, TailIs, EmptySeq DEF TypeOK
  <2> QED
    BY <1>1, <1>4, <2>1 DEF CmdsInOrder
<1>5. ASSUME NEW i \in Reads(cmds')
      PROVE  \/ i < n - 1 /\ Is(cmds'[i + 1], "delete", cmds'[i].loc)
             \/ i = n - 1 /\ pc = "wait"
  BY <1>1, <1>2, <1>5 DEF CmdsInOrder
<1> QED
  BY <1>1, <1>3, <1>4, <1>5 DEF CmdsInOrder, InHand

(* A deletion of the message at hand is sent.                              *)
LEMMA OrderDelete ==
  ASSUME TypeOK, CmdsInOrder, InHand, Send("delete", smsLoc), pc' = "delete", smsLoc' = smsLoc
  PROVE  CmdsInOrder'
<1> DEFINE n == Len(cmds)
<1>1. /\ n \in Nat /\ DOMAIN cmds = 1 .. n
      /\ Len(cmds') = n + 1 /\ DOMAIN cmds' = 1 .. n + 1
      /\ \A i \in 1 .. n : cmds'[i] = cmds[i]
      /\ Is(cmds'[n + 1], "delete", smsLoc)
  BY AppendIs DEF TypeOK, Send, Is
<1>2. Reads(cmds') = Reads(cmds) /\ Reads(cmds) \subseteq 1 .. n
  BY <1>1 DEF Reads, Is
<1>3. ASSUME Reads(cmds) # {}
      PROVE  \E i \in 1 .. n + 1 : /\ Is(cmds'[i], "read", smsLoc)
                                   /\ \A j \in i + 1 .. n + 1 : Is(cmds'[j], "delete", smsLoc)
  <2>1. PICK i \in 1 .. n : /\ Is(cmds[i], "read", smsLoc)
                            /\ \A j \in i + 1 .. n : Is(cmds[j], "delete", smsLoc)
    BY <1>1, <1>3 DEF CmdsInOrder
  <2> QED
    BY <1>1, <2>1
<1>4. ASSUME NEW i \in Reads(cmds)
      PROVE  i < n + 1 /\ Is(cmds'[i + 1], "delete", cmds'[i].loc)
  <2>1. CASE i < n
    BY <1>1, <1>2, <2>1 DEF CmdsInOrder
  <2>2. CASE i = n
    <3>1. PICK k \in 1 .. n : /\ Is(cmds[k], "read", smsLoc)
                              /\ \A j \in k + 1 .. n : Is(cmds[j], "delete", smsLoc)
      BY <1>1 DEF CmdsInOrder
    <3>2. k = n
      BY <1>1, <2>2, <3>1 DEF Is, Reads
    <3> QED
      BY <1>1, <2>2, <3>1, <3>2 DEF Is
  <2> QED
    BY <1>1, <1>2, <2>1, <2>2
<1> QED
  BY <1>1, <1>2, <1>3, <1>4 DEF CmdsInOrder

LEMMA OrderStep ==
  ASSUME TypeOK, CmdsInOrder, [Next]_vars
  PROVE  CmdsInOrder'
<1>1. CASE UNCHANGED <<cmds, pc, smsLoc>>
  BY <1>1 DEF CmdsInOrder, InHand
<1>2. CASE Modem
  BY <1>2, OrderTail DEF Modem, ListServed, ReadServed, DeleteServed, Served, task
<1>3. CASE Listed \/ Return \/ Execute
  <2>1. cmds' = cmds /\ pc # "wait" /\ pc' \in {"take", "idle"}
    BY <1>3 DEF Listed, Return, Execute, modem
  <2> QED
    BY <2>1 DEF CmdsInOrder, InHand
<1>4. CASE List
  <2> DEFINE n == Len(cmds)
  <2>1. /\ n \in Nat /\ DOMAIN cmds = 1 .. n /\ pc = "idle" /\ pc' = "list"
        /\ Len(cmds') = n + 1 /\ DOMAIN cmds' = 1 .. n + 1
        /\ \A i \in 1 .. n : cmds'[i] = cmds[i]
        /\ cmds'[n + 1].op = "list"
    BY <1>4, AppendIs DEF TypeOK, List, Send
  <2>2. Reads(cmds') = Reads(cmds) /\ Reads(cmds) \subseteq 1 .. n
    BY <2>1 DEF Reads
  <2> QED
    BY <2>1, <2>2 DEF CmdsInOrder, InHand
<1>5. CASE Take
  <2> DEFINE n == Len(cmds)
  <2>1. /\ n \in Nat /\ DOMAIN cmds = 1 .. n /\ pc = "take" /\ pc' = "wait"
        /\ Len(cmds') = n + 1 /\ DOMAIN cmds' = 1 .. n + 1
        /\ \A i \in 1 .. n : cmds'[i] = cmds[i]
        /\ Is(cmds'[n + 1], "read", smsLoc')
    BY <1>5, AppendIs DEF TypeOK, Take, Send, Is
  <2>2. Reads(cmds') = Reads(cmds) \cup {n + 1} /\ Reads(cmds) \subseteq 1 .. n
    BY <2>1 DEF Reads, Is
  <2> QED
    BY <2>1, <2>2 DEF CmdsInOrder, InHand
<1>6. CASE Delete \/ DeleteAgain
  BY <1>6, OrderDelete DEF Delete, DeleteAgain, InHand, task
<1> QED
  BY <1>1, <1>2, <1>3, <1>4, <1>5, <1>6 DEF Next, Manage, Arrive, vars, modem, task
-----------------------------------------------------------------------------
(* The balance of losses and faults.                                       *)

LEMMA Bounded ==
  ASSUME NEW n \in Nat, NEW S \in SUBSET (1 .. n), NEW T \in SUBSET (1 .. n)
  PROVE  /\ Cardinality(S) \in Nat /\ Cardinality(T) \in Nat
         /\ T \subseteq S => Cardinality(T) <= Cardinality(S)
         /\ \A x : T \subseteq S \cup {x} => Cardinality(T) <= Cardinality(S) + 1
<1>1. IsFiniteSet(S) /\ IsFiniteSet(T)
  <2>1. IsFiniteSet(1 .. n)
    BY FS_Interval
  <2> QED
    BY <2>1, FS_Subset
<1>2. Cardinality(S) \in Nat /\ Cardinality(T) \in Nat
  BY <1>1, FS_CardinalityType
<1>3. ASSUME T \subseteq S
      PROVE  Cardinality(T) <= Cardinality(S)
  BY <1>1, <1>3, FS_Subset
<1>4. ASSUME NEW x, T \subseteq S \cup {x}
      PROVE  Cardinality(T) <= Cardinality(S) + 1
  <2>1. IsFiniteSet(S \cup {x}) /\ Cardinality(S \cup {x}) <= Cardinality(S) + 1
    <3>1. /\ IsFiniteSet(S \cup {x})
          /\ Cardinality(S \cup {x}) = IF x \in S THEN Cardinality(S) ELSE Cardinality(S) + 1
      BY <1>1, FS_AddElement
    <3> QED
      BY <1>2, <3>1
  <2>2. Cardinality(T) <= Cardinality(S \cup {x})
    BY <1>4, <2>1, FS_Subset
  <2>3. Cardinality(S \cup {x}) \in Nat
    BY <2>1, FS_CardinalityType
  <2> QED
    BY <1>2, <2>1, <2>2, <2>3
<1> QED
  BY <1>2, <1>3, <1>4

LEMMA LostBound ==
  ASSUME TypeOK, TypeOK', [Next]_vars
  PROVE  /\ Cardinality(Lost) \in Nat /\ Cardinality(Lost') \in Nat
         /\ Lost' \subseteq Lost => Cardinality(Lost') <= Cardinality(Lost)
         /\ \A x : Lost' \subseteq Lost \cup {x} => Cardinality(Lost') <= Cardinality(Lost) + 1
<1>1. msgs \in Nat /\ msgs' \in Nat /\ msgs <= msgs'
  BY DEF TypeOK, Next, vars, Arrive, Modem, ListServed, ReadServed, DeleteServed, Manage,
         List, Listed, Take, Return, Delete, DeleteAgain, Execute
<1>2. Lost \in SUBSET (1 .. msgs') /\ Lost' \in SUBSET (1 .. msgs')
  <2>1. deleted \subseteq 1 .. msgs /\ deleted' \subseteq 1 .. msgs'
    BY DEF TypeOK
  <2>2. 1 .. msgs \subseteq 1 .. msgs'
    BY <1>1
  <2> QED
    BY <2>1, <2>2 DEF Lost
<1> QED
  BY <1>1, <1>2, Bounded

LEMMA OwedIs ==
  ASSUME NEW S, NEW s \in Seq(S), NEW at
  PROVE  LET n == Cardinality(Deletes(s))
         IN  /\ n \in Nat /\ (Deletes(s) # {} <=> n >= 1)
             /\ OwedIn(s, at) = IF at = "delete" /\ n >= 1 THEN n - 1 ELSE n
<1>1. Cardinality(Deletes(s)) \in Nat /\ IsFiniteSet(Deletes(s))
  BY DeletesFinite
<1>2. Deletes(s) # {} <=> Cardinality(Deletes(s)) >= 1
  BY <1>1, FS_EmptySet
<1> QED
  BY <1>1, <1>2 DEF OwedIn

(* What the commands are after a step.                                     *)
LEMMA KindsTail ==
  ASSUME NEW S, NEW s \in Seq(S), s # <<>>
  PROVE  /\ Reads(Tail(s)) # {} => Reads(s) # {}
         /\ Head(s).op = "read" => Reads(s) # {}
         /\ Head(s).op # "read" => (Reads(Tail(s)) = {} <=> Reads(s) = {})
<1>1. /\ Len(s) \in Nat \ {0} /\ DOMAIN s = 1 .. Len(s) /\ DOMAIN Tail(s) = 1 .. Len(s) - 1
      /\ \A i \in 1 .. Len(s) - 1 : Tail(s)[i] = s[i + 1]
      /\ Head(s) = s[1]
  BY TailIs
<1>2. \A i \in Reads(Tail(s)) : i + 1 \in Reads(s)
  BY <1>1 DEF Reads
<1>3. \A i \in Reads(s) : i = 1 \/ i - 1 \in Reads(Tail(s))
  BY <1>1 DEF Reads
<1>4. 1 \in DOMAIN s
  BY <1>1
<1>5. 1 \in Reads(s) <=> Head(s).op = "read"
  BY <1>1, <1>4 DEF Reads
<1> QED
  BY <1>2, <1>3, <1>5

LEMMA KindsAppend ==
  ASSUME NEW S, NEW s \in Seq(S), NEW c
  PROVE  /\ c.op = "read" => Reads(Append(s, c)) # {}
         /\ c.op # "read" => (Reads(Append(s, c)) = {} <=> Reads(s) = {})
<1>1. /\ Len(s) \in Nat /\ DOMAIN s = 1 .. Len(s) /\ DOMAIN Append(s, c) = 1 .. Len(s) + 1
      /\ \A i \in 1 .. Len(s) : Append(s, c)[i] = s[i]
      /\ Append(s, c)[Len(s) + 1] = c
  BY AppendIs
<1>2. Reads(s) \subseteq Reads(Append(s, c))
  BY <1>1 DEF Reads
<1>3. \A i \in Reads(Append(s, c)) : i = Len(s) + 1 \/ i \in Reads(s)
  BY <1>1 DEF Reads
<1>4. Len(s) + 1 \in Reads(Append(s, c)) <=> c.op = "read"
  BY <1>1 DEF Reads
<1> QED
  BY <1>2, <1>3, <1>4

(* A step that loses nothing and owes no more, or pays for what it owes.   *)
LEMMA Kept ==
  ASSUME TypeOK, TypeOK', [Next]_vars, Balance, Lost' \subseteq Lost, Owed \in Nat, Owed' \in Nat,
         \/ faults' >= faults /\ Owed' <= Owed /\ (Doomed' => Doomed)
         \/ faults' = faults + 1 /\ Owed' <= Owed
         \/ faults' = faults + 1 /\ Owed' <= Owed + 1 /\ (Doomed' => Doomed)
  PROVE  Balance'
<1>1. /\ Cardinality(Lost) \in Nat /\ Cardinality(Lost') \in Nat
      /\ Cardinality(Lost') <= Cardinality(Lost)
  BY LostBound
<1>2. faults \in Nat /\ faults' \in Nat
  BY DEF TypeOK
<1> QED
  BY <1>1, <1>2 DEF Balance

LEMMA BalanceStep ==
  ASSUME TypeOK, TypeOK', CmdsInOrder, CmdsInOrder', Balance, [Next]_vars
  PROVE  Balance'
<1> DEFINE n == Cardinality(Deletes(cmds))
           m == Cardinality(Deletes(cmds'))
<1>1. /\ n \in Nat /\ (Deletes(cmds) # {} <=> n >= 1)
      /\ Owed = IF pc = "delete" /\ n >= 1 THEN n - 1 ELSE n
  BY OwedIs DEF TypeOK, Owed
<1>2. /\ m \in Nat /\ (Deletes(cmds') # {} <=> m >= 1)
      /\ Owed' = IF pc' = "delete" /\ m >= 1 THEN m - 1 ELSE m
  BY OwedIs DEF TypeOK, Owed
<1> HIDE DEF n, m
<1>3. faults \in Nat /\ faults' \in Nat
  BY DEF TypeOK
<1>4. Owed \in Nat /\ Owed' \in Nat
  BY <1>1, <1>2
<1>5. CASE UNCHANGED vars
  <2>1. Lost' = Lost /\ Owed' = Owed /\ (Doomed' <=> Doomed) /\ faults' = faults
    BY <1>5 DEF vars, modem, parser, task, history, Lost, Held, Owed, Doomed, InHand, Read
  <2> QED
    BY <1>4, <2>1 DEF Balance
<1>6. CASE Arrive
  <2>1. UNCHANGED <<cmds, pc, smsLoc, dataBuf, readFinish, executed, deleted, faults>>
    BY <1>6 DEF Arrive, task
  <2>2. crossed \subseteq crossed'
    BY <1>6 DEF Arrive
  <2>3. Lost' \subseteq Lost /\ Owed' = Owed
    BY <2>1, <2>2 DEF Lost, Held, Owed
  <2>4. ASSUME Doomed' PROVE Doomed
    <3>1. InHand /\ smsLoc \in Loc
      BY <2>1, <2>4 DEF Doomed, InHand
    <3>2. PICK l \in Loc : /\ store' = [store EXCEPT ![l] = msgs + 1]
                           /\ smsLoc = l => msgs + 1 \in crossed'
      BY <1>6, <3>1 DEF Arrive, InHand
    <3>3. smsLoc # l
      BY <2>1, <2>4, <3>2 DEF Doomed, TypeOK
    <3>4. store'[smsLoc] = store[smsLoc]
      BY <3>1, <3>2, <3>3 DEF TypeOK
    <3> QED
      BY <2>1, <2>2, <2>4, <3>4 DEF Doomed, InHand, Read
  <2> QED
    BY <1>3, <1>4, <2>1, <2>3, <2>4, Kept
<1>7. CASE ListServed
  <2>1. /\ cmds # <<>> /\ cmds' = Tail(cmds) /\ Head(cmds).op = "list"
        /\ UNCHANGED <<store, pc, smsLoc, dataBuf, readFinish, executed, deleted, crossed, faults>>
    BY <1>7 DEF ListServed, Served, task, history
  <2>2. m = n
    BY <1>1, <1>2, <2>1, DeletesTail DEF TypeOK, n, m
  <2>3. Reads(cmds') = {} <=> Reads(cmds) = {}
    BY <2>1, KindsTail DEF TypeOK
  <2>4. Lost' = Lost /\ Owed' = Owed
    BY <1>1, <1>2, <2>1, <2>2, <2>3 DEF Lost, Held
  <2>5. Doomed' <=> Doomed
    BY <1>1, <1>2, <2>1, <2>2, <2>3 DEF Doomed, InHand, Read
  <2> QED
    BY <1>4, <2>1, <2>4, <2>5 DEF Balance
<1>8. CASE ReadServed
  <2> DEFINE l == Head(cmds).loc
  <2>1. /\ cmds # <<>> /\ cmds' = Tail(cmds) /\ Head(cmds).op = "read"
        /\ UNCHANGED <<store, pc, smsLoc, executed, deleted, crossed>>
    BY <1>8 DEF ReadServed, Served, task, history
  <2>2. m = n
    BY <1>1, <1>2, <2>1, DeletesTail DEF TypeOK, n, m
  <2>3. Reads(cmds) # {}
    BY <2>1, KindsTail DEF TypeOK
  <2>4. Lost' \subseteq Lost /\ Owed' = Owed
    BY <1>1, <1>2, <2>1, <2>2, <2>3 DEF Lost, Held
  <2>5. ASSUME Doomed' PROVE faults' = faults + 1
    <3>1. InHand /\ Reads(cmds') = {}
      BY <2>1, <2>5 DEF Doomed, InHand
    <3>2. PICK i \in DOMAIN cmds : Is(cmds[i], "read", smsLoc)
      BY <2>3, <3>1 DEF CmdsInOrder
    <3>3. i = 1
      <4>1. /\ Len(cmds) \in Nat /\ DOMAIN cmds = 1 .. Len(cmds)
            /\ DOMAIN Tail(cmds) = 1 .. Len(cmds) - 1
            /\ \A k \in 1 .. Len(cmds) - 1 : Tail(cmds)[k] = cmds[k + 1]
        BY <2>1, TailIs DEF TypeOK
      <4>2. ASSUME i # 1 PROVE i - 1 \in Reads(cmds')
        BY <2>1, <3>2, <4>1, <4>2 DEF Reads, Is
      <4> QED
        BY <3>1, <4>2
    <3>4. l = smsLoc
      BY <2>1, <3>2, <3>3, TailIs DEF TypeOK, Is
    <3>5. store[l] # None /\ l \in Loc /\ ~(readFinish' /\ dataBuf' = store[l])
      BY <2>1, <2>5, <3>4 DEF Doomed, Read
    <3> QED
      BY <1>8, <3>5 DEF ReadServed
  <2>6. faults' \in {faults, faults + 1}
    BY <1>8 DEF ReadServed
  <2> QED
    BY <1>3, <1>4, <2>4, <2>5, <2>6, Kept
<1>9. CASE DeleteServed
  <2> DEFINE l == Head(cmds).loc
  <2>1. /\ cmds # <<>> /\ cmds' = Tail(cmds) /\ Head(cmds).op = "delete"
        /\ UNCHANGED <<pc, smsLoc, dataBuf, readFinish, executed, crossed, faults>>
    BY <1>9 DEF DeleteServed, Served, parser, task
  <2>2. n = m + 1
    BY <1>1, <1>2, <2>1, DeletesTail DEF TypeOK, n, m
  <2>3. Reads(cmds') = {} <=> Reads(cmds) = {}
    BY <2>1, KindsTail DEF TypeOK
  <2>4. Held' = Held
    BY <2>1, <2>3 DEF Held
  <2>5. /\ l \in Loc => /\ store' = [store EXCEPT ![l] = None]
                        /\ deleted' = deleted \cup ({store[l]} \ {None})
        /\ l \notin Loc => UNCHANGED <<store, deleted>>
    BY <1>9 DEF DeleteServed
  <2>6. Lost' \subseteq Lost \cup {store[l]}
    BY <2>1, <2>4, <2>5 DEF Lost
  <2>7. Cardinality(Lost) \in Nat /\ Cardinality(Lost') \in Nat /\ Cardinality(Lost') <= Cardinality(Lost) + 1
    BY <2>6, LostBound
  <2>8. CASE pc # "delete" \/ m >= 1
    <3>1. Owed' = Owed - 1
      BY <1>1, <1>2, <2>1, <2>2, <2>8
    <3>2. ASSUME Doomed' PROVE Doomed
      <4>1. store'[smsLoc] # None /\ smsLoc \in Loc => store'[smsLoc] = store[smsLoc]
        BY <2>5 DEF TypeOK
      <4> QED
        BY <1>1, <1>2, <2>1, <2>2, <2>3, <3>2, <4>1 DEF Doomed, InHand, Read
    <3> QED
      BY <1>3, <1>4, <2>1, <2>7, <3>1, <3>2 DEF Balance
  <2>9. CASE pc = "delete" /\ m = 0
    <3>1. /\ Len(cmds) \in Nat \ {0} /\ DOMAIN cmds = 1 .. Len(cmds) /\ Head(cmds) = cmds[1]
          /\ DOMAIN Tail(cmds) = 1 .. Len(cmds) - 1
          /\ \A k \in 1 .. Len(cmds) - 1 : Tail(cmds)[k] = cmds[k + 1]
      BY <2>1, TailIs DEF TypeOK
    <3>2. Is(cmds[Len(cmds)], "delete", smsLoc)
      BY <2>1, <2>9 DEF CmdsInOrder
    <3>3. Len(cmds) = 1
      <4>1. ASSUME Len(cmds) # 1 PROVE Len(cmds) - 1 \in Deletes(cmds')
        BY <2>1, <3>1, <3>2, <4>1 DEF Deletes, Is
      <4> QED
        BY <1>2, <2>9, <4>1
    <3>4. l = smsLoc
      BY <3>1, <3>2, <3>3 DEF Is
    <3>5. Reads(cmds) = {}
      BY <2>1, <3>1, <3>3 DEF Reads
    <3>6. Owed = 0 /\ Owed' = 0 /\ ~Doomed'
      BY <1>1, <1>2, <2>1, <2>2, <2>9 DEF Doomed
    <3>7. CASE Doomed
      BY <1>3, <2>1, <2>7, <3>6, <3>7 DEF Balance
    <3>8. CASE ~Doomed
      <4>1. l \in Loc => store[l] \in {None} \cup executed \cup crossed \cup Held
        BY <1>1, <2>2, <2>9, <3>4, <3>5, <3>8 DEF Doomed, InHand, Read, Held
      <4>2. Lost' \subseteq Lost
        BY <2>1, <2>4, <2>5, <4>1 DEF Lost
      <4> QED
        BY <1>3, <1>4, <2>1, <3>6, <4>2, Kept
    <3> QED
      BY <3>7, <3>8
  <2> QED
    BY <1>2, <2>8, <2>9
<1>10. CASE List
  <2>1. /\ pc = "idle" /\ pc' = "list" /\ \E c : c.op = "list" /\ cmds' = Append(cmds, c)
        /\ UNCHANGED <<executed, deleted, crossed, faults>>
    BY <1>10 DEF List, Send, history
  <2>2. m = n
    BY <1>1, <1>2, <2>1, DeletesAppend DEF TypeOK, n, m
  <2>3. Lost' \subseteq Lost /\ Owed' = Owed /\ ~Doomed'
    BY <1>1, <1>2, <2>1, <2>2 DEF Lost, Held, Doomed, InHand
  <2> QED
    BY <1>3, <1>4, <2>1, <2>3, Kept
<1>11. CASE Listed \/ Return
  <2>1. /\ pc \in {"list", "take"} /\ pc' \in {"take", "idle"} /\ cmds' = cmds
        /\ UNCHANGED <<executed, deleted, crossed>>
    BY <1>11 DEF Listed, Return, modem, history
  <2>2. faults' \in {faults, faults + 1}
    BY <1>11 DEF Listed, Return, Answered
  <2>3. Lost' \subseteq Lost /\ Owed' = Owed /\ ~Doomed'
    BY <1>1, <1>2, <2>1 DEF Lost, Held, Doomed, InHand, n, m
  <2> QED
    BY <1>3, <1>4, <2>2, <2>3, Kept
<1>12. CASE Take
  <2>1. /\ pc = "take" /\ pc' = "wait" /\ \E c : c.op = "read" /\ cmds' = Append(cmds, c)
        /\ UNCHANGED <<executed, deleted, crossed, faults>>
    BY <1>12 DEF Take, Send, history
  <2>2. m = n /\ Reads(cmds') # {}
    BY <1>1, <1>2, <2>1, DeletesAppend, KindsAppend DEF TypeOK, n, m
  <2>3. Lost' \subseteq Lost /\ Owed' = Owed /\ ~Doomed'
    BY <1>1, <1>2, <2>1, <2>2 DEF Lost, Held, Doomed
  <2> QED
    BY <1>3, <1>4, <2>1, <2>3, Kept
<1>13. CASE Delete
  <2>1. /\ pc = "wait" /\ pc' = "delete" /\ \E c : c.op = "delete" /\ cmds' = Append(cmds, c)
        /\ UNCHANGED <<store, smsLoc, dataBuf, readFinish, executed, deleted, crossed>>
    BY <1>13 DEF Delete, Send, parser, history
  <2>2. m = n + 1 /\ (Reads(cmds') = {} <=> Reads(cmds) = {})
    BY <1>1, <1>2, <2>1, DeletesAppend, KindsAppend DEF TypeOK, n, m
  <2>3. faults' >= faults
    BY <1>3, <1>13 DEF Delete, Answered
  <2>4. Lost' \subseteq Lost /\ Owed' = Owed
    BY <1>1, <1>2, <2>1, <2>2 DEF Lost, Held
  <2>5. Doomed' => Doomed
    BY <2>1, <2>2 DEF Doomed, InHand, Read
  <2> QED
    BY <1>4, <2>3, <2>4, <2>5, Kept
<1>14. CASE DeleteAgain
  <2>1. /\ pc = "delete" /\ pc' = "delete" /\ \E c : c.op = "delete" /\ cmds' = Append(cmds, c)
        /\ UNCHANGED <<store, smsLoc, dataBuf, readFinish, executed, deleted, crossed>>
        /\ faults' = faults + 1
    BY <1>14 DEF DeleteAgain, Send, parser, task, history
  <2>2. m = n + 1 /\ (Reads(cmds') = {} <=> Reads(cmds) = {})
    <3>1. PICK c : c.op = "delete" /\ cmds' = Append(cmds, c)
      BY <2>1
    <3>2. cmds \in Seq(Entries(cmds)) /\ c.op # "read"
      BY <3>1 DEF TypeOK
    <3>3. m = n + 1
      BY <3>1, <3>2, DeletesAppend DEF n, m
    <3> QED
      BY <3>1, <3>2, <3>3, KindsAppend
  <2>3. Lost' \subseteq Lost
    BY <2>1, <2>2 DEF Lost, Held
  <2>4. CASE n = 0
    BY <1>1, <1>2, <1>4, <2>1, <2>2, <2>3, <2>4, Kept
  <2>5. CASE n >= 1
    <3>1. Owed' = Owed + 1
      BY <1>1, <1>2, <2>1, <2>2, <2>5
    <3>2. Doomed' => Doomed
      BY <1>1, <2>1, <2>2, <2>5 DEF Doomed, InHand, Read
    <3> QED
      BY <1>4, <2>1, <2>3, <3>1, <3>2, Kept
  <2> QED
    BY <1>1, <2>4, <2>5
<1>15. CASE Execute
  <2>1. /\ pc = "delete" /\ pc' = "take" /\ UNCHANGED <<cmds, deleted, crossed>>
        /\ executed' = IF readFinish THEN executed \cup {dataBuf} ELSE executed
    BY <1>15 DEF Execute, modem
  <2>2. Lost' \subseteq Lost /\ ~Doomed'
    BY <2>1 DEF Lost, Held, Doomed, InHand
  <2>3. m = n
    BY <2>1 DEF n, m
  <2>4. CASE n = 0
    <3>1. Owed' = Owed /\ faults' >= faults
      BY <1>1, <1>2, <1>3, <1>15, <2>1, <2>3, <2>4 DEF Execute, Answered
    <3> QED
      BY <1>4, <2>2, <3>1, Kept
  <2>5. CASE n >= 1
    <3>1. cmds # <<>>
      <4>1. Deletes(<<>>) = {}
        BY DEF Deletes
      <4> QED
        BY <1>1, <2>5, <4>1
    <3>2. Owed' = Owed + 1 /\ faults' = faults + 1
      BY <1>1, <1>2, <1>15, <2>1, <2>3, <2>5, <3>1 DEF Execute, Answered
    <3> QED
      BY <1>4, <2>2, <3>2, Kept
  <2> QED
    BY <1>1, <2>4, <2>5
<1> QED
  BY <1>5, <1>6, <1>7, <1>8, <1>9, <1>10, <1>11, <1>12, <1>13, <1>14, <1>15
     DEF Next, Modem, Manage
-----------------------------------------------------------------------------
(* What is executed is not read again.                                     *)

LEMMA ExpiringTail ==
  ASSUME NEW S, NEW s \in Seq(S), s # <<>>, NEW l
  PROVE  /\ ExpiringIn(s, l) /\ ~Is(Head(s), "delete", l) => ExpiringIn(Tail(s), l)
         /\ ExpiringIn(s, l) => ~Is(Head(s), "read", l)
         /\ Unread(s, l) => Unread(Tail(s), l)
<1>1. /\ Len(s) \in Nat \ {0} /\ DOMAIN s = 1 .. Len(s) /\ DOMAIN Tail(s) = 1 .. Len(s) - 1
      /\ \A i \in 1 .. Len(s) - 1 : Tail(s)[i] = s[i + 1]
      /\ Head(s) = s[1]
  BY TailIs
<1>2. ASSUME ExpiringIn(s, l), ~Is(Head(s), "delete", l)
      PROVE  ExpiringIn(Tail(s), l)
  <2>1. PICK j \in 1 .. Len(s) : /\ Is(s[j], "delete", l)
                                 /\ \A i \in 1 .. j - 1 : ~Is(s[i], "read", l)
    BY <1>1, <1>2 DEF ExpiringIn
  <2>2. j # 1
    BY <1>1, <1>2, <2>1
  <2>3. j - 1 \in 1 .. Len(s) - 1 /\ Is(Tail(s)[j - 1], "delete", l)
    BY <1>1, <2>1, <2>2
  <2>4. \A i \in 1 .. (j - 1) - 1 : ~Is(Tail(s)[i], "read", l)
    BY <1>1, <2>1, <2>3
  <2> QED
    BY <1>1, <2>3, <2>4 DEF ExpiringIn
<1>3. ASSUME ExpiringIn(s, l)
      PROVE  ~Is(Head(s), "read", l)
  <2>1. PICK j \in 1 .. Len(s) : /\ Is(s[j], "delete", l)
                                 /\ \A i \in 1 .. j - 1 : ~Is(s[i], "read", l)
    BY <1>1, <1>3 DEF ExpiringIn
  <2>2. CASE j = 1
    BY <1>1, <2>1, <2>2 DEF Is
  <2>3. CASE j # 1
    BY <1>1, <2>1, <2>3
  <2> QED
    BY <2>2, <2>3
<1>4. ASSUME Unread(s, l)
      PROVE  Unread(Tail(s), l)
  BY <1>1, <1>4 DEF Unread
<1> QED
  BY <1>2, <1>3, <1>4

LEMMA ExpiringAppend ==
  ASSUME NEW S, NEW s \in Seq(S), NEW c, NEW l
  PROVE  /\ ExpiringIn(s, l) => ExpiringIn(Append(s, c), l)
         /\ Unread(s, l) /\ Is(c, "delete", l) => ExpiringIn(Append(s, c), l)
<1>1. /\ Len(s) \in Nat /\ DOMAIN s = 1 .. Len(s) /\ DOMAIN Append(s, c) = 1 .. Len(s) + 1
      /\ \A i \in 1 .. Len(s) : Append(s, c)[i] = s[i]
      /\ Append(s, c)[Len(s) + 1] = c
  BY AppendIs
<1>2. ASSUME ExpiringIn(s, l)
      PROVE  ExpiringIn(Append(s, c), l)
  <2>1. PICK j \in 1 .. Len(s) : /\ Is(s[j], "delete", l)
                                 /\ \A i \in 1 .. j - 1 : ~Is(s[i], "read", l)
    BY <1>1, <1>2 DEF ExpiringIn
  <2>2. \A i \in 1 .. j - 1 : ~Is(Append(s, c)[i], "read", l)
    BY <1>1, <2>1
  <2> QED
    BY <1>1, <2>1, <2>2 DEF ExpiringIn
<1>3. ASSUME Unread(s, l), Is(c, "delete", l)
      PROVE  ExpiringIn(Append(s, c), l)
  <2>1. \A i \in 1 .. (Len(s) + 1) - 1 : ~Is(Append(s, c)[i], "read", l)
    BY <1>1, <1>3 DEF Unread
  <2> QED
    BY <1>1, <1>3, <2>1 DEF ExpiringIn
<1> QED
  BY <1>2, <1>3

(* A step deletes the message, or leaves the deletion before any reading.  *)
LEMMA StillExpiring ==
  ASSUME TypeOK, [Next]_vars, NEW l, Expiring(l)
  PROVE  \/ Expiring(l)'
         \/ cmds # <<>> /\ cmds' = Tail(cmds) /\ Is(Head(cmds), "delete", l)
<1>1. cmds \in Seq(Entries(cmds))
  BY DEF TypeOK
<1>2. CASE cmds' = cmds
  BY <1>2 DEF Expiring
<1>3. CASE cmds # <<>> /\ cmds' = Tail(cmds)
  BY <1>1, <1>3, ExpiringTail DEF Expiring
<1>4. ASSUME NEW c, cmds' = Append(cmds, c)
      PROVE  Expiring(l)'
  BY <1>1, <1>4, ExpiringAppend DEF Expiring
<1> QED
  BY <1>2, <1>3, <1>4, CmdsStep

LEMMA NotTwiceStep ==
  ASSUME TypeOK, TypeOK', CmdsInOrder, NotTwice, [Next]_vars
  PROVE  NotTwice'
<1>0. Apart /\ ExecutedExpire /\ BufferNew
  BY DEF NotTwice
<1> SUFFICES Apart' /\ ExecutedExpire' /\ BufferNew'
  BY DEF NotTwice
<1>1. CASE UNCHANGED vars
  BY <1>0, <1>1 DEF vars, modem, parser, task, history, Apart, ExecutedExpire, BufferNew, Expiring, InHand
<1>2. CASE Arrive
  <2>1. PICK a \in Loc : store[a] = None /\ store' = [store EXCEPT ![a] = msgs + 1]
    BY <1>2 DEF Arrive
  <2>2. UNCHANGED <<cmds, pc, smsLoc, dataBuf, readFinish, executed>>
    BY <1>2 DEF Arrive, task
  <2>3. /\ \A l \in Loc : store[l] # msgs + 1
        /\ msgs + 1 \notin executed /\ dataBuf # msgs + 1
    BY DEF TypeOK
  <2>4. \A l \in Loc : store'[l] = IF l = a THEN msgs + 1 ELSE store[l]
    BY <2>1 DEF TypeOK
  <2>5. Apart'
    BY <1>0, <2>3, <2>4 DEF Apart
  <2>6. ExecutedExpire'
    BY <1>0, <2>2, <2>3, <2>4 DEF ExecutedExpire, Expiring
  <2>7. BufferNew'
    BY <1>0, <2>2, <2>3, <2>4 DEF BufferNew, InHand, Expiring
  <2> QED
    BY <2>5, <2>6, <2>7
<1>3. CASE ListServed
  <2>1. /\ cmds # <<>> /\ cmds' = Tail(cmds) /\ Head(cmds).op = "list"
        /\ UNCHANGED <<store, pc, smsLoc, dataBuf, readFinish, executed>>
    BY <1>3 DEF ListServed, Served, task, history
  <2>2. \A l : Expiring(l) => Expiring(l)'
    BY <2>1, StillExpiring DEF Is
  <2>3. \A l : Unread(cmds, l) => Unread(cmds', l)
    BY <2>1, ExpiringTail DEF TypeOK
  <2> QED
    BY <1>0, <2>1, <2>2, <2>3 DEF Apart, ExecutedExpire, BufferNew, InHand
<1>4. CASE ReadServed
  <2>0. PICK r : r = Head(cmds).loc
    OBVIOUS
  <2>1. /\ cmds # <<>> /\ cmds' = Tail(cmds) /\ Is(Head(cmds), "read", r)
        /\ UNCHANGED <<store, pc, smsLoc, executed>>
    BY <1>4, <2>0 DEF ReadServed, Served, task, history, Is
  <2>2. \A l : Expiring(l) => Expiring(l)'
    BY <2>1, StillExpiring DEF Is
  <2>3. \A l : Unread(cmds, l) => Unread(cmds', l)
    BY <2>1, ExpiringTail DEF TypeOK
  <2>4. Apart' /\ ExecutedExpire'
    BY <1>0, <2>1, <2>2 DEF Apart, ExecutedExpire
  <2>5. CASE UNCHANGED <<dataBuf, readFinish>>
    BY <1>0, <2>1, <2>2, <2>3, <2>4, <2>5 DEF BufferNew, InHand
  <2>6. CASE r \in Loc /\ store[r] # None /\ dataBuf' = store[r]
    <3>1. store[r] \notin executed
      <4>1. ~Expiring(r)
        BY <2>1, ExpiringTail DEF TypeOK, Expiring
      <4> QED
        BY <1>0, <2>6, <4>1 DEF ExecutedExpire
    <3>2. \A l \in Loc : store[l] = store[r] => l = r
      BY <1>0, <2>6 DEF Apart
    <3>3. /\ Len(cmds) \in Nat \ {0} /\ DOMAIN cmds = 1 .. Len(cmds) /\ Head(cmds) = cmds[1]
          /\ DOMAIN cmds' = 1 .. Len(cmds) - 1
          /\ \A k \in 1 .. Len(cmds) - 1 : cmds'[k] = cmds[k + 1]
      BY <2>1, TailIs DEF TypeOK
    <3>4. 1 \in Reads(cmds)
      BY <2>1, <3>3 DEF Reads, Is
    <3>5. CASE 1 < Len(cmds) /\ Is(cmds[2], "delete", r)
      <4>1. Expiring(r)'
        <5>1. 1 \in DOMAIN cmds' /\ Is(cmds'[1], "delete", r)
          BY <3>3, <3>5
        <5>2. \A i \in 1 .. 1 - 1 : ~Is(cmds'[i], "read", r)
          OBVIOUS
        <5> QED
          BY <5>1, <5>2 DEF Expiring, ExpiringIn
      <4> QED
        BY <2>1, <2>4, <2>6, <3>1, <3>2, <4>1 DEF BufferNew
    <3>6. CASE 1 = Len(cmds) /\ pc = "wait"
      <4>1. Unread(cmds', r)
        <5>1. DOMAIN cmds' = {}
          <6>1. Len(cmds) = 1
            BY <3>6
          <6>2. DOMAIN cmds' = 1 .. 0
            BY ONLY <3>3, <6>1
          <6> QED
            BY <6>2
        <5> QED
          BY <5>1 DEF Unread
      <4>2. r = smsLoc
        <5>1. PICK i \in DOMAIN cmds : Is(cmds[i], "read", smsLoc)
          BY <3>4, <3>6 DEF CmdsInOrder, InHand
        <5> QED
          <6>1. Len(cmds) = 1
            BY <3>6
          <6>2. i = 1
            BY ONLY <3>3, <5>1, <6>1
          <6> QED
            BY <2>1, <3>3, <5>1, <6>2 DEF Is
      <4> QED
        BY <2>1, <2>4, <2>6, <3>1, <3>2, <3>6, <4>1, <4>2 DEF BufferNew
    <3>7. \/ 1 < Len(cmds) /\ Is(cmds[1 + 1], "delete", r)
          \/ 1 = Len(cmds) /\ pc = "wait"
      BY <2>1, <3>3, <3>4 DEF CmdsInOrder, Is
    <3> QED
      BY <3>5, <3>6, <3>7
  <2> QED
    BY <1>4, <2>0, <2>5, <2>6 DEF ReadServed
<1>5. CASE DeleteServed
  <2> DEFINE d == Head(cmds).loc
  <2>1. /\ cmds # <<>> /\ cmds' = Tail(cmds)
        /\ UNCHANGED <<pc, smsLoc, dataBuf, readFinish, executed>>
        /\ store' = [store EXCEPT ![d] = None] \/ (d \notin Loc /\ store' = store)
    BY <1>5 DEF DeleteServed, Served, parser, task
  <2>2. \A l \in Loc : store'[l] = IF l = d THEN None ELSE store[l]
    BY <2>1 DEF TypeOK
  <2>3. \A l \in Loc : l # d /\ Expiring(l) => Expiring(l)'
    BY StillExpiring DEF Is
  <2>4. \A l : Unread(cmds, l) => Unread(cmds', l)
    BY <2>1, ExpiringTail DEF TypeOK
  <2>5. readFinish => dataBuf # None
    BY DEF TypeOK
  <2> QED
    BY <1>0, <2>1, <2>2, <2>3, <2>4, <2>5 DEF Apart, ExecutedExpire, BufferNew, InHand
<1>6. CASE List \/ Listed \/ Return \/ Take
  <2>1. UNCHANGED <<store, executed>> /\ (cmds' = cmds \/ \E c : cmds' = Append(cmds, c))
    BY <1>6 DEF List, Listed, Return, Take, Send, modem, history
  <2>2. ~(InHand' /\ readFinish')
    BY <1>6 DEF List, Listed, Return, Take, InHand
  <2>3. \A l : Expiring(l) => Expiring(l)'
    BY <2>1, ExpiringAppend DEF TypeOK, Expiring
  <2> QED
    BY <1>0, <2>1, <2>2, <2>3 DEF Apart, ExecutedExpire, BufferNew
<1>7. CASE Delete \/ DeleteAgain
  <2>1. /\ UNCHANGED <<store, smsLoc, dataBuf, readFinish, executed>> /\ InHand /\ pc' = "delete"
        /\ \E c : Is(c, "delete", smsLoc) /\ cmds' = Append(cmds, c)
    BY <1>7 DEF Delete, DeleteAgain, Send, parser, task, history, InHand, Is
  <2>2. \A l : Expiring(l) => Expiring(l)'
    BY <2>1, ExpiringAppend DEF TypeOK, Expiring
  <2>3. Unread(cmds, smsLoc) => Expiring(smsLoc)'
    BY <2>1, ExpiringAppend DEF TypeOK, Expiring
  <2> QED
    BY <1>0, <2>1, <2>2, <2>3 DEF Apart, ExecutedExpire, BufferNew
<1>8. CASE Execute
  <2>1. /\ UNCHANGED <<store, cmds>> /\ pc = "delete" /\ ~InHand'
        /\ executed' = IF readFinish THEN executed \cup {dataBuf} ELSE executed
    BY <1>8 DEF Execute, modem, InHand
  <2>2. \A l \in Loc : readFinish /\ store[l] = dataBuf => Expiring(l)
    BY <1>0, <2>1 DEF BufferNew, InHand
  <2> QED
    BY <1>0, <2>1, <2>2 DEF Apart, ExecutedExpire, BufferNew, Expiring
<1> QED
  BY <1>1, <1>2, <1>3, <1>4, <1>5, <1>6, <1>7, <1>8 DEF Next, Modem, Manage
-----------------------------------------------------------------------------
(* The theorems.                                                           *)

LEMMA Initially == Init => IInv
<1> SUFFICES ASSUME Init PROVE IInv
  OBVIOUS
<1> USE DEF Init
<1>1. TypeOK
  <2>1. cmds \in Seq(Entries(cmds))
    BY EmptySeq
  <2>2. store \in [Loc -> 0 .. msgs] /\ dataBuf \in 0 .. msgs
    BY DEF None
  <2> QED
    BY <2>1, <2>2 DEF TypeOK
<1>2. CmdsInOrder
  BY DEF CmdsInOrder, InHand, Reads
<1>3. Balance
  <2>1. Lost = {} /\ Deletes(cmds) = {} /\ ~Doomed
    BY DEF Lost, Held, Deletes, Doomed, InHand
  <2> QED
    BY <2>1, FS_EmptySet DEF Balance, Owed, OwedIn
<1>4. NotTwice
  BY DEF NotTwice, Apart, ExecutedExpire, BufferNew, InHand
<1> QED
  BY <1>1, <1>2, <1>3, <1>4 DEF IInv

LEMMA Inductive == IInv /\ [Next]_vars => IInv'
BY TypeStep, OrderStep, BalanceStep, NotTwiceStep DEF IInv

(* The invariant holds whatever the modem and the main loop do.            *)
THEOREM InboxInvariant == Spec => []IInv
BY Initially, Inductive, PTL DEF Spec

(* For every message that is deleted and not executed, except one that     *)
(* came to the location at hand, an answer of the modem was garbled or     *)
(* late: SMS_Manage and the modem lose none between them.                  *)
THEOREM LossesCorrect == Spec => []LossesPaid
<1>1. IInv => LossesPaid
  <2> SUFFICES ASSUME IInv PROVE LossesPaid
    OBVIOUS
  <2> DEFINE L == deleted \ (executed \cup crossed \cup AboutToExecute)
  <2>1. L \subseteq Lost
    BY DEF Lost, Held, AboutToExecute
  <2>2. msgs \in Nat /\ Lost \in SUBSET (1 .. msgs) /\ L \in SUBSET (1 .. msgs)
    BY DEF IInv, TypeOK, Lost
  <2> HIDE DEF L
  <2>3. /\ Cardinality(L) \in Nat /\ Cardinality(Lost) \in Nat
        /\ Cardinality(L) <= Cardinality(Lost)
    BY <2>1, <2>2, Bounded
  <2>4. Owed \in Nat
    BY OwedIs DEF IInv, TypeOK, Owed
  <2>5. Cardinality(L) <= faults
    BY <2>3, <2>4 DEF IInv, Balance, TypeOK
  <2> QED
    BY <2>5 DEF LossesPaid, L
<1> QED
  BY <1>1, InboxInvariant, PTL

(* No message is executed twice: what is executed is deleted before the    *)
(* modem is asked for it again.                                            *)
THEOREM OnceCorrect == Spec => ExecutedOnce
<1>1. IInv /\ [Next]_vars =>
        [pc = "delete" /\ pc' = "take" /\ readFinish => dataBuf \notin executed]_vars
  BY DEF IInv, NotTwice, BufferNew, InHand
<1> QED
  BY <1>1, InboxInvariant, PTL DEF Spec, ExecutedOnce
=============================================================================
