-------------------------- MODULE RetentionProofs --------------------------
(***************************************************************************)
(* What the tracker does not lose, for every size, link, cut and fault:    *)
(* the records on their way from the log to the server (Delivery), and the *)
(* single values in the flash (ValueJournal), as long as each value has a  *)
(* sector of its own and no entry is written over the end of one.          *)
(***************************************************************************)
EXTENDS Delivery, ValueJournal, FiniteSetTheorems, TLAPS

(* What both order by: a set of numbers has a least one.                   *)
LEMMA Smallest ==
  ASSUME NEW S \in SUBSET Nat, S # {}
  PROVE  \E x \in S : \A q \in S : x <= q
<1> DEFINE Less == {ss \in Nat \X Nat : ss[1] < ss[2]}
<1>1. IsWellFoundedOn(Less, Nat)
  BY NatLessThanWellFounded DEF OpToRel
<1>2. PICK x \in S : \A q \in S : <<q, x>> \notin Less
  BY <1>1, WFMin
<1>3. \A q \in S : q \in Nat /\ x \in Nat /\ ~(q < x)
  BY <1>2
<1> HIDE DEF Less
<1> QED BY <1>3
-----------------------------------------------------------------------------
(* The records.                                                            *)
LogType == [pending : SUBSET Records, logSend : Records \cup {None},
            serverSent : BOOLEAN, held : BOOLEAN]

(* Least is the least element.                                             *)
LEMMA LeastExists ==
  ASSUME NEW S \in SUBSET Records, S # {}
  PROVE  Least(S) \in S /\ \A q \in S : Least(S) <= q
<1>1. S \in SUBSET Nat
  BY DeliveryAssumption DEF Records
<1> QED BY <1>1, Smallest DEF Least

LEMMA LeastIs ==
  ASSUME NEW S \in SUBSET Records, NEW x \in S, \A q \in S : x <= q
  PROVE  Least(S) = x
<1>1. Least(S) \in S /\ \A q \in S : Least(S) <= q
  BY LeastExists
<1>2. Least(S) <= x /\ x <= Least(S)
  BY <1>1
<1>3. Least(S) \in Int /\ x \in Int
  <2>1. Records \in SUBSET Int
    BY DeliveryAssumption DEF Records
  <2>2. Least(S) \in Records /\ x \in Records
    BY <1>1
  <2> QED
    BY <2>1, <2>2
<1> QED
  BY <1>2, <1>3

LEMMA NewestExists ==
  ASSUME NEW S \in SUBSET Records, S # {}
  PROVE  Newest(S) \in S
<1> DEFINE R == {MaxRec + 1 - x : x \in S}
<1>1. MaxRec \in Nat /\ \A x \in S : x \in 1 .. MaxRec /\ MaxRec + 1 - x \in 1 .. MaxRec
  BY DeliveryAssumption DEF Records
<1>2. R \in SUBSET Records /\ R # {}
  BY <1>1 DEF Records
<1>3. PICK m \in R : \A r \in R : m <= r
  BY <1>2, LeastExists
<1>4. PICK x \in S : m = MaxRec + 1 - x
  OBVIOUS
<1>5. \A q \in S : m <= MaxRec + 1 - q
  BY <1>3
<1> HIDE DEF R
<1>6. \A q \in S : q <= x
  BY <1>1, <1>4, <1>5
<1> QED
  BY <1>6 DEF Newest

LEMMA GetDataType ==
  ASSUME NEW l \in LogType
  PROVE  /\ GetData(l) \in LogType /\ Taken(l) \in SUBSET Records
         /\ GetData(l).pending \in SUBSET l.pending
         /\ GetData(l).logSend \in {l.logSend} \cup l.pending
<1> DEFINE rest == l.pending \ Taken(l)
<1>1. l.pending \in SUBSET Records
  BY DEF LogType
<1>2. Taken(l) \in SUBSET Records
  BY <1>1, LeastExists DEF Taken
<1>3. rest \in SUBSET l.pending /\ (rest # {} => Least(rest) \in rest)
  BY <1>1, LeastExists
<1> HIDE DEF rest
<1>4. GetData(l) = IF l.pending = {} \/ l.held THEN l
                   ELSE [pending |-> rest, serverSent |-> FALSE,
                         held |-> rest # {},
                         logSend |-> IF rest = {} THEN l.logSend ELSE Least(rest)]
  BY DEF GetData, rest
<1>5. CASE l.pending = {} \/ l.held
  BY <1>2, <1>4, <1>5
<1>6. CASE ~(l.pending = {} \/ l.held)
  BY <1>1, <1>2, <1>3, <1>4, <1>6 DEF LogType
<1> QED
  BY <1>5, <1>6

(* Types.                                                                  *)
THEOREM TypeCorrect == Spec => []TypeOK
<1> USE DeliveryAssumption
<1>1. Init => TypeOK
  <2> SUFFICES ASSUME Init PROVE TypeOK
    OBVIOUS
  <2>1. rpBuf \in Packet /\ rexmitCnt \in 0 .. MaxRexmit - 1
        /\ nextRec \in 1 .. MaxRec + 1
    BY DEF Init, NoPacket, Packet
  <2>2. log \in LogType
    BY DEF Init, LogType
  <2>3. getAddrFlag \in BOOLEAN /\ askAddrCnt \in Nat
    BY DEF Init
  <2>4. /\ stalls \in 0 .. MaxStall /\ resets \in 0 .. MaxReset
        /\ restarts \in 0 .. MaxRestart /\ sms \in 0 .. MaxSms
    BY DEF Init
  <2>5. acked \subseteq Records /\ skipped \subseteq Records /\ detours \in Nat
    BY DEF Init
  <2>6. /\ rpState \in {"INITIAL", "CONNECT", "CONNECTED", "WAIT_TIMEOUT_RECONNECT"}
        /\ tcp \in {"none", "opening", "open", "lost"}
        /\ logRecord \in Records \cup {None} /\ newestLog \in Records \cup {None}
    BY DEF Init
  <2> QED
    BY <2>1, <2>2, <2>3, <2>4, <2>5, <2>6 DEF TypeOK, LogType
<1>2. TypeOK /\ [Next]_vars => TypeOK'
  <2> SUFFICES ASSUME TypeOK, [Next]_vars PROVE TypeOK'
    OBVIOUS
  <2>0. NoPacket \in Packet /\ log \in LogType
    BY DEF NoPacket, Packet, TypeOK, LogType
  <2>1. CASE StoreRecord
    <3>1. nextRec \in Records
      BY <2>1 DEF StoreRecord, TypeOK, Records
    <3>2. log' \in LogType /\ detours' \in Nat
      BY <2>0, <2>1, <3>1 DEF StoreRecord, LogType, TypeOK
    <3> QED
      BY <2>1, <3>1, <3>2
         DEF StoreRecord, TypeOK, LogType, conn, addr, Records
  <2>2. CASE ResetLog
    BY <2>2 DEF ResetLog, TypeOK, conn, addr
  <2>3. CASE AskAddress
    BY <2>3 DEF AskAddress, TypeOK, conn, history
  <2>4. CASE Restart
    <3>1. PICK left \in {log.pending, {}} :
            /\ log' = [pending |-> left, logSend |-> None, serverSent |-> FALSE,
                       held |-> FALSE]
            /\ logRecord' \in EndLog(left)
      BY <2>4 DEF Restart
    <3>2. left \in SUBSET Records
      <4>1. log.pending \in SUBSET Records
        BY <2>0 DEF LogType
      <4> QED
        BY <4>1
    <3>3. logRecord' \in Records \cup {None}
      <4>1. CASE left # {}
        BY <3>1, <3>2, <4>1, NewestExists DEF EndLog
      <4>2. CASE left = {}
        BY <3>1, <4>2 DEF EndLog, TypeOK, Records, None
      <4> QED
        BY <4>1, <4>2
    <3> QED
      <4>1. log' \in LogType
        BY <3>1, <3>2 DEF LogType
      <4>2. rexmitCnt' \in 0 .. MaxRexmit - 1
        BY <2>4 DEF Restart
      <4>3. getAddrFlag' \in BOOLEAN /\ askAddrCnt' \in Nat
        BY <2>4 DEF Restart
      <4>4. /\ newestLog' \in Records \cup {None} /\ rpBuf' \in Packet
            /\ rpState' \in {"INITIAL", "CONNECT", "CONNECTED",
                            "WAIT_TIMEOUT_RECONNECT"}
            /\ tcp' \in {"none", "opening", "open", "lost"}
        BY <2>0, <2>4 DEF Restart
      <4>5. /\ nextRec' \in 1 .. MaxRec + 1 /\ stalls' \in 0 .. MaxStall
            /\ resets' \in 0 .. MaxReset /\ restarts' \in 0 .. MaxRestart
            /\ sms' \in 0 .. MaxSms
            /\ acked' \subseteq Records /\ skipped' \subseteq Records
            /\ detours' \in Nat
        BY <2>4 DEF Restart, TypeOK, history
      <4> QED
        BY <4>1, <4>2, <4>3, <4>4, <4>5, <3>3 DEF TypeOK, LogType
  <2>5. CASE MainLoop
    <3>1. log' \in LogType /\ skipped' \in SUBSET Records
      BY <2>0, <2>5, GetDataType DEF MainLoop, GetDataFromLog, TypeOK
    <3> QED
      BY <2>5, <3>1 DEF MainLoop, TypeOK, LogType, conn, addr, counters
  <2>6. CASE Connect
    BY <2>0, <2>6 DEF Connect, TypeOK, addr, history
  <2>7. CASE ReconnectTimeout
    BY <2>0, <2>7 DEF ReconnectTimeout, Forget, TypeOK, addr, history
  <2>8. CASE CallbackTimeout
    BY <2>0, <2>8 DEF CallbackTimeout, Forget, TypeOK, addr, history
  <2>9. CASE Connected
    BY <2>9 DEF Connected, TypeOK, addr, counters, history
  <2>10. CASE Poll
    <3>1. log' \in LogType /\ skipped' \in SUBSET Records
      BY <2>0, <2>10, GetDataType DEF Poll, GetDataFromLog, TypeOK
    <3>2. log'.logSend \in Records \cup {None}
      BY <3>1 DEF LogType
    <3>3. rpBuf' \in Packet
      BY <2>10, <3>2 DEF Poll, Packet, TypeOK
    <3>4. /\ newestLog' \in Records \cup {None} /\ detours' \in Nat
          /\ askAddrCnt' \in Nat /\ getAddrFlag' \in BOOLEAN
      BY <2>10 DEF Poll, TypeOK, addr
    <3> QED
      BY <2>10, <3>1, <3>3, <3>4 DEF Poll, TypeOK, LogType, counters
  <2>11. CASE Acked
    <3> DEFINE sent == IF log.held
                         THEN [log EXCEPT !.serverSent = TRUE, !.held = FALSE]
                         ELSE log
    <3>1. sent \in LogType
      BY <2>0 DEF LogType
    <3>2. GetDataFromLog(sent, acked')
      BY <2>11 DEF Acked
    <3> HIDE DEF sent
    <3>3. log' \in LogType /\ skipped' \in SUBSET Records
      BY <3>1, <3>2, GetDataType DEF GetDataFromLog, TypeOK
    <3>4. acked' \in SUBSET Records
      BY <2>11 DEF Acked, TypeOK, Packet
    <3>5. askAddrCnt' \in Nat /\ getAddrFlag' \in BOOLEAN
      <4>1. CASE askAddrCnt >= MaxAsk /\ getAddrFlag
        <5>1. askAddrCnt' = 0 /\ getAddrFlag' = FALSE
          BY <2>11, <4>1, Zenon DEF Acked
        <5> QED
          BY <5>1
      <4>2. CASE ~(askAddrCnt >= MaxAsk /\ getAddrFlag)
        BY <2>11, <4>2 DEF Acked, TypeOK, addr
      <4> QED
        BY <4>1, <4>2
    <3>6. rexmitCnt' \in 0 .. MaxRexmit - 1
      BY <2>11 DEF Acked
    <3> QED
      BY <2>0, <2>11, <3>3, <3>4, <3>5, <3>6 DEF Acked, TypeOK, LogType, counters
  <2>12. CASE AddressDone
    BY <2>12 DEF AddressDone, TypeOK, conn, counters, history
  <2>13. CASE Rexmit
    BY <2>13 DEF Rexmit, TypeOK, addr, history
  <2>14. CASE Closed
    BY <2>0, <2>14 DEF Closed, TypeOK, addr, history
  <2>15. CASE PeerLost
    BY <2>15 DEF PeerLost, TypeOK, addr, history
  <2>16. CASE UNCHANGED vars
    BY <2>16 DEF vars, conn, addr, counters, history, TypeOK
  <2> QED
    BY <2>1, <2>2, <2>3, <2>4, <2>5, <2>6, <2>7, <2>8, <2>9, <2>10, <2>11,
       <2>12, <2>13, <2>14, <2>15, <2>16
       DEF Next, Tracker, Manage, Callback
<1> QED
  BY <1>1, <1>2, PTL DEF Spec
-----------------------------------------------------------------------------
Oldest(l) == l.held /\ l.logSend \in l.pending => l.logSend = Least(l.pending)
Below(l, n) == (\A r \in l.pending : r < n) /\ l.logSend < n

LEMMA GetDataOldest ==
  ASSUME NEW l \in LogType, Oldest(l)
  PROVE  Oldest(GetData(l))
<1> DEFINE rest == l.pending \ Taken(l)
<1>1. CASE l.pending = {} \/ l.held
  BY <1>1 DEF GetData
<1>2. CASE ~(l.pending = {} \/ l.held)
  <2>1. /\ GetData(l).pending = rest /\ GetData(l).held = (rest # {})
        /\ rest # {} => GetData(l).logSend = Least(rest)
    BY <1>2 DEF GetData
  <2> QED
    BY <2>1 DEF Oldest
<1> QED
  BY <1>1, <1>2

LEMMA GetDataBelow ==
  ASSUME NEW l \in LogType, NEW n \in Nat, Below(l, n)
  PROVE  Below(GetData(l), n)
BY GetDataType DEF Below

(* The property of the same name, for every capacity and every number of   *)
(* restarts, resets and failures of the link.                              *)
THEOREM OldestHeld == Spec => []HoldsOldest
<1> USE DeliveryAssumption
<1>1. Init => Oldest(log) /\ Below(log, nextRec)
  BY DEF Init, Oldest, Below, None
<1>2. TypeOK /\ Oldest(log) /\ Below(log, nextRec) /\ [Next]_vars
        => Oldest(log)' /\ Below(log, nextRec)'
  <2> SUFFICES ASSUME TypeOK, Oldest(log), Below(log, nextRec), [Next]_vars
               PROVE  Oldest(log') /\ Below(log', nextRec')
    OBVIOUS
  <2>0. log \in LogType /\ nextRec \in Nat /\ log.pending \in SUBSET Records
    BY DEF TypeOK, LogType
  <2>1. CASE StoreRecord
    <3>1. nextRec \in Records /\ nextRec' = nextRec + 1
      BY <2>1 DEF StoreRecord, TypeOK, Records
    <3>2. PICK gone \in SUBSET log.pending :
            log' = [log EXCEPT !.pending = (@ \ gone) \cup {nextRec}]
      <4>1. log.pending \ {} = log.pending
        OBVIOUS
      <4> QED
        BY <2>1, <4>1 DEF StoreRecord
    <3>3. /\ log'.pending = (log.pending \ gone) \cup {nextRec}
          /\ log'.logSend = log.logSend /\ log'.held = log.held
      BY <2>0, <3>2 DEF LogType
    <3>4. Below(log', nextRec')
      BY <2>0, <3>1, <3>3 DEF Below, LogType, Records, None
    <3>5. ASSUME log.held, log.logSend \in log'.pending
          PROVE  log.logSend = Least(log'.pending)
      <4>1. log.logSend \in log.pending \ gone
        BY <2>0, <3>3, <3>5 DEF Below
      <4>2. \A q \in log.pending : log.logSend <= q
        BY <2>0, <3>5, <4>1, LeastExists DEF Oldest
      <4>3. log.logSend <= nextRec
        BY <2>0, <3>1, <4>1 DEF Below, Records
      <4>4. log'.pending \in SUBSET Records
        BY <2>0, <3>1, <3>3
      <4> QED
        BY <3>3, <3>5, <4>2, <4>3, <4>4, LeastIs
    <3> QED
      BY <3>3, <3>4, <3>5 DEF Oldest
  <2>2. CASE ResetLog
    <3>1. log'.pending = {} /\ log'.logSend = log.logSend /\ nextRec' = nextRec
      BY <2>0, <2>2 DEF ResetLog, LogType
    <3> QED
      BY <3>1 DEF Oldest, Below
  <2>3. CASE Restart
    <3>1. /\ log'.held = FALSE /\ log'.logSend = None /\ nextRec' = nextRec
          /\ log'.pending \in {log.pending, {}}
      BY <2>3 DEF Restart
    <3> QED
      BY <3>1 DEF Oldest, Below, TypeOK, None
  <2>4. CASE MainLoop \/ Poll
    <3>1. log' = GetData(log) /\ nextRec' = nextRec
      BY <2>4 DEF MainLoop, Poll, GetDataFromLog, counters
    <3> QED
      BY <2>0, <3>1, GetDataOldest, GetDataBelow
  <2>5. CASE Acked
    <3> DEFINE sent == IF log.held
                         THEN [log EXCEPT !.serverSent = TRUE, !.held = FALSE]
                         ELSE log
    <3>1. sent \in LogType /\ Oldest(sent) /\ Below(sent, nextRec)
      BY <2>0 DEF LogType, Oldest, Below
    <3>2. log' = GetData(sent) /\ nextRec' = nextRec
      BY <2>5 DEF Acked, GetDataFromLog, counters
    <3> HIDE DEF sent
    <3> QED
      BY <2>0, <3>1, <3>2, GetDataOldest, GetDataBelow
  <2>6. CASE UNCHANGED <<log, nextRec>>
    BY <2>6
  <2>7. \/ StoreRecord \/ ResetLog \/ Restart \/ MainLoop \/ Poll \/ Acked
        \/ UNCHANGED <<log, nextRec>>
    BY DEF Next, Tracker, Manage, Callback, AskAddress, Connect, ReconnectTimeout,
           CallbackTimeout, Forget, Connected, AddressDone, Rexmit, Closed,
           PeerLost, counters, vars
  <2> QED
    BY <2>1, <2>2, <2>3, <2>4, <2>5, <2>6, <2>7
<1>3. Oldest(log) => HoldsOldest
  BY DEF Oldest, HoldsOldest
<1> QED
  BY <1>1, <1>2, <1>3, TypeCorrect, PTL DEF Spec
-----------------------------------------------------------------------------
(* What a record may still be taken off the log for without having been    *)
(* acknowledged: the mark of a sent record that is not, or no longer, the  *)
(* oldest, and a packet that carries another record than the one held.     *)
Adrift(l) == IF l.held THEN l.logSend \notin l.pending ELSE l.serverSent
Elsewhere == rpBuf.kind \in {"newest", "addr"}
Owed == (IF Adrift(log) THEN 1 ELSE 0) + (IF Elsewhere THEN 1 ELSE 0)

(* Every loss, past or still owed, was paid for; and a packet that carries *)
(* a record of the log carries the one that is held.                       *)
PaidInv == Cardinality(skipped) + Owed <= detours
PacketInv == /\ rpBuf.kind = "stored" => log.held /\ rpBuf.rec = log.logSend
             /\ rpBuf.kind = "none" => rpBuf = NoPacket
LossInv == PaidInv /\ PacketInv

LEMMA SkippedCount ==
  ASSUME NEW S \in SUBSET Records
  PROVE  /\ Cardinality(S) \in Nat
         /\ \A x \in Records : Cardinality(S \cup {x}) \in {Cardinality(S), Cardinality(S) + 1}
<1>1. IsFiniteSet(S)
  <2>1. IsFiniteSet(1 .. MaxRec)
    BY DeliveryAssumption, FS_Interval
  <2> QED
    BY <2>1, FS_Subset DEF Records
<1> QED
  BY <1>1, FS_CardinalityType, FS_AddElement

(* What GetData takes off an unheld log is its oldest record, and only when*)
(* it was marked; the record it then holds is in the log.                  *)
LEMMA GetDataTakes ==
  ASSUME NEW l \in LogType
  PROVE  /\ l.pending = {} \/ l.held => GetData(l) = l /\ Taken(l) = {}
         /\ ~(l.pending = {} \/ l.held) =>
              /\ ~Adrift(GetData(l))
              /\ Taken(l) = IF l.serverSent THEN {Least(l.pending)} ELSE {}
<1>1. l.pending \in SUBSET Records
  BY DEF LogType
<1>2. CASE l.pending = {} \/ l.held
  BY <1>2 DEF GetData, Taken
<1>3. CASE ~(l.pending = {} \/ l.held)
  <2> DEFINE rest == l.pending \ Taken(l)
  <2>1. /\ GetData(l).pending = rest /\ GetData(l).held = (rest # {})
        /\ GetData(l).serverSent = FALSE
        /\ rest # {} => GetData(l).logSend = Least(rest)
    BY <1>3 DEF GetData
  <2>2. rest # {} => Least(rest) \in rest
    BY <1>1, LeastExists
  <2>3. ~Adrift(GetData(l))
    BY <2>1, <2>2 DEF Adrift
  <2>4. Taken(l) = IF l.serverSent THEN {Least(l.pending)} ELSE {}
    BY <1>3 DEF Taken
  <2> QED
    BY <1>3, <2>3, <2>4
<1> QED
  BY <1>2, <1>3

(* What is lost by taking the oldest record was owed for it.               *)
LEMMA TakenPaid ==
  ASSUME TypeOK, NEW l \in LogType, NEW done \in SUBSET Records, GetDataFromLog(l, done),
         NEW owed \in {0, 1},
         Adrift(l) /\ ~(Taken(l) \subseteq done) => owed = 1,
         l.pending = {} /\ Adrift(l) => owed = 1,
         l.held => owed = IF Adrift(l) THEN 1 ELSE 0
  PROVE  Cardinality(skipped') + (IF Adrift(log') THEN 1 ELSE 0) <= Cardinality(skipped) + owed
<1>1. /\ log' = GetData(l) /\ skipped' = skipped \cup (Taken(l) \ done)
      /\ skipped \in SUBSET Records /\ l.pending \in SUBSET Records
  BY DEF GetDataFromLog, TypeOK, LogType
<1>2. Cardinality(skipped) \in Nat
  BY <1>1, SkippedCount
<1>3. CASE l.pending = {} \/ l.held
  <2>1. log' = l /\ skipped' = skipped \cup ({} \ done)
    BY <1>1, <1>3, GetDataTakes
  <2>2. skipped' = skipped
    BY <2>1
  <2>3. (IF Adrift(l) THEN 1 ELSE 0) <= owed
    BY <1>3
  <2> QED
    BY <1>2, <2>1, <2>2, <2>3
<1>4. CASE ~(l.pending = {} \/ l.held)
  <2>1. ~Adrift(log') /\ Taken(l) = IF l.serverSent THEN {Least(l.pending)} ELSE {}
    BY <1>1, <1>4, GetDataTakes
  <2>2. CASE Taken(l) \subseteq done
    <3>1. skipped' = skipped
      BY <1>1, <2>2
    <3> QED
      BY <1>2, <2>1, <3>1
  <2>3. CASE ~(Taken(l) \subseteq done)
    <3>1. Taken(l) = {Least(l.pending)} /\ Least(l.pending) \in Records
      BY <1>1, <1>4, <2>1, <2>3, LeastExists
    <3>2. Adrift(l)
      BY <1>4, <2>1, <2>3 DEF Adrift
    <3>3. skipped' = skipped \cup {Least(l.pending)}
      BY <1>1, <2>3, <3>1
    <3> QED
      BY <1>1, <1>2, <2>1, <2>3, <3>1, <3>2, <3>3, SkippedCount
  <2> QED
    BY <2>2, <2>3
<1> QED
  BY <1>3, <1>4

LEMMA LossStep ==
  ASSUME TypeOK, HoldsOldest, LossInv, [Next]_vars PROVE LossInv'
<1>0. /\ log \in LogType /\ skipped \in SUBSET Records /\ detours \in Nat
      /\ Cardinality(skipped) \in Nat /\ rpBuf \in Packet /\ acked \in SUBSET Records
  BY SkippedCount DEF TypeOK, LogType
<1>1. NoPacket.kind = "none"
  BY DEF NoPacket
<1>2. Owed \in {0, 1, 2}
  BY DEF Owed
<1>3. CASE StoreRecord \/ ResetLog
  <2>1. /\ UNCHANGED <<rpBuf, skipped>> /\ log'.held = log.held
        /\ log'.logSend = log.logSend /\ log'.serverSent = log.serverSent
    BY <1>0, <1>3 DEF StoreRecord, ResetLog, LogType, conn
  <2>2. PacketInv'
    BY <2>1 DEF LossInv, PacketInv
  <2>3. CASE detours' = detours + 1
    <3>1. Owed' <= Owed + 1
      BY <2>1 DEF Owed, Elsewhere
    <3> QED
      BY <1>0, <1>2, <2>1, <2>2, <2>3, <3>1 DEF LossInv, PaidInv, Owed
  <2>4. CASE detours' = detours /\ log'.pending = log.pending \cup {nextRec}
    <3>1. Owed' <= Owed
      BY <2>1, <2>4 DEF Owed, Elsewhere, Adrift
    <3> QED
      BY <1>0, <1>2, <2>1, <2>2, <2>4, <3>1 DEF LossInv, PaidInv, Owed
  <2>5. detours' = detours + 1 \/ (detours' = detours /\ log'.pending = log.pending \cup {nextRec})
    BY <1>0, <1>3 DEF StoreRecord, ResetLog, LogType
  <2> QED
    BY <2>3, <2>4, <2>5
<1>4. CASE Restart
  <2>1. /\ log'.held = FALSE /\ log'.serverSent = FALSE /\ rpBuf' = NoPacket
        /\ UNCHANGED history
    BY <1>4 DEF Restart
  <2>2. Owed' = 0
    BY <1>1, <2>1 DEF Owed, Adrift, Elsewhere
  <2> QED
    BY <1>0, <1>1, <1>2, <2>1, <2>2 DEF LossInv, PaidInv, PacketInv, history
<1>5. CASE MainLoop
  <2>1. /\ UNCHANGED <<rpBuf, detours>> /\ GetDataFromLog(log, acked)
    BY <1>5 DEF MainLoop, conn
  <2>2. Cardinality(skipped') + (IF Adrift(log') THEN 1 ELSE 0)
          <= Cardinality(skipped) + (IF Adrift(log) THEN 1 ELSE 0)
    <3>1. PICK owed \in {0, 1} : owed = IF Adrift(log) THEN 1 ELSE 0
      OBVIOUS
    <3> QED
      BY <1>0, <2>1, <3>1, TakenPaid
  <2>3. Cardinality(skipped') \in Nat
    BY <1>0, <1>5, GetDataType, SkippedCount DEF MainLoop, GetDataFromLog
  <2>4. PaidInv'
    BY <1>0, <2>1, <2>2, <2>3 DEF LossInv, PaidInv, Owed, Elsewhere
  <2>5. log.held => log' = log
    BY <1>0, <2>1, GetDataTakes DEF GetDataFromLog
  <2> QED
    BY <2>1, <2>4, <2>5 DEF LossInv, PacketInv
<1>6. CASE Poll
  <2>1. GetDataFromLog(log, acked) /\ rpBuf = NoPacket
    BY <1>6 DEF Poll
  <2>2. Cardinality(skipped') + (IF Adrift(log') THEN 1 ELSE 0)
          <= Cardinality(skipped) + (IF Adrift(log) THEN 1 ELSE 0)
    <3>1. PICK owed \in {0, 1} : owed = IF Adrift(log) THEN 1 ELSE 0
      OBVIOUS
    <3> QED
      BY <1>0, <2>1, <3>1, TakenPaid
  <2>3. Cardinality(skipped') \in Nat
    BY <1>0, <2>1, GetDataType, SkippedCount DEF GetDataFromLog
  <2>4. /\ detours' = IF Elsewhere' THEN detours + 1 ELSE detours
        /\ PacketInv'
    BY <1>1, <1>6, <2>1 DEF Poll, Elsewhere, PacketInv, addr, NoPacket
  <2>5. ~Elsewhere
    BY <1>1, <2>1 DEF Elsewhere
  <2>6. PaidInv'
    BY <1>0, <2>2, <2>3, <2>4, <2>5 DEF LossInv, PaidInv, Owed
  <2> QED
    BY <2>4, <2>6 DEF LossInv
<1>7. CASE Acked
  <2> DEFINE sent == IF log.held
                       THEN [log EXCEPT !.serverSent = TRUE, !.held = FALSE]
                       ELSE log
  <2>1. /\ sent \in LogType /\ sent.pending = log.pending /\ sent.held = FALSE
        /\ sent.serverSent = (log.held \/ log.serverSent)
    BY <1>0 DEF LogType
  <2>2. /\ rpBuf # NoPacket /\ acked' = acked \cup ({rpBuf.rec} \ {None})
        /\ GetDataFromLog(sent, acked') /\ rpBuf' = NoPacket /\ detours' = detours
    BY <1>7 DEF Acked
  <2> HIDE DEF sent
  <2>3. acked' \in SUBSET Records
    BY <1>0, <2>2 DEF Packet
  <2>4. PICK owed \in {0, 1} : owed = IF Owed = 0 THEN 0 ELSE 1
    OBVIOUS
  <2>5. sent.pending = {} /\ Adrift(sent) => owed = 1
    <3> SUFFICES ASSUME log.pending = {}, log.held \/ log.serverSent PROVE Owed # 0
      BY <2>1, <2>4 DEF Adrift
    <3>1. Adrift(log)
      BY DEF Adrift
    <3> QED
      BY <3>1 DEF Owed
  <2>6. Adrift(sent) /\ ~(Taken(sent) \subseteq acked') => owed = 1
    <3> SUFFICES ASSUME Adrift(sent), Owed = 0, sent.pending # {}
                 PROVE  Taken(sent) \subseteq acked'
      BY <2>4 DEF Taken
    <3>1. ~Adrift(log) /\ ~Elsewhere
      BY DEF Owed
    <3>2. log.held /\ log.logSend \in log.pending
      BY <2>1, <3>1 DEF Adrift
    <3>3. rpBuf.rec = log.logSend
      BY <1>0, <2>2, <3>1 DEF LossInv, PacketInv, Elsewhere, Packet
    <3>4. Taken(sent) \subseteq {log.logSend}
      BY <2>1, <3>2 DEF Taken, HoldsOldest
    <3>5. log.logSend # None
      BY <1>0, <3>2, DeliveryAssumption DEF LogType, Records, None
    <3> QED
      BY <2>2, <3>3, <3>4, <3>5
  <2>7. Cardinality(skipped') + (IF Adrift(log') THEN 1 ELSE 0) <= Cardinality(skipped) + owed
    BY <2>1, <2>2, <2>3, <2>5, <2>6, TakenPaid
  <2>8. Cardinality(skipped') \in Nat
    BY <1>0, <2>1, <2>2, GetDataType, SkippedCount DEF GetDataFromLog
  <2>9. owed <= Owed
    BY <1>2, <2>4
  <2>10. ~Elsewhere'
    BY <1>1, <2>2 DEF Elsewhere
  <2>11. PaidInv'
    BY <1>0, <1>2, <2>2, <2>7, <2>8, <2>9, <2>10 DEF LossInv, PaidInv, Owed
  <2> QED
    BY <1>1, <2>2, <2>11 DEF LossInv, PacketInv
<1>8. CASE UNCHANGED <<log, history>> /\ rpBuf' \in {rpBuf, NoPacket}
  <2>1. Owed' <= Owed /\ Owed' \in {0, 1, 2}
    BY <1>1, <1>8 DEF Owed, Elsewhere
  <2>2. PaidInv'
    BY <1>0, <1>2, <1>8, <2>1 DEF LossInv, PaidInv, history
  <2> QED
    BY <1>1, <1>8, <2>2 DEF LossInv, PacketInv
<1>9. \/ StoreRecord \/ ResetLog \/ Restart \/ MainLoop \/ Poll \/ Acked
      \/ UNCHANGED <<log, history>> /\ rpBuf' \in {rpBuf, NoPacket}
  BY DEF Next, Tracker, Manage, Callback, AskAddress, Connect, ReconnectTimeout,
         CallbackTimeout, Forget, Connected, AddressDone, Rexmit, Closed,
         PeerLost, conn, vars
<1> QED
  BY <1>3, <1>4, <1>5, <1>6, <1>7, <1>8, <1>9

(* The reporter takes no more records off the log unacknowledged than there*)
(* were detours: the newest sent ahead or an address asked for, whose      *)
(* acknowledgement is taken for that of the record held, and the log giving*)
(* up records or reset, after which it is taken for that of another one.   *)
(* A lost link, a retransmission or a restart is no detour.                *)
THEOREM LossExplained == Spec => []NoUnexplainedLoss
<1>1. Init => LossInv
  <2>1. Cardinality({}) = 0
    BY FS_EmptySet
  <2> QED
    BY <2>1 DEF Init, LossInv, PaidInv, PacketInv, Owed, Adrift, Elsewhere, NoPacket
<1>2. TypeOK /\ HoldsOldest /\ LossInv /\ [Next]_vars => LossInv'
  BY LossStep
<1>3. TypeOK /\ LossInv => NoUnexplainedLoss
  <2> SUFFICES ASSUME TypeOK, LossInv PROVE NoUnexplainedLoss
    OBVIOUS
  <2>1. Cardinality(skipped) \in Nat /\ detours \in Nat /\ Owed \in {0, 1, 2}
    BY SkippedCount DEF TypeOK, Owed
  <2> QED
    BY <2>1 DEF LossInv, PaidInv, NoUnexplainedLoss
<1> QED
  BY <1>1, <1>2, <1>3, TypeCorrect, OldestHeld, PTL DEF Spec
-----------------------------------------------------------------------------
(* The single values.                                                      *)

(* sst25.h gives each value a sector.                                      *)
OwnSector ==
  /\ LoadedFrom = SavedAt
  /\ \A v, w \in Variable : SavedAt[v] = SavedAt[w] => v = w

Slot == 0 .. NSlot - 1
Content == Datum \cup {Blank, Junk}
Entry == [word : Content, sum : Content]
Journal == [Slot -> Entry]

Steps == {"erase", "word", "sum", "check"}

TypeInv ==
  /\ flash \in [Sector -> Journal]
  /\ ram \in [Variable -> [cnt : 0 .. NSlot, value : Datum \cup {Zero}]]
  /\ op \in {Idle} \cup [pc : Steps, v : Variable]
  /\ op # Idle => ram[op.v].value \in Datum
  /\ saved \in [Variable -> Datum \cup {Zero}]

At(v, pc) == op.pc = pc /\ op.v = v

(* A checksum is written after its word.                                   *)
SumLast(f) == \A i \in Slot : f[i].word = Blank => f[i].sum = Blank

(* No entry from the one to be written on is whole, but for that one when  *)
(* it has been written.                                                    *)
Ahead(v) ==
  \A i \in Slot : Whole(flash[SavedAt[v]][i])
    => i < ram[v].cnt \/ (At(v, "check") /\ i = ram[v].cnt)

(* The entry that is being written.                                        *)
Current == flash[SavedAt[op.v]][ram[op.v].cnt]

WritingInv ==
  /\ op.pc = "erase" => ram[op.v].cnt = 0
  /\ op.pc \in {"sum", "check"} =>
       ram[op.v].cnt < NSlot /\ Current.word \in {ram[op.v].value, Junk}

JournalInv ==
  /\ TypeInv /\ WritingInv /\ Remembered
  /\ \A s \in Sector : SumLast(flash[s])
  /\ \A v \in Variable : ~At(v, "erase") => Ahead(v)

IInv == spilled \in BOOLEAN /\ (~spilled => JournalInv)
-----------------------------------------------------------------------------
(* What DB_U32Load reads from a sector: the last entry that is whole.      *)
WholeIn(f) == {i \in Slot : Whole(f[i])}
CountOf(f) == IF WholeIn(f) = {} THEN 0 ELSE Max(WholeIn(f)) + 1
ValueOf(f) == IF WholeIn(f) = {} THEN Zero ELSE f[Max(WholeIn(f))].word

LEMMA Greatest ==
  ASSUME NEW f, WholeIn(f) # {}
  PROVE  /\ Max(WholeIn(f)) \in Slot /\ Whole(f[Max(WholeIn(f))])
         /\ \A i \in Slot : Whole(f[i]) => i <= Max(WholeIn(f))
<1> DEFINE Left == {NSlot - i : i \in WholeIn(f)}
<1>1. NSlot \in Nat /\ \A i \in WholeIn(f) : i \in 0 .. NSlot - 1 /\ NSlot - i \in Nat
  BY JournalAssumption DEF WholeIn, Slot
<1>3. Left \in SUBSET Nat /\ Left # {}
  BY <1>1
<1>4. PICK k \in Left : \A l \in Left : k <= l
  BY <1>3, Smallest
<1>5. PICK m \in WholeIn(f) : k = NSlot - m
  OBVIOUS
<1>6. \A i \in WholeIn(f) : NSlot - i \in Nat /\ k <= NSlot - i
  BY <1>1, <1>4, <1>5
<1> HIDE DEF Left, WholeIn
<1>7. \A i \in WholeIn(f) : i <= m
  BY <1>1, <1>5, <1>6
<1>8. Max(WholeIn(f)) \in WholeIn(f) /\ \A i \in WholeIn(f) : i <= Max(WholeIn(f))
  BY <1>5, <1>7 DEF Max
<1> QED BY <1>8 DEF WholeIn

LEMMA LoadIs ==
  ASSUME NEW v \in Variable
  PROVE  /\ DB_U32Load(v) = [cnt |-> CountOf(flash[LoadedFrom[v]]), value |-> ValueOf(flash[LoadedFrom[v]])]
         /\ DB_U32Load(v)' = [cnt |-> CountOf(flash'[LoadedFrom[v]]), value |-> ValueOf(flash'[LoadedFrom[v]])]
<1>1. ASSUME NEW f
      PROVE  LET n == CountOf(f)
             IN  [cnt |-> n, value |-> IF n = 0 THEN Zero ELSE f[n - 1].word]
                   = [cnt |-> CountOf(f), value |-> ValueOf(f)]
  <2>1. CASE WholeIn(f) = {}
    BY <2>1 DEF CountOf, ValueOf
  <2>2. CASE WholeIn(f) # {}
    <3>1. Max(WholeIn(f)) \in Nat
      BY <2>2, Greatest DEF Slot
    <3>2. CountOf(f) # 0 /\ CountOf(f) - 1 = Max(WholeIn(f))
      BY <2>2, <3>1 DEF CountOf
    <3> QED BY <2>2, <3>2 DEF ValueOf
  <2> QED BY <2>1, <2>2
<1>2. NewestEntry(LoadedFrom[v]) = CountOf(flash[LoadedFrom[v]])
  BY DEF NewestEntry, CountOf, WholeIn, Slot
<1>3. NewestEntry(LoadedFrom[v])' = CountOf(flash'[LoadedFrom[v]])
  BY DEF NewestEntry, CountOf, WholeIn, Slot
<1> QED BY <1>1, <1>2, <1>3 DEF DB_U32Load

LEMMA LoadType ==
  ASSUME NEW f \in Journal
  PROVE  /\ CountOf(f) \in 0 .. NSlot /\ ValueOf(f) \in Datum \cup {Zero}
         /\ \A i \in Slot : Whole(f[i]) => i < CountOf(f)
<1>1. CASE WholeIn(f) = {}
  BY <1>1, JournalAssumption DEF CountOf, ValueOf, WholeIn
<1>2. CASE WholeIn(f) # {}
  BY <1>2, Greatest, JournalAssumption DEF CountOf, ValueOf, Slot, Whole
<1> QED BY <1>1, <1>2

(* It is the same after a change of what is not whole.                     *)
LEMMA ValueKept ==
  ASSUME NEW f, NEW g,
         \A i \in Slot : Whole(f[i]) \/ Whole(g[i]) => f[i] = g[i]
  PROVE  ValueOf(f) = ValueOf(g)
<1>1. WholeIn(f) = WholeIn(g)
  BY DEF WholeIn
<1>2. CASE WholeIn(f) = {}
  BY <1>1, <1>2 DEF ValueOf
<1>3. CASE WholeIn(f) # {}
  BY <1>1, <1>3, Greatest DEF ValueOf
<1> QED BY <1>2, <1>3

(* The last whole entry is the one read.                                   *)
LEMMA ValueAt ==
  ASSUME NEW f, NEW n \in Slot, Whole(f[n]), \A i \in Slot : Whole(f[i]) => i <= n
  PROVE  ValueOf(f) = f[n].word
<1>1. n \in WholeIn(f)
  BY DEF WholeIn
<1>2. Max(WholeIn(f)) = n
  BY <1>1, Greatest DEF Slot
<1> QED BY <1>1, <1>2 DEF ValueOf

LEMMA EmptyIs == Empty \in Journal /\ SumLast(Empty) /\ ValueOf(Empty) = Zero
<1>1. \A i \in Slot : Empty[i] = [word |-> Blank, sum |-> Blank]
  BY DEF Empty, Slot
<1>2. WholeIn(Empty) = {}
  BY <1>1, JournalAssumption DEF WholeIn, Whole
<1>3. Empty \in Journal
  BY DEF Empty, Journal, Slot, Entry, Content
<1> QED BY <1>1, <1>2, <1>3 DEF SumLast, ValueOf
-----------------------------------------------------------------------------
(* The word of an entry that is not whole leaves it so.                    *)
WordPut(f, c, d, g) ==
  /\ f \in Journal /\ SumLast(f) /\ c \in Slot /\ ~Whole(f[c]) /\ d \in Datum \cup {Junk}
  /\ g = [f EXCEPT ![c].word = Over(@, d)]

LEMMA WordWritten ==
  ASSUME NEW f, NEW c, NEW d, NEW g, WordPut(f, c, d, g)
  PROVE  /\ g \in Journal /\ SumLast(g) /\ ValueOf(g) = ValueOf(f)
         /\ ~Whole(g[c]) /\ g[c].word \in {d, Junk}
         /\ \A i \in Slot : i # c => g[i] = f[i]
<1>0. f \in Journal /\ SumLast(f) /\ c \in Slot /\ ~Whole(f[c]) /\ d \in Datum \cup {Junk}
  BY DEF WordPut
<1>1. f[c] \in Entry
  BY <1>0 DEF Journal
<1>2. g[c] = [f[c] EXCEPT !.word = Over(@, d)] /\ \A i \in Slot : i # c => g[i] = f[i]
  BY <1>0 DEF WordPut, Journal
<1>3. Over(f[c].word, d) \in {d, Junk} /\ Blank # Junk /\ d # Blank
  BY <1>0, JournalAssumption DEF Over, Blank, Junk
<1>4. g[c] = [word |-> Over(f[c].word, d), sum |-> f[c].sum]
  BY <1>1, <1>2 DEF Entry
<1>5. g \in Journal
  <2>1. g[c] \in Entry
    BY <1>0, <1>1, <1>3, <1>4 DEF Entry, Content
  <2>2. DOMAIN g = Slot /\ g = [i \in Slot |-> g[i]]
    BY <1>0 DEF WordPut, Journal
  <2> QED BY <1>0, <1>2, <2>1, <2>2 DEF Journal
<1>6. ~Whole(g[c])
  <2>1. CASE f[c].word = Blank
    BY <1>0, <2>1, <1>4, JournalAssumption DEF SumLast, Whole
  <2>2. CASE f[c].word # Blank
    BY <1>0, <2>2, <1>4, JournalAssumption DEF Whole, Over
  <2> QED BY <2>1, <2>2
<1>7. SumLast(g)
  BY <1>0, <1>2, <1>3, <1>4 DEF SumLast
<1>8. ValueOf(g) = ValueOf(f)
  BY <1>0, <1>2, <1>6, ValueKept
<1> QED BY <1>2, <1>3, <1>4, <1>5, <1>6, <1>7, <1>8

(* Its checksum makes it whole, or nothing of it.                          *)
SumPut(f, c, x, d, g) ==
  /\ f \in Journal /\ SumLast(f) /\ c \in Slot /\ x \in Datum /\ d \in {x, Junk}
  /\ f[c].word \in {x, Junk} /\ \A i \in Slot : Whole(f[i]) => i < c
  /\ g = [f EXCEPT ![c].sum = Over(@, d)]

LEMMA SumWritten ==
  ASSUME NEW f, NEW c, NEW x, NEW d, NEW g, SumPut(f, c, x, d, g)
  PROVE  /\ g \in Journal /\ SumLast(g) /\ ValueOf(g) \in {ValueOf(f), x}
         /\ g[c].word = f[c].word
         /\ \A i \in Slot : Whole(g[i]) => i < c \/ i = c
         /\ \A i \in Slot : i # c => g[i] = f[i]
<1>0. /\ f \in Journal /\ SumLast(f) /\ c \in Slot /\ x \in Datum /\ d \in {x, Junk}
      /\ f[c].word \in {x, Junk} /\ \A i \in Slot : Whole(f[i]) => i < c
  BY DEF SumPut
<1>1. f[c] \in Entry
  BY <1>0 DEF Journal
<1>2. g[c] = [f[c] EXCEPT !.sum = Over(@, d)] /\ \A i \in Slot : i # c => g[i] = f[i]
  BY <1>0 DEF SumPut, Journal
<1>3. g[c] = [word |-> f[c].word, sum |-> Over(f[c].sum, d)]
  BY <1>1, <1>2 DEF Entry
<1>4. Over(f[c].sum, d) \in {d, Junk} /\ Blank \notin {x, Junk}
  BY <1>0, JournalAssumption DEF Over, Blank, Junk
<1>5. g \in Journal
  <2>1. g[c] \in Entry
    BY <1>0, <1>1, <1>3, <1>4 DEF Entry, Content
  <2>2. DOMAIN g = Slot /\ g = [i \in Slot |-> g[i]]
    BY <1>0 DEF SumPut, Journal
  <2> QED BY <1>0, <1>2, <2>1, <2>2 DEF Journal
<1>6. SumLast(g)
  BY <1>0, <1>2, <1>3, <1>4 DEF SumLast
<1>7. \A i \in Slot : Whole(g[i]) => i < c \/ i = c
  BY <1>0, <1>2
<1>8. ValueOf(g) \in {ValueOf(f), x}
  <2>1. CASE Whole(g[c])
    <3>1. g[c].word = x
      BY <1>0, <2>1, <1>3, JournalAssumption DEF Whole
    <3>2. \A i \in Slot : Whole(g[i]) => i <= c
      BY <1>0, <1>7 DEF Slot
    <3> QED BY <1>0, <2>1, <3>1, <3>2, ValueAt
  <2>2. CASE ~Whole(g[c])
    <3>1. ~Whole(f[c])
      BY <1>0 DEF Slot
    <3> QED BY <2>2, <3>1, <1>2, ValueKept
  <2> QED BY <2>1, <2>2
<1> QED BY <1>2, <1>3, <1>5, <1>6, <1>7, <1>8
-----------------------------------------------------------------------------
(* A step of the save of a value changes one sector, its own: the others   *)
(* are found as before.                                                    *)
LEMMA OthersKept ==
  ASSUME OwnSector, JournalAssumption, TypeInv, Remembered, op # Idle,
         \A v \in Variable : ~At(v, "erase") => Ahead(v),
         NEW v \in Variable, v # op.v,
         flash'[SavedAt[v]] = flash[SavedAt[v]], ram'[v] = ram[v], saved'[v] = saved[v],
         op' = Idle \/ op'.v = op.v
  PROVE  DB_U32Load(v)'.value = saved'[v] /\ Ahead(v)'
<1>1. DB_U32Load(v)' = DB_U32Load(v)
  BY LoadIs DEF OwnSector
<1>2. DB_U32Load(v).value = saved[v]
  BY DEF Remembered, Found
<1>3. Ahead(v) /\ ~At(v, "check")
  BY DEF At
<1>4. Ahead(v)'
  BY <1>3 DEF Ahead, At, Whole
<1> QED BY <1>1, <1>2, <1>4

LEMMA OpFacts ==
  ASSUME TypeInv, op.pc \in Steps
  PROVE  /\ op # Idle /\ op.v \in Variable
         /\ \A pc : Busy(pc) = [pc |-> pc, v |-> op.v]
<1>1. op # Idle
  BY DEF Idle, Steps
<1>2. op \in [pc : Steps, v : Variable]
  BY <1>1 DEF TypeInv
<1> QED BY <1>1, <1>2 DEF Busy

LEMMA SaveInv ==
  ASSUME OwnSector, JournalInv, NEW v \in Variable, NEW d \in Datum, DB_U32Save(v, d)
  PROVE  JournalInv'
<1> DEFINE c == IF ram[v].cnt >= NSlot THEN 0 ELSE ram[v].cnt
<1>0. TypeInv /\ ram[v] \in [cnt : 0 .. NSlot, value : Datum \cup {Zero}] /\ NSlot \in Nat \ {0}
  BY JournalAssumption DEF JournalInv, TypeInv
<1>1. /\ op = Idle /\ flash' = flash /\ saved' = saved
      /\ ram' = [ram EXCEPT ![v] = [value |-> d, cnt |-> c]]
      /\ op' = [pc |-> IF c = 0 THEN "erase" ELSE "word", v |-> v]
  BY DEF DB_U32Save
<1>2. c \in 0 .. NSlot /\ (c = ram[v].cnt \/ c = 0)
  BY <1>0
<1> HIDE DEF c
<1>3. TypeInv'
  <2>1. op' # Idle /\ op' \in [pc : Steps, v : Variable] /\ op'.v = v
    BY <1>1 DEF Idle, Steps
  <2>2. ram'[v] = [value |-> d, cnt |-> c] /\ ram' \in [Variable -> [cnt : 0 .. NSlot, value : Datum \cup {Zero}]]
    BY <1>0, <1>1, <1>2 DEF TypeInv
  <2> QED BY <1>0, <1>1, <2>1, <2>2 DEF TypeInv
<1>4. ram'[v] = [value |-> d, cnt |-> c] /\ \A w \in Variable : w # v => ram'[w] = ram[w]
  BY <1>0, <1>1 DEF TypeInv
<1>5. WritingInv'
  BY <1>1, <1>4 DEF WritingInv
<1>6. Remembered'
  <2>1. \A w \in Variable : DB_U32Load(w).value = saved[w]
    BY <1>1 DEF JournalInv, Remembered, Found
  <2>2. \A w \in Variable : DB_U32Load(w)' = DB_U32Load(w)
    BY <1>1, LoadIs
  <2> QED BY <1>1, <2>1, <2>2 DEF Remembered, Found
<1>7. ASSUME NEW w \in Variable, ~At(w, "erase")'
      PROVE  Ahead(w)'
  <2>1. \A i \in Slot : Whole(flash[SavedAt[w]][i]) => i < ram[w].cnt
    BY <1>1 DEF JournalInv, Ahead, At, Idle
  <2>2. CASE w # v
    BY <1>1, <1>4, <2>1, <2>2 DEF Ahead, Whole
  <2>3. CASE w = v
    <3>1. ram'[w].cnt = ram[w].cnt
      BY <1>1, <1>2, <1>4, <1>7, <2>3 DEF At
    <3> QED BY <1>1, <2>1, <3>1 DEF Ahead, Whole
  <2> QED BY <2>2, <2>3
<1>8. \A s \in Sector : SumLast(flash'[s])
  BY <1>1 DEF JournalInv
<1> QED BY <1>3, <1>5, <1>6, <1>7, <1>8 DEF JournalInv, SumLast

LEMMA EraseInv ==
  ASSUME OwnSector, JournalInv, Erase
  PROVE  JournalInv'
<1> DEFINE v == op.v
<1>0. TypeInv /\ op.pc = "erase" /\ op # Idle /\ v \in Variable /\ op' = [pc |-> "word", v |-> v]
  BY OpFacts DEF JournalInv, Erase, Steps
<1>1. /\ flash' = [flash EXCEPT ![SavedAt[v]] = Empty]
      /\ ram' = ram /\ saved' = saved
  BY DEF Erase
<1>2. SavedAt[v] \in Sector /\ \A w \in Variable : SavedAt[w] \in Sector
  BY <1>0, JournalAssumption
<1> HIDE DEF v
<1>3. flash'[SavedAt[v]] = Empty /\ \A s \in Sector : s # SavedAt[v] => flash'[s] = flash[s]
  BY <1>0, <1>1, <1>2 DEF TypeInv
<1>4. TypeInv'
  <2>1. flash' \in [Sector -> Journal]
    BY <1>0, <1>1, EmptyIs DEF TypeInv
  <2> QED BY <1>0, <1>1, <2>1 DEF TypeInv, Steps, v
<1>5. WritingInv'
  BY <1>0, <1>1 DEF WritingInv
<1>6. ASSUME NEW w \in Variable
      PROVE  Found(w)' /\ Ahead(w)'
  <2>1. CASE w = v
    <3>1. DB_U32Load(w)'.value = Zero
      BY <1>3, <2>1, LoadIs, EmptyIs DEF OwnSector
    <3>2. \A i \in Slot : ~Whole(flash'[SavedAt[w]][i])
      BY <1>3, <2>1, JournalAssumption DEF Whole, Empty, Slot
    <3>3. op' # Idle /\ op'.v = w
      BY <1>0, <2>1 DEF Idle
    <3> QED BY <3>1, <3>2, <3>3 DEF Found, Ahead, Whole
  <2>2. CASE w # v
    <3>1. flash'[SavedAt[w]] = flash[SavedAt[w]]
      BY <1>0, <1>2, <1>3, <2>2 DEF OwnSector
    <3>2. DB_U32Load(w)'.value = saved'[w] /\ Ahead(w)'
      BY <1>0, <1>1, <2>2, <3>1, JournalAssumption, OthersKept DEF JournalInv, v
    <3> QED BY <3>2 DEF Found
  <2> QED BY <2>1, <2>2
<1>7. \A s \in Sector : SumLast(flash'[s])
  BY <1>3, EmptyIs DEF JournalInv
<1> QED BY <1>4, <1>5, <1>6, <1>7 DEF JournalInv, Remembered, SumLast

(* What a program, of a word or of a checksum, makes of the sector.        *)
Writes(g) ==
  /\ g \in Journal /\ SumLast(g) /\ ram[op.v].cnt \in Slot
  /\ flash' = [flash EXCEPT ![SavedAt[op.v]] = g]
  /\ g[ram[op.v].cnt].word \in {ram[op.v].value, Junk}
  /\ ValueOf(g) \in {ValueOf(flash[SavedAt[op.v]]), ram[op.v].value}
  /\ \A i \in Slot : Whole(g[i]) => i < ram[op.v].cnt \/ (op.pc = "sum" /\ i = ram[op.v].cnt)

LEMMA WordWrites ==
  ASSUME JournalInv, op.pc = "word", NEW d \in {ram[op.v].value, Junk}, Word(d), ~spilled'
  PROVE  \E g : Writes(g)
<1> DEFINE v == op.v
           c == ram[v].cnt
           f == flash[SavedAt[v]]
           g == [f EXCEPT ![c].word = Over(@, d)]
<1>1. op # Idle /\ v \in Variable
  BY OpFacts DEF JournalInv, Steps
<1>2. /\ f \in Journal /\ c \in 0 .. NSlot /\ NSlot \in Nat \ {0} /\ d \in Datum \cup {Junk}
      /\ SavedAt[v] \in Sector
  BY <1>1, JournalAssumption DEF JournalInv, TypeInv
<1>3. c < NSlot
  BY DEF Word
<1>4. c \in Slot
  BY <1>2, <1>3 DEF Slot
<1>5. flash' = [flash EXCEPT ![SavedAt[v]] = g]
  BY <1>3 DEF Word
<1>6. Ahead(v)
  BY <1>1 DEF JournalInv, At
<1>7. \A i \in Slot : Whole(f[i]) => i < c
  BY <1>6 DEF Ahead, At
<1>8. SumLast(f)
  BY <1>2 DEF JournalInv
<1> HIDE DEF c, f
<1>9. ~Whole(f[c])
  BY <1>4, <1>7 DEF Slot
<1>10. PICK h : h = g
  OBVIOUS
<1> HIDE DEF g
<1>11. /\ h \in Journal /\ SumLast(h) /\ ValueOf(h) = ValueOf(f)
       /\ ~Whole(h[c]) /\ h[c].word \in {d, Junk}
       /\ \A i \in Slot : i # c => h[i] = f[i]
  <2>1. WordPut(f, c, d, h)
    BY <1>2, <1>4, <1>8, <1>9, <1>10 DEF WordPut, g
  <2> QED BY <2>1, WordWritten
<1>12. \A i \in Slot : Whole(h[i]) => i < c
  BY <1>7, <1>11
<1>13. Writes(h)
  BY <1>4, <1>5, <1>10, <1>11, <1>12 DEF Writes, c, f, v
<1> QED BY <1>13

LEMMA SumWrites ==
  ASSUME JournalInv, op.pc = "sum", NEW d \in {ram[op.v].value, Junk}, Sum(d)
  PROVE  \E g : Writes(g)
<1> DEFINE v == op.v
           c == ram[v].cnt
           f == flash[SavedAt[v]]
           g == [f EXCEPT ![c].sum = Over(@, d)]
<1>1. op # Idle /\ v \in Variable
  BY OpFacts DEF JournalInv, Steps
<1>2. /\ f \in Journal /\ c \in 0 .. NSlot /\ NSlot \in Nat \ {0} /\ ram[v].value \in Datum
      /\ SavedAt[v] \in Sector
  BY <1>1, JournalAssumption DEF JournalInv, TypeInv
<1>3. c < NSlot /\ f[c].word \in {ram[v].value, Junk}
  BY DEF JournalInv, WritingInv, Current
<1>4. c \in Slot
  BY <1>2, <1>3 DEF Slot
<1>5. flash' = [flash EXCEPT ![SavedAt[v]] = g]
  BY <1>3 DEF Sum
<1>6. Ahead(v)
  BY <1>1 DEF JournalInv, At
<1>7. \A i \in Slot : Whole(f[i]) => i < c
  BY <1>6 DEF Ahead, At
<1>8. SumLast(f)
  BY <1>2 DEF JournalInv
<1> HIDE DEF c, f
<1>9. PICK h : h = g
  OBVIOUS
<1> HIDE DEF g
<1>10. /\ h \in Journal /\ SumLast(h) /\ ValueOf(h) \in {ValueOf(f), ram[v].value}
       /\ h[c].word = f[c].word
       /\ \A i \in Slot : Whole(h[i]) => i < c \/ i = c
  <2>1. SumPut(f, c, ram[v].value, d, h)
    BY <1>2, <1>3, <1>4, <1>7, <1>8, <1>9 DEF SumPut, g
  <2> QED BY <2>1, SumWritten
<1>11. Writes(h)
  BY <1>3, <1>4, <1>5, <1>9, <1>10 DEF Writes, c, f, v
<1> QED BY <1>11

LEMMA ProgramInv ==
  ASSUME OwnSector, JournalInv, op.pc \in {"word", "sum"}, NEW g, Writes(g),
         op' = Busy(IF op.pc = "word" THEN "sum" ELSE "check"), ram' = ram, saved' = saved
  PROVE  JournalInv'
<1> DEFINE v == op.v
<1>0. /\ TypeInv /\ op # Idle /\ v \in Variable
      /\ op' = [pc |-> IF op.pc = "word" THEN "sum" ELSE "check", v |-> v]
  BY OpFacts DEF JournalInv, Steps
<1>1. SavedAt[v] \in Sector /\ \A w \in Variable : SavedAt[w] \in Sector
  BY <1>0, JournalAssumption
<1>2. flash'[SavedAt[v]] = g /\ \A s \in Sector : s # SavedAt[v] => flash'[s] = flash[s]
  BY <1>0, <1>1 DEF TypeInv, Writes
<1>3. TypeInv'
  <2>1. flash' \in [Sector -> Journal]
    BY <1>0, <1>1 DEF TypeInv, Writes
  <2>2. op' \in [pc : Steps, v : Variable]
    BY <1>0 DEF Steps
  <2> QED BY <1>0, <2>1, <2>2 DEF TypeInv
<1>4. WritingInv'
  <2>1. op'.pc \in {"sum", "check"} /\ op'.v = v
    BY <1>0
  <2>2. ram[v].cnt < NSlot
    BY JournalAssumption DEF Writes, Slot
  <2>3. Current' = g[ram[v].cnt]
    BY <1>2, <2>1 DEF Current
  <2> QED BY <2>1, <2>2, <2>3 DEF WritingInv, Writes
<1>5. ASSUME NEW w \in Variable
      PROVE  Found(w)' /\ Ahead(w)'
  <2>1. CASE w = v
    <3>1. /\ DB_U32Load(w)'.value = ValueOf(g)
          /\ DB_U32Load(w).value = ValueOf(flash[SavedAt[v]])
      BY <1>2, <2>1, LoadIs DEF OwnSector
    <3>2. DB_U32Load(w).value \in {saved[w], ram[w].value, Zero}
      BY DEF JournalInv, Remembered, Found
    <3>3. op' # Idle /\ op'.v = w
      BY <1>0, <2>1 DEF Idle
    <3>4. Found(w)'
      BY <2>1, <3>1, <3>2, <3>3 DEF Found, Writes
    <3>5. Ahead(w)'
      BY <1>0, <1>2, <2>1 DEF Ahead, At, Writes, Whole
    <3> QED BY <3>4, <3>5
  <2>2. CASE w # v
    <3>1. flash'[SavedAt[w]] = flash[SavedAt[w]]
      BY <1>0, <1>1, <1>2, <2>2 DEF OwnSector
    <3>2. DB_U32Load(w)'.value = saved'[w] /\ Ahead(w)'
      BY <1>0, <2>2, <3>1, JournalAssumption, OthersKept DEF JournalInv
    <3> QED BY <3>2 DEF Found
  <2> QED BY <2>1, <2>2
<1>6. \A s \in Sector : SumLast(flash'[s])
  BY <1>2 DEF JournalInv, Writes
<1> QED BY <1>3, <1>4, <1>5, <1>6 DEF JournalInv, Remembered, SumLast

LEMMA WriteWordInv ==
  ASSUME OwnSector, JournalInv, WriteWord, ~spilled'
  PROVE  JournalInv'
<1>1. \E g : Writes(g)
  BY WordWrites DEF WriteWord
<1> QED BY <1>1, ProgramInv DEF WriteWord

LEMMA WriteSumInv ==
  ASSUME OwnSector, JournalInv, WriteSum
  PROVE  JournalInv'
<1>1. \E g : Writes(g)
  BY SumWrites DEF WriteSum
<1> QED BY <1>1, ProgramInv DEF WriteSum

(* An entry that reads back right is the one a start finds; one that does  *)
(* not is not whole.                                                       *)
LEMMA CheckInv ==
  ASSUME OwnSector, JournalInv, Check
  PROVE  JournalInv'
<1> DEFINE v == op.v
           c == ram[v].cnt
           x == ram[v].value
           right == Current = [word |-> x, sum |-> x]
<1>0. /\ TypeInv /\ op.pc = "check" /\ op # Idle /\ v \in Variable
      /\ \A pc : Busy(pc) = [pc |-> pc, v |-> v]
  BY OpFacts DEF JournalInv, Check, Steps
<1>1. /\ c \in Slot /\ c < NSlot /\ x \in Datum /\ Current \in Entry /\ Current.word \in {x, Junk}
      /\ ram[v] \in [cnt : 0 .. NSlot, value : Datum \cup {Zero}]
  <2>1. c \in 0 .. NSlot /\ c < NSlot /\ Current.word \in {x, Junk} /\ x \in Datum
    BY <1>0 DEF JournalInv, TypeInv, WritingInv
  <2>2. c \in Slot
    BY <2>1, JournalAssumption DEF Slot
  <2>3. SavedAt[v] \in Sector
    BY <1>0, JournalAssumption
  <2> QED BY <1>0, <2>1, <2>2, <2>3 DEF TypeInv, Current, Journal
<1>2. /\ flash' = flash
      /\ ram' = [ram EXCEPT ![v].cnt = c + 1]
      /\ op' = IF right THEN Idle ELSE [pc |-> "word", v |-> v]
      /\ saved' = IF right THEN [saved EXCEPT ![v] = x] ELSE saved
  <2>1. ~(c >= NSlot)
    BY <1>1, JournalAssumption DEF Slot
  <2>2. flash' = flash
    BY DEF Check
  <2>3. ram' = [ram EXCEPT ![v].cnt = c + 1]
    BY <1>1, Zenon DEF Check
  <2>4. op' = IF right THEN Idle ELSE Busy("word")
    BY <1>1, <2>1, Zenon DEF Check, Current
  <2>5. saved' = IF right THEN [saved EXCEPT ![v] = x] ELSE saved
    BY <1>1, Zenon DEF Check, Current
  <2> QED BY <1>0, <2>2, <2>3, <2>4, <2>5
<1>3. right <=> Whole(Current)
  BY <1>1, JournalAssumption DEF Whole, Entry
<1>4. \A i \in Slot : Whole(flash[SavedAt[v]][i]) => i <= c
  BY <1>0, <1>1 DEF JournalInv, Ahead, At, Slot
<1>5. /\ ram'[v] = [ram[v] EXCEPT !.cnt = c + 1] /\ ram'[v].cnt = c + 1 /\ ram'[v].value = x
      /\ \A w \in Variable : w # v => ram'[w] = ram[w]
  BY <1>0, <1>1, <1>2 DEF TypeInv
<1>6. TypeInv'
  <2>1. c + 1 \in 0 .. NSlot
    BY <1>1, JournalAssumption DEF Slot
  <2>2. ram'[v] \in [cnt : 0 .. NSlot, value : Datum \cup {Zero}]
    BY <1>1, <1>5, <2>1
  <2>3. ram' \in [Variable -> [cnt : 0 .. NSlot, value : Datum \cup {Zero}]]
    BY <1>0, <1>2, <1>5, <2>2 DEF TypeInv
  <2>4. op' \in {Idle} \cup [pc : Steps, v : Variable] /\ (op' # Idle => op'.v = v)
    BY <1>0, <1>2 DEF Steps
  <2> QED BY <1>0, <1>1, <1>2, <1>5, <2>3, <2>4 DEF TypeInv
<1>7. WritingInv'
  BY <1>2 DEF WritingInv, Idle
<1> HIDE DEF v, c, x, right
<1>8. ASSUME NEW w \in Variable
      PROVE  Found(w)' /\ Ahead(w)'
  <2>1. CASE w = v /\ right
    <3>1. ValueOf(flash[SavedAt[v]]) = x
      <4>1. Whole(flash[SavedAt[v]][c]) /\ flash[SavedAt[v]][c].word = x
        BY <1>3, <2>1 DEF Current, v, c, right
      <4> QED BY <1>1, <1>4, <4>1, ValueAt
    <3>2. DB_U32Load(w)'.value = x
      BY <1>2, <2>1, <3>1, LoadIs DEF OwnSector
    <3>3. saved'[w] = x
      BY <1>0, <1>2, <2>1 DEF TypeInv
    <3>4. \A i \in Slot : Whole(flash[SavedAt[v]][i]) => i < c + 1
      BY <1>1, <1>4, JournalAssumption DEF Slot
    <3> QED BY <1>2, <1>5, <2>1, <3>2, <3>3, <3>4 DEF Found, Ahead, Whole
  <2>2. CASE w = v /\ ~right
    <3>1. DB_U32Load(w)' = DB_U32Load(w)
      BY <1>2, LoadIs
    <3>2. op' # Idle /\ op'.v = w
      BY <1>2, <2>2 DEF Idle
    <3>3. Found(w)'
      BY <1>0, <1>2, <1>5, <2>2, <3>1, <3>2 DEF JournalInv, Remembered, Found, v, x
    <3>4. \A i \in Slot : Whole(flash[SavedAt[v]][i]) => i < c + 1
      BY <1>1, <1>4, JournalAssumption DEF Slot
    <3> QED BY <1>2, <1>5, <2>2, <3>3, <3>4 DEF Ahead, Whole
  <2>3. CASE w # v
    <3>1. ram'[w] = ram[w] /\ saved'[w] = saved[w] /\ (op' = Idle \/ op'.v = op.v)
      BY <1>2, <1>5, <2>3 DEF v
    <3>2. DB_U32Load(w)'.value = saved'[w] /\ Ahead(w)'
      BY <1>0, <1>2, <2>3, <3>1, JournalAssumption, OthersKept DEF JournalInv, v
    <3> QED BY <3>2 DEF Found
  <2> QED BY <2>1, <2>2, <2>3
<1>9. \A s \in Sector : SumLast(flash'[s])
  BY <1>2 DEF JournalInv
<1> QED BY <1>6, <1>7, <1>8, <1>9 DEF JournalInv, Remembered, SumLast

(* Whatever a cut leaves, the start loads the last whole entry.            *)
LEMMA PowerCutInv ==
  ASSUME OwnSector, JournalInv, PowerCut, ~spilled'
  PROVE  JournalInv'
<1>1. flash' = flash \/ \E g : Writes(g)
  BY WordWrites, SumWrites DEF PowerCut
<1>2. flash' \in [Sector -> Journal] /\ \A s \in Sector : SumLast(flash'[s])
  <2>1. CASE flash' = flash
    BY <2>1 DEF JournalInv, TypeInv
  <2>2. CASE \E g : Writes(g)
    BY <2>2 DEF JournalInv, TypeInv, Writes
  <2> QED BY <1>1, <2>1, <2>2
<1>3. /\ op' = Idle /\ ram' = [v \in Variable |-> DB_U32Load(v)']
      /\ saved' = [v \in Variable |-> ram'[v].value]
  BY DEF PowerCut
<1>4. ASSUME NEW v \in Variable
      PROVE  /\ ram'[v] \in [cnt : 0 .. NSlot, value : Datum \cup {Zero}]
             /\ DB_U32Load(v)'.value = saved'[v] /\ Ahead(v)'
  <2>1. flash'[SavedAt[v]] \in Journal
    BY <1>2, JournalAssumption
  <2>2. ram'[v] = [cnt |-> CountOf(flash'[SavedAt[v]]), value |-> ValueOf(flash'[SavedAt[v]])]
    BY <1>3, LoadIs DEF OwnSector
  <2>3. Ahead(v)'
    BY <2>1, <2>2, LoadType DEF Ahead, Whole
  <2> QED BY <1>3, <2>1, <2>2, <2>3, LoadType
<1>5. TypeInv'
  BY <1>2, <1>3, <1>4 DEF TypeInv
<1>6. WritingInv'
  BY <1>3 DEF WritingInv, Idle
<1>7. Remembered'
  BY <1>4 DEF Remembered, Found
<1> QED BY <1>2, <1>4, <1>5, <1>6, <1>7 DEF JournalInv, SumLast
-----------------------------------------------------------------------------
LEMMA InitInv == ASSUME OwnSector, JournalInit PROVE IInv
<1>1. /\ flash = [s \in Sector |-> Empty] /\ op = Idle /\ spilled = FALSE
      /\ ram = [v \in Variable |-> DB_U32Load(v)] /\ saved = [v \in Variable |-> Zero]
  BY DEF JournalInit
<1>2. \A v \in Variable : flash[SavedAt[v]] = Empty
  BY <1>1, JournalAssumption
<1>3. ASSUME NEW v \in Variable
      PROVE  /\ DB_U32Load(v).value = saved[v] /\ Ahead(v)
             /\ ram[v] \in [cnt : 0 .. NSlot, value : Datum \cup {Zero}]
  <2>1. DB_U32Load(v) = [cnt |-> CountOf(Empty), value |-> Zero]
    BY <1>2, LoadIs, EmptyIs DEF OwnSector
  <2>2. Ahead(v)
    BY <1>2, JournalAssumption DEF Ahead, Whole, Empty, Slot
  <2> QED BY <1>1, <2>1, <2>2, EmptyIs, LoadType
<1>4. TypeInv /\ \A s \in Sector : SumLast(flash[s])
  BY <1>1, <1>3, EmptyIs DEF TypeInv
<1>5. WritingInv
  BY <1>1 DEF WritingInv, Idle
<1> QED BY <1>1, <1>3, <1>4, <1>5 DEF IInv, JournalInv, Remembered, Found

LEMMA Inductive ==
  ASSUME OwnSector, IInv, [JournalNext]_journalVars
  PROVE  IInv'
<1>1. spilled' \in BOOLEAN /\ (spilled => spilled')
  BY DEF IInv, JournalNext, journalVars, DB_U32Save, Erase, WriteWord, WriteSum, Check, PowerCut, Word, Sum
<1>2. ASSUME ~spilled'
      PROVE  JournalInv'
  <2>1. JournalInv
    BY <1>1, <1>2 DEF IInv
  <2>2. CASE \E v \in Variable, d \in Datum : DB_U32Save(v, d)
    BY <2>1, <2>2, SaveInv
  <2>3. CASE Erase
    BY <2>1, <2>3, EraseInv
  <2>4. CASE WriteWord
    BY <1>2, <2>1, <2>4, WriteWordInv
  <2>5. CASE WriteSum
    BY <2>1, <2>5, WriteSumInv
  <2>6. CASE Check
    BY <2>1, <2>6, CheckInv
  <2>7. CASE PowerCut
    BY <1>2, <2>1, <2>7, PowerCutInv
  <2>8. CASE UNCHANGED journalVars
    <3>1. \A v \in Variable : DB_U32Load(v)' = DB_U32Load(v)
      BY <2>8, LoadIs DEF journalVars
    <3> QED BY <2>1, <2>8, <3>1 DEF journalVars, JournalInv, TypeInv, WritingInv, Current, Remembered, Found,
                Ahead, At, Whole, SumLast
  <2> QED BY <2>2, <2>3, <2>4, <2>5, <2>6, <2>7, <2>8 DEF JournalNext
<1> QED BY <1>1, <1>2 DEF IInv

(* Up to the first entry written over the end of a sector, a start finds   *)
(* each value as it was last saved, through power cuts and bad programs.   *)
THEOREM RememberedCorrect ==
  ASSUME OwnSector
  PROVE  JournalSpec => []RememberedInSector
<1>1. JournalInit => IInv
  BY InitInv
<1>2. IInv /\ [JournalNext]_journalVars => IInv'
  BY Inductive
<1>3. IInv => RememberedInSector
  BY DEF IInv, JournalInv, RememberedInSector
<1> QED BY <1>1, <1>2, <1>3, PTL DEF JournalSpec
=============================================================================
