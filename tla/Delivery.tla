------------------------------ MODULE Delivery ------------------------------
(***************************************************************************)
(* How a stored record reaches the server: tracker.c takes records from    *)
(* the log, reporter.c sends them over a uIP connection and takes the      *)
(* acknowledgement of a packet as the acknowledgement of the record it     *)
(* holds at that moment.                                                   *)
(*                                                                         *)
(* The log is what FlashLog implements: a queue of numbered records, with  *)
(* no unreadable slots between them.  All the code here runs in the main   *)
(* loop, so one action is one callback or one turn of the loop.  uIP is    *)
(* external: it polls an open connection that has nothing unacknowledged,  *)
(* asks for a retransmission, or reports what became of the connection.    *)
(***************************************************************************)
EXTENDS Integers, FiniteSets

CONSTANTS
  Capacity,      \* records the ring holds before DB_SaveLog makes room
  SectorRecs,    \* how many it may give up then
  MaxRexmit,     \* retransmissions before the reporter reconnects (5)
  MaxAsk,        \* address requests before the reporter stops asking (6)
  MaxRec,        \* bound: records
  MaxStall,      \* bound: times the link or the peer fails
  MaxReset,      \* bound: resets of the log
  MaxRestart,    \* bound: restarts of the tracker
  MaxSms         \* bound: address requests by SMS

ASSUME DeliveryAssumption ==
  /\ Capacity \in Nat \ {0} /\ SectorRecs \in 1 .. Capacity
  /\ MaxRexmit \in Nat \ {0} /\ MaxAsk \in Nat \ {0} /\ MaxRec \in Nat
  /\ MaxStall \in Nat /\ MaxReset \in Nat /\ MaxRestart \in Nat /\ MaxSms \in Nat

VARIABLES
  log,           \* the ring, logSend and logSendPt
  logRecord,     \* the record stored last, in RAM
  newestLog,     \* the record sent last ahead of its turn
  rpState,       \* state of the reporter
  tcp,           \* the connection rpConn points to, as uIP sees it
  rpBuf,         \* the packet that is not acknowledged yet
  rexmitCnt,
  getAddrFlag, askAddrCnt,
  nextRec, stalls, resets, restarts, sms,      \* counters that bound the model
  acked,         \* history: the records that were in an acknowledged packet
  skipped,       \* history: the records taken off the log without that
  detours        \* history: what may make an acknowledgement the wrong one

conn == <<rpState, tcp, rpBuf, rexmitCnt>>
addr == <<getAddrFlag, askAddrCnt>>
counters == <<nextRec, stalls, resets, restarts, sms>>
history == <<acked, skipped, detours>>
vars == <<log, logRecord, newestLog, conn, addr, counters, history>>

None == 0                         \* no record, and RAM that is still zero
Records == 1 .. MaxRec
NoPacket == [kind |-> "none", rec |-> None]
Packet == [kind : {"none", "stored", "newest", "addr"}, rec : Records \cup {None}]

Least(S) == CHOOSE r \in S : \A q \in S : r <= q
Newest(S) == CHOOSE r \in S : \A q \in S : q <= r
-----------------------------------------------------------------------------
(* The record that DB_RingLogNext takes off the log, if any.               *)
Taken(l) == IF l.pending # {} /\ ~l.held /\ l.serverSent
            THEN {Least(l.pending)} ELSE {}

(* Mutants of GetData: the newest record instead of the oldest; the mark   *)
(* of a sent record stays.                                                 *)
GetDataNewest(l) ==
  LET rest == l.pending \ Taken(l)
  IN IF l.pending = {} \/ l.held THEN l
     ELSE [pending |-> rest, serverSent |-> FALSE, held |-> rest # {},
           logSend |-> IF rest = {} THEN l.logSend ELSE Newest(rest)]
GetDataStaleMark(l) ==
  LET rest == l.pending \ Taken(l)
  IN IF l.pending = {} \/ l.held THEN l
     ELSE [pending |-> rest, serverSent |-> l.serverSent, held |-> rest # {},
           logSend |-> IF rest = {} THEN l.logSend ELSE Least(rest)]

(* GetDataFromLog: take the record that was sent off the log, then hold    *)
(* the oldest one that is left.                                            *)
GetData(l) ==
  LET rest == l.pending \ Taken(l)
  IN IF l.pending = {} \/ l.held THEN l
     ELSE [pending |-> rest, serverSent |-> FALSE, held |-> rest # {},
           logSend |-> IF rest = {} THEN l.logSend ELSE Least(rest)]

GetDataFromLog(l, done) ==
  /\ log' = GetData(l)
  /\ skipped' = skipped \cup (Taken(l) \ done)

Init ==
  /\ log = [pending |-> {}, logSend |-> None, serverSent |-> FALSE, held |-> FALSE]
  /\ logRecord = None /\ newestLog = None
  /\ rpState = "INITIAL" /\ tcp = "none" /\ rpBuf = NoPacket /\ rexmitCnt = 0
  /\ getAddrFlag = FALSE /\ askAddrCnt = 0
  /\ nextRec = 1 /\ stalls = 0 /\ resets = 0 /\ restarts = 0 /\ sms = 0
  /\ acked = {} /\ skipped = {} /\ detours = 0
-----------------------------------------------------------------------------
(* The tracker.                                                            *)

(* TrackerTask stores a record; a full log gives up its oldest records.    *)
StoreRecord ==
  /\ nextRec <= MaxRec
  /\ logRecord' = nextRec /\ nextRec' = nextRec + 1
  /\ \/ /\ Cardinality(log.pending) < Capacity
        /\ log' = [log EXCEPT !.pending = @ \cup {nextRec}]
        /\ UNCHANGED detours
     \/ /\ Cardinality(log.pending) > Capacity - SectorRecs
        /\ \E gone \in SUBSET log.pending :
             /\ Cardinality(gone) \in 1 .. SectorRecs
             /\ \A r \in gone, q \in log.pending \ gone : r < q
             /\ log' = [log EXCEPT !.pending = (@ \ gone) \cup {nextRec}]
        /\ detours' = detours + 1
  /\ UNCHANGED <<newestLog, conn, addr, stalls, resets, restarts, sms,
                 acked, skipped>>

(* The main loop calls GetDataFromLog on every turn.                       *)
MainLoop ==
  /\ GetDataFromLog(log, acked)
  /\ UNCHANGED <<logRecord, newestLog, conn, addr, counters, acked, detours>>

(* DB_RingLogReset, on a command by SMS.                                   *)
ResetLog ==
  /\ resets < MaxReset /\ resets' = resets + 1
  /\ log' = [log EXCEPT !.pending = {}]
  /\ detours' = detours + 1
  /\ UNCHANGED <<logRecord, newestLog, conn, addr, nextRec, stalls, restarts,
                 sms, acked, skipped>>

(* A command by SMS asks for the address of the current position.          *)
AskAddress ==
  /\ sms < MaxSms /\ sms' = sms + 1
  /\ getAddrFlag' = TRUE
  /\ UNCHANGED <<log, logRecord, newestLog, conn, askAddrCnt, nextRec, stalls,
                 resets, restarts, history>>

(* What DB_LoadEndLog finds: it goes back from the head and stops at the   *)
(* tail before it has read that, so a single record is not found; in an    *)
(* empty log it goes round to what was there before.                       *)
EndLog(left) ==
  IF left = {} THEN 0 .. nextRec - 1
  ELSE IF Cardinality(left) = 1 THEN {None} ELSE {Newest(left)}

(* RAM is lost.  The log is as it was, or empty when its position sector   *)
(* has just been erased.                                                   *)
Restart ==
  /\ restarts < MaxRestart /\ restarts' = restarts + 1
  /\ \E left \in {log.pending, {}} :
       /\ log' = [pending |-> left, logSend |-> None, serverSent |-> FALSE,
                  held |-> FALSE]
       /\ logRecord' \in EndLog(left)
  /\ newestLog' = None
  /\ rpState' = "INITIAL" /\ tcp' = "none" /\ rpBuf' = NoPacket /\ rexmitCnt' = 0
  /\ getAddrFlag' = FALSE /\ askAddrCnt' = 0
  /\ UNCHANGED <<nextRec, stalls, resets, sms, history>>
-----------------------------------------------------------------------------
(* REPORTER_Manage.                                                        *)

(* INITIAL: open a connection; uIP may have none left.                     *)
Connect ==
  /\ rpState = "INITIAL"
  /\ \/ rpState' = "CONNECT" /\ tcp' = "opening" /\ UNCHANGED stalls
     \/ /\ stalls < MaxStall /\ stalls' = stalls + 1
        /\ rpState' = "WAIT_TIMEOUT_RECONNECT" /\ tcp' = "none"
  /\ rpBuf' = NoPacket
  /\ UNCHANGED <<log, logRecord, newestLog, rexmitCnt, addr, nextRec, resets,
                 restarts, sms, history>>

(* REPORTER_Reset forgets the connection; what uIP still tells about it is *)
(* ignored from then on.                                                   *)
Forget == /\ rpState' = "INITIAL" /\ tcp' = "none" /\ rpBuf' = NoPacket
          /\ UNCHANGED <<log, logRecord, newestLog, addr, nextRec, resets,
                         restarts, sms, history>>

(* Mutant of ReconnectTimeout: a closed connection is not opened again.    *)
ReconnectOnlyAttempt ==
  /\ rpState = "CONNECT" /\ stalls < MaxStall /\ stalls' = stalls + 1
  /\ Forget /\ UNCHANGED rexmitCnt

(* RECONNECT_TIMEOUT after the attempt.                                    *)
ReconnectTimeout ==
  /\ \/ rpState = "WAIT_TIMEOUT_RECONNECT" /\ UNCHANGED stalls
     \/ rpState = "CONNECT" /\ stalls < MaxStall /\ stalls' = stalls + 1
  /\ Forget /\ UNCHANGED rexmitCnt

(* tCallbackTimeout: uIP has been silent for ten seconds.                  *)
CallbackTimeout ==
  /\ rpState = "CONNECTED" /\ tcp = "lost"
  /\ Forget /\ rexmitCnt' = 0 /\ UNCHANGED stalls
-----------------------------------------------------------------------------
(* REPORTER_Callback, by what uIP reports.                                 *)

Connected ==
  /\ tcp = "opening"
  /\ tcp' = "open" /\ rpState' = "CONNECTED" /\ rexmitCnt' = 0
  /\ UNCHANGED <<log, logRecord, newestLog, rpBuf, addr, counters, history>>

(* uip_poll: the newest record goes ahead of the others, once; without a   *)
(* record to send, the reporter may ask for an address.                    *)
Poll ==
  /\ tcp \in {"open", "lost"} /\ rpBuf = NoPacket
  /\ GetDataFromLog(log, acked)
  /\ LET ahead == newestLog # logRecord /\ logRecord # log'.logSend
     IN \/ /\ log'.held /\ ahead
           /\ newestLog' = logRecord
           /\ rpBuf' = [kind |-> "newest", rec |-> logRecord]
           /\ detours' = detours + 1 /\ UNCHANGED addr
        \/ /\ log'.held /\ ~ahead
           /\ rpBuf' = [kind |-> "stored", rec |-> log'.logSend]
           /\ UNCHANGED <<newestLog, detours, addr>>
        \/ /\ ~log'.held /\ getAddrFlag
           /\ rpBuf' = [kind |-> "addr", rec |-> None]
           /\ askAddrCnt' = askAddrCnt + 1 /\ detours' = detours + 1
           /\ UNCHANGED <<newestLog, getAddrFlag>>
        \/ /\ ~log'.held
           /\ UNCHANGED <<newestLog, rpBuf, detours, addr>>
  /\ UNCHANGED <<logRecord, rpState, tcp, rexmitCnt, counters, acked>>

(* uip_acked: whatever the packet was, the record held now counts as sent. *)
Acked ==
  /\ tcp = "open" /\ rpBuf # NoPacket
  /\ acked' = acked \cup ({rpBuf.rec} \ {None})
  /\ LET sent == IF log.held THEN [log EXCEPT !.serverSent = TRUE, !.held = FALSE]
                 ELSE log
     IN GetDataFromLog(sent, acked')
  /\ IF askAddrCnt >= MaxAsk /\ getAddrFlag
       THEN askAddrCnt' = 0 /\ getAddrFlag' = FALSE
       ELSE UNCHANGED addr
  /\ rpBuf' = NoPacket /\ rexmitCnt' = 0
  /\ UNCHANGED <<logRecord, newestLog, rpState, tcp, counters, detours>>

(* The server answers an address request (uip_newdata), or the wait for it *)
(* is over.                                                                *)
AddressDone ==
  /\ getAddrFlag
  /\ getAddrFlag' = FALSE /\ askAddrCnt' = 0
  /\ UNCHANGED <<log, logRecord, newestLog, conn, counters, history>>

(* Mutant of Rexmit: one retransmission too many.                          *)
RexmitOnceMore ==
  /\ rpBuf # NoPacket
  /\ \/ tcp = "open" /\ stalls < MaxStall /\ stalls' = stalls + 1
     \/ tcp = "lost" /\ UNCHANGED stalls
  /\ IF rexmitCnt + 1 > MaxRexmit
       THEN rexmitCnt' = 0 /\ rpState' = "WAIT_TIMEOUT_RECONNECT"
       ELSE rexmitCnt' = rexmitCnt + 1 /\ UNCHANGED rpState
  /\ UNCHANGED <<log, logRecord, newestLog, tcp, rpBuf, addr, nextRec, resets,
                 restarts, sms, history>>

(* uip_rexmit: the same packet again.                                      *)
Rexmit ==
  /\ rpBuf # NoPacket
  /\ \/ tcp = "open" /\ stalls < MaxStall /\ stalls' = stalls + 1
     \/ tcp = "lost" /\ UNCHANGED stalls
  /\ IF rexmitCnt + 1 >= MaxRexmit
       THEN rexmitCnt' = 0 /\ rpState' = "WAIT_TIMEOUT_RECONNECT"
       ELSE rexmitCnt' = rexmitCnt + 1 /\ UNCHANGED rpState
  /\ UNCHANGED <<log, logRecord, newestLog, tcp, rpBuf, addr, nextRec, resets,
                 restarts, sms, history>>

(* uip_closed, uip_aborted.                                                *)
Closed ==
  /\ tcp # "none"
  /\ stalls < MaxStall /\ stalls' = stalls + 1
  /\ rpState' = "WAIT_TIMEOUT_RECONNECT" /\ tcp' = "none" /\ rpBuf' = NoPacket
  /\ UNCHANGED <<log, logRecord, newestLog, rexmitCnt, addr, nextRec, resets,
                 restarts, sms, history>>

(* The peer or the link is gone and uIP has not told.                      *)
PeerLost ==
  /\ tcp = "open" /\ tcp' = "lost"
  /\ stalls < MaxStall /\ stalls' = stalls + 1
  /\ UNCHANGED <<log, logRecord, newestLog, rpState, rpBuf, rexmitCnt, addr,
                 nextRec, resets, restarts, sms, history>>
-----------------------------------------------------------------------------
Manage == Connect \/ ReconnectTimeout \/ CallbackTimeout
Tracker == StoreRecord \/ ResetLog \/ AskAddress \/ Restart
Callback == Connected \/ Poll \/ Acked \/ AddressDone \/ Rexmit \/ Closed

Next == Tracker \/ MainLoop \/ Manage \/ Callback \/ PeerLost

Spec == Init /\ [][Next]_vars

(* The main loop and uIP keep running, a timeout expires, and the peer     *)
(* answers unless the link fails (at most MaxStall times).                 *)
FairSpec == Spec /\ WF_vars(MainLoop) /\ WF_vars(Manage) /\ WF_vars(Connected)
                 /\ WF_vars(Poll) /\ WF_vars(Acked)
-----------------------------------------------------------------------------
TypeOK ==
  /\ log \in [pending : SUBSET Records, logSend : Records \cup {None},
              serverSent : BOOLEAN, held : BOOLEAN]
  /\ logRecord \in Records \cup {None} /\ newestLog \in Records \cup {None}
  /\ rpState \in {"INITIAL", "CONNECT", "CONNECTED", "WAIT_TIMEOUT_RECONNECT"}
  /\ tcp \in {"none", "opening", "open", "lost"} /\ rpBuf \in Packet
  /\ rexmitCnt \in 0 .. MaxRexmit - 1
  /\ getAddrFlag \in BOOLEAN /\ askAddrCnt \in Nat
  /\ nextRec \in 1 .. MaxRec + 1
  /\ stalls \in 0 .. MaxStall /\ resets \in 0 .. MaxReset
  /\ restarts \in 0 .. MaxRestart /\ sms \in 0 .. MaxSms
  /\ acked \subseteq Records /\ skipped \subseteq Records /\ detours \in Nat

(* The record the reporter holds is the oldest in the log, or the log has  *)
(* given it up since: the reporter never holds one from the middle, so     *)
(* DB_RingLogNext never takes the wrong one as long as the log stands still*)
(* (GetDataFromLog).                                                       *)
HoldsOldest ==
  log.held /\ log.logSend \in log.pending => log.logSend = Least(log.pending)

(* A record the reporter takes off the log without its having been         *)
(* acknowledged is paid for: by the newest record sent ahead or an address *)
(* asked for, whose acknowledgement counts as that of the record held, or  *)
(* by the log giving up records or being reset under the reporter.  A lost *)
(* link, a retransmission or a restart pays for none.                      *)
NoUnexplainedLoss == Cardinality(skipped) <= detours

(* Every record gets out of the log in the end, sent or not: the reporter  *)
(* never waits for ever on a connection (REPORTER_Manage).                 *)
LogDrains == \A r \in Records : r \in log.pending ~> r \notin log.pending
=============================================================================
