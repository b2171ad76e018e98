---------------------------- MODULE PppAutomaton ----------------------------
(***************************************************************************)
(* The option negotiation of ppp.c: PPP__ManageState as a table of         *)
(* transitions, and what each of its actions does to the globals the three *)
(* layers (LCP, PAP, IPCP) share: one phase, one restart counter, one      *)
(* timer, one packet number and one transmit buffer.                       *)
(*                                                                         *)
(* A value p of these operators holds those globals, the state of each     *)
(* layer, the packets sent so far in a turn of the main loop, and, as      *)
(* history, the layers of the packets acknowledged since the link was      *)
(* opened.                                                                 *)
(***************************************************************************)
EXTENDS Integers, Sequences

CONSTANTS
  MaxRestart,    \* PPP_MAX_RESTART (5)
  IdMod          \* bound: numbers of packets, one byte in the code (256)

Layers == {"lcp", "pap", "ipcp"}
Phases == {"dead", "waitOnline", "establish", "authentication", "network", "ip"}
States == {"initial", "starting", "closed", "stopped", "closing", "stopping",
           "reqSent", "ackRcvd", "ackSent", "opened"}
Codes == {"none", "req", "ack", "nak", "rej", "termReq", "termAck", "echoReq", "echoReply"}
Addresses == {"none", "own", "peer"}
Packet == [layer : Layers, code : Codes, id : 0 .. IdMod - 1, addr : Addresses]
NoPacket == [layer |-> "lcp", code |-> "none", id |-> 0, addr |-> "none"]
-----------------------------------------------------------------------------
(* PPP__ManageState: the actions a state takes on an event and the state   *)
(* it goes to; an event it does not react to is ignored.                   *)
To(acts, next) == [acts |-> acts, next |-> next]
Ignored(state) == To(<<>>, state)

Rcv == {"rcr+", "rcr-", "rca", "rcn", "rtr"}

Initial(event) ==
  CASE event = "up" -> To(<<>>, "closed")
    [] event = "open" -> To(<<"tls">>, "starting")
    [] OTHER -> Ignored("initial")

Starting(event) ==
  CASE event = "up" -> To(<<"irc", "scr">>, "reqSent")
    [] event = "close" -> To(<<"tlf">>, "initial")
    [] OTHER -> Ignored("starting")

Closed(event) ==
  CASE event = "down" -> To(<<>>, "initial")
    [] event = "open" -> To(<<"irc", "scr">>, "reqSent")
    [] event \in Rcv \cup {"rxj+", "rxj-"} -> To(<<"sta">>, "closed")
    [] event = "ruc" -> To(<<"scj">>, "closed")
    [] OTHER -> Ignored("closed")

Stopped(event) ==
  CASE event = "down" -> To(<<"tls">>, "starting")
    [] event = "close" -> To(<<>>, "closed")
    [] event = "rcr+" -> To(<<"irc", "scr", "sca">>, "ackSent")
    [] event = "rcr-" -> To(<<"irc", "scr", "scn">>, "reqSent")
    [] event \in {"rca", "rcn", "rtr"} -> To(<<"sta">>, "stopped")
    [] event = "ruc" -> To(<<"scj">>, "stopped")
    [] event = "rxj-" -> To(<<"tlf">>, "stopped")
    [] OTHER -> Ignored("stopped")

Closing(event) ==
  CASE event = "down" -> To(<<>>, "initial")
    [] event = "open" -> To(<<>>, "stopping")
    [] event = "to+" -> To(<<"str">>, "closing")
    [] event \in {"to-", "rxj-", "rta"} -> To(<<"tlf">>, "closed")
    [] event = "rtr" -> To(<<"sta">>, "closing")
    [] event = "ruc" -> To(<<"scj">>, "closing")
    [] OTHER -> Ignored("closing")

Stopping(event) ==
  CASE event = "down" -> To(<<>>, "starting")
    [] event = "close" -> To(<<>>, "closing")
    [] event = "to+" -> To(<<"str">>, "stopping")
    [] event \in {"to-", "rxj-", "rta"} -> To(<<"tlf">>, "stopped")
    [] event = "rtr" -> To(<<"sta">>, "stopping")
    [] event = "ruc" -> To(<<"scj">>, "stopping")
    [] OTHER -> Ignored("stopping")

AckRcvd(event) ==
  CASE event = "down" -> To(<<>>, "starting")
    [] event = "close" -> To(<<"irc", "str">>, "closing")
    [] event = "to+" -> To(<<"scr">>, "reqSent")
    [] event \in {"to-", "rxj-"} -> To(<<"tlf">>, "stopped")
    [] event = "rcr+" -> To(<<"sca", "tlu">>, "opened")
    [] event = "rcr-" -> To(<<"scn">>, "ackRcvd")
    [] event \in {"rca", "rcn"} -> To(<<"scr">>, "reqSent")
    [] event = "rtr" -> To(<<"sta">>, "reqSent")
    [] OTHER -> Ignored("ackRcvd")

ReqSent(event) ==
  CASE event = "down" -> To(<<>>, "starting")
    [] event = "close" -> To(<<"irc", "str">>, "closing")
    [] event = "to+" -> To(<<"scr">>, "reqSent")
    [] event \in {"to-", "rxj-"} -> To(<<"tlf">>, "stopped")
    [] event = "rcr+" -> To(<<"sca">>, "ackSent")
    [] event = "rcr-" -> To(<<"scn">>, "reqSent")
    [] event = "rca" -> To(<<"irc">>, "ackRcvd")
    [] event = "rcn" -> To(<<"irc", "scr">>, "reqSent")
    [] event = "rtr" -> To(<<"sta">>, "reqSent")
    [] event = "ruc" -> To(<<"scj">>, "reqSent")
    [] OTHER -> Ignored("reqSent")

AckSent(event) ==
  CASE event = "down" -> To(<<>>, "starting")
    [] event = "close" -> To(<<"irc", "str">>, "closing")
    [] event = "to+" -> To(<<"scr">>, "ackSent")
    [] event \in {"to-", "rxj-"} -> To(<<"tlf">>, "stopped")
    [] event = "rcr+" -> To(<<"sca">>, "ackSent")
    [] event = "rcr-" -> To(<<"scn">>, "reqSent")
    [] event = "rca" -> To(<<"irc", "tlu">>, "opened")
    [] event = "rcn" -> To(<<"irc", "scr">>, "ackSent")
    [] event = "rtr" -> To(<<"sta">>, "reqSent")
    [] event = "ruc" -> To(<<"scj">>, "ackSent")
    [] OTHER -> Ignored("ackSent")

Opened(event) ==
  CASE event = "down" -> To(<<"tld">>, "starting")
    [] event = "close" -> To(<<"tld", "irc", "str">>, "closing")
    [] event = "rcr+" -> To(<<"tld", "scr", "sca">>, "ackSent")
    [] event = "rcr-" -> To(<<"tld", "scr", "scn">>, "reqSent")
    [] event \in {"rca", "rcn", "rta"} -> To(<<"tld", "scr">>, "reqSent")
    [] event = "rtr" -> To(<<"tld", "zrc", "sta">>, "stopping")
    [] event = "ruc" -> To(<<"scj">>, "opened")
    [] event = "rxj-" -> To(<<"tld", "irc", "str">>, "stopping")
    [] event = "rxr" -> To(<<"ser">>, "opened")
    [] OTHER -> Ignored("opened")

Row(state, event) ==
  CASE state = "initial" -> Initial(event) [] state = "starting" -> Starting(event)
    [] state = "closed" -> Closed(event)   [] state = "stopped" -> Stopped(event)
    [] state = "closing" -> Closing(event) [] state = "stopping" -> Stopping(event)
    [] state = "reqSent" -> ReqSent(event) [] state = "ackRcvd" -> AckRcvd(event)
    [] state = "ackSent" -> AckSent(event) [] state = "opened" -> Opened(event)

(* In these states every event, also one that is ignored, turns the timer  *)
(* of all the layers off.                                                  *)
TimerOffIn == {"initial", "starting", "closed", "stopped", "opened"}
-----------------------------------------------------------------------------
(* The actions.                                                            *)
Send(p, packet) == [p EXCEPT !.tx = packet, !.sent = Append(@, packet)]

(* PPP__SendConfigReq: what is asked for depends on the phase, not on the  *)
(* layer; outside a phase, or with the options of a NAK at hand, the       *)
(* transmit buffer goes out as it is.                                      *)
LayerOfPhase == [establish |-> "lcp", authentication |-> "pap", network |-> "ipcp"]

Request(p) ==
  LET ready == p.prepared \/ p.phase \notin DOMAIN LayerOfPhase
      id == (p.msgId + 1) % IdMod
      layer == IF ready THEN p.tx.layer ELSE LayerOfPhase[p.phase]
      addr == IF ready THEN p.tx.addr ELSE "none"
  IN [Send(p, [layer |-> layer, code |-> "req", id |-> id, addr |-> addr])
        EXCEPT !.msgId = id, !.prepared = FALSE, !.timerOn = TRUE]

(* Mutant: requests are not counted.                                       *)
SendConfigReqFree(p) == Request(p)

SendConfigReq(p) == [Request(p) EXCEPT !.count = (@ - 1) % 256]

(* The answers copy the received packet and change its code.               *)
SendCopy(p, code) == Send(p, [p.rx EXCEPT !.code = code])
SendConfigAck(p) == [SendCopy(p, "ack") EXCEPT !.agreed = @ \cup {p.rx.layer}]

(* PPP__SendConfigNackRej sends what PPP__CheckLCPOptions left in the      *)
(* buffer; neither of them sets its code.                                  *)
SendConfigNackRej(p) == Send(p, p.tx)

(* What an action does to the globals; those that give the layer above its *)
(* events do nothing else.                                                 *)
Do(p, act) ==
  CASE act = "irc" -> [p EXCEPT !.count = MaxRestart]
    [] act = "zrc" -> [p EXCEPT !.count = 0, !.timerOn = TRUE]
    [] act = "scr" -> SendConfigReq(p)
    [] act = "sca" -> SendConfigAck(p)
    [] act = "scn" -> SendConfigNackRej(p)
    [] act = "str" -> [p EXCEPT !.timerOn = TRUE]
    [] act = "sta" -> SendCopy(p, "termAck")
    [] act = "ser" -> SendCopy(p, "echoReply")
    [] act \in {"tls", "scj", "tlu", "tld", "tlf"} -> p

DoNth(p, acts, n) == IF n > Len(acts) THEN p ELSE Do(p, acts[n])
DoAll(p, acts) == DoNth(DoNth(DoNth(p, acts, 1), acts, 2), acts, 3)

(* In every row the action that takes the layers above down comes first    *)
(* and the one that takes them up comes last.                              *)
TakesDown(acts) == acts # <<>> /\ acts[1] \in {"tld", "tlf"}
TakesUp(acts) == acts # <<>> /\ acts[Len(acts)] = "tlu"

(* One event for one layer: the timer, at most three actions one after the *)
(* other, the next state.                                                  *)
Before(p, layer) == IF p.state[layer] \in TimerOffIn THEN [p EXCEPT !.timerOn = FALSE] ELSE p
Acts(p, layer, event) == Row(p.state[layer], event).acts
Goal(p, layer, event) == Row(p.state[layer], event).next
Goes(p, layer, state) == [p EXCEPT !.state[layer] = state]

(* From the layer on top down: PPP__ThisLayerUp, and PPP__ThisLayerDown or *)
(* PPP__ThisLayerFinished, which give the layer above its events, and      *)
(* PPP__ManageState for the layer.  IPCP takes the local address from the  *)
(* packet that was received last.                                          *)
IpcpUp(p) == [p EXCEPT !.phase = "ip", !.ipAddr = p.rx.addr]
IpcpDown(p) == [p EXCEPT !.phase = "dead"]
IpcpActs(p, acts) ==
  LET q == DoAll(IF TakesDown(acts) THEN IpcpDown(p) ELSE p, acts)
  IN IF TakesUp(acts) THEN IpcpUp(q) ELSE q
IpcpEvent(p, event) ==
  Goes(IpcpActs(Before(p, "ipcp"), Acts(p, "ipcp", event)), "ipcp", Goal(p, "ipcp", event))

PapUp(p) == IpcpEvent(IpcpEvent([p EXCEPT !.phase = "network", !.msgId = IdMod - 1], "open"), "up")
PapDown(p) == [IpcpEvent(p, "down") EXCEPT !.phase = "dead"]
PapActs(p, acts) ==
  LET q == DoAll(IF TakesDown(acts) THEN PapDown(p) ELSE p, acts)
  IN IF TakesUp(acts) THEN PapUp(q) ELSE q
PapEvent(p, event) ==
  Goes(PapActs(Before(p, "pap"), Acts(p, "pap", event)), "pap", Goal(p, "pap", event))

LcpUp(p) == PapEvent(PapEvent([p EXCEPT !.phase = "authentication", !.msgId = IdMod - 1], "open"), "up")
LcpDown(p) == [PapEvent(p, "down") EXCEPT !.phase = "dead"]
LcpActs(p, acts) ==
  LET q == DoAll(IF TakesDown(acts) THEN LcpDown(p) ELSE p, acts)
  IN IF TakesUp(acts) THEN LcpUp(q) ELSE q
LcpEvent(p, event) ==
  Goes(LcpActs(Before(p, "lcp"), Acts(p, "lcp", event)), "lcp", Goal(p, "lcp", event))
-----------------------------------------------------------------------------
(* PPP__Open, PPP__Timer and PPP__ProcessPacket.                           *)

(* Mutant: the layers above keep their state.                              *)
OpenLower(p) ==
  LET q == [p EXCEPT !.count = MaxRestart, !.msgId = IdMod - 1, !.prepared = FALSE,
                     !.timerOn = FALSE, !.phase = "establish", !.state["lcp"] = "initial",
                     !.agreed = {}]
  IN LcpEvent(LcpEvent(q, "open"), "up")

Open(p) ==
  LET q == [p EXCEPT !.count = MaxRestart, !.msgId = IdMod - 1, !.prepared = FALSE,
                     !.timerOn = FALSE, !.phase = "establish",
                     !.state = [layer \in Layers |-> "initial"], !.agreed = {}]
  IN LcpEvent(LcpEvent(q, "open"), "up")

(* Mutant: requests are repeated without end.                              *)
TimerEndless(p) ==
  CASE ~p.timerOn -> p
    [] p.timerOn /\ p.phase = "establish" -> LcpEvent(p, "to+")
    [] p.timerOn /\ p.phase = "authentication" -> PapEvent(p, "to+")
    [] p.timerOn /\ p.phase = "network" -> IpcpEvent(p, "to+")
    [] OTHER -> p

Timer(p) ==
  LET event == IF p.count > 0 THEN "to+" ELSE "to-"
  IN CASE ~p.timerOn -> p
       [] p.timerOn /\ p.phase = "establish" -> LcpEvent(p, event)
       [] p.timerOn /\ p.phase = "authentication" -> PapEvent(p, event)
       [] p.timerOn /\ p.phase = "network" -> IpcpEvent(p, event)
       [] OTHER -> p

(* An acknowledgement, a NAK or a reject counts only with the number of    *)
(* the last request.                                                       *)
InSync(p) == p.rx.id = p.msgId

KeepNak(p) == [p EXCEPT !.prepared = TRUE, !.tx = p.rx]

(* PPP__CheckLCPOptions prepares an answer in the transmit buffer, all but *)
(* its code, whether or not the options are good.                          *)
CheckLCPOptions(p) == [p EXCEPT !.tx = [@ EXCEPT !.layer = "lcp", !.id = p.rx.id]]

Stale(p) == p.rx.code \in {"ack", "nak", "rej"} /\ ~InSync(p)

LcpPrepared(p) ==
  CASE p.rx.code = "req" -> CheckLCPOptions(p)
    [] p.rx.code = "nak" -> KeepNak(p)
    [] p.rx.code = "termReq" -> [p EXCEPT !.tx = [p.rx EXCEPT !.code = "termAck"]]
    [] OTHER -> p

LcpHeard(code, good) ==
  CASE code = "req" -> IF good THEN "rcr+" ELSE "rcr-"
    [] code = "ack" -> "rca"
    [] code \in {"nak", "rej"} -> "rcn"
    [] code \in {"echoReq", "echoReply"} -> "rxr"
    [] code = "termReq" -> "rtr"
    [] OTHER -> "ruc"

ProcessLcp(p, good) ==
  IF Stale(p) THEN p ELSE LcpEvent(LcpPrepared(p), LcpHeard(p.rx.code, good))

(* An acknowledged login also stands for a request of the other end.       *)
PapHeard(code) ==
  CASE code = "req" -> "rcr+" [] code \in {"ack", "rej"} -> "rca" [] code = "nak" -> "rcn"

ProcessPap(p) ==
  IF Stale(p) \/ p.rx.code \notin {"req", "ack", "nak", "rej"} THEN p
  ELSE PapEvent(IF p.rx.code = "ack" THEN PapEvent(p, "rcr+") ELSE p, PapHeard(p.rx.code))

(* Mutant: a NAK counts as an acknowledgement.                             *)
ProcessIpcpNak(p) ==
  CASE p.rx.code = "req" -> IpcpEvent(p, "rcr+")
    [] p.rx.code \in {"nak", "ack"} /\ InSync(p) -> IpcpEvent(p, "rca")
    [] OTHER -> p

ProcessIpcp(p) ==
  CASE p.rx.code = "req" -> IpcpEvent(p, "rcr+")
    [] p.rx.code = "nak" /\ InSync(p) -> IpcpEvent(KeepNak(p), "rcn")
    [] p.rx.code = "ack" /\ InSync(p) -> IpcpEvent(p, "rca")
    [] OTHER -> p

ProcessPacket(p, packet, good) ==
  LET q == [p EXCEPT !.rx = packet]
  IN CASE packet.layer = "lcp" -> ProcessLcp(q, good)
       [] packet.layer = "pap" -> ProcessPap(q)
       [] packet.layer = "ipcp" -> ProcessIpcp(q)
=============================================================================
