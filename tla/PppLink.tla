------------------------------ MODULE PppLink ------------------------------
(***************************************************************************)
(* The PPP link over the modem: PPP_ManageLink and the automaton of        *)
(* PppAutomaton against the network's end of the link.                     *)
(*                                                                         *)
(* One turn of the main loop may find the carrier lost, a timer expired    *)
(* and one packet, in this order.  The peer is external: it follows the    *)
(* protocol, proposes once an option the tracker refuses, answers every    *)
(* request it can answer, and may probe the link or end it.  Either way a  *)
(* packet may be lost to line noise.                                       *)
(***************************************************************************)
EXTENDS PppAutomaton, FiniteSets

CONSTANTS
  Proposals,     \* whether the peer first proposes an option that is refused
  MaxDial,       \* bound: connections the modem makes
  MaxDrop,       \* bound: losses of the carrier, resets, starts of the modem
  MaxLostUp,     \* bound: packets of the tracker lost
  MaxLostDown,   \* bound: packets of the peer lost
  MaxPeer,       \* bound: probes by the peer, and ends of the link
  MaxNak,        \* bound: refused logins
  MaxWire        \* bound: packets under way when a timer expires or the peer repeats

ASSUME PppLinkAssumption ==
  /\ Proposals \subseteq BOOLEAN /\ MaxRestart \in 1 .. 255
  /\ IdMod \in Nat \ {0} /\ MaxDial \in Nat /\ MaxDrop \in Nat
  /\ MaxLostUp \in Nat /\ MaxLostDown \in Nat
  /\ MaxPeer \in Nat /\ MaxNak \in Nat /\ MaxWire \in Nat

VARIABLES
  ppp,           \* the globals of ppp.c
  online,        \* modem_IsOnline
  opened,        \* pppOpenedBefore
  up, down,      \* packets under way to the peer and to the tracker
  peer,          \* the other end: what it has acknowledged, what it got
  used           \* how much of each bound is used up

vars == <<ppp, online, opened, up, down, peer, used>>

Fresh == [acked |-> {}, got |-> {}, bad |-> FALSE]
Bounds == [dial |-> MaxDial, drop |-> MaxDrop, lostUp |-> MaxLostUp,
           lostDown |-> MaxLostDown, peer |-> MaxPeer,
           nak |-> MaxNak]

Use(kind) == /\ used[kind] < Bounds[kind]
             /\ used' = [used EXCEPT ![kind] = @ + 1]

Init ==
  /\ ppp = [phase |-> "dead", state |-> [layer \in Layers |-> "initial"],
            count |-> 0, timerOn |-> FALSE, msgId |-> 0, prepared |-> FALSE,
            tx |-> NoPacket, rx |-> NoPacket, sent |-> <<>>, ipAddr |-> "none",
            agreed |-> {}]
  /\ online = FALSE /\ opened = FALSE /\ up = <<>> /\ down = <<>>
  /\ peer = Fresh /\ used = [kind \in DOMAIN Bounds |-> 0]
-----------------------------------------------------------------------------
(* PPP_ManageLink.                                                         *)

Negotiating == {"establish", "authentication", "network"}

Dead ==
  /\ ppp.phase = "dead"
  /\ online' = (online /\ ~opened)
  /\ opened' = (opened /\ ~online)
  /\ ppp' = [ppp EXCEPT !.phase = "waitOnline"]
  /\ UNCHANGED <<up, down, peer, used>>

(* Set the packets of this turn on their way.                              *)
Transmit(p) ==
  /\ up' = up \o p.sent
  /\ ppp' = [p EXCEPT !.sent = <<>>]

WaitOnline ==
  /\ ppp.phase = "waitOnline" /\ online
  /\ opened' = TRUE
  /\ Transmit(Open(ppp))
  /\ UNCHANGED <<online, down, peer, used>>

Turn(p) == ppp.phase \in Negotiating \cup {"ip"} /\ Transmit(p) /\ UNCHANGED <<online, opened>>

Received(p) ==
  IF down = <<>> THEN p ELSE ProcessPacket(p, Head(down), ~peer.bad)
Rest == IF down = <<>> THEN <<>> ELSE Tail(down)

(* The negotiation timer runs; only outside the IP phase it is looked at.  *)
MayExpire == /\ ppp.phase \in Negotiating /\ ppp.timerOn
             /\ Len(up) + Len(down) < MaxWire

TimerExpires ==
  /\ MayExpire
  /\ Turn(Received(Timer(ppp)))
  /\ down' = Rest
  /\ UNCHANGED <<peer, used>>

PacketArrives ==
  /\ down # <<>>
  /\ Turn(Received(ppp))
  /\ down' = Rest
  /\ UNCHANGED <<peer, used>>

(* COMM_CarrierDetected, which is not connected on this board: always 0.   *)
(* The turn goes on with the packet.                                       *)
CarrierLost ==
  /\ Use("drop")
  /\ Turn(Received(LcpDown(ppp)))
  /\ down' = Rest
  /\ UNCHANGED peer

(* PPP_Init, by vTcpIpTask when the tasks above get nothing through a link *)
(* that is up.                                                             *)
LinkReset ==
  /\ ppp.phase = "ip" /\ Use("drop")
  /\ ppp' = [ppp EXCEPT !.phase = "dead"]
  /\ UNCHANGED <<online, opened, up, down, peer>>

(* PPP_Init in any phase: GSM_GPRS_Task is entered again when nothing was  *)
(* heard for two minutes, and turns the modem on anew.                     *)
StartAgain ==
  /\ Use("drop")
  /\ ppp' = [ppp EXCEPT !.phase = "dead"]
  /\ online' = FALSE
  /\ UNCHANGED <<opened, up, down, peer>>

(* The modem says NO CARRIER: the link's phase stays what it is.           *)
NoCarrier ==
  /\ online /\ Use("drop")
  /\ online' = FALSE
  /\ UNCHANGED <<ppp, opened, up, down, peer>>

(* GsmCommon_Task: dialling resets the link in any phase, a connection puts*)
(* it online.                                                              *)
Dial ==
  /\ ~online /\ Use("dial")
  /\ ppp' = [ppp EXCEPT !.phase = "dead"]
  /\ online' = TRUE /\ opened' = FALSE
  /\ up' = <<>> /\ down' = <<>>
  /\ \E bad \in Proposals : peer' = [Fresh EXCEPT !.bad = bad]
-----------------------------------------------------------------------------
(* The peer, which answers in the order of the layers.                     *)

Both(layer) == layer \in peer.acked /\ layer \in peer.got
Reached == [lcp |-> TRUE, pap |-> Both("lcp"), ipcp |-> "pap" \in peer.acked /\ Both("lcp")]

Answer(packet) == down' = Append(down, packet)

(* It hears a request.  It takes an address of its own pool for the        *)
(* tracker, and may refuse the tracker's name and password.                *)
Acknowledge(packet) ==
  /\ ~(packet.layer = "ipcp" /\ packet.addr # "own")
  /\ Answer([packet EXCEPT !.code = "ack"])
  /\ peer' = [peer EXCEPT !.acked = @ \cup {packet.layer}]
  /\ UNCHANGED used

OfferAddress(packet) ==
  /\ packet.layer = "ipcp" /\ packet.addr # "own"
  /\ Answer([packet EXCEPT !.code = "nak", !.addr = "own"])
  /\ UNCHANGED <<peer, used>>

RefuseLogin(packet) ==
  /\ packet.layer = "pap" /\ Use("nak")
  /\ Answer([packet EXCEPT !.code = "nak"])
  /\ UNCHANGED peer

PeerHears ==
  /\ up # <<>> /\ up' = Tail(up)
  /\ LET packet == Head(up)
     IN \/ /\ packet.code = "req" /\ Reached[packet.layer]
           /\ Acknowledge(packet) \/ OfferAddress(packet) \/ RefuseLogin(packet)
        \/ /\ packet.code = "ack" /\ packet.layer # "pap"
           /\ peer' = [peer EXCEPT !.got = @ \cup {packet.layer}]
           /\ UNCHANGED <<down, used>>
        \/ /\ packet.code \in {"nak", "rej"}
           /\ peer' = [peer EXCEPT !.bad = FALSE]
           /\ UNCHANGED <<down, used>>
        \/ /\ \/ packet.code \in {"termAck", "echoReply"}
              \/ packet.code = "ack" /\ packet.layer = "pap"
              \/ packet.code = "req" /\ ~Reached[packet.layer]
           /\ UNCHANGED <<down, peer, used>>
  /\ UNCHANGED <<ppp, online, opened>>

PeerSays(packet) == Answer(packet) /\ UNCHANGED <<ppp, online, opened, up, peer>>

(* Its own requests, repeated until they are acknowledged.                 *)
PeerAsks ==
  /\ online /\ down = <<>> /\ Len(up) < MaxWire /\ UNCHANGED used
  /\ \E layer \in {"lcp", "ipcp"} :
       /\ Reached[layer] /\ layer \notin peer.got
       /\ PeerSays([layer |-> layer, code |-> "req", id |-> 0,
                    addr |-> IF layer = "ipcp" THEN "peer" ELSE "none"])

PeerProbes ==
  /\ Both("lcp") /\ Use("peer")
  /\ PeerSays([layer |-> "lcp", code |-> "echoReq", id |-> 0, addr |-> "none"])

PeerEnds ==
  /\ online /\ Use("peer")
  /\ PeerSays([layer |-> "lcp", code |-> "termReq", id |-> 0, addr |-> "none"])

LoseUp == up # <<>> /\ Use("lostUp") /\ up' = Tail(up)
          /\ UNCHANGED <<ppp, online, opened, down, peer>>
LoseDown == down # <<>> /\ Use("lostDown") /\ down' = Tail(down)
            /\ UNCHANGED <<ppp, online, opened, up, peer>>

Tracker == Dead \/ WaitOnline \/ TimerExpires \/ PacketArrives
Outside == \/ CarrierLost \/ LinkReset \/ StartAgain \/ NoCarrier \/ Dial
           \/ PeerHears \/ PeerAsks \/ PeerProbes \/ PeerEnds \/ LoseUp \/ LoseDown
Next == Tracker \/ Outside

Spec == Init /\ [][Next]_vars
(* A running timer expires in the end: vTcpIpTask looks at it in every     *)
(* turn, and the bound on the packets under way only delays it.  The loop  *)
(* takes the packets that arrive, and the modem those that leave.  (Strong *)
(* fairness of TimerExpires and weak fairness of PacketArrives, with their *)
(* guards spelled out for TLC.)                                            *)
MayReceive == ppp.phase \in Negotiating \cup {"ip"} /\ down # <<>>
FairSpec ==
  /\ Spec /\ WF_vars(PeerHears)
  /\ []<>MayExpire => []<><<TimerExpires>>_vars
  /\ <>[]MayReceive => []<><<PacketArrives>>_vars
-----------------------------------------------------------------------------
(* The restart counter is one byte that every request decrements, whatever *)
(* its layer: while it is needed it never goes below zero, where it would  *)
(* allow 255 repetitions more.  (It does once the link is given up, when   *)
(* an open layer asks again in a phase that is over.)                      *)
CountNeverWraps == ppp.phase \in Negotiating => ppp.count <= MaxRestart

(* A layer is negotiated only over layers that are open: in each phase     *)
(* the layers below are open and the one that is negotiated is not.        *)
LayersInOrder ==
  /\ ppp.phase = "establish" => ppp.state["lcp"] \in {"reqSent", "ackRcvd", "ackSent"}
  /\ ppp.phase = "authentication" => ppp.state["lcp"] = "opened" /\ ppp.state["pap"] # "opened"
  /\ ppp.phase = "network" => /\ ppp.state["lcp"] = "opened" /\ ppp.state["pap"] = "opened"
                              /\ ppp.state["ipcp"] # "opened"
  /\ ppp.phase = "ip" => \A layer \in Layers : ppp.state[layer] = "opened"

(* A link that is up was agreed to by both ends on this connection: the    *)
(* peer acknowledged what the tracker asked for each layer, and the tracker*)
(* what the peer asked for those the peer asks for (a login is one-sided). *)
LinkedIsAgreed ==
  ppp.phase = "ip" => /\ Layers \subseteq peer.acked
                      /\ {"lcp", "ipcp"} \subseteq ppp.agreed

(* The restart counter ends every negotiation in which the other end falls *)
(* silent: a link whose timer runs for ever is one that packets reach.     *)
SilenceEnds ==
  <>[](ppp.phase \in Negotiating /\ ppp.timerOn) => []<><<PacketArrives>>_vars
=============================================================================
