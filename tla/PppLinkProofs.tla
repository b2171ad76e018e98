---------------------------- MODULE PppLinkProofs ----------------------------
(***************************************************************************)
(* Proofs about the PPP link, for every restart count, every number space  *)
(* of the packets and any number of connections, losses and packets under  *)
(* way.                                                                    *)
(***************************************************************************)
EXTENDS PppLink, TLAPS

(* The globals of ppp.c.                                                   *)
Globals == [phase : Phases, state : [Layers -> States], count : 0 .. 255, timerOn : BOOLEAN,
            msgId : 0 .. IdMod - 1, prepared : BOOLEAN, tx : Packet, rx : Packet,
            sent : Seq(Packet), ipAddr : Addresses, agreed : SUBSET Layers]

(* What a layer does for itself leaves the phase, the states and the       *)
(* packet received alone, and takes no acknowledgement back.               *)
Later(p, q) == q.rx = p.rx /\ p.agreed \subseteq q.agreed
Kept(p, q) == q \in Globals /\ q.phase = p.phase /\ q.state = p.state /\ Later(p, q)

LEMMA SendKept ==
  ASSUME NEW p \in Globals, NEW packet \in Packet
  PROVE  Kept(p, Send(p, packet)) /\ Send(p, packet).count = p.count
<1>1. Append(p.sent, packet) \in Seq(Packet)
  BY DEF Globals
<1>2. Send(p, packet) = [p EXCEPT !.tx = packet, !.sent = Append(p.sent, packet)]
  BY DEF Send
<1> QED BY <1>1, <1>2 DEF Globals, Kept, Later

LEMMA CopyKept ==
  ASSUME NEW p \in Globals, NEW code \in Codes
  PROVE  Kept(p, SendCopy(p, code)) /\ SendCopy(p, code).count = p.count
<1>1. [p.rx EXCEPT !.code = code] \in Packet
  BY DEF Globals, Packet
<1> QED BY <1>1, SendKept DEF SendCopy

(* An acknowledgement answers the packet that was received.                *)
LEMMA AckKept ==
  ASSUME NEW p \in Globals
  PROVE  LET q == SendConfigAck(p) IN
         Kept(p, q) /\ q.count = p.count /\ p.rx.layer \in q.agreed
<1> DEFINE c == SendCopy(p, "ack")
<1>1. Kept(p, c) /\ c.count = p.count /\ c \in Globals
  BY CopyKept DEF Kept, Codes
<1>2. p.rx.layer \in Layers
  BY DEF Globals, Packet
<1>3. SendConfigAck(p) = [c EXCEPT !.agreed = c.agreed \cup {p.rx.layer}]
  BY DEF SendConfigAck
<1> HIDE DEF c
<1>4. LET q == [c EXCEPT !.agreed = c.agreed \cup {p.rx.layer}] IN
      Kept(c, q) /\ q.count = c.count /\ p.rx.layer \in q.agreed
  BY <1>1, <1>2 DEF Kept, Later, Globals
<1> QED BY <1>1, <1>3, <1>4 DEF Kept, Later

LEMMA NackKept ==
  ASSUME NEW p \in Globals
  PROVE  Kept(p, SendConfigNackRej(p)) /\ SendConfigNackRej(p).count = p.count
<1>1. p.tx \in Packet
  BY DEF Globals
<1> QED BY <1>1, SendKept DEF SendConfigNackRej

LEMMA RequestKept ==
  ASSUME NEW p \in Globals
  PROVE  Kept(p, SendConfigReq(p)) /\ SendConfigReq(p).count = (p.count - 1) % 256
<1> DEFINE ready == p.prepared \/ p.phase \notin DOMAIN LayerOfPhase
           id == (p.msgId + 1) % IdMod
           layer == IF ready THEN p.tx.layer ELSE LayerOfPhase[p.phase]
           addr == IF ready THEN p.tx.addr ELSE "none"
           packet == [layer |-> layer, code |-> "req", id |-> id, addr |-> addr]
<1>1. id \in 0 .. IdMod - 1
  BY PppLinkAssumption DEF Globals
<1>2. layer \in Layers /\ addr \in Addresses
  BY DEF Globals, Packet, LayerOfPhase, Layers, Addresses
<1>3. packet \in Packet
  BY <1>1, <1>2 DEF Packet, Codes
<1>4. Kept(p, Send(p, packet)) /\ Send(p, packet).count = p.count
  BY <1>3, SendKept
<1>5. Request(p) = [Send(p, packet) EXCEPT !.msgId = id, !.prepared = FALSE, !.timerOn = TRUE]
  BY DEF Request
<1> HIDE DEF packet, id
<1>6. Kept(p, Request(p)) /\ Request(p).count = p.count
  BY <1>1, <1>4, <1>5 DEF Kept, Later, Globals
<1>7. (p.count - 1) % 256 \in 0 .. 255
  <2>1. p.count \in 0 .. 255
    BY DEF Globals
  <2> QED BY <2>1
<1>8. SendConfigReq(p) = [Request(p) EXCEPT !.count = (p.count - 1) % 256]
  BY <1>6 DEF SendConfigReq
<1>9. /\ Request(p) \in Globals /\ Request(p).phase = p.phase /\ Request(p).state = p.state
      /\ Request(p).rx = p.rx /\ p.agreed \subseteq Request(p).agreed
  BY <1>6 DEF Kept, Later
<1> HIDE DEF ready, layer, addr
<1>10. SendConfigReq(p) \in Globals
  BY <1>7, <1>8, <1>9 DEF Globals
<1> QED BY <1>8, <1>9, <1>10 DEF Kept, Later, Globals
-----------------------------------------------------------------------------
(* The table.  A layer that is not to run ignores all input; one that      *)
(* negotiates keeps to it, is acknowledged, comes up or gives up; one that *)
(* is open stays so without a change, or goes down first.                  *)
Input == {"rcr+", "rcr-", "rca", "rcn", "rtr", "ruc", "rxr", "to+", "to-"}
Inert == {"initial", "starting"}
InNegotiation == {"reqSent", "ackRcvd", "ackSent"}
Agrees == {"ackRcvd", "opened"}

Quiet == {<<>>, <<"str">>, <<"sca">>, <<"scn">>, <<"sta">>, <<"ser">>, <<"scj">>, <<"tls">>}
Restarts == {<<"irc", "scr">>, <<"irc", "scr", "sca">>, <<"irc", "scr", "scn">>}
Rises == {<<"sca", "tlu">>, <<"irc", "tlu">>}
Acknowledges == {<<"irc">>}
Repeats == {<<"scr">>}
FallsQuietly == {<<"tld">>}
GivesUp == {<<"tlf">>}
Falls == {<<"tlf">>, <<"tld">>, <<"tld", "scr">>, <<"tld", "scr", "sca">>, <<"tld", "scr", "scn">>,
          <<"tld", "zrc", "sta">>}

LEMMA InertRows ==
  ASSUME NEW s \in Inert, NEW e \in Input
  PROVE  Row(s, e) = Ignored(s)
BY DEF Inert, Input, Row, Initial, Starting

LEMMA NegotiatingRows ==
  ASSUME NEW s \in InNegotiation, NEW e \in Input
  PROVE  LET r == Row(s, e) IN
         \/ r.acts \in Quiet /\ r.next \in InNegotiation /\ (r.next = "ackRcvd" => s = "ackRcvd")
         \/ r.acts \in Acknowledges /\ r.next = "ackRcvd" /\ e = "rca"
         \/ r.acts \in Restarts /\ r.next \in {"reqSent", "ackSent"}
         \/ r.acts \in Repeats /\ r.next \in {"reqSent", "ackSent"} /\ (s = "ackRcvd" \/ e = "to+")
         \/ r.acts \in Rises /\ r.next = "opened" /\ (s = "ackRcvd" \/ e = "rca")
         \/ r.acts \in GivesUp /\ r.next = "stopped"
<1>1. CASE s = "reqSent"
  BY <1>1 DEF Input, InNegotiation, Quiet, Restarts, Rises, Acknowledges, Repeats, GivesUp, Row, ReqSent, To, Ignored
<1>2. CASE s = "ackRcvd"
  BY <1>2 DEF Input, InNegotiation, Quiet, Restarts, Rises, Acknowledges, Repeats, GivesUp, Row, AckRcvd, To, Ignored
<1>3. CASE s = "ackSent"
  BY <1>3 DEF Input, InNegotiation, Quiet, Restarts, Rises, Acknowledges, Repeats, GivesUp, Row, AckSent, To, Ignored
<1> QED BY <1>1, <1>2, <1>3 DEF InNegotiation

(* A layer that has answered the other end did so before, or does it now.  *)
Answering == {"ackSent", "opened"}
Says == {<<"sca">>, <<"irc", "scr", "sca">>, <<"sca", "tlu">>}

LEMMA AnsweringRows ==
  ASSUME NEW s \in States \ Answering, NEW e \in Input, Row(s, e).next \in Answering
  PROVE  Row(s, e).acts \in Says /\ e = "rcr+"
<1>1. CASE s \in Inert
  BY <1>1, InertRows DEF Inert, Answering, Ignored, To
<1>2. CASE s = "reqSent"
  BY <1>2 DEF Input, Answering, Says, Row, ReqSent, To, Ignored
<1>3. CASE s = "ackRcvd"
  BY <1>3 DEF Input, Answering, Says, Row, AckRcvd, To, Ignored
<1>4. CASE s = "closed"
  BY <1>4 DEF Input, Answering, Says, Row, Closed, To, Ignored, Rcv
<1>5. CASE s = "stopped"
  BY <1>5 DEF Input, Answering, Says, Row, Stopped, To, Ignored
<1>6. CASE s \in {"closing", "stopping"}
  BY <1>6 DEF Input, Answering, Says, Row, Closing, Stopping, To, Ignored
<1> QED BY <1>1, <1>2, <1>3, <1>4, <1>5, <1>6 DEF States, Answering, Inert

LEMMA OpenedRow ==
  ASSUME NEW e \in Input
  PROVE  LET r == Row("opened", e) IN
         \/ r.acts \in Quiet /\ r.next = "opened"
         \/ r.acts \in Falls /\ r.next \in {"reqSent", "ackSent", "stopping"}
BY DEF Input, Quiet, Falls, Row, Opened, To, Ignored

LEMMA OtherRows ==
  ASSUME NEW s \in {"closed", "stopped", "closing", "stopping"}, NEW e \in Input
  PROVE  LET r == Row(s, e) IN
         /\ r.acts \in Quiet \cup Restarts \cup GivesUp
         /\ r.next \in States \ (Agrees \cup Inert)
<1>1. CASE s = "closed"
  BY <1>1 DEF Input, Quiet, Restarts, GivesUp, States, Agrees, Inert, Row, Closed, To, Ignored, Rcv
<1>2. CASE s = "stopped"
  BY <1>2 DEF Input, Quiet, Restarts, GivesUp, States, Agrees, Inert, Row, Stopped, To, Ignored
<1>3. CASE s = "closing"
  BY <1>3 DEF Input, Quiet, Restarts, GivesUp, States, Agrees, Inert, Row, Closing, To, Ignored
<1>4. CASE s = "stopping"
  BY <1>4 DEF Input, Quiet, Restarts, GivesUp, States, Agrees, Inert, Row, Stopping, To, Ignored
<1> QED BY <1>1, <1>2, <1>3, <1>4

LEMMA RisingRows ==
  ASSUME NEW s \in States, NEW e \in Input, Row(s, e).acts \in Rises
  PROVE  s \in InNegotiation
<1>1. CASE s \in Inert
  BY <1>1, InertRows DEF Rises, Ignored, To
<1>2. CASE s = "opened"
  BY <1>2, OpenedRow DEF Rises, Quiet, Falls
<1>3. CASE s \in {"closed", "stopped", "closing", "stopping"}
  BY <1>3, OtherRows DEF Rises, Quiet, Restarts, GivesUp
<1> QED BY <1>1, <1>2, <1>3 DEF States, Inert, InNegotiation

LEMMA DownRows ==
  ASSUME NEW s \in States
  PROVE  LET r == Row(s, "down") IN
         /\ r.next \in Inert
         /\ IF s = "opened" THEN r.acts \in FallsQuietly ELSE r.acts \in Quiet
<1>1. s \in Inert => Row(s, "down") = To(<<>>, s)
  BY DEF Inert, Row, Initial, Starting, Ignored
<1>2. s \in {"closed", "closing"} => Row(s, "down") = To(<<>>, "initial")
  BY DEF Row, Closed, Closing, Rcv
<1>3. s = "stopped" => Row(s, "down") = To(<<"tls">>, "starting")
  BY DEF Row, Stopped
<1>4. s \in InNegotiation \cup {"stopping"} => Row(s, "down") = To(<<>>, "starting")
  BY DEF InNegotiation, Row, Stopping, ReqSent, AckRcvd, AckSent
<1>5. s = "opened" => Row(s, "down") = To(<<"tld">>, "starting")
  BY DEF Row, Opened
<1> QED BY <1>1, <1>2, <1>3, <1>4, <1>5 DEF States, Inert, InNegotiation, To, Quiet, FallsQuietly

LEMMA StartRows ==
  /\ \A s \in Inert : Row(s, "open").acts \in Quiet /\ Row(s, "open").next = "starting"
  /\ Row("starting", "up").acts \in Restarts /\ Row("starting", "up").next = "reqSent"
BY DEF Quiet, Restarts, Inert, Row, Initial, Starting, To, Ignored
-----------------------------------------------------------------------------
(* One event for one layer: what comes before the actions, the actions, and*)
(* what comes after.                                                       *)
LEMMA BeforeKept ==
  ASSUME NEW p \in Globals, NEW layer
  PROVE  Kept(p, Before(p, layer)) /\ Before(p, layer).count = p.count
<1>1. CASE p.state[layer] \in TimerOffIn
  <2>1. Before(p, layer) = [p EXCEPT !.timerOn = FALSE]
    BY <1>1 DEF Before
  <2> QED BY <2>1 DEF Kept, Later, Globals
<1>2. CASE p.state[layer] \notin TimerOffIn
  BY <1>2 DEF Before, Kept, Later
<1> QED BY <1>1, <1>2

LEMMA GoesTo ==
  ASSUME NEW p \in Globals, NEW layer \in Layers, NEW s \in States
  PROVE  LET q == Goes(p, layer, s) IN
         /\ q \in Globals /\ q.phase = p.phase /\ q.count = p.count
         /\ q.state = [p.state EXCEPT ![layer] = s]
         /\ q.rx = p.rx /\ q.agreed = p.agreed
<1>1. [p.state EXCEPT ![layer] = s] \in [Layers -> States]
  BY DEF Globals
<1>2. Goes(p, layer, s) = [p EXCEPT !.state = [p.state EXCEPT ![layer] = s]]
  BY DEF Goes
<1> QED BY <1>1, <1>2 DEF Globals

LEMMA CountKept ==
  ASSUME NEW p \in Globals, NEW n \in 0 .. 255
  PROVE  LET q == [p EXCEPT !.count = n] IN Kept(p, q) /\ q.count = n
BY DEF Globals, Kept, Later

LEMMA TimerKept ==
  ASSUME NEW p \in Globals
  PROVE  LET q == [p EXCEPT !.timerOn = TRUE] IN Kept(p, q) /\ q.count = p.count
BY DEF Globals, Kept, Later

LEMMA KeptKept ==
  ASSUME NEW p, NEW q, NEW r, Kept(p, q), Kept(q, r)
  PROVE  Kept(p, r)
BY DEF Kept, Later

Irc(p) == [p EXCEPT !.count = MaxRestart]
Zrc(p) == [p EXCEPT !.count = 0, !.timerOn = TRUE]

LEMMA IrcKept ==
  ASSUME NEW p \in Globals
  PROVE  Kept(p, Irc(p)) /\ Irc(p).count = MaxRestart
<1>1. MaxRestart \in 0 .. 255
  BY PppLinkAssumption
<1> QED BY <1>1, CountKept DEF Irc

(* The counter is set, and a request counted.                              *)
LEMMA RestartKept ==
  ASSUME NEW p \in Globals
  PROVE  LET q == SendConfigReq(Irc(p)) IN
         Kept(p, q) /\ q.count = MaxRestart - 1
<1> DEFINE c == Irc(p)
<1>1. (MaxRestart - 1) % 256 = MaxRestart - 1
  BY PppLinkAssumption
<1>2. Kept(p, c) /\ c.count = MaxRestart
  BY IrcKept
<1>3. Kept(c, SendConfigReq(c)) /\ SendConfigReq(c).count = (c.count - 1) % 256
  BY <1>2, RequestKept DEF Kept
<1> QED BY <1>1, <1>2, <1>3, KeptKept

(* An open layer that has gone down may still answer.                      *)
LEMMA AnswersKept ==
  ASSUME NEW p \in Globals
  PROVE  /\ Kept(p, SendConfigAck(SendConfigReq(p)))
         /\ Kept(p, SendConfigNackRej(SendConfigReq(p)))
         /\ Kept(p, SendCopy(Zrc(p), "termAck"))
<1>1. Kept(p, SendConfigReq(p)) /\ SendConfigReq(p) \in Globals
  BY RequestKept DEF Kept
<1>2. Kept(p, [p EXCEPT !.count = 0])
  BY DEF Kept, Later, Globals
<1>3. Kept(p, Zrc(p)) /\ Zrc(p) \in Globals
  <2>1. Zrc(p) = [[p EXCEPT !.count = 0] EXCEPT !.timerOn = TRUE]
    BY DEF Zrc, Globals
  <2> QED BY <1>2, <2>1, TimerKept, KeptKept DEF Kept
<1>4. "termAck" \in Codes
  BY DEF Codes
<1> QED BY <1>1, <1>2, <1>3, <1>4, AckKept, CopyKept, NackKept, KeptKept

(* The actions that do not reach another layer.                            *)
LEMMA QuietActs ==
  ASSUME NEW p \in Globals, NEW acts \in Quiet
  PROVE  LET q == DoAll(p, acts) IN Kept(p, q) /\ q.count = p.count
<1>1. acts = <<>> => DoAll(p, acts) = p
  BY DEF DoAll, DoNth, Do
<1>2. acts = <<"scj">> => DoAll(p, acts) = p
  BY DEF DoAll, DoNth, Do
<1>3. acts = <<"tls">> => DoAll(p, acts) = p
  BY DEF DoAll, DoNth, Do
<1>4. acts = <<"str">> => DoAll(p, acts) = [p EXCEPT !.timerOn = TRUE]
  BY DEF DoAll, DoNth, Do
<1>5. acts = <<"sca">> => DoAll(p, acts) = SendConfigAck(p)
  BY DEF DoAll, DoNth, Do
<1>6. acts = <<"sta">> => DoAll(p, acts) = SendCopy(p, "termAck")
  BY DEF DoAll, DoNth, Do
<1>7. acts = <<"ser">> => DoAll(p, acts) = SendCopy(p, "echoReply")
  BY DEF DoAll, DoNth, Do
<1>8. acts = <<"scn">> => DoAll(p, acts) = SendConfigNackRej(p)
  BY DEF DoAll, DoNth, Do
<1>9. {"termAck", "echoReply"} \subseteq Codes /\ Kept(p, p)
  BY DEF Codes, Kept, Later
<1>10. LET q == SendConfigAck(p) IN Kept(p, q) /\ q.count = p.count
  BY AckKept
<1> QED BY <1>1, <1>2, <1>3, <1>4, <1>5, <1>6, <1>7, <1>8, <1>9, <1>10, CopyKept, NackKept, TimerKept
        DEF Quiet

LEMMA CountingActs ==
  ASSUME NEW p \in Globals, NEW acts
  PROVE  LET q == DoAll(p, acts) IN
         /\ acts \in Acknowledges => Kept(p, q) /\ q.count = MaxRestart
         /\ acts \in Repeats => Kept(p, q) /\ q.count = (p.count - 1) % 256
<1>1. acts = <<"irc">> => DoAll(p, acts) = Irc(p)
  BY DEF DoAll, DoNth, Do, Irc
<1>2. acts = <<"scr">> => DoAll(p, acts) = SendConfigReq(p)
  BY DEF DoAll, DoNth, Do
<1> QED BY <1>1, <1>2, IrcKept, RequestKept DEF Acknowledges, Repeats

LEMMA RestartingActs ==
  ASSUME NEW p \in Globals, NEW acts \in Restarts
  PROVE  LET q == DoAll(p, acts) IN Kept(p, q) /\ q.count = MaxRestart - 1
<1> DEFINE r == SendConfigReq(Irc(p))
<1>1. acts = <<"irc", "scr">> => DoAll(p, acts) = r
  BY DEF DoAll, DoNth, Do, Irc
<1>2. acts = <<"irc", "scr", "sca">> => DoAll(p, acts) = SendConfigAck(r)
  BY DEF DoAll, DoNth, Do, Irc
<1>3. acts = <<"irc", "scr", "scn">> => DoAll(p, acts) = SendConfigNackRej(r)
  BY DEF DoAll, DoNth, Do, Irc
<1>4. Kept(p, r) /\ r.count = MaxRestart - 1
  BY RestartKept
<1>5. r \in Globals
  BY <1>4 DEF Kept
<1> HIDE DEF r
<1> QED BY <1>1, <1>2, <1>3, <1>4, <1>5, AckKept, NackKept, KeptKept DEF Restarts

(* Those that acknowledge what was received.                               *)
LEMMA SayingActs ==
  ASSUME NEW p \in Globals, NEW acts \in {<<"sca">>, <<"irc", "scr", "sca">>}
  PROVE  p.rx.layer \in DoAll(p, acts).agreed
<1> DEFINE r == SendConfigReq(Irc(p))
<1>1. acts = <<"sca">> => DoAll(p, acts) = SendConfigAck(p)
  BY DEF DoAll, DoNth, Do
<1>2. acts = <<"irc", "scr", "sca">> => DoAll(p, acts) = SendConfigAck(r)
  BY DEF DoAll, DoNth, Do, Irc
<1>3. r \in Globals /\ r.rx = p.rx
  BY RestartKept DEF Kept, Later
<1> HIDE DEF r
<1> QED BY <1>1, <1>2, <1>3, AckKept
-----------------------------------------------------------------------------
(* What a layer does to those above it when it comes up and when it goes   *)
(* down, and what one event makes of a layer.                              *)
Over == [lcp |-> {"pap", "ipcp"}, pap |-> {"ipcp"}, ipcp |-> {}]
PhaseOver == [lcp |-> "authentication", pap |-> "network", ipcp |-> "ip"]

Resting(p, layer) == \A other \in Over[layer] : p.state[other] \in Inert
Below(p, q, layer) ==
  (\A other \in Layers \ Over[layer] : q.state[other] = p.state[other]) /\ Later(p, q)

IsUp(q, layer) ==
  /\ q.phase = PhaseOver[layer]
  /\ layer = "lcp" => q.state["pap"] = "reqSent" /\ q.state["ipcp"] \in Inert
  /\ layer = "pap" => q.state["ipcp"] = "reqSent"
  /\ layer # "ipcp" => q.count = MaxRestart - 1

IsDown(q, layer) == q.phase = "dead" /\ Resting(q, layer)

Risen(p, q, layer) == q \in Globals /\ Below(p, q, layer) /\ IsUp(q, layer)
Fallen(p, q, layer) == q \in Globals /\ Below(p, q, layer) /\ IsDown(q, layer)

(* d is what the actions make of p.                                        *)
Did(p, layer, e, d) ==
  LET acts == Acts(p, layer, e) IN
  /\ acts \in Quiet \cup Restarts \cup Acknowledges \cup Repeats => d = DoAll(Before(p, layer), acts)
  /\ p.state[layer] \in InNegotiation /\ acts \in Rises => Risen(p, d, layer)
  /\ acts \in Falls => Fallen(p, d, layer)
  /\ p.state[layer] \notin Answering /\ acts \in Says => p.rx.layer \in d.agreed

Moves(p, q, layer) ==
  q \in Globals /\ q.phase = p.phase /\ Later(p, q) /\ \A other \in Layers \ {layer} : q.state[other] = p.state[other]

Stays(p, q, layer) ==
  /\ Moves(p, q, layer) /\ p.state[layer] \in Inert \cup {"opened"}
  /\ q.state[layer] = p.state[layer] /\ q.count = p.count

Negotiates(p, q, layer, e) ==
  /\ Moves(p, q, layer) /\ p.state[layer] \in InNegotiation /\ q.state[layer] \in InNegotiation
  /\ \/ q.count = p.count /\ (q.state[layer] = "ackRcvd" => p.state[layer] = "ackRcvd")
     \/ q.count = MaxRestart /\ q.state[layer] = "ackRcvd" /\ e = "rca"
     \/ q.count = MaxRestart - 1 /\ q.state[layer] # "ackRcvd"
     \/ /\ q.count = (p.count - 1) % 256 /\ q.state[layer] # "ackRcvd"
        /\ p.state[layer] = "ackRcvd" \/ e = "to+"

Ends(p, q, layer) ==
  /\ Moves(p, q, layer)
  /\ p.state[layer] \in States \ (Inert \cup InNegotiation \cup {"opened"})
  /\ q.state[layer] \in States \ (Agrees \cup Inert)

Opens(p, q, layer, e) ==
  /\ p.state[layer] \in InNegotiation /\ q.state[layer] = "opened"
  /\ p.state[layer] = "ackRcvd" \/ e = "rca"
  /\ q \in Globals /\ IsUp(q, layer) /\ Later(p, q)
  /\ \A other \in Layers \ (Over[layer] \cup {layer}) : q.state[other] = p.state[other]

Closes(p, q, layer) ==
  /\ p.state[layer] \notin Inert /\ q.state[layer] \in States \ (Agrees \cup Inert)
  /\ q \in Globals /\ IsDown(q, layer) /\ Later(p, q)
  /\ \A other \in Layers \ (Over[layer] \cup {layer}) : q.state[other] = p.state[other]

Step(p, q, layer, e) ==
  \/ Stays(p, q, layer) \/ Negotiates(p, q, layer, e) \/ Ends(p, q, layer)
  \/ Opens(p, q, layer, e) \/ Closes(p, q, layer)

(* A layer that comes to have answered has answered the packet received.   *)
Answers(p, q, layer, e) ==
  q.state[layer] \in Answering /\ p.state[layer] \notin Answering =>
    e = "rcr+" /\ p.rx.layer \in q.agreed

LEMMA PlainSteps ==
  ASSUME NEW p \in Globals, NEW layer \in Layers, NEW acts, NEW t \in States,
         acts \in Quiet \cup Restarts \cup Acknowledges \cup Repeats
  PROVE  LET q == Goes(DoAll(Before(p, layer), acts), layer, t) IN
         /\ Moves(p, q, layer) /\ q.state[layer] = t
         /\ acts \in Quiet => q.count = p.count
         /\ acts \in Acknowledges => q.count = MaxRestart
         /\ acts \in Restarts => q.count = MaxRestart - 1
         /\ acts \in Repeats => q.count = (p.count - 1) % 256
<1> DEFINE b == Before(p, layer)
           d == DoAll(b, acts)
<1>1. Kept(p, b) /\ b.count = p.count /\ b \in Globals
  BY BeforeKept DEF Kept
<1> HIDE DEF b
<1>2. /\ Kept(b, d)
      /\ acts \in Quiet => d.count = b.count
      /\ acts \in Acknowledges => d.count = MaxRestart
      /\ acts \in Restarts => d.count = MaxRestart - 1
      /\ acts \in Repeats => d.count = (b.count - 1) % 256
  BY <1>1, QuietActs, CountingActs, RestartingActs
<1> HIDE DEF d
<1>3. LET q == Goes(d, layer, t) IN
      /\ q \in Globals /\ q.phase = d.phase /\ q.count = d.count
      /\ q.state = [d.state EXCEPT ![layer] = t] /\ Later(d, q)
  BY <1>2, GoesTo DEF Kept, Later
<1>4. d.state = p.state /\ d.phase = p.phase /\ Later(p, d) /\ p.state \in [Layers -> States]
  BY <1>1, <1>2 DEF Kept, Later, Globals
<1>5. LET q == Goes(d, layer, t) IN
      /\ Moves(p, q, layer) /\ q.state[layer] = t
  BY <1>3, <1>4 DEF Moves, Later
<1> QED BY <1>1, <1>2, <1>3, <1>5 DEF b, d

(* One event for one layer, whatever the layer is.                         *)
LEMMA LayerSteps ==
  ASSUME NEW p \in Globals, NEW layer \in Layers, NEW e \in Input, NEW d,
         Did(p, layer, e, d)
  PROVE  Step(p, Goes(d, layer, Goal(p, layer, e)), layer, e)
<1> DEFINE s == p.state[layer]
           t == Goal(p, layer, e)
           acts == Acts(p, layer, e)
           q == Goes(d, layer, t)
<1>1. s \in States /\ p.state \in [Layers -> States] /\ e # "down"
  BY DEF Globals, Input
<1>2. CASE s \in Inert
  <2>1. acts = <<>> /\ t = s
    BY <1>2, InertRows DEF Acts, Goal, Ignored, To
  <2>2. acts \in Quiet
    BY <2>1 DEF Quiet
  <2>3. d = DoAll(Before(p, layer), acts)
    BY <2>2 DEF Did
  <2>4. Moves(p, q, layer) /\ q.state[layer] = t /\ q.count = p.count
    BY <1>1, <2>1, <2>2, <2>3, PlainSteps
  <2> QED BY <1>2, <2>1, <2>4 DEF Step, Stays
<1>3. acts \in Rises /\ s \in InNegotiation /\ t = "opened" /\ (s = "ackRcvd" \/ e = "rca")
      => Opens(p, q, layer, e)
  <2> SUFFICES ASSUME acts \in Rises, s \in InNegotiation, t = "opened", s = "ackRcvd" \/ e = "rca"
               PROVE  Opens(p, q, layer, e)
    OBVIOUS
  <2>1. d \in Globals /\ Below(p, d, layer) /\ IsUp(d, layer)
    BY DEF Did, Risen
  <2>2. /\ q \in Globals /\ q.phase = d.phase /\ q.count = d.count
        /\ q.state = [d.state EXCEPT ![layer] = "opened"] /\ Later(d, q)
    <3>1. "opened" \in States
      BY DEF States
    <3> HIDE DEF t
    <3> QED BY <2>1, <3>1, GoesTo DEF Later
  <2>3. d.state \in [Layers -> States]
    BY <2>1 DEF Globals
  <2> HIDE DEF q, t, acts
  <2>4. layer \notin Over[layer] /\ IsUp(q, layer)
    BY <2>1, <2>2, <2>3 DEF IsUp, Over, Layers
  <2> QED BY <2>1, <2>2, <2>3, <2>4 DEF Opens, Below, Later
<1>4. acts \in Falls /\ s \notin Inert /\ t \in States \ (Agrees \cup Inert) => Closes(p, q, layer)
  <2> SUFFICES ASSUME acts \in Falls, s \notin Inert, t \in States \ (Agrees \cup Inert)
               PROVE  Closes(p, q, layer)
    OBVIOUS
  <2>1. d \in Globals /\ Below(p, d, layer) /\ IsDown(d, layer)
    BY DEF Did, Fallen
  <2>2. q \in Globals /\ q.phase = d.phase /\ q.state = [d.state EXCEPT ![layer] = t] /\ Later(d, q)
    BY <2>1, GoesTo DEF Later
  <2>3. d.state \in [Layers -> States]
    BY <2>1 DEF Globals
  <2> HIDE DEF q, t, acts
  <2>4. layer \notin Over[layer] /\ IsDown(q, layer)
    BY <2>1, <2>2, <2>3 DEF IsDown, Resting, Over, Layers
  <2> QED BY <2>1, <2>2, <2>3, <2>4 DEF Closes, Below, Later
<1>5. acts \in Quiet \cup Restarts \cup Acknowledges \cup Repeats /\ t \in States =>
      /\ Moves(p, q, layer) /\ q.state[layer] = t
      /\ acts \in Quiet => q.count = p.count
      /\ acts \in Acknowledges => q.count = MaxRestart
      /\ acts \in Restarts => q.count = MaxRestart - 1
      /\ acts \in Repeats => q.count = (p.count - 1) % 256
  BY PlainSteps DEF Did
<1>6. CASE s \in InNegotiation
  <2> HIDE DEF q
  <2>1. \/ acts \in Quiet /\ t \in InNegotiation /\ (t = "ackRcvd" => s = "ackRcvd")
        \/ acts \in Acknowledges /\ t = "ackRcvd" /\ e = "rca"
        \/ acts \in Restarts /\ t \in {"reqSent", "ackSent"}
        \/ acts \in Repeats /\ t \in {"reqSent", "ackSent"} /\ (s = "ackRcvd" \/ e = "to+")
        \/ acts \in Rises /\ t = "opened" /\ (s = "ackRcvd" \/ e = "rca")
        \/ acts \in GivesUp /\ t = "stopped"
    BY <1>6, NegotiatingRows DEF Acts, Goal
  <2>2. InNegotiation \subseteq States /\ {"reqSent", "ackSent", "ackRcvd"} \subseteq InNegotiation
        /\ s \notin Inert /\ GivesUp \subseteq Falls /\ "stopped" \in States \ (Agrees \cup Inert)
    BY <1>6 DEF InNegotiation, States, Inert, GivesUp, Falls, Agrees
  <2> HIDE DEF s, t, acts
  <2>3. \/ Negotiates(p, q, layer, e) \/ Opens(p, q, layer, e) \/ Closes(p, q, layer)
    <3>1. s = p.state[layer]
      BY DEF s
    <3> QED BY <1>3, <1>4, <1>5, <1>6, <2>1, <2>2, <3>1 DEF Negotiates
  <2> QED BY <2>3 DEF Step, q, t
<1>7. CASE s = "opened"
  <2> HIDE DEF q
  <2>1. \/ acts \in Quiet /\ t = "opened"
        \/ acts \in Falls /\ t \in {"reqSent", "ackSent", "stopping"}
    BY <1>7, OpenedRow DEF Acts, Goal
  <2>2. {"reqSent", "ackSent", "stopping"} \subseteq States \ (Agrees \cup Inert)
        /\ s \notin Inert /\ "opened" \in States
    BY <1>7 DEF States, Inert, Agrees
  <2> HIDE DEF t, acts
  <2>3. Stays(p, q, layer) \/ Closes(p, q, layer)
    BY <1>4, <1>5, <1>7, <2>1, <2>2 DEF Stays
  <2> QED BY <2>3 DEF Step, q, t
<1>8. CASE s \in States \ (Inert \cup InNegotiation \cup {"opened"})
  <2> HIDE DEF q
  <2>1. s \in {"closed", "stopped", "closing", "stopping"}
    BY <1>8 DEF States, Inert, InNegotiation
  <2>2. acts \in Quiet \cup Restarts \cup GivesUp /\ t \in States \ (Agrees \cup Inert)
    BY <2>1, OtherRows DEF Acts, Goal
  <2>3. GivesUp \subseteq Falls /\ s \notin Inert
    BY <1>8 DEF GivesUp, Falls
  <2> HIDE DEF t, acts
  <2>4. Ends(p, q, layer) \/ Closes(p, q, layer)
    BY <1>4, <1>5, <1>8, <2>2, <2>3 DEF Ends
  <2> QED BY <2>4 DEF Step, q, t
<1> QED BY <1>1, <1>2, <1>6, <1>7, <1>8
-----------------------------------------------------------------------------
LEMMA LayerAnswers ==
  ASSUME NEW p \in Globals, NEW layer \in Layers, NEW e \in Input, NEW d,
         Did(p, layer, e, d)
  PROVE  Answers(p, Goes(d, layer, Goal(p, layer, e)), layer, e)
<1> DEFINE t == Goal(p, layer, e)
           q == Goes(d, layer, t)
<1> SUFFICES ASSUME q.state[layer] \in Answering, p.state[layer] \notin Answering
             PROVE  e = "rcr+" /\ p.rx.layer \in q.agreed
  BY DEF Answers
<1>1. q \in Globals
  <2>1. Step(p, q, layer, e)
    BY LayerSteps
  <2> HIDE DEF q
  <2> QED BY <2>1 DEF Step, Stays, Negotiates, Ends, Opens, Closes, Moves
<1>2. q = [d EXCEPT !.state = [d.state EXCEPT ![layer] = t]]
  BY DEF Goes
<1> HIDE DEF q
<1>3. DOMAIN q = DOMAIN d /\ "state" \in DOMAIN q /\ "agreed" \in DOMAIN q
  BY <1>1, <1>2 DEF Globals
<1>4. q.state = [d.state EXCEPT ![layer] = t] /\ q.agreed = d.agreed
  BY <1>2, <1>3
<1>5. DOMAIN q.state = Layers
  BY <1>1 DEF Globals
<1>6. q.state[layer] = t
  BY <1>4, <1>5
<1>7. Acts(p, layer, e) \in Says /\ e = "rcr+"
  <2>1. p.state[layer] \in States \ Answering /\ Row(p.state[layer], e).next \in Answering
    BY <1>6 DEF Globals, Goal
  <2> QED BY <2>1, AnsweringRows DEF Acts
<1> QED BY <1>4, <1>7 DEF Did
-----------------------------------------------------------------------------
(* What holds of the globals between two events.  A layer rests until the  *)
(* one below it is open, and in each phase the layers below are open and   *)
(* its own negotiates; the counter is whole when a request has just been   *)
(* acknowledged, so that the request that follows cannot take it below     *)
(* zero; a layer that is acknowledged or open is one the peer has          *)
(* acknowledged, and one that has answered, or is open, one the tracker has*)
(* acknowledged.                                                           *)
Stacked(p) ==
  /\ p.state["lcp"] # "opened" => p.state["pap"] \in Inert
  /\ p.state["pap"] # "opened" => p.state["ipcp"] \in Inert

InPhase(p) ==
  /\ p.phase = "establish" => p.state["lcp"] \in InNegotiation
  /\ p.phase = "authentication" => p.state["lcp"] = "opened" /\ p.state["pap"] \in InNegotiation
  /\ p.phase = "network" => /\ p.state["lcp"] = "opened" /\ p.state["pap"] = "opened"
                            /\ p.state["ipcp"] \in InNegotiation
  /\ p.phase = "ip" => \A layer \in Layers : p.state[layer] = "opened"

Counted(p) ==
  p.phase \in Negotiating =>
    /\ p.count <= MaxRestart
    /\ p.state[LayerOfPhase[p.phase]] = "ackRcvd" => p.count = MaxRestart

Sound(p) == p \in Globals /\ Stacked(p) /\ InPhase(p) /\ Counted(p)

Agreed(p, acked) == \A layer \in Layers : p.state[layer] \in Agrees => layer \in acked

Answered(p) == \A layer \in Layers : p.state[layer] \in Answering => layer \in p.agreed

(* An event that is not out of turn: a timer repeats only what the counter *)
(* allows.                                                                 *)
Timely(p, e) == e = "to+" => p.count > 0

LEMMA StepSound ==
  ASSUME NEW p, NEW q, NEW layer \in Layers, NEW e \in Input,
         Sound(p), Timely(p, e), Step(p, q, layer, e)
  PROVE  Sound(q)
<1> USE DEF Layers
<1>1. /\ p \in Globals /\ p.state["lcp"] \in States /\ p.state["pap"] \in States
      /\ p.state["ipcp"] \in States
  BY DEF Sound, Globals
<1>2. CASE Stays(p, q, layer)
  <2>1. q \in Globals /\ q.phase = p.phase /\ q.count = p.count
    BY <1>2 DEF Stays, Moves
  <2>2. \A other \in Layers : q.state[other] = p.state[other]
    BY <1>2 DEF Stays, Moves
  <2>3. p.phase \in Negotiating => LayerOfPhase[p.phase] \in Layers
    BY DEF Negotiating, LayerOfPhase
  <2> QED BY <2>1, <2>2, <2>3 DEF Sound, Stacked, InPhase, Counted
<1>3. CASE Negotiates(p, q, layer, e)
  <2>1. q \in Globals /\ q.phase = p.phase
    BY <1>3 DEF Negotiates, Moves
  <2>2. Stacked(q) /\ InPhase(q)
    BY <1>3 DEF Negotiates, Moves, Sound, Stacked, InPhase, Inert, InNegotiation
  <2>3. p.phase \in Negotiating => LayerOfPhase[p.phase] = layer
    BY <1>3 DEF Negotiates, Sound, Stacked, InPhase, Inert, InNegotiation, Negotiating, LayerOfPhase
  <2>4. Counted(q)
    <3> SUFFICES ASSUME p.phase \in Negotiating
                 PROVE  q.count <= MaxRestart /\ (q.state[layer] = "ackRcvd" => q.count = MaxRestart)
      BY <2>1, <2>3 DEF Counted
    <3>1. p.count <= MaxRestart /\ (p.state[layer] = "ackRcvd" => p.count = MaxRestart)
      BY <2>3 DEF Sound, Counted
    <3>2. p.count \in 0 .. 255 /\ MaxRestart \in 1 .. 255 /\ p.count <= MaxRestart
      BY <3>1, PppLinkAssumption DEF Sound, Globals
    <3>3. (p.count - 1) % 256 <= MaxRestart \/ p.count = 0
      BY <3>2
    <3>4. MaxRestart - 1 <= MaxRestart /\ MaxRestart <= MaxRestart
      BY <3>2
    <3>5. CASE q.count = p.count /\ (q.state[layer] = "ackRcvd" => p.state[layer] = "ackRcvd")
      BY <3>1, <3>5
    <3>6. CASE q.count = MaxRestart
      BY <3>4, <3>6
    <3>7. CASE q.count = MaxRestart - 1 /\ q.state[layer] # "ackRcvd"
      BY <3>4, <3>7
    <3>8. CASE q.count = (p.count - 1) % 256 /\ q.state[layer] # "ackRcvd" /\ p.count # 0
      BY <3>3, <3>8
    <3>9. p.state[layer] = "ackRcvd" \/ e = "to+" => p.count # 0
      <4>1. MaxRestart # 0 /\ (p.count > 0 => p.count # 0)
        BY <3>2
      <4> QED BY <3>1, <4>1 DEF Timely
    <3> QED BY <1>3, <3>5, <3>6, <3>7, <3>8, <3>9 DEF Negotiates
  <2> QED BY <2>1, <2>2, <2>4 DEF Sound
<1>4. CASE Ends(p, q, layer)
  <2>1. q \in Globals /\ q.phase = p.phase
    BY <1>4 DEF Ends, Moves
  <2>2. p.phase \notin Negotiating \cup {"ip"}
    BY <1>4 DEF Ends, Sound, Stacked, InPhase, Inert, InNegotiation, Negotiating
  <2>3. Stacked(q)
    BY <1>1, <1>4 DEF Ends, Moves, Sound, Stacked, Inert, Agrees
  <2> QED BY <2>1, <2>2, <2>3 DEF Sound, InPhase, Counted, Negotiating
<1>5. CASE Opens(p, q, layer, e)
  <2>1. q \in Globals /\ IsUp(q, layer) /\ q.state[layer] = "opened" /\ p.state[layer] \in InNegotiation
    BY <1>5 DEF Opens
  <2>2. CASE layer = "lcp"
    <3>1. q.phase = "authentication" /\ q.state["pap"] = "reqSent" /\ q.state["ipcp"] \in Inert
          /\ q.count = MaxRestart - 1
      BY <2>1, <2>2 DEF IsUp, PhaseOver
    <3> QED BY <2>1, <2>2, <3>1, PppLinkAssumption
            DEF Sound, Stacked, InPhase, Counted, InNegotiation, LayerOfPhase
  <2>3. CASE layer = "pap"
    <3>1. q.phase = "network" /\ q.state["ipcp"] = "reqSent" /\ q.count = MaxRestart - 1
      BY <2>1, <2>3 DEF IsUp, PhaseOver
    <3>2. q.state["lcp"] = "opened"
      BY <1>5, <2>1, <2>3 DEF Opens, Over, Sound, Stacked, Inert, InNegotiation
    <3> QED BY <2>1, <2>3, <3>1, <3>2, PppLinkAssumption
            DEF Sound, Stacked, InPhase, Counted, InNegotiation, LayerOfPhase
  <2>4. CASE layer = "ipcp"
    <3>1. q.phase = "ip"
      BY <2>1, <2>4 DEF IsUp, PhaseOver
    <3>2. q.state["lcp"] = "opened" /\ q.state["pap"] = "opened"
      BY <1>5, <2>1, <2>4 DEF Opens, Over, Sound, Stacked, Inert, InNegotiation
    <3> QED BY <2>1, <2>4, <3>1, <3>2 DEF Sound, Stacked, InPhase, Counted, Negotiating
  <2> QED BY <2>2, <2>3, <2>4
<1>6. CASE Closes(p, q, layer)
  <2>1. q \in Globals /\ q.phase = "dead"
    BY <1>6 DEF Closes, IsDown
  <2>2. Stacked(q)
    BY <1>6 DEF Closes, IsDown, Resting, Over, Sound, Stacked, Inert, Agrees
  <2> QED BY <2>1, <2>2 DEF Sound, InPhase, Counted, Negotiating
<1> QED BY <1>2, <1>3, <1>4, <1>5, <1>6 DEF Step

LEMMA StepAgreed ==
  ASSUME NEW p, NEW q, NEW layer \in Layers, NEW e \in Input, NEW acked,
         Sound(p), Agreed(p, acked), e = "rca" => layer \in acked, Step(p, q, layer, e)
  PROVE  Agreed(q, acked)
<1> USE DEF Layers
<1>1. CASE Stays(p, q, layer)
  BY <1>1 DEF Stays, Moves, Agreed
<1>2. CASE Negotiates(p, q, layer, e)
  BY <1>2 DEF Negotiates, Moves, Agreed, Agrees, InNegotiation
<1>3. CASE Ends(p, q, layer)
  BY <1>3 DEF Ends, Moves, Agreed
<1>4. CASE Opens(p, q, layer, e)
  <2>1. layer \in acked
    BY <1>4 DEF Opens, Agreed, Agrees
  <2>2. \A other \in Over[layer] : q.state[other] \notin Agrees
    <3>1. p.state[layer] # "opened"
      BY <1>4 DEF Opens, InNegotiation
    <3> QED BY <1>4 DEF Opens, IsUp, Over, Inert, Agrees
  <2> QED BY <1>4, <2>1, <2>2 DEF Opens, Agreed
<1>5. CASE Closes(p, q, layer)
  BY <1>5 DEF Closes, IsDown, Resting, Agreed, Agrees, Inert
<1> QED BY <1>1, <1>2, <1>3, <1>4, <1>5 DEF Step

LEMMA StepAnswered ==
  ASSUME NEW p, NEW q, NEW layer \in Layers, NEW e \in Input, Answered(p),
         e = "rcr+" => p.rx.layer = layer, Step(p, q, layer, e), Answers(p, q, layer, e)
  PROVE  Answered(q)
<1>1. Later(p, q)
  BY DEF Step, Stays, Negotiates, Ends, Opens, Closes, Moves
<1>2. q.state[layer] \in Answering => layer \in q.agreed
  BY <1>1 DEF Answered, Answers, Later
<1>3. \A other \in Layers \ {layer} : q.state[other] = p.state[other] \/ q.state[other] \notin Answering
  <2>1. CASE Stays(p, q, layer) \/ Negotiates(p, q, layer, e) \/ Ends(p, q, layer)
    BY <2>1 DEF Stays, Negotiates, Ends, Moves
  <2>2. CASE Opens(p, q, layer, e)
    BY <2>2 DEF Opens, IsUp, Over, Inert, Answering, Layers
  <2>3. CASE Closes(p, q, layer)
    BY <2>3 DEF Closes, IsDown, Resting, Inert, Answering
  <2> QED BY <2>1, <2>2, <2>3 DEF Step
<1> QED BY <1>1, <1>2, <1>3 DEF Answered, Later
-----------------------------------------------------------------------------
(* IPCP, the layer on top.                                                 *)
LEMMA IpcpPlain ==
  ASSUME NEW p, NEW acts \in Quiet \cup Restarts \cup Acknowledges \cup Repeats
  PROVE  IpcpActs(p, acts) = DoAll(p, acts)
<1>1. ~TakesDown(acts) /\ ~TakesUp(acts)
  BY DEF TakesDown, TakesUp, Quiet, Restarts, Acknowledges, Repeats
<1> QED BY <1>1 DEF IpcpActs

LEMMA IpcpRises ==
  ASSUME NEW p \in Globals, NEW acts \in Rises
  PROVE  \E q \in Globals : /\ Kept(p, q) /\ IpcpActs(p, acts) = IpcpUp(q)
                            /\ acts \in Says => p.rx.layer \in q.agreed
<1>1. acts = <<"irc", "tlu">> => IpcpActs(p, acts) = IpcpUp(Irc(p))
  BY DEF IpcpActs, TakesDown, TakesUp, DoAll, DoNth, Do, Irc
<1>2. acts = <<"sca", "tlu">> => IpcpActs(p, acts) = IpcpUp(SendConfigAck(p))
  BY DEF IpcpActs, TakesDown, TakesUp, DoAll, DoNth, Do
<1>3. /\ Kept(p, Irc(p)) /\ Kept(p, SendConfigAck(p))
      /\ p.rx.layer \in SendConfigAck(p).agreed
  BY IrcKept, AckKept
<1>4. acts = <<"irc", "tlu">> => acts \notin Says
  BY DEF Says
<1> QED BY <1>1, <1>2, <1>3, <1>4 DEF Rises, Kept

LEMMA IpcpFalls ==
  ASSUME NEW p, NEW acts \in Falls, IpcpDown(p) \in Globals
  PROVE  /\ Kept(IpcpDown(p), IpcpActs(p, acts))
         /\ acts \in FallsQuietly => IpcpActs(p, acts) = IpcpDown(p)
<1> DEFINE d == IpcpDown(p)
<1>0. IpcpActs(p, acts) = DoAll(d, acts)
  <2>1. TakesDown(acts) /\ ~TakesUp(acts)
    BY DEF TakesDown, TakesUp, Falls
  <2> QED BY <2>1 DEF IpcpActs
<1> HIDE DEF d
<1>1. acts = <<"tlf">> => DoAll(d, acts) = d
  BY DEF DoAll, DoNth, Do
<1>2. acts = <<"tld">> => DoAll(d, acts) = d
  BY DEF DoAll, DoNth, Do
<1>3. acts = <<"tld", "scr">> => DoAll(d, acts) = SendConfigReq(d)
  BY DEF DoAll, DoNth, Do
<1>4. acts = <<"tld", "scr", "sca">> => DoAll(d, acts) = SendConfigAck(SendConfigReq(d))
  BY DEF DoAll, DoNth, Do
<1>5. acts = <<"tld", "scr", "scn">> => DoAll(d, acts) = SendConfigNackRej(SendConfigReq(d))
  BY DEF DoAll, DoNth, Do
<1>6. acts = <<"tld", "zrc", "sta">> => DoAll(d, acts) = SendCopy(Zrc(d), "termAck")
  BY DEF DoAll, DoNth, Do, Zrc
<1>7. Kept(d, d)
  BY DEF Kept, Later, d
<1> QED BY <1>0, <1>1, <1>2, <1>3, <1>4, <1>5, <1>6, <1>7, RequestKept, AnswersKept DEF Falls, FallsQuietly, d

LEMMA IpcpIsUp ==
  ASSUME NEW p \in Globals, Resting(p, "ipcp")
  PROVE  Risen(p, IpcpUp(p), "ipcp")
<1>1. p.rx.addr \in Addresses /\ "ip" \in Phases
  BY DEF Globals, Packet, Phases
<1> QED BY <1>1 DEF Globals, IpcpUp, Risen, Below, Later, IsUp, PhaseOver

LEMMA IpcpIsDown ==
  ASSUME NEW p \in Globals, Stacked(p)
  PROVE  Fallen(p, IpcpDown(p), "ipcp")
<1>1. "dead" \in Phases
  BY DEF Phases
<1> QED BY <1>1 DEF Globals, IpcpDown, Fallen, Below, Later, IsDown, Resting, Over

LEMMA IpcpSteps ==
  ASSUME NEW p \in Globals, NEW e \in Input, Stacked(p)
  PROVE  /\ Step(p, IpcpEvent(p, e), "ipcp", e)
         /\ Answers(p, IpcpEvent(p, e), "ipcp", e)
<1> DEFINE b == Before(p, "ipcp")
           acts == Acts(p, "ipcp", e)
           d == IpcpActs(b, acts)
<1>1. Kept(p, b) /\ b \in Globals /\ b.state = p.state /\ Later(p, b)
  BY BeforeKept DEF Kept
<1> HIDE DEF b
<1>2. acts \in Quiet \cup Restarts \cup Acknowledges \cup Repeats => d = DoAll(b, acts)
  BY IpcpPlain
<1>3. ASSUME p.state["ipcp"] \in InNegotiation, acts \in Rises
      PROVE  Risen(p, d, "ipcp") /\ (acts \in Says => p.rx.layer \in d.agreed)
  <2>1. PICK u \in Globals : /\ Kept(b, u) /\ d = IpcpUp(u)
                             /\ acts \in Says => b.rx.layer \in u.agreed
    BY <1>1, <1>3, IpcpRises
  <2>2. u.state = p.state /\ Later(b, u)
    BY <1>1, <2>1 DEF Kept
  <2>3. Resting(u, "ipcp")
    BY <1>3, <2>2 DEF Stacked, Resting, Over, InNegotiation, Inert
  <2> HIDE DEF d
  <2>4. Risen(u, d, "ipcp")
    BY <2>1, <2>3, IpcpIsUp
  <2> QED BY <1>1, <2>1, <2>2, <2>4 DEF Risen, Below, Later
<1>4. ASSUME acts \in Falls
      PROVE  Fallen(p, d, "ipcp")
  <2>1. Fallen(b, IpcpDown(b), "ipcp")
    BY <1>1, IpcpIsDown DEF Stacked
  <2>2. Kept(IpcpDown(b), d)
    BY <1>4, <2>1, IpcpFalls DEF Fallen
  <2> HIDE DEF d
  <2> QED BY <1>1, <2>1, <2>2 DEF Fallen, Below, Later, IsDown, Resting, Kept
<1>5. ASSUME acts \in Says, p.state["ipcp"] \notin Answering
      PROVE  p.rx.layer \in d.agreed
  <2>1. CASE acts = <<"sca", "tlu">>
    <3>1. acts \in Rises /\ acts \notin Quiet \cup Restarts \cup GivesUp
      BY <2>1 DEF Rises, Quiet, Restarts, GivesUp
    <3>2. p.state["ipcp"] \in InNegotiation
      BY <1>1, <3>1, RisingRows DEF Globals, Layers, Acts
    <3> QED BY <1>3, <1>5, <3>1, <3>2
  <2>2. CASE acts \in {<<"sca">>, <<"irc", "scr", "sca">>}
    <3>1. acts \in Quiet \cup Restarts
      BY <2>2 DEF Quiet, Restarts
    <3>2. d = DoAll(b, acts) /\ b.rx = p.rx
      BY <1>1, <1>2, <3>1 DEF Later
    <3> HIDE DEF d, acts
    <3> QED BY <1>1, <2>2, <3>2, SayingActs
  <2> QED BY <1>5, <2>1, <2>2 DEF Says
<1>6. Did(p, "ipcp", e, d)
  BY <1>2, <1>3, <1>4, <1>5 DEF Did, b
<1> HIDE DEF d
<1>7. LET q == Goes(d, "ipcp", Goal(p, "ipcp", e)) IN
      Step(p, q, "ipcp", e) /\ Answers(p, q, "ipcp", e)
  BY <1>6, LayerSteps, LayerAnswers DEF Layers
<1> QED BY <1>7 DEF IpcpEvent, d, b

(* It is opened, and the link below is up; or the link below is down.      *)
LEMMA IpcpStarts ==
  ASSUME NEW p \in Globals, p.state["ipcp"] \in Inert
  PROVE  LET q == IpcpEvent(IpcpEvent(p, "open"), "up") IN
         Moves(p, q, "ipcp") /\ q.state["ipcp"] = "reqSent" /\ q.count = MaxRestart - 1
<1> DEFINE r == IpcpEvent(p, "open")
           q == IpcpEvent(r, "up")
<1>1. "ipcp" \in Layers /\ {"starting", "reqSent"} \subseteq States
  BY DEF Layers, States
<1>2. Acts(p, "ipcp", "open") \in Quiet /\ Goal(p, "ipcp", "open") = "starting"
  BY StartRows DEF Acts, Goal
<1>3. Moves(p, r, "ipcp") /\ r.state["ipcp"] = "starting"
  BY <1>1, <1>2, IpcpPlain, PlainSteps DEF IpcpEvent
<1> HIDE DEF r
<1>4. Acts(r, "ipcp", "up") \in Restarts /\ Goal(r, "ipcp", "up") = "reqSent"
  BY <1>3, StartRows DEF Acts, Goal
<1>5. Moves(r, q, "ipcp") /\ q.state["ipcp"] = "reqSent" /\ q.count = MaxRestart - 1
  <2>1. r \in Globals
    BY <1>3 DEF Moves
  <2> QED BY <1>1, <1>4, <2>1, IpcpPlain, PlainSteps DEF IpcpEvent
<1> HIDE DEF q
<1>6. Moves(p, q, "ipcp")
  BY <1>3, <1>5 DEF Moves, Later
<1> QED BY <1>5, <1>6 DEF q, r

LEMMA IpcpStops ==
  ASSUME NEW p \in Globals, Stacked(p)
  PROVE  LET q == IpcpEvent(p, "down") IN
         /\ q \in Globals /\ q.state["ipcp"] \in Inert /\ Resting(q, "ipcp") /\ Later(p, q)
         /\ \A other \in Layers \ (Over["ipcp"] \cup {"ipcp"}) : q.state[other] = p.state[other]
<1> DEFINE b == Before(p, "ipcp")
           acts == Acts(p, "ipcp", "down")
           t == Goal(p, "ipcp", "down")
           q == Goes(IpcpActs(b, acts), "ipcp", t)
<1>1. "ipcp" \in Layers /\ p.state["ipcp"] \in States /\ p.state \in [Layers -> States]
  BY DEF Globals, Layers
<1>2. t \in Inert /\ (IF p.state["ipcp"] = "opened" THEN acts \in FallsQuietly ELSE acts \in Quiet)
  BY <1>1, DownRows DEF Acts, Goal
<1>3. t \in States
  BY <1>2 DEF Inert, States
<1> HIDE DEF acts, t
<1>4. CASE p.state["ipcp"] = "opened"
  <2>1. Kept(p, b) /\ b \in Globals /\ b.state = p.state /\ Later(p, b)
    BY BeforeKept DEF Kept
  <2>2. acts \in FallsQuietly /\ acts \in Falls
    BY <1>2, <1>4 DEF FallsQuietly, Falls
  <2>3. Fallen(b, IpcpDown(b), "ipcp")
    BY <2>1, IpcpIsDown DEF Stacked
  <2>4. IpcpActs(b, acts) = IpcpDown(b)
    BY <2>2, <2>3, IpcpFalls DEF Fallen
  <2> DEFINE d == IpcpDown(b)
  <2>5. d \in Globals /\ Below(p, d, "ipcp") /\ IsDown(d, "ipcp") /\ q = Goes(d, "ipcp", t)
    BY <2>1, <2>3, <2>4 DEF Fallen, Below, Later
  <2> HIDE DEF d, q
  <2>6. q \in Globals /\ q.phase = d.phase /\ q.state = [d.state EXCEPT !["ipcp"] = t]
        /\ Later(d, q) /\ d.state \in [Layers -> States]
    <3>1. d.state \in [Layers -> States]
      BY <2>5 DEF Globals
    <3> QED BY <1>1, <1>3, <2>5, <3>1, GoesTo DEF Later
  <2>7. q.state["ipcp"] \in Inert /\ Resting(q, "ipcp")
    BY <1>2, <2>5, <2>6 DEF IsDown, Resting, Over, Layers
  <2>8. \A other \in Layers \ (Over["ipcp"] \cup {"ipcp"}) : q.state[other] = p.state[other]
    BY <2>5, <2>6 DEF Below
  <2>9. Later(p, q)
    BY <2>5, <2>6 DEF Below, Later
  <2> QED BY <2>6, <2>7, <2>8, <2>9 DEF IpcpEvent, q, b, acts, t
<1>5. CASE p.state["ipcp"] # "opened"
  <2>1. acts \in Quiet /\ Resting(p, "ipcp")
    BY <1>2, <1>5 DEF Stacked, Resting, Over, Inert
  <2>2. q = Goes(DoAll(b, acts), "ipcp", t)
    BY <2>1, IpcpPlain
  <2>3. Moves(p, q, "ipcp") /\ q.state["ipcp"] = t
    BY <1>1, <1>3, <2>1, <2>2, PlainSteps
  <2> HIDE DEF q
  <2>4. Resting(q, "ipcp")
    BY <2>1, <2>3 DEF Moves, Resting, Over, Layers
  <2>5. q \in Globals /\ q.state["ipcp"] \in Inert /\ Later(p, q)
        /\ \A other \in Layers \ (Over["ipcp"] \cup {"ipcp"}) : q.state[other] = p.state[other]
    BY <1>2, <2>3 DEF Moves
  <2> QED BY <2>4, <2>5 DEF IpcpEvent, q, b, acts, t
<1> QED BY <1>4, <1>5
-----------------------------------------------------------------------------
(* PAP, and IPCP above it.                                                 *)
LEMMA PapPlain ==
  ASSUME NEW p, NEW acts \in Quiet \cup Restarts \cup Acknowledges \cup Repeats
  PROVE  PapActs(p, acts) = DoAll(p, acts)
<1>1. ~TakesDown(acts) /\ ~TakesUp(acts)
  BY DEF TakesDown, TakesUp, Quiet, Restarts, Acknowledges, Repeats
<1> QED BY <1>1 DEF PapActs

LEMMA PapRises ==
  ASSUME NEW p \in Globals, NEW acts \in Rises
  PROVE  \E q \in Globals : /\ Kept(p, q) /\ PapActs(p, acts) = PapUp(q)
                            /\ acts \in Says => p.rx.layer \in q.agreed
<1>1. acts = <<"irc", "tlu">> => PapActs(p, acts) = PapUp(Irc(p))
  BY DEF PapActs, TakesDown, TakesUp, DoAll, DoNth, Do, Irc
<1>2. acts = <<"sca", "tlu">> => PapActs(p, acts) = PapUp(SendConfigAck(p))
  BY DEF PapActs, TakesDown, TakesUp, DoAll, DoNth, Do
<1>3. /\ Kept(p, Irc(p)) /\ Kept(p, SendConfigAck(p))
      /\ p.rx.layer \in SendConfigAck(p).agreed
  BY IrcKept, AckKept
<1>4. acts = <<"irc", "tlu">> => acts \notin Says
  BY DEF Says
<1> QED BY <1>1, <1>2, <1>3, <1>4 DEF Rises, Kept

LEMMA PapFalls ==
  ASSUME NEW p, NEW acts \in Falls, PapDown(p) \in Globals
  PROVE  /\ Kept(PapDown(p), PapActs(p, acts))
         /\ acts \in FallsQuietly => PapActs(p, acts) = PapDown(p)
<1> DEFINE d == PapDown(p)
<1>0. PapActs(p, acts) = DoAll(d, acts)
  <2>1. TakesDown(acts) /\ ~TakesUp(acts)
    BY DEF TakesDown, TakesUp, Falls
  <2> QED BY <2>1 DEF PapActs
<1> HIDE DEF d
<1>1. acts = <<"tlf">> => DoAll(d, acts) = d
  BY DEF DoAll, DoNth, Do
<1>2. acts = <<"tld">> => DoAll(d, acts) = d
  BY DEF DoAll, DoNth, Do
<1>3. acts = <<"tld", "scr">> => DoAll(d, acts) = SendConfigReq(d)
  BY DEF DoAll, DoNth, Do
<1>4. acts = <<"tld", "scr", "sca">> => DoAll(d, acts) = SendConfigAck(SendConfigReq(d))
  BY DEF DoAll, DoNth, Do
<1>5. acts = <<"tld", "scr", "scn">> => DoAll(d, acts) = SendConfigNackRej(SendConfigReq(d))
  BY DEF DoAll, DoNth, Do
<1>6. acts = <<"tld", "zrc", "sta">> => DoAll(d, acts) = SendCopy(Zrc(d), "termAck")
  BY DEF DoAll, DoNth, Do, Zrc
<1>7. Kept(d, d)
  BY DEF Kept, Later, d
<1> QED BY <1>0, <1>1, <1>2, <1>3, <1>4, <1>5, <1>6, <1>7, RequestKept, AnswersKept DEF Falls, FallsQuietly, d

LEMMA PapIsUp ==
  ASSUME NEW p \in Globals, Resting(p, "pap")
  PROVE  Risen(p, PapUp(p), "pap")
<1> DEFINE r == [p EXCEPT !.phase = "network", !.msgId = IdMod - 1]
           q == PapUp(p)
<1>1. r \in Globals /\ r.phase = "network" /\ r.state = p.state /\ Later(p, r)
  <2>1. "network" \in Phases /\ IdMod - 1 \in 0 .. IdMod - 1
    BY PppLinkAssumption DEF Phases
  <2> QED BY <2>1 DEF Globals, Later
<1>2. r.state["ipcp"] \in Inert
  BY <1>1 DEF Resting, Over
<1>3. q = IpcpEvent(IpcpEvent(r, "open"), "up")
  BY DEF PapUp
<1> HIDE DEF r, q
<1>4. Moves(r, q, "ipcp") /\ q.state["ipcp"] = "reqSent" /\ q.count = MaxRestart - 1
  BY <1>1, <1>2, <1>3, IpcpStarts
<1>5. Below(p, q, "pap")
  BY <1>1, <1>4 DEF Moves, Below, Later, Over, Layers
<1>6. IsUp(q, "pap")
  BY <1>1, <1>4 DEF Moves, IsUp, PhaseOver, Resting, Over, Layers
<1> QED BY <1>4, <1>5, <1>6 DEF Moves, Risen, q

LEMMA PapIsDown ==
  ASSUME NEW p \in Globals, Stacked(p)
  PROVE  Fallen(p, PapDown(p), "pap")
<1> DEFINE r == IpcpEvent(p, "down")
           q == PapDown(p)
<1>1. /\ r \in Globals /\ r.state["ipcp"] \in Inert /\ Resting(r, "ipcp") /\ Later(p, r)
      /\ \A other \in Layers \ (Over["ipcp"] \cup {"ipcp"}) : r.state[other] = p.state[other]
  BY IpcpStops
<1>2. q = [r EXCEPT !.phase = "dead"]
  BY DEF PapDown
<1> HIDE DEF r, q
<1>3. q \in Globals /\ q.phase = "dead" /\ q.state = r.state /\ Later(r, q)
  BY <1>1, <1>2 DEF Globals, Phases, Later
<1>4. Resting(q, "pap") /\ Below(p, q, "pap")
  BY <1>1, <1>3 DEF Resting, Below, Later, Over, Layers
<1> QED BY <1>3, <1>4 DEF Fallen, IsDown, q

LEMMA PapSteps ==
  ASSUME NEW p \in Globals, NEW e \in Input, Stacked(p)
  PROVE  /\ Step(p, PapEvent(p, e), "pap", e)
         /\ Answers(p, PapEvent(p, e), "pap", e)
<1> DEFINE b == Before(p, "pap")
           acts == Acts(p, "pap", e)
           d == PapActs(b, acts)
<1>1. Kept(p, b) /\ b \in Globals /\ b.state = p.state /\ Later(p, b)
  BY BeforeKept DEF Kept
<1> HIDE DEF b
<1>2. acts \in Quiet \cup Restarts \cup Acknowledges \cup Repeats => d = DoAll(b, acts)
  BY PapPlain
<1>3. ASSUME p.state["pap"] \in InNegotiation, acts \in Rises
      PROVE  Risen(p, d, "pap") /\ (acts \in Says => p.rx.layer \in d.agreed)
  <2>1. PICK u \in Globals : /\ Kept(b, u) /\ d = PapUp(u)
                             /\ acts \in Says => b.rx.layer \in u.agreed
    BY <1>1, <1>3, PapRises
  <2>2. u.state = p.state /\ Later(b, u)
    BY <1>1, <2>1 DEF Kept
  <2>3. Resting(u, "pap")
    BY <1>3, <2>2 DEF Stacked, Resting, Over, InNegotiation, Inert
  <2> HIDE DEF d
  <2>4. Risen(u, d, "pap")
    BY <2>1, <2>3, PapIsUp
  <2> QED BY <1>1, <2>1, <2>2, <2>4 DEF Risen, Below, Later
<1>4. ASSUME acts \in Falls
      PROVE  Fallen(p, d, "pap")
  <2>1. Fallen(b, PapDown(b), "pap")
    BY <1>1, PapIsDown DEF Stacked
  <2>2. Kept(PapDown(b), d)
    BY <1>4, <2>1, PapFalls DEF Fallen
  <2> HIDE DEF d
  <2> QED BY <1>1, <2>1, <2>2 DEF Fallen, Below, Later, IsDown, Resting, Kept
<1>5. ASSUME acts \in Says, p.state["pap"] \notin Answering
      PROVE  p.rx.layer \in d.agreed
  <2>1. CASE acts = <<"sca", "tlu">>
    <3>1. acts \in Rises /\ acts \notin Quiet \cup Restarts \cup GivesUp
      BY <2>1 DEF Rises, Quiet, Restarts, GivesUp
    <3>2. p.state["pap"] \in InNegotiation
      BY <1>1, <3>1, RisingRows DEF Globals, Layers, Acts
    <3> QED BY <1>3, <1>5, <3>1, <3>2
  <2>2. CASE acts \in {<<"sca">>, <<"irc", "scr", "sca">>}
    <3>1. acts \in Quiet \cup Restarts
      BY <2>2 DEF Quiet, Restarts
    <3>2. d = DoAll(b, acts) /\ b.rx = p.rx
      BY <1>1, <1>2, <3>1 DEF Later
    <3> HIDE DEF d, acts
    <3> QED BY <1>1, <2>2, <3>2, SayingActs
  <2> QED BY <1>5, <2>1, <2>2 DEF Says
<1>6. Did(p, "pap", e, d)
  BY <1>2, <1>3, <1>4, <1>5 DEF Did, b
<1> HIDE DEF d
<1>7. LET q == Goes(d, "pap", Goal(p, "pap", e)) IN
      Step(p, q, "pap", e) /\ Answers(p, q, "pap", e)
  BY <1>6, LayerSteps, LayerAnswers DEF Layers
<1> QED BY <1>7 DEF PapEvent, d, b

(* It is opened, and the link below is up; or the link below is down.      *)
LEMMA PapStarts ==
  ASSUME NEW p \in Globals, p.state["pap"] \in Inert
  PROVE  LET q == PapEvent(PapEvent(p, "open"), "up") IN
         Moves(p, q, "pap") /\ q.state["pap"] = "reqSent" /\ q.count = MaxRestart - 1
<1> DEFINE r == PapEvent(p, "open")
           q == PapEvent(r, "up")
<1>1. "pap" \in Layers /\ {"starting", "reqSent"} \subseteq States
  BY DEF Layers, States
<1>2. Acts(p, "pap", "open") \in Quiet /\ Goal(p, "pap", "open") = "starting"
  BY StartRows DEF Acts, Goal
<1>3. Moves(p, r, "pap") /\ r.state["pap"] = "starting"
  BY <1>1, <1>2, PapPlain, PlainSteps DEF PapEvent
<1> HIDE DEF r
<1>4. Acts(r, "pap", "up") \in Restarts /\ Goal(r, "pap", "up") = "reqSent"
  BY <1>3, StartRows DEF Acts, Goal
<1>5. Moves(r, q, "pap") /\ q.state["pap"] = "reqSent" /\ q.count = MaxRestart - 1
  <2>1. r \in Globals
    BY <1>3 DEF Moves
  <2> QED BY <1>1, <1>4, <2>1, PapPlain, PlainSteps DEF PapEvent
<1> HIDE DEF q
<1>6. Moves(p, q, "pap")
  BY <1>3, <1>5 DEF Moves, Later
<1> QED BY <1>5, <1>6 DEF q, r

LEMMA PapStops ==
  ASSUME NEW p \in Globals, Stacked(p)
  PROVE  LET q == PapEvent(p, "down") IN
         /\ q \in Globals /\ q.state["pap"] \in Inert /\ Resting(q, "pap") /\ Later(p, q)
         /\ \A other \in Layers \ (Over["pap"] \cup {"pap"}) : q.state[other] = p.state[other]
<1> DEFINE b == Before(p, "pap")
           acts == Acts(p, "pap", "down")
           t == Goal(p, "pap", "down")
           q == Goes(PapActs(b, acts), "pap", t)
<1>1. "pap" \in Layers /\ p.state["pap"] \in States /\ p.state \in [Layers -> States]
  BY DEF Globals, Layers
<1>2. t \in Inert /\ (IF p.state["pap"] = "opened" THEN acts \in FallsQuietly ELSE acts \in Quiet)
  BY <1>1, DownRows DEF Acts, Goal
<1>3. t \in States
  BY <1>2 DEF Inert, States
<1> HIDE DEF acts, t
<1>4. CASE p.state["pap"] = "opened"
  <2>1. Kept(p, b) /\ b \in Globals /\ b.state = p.state /\ Later(p, b)
    BY BeforeKept DEF Kept
  <2>2. acts \in FallsQuietly /\ acts \in Falls
    BY <1>2, <1>4 DEF FallsQuietly, Falls
  <2>3. Fallen(b, PapDown(b), "pap")
    BY <2>1, PapIsDown DEF Stacked
  <2>4. PapActs(b, acts) = PapDown(b)
    BY <2>2, <2>3, PapFalls DEF Fallen
  <2> DEFINE d == PapDown(b)
  <2>5. d \in Globals /\ Below(p, d, "pap") /\ IsDown(d, "pap") /\ q = Goes(d, "pap", t)
    BY <2>1, <2>3, <2>4 DEF Fallen, Below, Later
  <2> HIDE DEF d, q
  <2>6. q \in Globals /\ q.phase = d.phase /\ q.state = [d.state EXCEPT !["pap"] = t]
        /\ Later(d, q) /\ d.state \in [Layers -> States]
    <3>1. d.state \in [Layers -> States]
      BY <2>5 DEF Globals
    <3> QED BY <1>1, <1>3, <2>5, <3>1, GoesTo DEF Later
  <2>7. q.state["pap"] \in Inert /\ Resting(q, "pap")
    BY <1>2, <2>5, <2>6 DEF IsDown, Resting, Over, Layers
  <2>8. \A other \in Layers \ (Over["pap"] \cup {"pap"}) : q.state[other] = p.state[other]
    BY <2>5, <2>6 DEF Below
  <2>9. Later(p, q)
    BY <2>5, <2>6 DEF Below, Later
  <2> QED BY <2>6, <2>7, <2>8, <2>9 DEF PapEvent, q, b, acts, t
<1>5. CASE p.state["pap"] # "opened"
  <2>1. acts \in Quiet /\ Resting(p, "pap")
    BY <1>2, <1>5 DEF Stacked, Resting, Over, Inert
  <2>2. q = Goes(DoAll(b, acts), "pap", t)
    BY <2>1, PapPlain
  <2>3. Moves(p, q, "pap") /\ q.state["pap"] = t
    BY <1>1, <1>3, <2>1, <2>2, PlainSteps
  <2> HIDE DEF q
  <2>4. Resting(q, "pap")
    BY <2>1, <2>3 DEF Moves, Resting, Over, Layers
  <2>5. q \in Globals /\ q.state["pap"] \in Inert /\ Later(p, q)
        /\ \A other \in Layers \ (Over["pap"] \cup {"pap"}) : q.state[other] = p.state[other]
    BY <1>2, <2>3 DEF Moves
  <2> QED BY <2>4, <2>5 DEF PapEvent, q, b, acts, t
<1> QED BY <1>4, <1>5
-----------------------------------------------------------------------------
(* LCP, and PAP above it.                                                  *)
LEMMA LcpPlain ==
  ASSUME NEW p, NEW acts \in Quiet \cup Restarts \cup Acknowledges \cup Repeats
  PROVE  LcpActs(p, acts) = DoAll(p, acts)
<1>1. ~TakesDown(acts) /\ ~TakesUp(acts)
  BY DEF TakesDown, TakesUp, Quiet, Restarts, Acknowledges, Repeats
<1> QED BY <1>1 DEF LcpActs

LEMMA LcpRises ==
  ASSUME NEW p \in Globals, NEW acts \in Rises
  PROVE  \E q \in Globals : /\ Kept(p, q) /\ LcpActs(p, acts) = LcpUp(q)
                            /\ acts \in Says => p.rx.layer \in q.agreed
<1>1. acts = <<"irc", "tlu">> => LcpActs(p, acts) = LcpUp(Irc(p))
  BY DEF LcpActs, TakesDown, TakesUp, DoAll, DoNth, Do, Irc
<1>2. acts = <<"sca", "tlu">> => LcpActs(p, acts) = LcpUp(SendConfigAck(p))
  BY DEF LcpActs, TakesDown, TakesUp, DoAll, DoNth, Do
<1>3. /\ Kept(p, Irc(p)) /\ Kept(p, SendConfigAck(p))
      /\ p.rx.layer \in SendConfigAck(p).agreed
  BY IrcKept, AckKept
<1>4. acts = <<"irc", "tlu">> => acts \notin Says
  BY DEF Says
<1> QED BY <1>1, <1>2, <1>3, <1>4 DEF Rises, Kept

LEMMA LcpFalls ==
  ASSUME NEW p, NEW acts \in Falls, LcpDown(p) \in Globals
  PROVE  /\ Kept(LcpDown(p), LcpActs(p, acts))
         /\ acts \in FallsQuietly => LcpActs(p, acts) = LcpDown(p)
<1> DEFINE d == LcpDown(p)
<1>0. LcpActs(p, acts) = DoAll(d, acts)
  <2>1. TakesDown(acts) /\ ~TakesUp(acts)
    BY DEF TakesDown, TakesUp, Falls
  <2> QED BY <2>1 DEF LcpActs
<1> HIDE DEF d
<1>1. acts = <<"tlf">> => DoAll(d, acts) = d
  BY DEF DoAll, DoNth, Do
<1>2. acts = <<"tld">> => DoAll(d, acts) = d
  BY DEF DoAll, DoNth, Do
<1>3. acts = <<"tld", "scr">> => DoAll(d, acts) = SendConfigReq(d)
  BY DEF DoAll, DoNth, Do
<1>4. acts = <<"tld", "scr", "sca">> => DoAll(d, acts) = SendConfigAck(SendConfigReq(d))
  BY DEF DoAll, DoNth, Do
<1>5. acts = <<"tld", "scr", "scn">> => DoAll(d, acts) = SendConfigNackRej(SendConfigReq(d))
  BY DEF DoAll, DoNth, Do
<1>6. acts = <<"tld", "zrc", "sta">> => DoAll(d, acts) = SendCopy(Zrc(d), "termAck")
  BY DEF DoAll, DoNth, Do, Zrc
<1>7. Kept(d, d)
  BY DEF Kept, Later, d
<1> QED BY <1>0, <1>1, <1>2, <1>3, <1>4, <1>5, <1>6, <1>7, RequestKept, AnswersKept DEF Falls, FallsQuietly, d

LEMMA LcpIsUp ==
  ASSUME NEW p \in Globals, Resting(p, "lcp")
  PROVE  Risen(p, LcpUp(p), "lcp")
<1> DEFINE r == [p EXCEPT !.phase = "authentication", !.msgId = IdMod - 1]
           q == LcpUp(p)
<1>1. r \in Globals /\ r.phase = "authentication" /\ r.state = p.state /\ Later(p, r)
  <2>1. "authentication" \in Phases /\ IdMod - 1 \in 0 .. IdMod - 1
    BY PppLinkAssumption DEF Phases
  <2> QED BY <2>1 DEF Globals, Later
<1>2. r.state["pap"] \in Inert
  BY <1>1 DEF Resting, Over
<1>3. q = PapEvent(PapEvent(r, "open"), "up")
  BY DEF LcpUp
<1> HIDE DEF r, q
<1>4. Moves(r, q, "pap") /\ q.state["pap"] = "reqSent" /\ q.count = MaxRestart - 1
  BY <1>1, <1>2, <1>3, PapStarts
<1>5. Below(p, q, "lcp")
  BY <1>1, <1>4 DEF Moves, Below, Later, Over, Layers
<1>6. IsUp(q, "lcp")
  BY <1>1, <1>4 DEF Moves, IsUp, PhaseOver, Resting, Over, Layers
<1> QED BY <1>4, <1>5, <1>6 DEF Moves, Risen, q

LEMMA LcpIsDown ==
  ASSUME NEW p \in Globals, Stacked(p)
  PROVE  Fallen(p, LcpDown(p), "lcp")
<1> DEFINE r == PapEvent(p, "down")
           q == LcpDown(p)
<1>1. /\ r \in Globals /\ r.state["pap"] \in Inert /\ Resting(r, "pap") /\ Later(p, r)
      /\ \A other \in Layers \ (Over["pap"] \cup {"pap"}) : r.state[other] = p.state[other]
  BY PapStops
<1>2. q = [r EXCEPT !.phase = "dead"]
  BY DEF LcpDown
<1> HIDE DEF r, q
<1>3. q \in Globals /\ q.phase = "dead" /\ q.state = r.state /\ Later(r, q)
  BY <1>1, <1>2 DEF Globals, Phases, Later
<1>4. Resting(q, "lcp") /\ Below(p, q, "lcp")
  BY <1>1, <1>3 DEF Resting, Below, Later, Over, Layers
<1> QED BY <1>3, <1>4 DEF Fallen, IsDown, q

LEMMA LcpSteps ==
  ASSUME NEW p \in Globals, NEW e \in Input, Stacked(p)
  PROVE  /\ Step(p, LcpEvent(p, e), "lcp", e)
         /\ Answers(p, LcpEvent(p, e), "lcp", e)
<1> DEFINE b == Before(p, "lcp")
           acts == Acts(p, "lcp", e)
           d == LcpActs(b, acts)
<1>1. Kept(p, b) /\ b \in Globals /\ b.state = p.state /\ Later(p, b)
  BY BeforeKept DEF Kept
<1> HIDE DEF b
<1>2. acts \in Quiet \cup Restarts \cup Acknowledges \cup Repeats => d = DoAll(b, acts)
  BY LcpPlain
<1>3. ASSUME p.state["lcp"] \in InNegotiation, acts \in Rises
      PROVE  Risen(p, d, "lcp") /\ (acts \in Says => p.rx.layer \in d.agreed)
  <2>1. PICK u \in Globals : /\ Kept(b, u) /\ d = LcpUp(u)
                             /\ acts \in Says => b.rx.layer \in u.agreed
    BY <1>1, <1>3, LcpRises
  <2>2. u.state = p.state /\ Later(b, u)
    BY <1>1, <2>1 DEF Kept
  <2>3. Resting(u, "lcp")
    BY <1>3, <2>2 DEF Stacked, Resting, Over, InNegotiation, Inert
  <2> HIDE DEF d
  <2>4. Risen(u, d, "lcp")
    BY <2>1, <2>3, LcpIsUp
  <2> QED BY <1>1, <2>1, <2>2, <2>4 DEF Risen, Below, Later
<1>4. ASSUME acts \in Falls
      PROVE  Fallen(p, d, "lcp")
  <2>1. Fallen(b, LcpDown(b), "lcp")
    BY <1>1, LcpIsDown DEF Stacked
  <2>2. Kept(LcpDown(b), d)
    BY <1>4, <2>1, LcpFalls DEF Fallen
  <2> HIDE DEF d
  <2> QED BY <1>1, <2>1, <2>2 DEF Fallen, Below, Later, IsDown, Resting, Kept
<1>5. ASSUME acts \in Says, p.state["lcp"] \notin Answering
      PROVE  p.rx.layer \in d.agreed
  <2>1. CASE acts = <<"sca", "tlu">>
    <3>1. acts \in Rises /\ acts \notin Quiet \cup Restarts \cup GivesUp
      BY <2>1 DEF Rises, Quiet, Restarts, GivesUp
    <3>2. p.state["lcp"] \in InNegotiation
      BY <1>1, <3>1, RisingRows DEF Globals, Layers, Acts
    <3> QED BY <1>3, <1>5, <3>1, <3>2
  <2>2. CASE acts \in {<<"sca">>, <<"irc", "scr", "sca">>}
    <3>1. acts \in Quiet \cup Restarts
      BY <2>2 DEF Quiet, Restarts
    <3>2. d = DoAll(b, acts) /\ b.rx = p.rx
      BY <1>1, <1>2, <3>1 DEF Later
    <3> HIDE DEF d, acts
    <3> QED BY <1>1, <2>2, <3>2, SayingActs
  <2> QED BY <1>5, <2>1, <2>2 DEF Says
<1>6. Did(p, "lcp", e, d)
  BY <1>2, <1>3, <1>4, <1>5 DEF Did, b
<1> HIDE DEF d
<1>7. LET q == Goes(d, "lcp", Goal(p, "lcp", e)) IN
      Step(p, q, "lcp", e) /\ Answers(p, q, "lcp", e)
  BY <1>6, LayerSteps, LayerAnswers DEF Layers
<1> QED BY <1>7 DEF LcpEvent, d, b

(* It is opened, and the link below is up; or the link below is down.      *)
LEMMA LcpStarts ==
  ASSUME NEW p \in Globals, p.state["lcp"] \in Inert
  PROVE  LET q == LcpEvent(LcpEvent(p, "open"), "up") IN
         Moves(p, q, "lcp") /\ q.state["lcp"] = "reqSent" /\ q.count = MaxRestart - 1
<1> DEFINE r == LcpEvent(p, "open")
           q == LcpEvent(r, "up")
<1>1. "lcp" \in Layers /\ {"starting", "reqSent"} \subseteq States
  BY DEF Layers, States
<1>2. Acts(p, "lcp", "open") \in Quiet /\ Goal(p, "lcp", "open") = "starting"
  BY StartRows DEF Acts, Goal
<1>3. Moves(p, r, "lcp") /\ r.state["lcp"] = "starting"
  BY <1>1, <1>2, LcpPlain, PlainSteps DEF LcpEvent
<1> HIDE DEF r
<1>4. Acts(r, "lcp", "up") \in Restarts /\ Goal(r, "lcp", "up") = "reqSent"
  BY <1>3, StartRows DEF Acts, Goal
<1>5. Moves(r, q, "lcp") /\ q.state["lcp"] = "reqSent" /\ q.count = MaxRestart - 1
  <2>1. r \in Globals
    BY <1>3 DEF Moves
  <2> QED BY <1>1, <1>4, <2>1, LcpPlain, PlainSteps DEF LcpEvent
<1> HIDE DEF q
<1>6. Moves(p, q, "lcp")
  BY <1>3, <1>5 DEF Moves, Later
<1> QED BY <1>5, <1>6 DEF q, r

LEMMA LcpStops ==
  ASSUME NEW p \in Globals, Stacked(p)
  PROVE  LET q == LcpEvent(p, "down") IN
         /\ q \in Globals /\ q.state["lcp"] \in Inert /\ Resting(q, "lcp") /\ Later(p, q)
         /\ \A other \in Layers \ (Over["lcp"] \cup {"lcp"}) : q.state[other] = p.state[other]
<1> DEFINE b == Before(p, "lcp")
           acts == Acts(p, "lcp", "down")
           t == Goal(p, "lcp", "down")
           q == Goes(LcpActs(b, acts), "lcp", t)
<1>1. "lcp" \in Layers /\ p.state["lcp"] \in States /\ p.state \in [Layers -> States]
  BY DEF Globals, Layers
<1>2. t \in Inert /\ (IF p.state["lcp"] = "opened" THEN acts \in FallsQuietly ELSE acts \in Quiet)
  BY <1>1, DownRows DEF Acts, Goal
<1>3. t \in States
  BY <1>2 DEF Inert, States
<1> HIDE DEF acts, t
<1>4. CASE p.state["lcp"] = "opened"
  <2>1. Kept(p, b) /\ b \in Globals /\ b.state = p.state /\ Later(p, b)
    BY BeforeKept DEF Kept
  <2>2. acts \in FallsQuietly /\ acts \in Falls
    BY <1>2, <1>4 DEF FallsQuietly, Falls
  <2>3. Fallen(b, LcpDown(b), "lcp")
    BY <2>1, LcpIsDown DEF Stacked
  <2>4. LcpActs(b, acts) = LcpDown(b)
    BY <2>2, <2>3, LcpFalls DEF Fallen
  <2> DEFINE d == LcpDown(b)
  <2>5. d \in Globals /\ Below(p, d, "lcp") /\ IsDown(d, "lcp") /\ q = Goes(d, "lcp", t)
    BY <2>1, <2>3, <2>4 DEF Fallen, Below, Later
  <2> HIDE DEF d, q
  <2>6. q \in Globals /\ q.phase = d.phase /\ q.state = [d.state EXCEPT !["lcp"] = t]
        /\ Later(d, q) /\ d.state \in [Layers -> States]
    <3>1. d.state \in [Layers -> States]
      BY <2>5 DEF Globals
    <3> QED BY <1>1, <1>3, <2>5, <3>1, GoesTo DEF Later
  <2>7. q.state["lcp"] \in Inert /\ Resting(q, "lcp")
    BY <1>2, <2>5, <2>6 DEF IsDown, Resting, Over, Layers
  <2>8. \A other \in Layers \ (Over["lcp"] \cup {"lcp"}) : q.state[other] = p.state[other]
    BY <2>5, <2>6 DEF Below
  <2>9. Later(p, q)
    BY <2>5, <2>6 DEF Below, Later
  <2> QED BY <2>6, <2>7, <2>8, <2>9 DEF LcpEvent, q, b, acts, t
<1>5. CASE p.state["lcp"] # "opened"
  <2>1. acts \in Quiet /\ Resting(p, "lcp")
    BY <1>2, <1>5 DEF Stacked, Resting, Over, Inert
  <2>2. q = Goes(DoAll(b, acts), "lcp", t)
    BY <2>1, LcpPlain
  <2>3. Moves(p, q, "lcp") /\ q.state["lcp"] = t
    BY <1>1, <1>3, <2>1, <2>2, PlainSteps
  <2> HIDE DEF q
  <2>4. Resting(q, "lcp")
    BY <2>1, <2>3 DEF Moves, Resting, Over, Layers
  <2>5. q \in Globals /\ q.state["lcp"] \in Inert /\ Later(p, q)
        /\ \A other \in Layers \ (Over["lcp"] \cup {"lcp"}) : q.state[other] = p.state[other]
    BY <1>2, <2>3 DEF Moves
  <2> QED BY <2>4, <2>5 DEF LcpEvent, q, b, acts, t
<1> QED BY <1>4, <1>5
-----------------------------------------------------------------------------
(* What a turn of the main loop does.                                      *)
Good(p, acked) == Sound(p) /\ Agreed(p, acked) /\ Answered(p)

(* What a layer is told of: an acknowledgement the other end has given, a  *)
(* request of its own.                                                     *)
Heard(p, layer, e, acked) ==
  (e = "rca" => layer \in acked) /\ (e = "rcr+" => p.rx.layer = layer)

LEMMA Events ==
  ASSUME NEW acked, NEW p, Good(p, acked), NEW e \in Input, Timely(p, e)
  PROVE  /\ Heard(p, "lcp", e, acked) => Good(LcpEvent(p, e), acked)
         /\ Heard(p, "pap", e, acked) => Good(PapEvent(p, e), acked)
         /\ Heard(p, "ipcp", e, acked) => Good(IpcpEvent(p, e), acked)
<1>1. p \in Globals /\ Stacked(p) /\ Sound(p) /\ Agreed(p, acked) /\ Answered(p)
  BY DEF Good, Sound
<1>2. /\ Step(p, LcpEvent(p, e), "lcp", e) /\ Step(p, PapEvent(p, e), "pap", e)
      /\ Step(p, IpcpEvent(p, e), "ipcp", e)
      /\ Answers(p, LcpEvent(p, e), "lcp", e) /\ Answers(p, PapEvent(p, e), "pap", e)
      /\ Answers(p, IpcpEvent(p, e), "ipcp", e)
  BY <1>1, LcpSteps, PapSteps, IpcpSteps
<1>3. {"lcp", "pap", "ipcp"} \subseteq Layers
  BY DEF Layers
<1> QED BY <1>1, <1>2, <1>3, StepSound, StepAgreed, StepAnswered DEF Good, Heard

LEMMA KeptGood ==
  ASSUME NEW acked, NEW p, NEW q, Good(p, acked), Kept(p, q), q.count = p.count
  PROVE  Good(q, acked)
BY DEF Good, Kept, Later, Sound, Stacked, InPhase, Counted, Agreed, Answered

LEMMA TimerGood ==
  ASSUME NEW acked, NEW p, Good(p, acked)
  PROVE  Good(Timer(p), acked)
<1> DEFINE e == IF p.count > 0 THEN "to+" ELSE "to-"
<1>1. e \in Input /\ e # "rca" /\ e # "rcr+" /\ Timely(p, e)
  BY DEF Input, Timely
<1>2. Good(LcpEvent(p, e), acked) /\ Good(PapEvent(p, e), acked) /\ Good(IpcpEvent(p, e), acked)
  BY <1>1, Events DEF Heard
<1>3. \/ Timer(p) = p \/ Timer(p) = LcpEvent(p, e)
      \/ Timer(p) = PapEvent(p, e) \/ Timer(p) = IpcpEvent(p, e)
  BY DEF Timer
<1> QED BY <1>2, <1>3

LEMMA DownGood ==
  ASSUME NEW acked, NEW p, Good(p, acked)
  PROVE  Good(LcpDown(p), acked)
<1>1. p \in Globals /\ Stacked(p)
  BY DEF Good, Sound
<1>2. Fallen(p, LcpDown(p), "lcp")
  BY <1>1, LcpIsDown
<1> QED BY <1>2 DEF Fallen, Below, IsDown, Resting, Over, Layers, Good, Sound, Stacked, InPhase,
           Counted, Agreed, Agrees, Answered, Answering, Later, Inert, Negotiating

(* The other end acknowledges what it was asked, and rejects nothing.      *)
Honest(packet, acked) ==
  packet.code # "rej" /\ (packet.code = "ack" => packet.layer \in acked)

LEMMA PrepareKept ==
  ASSUME NEW p \in Globals
  PROVE  /\ \A packet \in Packet : LET q == [p EXCEPT !.tx = packet] IN Kept(p, q) /\ q.count = p.count
         /\ Kept(p, CheckLCPOptions(p)) /\ CheckLCPOptions(p).count = p.count
         /\ Kept(p, KeepNak(p)) /\ KeepNak(p).count = p.count
<1>1. \A packet \in Packet : LET q == [p EXCEPT !.tx = packet] IN Kept(p, q) /\ q.count = p.count
  BY DEF Globals, Kept, Later
<1>2. [p.tx EXCEPT !.layer = "lcp", !.id = p.rx.id] \in Packet
  BY DEF Globals, Packet, Layers
<1>3. CheckLCPOptions(p) = [p EXCEPT !.tx = [p.tx EXCEPT !.layer = "lcp", !.id = p.rx.id]]
  BY DEF CheckLCPOptions
<1>4. Kept(p, KeepNak(p)) /\ KeepNak(p).count = p.count
  BY DEF Globals, Kept, Later, KeepNak
<1> QED BY <1>1, <1>2, <1>3, <1>4

(* What was received bears on nothing before it is looked at.              *)
LEMMA ReceiptGood ==
  ASSUME NEW acked, NEW p, Good(p, acked), NEW packet \in Packet
  PROVE  LET q == [p EXCEPT !.rx = packet] IN Good(q, acked) /\ q.rx = packet
<1> DEFINE q == [p EXCEPT !.rx = packet]
<1>1. /\ q \in Globals /\ q.rx = packet /\ q.phase = p.phase /\ q.state = p.state
      /\ q.count = p.count /\ q.agreed = p.agreed
  BY DEF Good, Sound, Globals
<1> HIDE DEF q
<1>2. Good(q, acked)
  BY <1>1 DEF Good, Sound, Stacked, InPhase, Counted, Agreed, Answered
<1> QED BY <1>1, <1>2 DEF q

LEMMA LcpGood ==
  ASSUME NEW acked, NEW p, Good(p, acked), Honest(p.rx, acked), p.rx.layer = "lcp", NEW good
  PROVE  Good(ProcessLcp(p, good), acked)
<1>1. p \in Globals /\ p.rx \in Packet
  BY DEF Good, Sound, Globals
<1> DEFINE ended == [p EXCEPT !.tx = [p.rx EXCEPT !.code = "termAck"]]
<1>2. Good(CheckLCPOptions(p), acked) /\ Good(KeepNak(p), acked)
  BY <1>1, PrepareKept, KeptGood
<1>3. Good(ended, acked)
  <2>1. [p.rx EXCEPT !.code = "termAck"] \in Packet
    BY <1>1 DEF Packet, Codes
  <2> QED BY <1>1, <2>1, PrepareKept, KeptGood
<1>4. Good(LcpPrepared(p), acked) /\ LcpPrepared(p).rx = p.rx
  <2>1. ended.rx = p.rx /\ CheckLCPOptions(p).rx = p.rx /\ KeepNak(p).rx = p.rx
    BY <1>1, PrepareKept DEF Kept, Later, Globals
  <2> QED BY <1>2, <1>3, <2>1 DEF LcpPrepared, ended
<1> HIDE DEF ended
<1> DEFINE e == LcpHeard(p.rx.code, good)
<1>5. CASE Stale(p)
  BY <1>5 DEF ProcessLcp
<1>6. CASE ~Stale(p)
  <2>1. e \in Input /\ (e = "rca" => p.rx.code = "ack") /\ Timely(LcpPrepared(p), e)
    BY <1>1, <1>6 DEF LcpHeard, Packet, Codes, Input, Timely
  <2>2. e = "rca" => "lcp" \in acked
    BY <2>1 DEF Honest
  <2>3. Good(LcpEvent(LcpPrepared(p), e), acked)
    BY <1>4, <2>1, <2>2, Events DEF Heard
  <2> QED BY <1>6, <2>3 DEF ProcessLcp
<1> QED BY <1>5, <1>6

LEMMA PapGood ==
  ASSUME NEW acked, NEW p, Good(p, acked), Honest(p.rx, acked), p.rx.layer = "pap"
  PROVE  Good(ProcessPap(p), acked)
<1>1. /\ {"rcr+", "rca", "rcn"} \subseteq Input
      /\ \A q, e : e \in {"rcr+", "rca", "rcn"} => Timely(q, e)
  BY DEF Input, Timely
<1>2. Good(PapEvent(p, "rcr+"), acked) /\ Good(PapEvent(p, "rcn"), acked)
  BY <1>1, Events DEF Heard
<1>3. p.rx.code = "ack" => Good(PapEvent(PapEvent(p, "rcr+"), "rca"), acked)
  BY <1>1, <1>2, Events DEF Honest, Heard
<1>4. p.rx.code # "rej"
  BY DEF Honest
<1> QED BY <1>2, <1>3, <1>4 DEF ProcessPap, PapHeard

LEMMA IpcpGood ==
  ASSUME NEW acked, NEW p, Good(p, acked), Honest(p.rx, acked), p.rx.layer = "ipcp"
  PROVE  Good(ProcessIpcp(p), acked)
<1>1. /\ {"rcr+", "rca", "rcn"} \subseteq Input
      /\ \A q, e : e \in {"rcr+", "rca", "rcn"} => Timely(q, e)
  BY DEF Input, Timely
<1>2. Good(KeepNak(p), acked) /\ KeepNak(p).rx = p.rx
  <2>1. p \in Globals
    BY DEF Good, Sound
  <2> QED BY <2>1, PrepareKept, KeptGood DEF Kept, Later
<1>3. Good(IpcpEvent(p, "rcr+"), acked) /\ Good(IpcpEvent(KeepNak(p), "rcn"), acked)
  BY <1>1, <1>2, Events DEF Heard
<1>4. p.rx.code = "ack" => Good(IpcpEvent(p, "rca"), acked)
  BY <1>1, Events DEF Honest, Heard
<1> QED BY <1>3, <1>4 DEF ProcessIpcp

LEMMA PacketGood ==
  ASSUME NEW acked, NEW p, Good(p, acked), NEW packet \in Packet, Honest(packet, acked), NEW good
  PROVE  Good(ProcessPacket(p, packet, good), acked)
<1> DEFINE q == [p EXCEPT !.rx = packet]
<1>2. Good(q, acked) /\ q.rx = packet
  BY ReceiptGood
<1> HIDE DEF q
<1>3. /\ packet.layer = "lcp" => Good(ProcessLcp(q, good), acked)
      /\ packet.layer = "pap" => Good(ProcessPap(q), acked)
      /\ packet.layer = "ipcp" => Good(ProcessIpcp(q), acked)
  BY <1>2, LcpGood, PapGood, IpcpGood
<1>4. packet.layer \in {"lcp", "pap", "ipcp"}
  BY DEF Packet, Layers
<1> QED BY <1>3, <1>4 DEF ProcessPacket, q

LEMMA OpenGood ==
  ASSUME NEW acked, NEW p \in Globals
  PROVE  Good(Open(p), acked)
<1> DEFINE r == [p EXCEPT !.count = MaxRestart, !.msgId = IdMod - 1, !.prepared = FALSE,
                          !.timerOn = FALSE, !.phase = "establish",
                          !.state = [layer \in Layers |-> "initial"], !.agreed = {}]
           q == LcpEvent(LcpEvent(r, "open"), "up")
<1>1. r \in Globals /\ r.phase = "establish" /\ r.state = [layer \in Layers |-> "initial"]
  <2>1. /\ MaxRestart \in 0 .. 255 /\ IdMod - 1 \in 0 .. IdMod - 1 /\ "establish" \in Phases
        /\ [layer \in Layers |-> "initial"] \in [Layers -> States]
    BY PppLinkAssumption DEF Phases, States
  <2> QED BY <2>1 DEF Globals
<1>2. Open(p) = q
  BY DEF Open
<1> HIDE DEF r, q
<1>3. \A layer \in Layers : r.state[layer] = "initial"
  BY <1>1
<1>4. Moves(r, q, "lcp") /\ q.state["lcp"] = "reqSent" /\ q.count = MaxRestart - 1
  <2>1. r.state["lcp"] \in Inert
    BY <1>3 DEF Layers, Inert
  <2> QED BY <1>1, <2>1, LcpStarts DEF q
<1>5. q \in Globals /\ q.phase = "establish" /\ q.state["pap"] = "initial" /\ q.state["ipcp"] = "initial"
  BY <1>1, <1>3, <1>4 DEF Moves, Layers
<1>6. Stacked(q) /\ InPhase(q)
  BY <1>4, <1>5 DEF Stacked, InPhase, Inert, InNegotiation
<1>7. Counted(q)
  <2>1. q.state[LayerOfPhase[q.phase]] # "ackRcvd"
    BY <1>4, <1>5 DEF LayerOfPhase
  <2> QED BY <1>4, <2>1, PppLinkAssumption DEF Counted
<1>8. Agreed(q, acked) /\ Answered(q)
  BY <1>4, <1>5 DEF Agreed, Answered, Layers, Agrees, Answering
<1> QED BY <1>2, <1>5, <1>6, <1>7, <1>8 DEF Good, Sound
-----------------------------------------------------------------------------
(* The inductive invariant.                                                *)
Peers == [acked : SUBSET Layers, got : SUBSET Layers, bad : BOOLEAN]
Running == Negotiating \cup {"ip"}

(* Nothing the network sends breaks the protocol.                          *)
AllHonest == \A n \in 1 .. Len(down) : Honest(down[n], peer.acked)

IInv ==
  /\ Sound(ppp) /\ (ppp.phase \in Running => Agreed(ppp, peer.acked) /\ Answered(ppp))
  /\ up \in Seq(Packet) /\ down \in Seq(Packet) /\ peer \in Peers
  /\ AllHonest

(* At the start every layer rests and nothing is under way.                *)
LEMMA InitIInv == Init => IInv
<1> SUFFICES ASSUME Init PROVE IInv
  OBVIOUS
<1>1. NoPacket \in Packet
  <2>1. 0 \in 0 .. IdMod - 1
    BY PppLinkAssumption
  <2> QED BY <2>1 DEF NoPacket, Packet, Layers, Codes, Addresses
<1>2. ppp \in Globals
  <2>1. [layer \in Layers |-> "initial"] \in [Layers -> States] /\ "dead" \in Phases /\ "none" \in Addresses
    BY DEF States, Phases, Addresses
  <2>2. 0 \in 0 .. 255 /\ 0 \in 0 .. IdMod - 1 /\ <<>> \in Seq(Packet)
    BY PppLinkAssumption
  <2> QED BY <1>1, <2>1, <2>2 DEF Init, Globals
<1>3. ppp.phase = "dead" /\ \A layer \in Layers : ppp.state[layer] = "initial"
  BY DEF Init
<1>4. Sound(ppp)
  BY <1>2, <1>3 DEF Sound, Stacked, InPhase, Counted, Layers, Inert, Negotiating
<1>5. up = <<>> /\ down = <<>> /\ peer \in Peers
  BY DEF Init, Fresh, Peers
<1> QED BY <1>3, <1>4, <1>5 DEF IInv, AllHonest, Running, Negotiating

(* A turn of the loop takes the packet that came and sends what is to go.  *)
LEMMA TurnIInv ==
  ASSUME IInv, NEW p, Good(p, peer.acked), Turn(Received(p)), down' = Rest, UNCHANGED peer
  PROVE  IInv'
<1> DEFINE q == Received(p)
<1>1. Good(q, peer.acked)
  <2>1. CASE down = <<>>
    BY <2>1 DEF Received
  <2>2. CASE down # <<>>
    <3>1. Head(down) \in Packet /\ Honest(Head(down), peer.acked)
      BY <2>2 DEF IInv, AllHonest
    <3> QED BY <2>2, <3>1, PacketGood DEF Received
  <2> QED BY <2>1, <2>2
<1>2. up' = up \o q.sent /\ ppp' = [q EXCEPT !.sent = <<>>]
  BY DEF Turn, Transmit
<1> HIDE DEF q
<1>3. Good(ppp', peer.acked)
  <2>1. q \in Globals /\ <<>> \in Seq(Packet)
    BY <1>1 DEF Good, Sound
  <2>2. Kept(q, ppp') /\ ppp'.count = q.count
    BY <1>2, <2>1 DEF Kept, Later, Globals
  <2> QED BY <1>1, <2>2, KeptGood
<1>4. up' \in Seq(Packet)
  <2>1. q.sent \in Seq(Packet)
    BY <1>1 DEF Good, Sound, Globals
  <2> QED BY <1>2, <2>1 DEF IInv
<1>5. down' \in Seq(Packet) /\ AllHonest'
  <2>1. CASE down = <<>>
    BY <2>1 DEF Rest, IInv, AllHonest
  <2>2. CASE down # <<>>
    BY <2>2 DEF Rest, IInv, AllHonest
  <2> QED BY <2>1, <2>2
<1> QED BY <1>3, <1>4, <1>5 DEF IInv, Good

(* The link is opened from nothing, and nothing has to be agreed to before *)
(* a layer is.                                                             *)
LEMMA WaitOnlineIInv ==
  ASSUME IInv, WaitOnline
  PROVE  IInv'
<1> DEFINE q == Open(ppp)
<1>1. Good(q, peer.acked)
  BY OpenGood DEF IInv, Sound
<1>2. up' = up \o q.sent /\ ppp' = [q EXCEPT !.sent = <<>>] /\ UNCHANGED <<down, peer>>
  BY DEF WaitOnline, Transmit
<1> HIDE DEF q
<1>3. q \in Globals /\ q.sent \in Seq(Packet) /\ <<>> \in Seq(Packet)
  BY <1>1 DEF Good, Sound, Globals
<1>4. Kept(q, ppp') /\ ppp'.count = q.count
  BY <1>2, <1>3 DEF Kept, Later, Globals
<1>5. Good(ppp', peer.acked)
  BY <1>1, <1>4, KeptGood
<1>6. up' \in Seq(Packet)
  BY <1>2, <1>3 DEF IInv
<1> QED BY <1>2, <1>5, <1>6 DEF IInv, Good, AllHonest

(* The phase alone changes, to one in which nothing is promised.           *)
LEMMA PhaseIInv ==
  ASSUME IInv, NEW phase \in {"dead", "waitOnline"}, ppp' = [ppp EXCEPT !.phase = phase]
  PROVE  Sound(ppp)' /\ ppp'.phase \notin Running
<1>1. ppp' \in Globals /\ ppp'.phase = phase /\ ppp'.state = ppp.state
  BY DEF IInv, Sound, Globals, Phases
<1> QED BY <1>1 DEF IInv, Sound, Stacked, InPhase, Counted, Running, Negotiating

(* The peer answers what it heard, or speaks of itself.                    *)
LEMMA AnswerIInv ==
  ASSUME IInv, NEW packet \in Packet, Answer(packet), UNCHANGED ppp, up' \in Seq(Packet),
         peer' \in Peers, peer.acked \subseteq peer'.acked, Honest(packet, peer'.acked)
  PROVE  IInv'
<1>1. down' \in Seq(Packet) /\ Len(down') = Len(down) + 1
      /\ \A n \in 1 .. Len(down') : down'[n] = IF n <= Len(down) THEN down[n] ELSE packet
  BY DEF IInv, Answer
<1>2. AllHonest'
  BY <1>1 DEF IInv, AllHonest, Honest
<1>3. ppp'.phase \in Running => Agreed(ppp', peer'.acked) /\ Answered(ppp')
  BY DEF IInv, Agreed
<1> QED BY <1>1, <1>2, <1>3 DEF IInv

LEMMA PeerHearsIInv ==
  ASSUME IInv, PeerHears
  PROVE  IInv'
<1> DEFINE packet == Head(up)
<1>1. packet \in Packet /\ up' \in Seq(Packet) /\ UNCHANGED ppp
  BY DEF IInv, PeerHears
<1>2. packet.layer \in Layers /\ peer.acked \subseteq Layers /\ peer.got \subseteq Layers
  BY <1>1 DEF IInv, Packet, Peers
<1> HIDE DEF packet
<1>3. CASE Acknowledge(packet)
  <2> DEFINE answer == [packet EXCEPT !.code = "ack"]
  <2>1. answer \in Packet /\ answer.code = "ack" /\ answer.layer = packet.layer
    BY <1>1 DEF Packet, Codes
  <2>2. peer' = [peer EXCEPT !.acked = peer.acked \cup {packet.layer}] /\ Answer(answer)
    BY <1>3 DEF Acknowledge
  <2>3. peer' \in Peers /\ peer'.acked = peer.acked \cup {packet.layer}
    BY <1>2, <2>2 DEF IInv, Peers
  <2> HIDE DEF answer
  <2>4. Honest(answer, peer'.acked)
    BY <2>1, <2>3 DEF Honest
  <2> QED BY <1>1, <2>1, <2>2, <2>3, <2>4, AnswerIInv
<1>4. CASE OfferAddress(packet) \/ RefuseLogin(packet)
  <2> DEFINE offer == [packet EXCEPT !.code = "nak", !.addr = "own"]
             refusal == [packet EXCEPT !.code = "nak"]
  <2>1. /\ offer \in Packet /\ Honest(offer, peer.acked)
        /\ refusal \in Packet /\ Honest(refusal, peer.acked)
    BY <1>1 DEF Packet, Codes, Addresses, Honest
  <2>2. UNCHANGED peer /\ (Answer(offer) \/ Answer(refusal))
    BY <1>4 DEF OfferAddress, RefuseLogin
  <2> HIDE DEF offer, refusal
  <2> QED BY <1>1, <2>1, <2>2, AnswerIInv DEF IInv
<1>5. CASE UNCHANGED down /\ peer' \in Peers /\ peer'.acked = peer.acked
  BY <1>1, <1>5 DEF IInv, AllHonest
<1>6. \/ Acknowledge(packet) \/ OfferAddress(packet) \/ RefuseLogin(packet)
      \/ UNCHANGED down /\ peer' = [peer EXCEPT !.got = peer.got \cup {packet.layer}]
      \/ UNCHANGED down /\ peer' = [peer EXCEPT !.bad = FALSE]
      \/ UNCHANGED <<down, peer>>
  BY DEF PeerHears, packet
<1>7. peer' = [peer EXCEPT !.got = peer.got \cup {packet.layer}] => peer' \in Peers /\ peer'.acked = peer.acked
  BY <1>2 DEF IInv, Peers
<1>8. peer' = [peer EXCEPT !.bad = FALSE] => peer' \in Peers /\ peer'.acked = peer.acked
  BY DEF IInv, Peers
<1> QED BY <1>3, <1>4, <1>5, <1>6, <1>7, <1>8 DEF IInv

LEMMA PeerSaysIInv ==
  ASSUME IInv, NEW layer \in Layers, NEW code \in {"req", "echoReq", "termReq"},
         NEW addr \in Addresses, PeerSays([layer |-> layer, code |-> code, id |-> 0, addr |-> addr])
  PROVE  IInv'
<1> DEFINE packet == [layer |-> layer, code |-> code, id |-> 0, addr |-> addr]
<1>1. packet \in Packet /\ Honest(packet, peer.acked)
  <2>1. 0 \in 0 .. IdMod - 1
    BY PppLinkAssumption
  <2> QED BY <2>1 DEF Packet, Codes, Honest
<1>2. Answer(packet) /\ UNCHANGED <<ppp, up, peer>>
  BY DEF PeerSays
<1> HIDE DEF packet
<1> QED BY <1>1, <1>2, AnswerIInv DEF IInv

(* Every step keeps the invariant.                                         *)
LEMMA NextIInv == IInv /\ [Next]_vars => IInv'
<1> SUFFICES ASSUME IInv, [Next]_vars
             PROVE  IInv'
  OBVIOUS
<1>1. CASE Dead
  <2>1. ppp' = [ppp EXCEPT !.phase = "waitOnline"] /\ UNCHANGED <<up, down, peer>>
    BY <1>1 DEF Dead
  <2> QED BY <2>1, PhaseIInv DEF IInv, AllHonest
<1>2. CASE WaitOnline
  BY <1>2, WaitOnlineIInv
<1>3. CASE TimerExpires
  <2>1. Good(Timer(ppp), peer.acked)
    BY <1>3, TimerGood DEF TimerExpires, MayExpire, IInv, Good, Running
  <2> QED BY <1>3, <2>1, TurnIInv DEF TimerExpires
<1>4. CASE PacketArrives
  <2>1. Good(ppp, peer.acked)
    BY <1>4 DEF PacketArrives, Turn, IInv, Good, Running
  <2> QED BY <1>4, <2>1, TurnIInv DEF PacketArrives
<1>5. CASE CarrierLost
  <2>1. Good(LcpDown(ppp), peer.acked)
    BY <1>5, DownGood DEF CarrierLost, Turn, IInv, Good, Running
  <2> QED BY <1>5, <2>1, TurnIInv DEF CarrierLost
<1>6. CASE LinkReset
  <2>1. ppp' = [ppp EXCEPT !.phase = "dead"] /\ UNCHANGED <<up, down, peer>>
    BY <1>6 DEF LinkReset
  <2> QED BY <2>1, PhaseIInv DEF IInv, AllHonest
<1>7. CASE StartAgain
  <2>1. ppp' = [ppp EXCEPT !.phase = "dead"] /\ UNCHANGED <<up, down, peer>>
    BY <1>7 DEF StartAgain
  <2> QED BY <2>1, PhaseIInv DEF IInv, AllHonest
<1>8. CASE NoCarrier
  BY <1>8 DEF NoCarrier, IInv, AllHonest
<1>9. CASE Dial
  <2>1. ppp' = [ppp EXCEPT !.phase = "dead"] /\ up' = <<>> /\ down' = <<>>
    BY <1>9 DEF Dial
  <2>2. peer' \in Peers
    BY <1>9, PppLinkAssumption DEF Dial, Fresh, Peers
  <2> QED BY <2>1, <2>2, PhaseIInv DEF IInv, AllHonest
<1>10. CASE PeerHears
  BY <1>10, PeerHearsIInv
<1>11. CASE PeerAsks
  <2>1. PICK layer \in {"lcp", "ipcp"} :
          PeerSays([layer |-> layer, code |-> "req", id |-> 0,
                    addr |-> IF layer = "ipcp" THEN "peer" ELSE "none"])
    BY <1>11 DEF PeerAsks
  <2>2. layer \in Layers /\ (IF layer = "ipcp" THEN "peer" ELSE "none") \in Addresses
    BY DEF Layers, Addresses
  <2> QED BY <2>1, <2>2, PeerSaysIInv
<1>12. CASE PeerProbes \/ PeerEnds
  <2>1. "lcp" \in Layers /\ "none" \in Addresses
    BY DEF Layers, Addresses
  <2> QED BY <1>12, <2>1, PeerSaysIInv DEF PeerProbes, PeerEnds
<1>13. CASE LoseUp
  BY <1>13 DEF LoseUp, IInv, AllHonest
<1>14. CASE LoseDown
  BY <1>14 DEF LoseDown, IInv, AllHonest
<1>15. CASE UNCHANGED vars
  BY <1>15 DEF vars, IInv, AllHonest
<1> QED BY <1>1, <1>2, <1>3, <1>4, <1>5, <1>6, <1>7, <1>8, <1>9, <1>10, <1>11, <1>12, <1>13, <1>14,
           <1>15 DEF Next, Tracker, Outside
-----------------------------------------------------------------------------
(* The globals keep their types, the layers rest, negotiate and open in    *)
(* order, what the tracker takes for agreed the peer has acknowledged, and *)
(* what it has answered itself, in every reachable state.                                               *)
THEOREM PppInvariant == Spec => []IInv
BY InitIInv, NextIInv, PTL DEF Spec

(* While a layer is negotiated the restart counter, one byte that every    *)
(* layer's requests decrement, never passes below zero.                    *)
THEOREM PppCountNeverWraps == Spec => []CountNeverWraps
<1>1. IInv => CountNeverWraps
  BY DEF IInv, Sound, Counted, CountNeverWraps
<1> QED BY <1>1, PppInvariant, PTL

(* A layer is negotiated only over layers that are open, and the link is   *)
(* up only when all three are.                                             *)
THEOREM PppLayersInOrder == Spec => []LayersInOrder
<1>1. IInv => LayersInOrder
  BY DEF IInv, Sound, InPhase, LayersInOrder, InNegotiation
<1> QED BY <1>1, PppInvariant, PTL

(* A link that is up is one whose every layer the peer acknowledged on     *)
(* this connection, and whose peer the tracker acknowledged, whatever was  *)
(* lost or repeated on the way.                                            *)
THEOREM PppLinkedIsAgreed == Spec => []LinkedIsAgreed
<1>1. IInv => LinkedIsAgreed
  BY DEF IInv, Sound, InPhase, Agreed, Agrees, Answered, Answering, Layers, Running, LinkedIsAgreed
<1> QED BY <1>1, PppInvariant, PTL
=============================================================================
