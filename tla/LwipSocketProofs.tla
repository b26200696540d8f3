-------------------------- MODULE LwipSocketProofs --------------------------
(***************************************************************************)
(* The safety of sockets for every number of sockets, pcbs, interfaces and *)
(* bytes: SocketInv is inductive, and PointersMatch, StreamExact, EofIsEnd *)
(* and FaultsKnown follow from it.                                         *)
(***************************************************************************)
EXTENDS LwipSocket, TLAPS

USE LwipSocketAssumption

Buffers == [from : Nat \cup Source, len : Nat]
Sockets ==
  [type : {"none", "tcp", "udp"}, pcb : Pcb \cup {NULL},
   state : {"new", "connecting", "connected", "peer_closed", "error", "badf"},
   pbuf : Buffers \cup {NULL}, connection : Pcb \cup {NULL}, leftover : Nat,
   peer : Source \cup {NULL}, timeout : Timeout \cup {None}, got : Nat, eof : BOOLEAN]
Pcbs ==
  [st : {"free", "closed", "syn", "estab", "listen", "closing"}, arg : Sock \cup {NULL},
   err : BOOLEAN, recv : {"none", "udp", "socket", "unaccepted"}, refused : Buffers \cup {NULL},
   fin : BOOLEAN, wnd : Int, snd : Int, sent : Nat, ended : BOOLEAN, lost : BOOLEAN]

SocketTypeOK == /\ sock \in [Sock -> Sockets] /\ pcb \in [Pcb -> Pcbs]
                /\ resetWaiting \in BOOLEAN

(* A socket s, with object o, has the pcb q that calls back to it, with the*)
(* callbacks of its kind; a socket without one has an error or was closed. *)
Own(s, o, q) ==
  /\ o.type = "none" => o.pcb = NULL
  /\ o.pcb = NULL => /\ o.connection = NULL /\ o.pbuf = NULL
                     /\ o.type # "none" => o.state \in {"error", "badf", "peer_closed"}
  /\ o.pcb # NULL =>
       /\ q.arg = s /\ o.state \notin {"error", "badf"} /\ q.st \notin {"free", "closing"}
       /\ o.type = "udp" => /\ q.st = "closed" /\ q.recv = "udp" /\ o.connection = NULL
                            /\ o.pbuf # NULL => o.peer = o.pbuf.from
       /\ o.type = "tcp" =>
            /\ q.st = "estab" <=> o.state \in {"connected", "peer_closed"}
            /\ q.st = "syn" <=> o.state = "connecting"
            /\ q.st # "listen" => q.err
            /\ q.st \in {"syn", "estab"} => q.recv = "socket"
            /\ q.st \in {"closed", "listen"} => q.recv = "none"
OwnInv == \A s \in Sock : Own(s, sock[s], pcb[sock[s].pcb])

(* A connection that waits to be accepted. *)
Waiting(q) == q.st = "estab" /\ ~q.err /\ q.recv = "unaccepted"

(* A listener's slot has a connection that waits, or what a reset left.    *)
SlotInv ==
  \A s \in Sock : sock[s].connection # NULL =>
    /\ Owned(s, "listen") /\ sock[s].type = "tcp"
    /\ IF SlotGone(s) THEN resetWaiting ELSE Waiting(pcb[sock[s].connection])

(* Every pcb belongs to a socket, waits in a slot, is being closed with    *)
(* the callbacks it had, or is free.                                       *)
PcbInv ==
  \A p \in Pcb :
    LET q == pcb[p]
    IN  IF q.st = "free" THEN q.arg = NULL /\ q.recv = "none"
        ELSE /\ q.arg \in Sock
             /\ IF q.st = "closing" THEN q.recv = "socket" /\ q.err /\ sock[q.arg].pcb = NULL
                ELSE sock[q.arg].pcb = p \/ sock[q.arg].connection = p

(* What lwIP keeps for a pcb. *)
KeptFor(q) ==
  /\ q.refused # NULL => q.refused.from \in Nat /\ q.refused.len > 0 /\ q.st = "estab"
  /\ q.refused # NULL /\ q.fin => q.ended
  /\ q.st \in {"syn", "closed", "listen"} => q.sent = 0 /\ q.wnd = WND /\ ~q.ended
  /\ q.st = "estab" /\ q.recv = "unaccepted" =>
       /\ q.wnd + q.sent = WND
       /\ q.sent = IF q.refused = NULL THEN 0 ELSE q.refused.len
       /\ q.refused # NULL => q.refused.from = 0
KeptInv == \A p \in Pcb : KeptFor(pcb[p])

(* What of the buffer of an object is left, and what is kept behind it.    *)
LeftOf(o) == IF o.leftover = 0 THEN o.pbuf.len ELSE o.leftover
HeldBy(o) == IF o.pbuf = NULL THEN 0 ELSE LeftOf(o)
Refused(q) == IF q.refused = NULL THEN 0 ELSE q.refused.len

(* What has arrived on a stream: read, held by the socket or kept by lwIP; *)
(* and how far the socket knows of its end.                                *)
Arrived(o, q) ==
  o.pcb # NULL /\ o.type = "tcp" =>
    /\ q.st # "estab" => o.pbuf = NULL /\ o.got = 0 /\ ~o.eof
    /\ o.pbuf = NULL => o.leftover = 0
    /\ o.pbuf # NULL => /\ o.pbuf.from \in Nat /\ o.pbuf.len > 0 /\ o.leftover < o.pbuf.len
                        /\ o.got = o.pbuf.from + (o.pbuf.len - LeftOf(o))
    /\ q.refused # NULL => q.refused.from = o.got + HeldBy(o)
    /\ q.sent = o.got + HeldBy(o) + Refused(q)
    /\ q.wnd + (q.sent - o.got) = WND
    /\ o.state = "peer_closed" => q.ended /\ q.refused = NULL
    /\ o.eof => o.state = "peer_closed" /\ o.pbuf = NULL
ArrivedInv == \A s \in Sock : Arrived(sock[s], pcb[sock[s].pcb])

(* A call waits on a socket of its kind.                                   *)
CallInv ==
  call # Idle /\ call.op # "dns" =>
    /\ call.sock \in Sock
    /\ sock[call.sock].pcb # NULL => call.n \in Int
    /\ call.op = "recvfrom" => sock[call.sock].type = "udp"
    /\ call.op # "recvfrom" => sock[call.sock].type = "tcp"
    /\ call.op = "accept" => Owned(call.sock, "listen")
    /\ call.op \in {"recv", "send", "sendall"} => sock[call.sock].state # "new"
    /\ call.op = "recv" => sock[call.sock].state # "connecting"
    /\ call.op = "recv" /\ sock[call.sock].pcb # NULL => call.n > 0

SocketInv ==
  /\ SocketTypeOK /\ OwnInv /\ SlotInv /\ PcbInv /\ KeptInv /\ ArrivedInv /\ CallInv

-----------------------------------------------------------------------------
(* A step on a socket that keeps its pcb, and on that pcb.                 *)
LEMMA OwnStep ==
  ASSUME SocketInv, NEW a \in Sock, NEW p \in Pcb, NEW o \in Sockets, NEW q \in Pcbs,
         sock[a].pcb = p, o.pcb = p, o.type = sock[a].type, o.connection = sock[a].connection,
         pcb[p].st = "listen" => q.st = "listen",
         Own(a, o, q), KeptFor(q), Arrived(o, q),
         sock' = [sock EXCEPT ![a] = o], pcb' = [pcb EXCEPT ![p] = q], resetWaiting' = resetWaiting,
         CallInv' \/ /\ call' = call
                     /\ o.state = sock[a].state \/ o.state \in {"connected", "peer_closed"}
  PROVE  SocketInv'
<1>1. SocketTypeOK'
  BY DEF SocketInv, SocketTypeOK
<1>2. OwnInv'
  BY DEF SocketInv, SocketTypeOK, OwnInv, Own
<1>3. SlotInv'
  BY DEF SocketInv, SocketTypeOK, OwnInv, Own, SlotInv, SlotGone, Owned, Waiting
<1>4. PcbInv'
  BY DEF SocketInv, SocketTypeOK, OwnInv, Own, PcbInv
<1>5. KeptInv'
  BY DEF SocketInv, SocketTypeOK, KeptInv
<1>6. ArrivedInv'
  <2>1. \A s \in Sock : s # a /\ sock[s].pcb # NULL => sock[s].pcb # p /\ sock[s].pcb \in Pcb
    BY DEF SocketInv, SocketTypeOK, Sockets, OwnInv, Own
  <2>2. \A s \in Sock \ {a} : Arrived(sock'[s], pcb'[sock'[s].pcb])
    <3> TAKE s \in Sock \ {a}
    <3>1. sock'[s] = sock[s]
      BY DEF SocketInv, SocketTypeOK
    <3>2. CASE sock[s].pcb = NULL
      BY <3>1, <3>2 DEF Arrived
    <3>3. CASE sock[s].pcb # NULL
      <4>1. pcb'[sock[s].pcb] = pcb[sock[s].pcb]
        BY <2>1, <3>3 DEF SocketInv, SocketTypeOK
      <4>2. QED
        BY <3>1, <4>1 DEF SocketInv, ArrivedInv
    <3>4. QED
      BY <3>2, <3>3
  <2>3. sock'[a] = o /\ pcb'[p] = q
    BY DEF SocketInv, SocketTypeOK
  <2>4. QED
    BY <2>2, <2>3 DEF ArrivedInv
<1>7. CallInv'
  BY DEF SocketInv, SocketTypeOK, OwnInv, Own, CallInv, Owned
<1>8. QED
  BY <1>1, <1>2, <1>3, <1>4, <1>5, <1>6, <1>7 DEF SocketInv

(* A step on a socket without pcb; a pcb that is being closed may go.      *)
LEMMA DeadStep ==
  ASSUME SocketInv, NEW a \in Sock, NEW o \in Sockets,
         sock[a].pcb = NULL, o.pcb = NULL, o.connection = NULL, o.pbuf = NULL, o.type = sock[a].type,
         o.type # "none" => o.state \in {"error", "badf", "peer_closed"},
         sock' = [sock EXCEPT ![a] = o],
         \/ pcb' = pcb
         \/ \E p \in Pcb : pcb[p].st = "closing" /\ pcb' = [pcb EXCEPT ![p] = FreePcb],
         resetWaiting' = resetWaiting, call' = call \/ call' = Idle
  PROVE  SocketInv'
<1>1. FreePcb \in Pcbs /\ KeptFor(FreePcb)
  BY DEF FreePcb, Pcbs, KeptFor
<1>2. SocketTypeOK'
  BY <1>1 DEF SocketInv, SocketTypeOK
<1>3. \A s \in Sock : sock[s].pcb # NULL => /\ sock[s].pcb \in Pcb /\ pcb'[sock[s].pcb] = pcb[sock[s].pcb]
                                            /\ s # a
  BY DEF SocketInv, SocketTypeOK, Sockets, OwnInv, Own
<1>4. OwnInv'
  BY <1>3 DEF SocketInv, SocketTypeOK, OwnInv, Own
<1>5. SlotInv'
  <2> SUFFICES ASSUME NEW s \in Sock, sock'[s].connection # NULL
               PROVE  /\ Owned(s, "listen")' /\ sock'[s].type = "tcp"
                      /\ IF SlotGone(s)' THEN resetWaiting' ELSE Waiting(pcb[sock[s].connection])'
    BY DEF SlotInv
  <2>1. sock'[s] = sock[s] /\ sock[s].pcb # NULL /\ sock[s].connection \in Pcb
    BY DEF SocketInv, SocketTypeOK, Sockets, OwnInv, Own
  <2>2. Owned(s, "listen")' /\ sock'[s].type = "tcp"
    BY <1>3, <2>1 DEF SocketInv, SlotInv, Owned
  <2>3. CASE SlotGone(s)
    <3>1. resetWaiting'
      BY <2>1, <2>3 DEF SocketInv, SlotInv
    <3>2. SlotGone(s)'
      BY <2>1, <2>3 DEF SocketInv, SocketTypeOK, SlotGone, FreePcb
    <3>3. QED
      BY <2>2, <3>1, <3>2
  <2>4. CASE ~SlotGone(s)
    <3>1. Waiting(pcb[sock[s].connection])
      BY <2>1, <2>4 DEF SocketInv, SlotInv
    <3>2. pcb'[sock[s].connection] = pcb[sock[s].connection]
      BY <2>1, <3>1 DEF SocketInv, SocketTypeOK, Waiting
    <3>3. QED
      BY <2>1, <2>2, <2>4, <3>1, <3>2 DEF SlotGone
  <2>5. QED
    BY <2>3, <2>4
<1>6. PcbInv'
  BY DEF SocketInv, SocketTypeOK, OwnInv, Own, PcbInv, FreePcb
<1>7. KeptInv'
  BY <1>1 DEF SocketInv, SocketTypeOK, KeptInv
<1>8. ArrivedInv'
  <2>1. \A s \in Sock : sock'[s].pcb # NULL => sock'[s] = sock[s]
    BY DEF SocketInv, SocketTypeOK
  <2>2. QED
    BY <1>3, <2>1 DEF SocketInv, ArrivedInv, Arrived
<1>9. CallInv'
  BY <1>3 DEF SocketInv, SocketTypeOK, CallInv, Owned, OwnInv, Own
<1>10. QED
  BY <1>2, <1>4, <1>5, <1>6, <1>7, <1>8, <1>9 DEF SocketInv

(* A step on a connection that waits in the slot of a listener a.          *)
LEMMA WaitStep ==
  ASSUME SocketInv, NEW a \in Sock, NEW p \in Pcb, NEW q \in Pcbs,
         sock[a].connection = p, pcb[p].st # "free", pcb[p].arg = a,
         \/ q.arg = a /\ Waiting(q) /\ resetWaiting' = resetWaiting
         \/ q = FreePcb /\ resetWaiting' = TRUE,
         KeptFor(q), pcb' = [pcb EXCEPT ![p] = q], UNCHANGED <<sock, call>>
  PROVE  SocketInv'
<1>1. \A s \in Sock : sock[s].pcb # NULL => sock[s].pcb \in Pcb /\ pcb'[sock[s].pcb] = pcb[sock[s].pcb]
  BY DEF SocketInv, SocketTypeOK, Sockets, OwnInv, Own, SlotInv, SlotGone, Owned, Waiting
<1>2. SocketTypeOK'
  BY DEF SocketInv, SocketTypeOK
<1>3. OwnInv'
  BY <1>1 DEF SocketInv, SocketTypeOK, OwnInv, Own
<1>4. SlotInv'
  BY <1>1 DEF SocketInv, SocketTypeOK, OwnInv, Own, SlotInv, SlotGone, Owned, Waiting, FreePcb
<1>5. PcbInv'
  BY DEF SocketInv, SocketTypeOK, PcbInv, FreePcb, Waiting
<1>6. KeptInv'
  BY DEF SocketInv, SocketTypeOK, KeptInv
<1>7. ArrivedInv'
  BY <1>1 DEF SocketInv, SocketTypeOK, ArrivedInv, Arrived
<1>8. CallInv'
  BY <1>1 DEF SocketInv, SocketTypeOK, CallInv, Owned
<1>9. QED
  BY <1>2, <1>3, <1>4, <1>5, <1>6, <1>7, <1>8 DEF SocketInv

(* A socket goes, with its pcb and the connection in its slot.             *)
LEMMA CloseStep ==
  ASSUME SocketInv, NEW a \in Sock, NEW o \in Sockets, ~SlotGone(a),
         o.type \in {"none", sock[a].type}, o.pcb = NULL, o.connection = NULL, o.pbuf = NULL,
         o.type # "none" => o.state \in {"error", "badf", "peer_closed"},
         sock' = [sock EXCEPT ![a] = o],
         pcb' = [p \in Pcb |-> IF p = sock[a].pcb THEN Closing(pcb[p])
                               ELSE IF p = sock[a].connection THEN FreePcb ELSE pcb[p]],
         resetWaiting' = resetWaiting, call' = Idle
  PROVE  SocketInv'
<1>1. FreePcb \in Pcbs /\ KeptFor(FreePcb)
  BY DEF FreePcb, Pcbs, KeptFor
<1>2. \A p \in Pcb : LET q == Closing(pcb[p])
                     IN  /\ q \in Pcbs
                         /\ q = FreePcb \/ /\ pcb[p].st = "estab" /\ q.st = "closing" /\ q.arg = pcb[p].arg
                                           /\ q.err = pcb[p].err /\ q.recv = pcb[p].recv /\ q.refused = NULL
  <2> SUFFICES ASSUME NEW p \in Pcb, pcb[p].st = "estab"
               PROVE  LET q == Closing(pcb[p])
                      IN  /\ q \in Pcbs /\ q.st = "closing" /\ q.arg = pcb[p].arg
                          /\ q.err = pcb[p].err /\ q.recv = pcb[p].recv /\ q.refused = NULL
    BY <1>1 DEF Closing
  <2> DEFINE x == [pcb[p] EXCEPT !.st = "closing"]
  <2>1. pcb[p] \in Pcbs
    BY DEF SocketInv, SocketTypeOK
  <2>2. /\ x \in Pcbs /\ x.st = "closing" /\ x.arg = pcb[p].arg
        /\ x.err = pcb[p].err /\ x.recv = pcb[p].recv
    BY <2>1 DEF Pcbs
  <2>3. Closing(pcb[p]) = [x EXCEPT !.refused = NULL]
    BY <2>1 DEF Closing, Pcbs
  <2> HIDE DEF x
  <2>4. QED
    BY <2>2, <2>3 DEF Pcbs
<1>3. SocketTypeOK'
  BY <1>1, <1>2 DEF SocketInv, SocketTypeOK
<1>4. \A s \in Sock : s # a /\ sock[s].pcb # NULL =>
                        /\ sock[s].pcb \in Pcb /\ pcb'[sock[s].pcb] = pcb[sock[s].pcb]
                        /\ sock'[s] = sock[s]
  BY DEF SocketInv, SocketTypeOK, Sockets, OwnInv, Own, SlotInv, SlotGone, Waiting, Owned
<1>5. OwnInv'
  BY <1>4, SMTT(30) DEF SocketInv, SocketTypeOK, OwnInv, Own
<1>6. SlotInv'
  <2> SUFFICES ASSUME NEW s \in Sock, sock'[s].connection # NULL
               PROVE  /\ Owned(s, "listen")' /\ sock'[s].type = "tcp"
                      /\ IF SlotGone(s)' THEN resetWaiting' ELSE Waiting(pcb[sock[s].connection])'
    BY DEF SlotInv
  <2>1. s # a /\ sock'[s] = sock[s] /\ sock[s].pcb # NULL /\ sock[s].connection \in Pcb
    BY DEF SocketInv, SocketTypeOK, Sockets, OwnInv, Own
  <2>2. Owned(s, "listen")' /\ sock'[s].type = "tcp"
    BY <1>4, <2>1 DEF SocketInv, SlotInv, Owned
  <2> DEFINE c == sock[s].connection
  <2>3. pcb'[c].st = "free" \/ pcb'[c].arg = pcb[c].arg
    BY <1>2, <2>1 DEF SocketInv, SocketTypeOK, FreePcb
  <2>4. CASE SlotGone(s)
    BY <2>1, <2>2, <2>3, <2>4, <1>2 DEF SocketInv, SlotInv, SlotGone, FreePcb
  <2>5. CASE ~SlotGone(s)
    <3>1. Waiting(pcb[c]) /\ pcb[c].arg = s
      BY <2>1, <2>5 DEF SocketInv, SlotInv, SlotGone
    <3>2. c # sock[a].pcb /\ c # sock[a].connection
      BY <2>1, <3>1 DEF SocketInv, SlotInv, OwnInv, Own, SlotGone
    <3>3. pcb'[c] = pcb[c]
      BY <2>1, <3>2
    <3>4. QED
      BY <2>1, <2>2, <2>5, <3>1, <3>3 DEF SlotGone
  <2>6. QED
    BY <2>4, <2>5
<1>7. PcbInv'
  <2> SUFFICES ASSUME NEW p \in Pcb
               PROVE  IF pcb'[p].st = "free" THEN pcb'[p].arg = NULL /\ pcb'[p].recv = "none"
                      ELSE /\ pcb'[p].arg \in Sock
                           /\ IF pcb'[p].st = "closing"
                              THEN pcb'[p].recv = "socket" /\ pcb'[p].err /\ sock'[pcb'[p].arg].pcb = NULL
                              ELSE sock'[pcb'[p].arg].pcb = p \/ sock'[pcb'[p].arg].connection = p
    BY DEF PcbInv
  <2>1. CASE pcb'[p] = FreePcb
    BY <2>1 DEF FreePcb
  <2>2. CASE p = sock[a].pcb /\ pcb'[p] # FreePcb
    <3>1. pcb'[p] = Closing(pcb[p]) /\ sock'[a].pcb = NULL
      BY <2>2 DEF SocketInv, SocketTypeOK
    <3>2. /\ pcb[p].st = "estab" /\ pcb'[p].st = "closing" /\ pcb'[p].arg = pcb[p].arg
          /\ pcb'[p].err = pcb[p].err /\ pcb'[p].recv = pcb[p].recv
      BY <1>2, <2>2, <3>1
    <3>3. pcb[p].arg = a /\ sock[a].type \in {"tcp", "udp", "none"} /\ p # NULL
      BY <2>2 DEF SocketInv, SocketTypeOK, Sockets, OwnInv, Own
    <3>4. pcb[p].err /\ pcb[p].recv = "socket"
      BY <2>2, <3>2, <3>3 DEF SocketInv, OwnInv, Own
    <3>5. QED
      BY <3>1, <3>2, <3>3, <3>4
  <2>3. CASE p # sock[a].pcb /\ pcb'[p] # FreePcb
    <3>1. pcb'[p] = pcb[p] /\ p # sock[a].connection
      BY <2>3
    <3>2. \A s \in Sock : sock'[s] = IF s = a THEN o ELSE sock[s]
      BY DEF SocketInv, SocketTypeOK
    <3>3. QED
      BY <2>3, <3>1, <3>2 DEF SocketInv, PcbInv
  <2>4. QED
    BY <2>1, <2>2, <2>3
<1>8. KeptInv'
  BY <1>1, <1>2 DEF SocketInv, SocketTypeOK, KeptInv, KeptFor
<1>9. ArrivedInv'
  <2>1. sock'[a].pcb = NULL
    BY DEF SocketInv, SocketTypeOK
  <2>2. \A s \in Sock : sock'[s].pcb # NULL => /\ sock'[s] = sock[s] /\ pcb'[sock[s].pcb] = pcb[sock[s].pcb]
    BY <1>4, <2>1 DEF SocketInv, SocketTypeOK
  <2>3. \A s \in Sock : Arrived(sock'[s], pcb'[sock'[s].pcb])
    <3> TAKE s \in Sock
    <3>1. CASE sock'[s].pcb = NULL
      BY <3>1 DEF Arrived
    <3>2. CASE sock'[s].pcb # NULL
      BY <2>2, <3>2 DEF SocketInv, ArrivedInv
    <3>3. QED
      BY <3>1, <3>2
  <2>4. QED
    BY <2>3 DEF ArrivedInv
<1>10. CallInv'
  BY DEF CallInv
<1>11. QED
  BY <1>3, <1>5, <1>6, <1>7, <1>8, <1>9, <1>10 DEF SocketInv

(* Nothing is open.                                                        *)
LEMMA ClearedRecords == /\ FreePcb \in Pcbs /\ KeptFor(FreePcb) /\ FreePcb.st = "free"
                        /\ FreePcb.arg = NULL /\ FreePcb.recv = "none"
                        /\ NoSock \in Sockets /\ NoSock.type = "none" /\ NoSock.pcb = NULL
                        /\ NoSock.connection = NULL /\ NoSock.pbuf = NULL
  BY DEF FreePcb, Pcbs, KeptFor, NoSock, Sockets

LEMMA InitSocketInv == Init => SocketInv
<1> SUFFICES ASSUME Init PROVE SocketInv
  OBVIOUS
<1>1. sock = [s \in Sock |-> NoSock] /\ pcb = [p \in Pcb |-> FreePcb] /\ call = Idle /\ resetWaiting = FALSE
  BY DEF Init
<1>2. SocketTypeOK /\ OwnInv /\ SlotInv /\ PcbInv /\ KeptInv
  BY <1>1, ClearedRecords DEF SocketTypeOK, OwnInv, Own, SlotInv, PcbInv, KeptInv
<1>3. ArrivedInv /\ CallInv
  BY <1>1, ClearedRecords DEF ArrivedInv, Arrived, CallInv
<1>4. QED
  BY <1>2, <1>3 DEF SocketInv

LEMMA FaultInv == ASSUME NEW f, Fault(f) PROVE SocketInv'
<1>1. /\ sock' = [s \in Sock |-> NoSock] /\ pcb' = [p \in Pcb |-> FreePcb]
      /\ call' = Idle /\ resetWaiting' = FALSE
  BY DEF Fault
<1>2. SocketTypeOK' /\ OwnInv' /\ SlotInv' /\ PcbInv' /\ KeptInv'
  BY <1>1, ClearedRecords DEF SocketTypeOK, OwnInv, Own, SlotInv, PcbInv, KeptInv
<1>3. ArrivedInv' /\ CallInv'
  BY <1>1, ClearedRecords DEF ArrivedInv, Arrived, CallInv
<1>4. QED
  BY <1>2, <1>3 DEF SocketInv

(* A new socket a, whose place no pcb refers to, takes a pcb p: a free one,*)
(* or the connection that waited in the slot of the listener b.            *)
LEMMA NewStep ==
  ASSUME SocketInv, NEW a \in Sock, NEW p \in Pcb, NEW o \in Sockets, NEW q \in Pcbs,
         sock[a].type = "none", \A x \in Pcb : pcb[x].arg # a,
         o.type \in {"tcp", "udp"}, o.pcb = p, o.connection = NULL, q.arg = a, q.st # "listen",
         Own(a, o, q), KeptFor(q), Arrived(o, q),
         pcb' = [pcb EXCEPT ![p] = q], resetWaiting' = resetWaiting, call' = Idle,
         \/ pcb[p].st = "free" /\ sock' = [sock EXCEPT ![a] = o]
         \/ \E b \in Sock : /\ sock[b].connection = p /\ ~SlotGone(b)
                            /\ sock' = [sock EXCEPT ![b].connection = NULL, ![a] = o]
  PROVE  SocketInv'
<1>1. \A s \in Sock \ {a} : /\ sock'[s] \in Sockets /\ sock'[s].pcb = sock[s].pcb
                            /\ sock'[s].type = sock[s].type /\ sock'[s].state = sock[s].state
                            /\ sock'[s].pbuf = sock[s].pbuf /\ sock'[s].peer = sock[s].peer
                            /\ sock'[s].got = sock[s].got /\ sock'[s].leftover = sock[s].leftover
                            /\ sock'[s].eof = sock[s].eof
                            /\ sock'[s].connection \in {sock[s].connection, NULL}
                            /\ sock[s].connection = p /\ ~SlotGone(s) => sock'[s].connection = NULL
  <2>1. CASE pcb[p].st = "free" /\ sock' = [sock EXCEPT ![a] = o]
    BY <2>1 DEF SocketInv, SocketTypeOK, Sockets, SlotGone
  <2>2. ASSUME NEW b \in Sock, sock[b].connection = p, ~SlotGone(b),
               sock' = [sock EXCEPT ![b].connection = NULL, ![a] = o]
        PROVE  \A s \in Sock \ {a} : sock'[s] = IF s = b THEN [sock[b] EXCEPT !.connection = NULL] ELSE sock[s]
    BY <2>2 DEF SocketInv, SocketTypeOK
  <2>3. ASSUME NEW b \in Sock, sock[b].connection = p, ~SlotGone(b),
               sock' = [sock EXCEPT ![b].connection = NULL, ![a] = o], NEW s \in Sock \ {a}, s # b,
               sock[s].connection = p
        PROVE  SlotGone(s)
    BY <2>3 DEF SlotGone
  <2>4. QED
    BY <2>1, <2>2, <2>3 DEF SocketInv, SocketTypeOK, Sockets
<1>2. sock'[a] = o /\ sock' \in [Sock -> Sockets]
  BY <1>1 DEF SocketInv, SocketTypeOK
<1>3. pcb' \in [Pcb -> Pcbs] /\ pcb'[p] = q /\ \A x \in Pcb \ {p} : pcb'[x] = pcb[x]
  BY DEF SocketInv, SocketTypeOK
<1>4. \A s \in Sock \ {a} : sock[s].pcb # NULL => sock[s].pcb # p /\ sock[s].pcb \in Pcb
  BY DEF SocketInv, SocketTypeOK, Sockets, OwnInv, Own, SlotInv, SlotGone, Owned, Waiting
<1>5. SocketTypeOK'
  BY <1>2, <1>3 DEF SocketInv, SocketTypeOK
<1>6. OwnInv'
  BY <1>1, <1>2, <1>3, <1>4 DEF SocketInv, OwnInv, Own
<1>7. SlotInv'
  <2> SUFFICES ASSUME NEW s \in Sock, sock'[s].connection # NULL
               PROVE  /\ Owned(s, "listen")' /\ sock'[s].type = "tcp"
                      /\ IF SlotGone(s)' THEN resetWaiting' ELSE Waiting(pcb'[sock'[s].connection])
    BY DEF SlotInv
  <2>1. s # a /\ sock'[s].connection = sock[s].connection
    BY <1>1, <1>2
  <2>2. Owned(s, "listen")' /\ sock'[s].type = "tcp"
    BY <1>1, <1>3, <1>4, <2>1 DEF SocketInv, SlotInv, Owned
  <2>3. sock[s].connection \in Pcb
    BY <2>1 DEF SocketInv, SocketTypeOK, Sockets
  <2>4. CASE sock[s].connection = p
    <3>1. SlotGone(s)
      BY <1>1, <2>1, <2>4
    <3>2. resetWaiting'
      BY <2>1, <3>1 DEF SocketInv, SlotInv
    <3>3. SlotGone(s)'
      BY <1>3, <2>1, <2>4 DEF SlotGone
    <3>4. QED
      BY <2>2, <3>2, <3>3
  <2>5. CASE sock[s].connection # p
    BY <1>3, <2>1, <2>2, <2>3, <2>5 DEF SocketInv, SlotInv, SlotGone
  <2>6. QED
    BY <2>4, <2>5
<1>8. PcbInv'
  BY <1>1, <1>2, <1>3 DEF SocketInv, SocketTypeOK, OwnInv, Own, PcbInv
<1>9. KeptInv'
  BY <1>3 DEF SocketInv, KeptInv
<1>10. ArrivedInv'
  <2>1. \A s \in Sock \ {a} : Arrived(sock'[s], pcb'[sock'[s].pcb])
    BY <1>1, <1>3, <1>4 DEF SocketInv, ArrivedInv, Arrived, LeftOf, HeldBy
  <2>2. QED
    BY <1>2, <1>3, <2>1 DEF ArrivedInv
<1>11. CallInv'
  BY DEF CallInv
<1>12. QED
  BY <1>5, <1>6, <1>7, <1>8, <1>9, <1>10, <1>11 DEF SocketInv

(* A connection arrives at a listener whose slot is free.                  *)
LEMMA SynArrivesInv == ASSUME SocketInv, NEW l \in Pcb, NEW p \in Pcb, SynArrives(l, p) PROVE SocketInv'
<1>0. PICK a \in Sock : a = pcb[l].arg
  BY DEF SynArrives, SocketInv, PcbInv
<1> DEFINE o == [sock[a] EXCEPT !.connection = p]
           q == [FreePcb EXCEPT !.st = "estab", !.arg = a, !.recv = "unaccepted"]
<1>1. /\ pcb[l].st = "listen" /\ pcb[p].st = "free" /\ sock[a].connection = NULL
      /\ sock[a].pcb = l /\ l # NULL /\ p # NULL /\ l # p
  BY <1>0 DEF SynArrives, SocketInv, PcbInv, SlotInv, Owned
<1>2. sock[a].type = "tcp"
  BY <1>1 DEF SocketInv, SocketTypeOK, Sockets, OwnInv, Own
<1>3. /\ q \in Pcbs /\ q.arg = a /\ Waiting(q) /\ KeptFor(q)
  <2> DEFINE x == [FreePcb EXCEPT !.st = "estab"]
             y == [x EXCEPT !.arg = a]
  <2>1. /\ x \in Pcbs /\ x.st = "estab" /\ ~x.err /\ x.refused = NULL /\ x.wnd = WND /\ x.sent = 0
    BY ClearedRecords DEF FreePcb, Pcbs
  <2>2. q = [y EXCEPT !.recv = "unaccepted"]
    BY ClearedRecords DEF Pcbs
  <2> HIDE DEF x, q
  <2>3. /\ y \in Pcbs /\ y.st = "estab" /\ ~y.err /\ y.refused = NULL /\ y.wnd = WND /\ y.sent = 0 /\ y.arg = a
    BY <2>1 DEF Pcbs
  <2> HIDE DEF y
  <2>4. /\ q \in Pcbs /\ q.st = "estab" /\ ~q.err /\ q.refused = NULL /\ q.wnd = WND /\ q.sent = 0 /\ q.arg = a
        /\ q.recv = "unaccepted"
    BY <2>2, <2>3 DEF Pcbs
  <2>5. QED
    BY <2>4 DEF Waiting, KeptFor
<1>4. /\ o \in Sockets /\ o.connection = p /\ o.pcb = l /\ o.type = "tcp" /\ o.state = sock[a].state
      /\ o.pbuf = sock[a].pbuf /\ o.leftover = sock[a].leftover /\ o.got = sock[a].got /\ o.eof = sock[a].eof
  BY <1>1, <1>2 DEF SocketInv, SocketTypeOK, Sockets
<1>5. /\ sock' = [sock EXCEPT ![a] = o] /\ pcb' = [pcb EXCEPT ![p] = q]
      /\ call' = call /\ resetWaiting' = resetWaiting
  BY <1>0 DEF SynArrives, Kept
<1> HIDE DEF o, q
<1>6. sock'[a] = o /\ \A s \in Sock \ {a} : sock'[s] = sock[s]
  BY <1>1, <1>5 DEF SocketInv, SocketTypeOK
<1>7. pcb'[p] = q /\ \A x \in Pcb \ {p} : pcb'[x] = pcb[x]
  BY <1>5 DEF SocketInv, SocketTypeOK
<1>8. SocketTypeOK'
  BY <1>3, <1>4, <1>5 DEF SocketInv, SocketTypeOK
<1>9. \A s \in Sock : sock[s].pcb # NULL => sock[s].pcb \in Pcb /\ sock[s].pcb # p
  BY <1>1 DEF SocketInv, SocketTypeOK, Sockets, OwnInv, Own
<1>10. OwnInv'
  BY <1>1, <1>2, <1>4, <1>6, <1>7, <1>9 DEF SocketInv, OwnInv, Own
<1>11. SlotInv'
  <2>1. \A s \in Sock : sock[s].connection # NULL => sock[s].connection \in Pcb
    BY DEF SocketInv, SocketTypeOK, Sockets
  <2>2. \A s \in Sock \ {a} : sock[s].connection # NULL =>
          /\ Owned(s, "listen")' /\ sock[s].type = "tcp"
          /\ IF SlotGone(s)' THEN resetWaiting ELSE Waiting(pcb'[sock[s].connection])
    <3> TAKE s \in Sock \ {a}
    <3> HAVE sock[s].connection # NULL
    <3>1. Owned(s, "listen")' /\ sock[s].type = "tcp"
      BY <1>6, <1>7, <1>9 DEF SocketInv, SlotInv, Owned
    <3>2. CASE sock[s].connection = p
      BY <1>1, <1>3, <1>6, <1>7, <3>1, <3>2 DEF SocketInv, SlotInv, SlotGone
    <3>3. CASE sock[s].connection # p
      BY <1>6, <1>7, <2>1, <3>1, <3>3 DEF SocketInv, SlotInv, SlotGone
    <3>4. QED
      BY <3>2, <3>3
  <2>3. Owned(a, "listen")' /\ ~SlotGone(a)'
    BY <1>1, <1>3, <1>4, <1>6, <1>7 DEF SlotGone, Owned, Waiting
  <2>4. QED
    BY <1>3, <1>4, <1>5, <1>6, <1>7, <2>2, <2>3 DEF SlotInv
<1>12. PcbInv'
  BY <1>1, <1>3, <1>4, <1>6, <1>7 DEF SocketInv, PcbInv, Waiting
<1>13. KeptInv'
  BY <1>3, <1>7 DEF SocketInv, KeptInv
<1>14. ArrivedInv'
  <2>1. \A s \in Sock \ {a} : Arrived(sock'[s], pcb'[sock'[s].pcb])
    BY <1>6, <1>7, <1>9 DEF SocketInv, ArrivedInv, Arrived
  <2>2. Arrived(o, pcb[l]) /\ pcb'[l] = pcb[l]
    <3>1. Arrived(sock[a], pcb[l])
      BY <1>1 DEF SocketInv, ArrivedInv
    <3>2. sock[a].pbuf = NULL /\ o.pbuf = NULL
      BY <1>1, <1>2, <1>4, <3>1 DEF Arrived
    <3>3. HeldBy(o) = 0 /\ HeldBy(sock[a]) = 0
      BY <3>2 DEF HeldBy
    <3>4. QED
      BY <1>1, <1>2, <1>4, <1>7, <3>1, <3>2, <3>3 DEF Arrived
  <2>3. QED
    BY <1>4, <1>6, <2>1, <2>2 DEF ArrivedInv
<1>15. CallInv'
  BY <1>1, <1>2, <1>4, <1>5, <1>6, <1>7, <1>9 DEF SocketInv, CallInv, Owned
<1>16. QED
  BY <1>8, <1>10, <1>11, <1>12, <1>13, <1>14, <1>15 DEF SocketInv

(* A stream is reset: its socket is told of the error, its pcb is gone.    *)
LEMMA LostStep ==
  ASSUME SocketInv, NEW a \in Sock, NEW p \in Pcb, sock[a].pcb = p, sock[a].type = "tcp",
         pcb[p].st \in {"syn", "estab"},
         sock' = [sock EXCEPT ![a] = Dead(a, "error")], pcb' = [pcb EXCEPT ![p] = FreePcb],
         resetWaiting' = resetWaiting, call' = call
  PROVE  SocketInv'
<1> DEFINE o == Dead(a, "error")
<1>1. /\ o \in Sockets /\ o.type = "tcp" /\ o.state = "error" /\ o.pcb = NULL /\ o.connection = NULL /\ o.pbuf = NULL
  BY DEF SocketInv, SocketTypeOK, Sockets, Dead, NoSock
<1>2. p # NULL /\ sock[a].connection = NULL
  BY DEF SocketInv, SlotInv, Owned
<1> HIDE DEF o
<1>3. sock' \in [Sock -> Sockets] /\ sock'[a] = o /\ \A s \in Sock \ {a} : sock'[s] = sock[s]
  BY <1>1 DEF SocketInv, SocketTypeOK, o
<1>4. /\ pcb' \in [Pcb -> Pcbs] /\ pcb'[p] = FreePcb /\ \A x \in Pcb \ {p} : pcb'[x] = pcb[x]
  BY ClearedRecords DEF SocketInv, SocketTypeOK
<1>5. \A s \in Sock \ {a} : /\ sock[s].pcb # NULL => sock[s].pcb \in Pcb \ {p}
                            /\ sock[s].connection # NULL => sock[s].connection \in Pcb
  BY DEF SocketInv, SocketTypeOK, Sockets, OwnInv, Own
<1>6. SocketTypeOK' /\ KeptInv'
  BY <1>3, <1>4, ClearedRecords DEF SocketInv, SocketTypeOK, KeptInv
<1>7. OwnInv'
  BY <1>1, <1>3, <1>4, <1>5 DEF SocketInv, OwnInv, Own
<1>8. SlotInv'
  <2> SUFFICES ASSUME NEW s \in Sock \ {a}, sock[s].connection # NULL
               PROVE  /\ Owned(s, "listen")' /\ sock'[s].type = "tcp"
                      /\ IF SlotGone(s)' THEN resetWaiting ELSE Waiting(pcb'[sock[s].connection])
    BY <1>1, <1>3 DEF SlotInv
  <2>1. /\ Owned(s, "listen")' /\ sock'[s].type = "tcp"
    BY <1>3, <1>4, <1>5 DEF SocketInv, SlotInv, Owned
  <2>2. CASE sock[s].connection = p
    BY <1>2, <1>3, <1>4, <2>1, <2>2, ClearedRecords DEF SocketInv, SlotInv, SlotGone, OwnInv, Own
  <2>3. CASE sock[s].connection # p
    BY <1>3, <1>4, <1>5, <2>1, <2>3 DEF SocketInv, SlotInv, SlotGone
  <2>4. QED
    BY <2>2, <2>3
<1>9. PcbInv'
  BY <1>1, <1>2, <1>3, <1>4, ClearedRecords DEF SocketInv, PcbInv
<1>10. ArrivedInv'
  BY <1>1, <1>3, <1>4, <1>5 DEF SocketInv, ArrivedInv, Arrived
<1>11. CallInv'
  BY <1>1, <1>3, <1>4, <1>5 DEF SocketInv, CallInv, Owned, OwnInv, Own
<1>12. QED
  BY <1>6, <1>7, <1>8, <1>9, <1>10, <1>11 DEF SocketInv

(* A step that changes no socket and no pcb. *)
LEMMA SameStep ==
  ASSUME SocketInv, UNCHANGED <<sock, pcb, resetWaiting>>, CallInv' PROVE SocketInv'
<1>1. /\ SocketTypeOK' /\ OwnInv' /\ SlotInv' /\ PcbInv'
  BY DEF SocketInv, SocketTypeOK, OwnInv, SlotInv, PcbInv, SlotGone, Owned
<1>2. KeptInv' /\ ArrivedInv'
  BY DEF SocketInv, KeptInv, ArrivedInv
<1>3. QED
  BY <1>1, <1>2 DEF SocketInv

(* Whom a connection belongs to. *)
LEMMA Connection ==
  ASSUME SocketInv, NEW p \in Pcb, pcb[p].st \in {"syn", "estab"}
  PROVE  \E a \in Sock :
           /\ a = pcb[p].arg /\ sock[a].type = "tcp"
           /\ \/ /\ sock[a].pcb = p /\ sock[a].connection = NULL
                 /\ pcb[p].recv = "socket" /\ pcb[p].err
              \/ /\ sock[a].connection = p /\ Waiting(pcb[p])
  BY DEF SocketInv, SocketTypeOK, Sockets, PcbInv, OwnInv, Own, SlotInv, SlotGone, Owned, Waiting

-----------------------------------------------------------------------------
(* The network.                                                            *)

LEMMA EstablishedInv == ASSUME SocketInv, NEW p \in Pcb, Established(p) PROVE SocketInv'
<1>1. PICK a \in Sock : a = pcb[p].arg /\ sock[a].type = "tcp" /\ sock[a].pcb = p /\ pcb[p].st = "syn"
                        /\ sock[a].connection = NULL
  BY Connection DEF Established, Waiting
<1> DEFINE o == [sock[a] EXCEPT !.state = "connected"]
           q == [pcb[p] EXCEPT !.st = "estab"]
<1>2. /\ o \in Sockets /\ o.state = "connected" /\ o.type = "tcp" /\ o.pcb = p /\ o.connection = NULL
      /\ o.pbuf = sock[a].pbuf /\ o.leftover = sock[a].leftover /\ o.got = sock[a].got /\ o.eof = sock[a].eof
      /\ q \in Pcbs /\ q.st = "estab" /\ q.arg = a /\ q.err = pcb[p].err /\ q.recv = pcb[p].recv
      /\ q.refused = pcb[p].refused /\ q.fin = pcb[p].fin /\ q.wnd = pcb[p].wnd /\ q.sent = pcb[p].sent
      /\ q.ended = pcb[p].ended
  BY <1>1 DEF SocketInv, SocketTypeOK, Sockets, Pcbs
<1>3. /\ sock' = [sock EXCEPT ![a] = o] /\ pcb' = [pcb EXCEPT ![p] = q]
      /\ call' = call /\ resetWaiting' = resetWaiting
  BY <1>1 DEF Established, Kept
<1> HIDE DEF o, q
<1>4. Own(a, o, q)
  BY <1>1, <1>2 DEF SocketInv, OwnInv, Own
<1>5. KeptFor(q)
  BY <1>1, <1>2 DEF SocketInv, KeptInv, KeptFor, OwnInv, Own
<1>6. Arrived(o, q)
  BY <1>1, <1>2 DEF SocketInv, KeptInv, KeptFor, ArrivedInv, Arrived, HeldBy, LeftOf, Refused
<1>7. QED
  BY <1>1, <1>2, <1>3, <1>4, <1>5, <1>6, OwnStep

(* A reset, also of a connection that waits or is being closed.            *)
LEMMA ErrorAtInv ==
  ASSUME SocketInv, NEW p \in Pcb, pcb[p].st \in {"syn", "estab", "closing"}, ErrorAt(p)
  PROVE  SocketInv'
<1>1. CASE Fault("stale")
  BY <1>1, FaultInv
<1>2. CASE /\ sock' = IF pcb[p].err THEN [sock EXCEPT ![pcb[p].arg] = Dead(pcb[p].arg, "error")] ELSE sock
           /\ pcb' = [pcb EXCEPT ![p] = FreePcb]
           /\ resetWaiting' = (resetWaiting \/ ~pcb[p].err) /\ call' = call
  <2>1. CASE pcb[p].st \in {"syn", "estab"}
    <3>1. PICK a \in Sock : /\ a = pcb[p].arg /\ sock[a].type = "tcp"
                            /\ \/ sock[a].pcb = p /\ pcb[p].err
                               \/ sock[a].connection = p /\ Waiting(pcb[p])
      BY <2>1, Connection
    <3>2. CASE sock[a].pcb = p /\ pcb[p].err
      BY <1>2, <2>1, <3>1, <3>2, LostStep DEF SocketInv, SocketTypeOK
    <3>3. CASE sock[a].connection = p /\ Waiting(pcb[p])
      BY <1>2, <2>1, <3>1, <3>3, WaitStep, ClearedRecords DEF Waiting, SocketInv, SocketTypeOK
    <3>4. QED
      BY <3>1, <3>2, <3>3
  <2>2. CASE pcb[p].st = "closing"
    <3>1. PICK a \in Sock : a = pcb[p].arg /\ pcb[p].err /\ sock[a].pcb = NULL
      BY <2>2 DEF SocketInv, PcbInv
    <3> DEFINE o == Dead(a, "error")
    <3>2. /\ o \in Sockets /\ o.type = sock[a].type /\ o.state = "error" /\ o.pcb = NULL /\ o.connection = NULL /\ o.pbuf = NULL
      BY DEF SocketInv, SocketTypeOK, Sockets, Dead, NoSock
    <3>3. sock' = [sock EXCEPT ![a] = o] /\ resetWaiting' = resetWaiting
      BY <1>2, <3>1 DEF SocketInv, SocketTypeOK
    <3> HIDE DEF o
    <3>4. QED
      BY <1>2, <2>2, <3>1, <3>2, <3>3, DeadStep
  <2>3. QED
    BY <2>1, <2>2
<1>3. QED
  BY <1>1, <1>2 DEF ErrorAt

LEMMA ResetArrivesInv == ASSUME SocketInv, NEW p \in Pcb, ResetArrives(p) PROVE SocketInv'
  BY ErrorAtInv DEF ResetArrives

(* Data for a socket that has read what it had: it holds them.             *)
LEMMA DataArrivesInv ==
  ASSUME SocketInv, NEW p \in Pcb, NEW n \in 1 .. WND, NEW fin \in BOOLEAN, DataArrives(p, n, fin)
  PROVE  SocketInv'
<1>1. CASE pcb[p].st = "closing"
  BY <1>1, ErrorAtInv DEF DataArrives
<1>2. CASE pcb[p].st = "estab"
  <2>1. PICK a \in Sock :
           /\ a = pcb[p].arg /\ sock[a].type = "tcp"
           /\ \/ sock[a].pcb = p /\ sock[a].connection = NULL /\ pcb[p].recv = "socket" /\ pcb[p].err
              \/ sock[a].connection = p /\ Waiting(pcb[p])
    BY <1>2, Connection
  <2> DEFINE data == [from |-> pcb[p].sent, len |-> n]
             x == [pcb[p] EXCEPT !.sent = @ + n]
             y == [x EXCEPT !.wnd = @ - n]
             q == [y EXCEPT !.ended = fin]
             r == [q EXCEPT !.refused = data]
             z == [r EXCEPT !.fin = fin]
  <2>2. /\ n \in Nat /\ n > 0 /\ pcb[p].sent \in Nat /\ pcb[p] \in Pcbs
        /\ ~pcb[p].ended /\ pcb[p].refused = NULL
    BY DEF SocketInv, SocketTypeOK, Pcbs, DataArrives
  <2>3. data \in Buffers /\ data # NULL /\ data.from = pcb[p].sent /\ data.len = n
    BY <2>2 DEF Buffers
  <2> HIDE DEF data
  <2>4. x \in Pcbs /\ x.wnd = pcb[p].wnd /\ x.sent = pcb[p].sent + n /\ x.refused = NULL /\ x.st = pcb[p].st
        /\ x.arg = pcb[p].arg /\ x.err = pcb[p].err /\ x.recv = pcb[p].recv
    BY <2>2 DEF Pcbs
  <2>5. y = [pcb[p] EXCEPT !.sent = @ + n, !.wnd = @ - n]
    BY <2>2 DEF Pcbs
  <2> HIDE DEF x
  <2>6. y \in Pcbs /\ y.wnd = pcb[p].wnd - n /\ y.sent = pcb[p].sent + n /\ y.refused = NULL /\ y.st = pcb[p].st
        /\ y.arg = pcb[p].arg /\ y.err = pcb[p].err /\ y.recv = pcb[p].recv
    BY <2>2, <2>4 DEF Pcbs
  <2>7. q = [pcb[p] EXCEPT !.sent = @ + n, !.wnd = @ - n, !.ended = fin]
    BY <2>2, <2>5 DEF Pcbs
  <2> HIDE DEF y
  <2>8. q \in Pcbs /\ q.wnd = pcb[p].wnd - n /\ q.sent = pcb[p].sent + n /\ q.refused = NULL /\ q.st = pcb[p].st
        /\ q.arg = pcb[p].arg /\ q.err = pcb[p].err /\ q.recv = pcb[p].recv /\ q.ended = fin
    BY <2>2, <2>6 DEF Pcbs
  <2>9. z = [q EXCEPT !.refused = data, !.fin = fin]
    BY <2>8 DEF Pcbs
  <2> HIDE DEF q
  <2>10. r \in Pcbs /\ r.wnd = pcb[p].wnd - n /\ r.sent = pcb[p].sent + n /\ r.refused = data /\ r.st = pcb[p].st
         /\ r.arg = pcb[p].arg /\ r.err = pcb[p].err /\ r.recv = pcb[p].recv /\ r.ended = fin
    BY <2>3, <2>8 DEF Pcbs
  <2> HIDE DEF r
  <2>11. z \in Pcbs /\ z.wnd = pcb[p].wnd - n /\ z.sent = pcb[p].sent + n /\ z.refused = data /\ z.st = pcb[p].st
         /\ z.arg = pcb[p].arg /\ z.err = pcb[p].err /\ z.recv = pcb[p].recv /\ z.ended = fin /\ z.fin = fin
    BY <2>10 DEF Pcbs
  <2> HIDE DEF z
  <2>12. CASE sock[a].connection = p /\ Waiting(pcb[p])
    <3>1. pcb' = [pcb EXCEPT ![p] = z] /\ UNCHANGED <<call, resetWaiting>>
      BY <1>2, <2>7, <2>9, <2>12 DEF DataArrives, Accepts, Waiting, Kept, data
    <3>2. sock' = sock
      BY <1>2, <2>1, <2>12 DEF DataArrives, Accepts, Waiting, SocketInv, SocketTypeOK, Sockets
    <3>3. KeptFor(pcb[p]) /\ pcb[p].wnd \in Int
      BY DEF SocketInv, SocketTypeOK, Pcbs, KeptInv
    <3>4. KeptFor(z) /\ Waiting(z) /\ z.arg = a
      BY <1>2, <2>1, <2>2, <2>3, <2>11, <2>12, <3>3 DEF KeptFor, Waiting
    <3>5. QED
      BY <1>2, <2>1, <2>11, <2>12, <3>1, <3>2, <3>4, WaitStep
  <2>13. CASE sock[a].pcb = p /\ sock[a].connection = NULL /\ pcb[p].recv = "socket" /\ pcb[p].err
    <3>1. /\ Own(a, sock[a], pcb[p]) /\ Arrived(sock[a], pcb[p]) /\ KeptFor(pcb[p])
          /\ pcb[p].wnd \in Int /\ sock[a].got \in Nat /\ sock[a] \in Sockets /\ p # NULL
      BY <2>13 DEF SocketInv, SocketTypeOK, Sockets, Pcbs, OwnInv, ArrivedInv, KeptInv
    <3>2. sock[a].state = "connected"
      BY <1>2, <2>1, <2>2, <2>13, <3>1 DEF Own, Arrived
    <3>3. CASE sock[a].pbuf = NULL
      <4> DEFINE s == [sock[a] EXCEPT !.pbuf = data]
                 o == [s EXCEPT !.state = IF fin THEN "peer_closed" ELSE @]
      <4>1. /\ s \in Sockets /\ s.pbuf = data /\ s.type = "tcp" /\ s.pcb = p /\ s.connection = NULL
            /\ s.leftover = sock[a].leftover /\ s.got = sock[a].got /\ s.eof = sock[a].eof /\ s.state = "connected"
        BY <2>1, <2>3, <2>13, <3>1, <3>2 DEF Sockets
      <4>2. o = [sock[a] EXCEPT !.pbuf = data, !.state = IF fin THEN "peer_closed" ELSE @]
        BY <3>1 DEF Sockets
      <4>3. sock' = [sock EXCEPT ![a] = o] /\ pcb' = [pcb EXCEPT ![p] = q] /\ call' = call /\ resetWaiting' = resetWaiting
        <5>1. sock' = [sock EXCEPT ![a].pbuf = data, ![a].state = IF fin THEN "peer_closed" ELSE @]
              /\ pcb' = [pcb EXCEPT ![p] = q] /\ call' = call /\ resetWaiting' = resetWaiting
          BY <1>2, <2>1, <2>7, <2>13, <3>3 DEF DataArrives, Accepts, Kept, data
        <5>2. QED
          BY <4>2, <5>1 DEF SocketInv, SocketTypeOK
      <4> HIDE DEF s
      <4>4. /\ o \in Sockets /\ o.pbuf = data /\ o.type = "tcp" /\ o.pcb = p /\ o.connection = NULL
            /\ o.leftover = sock[a].leftover /\ o.got = sock[a].got /\ o.eof = sock[a].eof
            /\ o.state = IF fin THEN "peer_closed" ELSE "connected"
        BY <4>1 DEF Sockets
      <4> HIDE DEF o
      <4>5. Own(a, o, q)
        BY <1>2, <2>1, <2>8, <2>13, <3>1, <3>2, <4>4 DEF Own
      <4>6. KeptFor(q)
        BY <1>2, <2>8, <2>13 DEF KeptFor
      <4>7. Arrived(o, q)
        <5>1. /\ sock[a].leftover = 0 /\ ~sock[a].eof
              /\ pcb[p].sent = sock[a].got /\ pcb[p].wnd + (pcb[p].sent - sock[a].got) = WND
          BY <2>1, <2>2, <2>13, <3>1, <3>2, <3>3 DEF Arrived, HeldBy, Refused
        <5>2. LeftOf(o) = n /\ HeldBy(o) = n /\ Refused(q) = 0 /\ o.pbuf # NULL /\ o.leftover = 0
          BY <2>3, <2>8, <4>4, <5>1 DEF LeftOf, HeldBy, Refused
        <5>3. /\ o.pbuf.from = pcb[p].sent /\ o.pbuf.len = n /\ o.got = pcb[p].sent /\ ~o.eof
              /\ q.sent = o.got + n /\ q.wnd + (q.sent - o.got) = WND
          BY <2>2, <2>3, <2>8, <3>1, <4>4, <5>1
        <5>4. q.st = "estab" /\ q.refused = NULL /\ (o.state = "peer_closed" => q.ended)
          BY <1>2, <2>8, <4>4
        <5>5. QED
          BY <2>2, <5>2, <5>3, <5>4 DEF Arrived
      <4>8. QED
        BY <1>2, <2>1, <2>8, <2>13, <3>1, <4>3, <4>4, <4>5, <4>6, <4>7, OwnStep
    <3>4. CASE sock[a].pbuf # NULL
      <4>1. sock' = [sock EXCEPT ![a] = sock[a]] /\ pcb' = [pcb EXCEPT ![p] = z] /\ call' = call /\ resetWaiting' = resetWaiting
        <5>1. sock' = [sock EXCEPT ![a].pbuf = @, ![a].state = @]
              /\ pcb' = [pcb EXCEPT ![p] = z] /\ call' = call /\ resetWaiting' = resetWaiting
          BY <1>2, <2>1, <2>7, <2>9, <2>13, <3>4 DEF DataArrives, Accepts, Kept, data
        <5>2. [sock EXCEPT ![a].pbuf = @] = sock /\ [sock EXCEPT ![a].state = @] = sock
          BY <3>1 DEF SocketInv, SocketTypeOK, Sockets
        <5>3. [sock EXCEPT ![a].pbuf = @, ![a].state = @] = sock
          BY <5>2
        <5>4. QED
          BY <5>1, <5>3 DEF SocketInv, SocketTypeOK
      <4>2. Own(a, sock[a], z)
        BY <1>2, <2>1, <2>11, <2>13, <3>1 DEF Own
      <4>3. KeptFor(z)
        BY <1>2, <2>2, <2>3, <2>11, <2>13 DEF KeptFor
      <4>4. HeldBy(sock[a]) \in Nat
        BY <3>1, <3>4, <2>1 DEF HeldBy, LeftOf, Sockets, Buffers
      <4>5. Arrived(sock[a], z)
        BY <1>2, <2>1, <2>2, <2>3, <2>11, <2>13, <3>1, <3>2, <3>4, <4>4 DEF Arrived, Refused
      <4>6. QED
        BY <1>2, <2>1, <2>11, <2>13, <3>1, <4>1, <4>2, <4>3, <4>5, OwnStep
    <3>5. QED
      BY <3>3, <3>4
  <2>14. QED
    BY <2>1, <2>12, <2>13
<1>3. QED
  BY <1>1, <1>2 DEF DataArrives

LEMMA OwnFacts ==
  ASSUME SocketInv, NEW a \in Sock, sock[a].pcb # NULL
  PROVE  /\ sock[a].pcb \in Pcb /\ sock[a] \in Sockets /\ pcb[sock[a].pcb] \in Pcbs
         /\ Own(a, sock[a], pcb[sock[a].pcb]) /\ Arrived(sock[a], pcb[sock[a].pcb])
         /\ KeptFor(pcb[sock[a].pcb]) /\ pcb[sock[a].pcb].arg = a /\ sock[a].type \in {"tcp", "udp"}
  BY DEF SocketInv, SocketTypeOK, Sockets, OwnInv, Own, ArrivedInv, KeptInv

(* What lwIP kept is handed over, and then the end of the stream.          *)
LEMMA RedeliverInv == ASSUME SocketInv, NEW p \in Pcb, Redeliver(p) PROVE SocketInv'
<1>1. pcb[p].recv = "socket" /\ pcb[p].refused # NULL /\ sock[pcb[p].arg].pbuf = NULL /\ KeptFor(pcb[p])
  BY DEF Redeliver, Accepts, SocketInv, KeptInv
<1>2. pcb[p].st = "estab" /\ (pcb[p].fin => pcb[p].ended) /\ pcb[p].refused.from \in Nat
      /\ pcb[p].refused.len > 0 /\ pcb[p].refused \in Buffers /\ p # NULL
  BY <1>1 DEF KeptFor, SocketInv, SocketTypeOK, Pcbs
<1>3. PICK a \in Sock : a = pcb[p].arg /\ sock[a].type = "tcp" /\ sock[a].pcb = p /\ sock[a].connection = NULL
                        /\ pcb[p].err
  BY <1>1, <1>2, Connection DEF Waiting
<1>4. /\ sock[a] \in Sockets /\ pcb[p] \in Pcbs /\ Own(a, sock[a], pcb[p]) /\ Arrived(sock[a], pcb[p])
      /\ KeptFor(pcb[p])
  BY <1>2, <1>3, OwnFacts
<1> DEFINE s == [sock[a] EXCEPT !.pbuf = pcb[p].refused]
           o == [s EXCEPT !.state = IF pcb[p].fin THEN "peer_closed" ELSE @]
           r == [pcb[p] EXCEPT !.refused = NULL]
           q == [r EXCEPT !.fin = FALSE]
<1>5. /\ s \in Sockets /\ s.pbuf = pcb[p].refused /\ s.type = "tcp" /\ s.pcb = p /\ s.connection = NULL
      /\ s.leftover = sock[a].leftover /\ s.got = sock[a].got /\ s.eof = sock[a].eof /\ s.state = sock[a].state
  BY <1>2, <1>3, <1>4 DEF Sockets
<1>6. /\ r \in Pcbs /\ r.wnd = pcb[p].wnd /\ r.sent = pcb[p].sent /\ r.refused = NULL /\ r.st = "estab"
      /\ r.arg = a /\ r.err = pcb[p].err /\ r.recv = "socket" /\ r.ended = pcb[p].ended
  BY <1>1, <1>2, <1>3, <1>4 DEF Pcbs
<1>7. sock' = [sock EXCEPT ![a] = o] /\ pcb' = [pcb EXCEPT ![p] = q] /\ call' = call /\ resetWaiting' = resetWaiting
  <2>1. /\ o = [sock[a] EXCEPT !.pbuf = pcb[p].refused, !.state = IF pcb[p].fin THEN "peer_closed" ELSE @]
        /\ q = [pcb[p] EXCEPT !.refused = NULL, !.fin = FALSE]
    BY <1>4 DEF Sockets, Pcbs
  <2>2. /\ sock' = [sock EXCEPT ![a].pbuf = pcb[p].refused, ![a].state = IF pcb[p].fin THEN "peer_closed" ELSE @]
        /\ pcb' = [pcb EXCEPT ![p].refused = NULL, ![p].fin = FALSE]
        /\ call' = call /\ resetWaiting' = resetWaiting
    BY <1>3 DEF Redeliver, Kept
  <2>3. QED
    BY <2>1, <2>2 DEF SocketInv, SocketTypeOK
<1> HIDE DEF s, r
<1>8. /\ o \in Sockets /\ o.pbuf = pcb[p].refused /\ o.type = "tcp" /\ o.pcb = p /\ o.connection = NULL
      /\ o.leftover = sock[a].leftover /\ o.got = sock[a].got /\ o.eof = sock[a].eof
      /\ o.state = IF pcb[p].fin THEN "peer_closed" ELSE sock[a].state
  BY <1>5 DEF Sockets
<1>9. /\ q \in Pcbs /\ q.wnd = pcb[p].wnd /\ q.sent = pcb[p].sent /\ q.refused = NULL /\ q.st = "estab"
      /\ q.arg = a /\ q.err = pcb[p].err /\ q.recv = "socket" /\ q.ended = pcb[p].ended /\ ~q.fin
  BY <1>6 DEF Pcbs
<1> HIDE DEF o, q
<1>10. Own(a, o, q)
  BY <1>2, <1>3, <1>4, <1>8, <1>9 DEF Own
<1>11. KeptFor(q)
  BY <1>9 DEF KeptFor
<1>12. sock[a].state # "peer_closed"
  BY <1>1, <1>3, <1>4 DEF Arrived
<1>13. Arrived(o, q)
  <2>1. /\ HeldBy(sock[a]) = 0 /\ Refused(pcb[p]) = pcb[p].refused.len /\ sock[a].got \in Nat
        /\ pcb[p].sent \in Nat /\ pcb[p].wnd \in Int /\ pcb[p].refused.len \in Nat
    BY <1>1, <1>2, <1>3, <1>4 DEF HeldBy, Refused, Sockets, Pcbs, Buffers
  <2>2. /\ sock[a].leftover = 0 /\ pcb[p].refused.from = sock[a].got /\ ~sock[a].eof
        /\ pcb[p].sent = sock[a].got + pcb[p].refused.len
        /\ pcb[p].wnd + (pcb[p].sent - sock[a].got) = WND
    BY <1>1, <1>2, <1>3, <1>4, <1>12, <2>1 DEF Arrived
  <2>3. o.pbuf # NULL /\ LeftOf(o) = o.pbuf.len /\ HeldBy(o) = o.pbuf.len /\ Refused(q) = 0
    BY <1>1, <1>8, <1>9, <2>2 DEF LeftOf, HeldBy, Refused
  <2>4. QED
    BY <1>2, <1>8, <1>9, <1>12, <2>1, <2>2, <2>3 DEF Arrived
<1>14. QED
  BY <1>2, <1>3, <1>4, <1>7, <1>8, <1>9, <1>10, <1>11, <1>13, OwnStep, ZenonT(40) DEF Own

(* The end of a stream. *)
LEMMA FinArrivesInv == ASSUME SocketInv, NEW p \in Pcb, FinArrives(p) PROVE SocketInv'
<1>1. CASE Fault("stale")
  BY <1>1, FaultInv
<1>2. CASE /\ pcb[p].st \in {"estab", "closing"} /\ ~pcb[p].ended /\ pcb[p].refused = NULL
           /\ sock' = IF pcb[p].recv = "socket" THEN [sock EXCEPT ![pcb[p].arg].state = "peer_closed"] ELSE sock
           /\ pcb' = [pcb EXCEPT ![p] = IF pcb[p].st = "closing" THEN FreePcb
                                        ELSE [pcb[p] EXCEPT !.ended = TRUE, !.lost = pcb[p].recv # "socket"]]
           /\ call' = call /\ resetWaiting' = resetWaiting
  <2>1. pcb[p] \in Pcbs /\ KeptFor(pcb[p])
    BY DEF SocketInv, SocketTypeOK, KeptInv
  <2>2. CASE pcb[p].st = "closing"
    <3>1. PICK a \in Sock : a = pcb[p].arg /\ sock[a].pcb = NULL /\ pcb[p].recv = "socket"
      BY <2>2 DEF SocketInv, PcbInv
    <3> DEFINE o == [sock[a] EXCEPT !.state = "peer_closed"]
    <3>2. /\ o \in Sockets /\ o.type = sock[a].type /\ o.state = "peer_closed" /\ o.pcb = NULL /\ o.connection = NULL /\ o.pbuf = NULL
      BY <3>1 DEF SocketInv, SocketTypeOK, Sockets, OwnInv, Own
    <3>3. sock' = [sock EXCEPT ![a] = o] /\ pcb' = [pcb EXCEPT ![p] = FreePcb]
      BY <1>2, <2>2, <3>1 DEF SocketInv, SocketTypeOK
    <3> HIDE DEF o
    <3>4. \E x \in Pcb : pcb[x].st = "closing" /\ pcb' = [pcb EXCEPT ![x] = FreePcb]
      BY <2>2, <3>3
    <3>5. sock' = [sock EXCEPT ![a] = o] /\ call' = call /\ resetWaiting' = resetWaiting
      BY <1>2, <3>3
    <3>6. QED
      BY <3>1, <3>2, <3>4, <3>5, DeadStep
  <2>3. CASE pcb[p].st = "estab"
    <3> DEFINE x == [pcb[p] EXCEPT !.ended = TRUE]
               q == [x EXCEPT !.lost = pcb[p].recv # "socket"]
    <3>1. /\ x \in Pcbs /\ x.ended /\ x.st = "estab" /\ x.arg = pcb[p].arg /\ x.err = pcb[p].err
          /\ x.recv = pcb[p].recv /\ x.refused = NULL /\ x.wnd = pcb[p].wnd /\ x.sent = pcb[p].sent
      BY <1>2, <2>1, <2>3 DEF Pcbs
    <3>2. pcb' = [pcb EXCEPT ![p] = q]
      <4> DEFINE e == [pcb[p] EXCEPT !.ended = TRUE, !.lost = pcb[p].recv # "socket"]
      <4>1. q = e
        BY <2>1 DEF Pcbs
      <4>2. pcb' = [pcb EXCEPT ![p] = IF pcb[p].st = "closing" THEN FreePcb ELSE e]
        BY <1>2
      <4> HIDE DEF e, q
      <4>3. QED
        BY <2>3, <4>1, <4>2
    <3> HIDE DEF x
    <3>3. /\ q \in Pcbs /\ q.ended /\ q.st = "estab" /\ q.arg = pcb[p].arg /\ q.err = pcb[p].err
          /\ q.recv = pcb[p].recv /\ q.refused = NULL /\ q.wnd = pcb[p].wnd /\ q.sent = pcb[p].sent
      BY <3>1 DEF Pcbs
    <3> HIDE DEF q
    <3>4. KeptFor(q)
      BY <1>2, <2>1, <2>3, <3>3 DEF KeptFor
    <3>5. PICK a \in Sock :
             /\ a = pcb[p].arg /\ sock[a].type = "tcp"
             /\ \/ sock[a].pcb = p /\ sock[a].connection = NULL /\ pcb[p].recv = "socket" /\ pcb[p].err
                \/ sock[a].connection = p /\ Waiting(pcb[p])
      BY <2>3, Connection
    <3>6. CASE sock[a].connection = p /\ Waiting(pcb[p])
      <4>1. Waiting(q) /\ q.arg = a /\ sock' = sock
        BY <1>2, <3>3, <3>5, <3>6 DEF Waiting
      <4>2. QED
        BY <1>2, <2>3, <3>2, <3>3, <3>4, <3>5, <3>6, <4>1, WaitStep
    <3>7. CASE sock[a].pcb = p /\ sock[a].connection = NULL /\ pcb[p].recv = "socket" /\ pcb[p].err
      <4> DEFINE o == [sock[a] EXCEPT !.state = "peer_closed"]
      <4>1. p # NULL /\ sock[a] \in Sockets /\ Own(a, sock[a], pcb[p]) /\ Arrived(sock[a], pcb[p])
        BY <3>7, OwnFacts
      <4>2. /\ o \in Sockets /\ o.type = "tcp" /\ o.state = "peer_closed" /\ o.pcb = p /\ o.connection = NULL
            /\ o.pbuf = sock[a].pbuf /\ o.leftover = sock[a].leftover /\ o.got = sock[a].got /\ o.eof = sock[a].eof
        BY <3>5, <3>7, <4>1 DEF Sockets
      <4>3. sock' = [sock EXCEPT ![a] = o]
        BY <1>2, <3>5, <3>7
      <4> HIDE DEF o
      <4>4. Own(a, o, q)
        BY <2>3, <3>3, <3>5, <3>7, <4>1, <4>2 DEF Own
      <4>5. Arrived(o, q)
        BY <1>2, <2>3, <3>3, <3>5, <3>7, <4>1, <4>2 DEF Arrived, HeldBy, LeftOf, Refused
      <4>6. QED
        <5>1. call' = call /\ resetWaiting' = resetWaiting /\ pcb[p].st # "listen"
          BY <1>2, <2>3
        <5>2. QED
          BY <3>2, <3>3, <3>4, <3>5, <3>7, <4>2, <4>3, <4>4, <4>5, <5>1, OwnStep
    <3>8. QED
      BY <3>5, <3>6, <3>7
  <2>4. QED
    BY <1>2, <2>2, <2>3
<1>3. QED
  BY <1>1, <1>2 DEF FinArrives, Kept

LEMMA CloseDoneInv == ASSUME SocketInv, NEW p \in Pcb, CloseDone(p) PROVE SocketInv'
<1>1. PICK a \in Sock : a = pcb[p].arg /\ sock[a].pcb = NULL
  BY DEF CloseDone, SocketInv, PcbInv
<1>2. /\ sock[a] \in Sockets /\ sock[a].connection = NULL /\ sock[a].pbuf = NULL /\ sock' = [sock EXCEPT ![a] = sock[a]]
      /\ sock[a].type # "none" => sock[a].state \in {"error", "badf", "peer_closed"}
  BY <1>1 DEF CloseDone, SocketInv, SocketTypeOK, OwnInv, Own
<1>3. QED
  BY <1>1, <1>2, DeadStep DEF CloseDone, Kept

(* A step on a connection that only changes the send buffer.               *)
LEMMA BufferStep ==
  ASSUME SocketInv, NEW a \in Sock, NEW p \in Pcb, NEW n \in Int, sock[a].pcb = p,
         pcb[p].st \in {"syn", "estab"}, sock[a].type = "tcp",
         sock' = sock, pcb' = [pcb EXCEPT ![p].snd = n], resetWaiting' = resetWaiting,
         CallInv' \/ call' = call
  PROVE  SocketInv'
<1> DEFINE q == [pcb[p] EXCEPT !.snd = n]
<1>1. /\ p # NULL /\ sock[a] \in Sockets /\ Own(a, sock[a], pcb[p]) /\ Arrived(sock[a], pcb[p])
      /\ KeptFor(pcb[p]) /\ pcb[p] \in Pcbs
  BY OwnFacts
<1>2. /\ q \in Pcbs /\ q.ended = pcb[p].ended /\ q.st = pcb[p].st /\ q.arg = pcb[p].arg /\ q.err = pcb[p].err
      /\ q.recv = pcb[p].recv /\ q.refused = pcb[p].refused /\ q.wnd = pcb[p].wnd /\ q.sent = pcb[p].sent
      /\ q.fin = pcb[p].fin
  BY <1>1 DEF Pcbs
<1>3. sock' = [sock EXCEPT ![a] = sock[a]] /\ pcb' = [pcb EXCEPT ![p] = q]
  BY DEF SocketInv, SocketTypeOK
<1> HIDE DEF q
<1>4. Own(a, sock[a], q)
  BY <1>1, <1>2 DEF Own
<1>5. KeptFor(q)
  BY <1>1, <1>2 DEF KeptFor
<1>6. Arrived(sock[a], q)
  BY <1>1, <1>2 DEF Arrived, Refused
<1>7. QED
  BY <1>1, <1>2, <1>3, <1>4, <1>5, <1>6, OwnStep

LEMMA AckArrivesInv == ASSUME SocketInv, NEW p \in Pcb, AckArrives(p) PROVE SocketInv'
<1>1. /\ pcb[p].st = "estab" /\ sock' = sock /\ pcb' = [pcb EXCEPT ![p].snd = SNDBUF]
      /\ call' = call /\ resetWaiting' = resetWaiting
  BY DEF AckArrives, Kept
<1>2. PICK a \in Sock :
         /\ a = pcb[p].arg /\ sock[a].type = "tcp"
         /\ \/ sock[a].pcb = p
            \/ sock[a].connection = p /\ Waiting(pcb[p])
  BY <1>1, Connection
<1>3. CASE sock[a].pcb = p
  <2>1. SNDBUF \in Int /\ pcb[p].st \in {"syn", "estab"} /\ sock[a].type = "tcp"
    BY <1>1, <1>2
  <2>2. QED
    BY <1>1, <1>3, <2>1, BufferStep
<1>4. CASE sock[a].connection = p /\ Waiting(pcb[p])
  <2> DEFINE q == [pcb[p] EXCEPT !.snd = SNDBUF]
  <2>1. pcb[p] \in Pcbs /\ KeptFor(pcb[p])
    BY DEF SocketInv, SocketTypeOK, KeptInv
  <2>2. /\ q \in Pcbs /\ q.ended = pcb[p].ended /\ q.st = pcb[p].st /\ q.arg = pcb[p].arg /\ q.err = pcb[p].err
        /\ q.recv = pcb[p].recv /\ q.refused = pcb[p].refused /\ q.wnd = pcb[p].wnd /\ q.sent = pcb[p].sent
        /\ q.fin = pcb[p].fin
    BY <2>1 DEF Pcbs
  <2>3. pcb' = [pcb EXCEPT ![p] = q]
    BY <1>1
  <2> HIDE DEF q
  <2>4. KeptFor(q) /\ Waiting(q) /\ q.arg = a
    BY <1>2, <1>4, <2>1, <2>2 DEF KeptFor, Waiting
  <2>5. QED
    BY <1>1, <1>2, <1>4, <2>2, <2>3, <2>4, WaitStep
<1>5. QED
  BY <1>2, <1>3, <1>4

LEMMA DatagramArrivesInv ==
  ASSUME SocketInv, NEW p \in Pcb, NEW src \in Source, DatagramArrives(p, src)
  PROVE  SocketInv'
<1>1. pcb[p].recv = "udp" /\ pcb[p] \in Pcbs /\ KeptFor(pcb[p])
  BY DEF DatagramArrives, SocketInv, SocketTypeOK, KeptInv
<1>2. PICK a \in Sock : a = pcb[p].arg /\ (sock[a].pcb = p \/ sock[a].connection = p) /\ pcb[p].st # "free"
  BY <1>1 DEF SocketInv, PcbInv
<1>3. sock[a].pcb = p /\ p # NULL
  BY <1>1, <1>2 DEF SocketInv, SlotInv, SlotGone, Waiting
<1>4. sock[a] \in Sockets /\ Own(a, sock[a], pcb[p]) /\ sock[a].type \in {"tcp", "udp"}
  BY <1>3, OwnFacts
<1>5. sock[a].type = "udp"
  BY <1>1, <1>2, <1>3, <1>4 DEF Own, Pcbs
<1> DEFINE d == [from |-> src, len |-> 1]
           s == [sock[a] EXCEPT !.pbuf = d]
           o == [s EXCEPT !.peer = src]
<1>6. d \in Buffers /\ d.from = src
  BY DEF Buffers
<1>7. sock' = [sock EXCEPT ![a] = o] /\ pcb' = [pcb EXCEPT ![p] = pcb[p]] /\ call' = call /\ resetWaiting' = resetWaiting
  <2>1. o = [sock[a] EXCEPT !.pbuf = d, !.peer = src]
    BY <1>4 DEF Sockets
  <2>2. /\ sock' = [sock EXCEPT ![a].pbuf = d, ![a].peer = src]
        /\ pcb' = pcb /\ call' = call /\ resetWaiting' = resetWaiting
    BY <1>2 DEF DatagramArrives, Kept
  <2>3. QED
    BY <2>1, <2>2 DEF SocketInv, SocketTypeOK
<1> HIDE DEF d
<1>8. /\ s \in Sockets /\ s.type = "udp" /\ s.pcb = p /\ s.connection = sock[a].connection
      /\ s.state = sock[a].state /\ s.pbuf = d
  BY <1>3, <1>4, <1>5, <1>6 DEF Sockets
<1> HIDE DEF s
<1>9. /\ o \in Sockets /\ o.type = "udp" /\ o.pcb = p /\ o.connection = sock[a].connection
      /\ o.state = sock[a].state /\ o.pbuf = d /\ o.peer = src
  BY <1>8 DEF Sockets
<1> HIDE DEF o
<1>10. Own(a, o, pcb[p])
  BY <1>3, <1>4, <1>5, <1>6, <1>9 DEF Own
<1>11. Arrived(o, pcb[p])
  BY <1>9 DEF Arrived
<1>12. QED
  BY <1>1, <1>3, <1>5, <1>7, <1>9, <1>10, <1>11, OwnStep

LEMMA NetworkInv == ASSUME SocketInv, Network PROVE SocketInv'
<1>1. CASE NameFound
  <2>1. CallInv' /\ UNCHANGED <<sock, pcb, resetWaiting>>
    BY <1>1 DEF NameFound, Return, CallInv
  <2>2. QED
    BY <2>1, SameStep
<1>2. QED
  BY <1>1, EstablishedInv, ResetArrivesInv, FinArrivesInv, CloseDoneInv, AckArrivesInv, RedeliverInv,
     DataArrivesInv, DatagramArrivesInv, SynArrivesInv DEF Network

-----------------------------------------------------------------------------
(* The script.                                                             *)

LEMMA MakeNewInv ==
  ASSUME SocketInv, NEW a \in Sock, NEW type \in {"tcp", "udp"}, MakeNew(a, type) PROVE SocketInv'
<1>1. /\ sock[a].type = "none" /\ \A x \in Pcb : pcb[x].arg # a
      /\ call' = Idle /\ resetWaiting' = resetWaiting
  BY DEF MakeNew, Places, Running, Quiet
<1>2. PICK p \in Pcb :
         /\ pcb[p].st = "free"
         /\ sock' = [sock EXCEPT ![a] = [NoSock EXCEPT !.type = type, !.pcb = p]]
         /\ pcb' = [pcb EXCEPT ![p] = [FreePcb EXCEPT !.st = "closed", !.arg = a, !.err = type = "tcp",
                                                      !.recv = IF type = "udp" THEN "udp" ELSE "none"]]
  BY DEF MakeNew
<1> DEFINE o == [NoSock EXCEPT !.type = type, !.pcb = p]
           q == [FreePcb EXCEPT !.st = "closed", !.arg = a, !.err = type = "tcp",
                                !.recv = IF type = "udp" THEN "udp" ELSE "none"]
<1>3. /\ o \in Sockets /\ o.type = type /\ o.pcb = p /\ o.connection = NULL /\ o.state = "new"
      /\ o.pbuf = NULL /\ o.leftover = 0 /\ o.got = 0 /\ ~o.eof
  BY DEF NoSock, Sockets
<1>4. /\ q \in Pcbs /\ q.st = "closed" /\ q.arg = a /\ (q.err <=> type = "tcp") /\ ~q.ended /\ q.refused = NULL
      /\ q.recv = (IF type = "udp" THEN "udp" ELSE "none") /\ q.wnd = WND /\ q.sent = 0
  <2> DEFINE x == [FreePcb EXCEPT !.st = "closed"]
             y == [x EXCEPT !.arg = a]
             z == [y EXCEPT !.err = type = "tcp"]
  <2>1. x \in Pcbs /\ x.st = "closed" /\ ~x.ended /\ x.refused = NULL /\ x.wnd = WND /\ x.sent = 0
    BY ClearedRecords DEF FreePcb, Pcbs
  <2>2. q = [z EXCEPT !.recv = IF type = "udp" THEN "udp" ELSE "none"]
    BY ClearedRecords DEF Pcbs
  <2> HIDE DEF x, q
  <2>3. y \in Pcbs /\ y.st = "closed" /\ ~y.ended /\ y.refused = NULL /\ y.wnd = WND /\ y.sent = 0 /\ y.arg = a
    BY <2>1 DEF Pcbs
  <2> HIDE DEF y
  <2>4. /\ z \in Pcbs /\ z.st = "closed" /\ ~z.ended /\ z.refused = NULL /\ z.wnd = WND /\ z.sent = 0
        /\ z.arg = a /\ (z.err <=> type = "tcp")
    BY <2>3 DEF Pcbs
  <2> HIDE DEF z
  <2>5. QED
    BY <2>2, <2>4 DEF Pcbs
<1>5. sock' = [sock EXCEPT ![a] = o] /\ pcb' = [pcb EXCEPT ![p] = q]
  BY <1>2
<1> HIDE DEF o, q
<1>6. Own(a, o, q)
  BY <1>3, <1>4 DEF Own
<1>7. KeptFor(q)
  BY <1>4 DEF KeptFor
<1>8. Arrived(o, q)
  BY <1>3, <1>4 DEF Arrived, HeldBy, Refused
<1>9. \/ pcb[p].st = "free" /\ sock' = [sock EXCEPT ![a] = o]
      \/ \E b \in Sock : /\ sock[b].connection = p /\ ~SlotGone(b)
                         /\ sock' = [sock EXCEPT ![b].connection = NULL, ![a] = o]
  BY <1>2, <1>5
<1>10. o.type \in {"tcp", "udp"} /\ q.st # "listen"
  BY <1>3, <1>4
<1>11. QED
  BY <1>1, <1>3, <1>4, <1>5, <1>6, <1>7, <1>8, <1>9, <1>10, NewStep

LEMMA CloseSocketInv == ASSUME SocketInv, NEW a \in Sock, CloseSocket(a) PROVE SocketInv'
<1>1. CASE SlotGone(a)
  BY <1>1, FaultInv DEF CloseSocket
<1>2. CASE ~SlotGone(a) /\ sock[a].pcb = NULL
  <2>1. UNCHANGED <<sock, pcb, resetWaiting>> /\ CallInv'
    BY <1>2 DEF CloseSocket, Close, Quiet, Ready, Running, CallInv
  <2>2. QED
    BY <2>1, SameStep
<1>3. CASE ~SlotGone(a) /\ sock[a].pcb # NULL
  <2> DEFINE o == Dead(a, "badf")
  <2>1. /\ o \in Sockets /\ o.type = sock[a].type /\ o.state = "badf" /\ o.pcb = NULL /\ o.connection = NULL /\ o.pbuf = NULL
    BY DEF SocketInv, SocketTypeOK, Sockets, Dead, NoSock
  <2>2. /\ sock' = [sock EXCEPT ![a] = o]
        /\ pcb' = [p \in Pcb |-> IF p = sock[a].pcb THEN Closing(pcb[p])
                                 ELSE IF p = sock[a].connection THEN FreePcb ELSE pcb[p]]
        /\ call' = Idle /\ resetWaiting' = resetWaiting
    BY <1>3 DEF CloseSocket, Close, Quiet, Ready, Running
  <2> HIDE DEF o
  <2>3. QED
    BY <1>3, <2>1, <2>2, CloseStep
<1>4. QED
  BY <1>1, <1>2, <1>3

LEMMA FinaliseInv == ASSUME SocketInv, NEW a \in Sock, Finalise(a) PROVE SocketInv'
<1>1. CASE SlotGone(a)
  BY <1>1, FaultInv DEF Finalise
<1>2. CASE ~SlotGone(a)
  <2>1. /\ sock' = [sock EXCEPT ![a] = NoSock]
        /\ pcb' = [p \in Pcb |-> IF p = sock[a].pcb THEN Closing(pcb[p])
                                 ELSE IF p = sock[a].connection THEN FreePcb ELSE pcb[p]]
        /\ call' = Idle /\ resetWaiting' = resetWaiting
    BY <1>2 DEF Finalise, Quiet, Ready, Running
  <2>2. QED
    BY <1>2, <2>1, CloseStep, ClearedRecords
<1>3. QED
  BY <1>1, <1>2

LEMMA SetTimeoutInv == ASSUME SocketInv, NEW a \in Sock, NEW t \in Timeout, SetTimeout(a, t) PROVE SocketInv'
<1> DEFINE o == [sock[a] EXCEPT !.timeout = t]
<1>1. /\ o \in Sockets /\ o.type = sock[a].type /\ o.pcb = sock[a].pcb /\ o.connection = sock[a].connection
      /\ o.state = sock[a].state /\ o.pbuf = sock[a].pbuf /\ o.leftover = sock[a].leftover
      /\ o.got = sock[a].got /\ o.eof = sock[a].eof /\ o.peer = sock[a].peer
  BY DEF SocketInv, SocketTypeOK, Sockets
<1>2. sock' = [sock EXCEPT ![a] = o] /\ pcb' = pcb /\ call' = call /\ resetWaiting' = resetWaiting
  BY DEF SetTimeout, Quiet, SocketInv, SocketTypeOK
<1> HIDE DEF o
<1>3. CASE sock[a].pcb = NULL
  <2>1. sock[a].connection = NULL /\ sock[a].pbuf = NULL /\ (o.type # "none" => o.state \in {"error", "badf", "peer_closed"})
    BY <1>1, <1>3 DEF SocketInv, OwnInv, Own
  <2>2. QED
    BY <1>1, <1>2, <1>3, <2>1, DeadStep
<1>4. CASE sock[a].pcb # NULL
  <2> DEFINE p == sock[a].pcb
  <2>1. /\ p \in Pcb /\ pcb[p] \in Pcbs /\ Own(a, sock[a], pcb[p]) /\ Arrived(sock[a], pcb[p])
        /\ KeptFor(pcb[p])
    BY <1>4, OwnFacts
  <2>2. pcb' = [pcb EXCEPT ![p] = pcb[p]]
    BY <1>2, <2>1 DEF SocketInv, SocketTypeOK
  <2> HIDE DEF p
  <2>3. Own(a, o, pcb[p])
    BY <1>1, <2>1 DEF Own
  <2>4. Arrived(o, pcb[p])
    BY <1>1, <2>1 DEF Arrived, HeldBy, LeftOf
  <2>5. sock[a].pcb = p
    BY DEF p
  <2>6. QED
    BY <1>1, <1>2, <2>1, <2>2, <2>3, <2>4, <2>5, OwnStep
<1>5. QED
  BY <1>3, <1>4

LEMMA ListenInv == ASSUME SocketInv, NEW a \in Sock, Listen(a) PROVE SocketInv'
<1> DEFINE p == sock[a].pcb
           x == [pcb[p] EXCEPT !.st = "listen"]
           q == [x EXCEPT !.err = FALSE]
<1>1. sock[a].type = "tcp" /\ p # NULL /\ pcb[p].st = "closed" /\ sock[a].state = "new"
  BY DEF Listen, Tcp, Owned
<1>2. /\ p \in Pcb /\ pcb[p] \in Pcbs /\ Own(a, sock[a], pcb[p]) /\ Arrived(sock[a], pcb[p])
      /\ KeptFor(pcb[p]) /\ sock[a] \in Sockets
  BY <1>1, OwnFacts
<1>3. q = [pcb[p] EXCEPT !.st = "listen", !.err = FALSE]
  BY <1>2 DEF Pcbs
<1>4. /\ sock' = [sock EXCEPT ![a] = sock[a]] /\ pcb' = [pcb EXCEPT ![p] = q]
      /\ call' = call /\ resetWaiting' = resetWaiting
  BY <1>3 DEF Listen, Quiet, SocketInv, SocketTypeOK
<1>5. /\ x \in Pcbs /\ x.st = "listen" /\ x.arg = pcb[p].arg /\ x.recv = pcb[p].recv
      /\ x.refused = pcb[p].refused /\ x.wnd = pcb[p].wnd /\ x.sent = pcb[p].sent /\ x.ended = pcb[p].ended
  BY <1>2 DEF Pcbs
<1>6. sock[a].pcb = p
  OBVIOUS
<1> HIDE DEF p, x
<1>7. /\ q \in Pcbs /\ q.st = "listen" /\ q.arg = pcb[p].arg /\ q.recv = pcb[p].recv
      /\ q.refused = pcb[p].refused /\ q.wnd = pcb[p].wnd /\ q.sent = pcb[p].sent /\ q.ended = pcb[p].ended
  BY <1>5 DEF Pcbs
<1> HIDE DEF q
<1>8. Own(a, sock[a], q)
  BY <1>1, <1>2, <1>6, <1>7 DEF Own
<1>9. KeptFor(q)
  BY <1>1, <1>2, <1>7 DEF KeptFor
<1>10. Arrived(sock[a], q)
  BY <1>1, <1>2, <1>7 DEF Arrived, Refused
<1>11. QED
  BY <1>1, <1>2, <1>4, <1>6, <1>7, <1>8, <1>9, <1>10, OwnStep

LEMMA ConnectInv ==
  ASSUME SocketInv, NEW a \in Sock, sock[a].type = "tcp", sock[a].state = "new", Owned(a, "closed"),
         sock' = [sock EXCEPT ![a].state = "connecting"],
         pcb' = [pcb EXCEPT ![sock[a].pcb] = [@ EXCEPT !.st = "syn", !.recv = "socket"]],
         Begin("connect", a, 0), resetWaiting' = resetWaiting
  PROVE  SocketInv'
<1> DEFINE p == sock[a].pcb
           o == [sock[a] EXCEPT !.state = "connecting"]
           x == [pcb[p] EXCEPT !.st = "syn"]
           q == [x EXCEPT !.recv = "socket"]
<1>1. sock[a].type = "tcp" /\ p # NULL /\ pcb[p].st = "closed" /\ sock[a].state = "new"
  BY DEF Owned
<1>2. /\ p \in Pcb /\ pcb[p] \in Pcbs /\ Own(a, sock[a], pcb[p]) /\ Arrived(sock[a], pcb[p])
      /\ KeptFor(pcb[p]) /\ sock[a] \in Sockets
  BY <1>1, OwnFacts
<1>3. q = [pcb[p] EXCEPT !.st = "syn", !.recv = "socket"]
  BY <1>2 DEF Pcbs
<1>4. /\ sock' = [sock EXCEPT ![a] = o] /\ pcb' = [pcb EXCEPT ![p] = q]
      /\ call' = [op |-> "connect", sock |-> a, n |-> 0] /\ resetWaiting' = resetWaiting
  BY <1>3 DEF Begin
<1>5. /\ x \in Pcbs /\ x.st = "syn" /\ x.arg = pcb[p].arg /\ x.err = pcb[p].err /\ x.fin = pcb[p].fin
      /\ x.refused = pcb[p].refused /\ x.wnd = pcb[p].wnd /\ x.sent = pcb[p].sent /\ x.ended = pcb[p].ended
  BY <1>2 DEF Pcbs
<1>6. /\ o \in Sockets /\ o.state = "connecting" /\ o.type = "tcp" /\ o.pcb = p
      /\ o.connection = sock[a].connection /\ o.pbuf = sock[a].pbuf /\ o.leftover = sock[a].leftover
      /\ o.got = sock[a].got /\ o.eof = sock[a].eof /\ sock[a].pcb = p
  BY <1>1, <1>2 DEF Sockets
<1> HIDE DEF p, o, x
<1>7. /\ q \in Pcbs /\ q.st = "syn" /\ q.arg = pcb[p].arg /\ q.err = pcb[p].err /\ q.recv = "socket"
      /\ q.refused = pcb[p].refused /\ q.wnd = pcb[p].wnd /\ q.sent = pcb[p].sent /\ q.ended = pcb[p].ended
      /\ q.fin = pcb[p].fin
  BY <1>5 DEF Pcbs
<1> HIDE DEF q
<1>8. Own(a, o, q)
  BY <1>1, <1>2, <1>6, <1>7 DEF Own
<1>9. KeptFor(q)
  BY <1>1, <1>2, <1>7 DEF KeptFor
<1>10. Arrived(o, q)
  BY <1>1, <1>2, <1>6, <1>7 DEF Arrived, Refused, HeldBy, LeftOf
<1>11. CallInv'
  <2>1. sock'[a] = o
    BY <1>4 DEF SocketInv, SocketTypeOK
  <2>2. call'.op = "connect" /\ call'.sock = a /\ call'.n \in Int
    BY <1>4
  <2>3. QED
    BY <1>6, <2>1, <2>2 DEF CallInv
<1>12. QED
  BY <1>1, <1>2, <1>4, <1>6, <1>7, <1>8, <1>9, <1>10, <1>11, OwnStep

LEMMA AcceptInv == ASSUME SocketInv, NEW a \in Sock, Accept(a) PROVE SocketInv'
<1>1. /\ UNCHANGED <<sock, pcb, resetWaiting>> /\ sock[a].type = "tcp" /\ Owned(a, "listen")
      /\ call'.op = "accept" /\ call'.sock = a /\ call'.n \in Int
  BY DEF Accept, Begin, Tcp
<1>2. CallInv'
  BY <1>1 DEF CallInv, Owned
<1>3. QED
  BY <1>1, <1>2, SameStep

(* Calls that begin without a socket, and calls that end and change none.  *)
LEMMA IdleInv ==
  ASSUME SocketInv, sock' = sock, pcb' = pcb, resetWaiting' = resetWaiting,
         call' = Idle \/ call' = [op |-> "dns", sock |-> NULL, n |-> 0]
  PROVE  SocketInv'
<1>1. CallInv'
  BY DEF CallInv
<1>2. QED
  BY <1>1, SameStep

(* A connection that waits becomes a socket of its own.                    *)
LEMMA AcceptReturnsInv == ASSUME SocketInv, NEW b \in Sock, AcceptReturns(b) PROVE SocketInv'
<1>1. CASE Fault("slot")
  BY <1>1, FaultInv
<1>2. CASE UNCHANGED <<sock, pcb>> /\ Return
  <2>1. sock' = sock /\ pcb' = pcb /\ resetWaiting' = resetWaiting /\ call' = Idle
    BY <1>2 DEF Return
  <2>2. QED
    BY <2>1, IdleInv
<1> DEFINE p == sock[b].connection
<1>3. ASSUME NEW a \in Places, ~SlotGone(b), Return,
             sock' = [sock EXCEPT ![b].connection = NULL,
                                  ![a] = [NoSock EXCEPT !.type = "tcp", !.pcb = sock[b].connection,
                                             !.state = "connected", !.timeout = sock[b].timeout]],
             pcb' = [pcb EXCEPT ![p] = [@ EXCEPT !.arg = a, !.err = TRUE, !.recv = "socket"]]
      PROVE  SocketInv'
  <2>1. a \in Sock /\ sock[a].type = "none" /\ \A x \in Pcb : pcb[x].arg # a
    BY DEF Places
  <2>2. p \in Pcb /\ pcb[p] \in Pcbs /\ Waiting(pcb[p]) /\ KeptFor(pcb[p]) /\ sock[b] \in Sockets
    BY <1>3 DEF AcceptReturns, SocketInv, SocketTypeOK, Sockets, SlotInv, KeptInv
  <2> DEFINE o == [NoSock EXCEPT !.type = "tcp", !.pcb = sock[b].connection,
                                 !.state = "connected", !.timeout = sock[b].timeout]
             x == [pcb[p] EXCEPT !.arg = a]
             y == [x EXCEPT !.err = TRUE]
             q == [y EXCEPT !.recv = "socket"]
  <2>3. /\ o \in Sockets /\ o.type = "tcp" /\ o.pcb = p /\ o.state = "connected" /\ o.connection = NULL
        /\ o.pbuf = NULL /\ o.leftover = 0 /\ o.got = 0 /\ ~o.eof
    <3> DEFINE s == [NoSock EXCEPT !.type = "tcp"]
               t == [s EXCEPT !.pcb = sock[b].connection]
               u == [t EXCEPT !.state = "connected"]
    <3>1. /\ s \in Sockets /\ s.type = "tcp" /\ s.connection = NULL /\ s.pbuf = NULL /\ s.leftover = 0
          /\ s.got = 0 /\ ~s.eof
      BY ClearedRecords, ZenonT(40) DEF NoSock, Sockets
    <3>2. o = [u EXCEPT !.timeout = sock[b].timeout]
      BY ClearedRecords DEF Sockets
    <3> HIDE DEF s, o
    <3>3. /\ t \in Sockets /\ t.type = "tcp" /\ t.connection = NULL /\ t.pbuf = NULL /\ t.leftover = 0
          /\ t.got = 0 /\ ~t.eof /\ t.pcb = p
      BY <2>2, <3>1 DEF Sockets
    <3> HIDE DEF t
    <3>4. /\ u \in Sockets /\ u.type = "tcp" /\ u.connection = NULL /\ u.pbuf = NULL /\ u.leftover = 0
          /\ u.got = 0 /\ ~u.eof /\ u.pcb = p /\ u.state = "connected"
      BY <3>3 DEF Sockets
    <3> HIDE DEF u
    <3>5. sock[b].timeout \in Timeout \cup {None}
      BY <2>2 DEF Sockets
    <3>6. QED
      BY <3>2, <3>4, <3>5 DEF Sockets
  <2>4. q = [pcb[p] EXCEPT !.arg = a, !.err = TRUE, !.recv = "socket"]
    BY <2>2 DEF Pcbs
  <2>5. sock' = [sock EXCEPT ![b].connection = NULL, ![a] = o] /\ pcb' = [pcb EXCEPT ![p] = q]
    BY <1>3, <2>4
  <2>6. sock[b].connection = p
    OBVIOUS
  <2> HIDE DEF p, o
  <2>7. /\ x \in Pcbs /\ x.st = "estab" /\ x.arg = a /\ x.fin = pcb[p].fin
        /\ x.refused = pcb[p].refused /\ x.wnd = pcb[p].wnd /\ x.sent = pcb[p].sent /\ x.ended = pcb[p].ended
    BY <2>1, <2>2 DEF Pcbs, Waiting
  <2> HIDE DEF x
  <2>8. /\ y \in Pcbs /\ y.st = "estab" /\ y.arg = a /\ y.fin = pcb[p].fin /\ y.err
        /\ y.refused = pcb[p].refused /\ y.wnd = pcb[p].wnd /\ y.sent = pcb[p].sent /\ y.ended = pcb[p].ended
    BY <2>7 DEF Pcbs
  <2> HIDE DEF y
  <2>9. /\ q \in Pcbs /\ q.st = "estab" /\ q.arg = a /\ q.fin = pcb[p].fin /\ q.err /\ q.recv = "socket"
        /\ q.refused = pcb[p].refused /\ q.wnd = pcb[p].wnd /\ q.sent = pcb[p].sent /\ q.ended = pcb[p].ended
    BY <2>8 DEF Pcbs
  <2> HIDE DEF q
  <2>10. Own(a, o, q)
    BY <2>2, <2>3, <2>9 DEF Own
  <2>11. KeptFor(q)
    BY <2>2, <2>9 DEF KeptFor, Waiting
  <2>12. Arrived(o, q)
    <3>1. /\ pcb[p].wnd + pcb[p].sent = WND /\ pcb[p].sent = Refused(pcb[p])
          /\ pcb[p].refused # NULL => pcb[p].refused.from = 0
      BY <2>2 DEF KeptFor, Waiting, Refused
    <3>2. HeldBy(o) = 0 /\ Refused(q) = pcb[p].sent /\ pcb[p].sent \in Nat /\ pcb[p].wnd \in Int
      BY <2>2, <2>3, <2>9, <3>1 DEF HeldBy, Refused, Pcbs
    <3>3. QED
      BY <2>3, <2>9, <3>1, <3>2 DEF Arrived
  <2>13. call' = Idle /\ resetWaiting' = resetWaiting
    BY <1>3 DEF Return
  <2>14. \E c \in Sock : /\ sock[c].connection = p /\ ~SlotGone(c)
                         /\ sock' = [sock EXCEPT ![c].connection = NULL, ![a] = o]
    BY <1>3, <2>5, <2>6
  <2>15. o.type \in {"tcp", "udp"} /\ q.st # "listen"
    BY <2>3, <2>9
  <2>16. p \in Pcb /\ a \in Sock
    BY <2>1, <2>2
  <2>17. QED
    BY <2>1, <2>3, <2>5, <2>9, <2>10, <2>11, <2>12, <2>13, <2>14, <2>15, <2>16, NewStep, ZenonT(40)
<1>4. QED
  BY <1>1, <1>2, <1>3 DEF AcceptReturns

LEMMA NotConnectedInv == ASSUME SocketInv, NEW a \in Sock, NotConnected(a) PROVE SocketInv'
<1>1. CASE Fault("index")
  BY <1>1, FaultInv
<1>2. CASE /\ sock' = [sock EXCEPT ![a].state = "badf"] /\ pcb' = pcb /\ call' = call /\ resetWaiting' = resetWaiting
  <2> DEFINE o == [sock[a] EXCEPT !.state = "badf"]
  <2>1. sock[a].pcb = NULL /\ sock[a].connection = NULL /\ sock[a].pbuf = NULL
    BY DEF NotConnected, SocketInv, OwnInv, Own
  <2>2. /\ o \in Sockets /\ o.type = sock[a].type /\ o.pcb = NULL /\ o.connection = NULL /\ o.state = "badf" /\ o.pbuf = NULL
    BY <2>1 DEF SocketInv, SocketTypeOK, Sockets
  <2>3. sock' = [sock EXCEPT ![a] = o]
    BY <1>2
  <2> HIDE DEF o
  <2>4. QED
    BY <1>2, <2>1, <2>2, <2>3, DeadStep
<1>3. QED
  BY <1>1, <1>2 DEF NotConnected, Quiet

(* What a script takes of the buffer its socket holds.                     *)
LEMMA TakeInv ==
  ASSUME SocketInv, NEW a \in Sock, NEW n \in Nat, n > 0, sock[a].type = "tcp", sock[a].pcb # NULL,
         sock[a].pbuf # NULL, Take(a, n), resetWaiting' = resetWaiting, call' = call \/ call' = Idle
  PROVE  SocketInv'
<1> DEFINE p == sock[a].pcb
           left == LeftIn(a)
           taken == IF left >= n THEN n ELSE left
           s == [sock[a] EXCEPT !.got = @ + taken]
           t == [s EXCEPT !.leftover = IF left > n THEN left - n ELSE 0]
           o == [t EXCEPT !.pbuf = IF left > n THEN @ ELSE NULL]
           q == [pcb[p] EXCEPT !.wnd = @ + taken]
<1>1. /\ p \in Pcb /\ p # NULL /\ sock[a] \in Sockets /\ pcb[p] \in Pcbs
      /\ Own(a, sock[a], pcb[p]) /\ Arrived(sock[a], pcb[p]) /\ KeptFor(pcb[p])
  BY OwnFacts
<1>2. /\ sock[a].got \in Nat /\ sock[a].leftover \in Nat /\ sock[a].pbuf \in Buffers /\ sock[a].pbuf.len \in Nat
      /\ pcb[p].wnd \in Int /\ pcb[p].sent \in Nat
  BY <1>1 DEF Sockets, Pcbs, Buffers
<1>3. /\ pcb[p].st = "estab" /\ sock[a].pbuf.from \in Nat /\ left \in Nat /\ left > 0
      /\ left <= sock[a].pbuf.len /\ left = LeftOf(sock[a]) /\ HeldBy(sock[a]) = left
      /\ sock[a].got = sock[a].pbuf.from + (sock[a].pbuf.len - left)
      /\ pcb[p].sent = sock[a].got + left + Refused(pcb[p])
      /\ pcb[p].refused # NULL => pcb[p].refused.from = sock[a].got + left
      /\ pcb[p].wnd + (pcb[p].sent - sock[a].got) = WND
      /\ sock[a].state = "peer_closed" => pcb[p].ended /\ pcb[p].refused = NULL
      /\ ~sock[a].eof
  BY <1>1, <1>2 DEF Arrived, HeldBy, LeftOf, LeftIn
<1>4. taken \in Nat /\ taken <= left /\ (left > n => taken = n) /\ (~(left > n) => taken = left)
  BY <1>3
<1>5. sock' = [sock EXCEPT ![a] = o] /\ pcb' = [pcb EXCEPT ![p] = q]
  <2> DEFINE e == [sock[a] EXCEPT !.got = @ + taken, !.leftover = IF left > n THEN left - n ELSE 0,
                                  !.pbuf = IF left > n THEN @ ELSE NULL]
  <2>1. o = e
    BY <1>1 DEF Sockets
  <2>2. sock' = [sock EXCEPT ![a] = e]
    BY DEF Take
  <2>3. pcb' = [pcb EXCEPT ![p].wnd = @ + taken]
    BY DEF Take
  <2>4. pcb' = [pcb EXCEPT ![p] = q]
    BY <2>3
  <2> HIDE DEF o, e, q
  <2>5. QED
    BY <2>1, <2>2, <2>4
<1>6. sock[a].pcb = p
  OBVIOUS
<1> HIDE DEF p, left, taken
<1>7. /\ s \in Sockets /\ s.type = "tcp" /\ s.pcb = p /\ s.state = sock[a].state
      /\ s.connection = sock[a].connection /\ s.pbuf = sock[a].pbuf /\ s.eof = sock[a].eof
      /\ s.got = sock[a].got + taken
  BY <1>1, <1>2, <1>4, <1>6 DEF Sockets
<1>8. /\ q \in Pcbs /\ q.st = "estab" /\ q.arg = pcb[p].arg /\ q.err = pcb[p].err /\ q.recv = pcb[p].recv
      /\ q.refused = pcb[p].refused /\ q.wnd = pcb[p].wnd + taken /\ q.sent = pcb[p].sent
      /\ q.ended = pcb[p].ended /\ q.fin = pcb[p].fin
  BY <1>1, <1>2, <1>3, <1>4 DEF Pcbs
<1> HIDE DEF s, q
<1>9. /\ t \in Sockets /\ t.type = "tcp" /\ t.pcb = p /\ t.state = sock[a].state
      /\ t.connection = sock[a].connection /\ t.pbuf = sock[a].pbuf /\ t.eof = sock[a].eof
      /\ t.got = sock[a].got + taken /\ t.leftover = IF left > n THEN left - n ELSE 0
  BY <1>3, <1>7 DEF Sockets
<1> HIDE DEF t
<1>10. /\ o \in Sockets /\ o.type = "tcp" /\ o.pcb = p /\ o.state = sock[a].state
       /\ o.connection = sock[a].connection /\ o.pbuf = (IF left > n THEN sock[a].pbuf ELSE NULL)
       /\ o.eof = sock[a].eof
       /\ o.got = sock[a].got + taken /\ o.leftover = IF left > n THEN left - n ELSE 0
  BY <1>9 DEF Sockets
<1> HIDE DEF o
<1>11. Own(a, o, q)
  BY <1>1, <1>3, <1>8, <1>10 DEF Own
<1>12. KeptFor(q)
  BY <1>1, <1>3, <1>8, <1>11 DEF KeptFor, Own
<1>13. Refused(q) = Refused(pcb[p]) /\ Refused(q) \in Nat
  BY <1>1, <1>8 DEF Refused, Pcbs, Buffers
<1>14. Arrived(o, q)
  <2>1. CASE left > n
    <3>1. /\ o.leftover = left - n /\ o.pbuf = sock[a].pbuf /\ o.got = sock[a].got + n /\ taken = n
          /\ LeftOf(o) = left - n /\ HeldBy(o) = left - n
      BY <1>3, <1>4, <1>10, <2>1 DEF LeftOf, HeldBy
    <3>2. QED
      BY <1>2, <1>3, <1>8, <1>10, <1>13, <2>1, <3>1 DEF Arrived
  <2>2. CASE ~(left > n)
    <3>1. o.leftover = 0 /\ o.pbuf = NULL /\ o.got = sock[a].got + left /\ taken = left /\ HeldBy(o) = 0
      BY <1>4, <1>10, <2>2 DEF HeldBy
    <3>2. QED
      BY <1>2, <1>3, <1>8, <1>10, <1>13, <3>1 DEF Arrived
  <2>3. QED
    BY <2>1, <2>2
<1>15. CallInv' \/ (call' = call /\ o.state = sock[a].state)
  BY <1>10 DEF CallInv
<1>16. QED
  BY <1>1, <1>3, <1>5, <1>6, <1>8, <1>10, <1>11, <1>12, <1>14, <1>15, OwnStep

(* A script is told the end of a stream.                                   *)
LEMMA EndInv ==
  ASSUME SocketInv, NEW a \in Sock, sock[a].type = "tcp", sock[a].state = "peer_closed",
         sock[a].pbuf = NULL, EndOfStream(a), resetWaiting' = resetWaiting, call' = call \/ call' = Idle
  PROVE  SocketInv'
<1> DEFINE o == [sock[a] EXCEPT !.eof = TRUE]
<1>1. /\ o \in Sockets /\ o.type = "tcp" /\ o.state = "peer_closed" /\ o.pcb = sock[a].pcb
      /\ o.connection = sock[a].connection /\ o.pbuf = NULL /\ o.leftover = sock[a].leftover
      /\ o.got = sock[a].got
  <2>1. sock[a] \in Sockets
    BY DEF SocketInv, SocketTypeOK
  <2>2. QED
    BY <2>1 DEF Sockets
<1>2. sock' = [sock EXCEPT ![a] = o] /\ pcb' = pcb
  BY DEF EndOfStream
<1> HIDE DEF o
<1>3. CASE sock[a].pcb = NULL
  <2>1. sock[a].connection = NULL
    BY <1>3 DEF SocketInv, OwnInv, Own
  <2>2. QED
    BY <1>1, <1>2, <1>3, <2>1, DeadStep
<1>4. CASE sock[a].pcb # NULL
  <2> DEFINE p == sock[a].pcb
  <2>1. /\ p \in Pcb /\ pcb[p] \in Pcbs /\ Own(a, sock[a], pcb[p]) /\ Arrived(sock[a], pcb[p])
        /\ KeptFor(pcb[p])
    BY <1>4, OwnFacts
  <2>2. pcb' = [pcb EXCEPT ![p] = pcb[p]] /\ sock[a].pcb = p
    BY <1>2, <2>1 DEF SocketInv, SocketTypeOK
  <2> HIDE DEF p
  <2>3. Own(a, o, pcb[p])
    BY <1>1, <2>1, <2>2 DEF Own
  <2>4. Arrived(o, pcb[p])
    BY <1>1, <1>4, <2>1, <2>2 DEF Arrived, HeldBy, Own
  <2>5. CallInv' \/ (call' = call /\ o.state = sock[a].state)
    BY <1>1 DEF CallInv
  <2>6. QED
    BY <1>1, <1>2, <2>1, <2>2, <2>3, <2>4, <2>5, OwnStep
<1>5. QED
  BY <1>3, <1>4

LEMMA RecvInv == ASSUME SocketInv, NEW a \in Sock, NEW n \in 1 .. MaxBytes, Recv(a, n) PROVE SocketInv'
<1>1. sock[a].type = "tcp" /\ sock[a].pcb # NULL /\ n \in Nat /\ n > 0
  BY DEF Recv, Tcp
<1>2. CASE sock[a].pbuf # NULL /\ Take(a, n) /\ Quiet
  BY <1>1, <1>2, TakeInv DEF Quiet
<1>3. CASE sock[a].pbuf = NULL /\ sock[a].state = "peer_closed" /\ EndOfStream(a) /\ Quiet
  BY <1>1, <1>3, EndInv DEF Quiet
<1>4. CASE /\ sock[a].pbuf = NULL /\ sock[a].state = "connected" /\ sock[a].timeout # 0
           /\ Begin("recv", a, n) /\ UNCHANGED <<sock, pcb, fault, resetWaiting>>
  <2>1. /\ UNCHANGED <<sock, pcb, resetWaiting>>
        /\ call'.op = "recv" /\ call'.sock = a /\ call'.n = n
    BY <1>4 DEF Begin
  <2>2. CallInv'
    BY <1>1, <1>4, <2>1 DEF CallInv
  <2>3. QED
    BY <2>1, <2>2, SameStep
<1>5. CASE Fault("assert") \/ Fault("listener")
  BY <1>5, FaultInv
<1>6. QED
  BY <1>2, <1>3, <1>4, <1>5 DEF Recv

LEMMA RecvReturnsInv == ASSUME SocketInv, NEW a \in Sock, RecvReturns(a) PROVE SocketInv'
<1>1. /\ sock[a].type = "tcp" /\ sock[a].state \notin {"new", "connecting"} /\ sock[a] \in Sockets
      /\ sock[a].pcb # NULL => call.n \in Nat /\ call.n > 0
      /\ call' = Idle /\ resetWaiting' = resetWaiting
  BY DEF RecvReturns, In, Return, SocketInv, SocketTypeOK, CallInv
<1>2. CASE UNCHANGED <<sock, pcb>>
  BY <1>1, <1>2, IdleInv
<1>3. CASE ~Failed(a) /\ sock[a].pbuf = NULL /\ EndOfStream(a)
  <2>1. sock[a].state = "peer_closed"
    BY <1>1, <1>3 DEF RecvReturns, Failed, Sockets
  <2>2. QED
    BY <1>1, <1>3, <2>1, EndInv
<1>4. CASE sock[a].pbuf # NULL /\ Take(a, call.n)
  <2>1. sock[a].pcb # NULL
    BY <1>4 DEF SocketInv, OwnInv, Own
  <2>2. QED
    BY <1>1, <1>4, <2>1, TakeInv
<1>5. QED
  BY <1>2, <1>3, <1>4 DEF RecvReturns

LEMMA TakeDatagramInv ==
  ASSUME SocketInv, NEW a \in Sock, sock[a].type = "udp", sock[a].pcb # NULL, TakeDatagram(a),
         resetWaiting' = resetWaiting, call' = call \/ call' = Idle
  PROVE  SocketInv'
<1> DEFINE o == [sock[a] EXCEPT !.pbuf = NULL]
           p == sock[a].pcb
<1>1. /\ p \in Pcb /\ pcb[p] \in Pcbs /\ Own(a, sock[a], pcb[p]) /\ KeptFor(pcb[p]) /\ sock[a] \in Sockets
  BY OwnFacts
<1>2. /\ o \in Sockets /\ o.type = "udp" /\ o.pcb = p /\ o.connection = sock[a].connection
      /\ o.state = sock[a].state /\ o.pbuf = NULL /\ sock[a].pcb = p
  BY <1>1 DEF Sockets
<1>3. sock' = [sock EXCEPT ![a] = o] /\ pcb' = [pcb EXCEPT ![p] = pcb[p]]
  BY DEF TakeDatagram, SocketInv, SocketTypeOK
<1> HIDE DEF o, p
<1>4. Own(a, o, pcb[p])
  BY <1>1, <1>2 DEF Own
<1>5. Arrived(o, pcb[p])
  BY <1>2 DEF Arrived
<1>6. CallInv' \/ (call' = call /\ o.state = sock[a].state)
  BY <1>2 DEF CallInv
<1>7. QED
  BY <1>1, <1>2, <1>3, <1>4, <1>5, <1>6, OwnStep DEF Own

LEMMA RecvFromInv == ASSUME SocketInv, NEW a \in Sock, RecvFrom(a) PROVE SocketInv'
<1>1. sock[a].type = "udp" /\ (sock[a].pbuf # NULL => sock[a].pcb # NULL)
  BY DEF RecvFrom, SocketInv, OwnInv, Own
<1>2. CASE sock[a].pbuf # NULL /\ TakeDatagram(a) /\ Quiet
  BY <1>1, <1>2, TakeDatagramInv DEF Quiet
<1>3. CASE Begin("recvfrom", a, 0) /\ UNCHANGED <<sock, pcb, fault, resetWaiting>>
  <2>1. /\ UNCHANGED <<sock, pcb, resetWaiting>>
        /\ call'.op = "recvfrom" /\ call'.sock = a /\ call'.n \in Int
    BY <1>3 DEF Begin
  <2>2. CallInv'
    BY <1>1, <2>1 DEF CallInv
  <2>3. QED
    BY <2>1, <2>2, SameStep
<1>4. QED
  BY <1>2, <1>3 DEF RecvFrom

LEMMA RecvFromReturnsInv == ASSUME SocketInv, NEW a \in Sock, RecvFromReturns(a) PROVE SocketInv'
<1>1. sock[a].type = "udp" /\ sock[a].pcb # NULL /\ TakeDatagram(a) /\ call' = Idle /\ resetWaiting' = resetWaiting
  BY DEF RecvFromReturns, In, Return, SocketInv, CallInv, OwnInv, Own
<1>2. QED
  BY <1>1, TakeDatagramInv

(* What a script sends; a socket that lost its pcb while it waited has none*)
(* to write to.                                                            *)
LEMMA WriteInv ==
  ASSUME SocketInv, NEW a \in Sock, NEW n \in Int, sock[a].type = "tcp", sock[a].pcb # NULL,
         Owned(a, "estab") \/ Owned(a, "syn"), Write(a, n), resetWaiting' = resetWaiting,
         CallInv' \/ call' = call
  PROVE  SocketInv'
<1> DEFINE p == sock[a].pcb
           k == pcb[p].snd - Fits(a, n)
<1>1. p \in Pcb /\ pcb[p] \in Pcbs /\ pcb[p].st \in {"syn", "estab"}
  BY OwnFacts DEF Owned
<1>2. k \in Int
  BY <1>1 DEF Fits, Pcbs
<1>3. sock' = sock /\ pcb' = [pcb EXCEPT ![p].snd = k] /\ sock[a].pcb = p
  BY DEF Write
<1> HIDE DEF p, k
<1>4. QED
  BY <1>1, <1>2, <1>3, BufferStep

LEMMA SendInv == ASSUME SocketInv, NEW a \in Sock, Send(a, SNDBUF) PROVE SocketInv'
<1>1. sock[a].type = "tcp" /\ sock[a].pcb # NULL /\ (Owned(a, "estab") \/ Owned(a, "syn")) /\ SNDBUF \in Int
  BY DEF Send, Tcp, Owned
<1>2. CASE Write(a, SNDBUF) /\ Quiet
  BY <1>1, <1>2, WriteInv DEF Quiet
<1>3. CASE Begin("send", a, SNDBUF) /\ UNCHANGED <<sock, pcb, fault, resetWaiting>>
  <2>1. /\ UNCHANGED <<sock, pcb, resetWaiting>>
        /\ call'.op = "send" /\ call'.sock = a /\ call'.n = SNDBUF
    BY <1>3 DEF Begin
  <2>2. sock[a].state # "new"
    BY <1>1 DEF SocketInv, OwnInv, Own, Owned
  <2>3. CallInv'
    BY <1>1, <2>1, <2>2 DEF CallInv
  <2>4. QED
    BY <2>1, <2>3, SameStep
<1>4. QED
  BY <1>2, <1>3 DEF Send

LEMMA SendAllInv == ASSUME SocketInv, NEW a \in Sock, SendAll(a, SNDBUF + 1) PROVE SocketInv'
<1>1. sock[a].type = "tcp" /\ sock[a].pcb # NULL /\ (Owned(a, "estab") \/ Owned(a, "syn")) /\ SNDBUF + 1 \in Int
  BY DEF SendAll, Tcp, Owned
<1>2. Write(a, SNDBUF + 1) /\ resetWaiting' = resetWaiting /\ sock' = sock
  BY DEF SendAll, Write
<1>3. CASE call' = call
  BY <1>1, <1>2, <1>3, WriteInv
<1>4. CASE Begin("sendall", a, (SNDBUF + 1) - Fits(a, SNDBUF + 1))
  <2> DEFINE k == (SNDBUF + 1) - Fits(a, SNDBUF + 1)
  <2>1. sock[a].state # "new" /\ pcb[sock[a].pcb] \in Pcbs
    BY <1>1, OwnFacts DEF Own, Owned
  <2>2. k \in Int
    BY <1>1, <2>1 DEF Fits, Pcbs
  <2>3. call'.op = "sendall" /\ call'.sock = a /\ call'.n = k /\ call'.n \in Int
    BY <1>4, <2>2 DEF Begin
  <2>4. CallInv'
    BY <1>1, <1>2, <2>1, <2>3 DEF CallInv
  <2>5. QED
    BY <1>1, <1>2, <2>4, WriteInv
<1>5. call' = call \/ Begin("sendall", a, (SNDBUF + 1) - Fits(a, SNDBUF + 1))
  BY DEF SendAll
<1>6. QED
  BY <1>3, <1>4, <1>5

LEMMA SendReturnsInv == ASSUME SocketInv, NEW a \in Sock, SendReturns(a) PROVE SocketInv'
<1>1. /\ sock[a].type = "tcp" /\ call.sock = a /\ sock[a] \in Sockets /\ resetWaiting' = resetWaiting
      /\ sock[a].pcb # NULL => call.n \in Int
  BY DEF SendReturns, In, Return, SocketInv, SocketTypeOK, CallInv
<1>2. CASE UNCHANGED <<sock, pcb>> /\ Return
  <2>1. sock' = sock /\ pcb' = pcb /\ call' = Idle
    BY <1>2 DEF Return
  <2>2. QED
    BY <1>1, <2>1, IdleInv
<1>3. CASE /\ sock[a].state \in {"connected", "peer_closed"} /\ Write(a, call.n)
           /\ Return \/ Begin("sendall", a, call.n - Fits(a, call.n))
  <2>1. CallInv'
    <3>1. CASE Return
      BY <3>1 DEF Return, CallInv
    <3>2. CASE Begin("sendall", a, call.n - Fits(a, call.n))
      <4>1. call'.op = "sendall" /\ call'.sock = a /\ call'.n = call.n - Fits(a, call.n)
        BY <3>2 DEF Begin
      <4>2. sock' = sock
        BY <1>3 DEF Write
      <4>3. sock[a].pcb # NULL => call'.n \in Int
        <5> SUFFICES ASSUME sock[a].pcb # NULL PROVE call'.n \in Int
          OBVIOUS
        <5>1. pcb[sock[a].pcb].snd \in Int
          BY OwnFacts DEF Pcbs
        <5>2. QED
          BY <1>1, <4>1, <5>1 DEF Fits
      <4>4. QED
        BY <1>1, <1>3, <4>1, <4>2, <4>3 DEF CallInv
    <3>3. QED
      BY <1>3, <3>1, <3>2
  <2>2. CASE sock[a].pcb = NULL
    <3>1. sock' = sock /\ pcb' = pcb
      BY <1>3, <2>2 DEF Write, SocketInv, SocketTypeOK
    <3>2. QED
      BY <1>1, <2>1, <3>1, SameStep
  <2>3. CASE sock[a].pcb # NULL
    <3>1. Owned(a, "estab")
      BY <1>1, <1>3, <2>3, OwnFacts DEF Own, Owned
    <3>2. QED
      BY <1>1, <1>3, <2>1, <2>3, <3>1, WriteInv
  <2>4. QED
    BY <2>2, <2>3
<1>4. QED
  BY <1>2, <1>3 DEF SendReturns

LEMMA ScriptInv == ASSUME SocketInv, Script PROVE SocketInv'
<1>1. ASSUME \/ \E ip \in Addr : MakeEther(ip) \/ \E s \in Sock : Bind(s, ip)
             \/ \E s \in Sock : SetOption(s) \/ ConnectListener(s) \/ Connect(s)
      PROVE  SocketInv'
  <2>1. CASE Fault("nopcb") \/ Fault("listener")
    BY <2>1, FaultInv
  <2>2. CASE sock' = sock /\ pcb' = pcb /\ call' = Idle /\ resetWaiting' = resetWaiting
    BY <2>2, IdleInv
  <2>3. CASE \E s \in Sock : Connect(s) /\ Begin("connect", s, 0)
    <3>1. PICK s \in Sock : Connect(s) /\ Begin("connect", s, 0)
      BY <2>3
    <3>2. CASE UNCHANGED <<sock, pcb, call>>
      BY <2>2, <3>1, <3>2 DEF Connect, Ready, Running
    <3>3. CASE ~UNCHANGED <<sock, pcb, call>>
      BY <3>1, <3>3, ConnectInv DEF Connect
    <3>4. QED
      BY <3>2, <3>3
  <2>4. QED
    BY <1>1, <2>1, <2>2, <2>3 DEF Bind, MakeEther, SetOption, ConnectListener, Connect, Tcp, Ready, Running
<1>2. CASE GetAddrInfo
  <2>1. sock' = sock /\ pcb' = pcb /\ call' = [op |-> "dns", sock |-> NULL, n |-> 0] /\ resetWaiting' = resetWaiting
    BY <1>2 DEF GetAddrInfo, Begin
  <2>2. QED
    BY <2>1, IdleInv
<1>3. QED
  BY <1>1, <1>2, MakeNewInv, CloseSocketInv, FinaliseInv, ListenInv, AcceptInv, SetTimeoutInv,
     NotConnectedInv, RecvFromInv, RecvInv, SendInv, SendAllInv DEF Script

LEMMA ReturnsInv == ASSUME SocketInv, Returns PROVE SocketInv'
<1>1. ASSUME TimeOut \/ \E s \in Sock : ConnectReturns(s) PROVE SocketInv'
  <2>1. CASE sock' = sock /\ pcb' = pcb /\ call' = Idle /\ resetWaiting' = resetWaiting
    BY <2>1, IdleInv
  <2>2. QED
    BY <1>1, <2>1, FaultInv DEF TimeOut, ConnectReturns, Return
<1>2. QED
  BY <1>1, AcceptReturnsInv, RecvReturnsInv, RecvFromReturnsInv, SendReturnsInv DEF Returns

LEMMA StutterInv == ASSUME SocketInv, UNCHANGED vars PROVE SocketInv'
<1>1. UNCHANGED <<sock, pcb, resetWaiting>> /\ call' = call
  BY DEF vars
<1>2. CallInv'
  BY <1>1 DEF SocketInv, CallInv, Owned
<1>3. QED
  BY <1>1, <1>2, SameStep

LEMMA StepSocketInv == SocketInv /\ [Next]_vars => SocketInv'
<1> SUFFICES ASSUME SocketInv, [Next]_vars PROVE SocketInv'
  OBVIOUS
<1>1. QED
  BY ScriptInv, ReturnsInv, NetworkInv, StutterInv DEF Next

-----------------------------------------------------------------------------
(* The callbacks, the script and the collector keep sockets, pcbs, the slot*)
(* of a listener, the buffers and the waiting call consistent.             *)
THEOREM SocketSafe == Spec => []SocketInv
<1>1. Init => SocketInv
  BY InitSocketInv
<1>2. QED
  BY <1>1, StepSocketInv, PTL DEF Spec

(* Sockets and pcbs refer to each other, over every close, reset and       *)
(* accept (lwip_socket_close, _lwip_tcp_error, lwip_socket_accept).        *)
THEOREM SocketPointersMatch == Spec => []PointersMatch
<1>1. SocketInv => PointersMatch
  <2> SUFFICES ASSUME SocketInv PROVE PointersMatch
    OBVIOUS
  <2>1. ASSUME NEW s \in Sock
        PROVE  /\ sock[s].pcb # NULL => pcb[sock[s].pcb].arg = s
               /\ sock[s].pcb # NULL => ~Failed(s)
               /\ sock[s].connection # NULL /\ ~resetWaiting => ~SlotGone(s)
    BY <2>1 DEF SocketInv, OwnInv, Own, SlotInv, Failed
  <2>2. ASSUME NEW p \in Pcb, pcb[p].st \notin {"free", "closing"}
        PROVE  \/ sock[pcb[p].arg].pcb = p
               \/ sock[pcb[p].arg].connection = p /\ Owned(pcb[p].arg, "listen")
    BY <2>2 DEF SocketInv, PcbInv, SlotInv
  <2>3. QED
    BY <2>1, <2>2 DEF PointersMatch
<1>2. QED
  BY <1>1, SocketSafe, PTL

(* No byte of a stream is lost, repeated or reordered between lwIP, the    *)
(* buffer of a socket and the script (_lwip_tcp_recv, lwip_tcp_receive).   *)
THEOREM SocketStreamExact == Spec => []StreamExact
<1>1. SocketInv => StreamExact
  <2> SUFFICES ASSUME SocketInv, NEW s \in Sock, sock[s].pcb # NULL
               PROVE  LET q    == pcb[sock[s].pcb]
                          held == IF sock[s].pbuf = NULL THEN 0 ELSE LeftIn(s)
                      IN  IF sock[s].type = "udp" THEN sock[s].pbuf # NULL => sock[s].peer = sock[s].pbuf.from
                          ELSE q.st = "estab" =>
                            /\ sock[s].pbuf # NULL => sock[s].got = sock[s].pbuf.from + (sock[s].pbuf.len - LeftIn(s))
                            /\ sock[s].pbuf = NULL => sock[s].leftover = 0
                            /\ q.refused # NULL => q.refused.from = sock[s].got + held
                            /\ q.sent = sock[s].got + held + (IF q.refused = NULL THEN 0 ELSE q.refused.len)
                            /\ q.wnd + (q.sent - sock[s].got) = WND
    BY DEF StreamExact
  <2>1. Own(s, sock[s], pcb[sock[s].pcb]) /\ Arrived(sock[s], pcb[sock[s].pcb]) /\ sock[s].type \in {"tcp", "udp"}
    BY OwnFacts
  <2>2. QED
    BY <2>1 DEF Own, Arrived, HeldBy, LeftOf, LeftIn, Refused
<1>2. QED
  BY <1>1, SocketSafe, PTL

(* recv returns the empty string only after every byte of the stream.      *)
THEOREM SocketEofIsEnd == Spec => []EofIsEnd
<1>1. SocketInv => EofIsEnd
  <2> SUFFICES ASSUME SocketInv, NEW s \in Sock, sock[s].eof, Owned(s, "estab")
               PROVE  pcb[sock[s].pcb].ended /\ sock[s].got = pcb[sock[s].pcb].sent
    BY DEF EofIsEnd
  <2>1. /\ Own(s, sock[s], pcb[sock[s].pcb]) /\ Arrived(sock[s], pcb[sock[s].pcb])
        /\ sock[s].type \in {"tcp", "udp"} /\ sock[s].got \in Nat
    BY OwnFacts DEF Owned, Sockets
  <2>2. sock[s].type = "tcp"
    BY <2>1 DEF Own, Owned
  <2>3. QED
    BY <2>1, <2>2 DEF Arrived, HeldBy, Refused, Owned
<1>2. QED
  BY <1>1, SocketSafe, PTL

(* A script is stopped only after what FaultsKnown names: resets and closes*)
(* that it was not told of, or calls that modlwip.c takes on a socket they *)
(* are not for (lwip_socket_connect, lwip_socket_bind, lwip_tcp_receive).  *)
THEOREM SocketFaultsKnown == Spec => FaultsKnown
<1> DEFINE Known ==
      /\ fault' = "slot"     => resetWaiting
      /\ fault' = "stale"    => \E p \in Pcb : pcb[p].st = "closing"
      /\ fault' = "index"    => \E s \in Sock : sock[s].state = "peer_closed" /\ (sock[s].pcb = NULL \/ In("connect", s))
      /\ fault' = "assert"   => \E s \in Sock : sock[s].pcb # NULL /\ sock[s].state \in {"new", "connecting"}
      /\ fault' = "listener" => \E s \in Sock : Owned(s, "listen")
      /\ fault' = "nopcb"    => \E s \in Sock : sock[s].pcb = NULL /\ (Failed(s) \/ sock[s].state = "peer_closed")
<1>1. SocketInv /\ [Next]_vars => [Known]_vars
  <2> SUFFICES ASSUME SocketInv, Next PROVE Known
    OBVIOUS
  <2>1. CASE fault' = NULL
    BY <2>1
  <2>2. ASSUME NEW s \in Sock, CloseSocket(s) \/ Finalise(s) \/ AcceptReturns(s), fault' # NULL PROVE Known
    <3>1. fault' = "slot" /\ SlotGone(s) /\ sock[s].connection # NULL
      BY <2>2 DEF CloseSocket, Finalise, AcceptReturns, In, Ready, Running, Fault, Quiet, Return, SlotGone
    <3>2. QED
      BY <3>1 DEF SocketInv, SlotInv
  <2>3. ASSUME NEW s \in Sock, NotConnected(s), fault' # NULL PROVE Known
    <3>1. fault' = "index" /\ sock[s].pcb = NULL /\ sock[s].type = "tcp" /\ ~Failed(s)
      BY <2>3 DEF NotConnected, Tcp, Ready, Running, Fault, Quiet
    <3>2. QED
      BY <3>1 DEF SocketInv, OwnInv, Own, Failed
  <2>4. ASSUME NEW s \in Sock, NEW n \in 1 .. MaxBytes, Recv(s, n), fault' # NULL PROVE Known
    <3>1. \/ fault' = "assert" /\ sock[s].pcb # NULL /\ sock[s].state \in {"new", "connecting"}
          \/ fault' = "listener" /\ sock[s].connection # NULL
      BY <2>4 DEF Recv, Tcp, Ready, Running, Fault, Quiet
    <3>2. QED
      BY <3>1 DEF SocketInv, SlotInv
  <2>5. ASSUME NEW s \in Sock, ConnectReturns(s), fault' # NULL PROVE Known
    <3>1. fault' = "index" /\ In("connect", s) /\ sock[s].state = "peer_closed"
      BY <2>5 DEF ConnectReturns, In, Return, Fault
    <3>2. QED
      BY <3>1
  <2>6. ASSUME NEW s \in Sock, ConnectListener(s), fault' # NULL PROVE Known
    <3>1. fault' = "listener" /\ Owned(s, "listen")
      BY <2>6 DEF ConnectListener, Fault
    <3>2. QED
      BY <3>1
  <2>7. ASSUME NEW s \in Sock, SetOption(s) \/ \E ip \in Addr : Bind(s, ip), fault' # NULL PROVE Known
    <3>1. fault' = "nopcb" /\ sock[s].pcb = NULL /\ sock[s].type # "none"
      BY <2>7 DEF SetOption, Bind, Ready, Running, Fault
    <3>2. QED
      BY <3>1 DEF SocketInv, OwnInv, Own, Failed
  <2>8. ASSUME NEW p \in Pcb, fault' # NULL,
               \/ ResetArrives(p) \/ FinArrives(p)
               \/ \E n \in 1 .. WND, fin \in BOOLEAN : DataArrives(p, n, fin)
        PROVE  Known
    <3>1. fault' = "stale" /\ ~Target(p) /\ pcb[p].st \in {"syn", "estab", "closing"}
      BY <2>8 DEF ResetArrives, FinArrives, DataArrives, ErrorAt, Net, Kept, Fault
    <3>2. pcb[p].st = "closing"
      BY <3>1, Connection DEF Target
    <3>3. QED
      BY <3>1, <3>2
  <2>9. QED
    <3>1. CASE Script
      BY <2>1, <2>2, <2>3, <2>4, <2>6, <2>7, <3>1
         DEF Script, MakeNew, Listen, Connect, Accept, SetTimeout, RecvFrom, Send, SendAll, MakeEther,
             GetAddrInfo, Ready, Tcp, Running, Quiet
    <3>2. CASE Returns
      BY <2>1, <2>2, <2>5, <3>2
         DEF Returns, TimeOut, RecvReturns, RecvFromReturns, SendReturns, In, Return
    <3>3. CASE Network
      BY <2>1, <2>8, <3>3
         DEF Network, Established, CloseDone, AckArrives, Redeliver, DatagramArrives, SynArrives, NameFound,
             Net, Kept, Return
    <3>4. QED
      BY <3>1, <3>2, <3>3 DEF Next
<1>2. QED
  BY <1>1, SocketSafe, PTL DEF Spec, FaultsKnown
=============================================================================
