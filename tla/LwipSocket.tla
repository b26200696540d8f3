----------------------------- MODULE LwipSocket -----------------------------
(***************************************************************************)
(* The sockets of mods/modlwip.c on top of lwIP's raw API.  A script is one*)
(* thread; lwIP calls back (the actions of the network, below) only while  *)
(* netfrontif_poll runs: in the waiting loops that poll, or when the script*)
(* polls an interface itself.                                              *)
(*                                                                         *)
(* lwIP is not part of the repository: its protocol control blocks (pcbs)  *)
(* are modelled as far as modlwip.c relies on them.  A callback stays with *)
(* a pcb until it is replaced or the pcb is freed, also after tcp_close.   *)
(***************************************************************************)
EXTENDS LwipEther, FiniteSets

CONSTANTS NULL,
          Sock,         \* places for socket objects
          Pcb,          \* places for pcbs
          Source,       \* senders of datagrams
          WND, SNDBUF, LowWater,   \* receive window, send buffer, the 16 bytes of lwip_tcp_send
          MaxBytes,     \* how many bytes a peer sends at most
          Timeout,      \* the timeouts scripts use: None (wait), 0 (do not wait), or 1 (some time)
          None

ASSUME LwipSocketAssumption ==
  /\ NULL \notin Sock \cup Pcb /\ NULL \notin [from : Nat \cup Source, len : Nat]
  /\ NULL \notin {"slot", "stale", "index", "assert", "listener", "nopcb"}
  /\ {WND, SNDBUF, LowWater, MaxBytes} \subseteq Nat \ {0} /\ LowWater <= SNDBUF
  /\ Timeout \subseteq {None, 0, 1}

VARIABLES sock,   \* the socket objects
          pcb,    \* lwIP's control blocks, with what the peer has sent on each
          call,   \* the call a script waits in, or Idle
          fault,  \* what undefined behaviour or failed assertion stopped the script, or NULL
          resetWaiting   \* whether a connection was reset while it waited in a listener's slot

vars == <<sock, pcb, call, fault, resetWaiting, lwip_ether_objs, noip_off>>

NoSock == [type |-> "none", pcb |-> NULL, state |-> "new", pbuf |-> NULL, connection |-> NULL,
           leftover |-> 0, peer |-> NULL, timeout |-> None, got |-> 0, eof |-> FALSE]
FreePcb == [st |-> "free", arg |-> NULL, err |-> FALSE, recv |-> "none", refused |-> NULL,
            fin |-> FALSE, wnd |-> WND, snd |-> SNDBUF, sent |-> 0, ended |-> FALSE, lost |-> FALSE]

Idle == [op |-> "none", sock |-> NULL, n |-> 0]

Failed(s) == sock[s].state \in {"error", "badf"}     \* a negative state

Init == /\ EtherInit
        /\ sock = [s \in Sock |-> NoSock] /\ pcb = [p \in Pcb |-> FreePcb]
        /\ call = Idle /\ fault = NULL /\ resetWaiting = FALSE

Running  == fault = NULL /\ call = Idle
Ready(s) == Running /\ sock[s].type # "none"
Tcp(s)   == Ready(s) /\ sock[s].type = "tcp"
Owned(s, st) == sock[s].pcb # NULL /\ pcb[sock[s].pcb].st = st

(* Nothing is known of what is left when the script was stopped.           *)
Fault(f) ==
  /\ fault' = f /\ call' = Idle /\ resetWaiting' = FALSE /\ UNCHANGED etherVars
  /\ sock' = [s \in Sock |-> NoSock] /\ pcb' = [p \in Pcb |-> FreePcb]
Quiet    == UNCHANGED <<call, fault, resetWaiting>> /\ UNCHANGED etherVars

-----------------------------------------------------------------------------
(* Making, closing and setting up sockets.                                 *)

(* Places for new objects.  The place of a dropped object is taken again   *)
(* once no pcb refers to it: what a callback does to it before is a fault  *)
(* anyway, see Target.                                                     *)
Places == {s \in Sock : sock[s].type = "none" /\ \A p \in Pcb : pcb[p].arg # s}

(* lwip_socket_make_new *)
MakeNew(s, type) ==
  /\ Running /\ s \in Places
  /\ \E p \in Pcb :
       /\ pcb[p].st = "free"
       /\ sock' = [sock EXCEPT ![s] = [NoSock EXCEPT !.type = type, !.pcb = p]]
       /\ pcb' = [pcb EXCEPT ![p] = [FreePcb EXCEPT !.st = "closed", !.arg = s, !.err = type = "tcp",
                                                    !.recv = IF type = "udp" THEN "udp" ELSE "none"]]
  /\ Quiet

(* What is left of a pcb after tcp_close: a connection is shut down by an  *)
(* exchange with its peer, with its callbacks and their argument in place. *)
Closing(q) == IF q.st = "estab" THEN [q EXCEPT !.st = "closing", !.refused = NULL] ELSE FreePcb

(* lwip_socket_close.  A socket without a pcb is left as it is; a listener *)
(* aborts the connection in its slot.  What a socket without a pcb still   *)
(* holds, a buffer for instance, is never looked at again.                 *)
Dead(s, st) == [NoSock EXCEPT !.type = sock[s].type, !.state = st]
Close(s) ==
  IF sock[s].pcb = NULL THEN UNCHANGED <<sock, pcb>>
  ELSE /\ sock' = [sock EXCEPT ![s] = Dead(s, "badf")]
       /\ pcb' = [p \in Pcb |-> IF p = sock[s].pcb THEN Closing(pcb[p])
                                ELSE IF p = sock[s].connection THEN FreePcb ELSE pcb[p]]

(* A connection whose pcb is gone is aborted, which is undefined.          *)
SlotGone(s) == /\ sock[s].connection # NULL
               /\ LET q == pcb[sock[s].connection] IN q.st = "free" \/ q.arg # s

CloseSocket(s) ==
  /\ Ready(s)
  /\ IF SlotGone(s) THEN Fault("slot") ELSE Close(s) /\ Quiet

(* The collector drops a socket object, which closes it (__del__).         *)
Finalise(s) ==
  /\ Ready(s)
  /\ IF SlotGone(s) THEN Fault("slot")
     ELSE /\ sock' = [sock EXCEPT ![s] = NoSock]
          /\ pcb' = [p \in Pcb |-> IF p = sock[s].pcb THEN Closing(pcb[p])
                                   ELSE IF p = sock[s].connection THEN FreePcb ELSE pcb[p]]
          /\ Quiet

(* lwip_socket_settimeout, lwip_socket_setblocking *)
SetTimeout(s, t) ==
  /\ Ready(s) /\ t # sock[s].timeout
  /\ sock' = [sock EXCEPT ![s].timeout = t] /\ UNCHANGED pcb /\ Quiet

(* lwip_socket_bind adds an interface for an address that has none, and    *)
(* hands lwIP the pcb of the socket, which binds it, refuses or, when the  *)
(* socket has none, may follow a NULL pointer.                             *)
Bind(s, ip) ==
  /\ Ready(s)
  /\ \/ BindAddr(ip) /\ UNCHANGED <<sock, pcb, call, fault, resetWaiting>>
     \/ sock[s].pcb = NULL /\ (Bindable(ip) \/ CanAdd(ip)) /\ Fault("nopcb")

(* lwip_socket_setsockopt sets an option of a pcb that may be NULL, and so *)
(* does lwip_socket_write of a datagram use one.                           *)
SetOption(s) == Ready(s) /\ sock[s].pcb = NULL /\ Fault("nopcb")

(* lwip_ether_make_new *)
MakeEther(ip) ==
  /\ Running /\ AddIf(ip) /\ UNCHANGED <<sock, pcb, call, fault, resetWaiting>>

(* lwip_socket_listen; lwIP replaces the pcb by a smaller one that has no  *)
(* error callback.                                                         *)
Listen(s) ==
  /\ Tcp(s) /\ Owned(s, "closed") /\ sock[s].state = "new"
  /\ pcb' = [pcb EXCEPT ![sock[s].pcb] = [@ EXCEPT !.st = "listen", !.err = FALSE]]
  /\ UNCHANGED sock /\ Quiet

-----------------------------------------------------------------------------
(* Waiting.  A call is the operation, its socket and a length or a place.  *)

Begin(op, s, n) == call' = [op |-> op, sock |-> s, n |-> n]
In(op, s) == fault = NULL /\ call # Idle /\ call.op = op /\ call.sock = s

(* Waiting for a connection, for an answer or for a datagram with a timeout*)
(* delays without polling; sending and receiving on a stream poll.         *)
Polling == \/ call = Idle
           \/ call.op \in {"recv", "dns"}
           \/ call.op \in {"send", "sendall"} /\ sock[call.sock].state # "connecting"
           \/ call.op \in {"accept", "connect", "recvfrom"} /\ sock[call.sock].timeout = None

(* The end of a call, by its outcome or because its time is over.          *)
Return == call' = Idle /\ UNCHANGED <<fault, resetWaiting>> /\ UNCHANGED etherVars
TimeOut ==
  /\ fault = NULL /\ call # Idle /\ call.op # "dns"
  /\ sock[call.sock].timeout # None
  /\ \/ call.op = "accept"   /\ sock[call.sock].connection = NULL
     \/ call.op = "connect"  /\ sock[call.sock].state = "connecting"
     \/ call.op = "recvfrom" /\ sock[call.sock].pbuf = NULL
     \/ call.op = "recv"     /\ sock[call.sock].state = "connected" /\ sock[call.sock].pbuf = NULL
     \/ call.op \in {"send", "sendall"} /\ sock[call.sock].state \in {"connected", "peer_closed"}
                                       /\ pcb[sock[call.sock].pcb].snd < LowWater
  /\ UNCHANGED <<sock, pcb>> /\ Return

-----------------------------------------------------------------------------
(* Connections.                                                            *)

(* lwip_socket_connect: the first interface is added when there is none.   *)
(* A datagram socket does not wait, nor does a stream that lwIP refuses to *)
(* connect; the receive callback such a stream has is set again by the next*)
(* connect and is not taken over by listen.                                *)
Connect(s) ==
  /\ Ready(s) /\ Owned(s, "closed")
  /\ IF lwip_ether_objs = << >> THEN AddIf(ANY) ELSE UNCHANGED etherVars
  /\ \/ UNCHANGED <<sock, pcb, call>>
     \/ /\ sock[s].type = "tcp" /\ sock[s].state = "new"
        /\ sock' = [sock EXCEPT ![s].state = "connecting"]
        /\ pcb' = [pcb EXCEPT ![sock[s].pcb] = [@ EXCEPT !.st = "syn", !.recv = "socket"]]
        /\ Begin("connect", s, 0)
  /\ UNCHANGED <<fault, resetWaiting>>

(* A listener is still in STATE_NEW, so that its smaller pcb is given a    *)
(* receive callback, for which it has no place.                            *)
ConnectListener(s) ==
  /\ Tcp(s) /\ Owned(s, "listen") /\ sock[s].state = "new"
  /\ (lwip_ether_objs # << >> \/ CanAdd(ANY)) /\ Fault("listener")

(* The state at the end of the wait is taken for an error unless it is     *)
(* STATE_CONNECTED; that of a peer that closed meanwhile is no index of the*)
(* table of errors.                                                        *)
ConnectReturns(s) ==
  /\ In("connect", s) /\ sock[s].state # "connecting"
  /\ IF sock[s].state = "peer_closed" THEN Fault("index") ELSE UNCHANGED <<sock, pcb>> /\ Return

(* lwip_socket_accept, on a socket that listens.                           *)
Accept(s) ==
  /\ Tcp(s) /\ Owned(s, "listen")
  /\ Begin("accept", s, 0)
  /\ UNCHANGED <<sock, pcb, fault, resetWaiting>> /\ UNCHANGED etherVars

(* The connection in the slot becomes a socket of its own, with the        *)
(* listener's timeout; it stays in the slot when there is no memory.       *)
AcceptReturnsBug(s) ==
  /\ In("accept", s) /\ sock[s].connection # NULL
  /\ IF Places = {} THEN UNCHANGED <<sock, pcb>> /\ Return
     ELSE IF SlotGone(s) THEN Fault("slot")
     ELSE \E s2 \in Places :
       /\ sock' = [sock EXCEPT ![s].connection = NULL,
                               ![s2] = [NoSock EXCEPT !.type = "tcp", !.pcb = sock[s].connection,
                                          !.state = "connected", !.timeout = sock[s].timeout]]
       /\ pcb' = [pcb EXCEPT ![sock[s].connection] = [@ EXCEPT !.err = TRUE, !.recv = "socket"]]
       /\ Return
AcceptReturns(s) ==
  /\ In("accept", s) /\ sock[s].connection # NULL
  /\ IF Places = {} THEN UNCHANGED <<sock, pcb>> /\ Return
     ELSE IF SlotGone(s) THEN Fault("slot")
     ELSE \E s2 \in Places :
       /\ sock' = [sock EXCEPT ![s].connection = NULL,
                               ![s2] = [NoSock EXCEPT !.type = "tcp", !.pcb = sock[s].connection,
                                          !.state = "connected", !.timeout = sock[s].timeout]]
       /\ pcb' = [pcb EXCEPT ![sock[s].connection] = [@ EXCEPT !.arg = s2, !.err = TRUE, !.recv = "socket"]]
       /\ Return

-----------------------------------------------------------------------------
(* Receiving.                                                              *)

(* lwip_socket_check_connected, of a socket without a pcb: its state has   *)
(* to be an error, or it is no index of the table of errors; read and write*)
(* (STREAM_ERROR_CHECK) assert that there is a pcb then.                   *)
NotConnected(s) ==
  /\ Tcp(s) /\ sock[s].pcb = NULL
  /\ IF Failed(s) THEN sock' = [sock EXCEPT ![s].state = "badf"] /\ UNCHANGED pcb /\ Quiet
     ELSE Fault("index")

(* lwip_tcp_receive once there is data: n bytes or what is left of the     *)
(* buffer, which is given back when it is used up.                         *)
LeftIn(s) == IF sock[s].leftover = 0 THEN sock[s].pbuf.len ELSE sock[s].leftover
TakeBug(s, n) ==
  LET taken == IF LeftIn(s) >= n THEN n ELSE LeftIn(s)
  IN  /\ sock' = [sock EXCEPT ![s] = [sock[s] EXCEPT
                     !.got = @ + taken,
                     !.leftover = IF LeftIn(s) > n THEN LeftIn(s) - n ELSE @,
                     !.pbuf = IF LeftIn(s) > n THEN @ ELSE NULL]]
      /\ pcb' = [pcb EXCEPT ![sock[s].pcb].wnd = @ + taken]
Take(s, n) ==
  LET taken == IF LeftIn(s) >= n THEN n ELSE LeftIn(s)
  IN  /\ sock' = [sock EXCEPT ![s] = [sock[s] EXCEPT
                     !.got = @ + taken,
                     !.leftover = IF LeftIn(s) > n THEN LeftIn(s) - n ELSE 0,
                     !.pbuf = IF LeftIn(s) > n THEN @ ELSE NULL]]
      /\ pcb' = [pcb EXCEPT ![sock[s].pcb].wnd = @ + taken]

EndOfStream(s) == sock' = [sock EXCEPT ![s].eof = TRUE] /\ UNCHANGED pcb

(* lwip_socket_recv, lwip_socket_recvfrom and lwip_socket_read of a stream:*)
(* at once if there is data or the socket does not wait.  On a socket that *)
(* never was connected, a listener for one, the wait ends before it begins,*)
(* and the assertion that follows it fails; the connection in the slot of a*)
(* listener is taken for a buffer, as both are in the union incoming.      *)
Recv(s, n) ==
  /\ Tcp(s) /\ sock[s].pcb # NULL
  /\ \/ sock[s].connection # NULL /\ Fault("listener")
     \/ sock[s].pbuf # NULL /\ Take(s, n) /\ Quiet
     \/ sock[s].pbuf = NULL /\ sock[s].state = "peer_closed" /\ EndOfStream(s) /\ Quiet
     \/ /\ sock[s].pbuf = NULL /\ sock[s].state = "connected" /\ sock[s].timeout # 0
        /\ Begin("recv", s, n) /\ UNCHANGED <<sock, pcb, fault, resetWaiting>> /\ UNCHANGED etherVars
     \/ /\ sock[s].pbuf = NULL /\ sock[s].connection = NULL /\ sock[s].timeout # 0
        /\ sock[s].state \in {"new", "connecting"} /\ Fault("assert")

(* The end of the wait: an error ends it whether or not data has come.     *)
RecvReturnsBug(s) ==
  /\ In("recv", s) /\ (sock[s].state # "connected" \/ sock[s].pbuf # NULL)
  /\ \/ Failed(s) /\ UNCHANGED <<sock, pcb>>
     \/ sock[s].state = "peer_closed" /\ EndOfStream(s)
     \/ sock[s].state = "connected" /\ Take(s, call.n)
  /\ Return
RecvReturnsDeaf(s) ==
  /\ In("recv", s) /\ sock[s].pbuf # NULL
  /\ IF Failed(s) THEN UNCHANGED <<sock, pcb>> ELSE Take(s, call.n)
  /\ Return
RecvReturns(s) ==
  /\ In("recv", s) /\ (sock[s].state # "connected" \/ sock[s].pbuf # NULL)
  /\ \/ Failed(s) /\ UNCHANGED <<sock, pcb>>
     \/ ~Failed(s) /\ sock[s].pbuf = NULL /\ EndOfStream(s)
     \/ ~Failed(s) /\ sock[s].pbuf # NULL /\ Take(s, call.n)
  /\ Return

(* lwip_udp_receive, by lwip_socket_recvfrom: with a timeout of 0 it does  *)
(* not even wait for the buffer to fill.  By lwip_socket_read it also waits*)
(* on a socket that was closed.                                            *)
TakeDatagram(s) == sock' = [sock EXCEPT ![s].pbuf = NULL] /\ UNCHANGED pcb
RecvFrom(s) ==
  /\ Ready(s) /\ sock[s].type = "udp"
  /\ \/ sock[s].pbuf # NULL /\ TakeDatagram(s) /\ Quiet
     \/ /\ sock[s].pbuf = NULL /\ sock[s].timeout # 0
        /\ Begin("recvfrom", s, 0) /\ UNCHANGED <<sock, pcb, fault, resetWaiting>> /\ UNCHANGED etherVars
RecvFromReturns(s) == In("recvfrom", s) /\ sock[s].pbuf # NULL /\ TakeDatagram(s) /\ Return

-----------------------------------------------------------------------------
(* Sending.                                                                *)

(* lwip_tcp_send writes what fits into the send buffer.                    *)
Fits(s, n)  == LET room == pcb[sock[s].pcb].snd IN IF room < n THEN room ELSE n
Write(s, n) == pcb' = [pcb EXCEPT ![sock[s].pcb].snd = @ - Fits(s, n)] /\ UNCHANGED sock

(* lwip_socket_send, lwip_socket_sendto and lwip_socket_write of a stream. *)
Send(s, n) ==
  /\ Tcp(s) /\ (Owned(s, "estab") \/ Owned(s, "syn"))
  /\ \/ pcb[sock[s].pcb].snd > 0 /\ Write(s, n) /\ Quiet
     \/ /\ pcb[sock[s].pcb].snd = 0 /\ sock[s].timeout # 0
        /\ Begin("send", s, n) /\ UNCHANGED <<sock, pcb, fault, resetWaiting>> /\ UNCHANGED etherVars

(* lwip_socket_sendall sends again until nothing is left, unless it must   *)
(* not wait.                                                               *)
SendAll(s, n) ==
  /\ Tcp(s) /\ (Owned(s, "estab") \/ Owned(s, "syn"))
  /\ sock[s].timeout = 0 => n <= pcb[sock[s].pcb].snd
  /\ Write(s, n) /\ UNCHANGED <<fault, resetWaiting>> /\ UNCHANGED etherVars
  /\ IF Fits(s, n) = n THEN UNCHANGED call ELSE Begin("sendall", s, n - Fits(s, n))

(* The wait for room in the buffer, which only a connected socket enters:  *)
(* send returns 0 on another one, and sendall tries again for ever.        *)
SendReturns(s) ==
  /\ In("send", s) \/ In("sendall", s)
  /\ \/ Failed(s) /\ UNCHANGED <<sock, pcb>> /\ Return
     \/ sock[s].state = "connecting" /\ call.op = "send" /\ UNCHANGED <<sock, pcb>> /\ Return
     \/ /\ sock[s].state \in {"connected", "peer_closed"} /\ pcb[sock[s].pcb].snd >= LowWater
        /\ Write(s, call.n)
        /\ IF call.op = "send" \/ Fits(s, call.n) = call.n THEN Return
           ELSE /\ Begin("sendall", s, call.n - Fits(s, call.n))
                /\ UNCHANGED <<fault, resetWaiting>> /\ UNCHANGED etherVars

(* lwip_getaddrinfo, of a name that is not cached.                         *)
GetAddrInfo == Running /\ Begin("dns", NULL, 0)
               /\ UNCHANGED <<sock, pcb, fault, resetWaiting>> /\ UNCHANGED etherVars

-----------------------------------------------------------------------------
(* The network: what lwIP does with a segment, and the callbacks it makes. *)
(* Nothing arrives without an interface.                                   *)

Net  == fault = NULL /\ Polling /\ lwip_ether_objs # << >>
Kept == UNCHANGED <<call, fault, resetWaiting>> /\ UNCHANGED etherVars

(* The object a callback writes to is still there, or was closed.  *)
Target(p) == sock[pcb[p].arg].type # "none"

(* _lwip_tcp_connected *)
Established(p) ==
  /\ Net /\ pcb[p].st = "syn"
  /\ pcb' = [pcb EXCEPT ![p].st = "estab"]
  /\ sock' = [sock EXCEPT ![pcb[p].arg].state = "connected"]
  /\ Kept

(* _lwip_tcp_accept: a listener has one slot; a connection that finds it   *)
(* taken is aborted.                                                       *)
SynArrives(l, p) ==
  /\ Net /\ pcb[l].st = "listen" /\ pcb[p].st = "free"
  /\ sock[pcb[l].arg].connection = NULL
  /\ sock' = [sock EXCEPT ![pcb[l].arg].connection = p]
  /\ pcb' = [pcb EXCEPT ![p] = [FreePcb EXCEPT !.st = "estab", !.arg = pcb[l].arg, !.recv = "unaccepted"]]
  /\ Kept

(* _lwip_tcp_error, and without an error callback a pcb just goes.         *)
ErrorAt(p) ==
  IF pcb[p].err /\ ~Target(p) THEN Fault("stale")
  ELSE /\ sock' = IF pcb[p].err THEN [sock EXCEPT ![pcb[p].arg] = Dead(pcb[p].arg, "error")] ELSE sock
       /\ pcb' = [pcb EXCEPT ![p] = FreePcb]
       /\ resetWaiting' = (resetWaiting \/ ~pcb[p].err)
       /\ UNCHANGED <<call, fault>> /\ UNCHANGED etherVars
ResetArrives(p) == Net /\ pcb[p].st \in {"syn", "estab", "closing"} /\ ErrorAt(p)

(* _lwip_tcp_recv with data, where it accepts them; otherwise, and while a *)
(* connection waits (_lwip_tcp_recv_unaccepted), lwIP keeps them and tries *)
(* again.  A closing pcb is aborted by data.  The last segment may end the *)
(* stream as well.                                                         *)
Accepts(p) == pcb[p].recv = "socket" /\ sock[pcb[p].arg].pbuf = NULL
DataArrives(p, n, fin) ==
  /\ Net /\ pcb[p].st \in {"estab", "closing"}
  /\ ~pcb[p].ended /\ pcb[p].refused = NULL /\ n <= pcb[p].wnd /\ pcb[p].sent + n <= MaxBytes
  /\ LET data == [from |-> pcb[p].sent, len |-> n]
         q    == [pcb[p] EXCEPT !.sent = @ + n, !.wnd = @ - n, !.ended = fin]
     IN  IF pcb[p].st = "closing" THEN ErrorAt(p)
         ELSE /\ sock' = [sock EXCEPT ![pcb[p].arg].pbuf = IF Accepts(p) THEN data ELSE @,
                                      ![pcb[p].arg].state = IF fin /\ Accepts(p) THEN "peer_closed" ELSE @]
              /\ pcb' = [pcb EXCEPT ![p] = IF Accepts(p) THEN q
                                           ELSE [q EXCEPT !.refused = data, !.fin = fin]]
              /\ Kept
Redeliver(p) ==
  /\ Net /\ pcb[p].refused # NULL /\ Accepts(p)
  /\ sock' = [sock EXCEPT ![pcb[p].arg].pbuf = pcb[p].refused,
                          ![pcb[p].arg].state = IF pcb[p].fin THEN "peer_closed" ELSE @]
  /\ pcb' = [pcb EXCEPT ![p].refused = NULL, ![p].fin = FALSE]
  /\ Kept

(* _lwip_tcp_recv without data: the peer closes.  It is called on a socket *)
(* that was closed, too; and what a connection that waits is told is lost. *)
FinArrives(p) ==
  /\ Net /\ pcb[p].st \in {"estab", "closing"} /\ ~pcb[p].ended /\ pcb[p].refused = NULL
  /\ IF pcb[p].recv = "socket" /\ ~Target(p) THEN Fault("stale")
     ELSE /\ sock' = IF pcb[p].recv = "socket" THEN [sock EXCEPT ![pcb[p].arg].state = "peer_closed"] ELSE sock
          /\ pcb' = [pcb EXCEPT ![p] = IF pcb[p].st = "closing" THEN FreePcb
                                       ELSE [pcb[p] EXCEPT !.ended = TRUE, !.lost = pcb[p].recv # "socket"]]
          /\ Kept

(* A closing pcb whose peer had closed before is gone after the last       *)
(* acknowledgement.                                                        *)
CloseDone(p) ==
  /\ Net /\ pcb[p].st = "closing" /\ pcb[p].ended
  /\ pcb' = [pcb EXCEPT ![p] = FreePcb] /\ UNCHANGED sock /\ Kept

AckArrives(p) ==
  /\ Net /\ pcb[p].st = "estab" /\ pcb[p].snd < SNDBUF
  /\ pcb' = [pcb EXCEPT ![p].snd = SNDBUF] /\ UNCHANGED sock /\ Kept

(* _lwip_udp_incoming: a second datagram is dropped.                       *)
DatagramArrives(p, src) ==
  /\ Net /\ pcb[p].recv = "udp" /\ sock[pcb[p].arg].pbuf = NULL
  /\ sock' = [sock EXCEPT ![pcb[p].arg].pbuf = [from |-> src, len |-> 1], ![pcb[p].arg].peer = src]
  /\ UNCHANGED pcb /\ Kept

(* lwip_getaddrinfo_cb *)
NameFound == Net /\ call # Idle /\ call.op = "dns" /\ UNCHANGED <<sock, pcb>> /\ Return

-----------------------------------------------------------------------------
Script ==
  \/ \E s \in Sock :
       \/ \E type \in {"tcp", "udp"} : MakeNew(s, type)
       \/ CloseSocket(s) \/ Finalise(s) \/ SetOption(s) \/ Listen(s) \/ Accept(s)
       \/ Connect(s) \/ ConnectListener(s)
       \/ \E ip \in Addr : Bind(s, ip)
       \/ \E t \in Timeout : SetTimeout(s, t)
       \/ NotConnected(s) \/ RecvFrom(s)
       \/ \E n \in 1 .. MaxBytes : Recv(s, n)
       \/ Send(s, SNDBUF) \/ SendAll(s, SNDBUF + 1)
  \/ \E ip \in Addr : MakeEther(ip)
  \/ GetAddrInfo

Returns == TimeOut \/ \E s \in Sock : \/ ConnectReturns(s) \/ AcceptReturns(s) \/ RecvReturns(s)
                                       \/ RecvFromReturns(s) \/ SendReturns(s)

Network ==
  \/ \E p \in Pcb :
       \/ Established(p) \/ ResetArrives(p) \/ FinArrives(p) \/ CloseDone(p)
       \/ AckArrives(p) \/ Redeliver(p)
       \/ \E n \in 1 .. WND, fin \in BOOLEAN : DataArrives(p, n, fin)
       \/ \E src \in Source : DatagramArrives(p, src)
       \/ \E l \in Pcb : SynArrives(l, p)
  \/ NameFound

Next == Script \/ Returns \/ Network

Spec == Init /\ [][Next]_vars

(* A waiting loop runs until what it waits for is there; and lwIP does not *)
(* stop: it hands over what it kept, peers answer a request for a          *)
(* connection and acknowledge, and the name server answers.                *)
Answers  == NameFound \/ \E p \in Pcb : Established(p) \/ AckArrives(p) \/ Redeliver(p)
Fairness == WF_vars(Returns) /\ WF_vars(Answers)
FairSpec == Spec /\ Fairness

-----------------------------------------------------------------------------
(* A socket's pcb is lwIP's, and calls back to that socket; a pcb that is  *)
(* in use belongs to a socket, waits in the slot of a listener or is being *)
(* closed; a socket without pcb was closed or told of an error.            *)
PointersMatch ==
  fault = NULL =>
    /\ \A s \in Sock :
         /\ sock[s].pcb # NULL => pcb[sock[s].pcb].arg = s
         /\ sock[s].pcb # NULL => ~Failed(s)
         /\ sock[s].connection # NULL /\ ~resetWaiting => ~SlotGone(s)
    /\ \A p \in Pcb : pcb[p].st \notin {"free", "closing"} =>
         \/ sock[pcb[p].arg].pcb = p
         \/ sock[pcb[p].arg].connection = p /\ Owned(pcb[p].arg, "listen")

(* What a stream returns continues what it returned before: the buffer a   *)
(* socket holds begins where the script has read to, what lwIP kept comes  *)
(* after it, and every byte that arrived has been read, is held or kept.   *)
(* The window has shrunk by just what was not read yet.  A datagram is     *)
(* held with its own sender.                                               *)
StreamExact ==
  fault = NULL =>
  \A s \in Sock : sock[s].pcb # NULL =>
    LET q    == pcb[sock[s].pcb]
        held == IF sock[s].pbuf = NULL THEN 0 ELSE LeftIn(s)
    IN  IF sock[s].type = "udp" THEN sock[s].pbuf # NULL => sock[s].peer = sock[s].pbuf.from
        ELSE q.st = "estab" =>
          /\ sock[s].pbuf # NULL => sock[s].got = sock[s].pbuf.from + (sock[s].pbuf.len - LeftIn(s))
          /\ sock[s].pbuf = NULL => sock[s].leftover = 0
          /\ q.refused # NULL => q.refused.from = sock[s].got + held
          /\ q.sent = sock[s].got + held + (IF q.refused = NULL THEN 0 ELSE q.refused.len)
          /\ q.wnd + (q.sent - sock[s].got) = WND

(* A script is told the end of a stream after every byte of it.            *)
EofIsEnd ==
  \A s \in Sock : sock[s].eof /\ Owned(s, "estab") =>
    pcb[sock[s].pcb].ended /\ sock[s].got = pcb[sock[s].pcb].sent

(* What it takes to stop a script: a connection was reset while it waited  *)
(* to be accepted, and its listener accepts or closes; something happens to*)
(* a stream that was closed; the peer closed a stream that was closed      *)
(* before, or that connect has not returned yet; a receive on a stream that*)
(* was never connected; a listener that is used like a connection; and a   *)
(* socket that was closed or reset, by bind or an option.                  *)
FaultsKnown ==
  [][/\ fault' = "slot"     => resetWaiting
     /\ fault' = "stale"    => \E p \in Pcb : pcb[p].st = "closing"
     /\ fault' = "index"    => \E s \in Sock : sock[s].state = "peer_closed" /\ (sock[s].pcb = NULL \/ In("connect", s))
     /\ fault' = "assert"   => \E s \in Sock : sock[s].pcb # NULL /\ sock[s].state \in {"new", "connecting"}
     /\ fault' = "listener" => \E s \in Sock : Owned(s, "listen")
     /\ fault' = "nopcb"    => \E s \in Sock : sock[s].pcb = NULL /\ (Failed(s) \/ sock[s].state = "peer_closed")]_vars

(* A call returns: a connection is made or refused, what has been sent is  *)
(* acknowledged, the end of a stream is noticed, and a time comes to its   *)
(* end.  Not so a receive on a connection whose end was lost before it was *)
(* accepted, and sendall on a socket that is still being connected.        *)
Due == /\ call # Idle
       /\ \/ call.op \in {"connect", "send"}
          \/ call.op = "dns" /\ lwip_ether_objs # << >>
          \/ call.op = "sendall" /\ sock[call.sock].state # "connecting"
          \/ call.op \in {"accept", "recvfrom", "recv"} /\ sock[call.sock].timeout # None
          \/ call.op = "recv" /\ \/ Failed(call.sock)
                                 \/ LET q == pcb[sock[call.sock].pcb] IN q.ended /\ ~q.lost
CallsReturn == Due ~> (call = Idle \/ fault # NULL)
=============================================================================
