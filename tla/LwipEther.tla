----------------------------- MODULE LwipEther -----------------------------
(***************************************************************************)
(* The interfaces of modlwip.c: lwip_addif adds one when a script makes an *)
(* ether object, and implicitly when it binds an address that no interface *)
(* serves yet or connects before there is any interface.                   *)
(***************************************************************************)
EXTENDS Integers, Sequences, SequencesExt

CONSTANTS ETHER_MAX,
          VifIp,      \* the address Xenstore has for each vif of the domain, or NoIp
          NoIp, ANY,  \* no address; 0.0.0.0
          Addr        \* what scripts ask for: ANY and others

ASSUME LwipEtherAssumption == ETHER_MAX \in Nat \ {0} /\ NoIp \notin Addr /\ ANY \in Addr

VARIABLES lwip_ether_objs,   \* the interfaces: their vif and address
          noip_off           \* where the next search for a vif without address begins

etherVars == <<lwip_ether_objs, noip_off>>

NbVif == Len(VifIp)       \* vif i has the address VifIp[i + 1]

EtherInit == lwip_ether_objs = << >> /\ noip_off = 0

(* lwip_find_ip returns what tells that a vif has the address (any address *)
(* if asked for 0.0.0.0), and the address: 0, whichever vif it is.         *)
FoundIps(ip) == {VifIp[i] : i \in {j \in 1 .. NbVif : VifIp[j] # NoIp /\ ip \in {ANY, VifIp[j]}}}
FirstIp == VifIp[CHOOSE i \in 1 .. NbVif :
                   VifIp[i] # NoIp /\ \A j \in 1 .. i - 1 : VifIp[j] = NoIp]

(* lwip_find_next_noip from an offset on: the last vif it asks for is one  *)
(* past the domain's vifs, which has no address either.                    *)
NoipVifs(offset) == {i \in offset .. NbVif : i = NbVif \/ VifIp[i + 1] = NoIp}

(* lwip_addif, when it does not raise.                                     *)
CanAdd(ip) == /\ Len(lwip_ether_objs) < ETHER_MAX
              /\ FoundIps(ip) # {} \/ NoipVifs(noip_off) # {}
AddIf(ip) ==
  /\ CanAdd(ip)
  /\ IF FoundIps(ip) # {}
     THEN /\ lwip_ether_objs' = Append(lwip_ether_objs,
                                  [vif |-> 0, ip |-> IF ip = ANY THEN FirstIp ELSE ip, listed |-> TRUE])
          /\ UNCHANGED noip_off
     ELSE LET v == CHOOSE i \in NoipVifs(noip_off) : \A j \in NoipVifs(noip_off) : i <= j
          IN  /\ lwip_ether_objs' = Append(lwip_ether_objs, [vif |-> v, ip |-> ip, listed |-> FALSE])
              /\ noip_off' = v + 1

(* lwip_address_bindable, of addresses that are neither link-local nor a   *)
(* multicast or broadcast address.                                         *)
Bindable(ip) == /\ lwip_ether_objs # << >>
                /\ ip = ANY \/ \E o \in ToSet(lwip_ether_objs) : o.ip = ip

(* lwip_socket_bind, as far as the interfaces are concerned.               *)
BindAddr(ip) == IF Bindable(ip) THEN UNCHANGED etherVars ELSE AddIf(ip)
=============================================================================
