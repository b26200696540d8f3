---- MODULE MCLwipSocket ----
EXTENDS LwipSocket

(* A domain with two interfaces, of which Xenstore knows one address.      *)
MCVifIp == <<"ip0", NoIp>>
====
