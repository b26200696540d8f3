------------------------------ MODULE AioCalls ------------------------------
(***************************************************************************)
(* What asynchronous I/O promises a caller (shfs/shfs.h): a request that   *)
(* was accepted is answered once, after every part of it was answered by   *)
(* its device, and with an error iff one of the parts failed; one that     *)
(* was accepted by some of the devices only fails when these are done.     *)
(***************************************************************************)
CONSTANTS Caller, Part

VARIABLES out,    \* each caller's view: "none", "open", "doomed", "ok", "err"
          left,   \* the parts of its request that a device works on
          failed  \* those of whose request a part has failed

calls == <<out, left, failed>>

Pending == {"open", "doomed"}

Init ==
  /\ out = [c \in Caller |-> "none"]
  /\ left = [c \in Caller |-> {}] /\ failed = {}

(* Some parts are on their way: all that there are, or the request fails.  *)
Start(c) ==
  /\ out[c] \notin Pending
  /\ \E o \in Pending : out' = [out EXCEPT ![c] = o]
  /\ left' = [left EXCEPT ![c] = left'[c]] /\ left'[c] \subseteq Part /\ left'[c] # {}
  /\ failed' = failed \ {c}

Refuse(c) ==
  /\ out[c] \notin Pending
  /\ out' = [out EXCEPT ![c] = "err"]
  /\ UNCHANGED <<left, failed>>

Verdict(c, k) == IF out[c] = "open" /\ c \notin failed /\ k THEN "ok" ELSE "err"

(* A device answers a part; the last answer may be the caller's, too.      *)
Answer(c, p, k) ==
  /\ out[c] \in Pending
  /\ left' = [left EXCEPT ![c] = @ \ {p}]
  /\ \/ /\ failed' = IF k THEN failed ELSE failed \cup {c}
        /\ UNCHANGED out
     \/ /\ left[c] = {p}
        /\ out' = [out EXCEPT ![c] = Verdict(c, k)]
        /\ failed' = failed \ {c}

Deliver(c) ==
  /\ out[c] \in Pending /\ left[c] = {}
  /\ out' = [out EXCEPT ![c] = Verdict(c, TRUE)]
  /\ failed' = failed \ {c}
  /\ UNCHANGED left

Next ==
  \E c \in Caller : \/ Start(c) \/ Refuse(c) \/ Deliver(c)
                    \/ \E p \in left[c], k \in BOOLEAN : Answer(c, p, k)

Spec == Init /\ [][Next]_calls
=============================================================================
