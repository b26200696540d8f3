------------------------------ MODULE ShfsAio ------------------------------
(***************************************************************************)
(* Asynchronous I/O of an SHFS volume (shfs_aio_chunk and the token        *)
(* functions of shfs/shfs.c and shfs.h) over the block devices of its      *)
(* members (blkdev.h, blkdev.c), which others use as well with synchronous *)
(* I/O.  A range of chunks is cut into strips, each of them a request to   *)
(* one member; a token stands for them all.                                *)
(*                                                                         *)
(* The functions here do not yield, except where a caller waits, so one    *)
(* action is a whole call up to its wait.  Completions run when somebody   *)
(* polls a device.  A caller has one call at a time.  The devices answer   *)
(* in any order.                                                           *)
(***************************************************************************)
EXTENDS Naturals, FiniteSets

CONSTANTS
  Caller,
  Token,       \* the objects of shfs_vol.aiotoken_pool
  NbMember,    \* shfs_vol.nb_members
  RingSize,    \* slots of a blkfront ring
  ChunkNo,     \* chunk numbers that are asked for
  MaxLen       \* bound on the length of a range; the callers in the tree use 1

ASSUME AioAssumption ==
  /\ IsFiniteSet(Caller) /\ IsFiniteSet(Token) /\ Caller \cap Token = {}
  /\ NbMember \in Nat \ {0} /\ RingSize \in Nat \ {0} /\ MaxLen \in Nat
  /\ ChunkNo \subseteq Nat

VARIABLES
  stripemode,  \* shfs_vol.stripemode
  freeTok,     \* the token pool
  infly, cb,   \* of a token: requests in flight, is there a callback?
  bad,         \* of whom t->ret, or iosync.ret of a synchronous call, is an error
  reqpool,     \* bd->reqpool of each member: free request objects
  ring,        \* requests the devices work on: whose, and which strip
  pc, tok, res \* of each caller: where it waits, its token, its last result

tokVars == <<freeTok, infly, cb>>
vars == <<stripemode, tokVars, bad, reqpool, ring, pc, tok, res>>

Member == 0 .. NbMember - 1
On(s) == s % NbMember
Held(m) == {r \in ring : On(r.strip) = m}

MaxRequestsBug == RingSize + 1
MaxRequests == RingSize - 1

TypeOK ==
  /\ stripemode \in {"combined", "independent"}
  /\ freeTok \subseteq Token /\ infly \in [Token -> Nat] /\ cb \in [Token -> BOOLEAN]
  /\ bad \subseteq Token \cup Caller
  /\ reqpool \in [Member -> 0 .. MaxRequests]
  /\ ring \subseteq [of : Token \cup Caller, strip : Nat]
  /\ pc \in [Caller -> {"idle", "wait", "callback", "cancel", "sync"}]
  /\ tok \in [Caller -> Token \cup Caller] /\ res \in [Caller -> {"none", "ok", "err"}]

Init ==
  /\ stripemode \in {"combined", "independent"}
  /\ freeTok = Token /\ infly = [t \in Token |-> 0] /\ cb = [t \in Token |-> FALSE]
  /\ bad = {}
  /\ reqpool = [m \in Member |-> MaxRequests] /\ ring = {}
  /\ pc = [c \in Caller |-> "idle"] /\ tok = [c \in Caller |-> c]
  /\ res = [c \in Caller |-> "none"]

-----------------------------------------------------------------------------
(* The strips of a range: one on every member for each chunk, or one for   *)
(* each chunk.                                                             *)
FirstStrip(start) ==
  IF stripemode = "combined" THEN start * NbMember ELSE start + NbMember - 1
EndStrip(start, len) ==
  IF stripemode = "combined" THEN (start + len) * NbMember
  ELSE FirstStrip(start) + len
Strips(start, len) == FirstStrip(start) .. EndStrip(start, len) - 1

(* The check before the token is picked; it rounds down. *)
ReqPerMember(start, len) == (EndStrip(start, len) - FirstStrip(start)) \div NbMember
Available(start, len) == \A m \in Member : reqpool[m] >= ReqPerMember(start, len)

Needs(S, m) == Cardinality({s \in S : On(s) = m})
Room(S) == \A m \in Member : Needs(S, m) <= reqpool[m]

(* blkdev_async_io for the strips of S, in the name of x. *)
Issue(x, S) ==
  /\ ring' = ring \cup [of : {x}, strip : S]
  /\ reqpool' = [m \in Member |-> reqpool[m] - Needs(S, m)]

(* shfs_aio_pick_token, and what the pool does to the object. *)
PickBug(t) ==
  /\ freeTok' = freeTok \ {t}
  /\ UNCHANGED bad
Pick(t) ==
  /\ freeTok' = freeTok \ {t}
  /\ bad' = bad \ {t}

(* shfs_aio_chunk: there is no token or no request for the first strip, ... *)
ChunkRefused(c, start, len) ==
  /\ pc[c] = "idle"
  /\ \/ ~Available(start, len)
     \/ freeTok = {}
     \/ len > 0 /\ ~Room({FirstStrip(start)})
  /\ res' = [res EXCEPT ![c] = "err"]
  /\ UNCHANGED <<stripemode, tokVars, bad, reqpool, ring, pc, tok>>

(* ... or the requests S are on their way with token t; when these are not *)
(* all, the callback is erased and the call waits for them.                *)
Chunk(c, t, S, next, hasCb) ==
  /\ pc[c] = "idle" /\ t \in freeTok /\ S # {}
  /\ Pick(t)
  /\ infly' = [infly EXCEPT ![t] = Cardinality(S)]
  /\ cb' = [cb EXCEPT ![t] = hasCb]
  /\ Issue(t, S)
  /\ pc' = [pc EXCEPT ![c] = next]
  /\ tok' = [tok EXCEPT ![c] = t]
  /\ res' = [res EXCEPT ![c] = "none"]
  /\ UNCHANGED stripemode

ChunkAccepted(c, start, len) ==
  /\ Available(start, len) /\ Room(Strips(start, len))
  /\ \E t \in Token, hasCb \in BOOLEAN :
       Chunk(c, t, Strips(start, len), IF hasCb THEN "callback" ELSE "wait", hasCb)

ChunkCancelled(c, start, len) ==
  /\ Available(start, len)
  /\ \E s \in Strips(start, len), t \in Token :
       LET issued == {x \in Strips(start, len) : x < s}
       IN  /\ Room(issued) /\ ~Room(issued \cup {s})
           /\ Chunk(c, t, issued, "cancel", FALSE)

(* blkdev_sync_io: it polls until there is a request object. *)
SyncIo(c, m) ==
  /\ pc[c] = "idle" /\ Room({m})
  /\ Issue(c, {m})
  /\ pc' = [pc EXCEPT ![c] = "sync"]
  /\ res' = [res EXCEPT ![c] = "none"]
  /\ UNCHANGED <<stripemode, tokVars, bad, tok>>

-----------------------------------------------------------------------------
Verdict(x) == IF x \in bad THEN "err" ELSE "ok"

(* A device answers a request, and the answer is polled: the user's        *)
(* callback runs, here _shfs_aio_cb or _blkdev_sync_io_cb, and the request *)
(* object goes back.  The callbacks of shfs_aio_chunk's callers finalize   *)
(* the token first of all.                                                 *)
Put(r) ==
  /\ ring' = ring \ {r}
  /\ reqpool' = [reqpool EXCEPT ![On(r.strip)] = @ + 1]

SyncAnswer(r, ok) ==
  /\ r.of \in Caller
  /\ bad' = IF ok THEN bad \ {r.of} ELSE bad \cup {r.of}
  /\ Put(r)
  /\ UNCHANGED <<stripemode, tokVars, pc, tok, res>>

CallsBackBug(t) == infly[t] = 1 /\ cb[t] /\ t \notin bad
CallsBack(t) == infly[t] = 1 /\ cb[t]

AioAnswer(r, ok) ==
  /\ r.of \in Token
  /\ LET t == r.of
     IN  /\ bad' = IF ok THEN bad ELSE bad \cup {t}
         /\ infly' = [infly EXCEPT ![t] = @ - 1]
         /\ IF CallsBack(t)
            THEN \E c \in Caller :
                   /\ pc[c] = "callback" /\ tok[c] = t
                   /\ freeTok' = freeTok \cup {t}
                   /\ pc' = [pc EXCEPT ![c] = "idle"]
                   /\ tok' = [tok EXCEPT ![c] = c]
                   /\ res' = [res EXCEPT ![c] = Verdict(t)']
            ELSE UNCHANGED <<freeTok, pc, tok, res>>
  /\ Put(r)
  /\ UNCHANGED <<stripemode, cb>>

Answer(r) == \E ok \in BOOLEAN : SyncAnswer(r, ok) \/ AioAnswer(r, ok)

(* shfs_aio_wait and shfs_aio_finalize, ... *)
IsDone(t) == infly[t] = 0
Finalize(c) ==
  /\ pc[c] = "wait" /\ IsDone(tok[c])
  /\ freeTok' = freeTok \cup {tok[c]}
  /\ pc' = [pc EXCEPT ![c] = "idle"]
  /\ tok' = [tok EXCEPT ![c] = c]
  /\ res' = [res EXCEPT ![c] = Verdict(tok[c])]
  /\ UNCHANGED <<stripemode, infly, cb, bad, reqpool, ring>>

(* ... shfs_aio_wait and shfs_aio_put_token of a call that fails, ... *)
CancelEnd(c) ==
  /\ pc[c] = "cancel" /\ IsDone(tok[c])
  /\ freeTok' = freeTok \cup {tok[c]}
  /\ pc' = [pc EXCEPT ![c] = "idle"]
  /\ tok' = [tok EXCEPT ![c] = c]
  /\ res' = [res EXCEPT ![c] = "err"]
  /\ UNCHANGED <<stripemode, infly, cb, bad, reqpool, ring>>

(* ... and the wait of blkdev_sync_io for its semaphore; iosync was on its *)
(* stack.                                                                  *)
SyncEnd(c) ==
  /\ pc[c] = "sync" /\ \A r \in ring : r.of # c
  /\ pc' = [pc EXCEPT ![c] = "idle"]
  /\ res' = [res EXCEPT ![c] = Verdict(c)]
  /\ bad' = bad \ {c}
  /\ UNCHANGED <<stripemode, tokVars, reqpool, ring, tok>>

Return(c) == Finalize(c) \/ CancelEnd(c) \/ SyncEnd(c)

Next ==
  \/ \E c \in Caller :
       \/ \E start \in ChunkNo, len \in 1 .. MaxLen :
            \/ ChunkRefused(c, start, len) \/ ChunkAccepted(c, start, len)
            \/ ChunkCancelled(c, start, len)
       \/ \E m \in Member : SyncIo(c, m)
       \/ Return(c)
  \/ \E r \in ring : Answer(r)

Spec == Init /\ [][Next]_vars

(* Whoever waits polls, and the devices answer what they were given.       *)
Fairness ==
  /\ \A x \in Token \cup Caller : WF_vars(\E r \in ring : r.of = x /\ Answer(r))
  /\ \A c \in Caller : WF_vars(Return(c))
FairSpec == Spec /\ Fairness

-----------------------------------------------------------------------------
Using(t) == {c \in Caller : pc[c] \in {"wait", "callback", "cancel"} /\ tok[c] = t}

(* Tokens and request objects are lent, never lost or lent twice; and      *)
(* blkfront has a slot for every request ("MAX_REQUESTS"), which           *)
(* shfs_aio_chunk relies on when it counts a request after issuing it.     *)
PoolsExact ==
  /\ \A t \in Token : Cardinality(Using(t)) = IF t \in freeTok THEN 0 ELSE 1
  /\ \A m \in Member : /\ reqpool[m] + Cardinality(Held(m)) = MaxRequests
                       /\ Cardinality(Held(m)) <= RingSize

(* What callers are told is what AioCalls promises. *)
Waits(c) == pc[c] # "idle"
Calls == INSTANCE AioCalls WITH
  Part <- Nat,
  out  <- [c \in Caller |-> IF pc[c] = "cancel" THEN "doomed"
                            ELSE IF Waits(c) THEN "open" ELSE res[c]],
  left <- [c \in Caller |-> IF Waits(c) THEN {r.strip : r \in {x \in ring : x.of = tok[c]}}
                            ELSE {}],
  failed <- {c \in Caller : Waits(c) /\ tok[c] \in bad}
ImplementsCalls == Calls!Spec

(* Every call that was accepted is answered. *)
Answered == \A c \in Caller : Waits(c) ~> ~Waits(c)
=============================================================================
