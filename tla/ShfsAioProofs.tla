---------------------------- MODULE ShfsAioProofs ----------------------------
(***************************************************************************)
(* The pools of asynchronous I/O for every number of callers, tokens,      *)
(* members and slots of a ring, and for ranges of every length: AioInv is  *)
(* inductive, and PoolsExact follows from it.                              *)
(***************************************************************************)
EXTENDS ShfsAio, Counting

USE AioAssumption

(* The requests in flight for x. *)
Of(x) == {r \in ring : r.of = x}

Lent == {"wait", "callback", "cancel"}

AioTypeOK ==
  /\ stripemode \in {"combined", "independent"}
  /\ freeTok \subseteq Token /\ DOMAIN infly = Token
  /\ reqpool \in [Member -> Int]
  /\ ring \subseteq [of : Token \cup Caller, strip : Int] /\ IsFiniteSet(ring)
  /\ pc \in [Caller -> Lent \cup {"idle", "sync"}]
  /\ tok \in [Caller -> Token \cup Caller]

(* A token that is not free is with one caller.                            *)
TokInv ==
  /\ \A c \in Caller : pc[c] \in Lent => tok[c] \in Token \ freeTok
  /\ \A c, d \in Caller : pc[c] \in Lent /\ pc[d] \in Lent /\ tok[c] = tok[d] => c = d
  /\ \A t \in Token \ freeTok : \E c \in Caller : pc[c] \in Lent /\ tok[c] = t

(* Whoever has requests in flight waits for them, and a token counts them. *)
FlightInv ==
  /\ \A t \in Token : infly[t] = Cardinality(Of(t))
  /\ \A t \in freeTok : Of(t) = {}
  /\ \A c \in Caller : pc[c] # "sync" => Of(c) = {}

(* Request objects are in the pool of their member, or in flight.          *)
PoolInv ==
  \A m \in Member : reqpool[m] >= 0 /\ reqpool[m] + Cardinality(Held(m)) = MaxRequests

AioInv == AioTypeOK /\ TokInv /\ FlightInv /\ PoolInv

-----------------------------------------------------------------------------
LEMMA OnMember == ASSUME NEW s \in Int PROVE On(s) \in Member
  BY DEF On, Member

(* The strips of a range are finitely many numbers.                        *)
LEMMA StripsFinite ==
  ASSUME NEW start \in Nat, NEW len \in Nat
  PROVE  /\ IsFiniteSet(Strips(start, len)) /\ Strips(start, len) \subseteq Int
<1>1. FirstStrip(start) \in Int /\ EndStrip(start, len) - 1 \in Int
  BY DEF FirstStrip, EndStrip
<1>2. QED
  BY <1>1, FS_Interval DEF Strips

(* Requests for the strips that satisfy a condition are as many as these.  *)
LEMMA RequestCount ==
  ASSUME NEW x, NEW S, IsFiniteSet(S)
  PROVE  /\ IsFiniteSet([of : {x}, strip : S])
         /\ Cardinality([of : {x}, strip : S]) = Cardinality(S)
<1> DEFINE R == [of : {x}, strip : S]
           f == [s \in S |-> [of |-> x, strip |-> s]]
<1>1. f \in Injection(S, R)
  BY DEF Injection, IsInjective
<1>2. f \in Surjection(S, R)
  <2>1. \A r \in R : r.strip \in S /\ f[r.strip] = r
    OBVIOUS
  <2>2. QED
    BY <2>1 DEF Surjection
<1>3. ExistsBijection(S, R)
  BY <1>1, <1>2 DEF ExistsBijection, Bijection
<1>4. QED
  BY <1>3, FS_Bijection

(* Two sets without a common element, counted.                             *)
LEMMA DisjointCount ==
  ASSUME NEW S, NEW T, IsFiniteSet(S), IsFiniteSet(T), S \cap T = {}
  PROVE  /\ IsFiniteSet(S \cup T) /\ Cardinality(S) \in Nat /\ Cardinality(T) \in Nat
         /\ Cardinality(S \cup T) = Cardinality(S) + Cardinality(T)
<1>1. /\ IsFiniteSet(S \cup T)
      /\ Cardinality(S \cup T) = Cardinality(S) + Cardinality(T) - Cardinality(S \cap T)
  BY FS_Union
<1>2. Cardinality(S \cap T) = 0
  BY FS_EmptySet
<1>3. Cardinality(S) \in Nat /\ Cardinality(T) \in Nat
  BY FS_CardinalityType
<1>4. QED
  BY <1>1, <1>2, <1>3

(* The requests S are issued in the name of x, who had none in flight.     *)
LEMMA IssueCounts ==
  ASSUME AioInv, NEW x \in Token \cup Caller, NEW S, IsFiniteSet(S), S \subseteq Int, Of(x) = {},
         Room(S), Issue(x, S)
  PROVE  /\ ring' \subseteq [of : Token \cup Caller, strip : Int] /\ IsFiniteSet(ring')
         /\ reqpool' \in [Member -> Int] /\ PoolInv'
         /\ Cardinality(Of(x)') = Cardinality(S)
         /\ \A y : y # x => Of(y)' = Of(y)
<1> DEFINE new == [of : {x}, strip : S]
<1>1. ring' = ring \cup new /\ ring \cap new = {} /\ IsFiniteSet(new) /\ IsFiniteSet(ring)
  BY RequestCount DEF Issue, AioInv, AioTypeOK, Of
<1>2. ring' \subseteq [of : Token \cup Caller, strip : Int] /\ IsFiniteSet(ring')
  BY <1>1, FS_Union DEF AioInv, AioTypeOK
<1>3. Of(x)' = new /\ \A y : y # x => Of(y)' = Of(y)
  BY <1>1 DEF Of
<1>4. reqpool' \in [Member -> Int] /\ PoolInv'
  <2>1. ASSUME NEW m \in Member
        PROVE  /\ reqpool'[m] \in Int /\ reqpool'[m] >= 0
               /\ reqpool'[m] + Cardinality(Held(m)') = MaxRequests
    <3> DEFINE A == {s \in S : On(s) = m}
               B == [of : {x}, strip : A]
    <3>1. IsFiniteSet(A) /\ Cardinality(A) = Needs(S, m) /\ Cardinality(A) \in Nat
      BY FS_Subset, FS_CardinalityType DEF Needs
    <3>2. IsFiniteSet(B) /\ Cardinality(B) = Needs(S, m)
      BY <3>1, RequestCount
    <3>3. Held(m)' = Held(m) \cup B /\ Held(m) \cap B = {}
      BY <1>1 DEF Held
    <3>4. IsFiniteSet(Held(m))
      BY <1>1, FS_Subset DEF Held
    <3>5. Cardinality(Held(m)') = Cardinality(Held(m)) + Needs(S, m) /\ Cardinality(Held(m)) \in Nat
      BY <3>2, <3>3, <3>4, DisjointCount
    <3>6. reqpool'[m] = reqpool[m] - Needs(S, m) /\ Needs(S, m) <= reqpool[m] /\ reqpool[m] \in Int
      BY DEF Issue, Room, AioInv, AioTypeOK
    <3>7. reqpool[m] + Cardinality(Held(m)) = MaxRequests
      BY DEF AioInv, PoolInv
    <3>8. QED
      BY <3>1, <3>5, <3>6, <3>7
  <2>2. reqpool' \in [Member -> Int]
    BY <2>1 DEF Issue
  <2>3. QED
    BY <2>1, <2>2 DEF PoolInv
<1>5. QED
  BY <1>1, <1>2, <1>3, <1>4, RequestCount

(* A request is answered. *)
LEMMA PutCounts ==
  ASSUME AioInv, NEW r \in ring, Put(r)
  PROVE  /\ ring' \subseteq [of : Token \cup Caller, strip : Int] /\ IsFiniteSet(ring')
         /\ reqpool' \in [Member -> Int] /\ PoolInv'
         /\ Of(r.of)' = Of(r.of) \ {r} /\ Cardinality(Of(r.of)') = Cardinality(Of(r.of)) - 1
         /\ IsFiniteSet(Of(r.of)') /\ Cardinality(Of(r.of)') \in Nat
         /\ \A y : y # r.of => Of(y)' = Of(y)
<1>1. /\ ring' = ring \ {r} /\ IsFiniteSet(ring) /\ r.strip \in Int /\ On(r.strip) \in Member
      /\ reqpool' = [reqpool EXCEPT ![On(r.strip)] = @ + 1]
  BY OnMember DEF Put, AioInv, AioTypeOK
<1>2. ring' \subseteq [of : Token \cup Caller, strip : Int] /\ IsFiniteSet(ring')
  BY <1>1, FS_RemoveElement DEF AioInv, AioTypeOK
<1>3. Of(r.of)' = Of(r.of) \ {r} /\ r \in Of(r.of) /\ \A y : y # r.of => Of(y)' = Of(y)
  BY <1>1 DEF Of
<1>4. IsFiniteSet(Of(r.of))
  BY <1>1, FS_Subset DEF Of
<1>5. /\ IsFiniteSet(Of(r.of)') /\ Cardinality(Of(r.of)') = Cardinality(Of(r.of)) - 1
      /\ Cardinality(Of(r.of)') \in Nat
  BY <1>3, <1>4, FS_RemoveElement, FS_CardinalityType
<1>6. reqpool' \in [Member -> Int]
  BY <1>1 DEF AioInv, AioTypeOK
<1>7. ASSUME NEW m \in Member
      PROVE  reqpool'[m] >= 0 /\ reqpool'[m] + Cardinality(Held(m)') = MaxRequests
  <2>1. reqpool[m] \in Int /\ reqpool[m] >= 0 /\ reqpool[m] + Cardinality(Held(m)) = MaxRequests
    BY DEF AioInv, AioTypeOK, PoolInv
  <2>2. IsFiniteSet(Held(m)) /\ Cardinality(Held(m)) \in Nat
    BY <1>1, FS_Subset, FS_CardinalityType DEF Held
  <2>3. CASE m = On(r.strip)
    <3>1. Held(m)' = Held(m) \ {r} /\ r \in Held(m)
      BY <1>1, <2>3 DEF Held
    <3>2. Cardinality(Held(m)') = Cardinality(Held(m)) - 1
      BY <2>2, <3>1, FS_RemoveElement
    <3>3. reqpool'[m] = reqpool[m] + 1
      BY <1>1, <2>3 DEF AioInv, AioTypeOK
    <3>4. QED
      BY <2>1, <2>2, <3>2, <3>3
  <2>4. CASE m # On(r.strip)
    <3>1. Held(m)' = Held(m)
      BY <1>1, <2>4 DEF Held
    <3>2. reqpool'[m] = reqpool[m]
      BY <1>1, <2>4 DEF AioInv, AioTypeOK
    <3>3. QED
      BY <2>1, <3>1, <3>2
  <2>5. QED
    BY <2>3, <2>4
<1>8. QED
  BY <1>2, <1>3, <1>5, <1>6, <1>7 DEF PoolInv

-----------------------------------------------------------------------------
LEMMA InitAioInv == Init => AioInv
<1> SUFFICES ASSUME Init PROVE AioInv
  OBVIOUS
<1>1. RingSize - 1 \in Nat /\ MaxRequests = RingSize - 1
  BY DEF MaxRequests
<1>2. AioTypeOK
  BY <1>1, FS_EmptySet DEF Init, AioTypeOK, Lent
<1>3. TokInv
  BY DEF Init, TokInv, Lent
<1>4. FlightInv
  BY FS_EmptySet DEF Init, FlightInv, Of
<1>5. PoolInv
  <2>1. \A m \in Member : Held(m) = {} /\ reqpool[m] = MaxRequests
    BY DEF Init, Held
  <2>2. QED
    BY <1>1, <2>1, FS_EmptySet DEF PoolInv
<1>6. QED
  BY <1>2, <1>3, <1>4, <1>5 DEF AioInv

(* A call that is accepted, in full or in part.                            *)
LEMMA ChunkInv ==
  ASSUME AioInv, NEW c \in Caller, NEW t \in Token, NEW S, NEW next \in Lent, NEW hasCb \in BOOLEAN,
         IsFiniteSet(S), S \subseteq Int, Room(S), Chunk(c, t, S, next, hasCb)
  PROVE  AioInv'
<1>1. /\ pc[c] = "idle" /\ t \in freeTok /\ freeTok' = freeTok \ {t} /\ stripemode' = stripemode
      /\ infly' = [infly EXCEPT ![t] = Cardinality(S)] /\ Issue(t, S)
      /\ pc' = [pc EXCEPT ![c] = next] /\ tok' = [tok EXCEPT ![c] = t]
  BY DEF Chunk, Pick
<1>2. Of(t) = {}
  BY <1>1 DEF AioInv, FlightInv
<1>3. /\ ring' \subseteq [of : Token \cup Caller, strip : Int] /\ IsFiniteSet(ring')
      /\ reqpool' \in [Member -> Int] /\ PoolInv'
      /\ Cardinality(Of(t)') = Cardinality(S)
      /\ \A y : y # t => Of(y)' = Of(y)
  BY <1>1, <1>2, IssueCounts
<1>4. AioTypeOK'
  BY <1>1, <1>3 DEF AioInv, AioTypeOK, Lent
<1>5. /\ pc'[c] = next /\ tok'[c] = t
      /\ \A d \in Caller \ {c} : pc'[d] = pc[d] /\ tok'[d] = tok[d]
  BY <1>1 DEF AioInv, AioTypeOK
<1>6. pc[c] \notin Lent
  BY <1>1 DEF Lent
<1>7. TokInv'
  <2>1. \A d \in Caller : pc'[d] \in Lent => tok'[d] \in Token \ freeTok'
    BY <1>1, <1>5 DEF AioInv, TokInv
  <2>2. \A d, e \in Caller : pc'[d] \in Lent /\ pc'[e] \in Lent /\ tok'[d] = tok'[e] => d = e
    BY <1>1, <1>5 DEF AioInv, TokInv
  <2>3. ASSUME NEW u \in Token \ freeTok' PROVE \E d \in Caller : pc'[d] \in Lent /\ tok'[d] = u
    BY <1>1, <1>5, <1>6 DEF AioInv, TokInv
  <2>4. QED
    BY <2>1, <2>2, <2>3 DEF TokInv
<1>8. FlightInv'
  <2>1. \A u \in Token : infly'[u] = Cardinality(Of(u)')
    BY <1>1, <1>3 DEF AioInv, AioTypeOK, FlightInv
  <2>2. \A u \in freeTok' : Of(u)' = {}
    BY <1>1, <1>3 DEF AioInv, FlightInv
  <2>3. \A d \in Caller : pc'[d] # "sync" => Of(d)' = {}
    BY <1>1, <1>3, <1>5 DEF AioInv, FlightInv
  <2>4. QED
    BY <2>1, <2>2, <2>3 DEF FlightInv
<1>9. QED
  BY <1>3, <1>4, <1>7, <1>8 DEF AioInv

LEMMA ChunkAcceptedInv ==
  ASSUME AioInv, NEW c \in Caller, NEW start \in ChunkNo, NEW len \in 1 .. MaxLen,
         ChunkAccepted(c, start, len)
  PROVE  AioInv'
<1>1. PICK t \in Token, hasCb \in BOOLEAN :
         Chunk(c, t, Strips(start, len), IF hasCb THEN "callback" ELSE "wait", hasCb)
  BY DEF ChunkAccepted
<1>2. IsFiniteSet(Strips(start, len)) /\ Strips(start, len) \subseteq Int
  BY StripsFinite
<1>3. Room(Strips(start, len))
  BY DEF ChunkAccepted
<1>4. (IF hasCb THEN "callback" ELSE "wait") \in Lent
  BY DEF Lent
<1>5. QED
  BY <1>1, <1>2, <1>3, <1>4, ChunkInv

LEMMA ChunkCancelledInv ==
  ASSUME AioInv, NEW c \in Caller, NEW start \in ChunkNo, NEW len \in 1 .. MaxLen,
         ChunkCancelled(c, start, len)
  PROVE  AioInv'
<1>1. PICK s \in Strips(start, len), t \in Token :
         LET issued == {x \in Strips(start, len) : x < s}
         IN  Room(issued) /\ Chunk(c, t, issued, "cancel", FALSE)
  BY DEF ChunkCancelled
<1> DEFINE issued == {x \in Strips(start, len) : x < s}
<1>2. IsFiniteSet(issued) /\ issued \subseteq Int
  BY StripsFinite, FS_Subset
<1>3. Room(issued) /\ Chunk(c, t, issued, "cancel", FALSE)
  BY <1>1
<1> HIDE DEF issued
<1>4. "cancel" \in Lent
  BY DEF Lent
<1>5. QED
  BY <1>2, <1>3, <1>4, ChunkInv

LEMMA SyncIoInv == ASSUME AioInv, NEW c \in Caller, NEW m \in Member, SyncIo(c, m) PROVE AioInv'
<1>1. /\ pc[c] = "idle" /\ Room({m}) /\ Issue(c, {m}) /\ pc' = [pc EXCEPT ![c] = "sync"]
      /\ UNCHANGED <<stripemode, tokVars, tok>>
  BY DEF SyncIo
<1>2. Of(c) = {} /\ {m} \subseteq Int /\ IsFiniteSet({m})
  <2>1. Of(c) = {}
    BY <1>1 DEF AioInv, FlightInv
  <2>2. m \in Int
    BY DEF Member
  <2>3. IsFiniteSet({m})
    BY FS_Singleton
  <2>4. QED
    BY <2>1, <2>2, <2>3
<1>3. /\ ring' \subseteq [of : Token \cup Caller, strip : Int] /\ IsFiniteSet(ring')
      /\ reqpool' \in [Member -> Int] /\ PoolInv'
      /\ \A y : y # c => Of(y)' = Of(y)
  BY <1>1, <1>2, IssueCounts
<1>4. AioTypeOK'
  BY <1>1, <1>3 DEF AioInv, AioTypeOK, tokVars
<1>5. \A d \in Caller : pc'[d] = IF d = c THEN "sync" ELSE pc[d]
  BY <1>1 DEF AioInv, AioTypeOK
<1>6. TokInv'
  BY <1>1, <1>5 DEF AioInv, TokInv, Lent, tokVars
<1>7. FlightInv'
  BY <1>1, <1>3, <1>5 DEF AioInv, AioTypeOK, FlightInv, tokVars
<1>8. QED
  BY <1>3, <1>4, <1>6, <1>7 DEF AioInv

(* A caller gives its token back when nothing is in flight for it.         *)
LEMMA GiveBack ==
  ASSUME AioInv, NEW c \in Caller, NEW t \in Token, pc[c] \in Lent, tok[c] = t, freeTok' = freeTok \cup {t},
         pc' = [pc EXCEPT ![c] = "idle"], tok' = [tok EXCEPT ![c] = c],
         stripemode' = stripemode, AioTypeOK', PoolInv',
         \A u \in Token : infly'[u] = Cardinality(Of(u)'), Of(t)' = {},
         \A y \in freeTok \cup Caller : Of(y)' = Of(y)
  PROVE  AioInv'
<1>1. /\ pc'[c] = "idle" /\ tok'[c] = c
      /\ \A d \in Caller \ {c} : pc'[d] = pc[d] /\ tok'[d] = tok[d]
  BY DEF AioInv, AioTypeOK
<1>2. "idle" \notin Lent /\ "sync" \notin Lent
  BY DEF Lent
<1>3. TokInv'
  <2>1. \A d \in Caller : pc'[d] \in Lent => tok'[d] \in Token \ freeTok'
    BY <1>1, <1>2 DEF AioInv, TokInv
  <2>2. \A d, e \in Caller : pc'[d] \in Lent /\ pc'[e] \in Lent /\ tok'[d] = tok'[e] => d = e
    BY <1>1, <1>2 DEF AioInv, TokInv
  <2>3. ASSUME NEW u \in Token \ freeTok' PROVE \E d \in Caller : pc'[d] \in Lent /\ tok'[d] = u
    BY <1>1, <1>2 DEF AioInv, TokInv
  <2>4. QED
    BY <2>1, <2>2, <2>3 DEF TokInv
<1>4. FlightInv'
  <2>1. \A u \in freeTok' : Of(u)' = {}
    BY DEF AioInv, FlightInv
  <2>2. \A d \in Caller : pc'[d] # "sync" => Of(d)' = {}
    BY <1>1, <1>2 DEF AioInv, FlightInv
  <2>3. QED
    BY <2>1, <2>2 DEF FlightInv
<1>5. QED
  BY <1>3, <1>4 DEF AioInv

(* shfs_aio_finalize and shfs_aio_put_token of a token that is done.       *)
LEMMA DoneInv ==
  ASSUME AioInv, NEW c \in Caller, NEW t \in Token, pc[c] \in {"wait", "cancel"}, tok[c] = t, IsDone(t),
         freeTok' = freeTok \cup {t},
         pc' = [pc EXCEPT ![c] = "idle"], tok' = [tok EXCEPT ![c] = c],
         stripemode' = stripemode, infly' = infly, reqpool' = reqpool, ring' = ring
  PROVE  AioInv'
<1>1. pc[c] \in Lent
  BY DEF Lent
<1>2. AioTypeOK'
  BY <1>1 DEF AioInv, AioTypeOK
<1>3. PoolInv' /\ \A y : Of(y)' = Of(y)
  BY DEF AioInv, PoolInv, Held, Of
<1>4. Cardinality(Of(t)) = 0
  BY <1>1 DEF IsDone, AioInv, FlightInv
<1>5. IsFiniteSet(Of(t))
  BY FS_Subset DEF Of, AioInv, AioTypeOK
<1>6. Of(t)' = {}
  <2>1. Of(t) = {}
    BY <1>4, <1>5, FS_EmptySet
  <2>2. QED
    BY <1>3, <2>1
<1>7. \A u \in Token : infly'[u] = Cardinality(Of(u)')
  BY <1>3 DEF AioInv, FlightInv
<1>8. QED
  BY <1>1, <1>2, <1>3, <1>6, <1>7, GiveBack

(* An answer to a token or to a caller.                                    *)
LEMMA SyncAnswerInv ==
  ASSUME AioInv, NEW r \in ring, NEW ok \in BOOLEAN, SyncAnswer(r, ok) PROVE AioInv'
<1>1. r.of \in Caller /\ Put(r) /\ UNCHANGED <<stripemode, tokVars, pc, tok>>
  BY DEF SyncAnswer
<1>2. /\ ring' \subseteq [of : Token \cup Caller, strip : Int] /\ IsFiniteSet(ring')
      /\ reqpool' \in [Member -> Int] /\ PoolInv'
      /\ Of(r.of)' = Of(r.of) \ {r} /\ \A y : y # r.of => Of(y)' = Of(y)
  BY <1>1, PutCounts
<1>3. AioTypeOK' /\ TokInv'
  BY <1>1, <1>2 DEF AioInv, AioTypeOK, TokInv, tokVars
<1>4. FlightInv'
  <2>1. \A t \in Token : Of(t)' = Of(t)
    BY <1>1, <1>2
  <2>2. \A d \in Caller : Of(d) = {} => Of(d)' = {}
    BY <1>2
  <2>3. QED
    BY <1>1, <2>1, <2>2 DEF AioInv, AioTypeOK, FlightInv, tokVars
<1>5. QED
  BY <1>2, <1>3, <1>4 DEF AioInv

LEMMA AioAnswerInv ==
  ASSUME AioInv, NEW r \in ring, NEW ok \in BOOLEAN, AioAnswer(r, ok) PROVE AioInv'
<1> DEFINE t == r.of
<1>1. t \in Token /\ Put(r) /\ infly' = [infly EXCEPT ![t] = @ - 1] /\ stripemode' = stripemode
  BY DEF AioAnswer
<1>2. /\ ring' \subseteq [of : Token \cup Caller, strip : Int] /\ IsFiniteSet(ring')
      /\ reqpool' \in [Member -> Int] /\ PoolInv'
      /\ Of(t)' = Of(t) \ {r} /\ Cardinality(Of(t)') = Cardinality(Of(t)) - 1
      /\ IsFiniteSet(Of(t)') /\ \A y : y # t => Of(y)' = Of(y)
  BY <1>1, PutCounts
<1>3. infly[t] = Cardinality(Of(t)) /\ t \notin freeTok
  BY <1>1 DEF AioInv, FlightInv, Of
<1>4. \A u \in Token : infly'[u] = Cardinality(Of(u)')
  BY <1>1, <1>2, <1>3 DEF AioInv, AioTypeOK, FlightInv
<1>5. \A y \in freeTok \cup Caller : Of(y)' = Of(y)
  BY <1>1, <1>2, <1>3
<1>6. CASE CallsBack(t)
  <2>1. PICK c \in Caller :
           /\ pc[c] = "callback" /\ tok[c] = t /\ freeTok' = freeTok \cup {t}
           /\ pc' = [pc EXCEPT ![c] = "idle"] /\ tok' = [tok EXCEPT ![c] = c]
    BY <1>6 DEF AioAnswer
  <2>2. Of(t)' = {}
    <3>1. Cardinality(Of(t)') = 0
      BY <1>2, <1>3, <1>6 DEF CallsBack
    <3>2. QED
      BY <1>2, <3>1, FS_EmptySet
  <2>3. AioTypeOK'
    BY <1>1, <1>2, <2>1 DEF AioInv, AioTypeOK, Lent
  <2>4. pc[c] \in Lent
    BY <2>1 DEF Lent
  <2> HIDE DEF t
  <2>5. QED
    BY <1>1, <1>2, <1>4, <1>5, <2>1, <2>2, <2>3, <2>4, GiveBack
<1>7. CASE ~CallsBack(t)
  <2>1. UNCHANGED <<freeTok, pc, tok>>
    BY <1>7 DEF AioAnswer
  <2>2. AioTypeOK' /\ TokInv'
    BY <1>1, <1>2, <2>1 DEF AioInv, AioTypeOK, TokInv
  <2>3. FlightInv'
    <3>1. \A u \in freeTok' : Of(u)' = {}
      BY <1>5, <2>1 DEF AioInv, FlightInv
    <3>2. \A d \in Caller : pc'[d] # "sync" => Of(d)' = {}
      BY <1>5, <2>1 DEF AioInv, FlightInv
    <3>3. QED
      BY <1>4, <3>1, <3>2 DEF FlightInv
  <2>4. QED
    BY <1>2, <2>2, <2>3 DEF AioInv
<1>8. QED
  BY <1>6, <1>7

LEMMA ReturnInv == ASSUME AioInv, NEW c \in Caller, Return(c) PROVE AioInv'
<1>1. CASE Finalize(c) \/ CancelEnd(c)
  <2> DEFINE t == tok[c]
  <2>1. /\ pc[c] \in {"wait", "cancel"} /\ tok[c] = t /\ IsDone(t) /\ freeTok' = freeTok \cup {t}
        /\ pc' = [pc EXCEPT ![c] = "idle"] /\ tok' = [tok EXCEPT ![c] = c]
        /\ stripemode' = stripemode /\ infly' = infly /\ reqpool' = reqpool /\ ring' = ring
    BY <1>1 DEF Finalize, CancelEnd
  <2>2. t \in Token
    BY <2>1 DEF Lent, AioInv, TokInv
  <2> HIDE DEF t
  <2>3. QED
    BY <2>1, <2>2, DoneInv
<1>2. CASE SyncEnd(c)
  <2>1. /\ pc[c] = "sync" /\ Of(c) = {} /\ pc' = [pc EXCEPT ![c] = "idle"]
        /\ UNCHANGED <<stripemode, tokVars, reqpool, ring, tok>>
    BY <1>2 DEF SyncEnd, Of
  <2>2. AioTypeOK'
    BY <2>1 DEF AioInv, AioTypeOK, tokVars
  <2>3. \A d \in Caller : pc'[d] = IF d = c THEN "idle" ELSE pc[d]
    BY <2>1 DEF AioInv, AioTypeOK
  <2>4. TokInv'
    BY <2>1, <2>3 DEF AioInv, TokInv, Lent, tokVars
  <2>5. \A y : Of(y)' = Of(y)
    BY <2>1 DEF Of
  <2>6. FlightInv'
    BY <2>1, <2>3, <2>5 DEF AioInv, FlightInv, tokVars
  <2>7. PoolInv'
    BY <2>1 DEF AioInv, PoolInv, Held
  <2>8. QED
    BY <2>2, <2>4, <2>6, <2>7 DEF AioInv
<1>3. QED
  BY <1>1, <1>2 DEF Return

LEMMA SameAioInv ==
  ASSUME AioInv, UNCHANGED <<stripemode, tokVars, reqpool, ring, pc, tok>> PROVE AioInv'
<1>1. AioTypeOK' /\ TokInv'
  BY DEF AioInv, AioTypeOK, TokInv, tokVars
<1>2. FlightInv' /\ PoolInv'
  BY DEF AioInv, FlightInv, PoolInv, Of, Held, tokVars
<1>3. QED
  BY <1>1, <1>2 DEF AioInv

LEMMA NextAioInv == AioInv /\ [Next]_vars => AioInv'
<1> SUFFICES ASSUME AioInv, [Next]_vars PROVE AioInv'
  OBVIOUS
<1>1. ASSUME NEW c \in Caller, NEW start \in ChunkNo, NEW len \in 1 .. MaxLen, ChunkRefused(c, start, len)
      PROVE  AioInv'
  BY <1>1, SameAioInv DEF ChunkRefused
<1>2. CASE UNCHANGED vars
  BY <1>2, SameAioInv DEF vars
<1>3. ASSUME NEW r \in ring, Answer(r) PROVE AioInv'
  BY <1>3, SyncAnswerInv, AioAnswerInv DEF Answer
<1>4. QED
  BY <1>1, <1>2, <1>3, ChunkAcceptedInv, ChunkCancelledInv, SyncIoInv, ReturnInv DEF Next

-----------------------------------------------------------------------------
(* The tokens, their counts of requests and the pools of request objects   *)
(* agree, in any order of calls, refusals, cancelled calls and answers.    *)
THEOREM AioSafe == Spec => []AioInv
<1>1. QED
  BY InitAioInv, NextAioInv, PTL DEF Spec

(* Tokens and request objects are lent, never lost or lent twice, and no   *)
(* member has more requests than slots (shfs_aio_chunk, blkdev_async_io).  *)
THEOREM AioPoolsExact == Spec => []PoolsExact
<1>1. AioInv => PoolsExact
  <2> SUFFICES ASSUME AioInv PROVE PoolsExact
    OBVIOUS
  <2>1. ASSUME NEW t \in Token PROVE Cardinality(Using(t)) = IF t \in freeTok THEN 0 ELSE 1
    <3>1. Using(t) = {c \in Caller : pc[c] \in Lent /\ tok[c] = t}
      BY DEF Using, Lent
    <3>2. CASE t \in freeTok
      <4>1. Using(t) = {}
        BY <3>1, <3>2 DEF AioInv, TokInv
      <4>2. QED
        BY <3>2, <4>1, FS_EmptySet
    <3>3. CASE t \notin freeTok
      <4>1. PICK c \in Caller : Using(t) = {c}
        BY <3>1, <3>3 DEF AioInv, TokInv
      <4>2. QED
        BY <3>3, <4>1, FS_Singleton
    <3>4. QED
      BY <3>2, <3>3
  <2>2. ASSUME NEW m \in Member
        PROVE  /\ reqpool[m] + Cardinality(Held(m)) = MaxRequests
               /\ Cardinality(Held(m)) <= RingSize
    <3>1. IsFiniteSet(Held(m)) /\ Cardinality(Held(m)) \in Nat
      BY FS_Subset, FS_CardinalityType DEF Held, AioInv, AioTypeOK
    <3>2. reqpool[m] \in Int /\ reqpool[m] >= 0 /\ reqpool[m] + Cardinality(Held(m)) = MaxRequests
      BY DEF AioInv, AioTypeOK, PoolInv
    <3>3. QED
      BY <3>1, <3>2 DEF MaxRequests
  <2>3. QED
    BY <2>1, <2>2 DEF PoolsExact
<1>2. QED
  BY <1>1, AioSafe, PTL

-----------------------------------------------------------------------------
(* The refinement of AioCalls, of which `out', `left' and `failed' are:    *)
OutOf(c)  == IF pc[c] = "cancel" THEN "doomed" ELSE IF Waits(c) THEN "open" ELSE res[c]
LeftOf(c) == IF Waits(c) THEN {r.strip : r \in {x \in ring : x.of = tok[c]}} ELSE {}
Bad(c)    == Waits(c) /\ tok[c] \in bad

SameView(c) == OutOf(c)' = OutOf(c) /\ LeftOf(c)' = LeftOf(c) /\ (Bad(c)' <=> Bad(c))

LEMMA StartStep ==
  ASSUME NEW c \in Caller, OutOf(c) \notin {"open", "doomed"}, OutOf(c)' \in {"open", "doomed"},
         LeftOf(c)' \subseteq Nat, LeftOf(c)' # {}, ~Bad(c)', \A d \in Caller \ {c} : SameView(d)
  PROVE  Calls!Start(c)
  BY DEF Calls!Start, Calls!Pending, OutOf, LeftOf, Bad, SameView

LEMMA RefuseStep ==
  ASSUME NEW c \in Caller, OutOf(c) \notin {"open", "doomed"}, OutOf(c)' = "err",
         LeftOf(c)' = LeftOf(c), Bad(c)' <=> Bad(c), \A d \in Caller \ {c} : SameView(d)
  PROVE  Calls!Refuse(c)
  BY DEF Calls!Refuse, Calls!Pending, OutOf, LeftOf, Bad, SameView

LEMMA DeliverStep ==
  ASSUME NEW c \in Caller, OutOf(c) \in {"open", "doomed"}, LeftOf(c) = {}, LeftOf(c)' = {}, ~Bad(c)',
         OutOf(c)' = IF OutOf(c) = "open" /\ ~Bad(c) THEN "ok" ELSE "err",
         \A d \in Caller \ {c} : SameView(d)
  PROVE  Calls!Deliver(c)
  BY DEF Calls!Deliver, Calls!Pending, Calls!Verdict, OutOf, LeftOf, Bad, SameView

LEMMA AnswerStep ==
  ASSUME NEW c \in Caller, NEW p, NEW k \in BOOLEAN, OutOf(c) \in {"open", "doomed"},
         LeftOf(c)' = LeftOf(c) \ {p}, \A d \in Caller \ {c} : SameView(d),
         \/ /\ Bad(c)' <=> Bad(c) \/ ~k
            /\ OutOf(c)' = OutOf(c)
         \/ /\ LeftOf(c) = {p} /\ ~Bad(c)'
            /\ OutOf(c)' = IF OutOf(c) = "open" /\ ~Bad(c) /\ k THEN "ok" ELSE "err"
  PROVE  Calls!Answer(c, p, k)
  BY ZenonT(40) DEF Calls!Answer, Calls!Pending, Calls!Verdict, OutOf, LeftOf, Bad, SameView

(* What AioInv leaves open: only a synchronous call that was answered has  *)
(* the result of its own request, which is one.                            *)
ViewInv ==
  /\ ring \subseteq [of : Token \cup Caller, strip : Nat] /\ bad \subseteq Token \cup Caller
  /\ res \in [Caller -> {"none", "ok", "err"}]
  /\ \A c \in Caller : /\ pc[c] \notin Lent => tok[c] = c
                       /\ c \in bad => pc[c] = "sync" /\ Of(c) = {}
                       /\ \A r, q \in Of(c) : r = q

(* What is in flight for a caller, in terms of Of.                         *)
LEMMA LeftIs == \A c \in Caller : LeftOf(c) = IF Waits(c) THEN {r.strip : r \in Of(tok[c])} ELSE {}
  BY DEF LeftOf, Of

(* A caller whose state and token a step leaves alone.                     *)
LEMMA SameCaller ==
  ASSUME NEW d \in Caller, pc'[d] = pc[d], tok'[d] = tok[d], res'[d] = res[d],
         Waits(d) => Of(tok[d])' = Of(tok[d]) /\ (tok[d] \in bad' <=> tok[d] \in bad)
  PROVE  SameView(d)
<1>1. OutOf(d)' = OutOf(d) /\ (Waits(d)' <=> Waits(d))
  BY DEF OutOf, Waits
<1>2. LeftOf(d)' = LeftOf(d)
  BY <1>1 DEF LeftOf, Of
<1>3. Bad(d)' <=> Bad(d)
  BY <1>1 DEF Bad
<1>4. QED
  BY <1>1, <1>2, <1>3 DEF SameView

LEMMA InitView == Init => ViewInv /\ Calls!Init
<1> SUFFICES ASSUME Init PROVE ViewInv /\ Calls!Init
  OBVIOUS
<1>1. ViewInv
  BY DEF Init, ViewInv, Of
<1>2. Calls!Init
  BY DEF Init, Calls!Init, Waits
<1>3. QED
  BY <1>1, <1>2

(* A call that is accepted, in full or in part, and one that is not.       *)
LEMMA ChunkView ==
  ASSUME AioInv, ViewInv, NEW c \in Caller, NEW t \in Token, NEW S, NEW next \in Lent, NEW hasCb \in BOOLEAN,
         S \subseteq Nat, Chunk(c, t, S, next, hasCb)
  PROVE  ViewInv' /\ Calls!Start(c)
<1> DEFINE new == [of : {t}, strip : S]
<1>1. /\ pc[c] = "idle" /\ t \in freeTok /\ S # {} /\ bad' = bad \ {t} /\ ring' = ring \cup new
      /\ pc' = [pc EXCEPT ![c] = next] /\ tok' = [tok EXCEPT ![c] = t] /\ res' = [res EXCEPT ![c] = "none"]
  BY DEF Chunk, Pick, Issue
<1>2. Of(t) = {} /\ t \notin Caller
  BY <1>1 DEF AioInv, FlightInv
<1>3. /\ Of(t)' = new /\ \A y : y # t => Of(y)' = Of(y)
  BY <1>1, <1>2 DEF Of
<1>4. /\ pc'[c] = next /\ tok'[c] = t /\ res'[c] = "none"
      /\ \A d \in Caller \ {c} : pc'[d] = pc[d] /\ tok'[d] = tok[d] /\ res'[d] = res[d]
  BY <1>1 DEF AioInv, AioTypeOK, ViewInv
<1>5. ViewInv'
  <2>1. ring' \subseteq [of : Token \cup Caller, strip : Nat] /\ bad' \subseteq Token \cup Caller
        /\ res' \in [Caller -> {"none", "ok", "err"}]
    BY <1>1 DEF ViewInv
  <2>2. \A d \in Caller : /\ pc'[d] \notin Lent => tok'[d] = d
                          /\ d \in bad' => pc'[d] = "sync" /\ Of(d)' = {}
                          /\ \A r, q \in Of(d)' : r = q
    BY <1>1, <1>2, <1>3, <1>4 DEF ViewInv, Lent
  <2>3. QED
    BY <2>1, <2>2 DEF ViewInv
<1>6. \A d \in Caller \ {c} : SameView(d)
  <2> TAKE d \in Caller \ {c}
  <2>1. Waits(d) => tok[d] # t
    BY <1>1, <1>2 DEF AioInv, TokInv, ViewInv
  <2>2. Waits(d) => Of(tok[d])' = Of(tok[d]) /\ (tok[d] \in bad' <=> tok[d] \in bad)
    BY <1>1, <1>3, <2>1 DEF Of
  <2>3. QED
    BY <1>4, <2>2, SameCaller
<1>7. OutOf(c) \notin {"open", "doomed"} /\ OutOf(c)' \in {"open", "doomed"}
  BY <1>1, <1>4 DEF OutOf, Waits, ViewInv, Lent
<1>8. LeftOf(c)' \subseteq Nat /\ LeftOf(c)' # {}
  <2>1. LeftOf(c)' = {r.strip : r \in new}
    BY <1>3, <1>4 DEF LeftOf, Of, Waits, Lent
  <2>2. PICK s \in S : TRUE
    BY <1>1
  <2>3. [of |-> t, strip |-> s] \in new /\ [of |-> t, strip |-> s].strip = s
    OBVIOUS
  <2>4. LeftOf(c)' # {}
    BY <2>1, <2>3
  <2>5. LeftOf(c)' \subseteq Nat
    BY <2>1
  <2>6. QED
    BY <2>4, <2>5
<1>9. ~Bad(c)'
  BY <1>1, <1>4 DEF Bad
<1>10. QED
  BY <1>5, <1>6, <1>7, <1>8, <1>9, StartStep

LEMMA SyncIoView ==
  ASSUME AioInv, ViewInv, NEW c \in Caller, NEW m \in Member, SyncIo(c, m)
  PROVE  ViewInv' /\ Calls!Start(c)
<1>1. /\ pc[c] = "idle" /\ bad' = bad /\ ring' = ring \cup [of : {c}, strip : {m}]
      /\ pc' = [pc EXCEPT ![c] = "sync"] /\ tok' = tok /\ res' = [res EXCEPT ![c] = "none"]
  BY DEF SyncIo, Issue
<1>2. Of(c) = {} /\ tok[c] = c /\ c \notin bad /\ m \in Nat
  BY <1>1 DEF AioInv, FlightInv, ViewInv, Lent, Member
<1>3. \A r : r \in [of : {c}, strip : {m}] <=> r = [of |-> c, strip |-> m]
  OBVIOUS
<1>4. Of(c)' = {[of |-> c, strip |-> m]} /\ \A y : y # c => Of(y)' = Of(y)
  BY <1>1, <1>2, <1>3 DEF Of
<1>5. /\ pc'[c] = "sync" /\ tok'[c] = c /\ res'[c] = "none"
      /\ \A d \in Caller \ {c} : pc'[d] = pc[d] /\ tok'[d] = tok[d] /\ res'[d] = res[d]
  BY <1>1, <1>2 DEF AioInv, AioTypeOK, ViewInv
<1>6. ViewInv'
  <2>1. ring' \subseteq [of : Token \cup Caller, strip : Nat] /\ bad' \subseteq Token \cup Caller
        /\ res' \in [Caller -> {"none", "ok", "err"}]
    BY <1>1, <1>2 DEF ViewInv
  <2>2. \A d \in Caller : /\ pc'[d] \notin Lent => tok'[d] = d
                          /\ d \in bad' => pc'[d] = "sync" /\ Of(d)' = {}
                          /\ \A r, q \in Of(d)' : r = q
    BY <1>1, <1>2, <1>4, <1>5 DEF ViewInv, Lent
  <2>3. QED
    BY <2>1, <2>2 DEF ViewInv
<1>7. \A d \in Caller \ {c} : SameView(d)
  <2> TAKE d \in Caller \ {c}
  <2>1. tok[d] # c
    BY <1>1 DEF AioInv, TokInv, ViewInv
  <2>2. Waits(d) => Of(tok[d])' = Of(tok[d]) /\ (tok[d] \in bad' <=> tok[d] \in bad)
    BY <1>1, <1>4, <2>1 DEF Of
  <2>3. QED
    BY <1>5, <2>2, SameCaller
<1>8. OutOf(c) \notin {"open", "doomed"} /\ OutOf(c)' \in {"open", "doomed"}
  BY <1>1, <1>5 DEF OutOf, Waits, ViewInv
<1>9. LeftOf(c)' \subseteq Nat /\ LeftOf(c)' # {}
  <2>1. LeftOf(c)' = {r.strip : r \in Of(c)'}
    BY <1>5 DEF LeftOf, Of, Waits
  <2>2. LeftOf(c)' = {m}
    BY <1>4, <2>1
  <2>3. QED
    BY <1>2, <2>2
<1>10. ~Bad(c)'
  BY <1>1, <1>2, <1>5 DEF Bad
<1>11. QED
  BY <1>6, <1>7, <1>8, <1>9, <1>10, StartStep

LEMMA RefusedView ==
  ASSUME AioInv, ViewInv, NEW c \in Caller, NEW start, NEW len, ChunkRefused(c, start, len)
  PROVE  ViewInv' /\ Calls!Refuse(c)
<1>1. pc[c] = "idle" /\ res' = [res EXCEPT ![c] = "err"] /\ UNCHANGED <<bad, ring, pc, tok>>
  BY DEF ChunkRefused
<1>2. ViewInv'
  BY <1>1 DEF ViewInv, Of
<1>3. OutOf(c) \notin {"open", "doomed"} /\ OutOf(c)' = "err" /\ LeftOf(c)' = LeftOf(c) /\ (Bad(c)' <=> Bad(c))
  BY <1>1 DEF OutOf, LeftOf, Bad, Waits, ViewInv
<1>4. \A d \in Caller \ {c} : SameView(d)
  BY <1>1 DEF SameView, OutOf, LeftOf, Bad, Waits, ViewInv
<1>5. QED
  BY <1>2, <1>3, <1>4, RefuseStep

(* A device answers a synchronous call, ...                                *)
LEMMA SyncAnswerView ==
  ASSUME AioInv, ViewInv, NEW r \in ring, NEW ok \in BOOLEAN, SyncAnswer(r, ok)
  PROVE  ViewInv' /\ Calls!Answer(r.of, r.strip, ok)
<1> DEFINE c == r.of
<1>1. /\ c \in Caller /\ ring' = ring \ {r} /\ bad' = IF ok THEN bad \ {c} ELSE bad \cup {c}
      /\ UNCHANGED <<pc, tok, res>>
  BY DEF SyncAnswer, Put
<1>2. r \in Of(c) /\ pc[c] = "sync" /\ tok[c] = c /\ c \notin bad
  BY <1>1 DEF Of, AioInv, FlightInv, ViewInv, Lent
<1>3. Of(c) = {r} /\ Of(c)' = {} /\ \A y : y # c => Of(y)' = Of(y)
  BY <1>1, <1>2 DEF ViewInv, Of
<1>4. ViewInv'
  BY <1>1, <1>2, <1>3 DEF ViewInv
<1>5. \A d \in Caller \ {c} : SameView(d)
  <2> TAKE d \in Caller \ {c}
  <2>1. tok[d] # c
    BY <1>1 DEF AioInv, TokInv, ViewInv
  <2>2. Waits(d) => Of(tok[d])' = Of(tok[d]) /\ (tok[d] \in bad' <=> tok[d] \in bad)
    BY <1>1, <1>3, <2>1 DEF Of
  <2>3. QED
    BY <1>1, <2>2, SameCaller
<1>6. OutOf(c) \in {"open", "doomed"} /\ OutOf(c)' = OutOf(c)
  BY <1>1, <1>2 DEF OutOf, Waits
<1>7. LeftOf(c)' = LeftOf(c) \ {r.strip}
  <2>1. LeftOf(c) = {x.strip : x \in Of(c)} /\ LeftOf(c)' = {x.strip : x \in Of(c)'}
    BY <1>1, <1>2 DEF LeftOf, Of, Waits
  <2>2. QED
    BY <1>3, <2>1
<1>8. Bad(c)' <=> Bad(c) \/ ~ok
  BY <1>1, <1>2 DEF Bad, Waits
<1> HIDE DEF c
<1>9. Calls!Answer(c, r.strip, ok)
  BY <1>1, <1>5, <1>6, <1>7, <1>8, AnswerStep
<1>10. QED
  BY <1>4, <1>9 DEF c

(* ... or a call that waits, or one whose callback finalizes the token.    *)
LEMMA AioAnswerView ==
  ASSUME AioInv, ViewInv, NEW r \in ring, NEW ok \in BOOLEAN, AioAnswer(r, ok)
  PROVE  ViewInv' /\ \E c \in Caller : r.strip \in LeftOf(c) /\ Calls!Answer(c, r.strip, ok)
<1> DEFINE t == r.of
<1>1. /\ t \in Token /\ ring' = ring \ {r} /\ bad' = IF ok THEN bad ELSE bad \cup {t}
  BY DEF AioAnswer, Put
<1>2. r \in Of(t) /\ t \notin freeTok /\ t \notin Caller
  BY <1>1 DEF Of, AioInv, FlightInv
<1>3. Of(t)' = Of(t) \ {r} /\ \A y : y # t => Of(y)' = Of(y)
  BY <1>1 DEF Of
<1>4. PICK c \in Caller :
        /\ pc[c] \in Lent /\ tok[c] = t
        /\ \/ UNCHANGED <<pc, tok, res>>
           \/ /\ pc[c] = "callback" /\ CallsBack(t) /\ pc' = [pc EXCEPT ![c] = "idle"] /\ tok' = [tok EXCEPT ![c] = c]
              /\ res' = [res EXCEPT ![c] = Verdict(t)']
  <2>1. CASE CallsBack(t)
    BY <2>1 DEF AioAnswer, Lent
  <2>2. CASE ~CallsBack(t)
    <3>1. UNCHANGED <<pc, tok, res>>
      BY <2>2 DEF AioAnswer
    <3>2. QED
      BY <1>1, <1>2, <3>1 DEF AioInv, TokInv
  <2>3. QED
    BY <2>1, <2>2
<1>5. \A d \in Caller \ {c} : pc'[d] = pc[d] /\ tok'[d] = tok[d] /\ res'[d] = res[d] /\ (Waits(d) => tok[d] # t)
  BY <1>1, <1>2, <1>4 DEF AioInv, AioTypeOK, TokInv, ViewInv
<1>6. \A d \in Caller \ {c} : SameView(d)
  <2> TAKE d \in Caller \ {c}
  <2>1. Waits(d) => Of(tok[d])' = Of(tok[d]) /\ (tok[d] \in bad' <=> tok[d] \in bad)
    BY <1>1, <1>3, <1>5 DEF Of
  <2>2. QED
    BY <1>5, <2>1, SameCaller
<1>7. Waits(c) /\ OutOf(c) \in {"open", "doomed"} /\ LeftOf(c) = {x.strip : x \in Of(t)}
  BY <1>4 DEF OutOf, Waits, LeftOf, Of, Lent
<1>8. \A x \in Of(t) : x = [of |-> t, strip |-> x.strip]
  BY <1>1 DEF Of, ViewInv
<1>9. LeftOf(c) \ {r.strip} = {x.strip : x \in Of(t)'} /\ r.strip \in LeftOf(c)
  BY <1>2, <1>3, <1>7, <1>8
<1>10. ViewInv' /\ Calls!Answer(c, r.strip, ok)
  <2>1. CASE UNCHANGED <<pc, tok, res>>
    <3>1. ViewInv'
      BY <1>1, <1>2, <1>3, <2>1 DEF ViewInv
    <3>2. OutOf(c)' = OutOf(c) /\ LeftOf(c)' = LeftOf(c) \ {r.strip}
      BY <1>4, <1>7, <1>9, <2>1 DEF OutOf, Waits, LeftOf, Of
    <3>3. Bad(c)' <=> Bad(c) \/ ~ok
      BY <1>1, <1>4, <1>7, <2>1 DEF Bad, Waits
    <3>4. QED
      BY <1>6, <1>7, <3>1, <3>2, <3>3, AnswerStep
  <2>2. CASE /\ pc[c] = "callback" /\ CallsBack(t) /\ pc' = [pc EXCEPT ![c] = "idle"] /\ tok' = [tok EXCEPT ![c] = c]
             /\ res' = [res EXCEPT ![c] = Verdict(t)']
    <3>1. pc'[c] = "idle" /\ tok'[c] = c /\ res'[c] = IF t \in bad' THEN "err" ELSE "ok"
      BY <2>2 DEF AioInv, AioTypeOK, ViewInv, Verdict
    <3>2. c \notin bad' /\ Of(c)' = {}
      BY <1>1, <1>2, <1>3, <1>4 DEF ViewInv, AioInv, FlightInv, Lent
    <3>3. ViewInv'
      <4>1. ring' \subseteq [of : Token \cup Caller, strip : Nat] /\ bad' \subseteq Token \cup Caller
            /\ res' \in [Caller -> {"none", "ok", "err"}]
        BY <1>1, <2>2 DEF ViewInv, Verdict
      <4>2. \A d \in Caller : /\ pc'[d] \notin Lent => tok'[d] = d
                              /\ d \in bad' => pc'[d] = "sync" /\ Of(d)' = {}
                              /\ \A x, y \in Of(d)' : x = y
        BY <1>1, <1>2, <1>3, <1>5, <3>1, <3>2 DEF ViewInv
      <4>3. QED
        BY <4>1, <4>2 DEF ViewInv
    <3>4. LeftOf(c) = {r.strip} /\ LeftOf(c)' = {}
      <4>1. IsFiniteSet(Of(t)) /\ Cardinality(Of(t)) = 1
        BY <1>1, <2>2, FS_Subset DEF CallsBack, AioInv, AioTypeOK, FlightInv, Of
      <4>2. Of(t) = {r}
        BY <1>2, <4>1, FS_Singleton
      <4>3. QED
        BY <1>7, <3>1, <4>2 DEF LeftOf, Waits
    <3>5. OutOf(c) = "open" /\ (Bad(c) <=> t \in bad) /\ ~Bad(c)' /\ OutOf(c)' = res'[c]
      BY <1>4, <2>2, <3>1 DEF OutOf, Waits, Bad
    <3>6. OutOf(c)' = IF OutOf(c) = "open" /\ ~Bad(c) /\ ok THEN "ok" ELSE "err"
      BY <1>1, <3>1, <3>5
    <3>7. LeftOf(c)' = LeftOf(c) \ {r.strip}
      BY <3>4
    <3>8. QED
      BY <1>6, <1>7, <3>3, <3>4, <3>5, <3>6, <3>7, AnswerStep
  <2>3. QED
    BY <1>4, <2>1, <2>2
<1>11. QED
  BY <1>9, <1>10

(* A wait that is over.                                                    *)
LEMMA ReturnView ==
  ASSUME AioInv, ViewInv, NEW c \in Caller, Return(c)
  PROVE  ViewInv' /\ Calls!Deliver(c)
<1>1. CASE Finalize(c) \/ CancelEnd(c)
  <2> DEFINE t == tok[c]
  <2>1. /\ pc[c] \in {"wait", "cancel"} /\ IsDone(t) /\ pc' = [pc EXCEPT ![c] = "idle"] /\ tok' = [tok EXCEPT ![c] = c]
        /\ res' = [res EXCEPT ![c] = IF pc[c] = "wait" THEN Verdict(t) ELSE "err"] /\ UNCHANGED <<bad, ring>>
    BY <1>1 DEF Finalize, CancelEnd
  <2>2. t \in Token /\ c \notin bad
    BY <2>1 DEF Lent, AioInv, TokInv, ViewInv
  <2>3. Of(t) = {}
    <3>1. Cardinality(Of(t)) = 0 /\ IsFiniteSet(Of(t))
      BY <2>1, <2>2, FS_Subset DEF IsDone, AioInv, AioTypeOK, FlightInv, Of
    <3>2. QED
      BY <3>1, FS_EmptySet
  <2>4. /\ pc'[c] = "idle" /\ tok'[c] = c /\ res'[c] = IF pc[c] = "wait" THEN Verdict(t) ELSE "err"
        /\ \A d \in Caller \ {c} : pc'[d] = pc[d] /\ tok'[d] = tok[d] /\ res'[d] = res[d]
    BY <2>1 DEF AioInv, AioTypeOK, ViewInv
  <2>5. ViewInv'
    <3>1. ring' \subseteq [of : Token \cup Caller, strip : Nat] /\ bad' \subseteq Token \cup Caller
          /\ res' \in [Caller -> {"none", "ok", "err"}]
      BY <2>1 DEF ViewInv, Verdict
    <3>2. \A y : Of(y)' = Of(y)
      BY <2>1 DEF Of
    <3>3. \A d \in Caller : /\ pc'[d] \notin Lent => tok'[d] = d
                            /\ d \in bad' => pc'[d] = "sync" /\ Of(d)' = {}
                            /\ \A x, y \in Of(d)' : x = y
      BY <2>1, <2>2, <2>4, <3>2 DEF ViewInv
    <3>4. QED
      BY <3>1, <3>3 DEF ViewInv
  <2>6. \A d \in Caller \ {c} : SameView(d)
    <3> TAKE d \in Caller \ {c}
    <3>1. Of(tok[d])' = Of(tok[d])
      BY <2>1, <2>4 DEF Of
    <3>2. QED
      BY <2>1, <2>4, <3>1, SameCaller
  <2>7. /\ OutOf(c) \in {"open", "doomed"} /\ LeftOf(c) = {} /\ LeftOf(c)' = {} /\ ~Bad(c)'
    BY <2>1, <2>3, <2>4 DEF OutOf, LeftOf, Of, Bad, Waits
  <2>8. OutOf(c)' = IF OutOf(c) = "open" /\ ~Bad(c) THEN "ok" ELSE "err"
    BY <2>1, <2>4 DEF OutOf, Bad, Waits, Verdict
  <2>9. QED
    BY <2>5, <2>6, <2>7, <2>8, DeliverStep
<1>2. CASE SyncEnd(c)
  <2>1. /\ pc[c] = "sync" /\ Of(c) = {} /\ pc' = [pc EXCEPT ![c] = "idle"] /\ res' = [res EXCEPT ![c] = Verdict(c)]
        /\ bad' = bad \ {c} /\ UNCHANGED <<ring, tok>>
    BY <1>2 DEF SyncEnd, Of
  <2>2. tok[c] = c
    BY <2>1 DEF ViewInv, Lent
  <2>3. /\ pc'[c] = "idle" /\ res'[c] = Verdict(c)
        /\ \A d \in Caller \ {c} : pc'[d] = pc[d] /\ tok'[d] = tok[d] /\ res'[d] = res[d]
    BY <2>1 DEF AioInv, AioTypeOK, ViewInv
  <2>4. ViewInv'
    <3>1. ring' \subseteq [of : Token \cup Caller, strip : Nat] /\ bad' \subseteq Token \cup Caller
          /\ res' \in [Caller -> {"none", "ok", "err"}]
      BY <2>1 DEF ViewInv, Verdict
    <3>2. \A y : Of(y)' = Of(y)
      BY <2>1 DEF Of
    <3>3. \A d \in Caller : /\ pc'[d] \notin Lent => tok'[d] = d
                            /\ d \in bad' => pc'[d] = "sync" /\ Of(d)' = {}
                            /\ \A x, y \in Of(d)' : x = y
      BY <2>1, <2>2, <2>3, <3>2 DEF ViewInv
    <3>4. QED
      BY <3>1, <3>3 DEF ViewInv
  <2>5. \A d \in Caller \ {c} : SameView(d)
    <3> TAKE d \in Caller \ {c}
    <3>1. tok[d] # c
      BY <2>1 DEF AioInv, TokInv, ViewInv
    <3>2. Of(tok[d])' = Of(tok[d]) /\ (tok[d] \in bad' <=> tok[d] \in bad)
      BY <2>1, <3>1 DEF Of
    <3>3. QED
      BY <2>3, <3>2, SameCaller
  <2>6. /\ OutOf(c) \in {"open", "doomed"} /\ LeftOf(c) = {} /\ LeftOf(c)' = {} /\ ~Bad(c)'
    BY <2>1, <2>2, <2>3 DEF OutOf, LeftOf, Of, Bad, Waits
  <2>7. OutOf(c)' = IF OutOf(c) = "open" /\ ~Bad(c) THEN "ok" ELSE "err"
    BY <2>1, <2>2, <2>3 DEF OutOf, Bad, Waits, Verdict
  <2>8. QED
    BY <2>4, <2>5, <2>6, <2>7, DeliverStep
<1>3. QED
  BY <1>1, <1>2 DEF Return

LEMMA NextView == AioInv /\ ViewInv /\ [Next]_vars => ViewInv' /\ [Calls!Next]_(Calls!calls)
<1> SUFFICES ASSUME AioInv, ViewInv, [Next]_vars PROVE ViewInv' /\ [Calls!Next]_(Calls!calls)
  OBVIOUS
<1>1. ASSUME NEW c \in Caller, NEW start \in ChunkNo, NEW len \in 1 .. MaxLen,
             ChunkRefused(c, start, len) \/ ChunkAccepted(c, start, len) \/ ChunkCancelled(c, start, len)
      PROVE  ViewInv' /\ Calls!Next
  <2>1. Strips(start, len) \subseteq Nat
    BY DEF Strips, FirstStrip, EndStrip
  <2>2. CASE ChunkRefused(c, start, len)
    BY <2>2, RefusedView DEF Calls!Next
  <2>3. CASE ChunkAccepted(c, start, len)
    <3>1. PICK t \in Token, hasCb \in BOOLEAN :
             Chunk(c, t, Strips(start, len), IF hasCb THEN "callback" ELSE "wait", hasCb)
      BY <2>3 DEF ChunkAccepted
    <3>2. (IF hasCb THEN "callback" ELSE "wait") \in Lent
      BY DEF Lent
    <3>3. ViewInv' /\ Calls!Start(c)
      BY <2>1, <3>1, <3>2, ChunkView
    <3>4. QED
      BY <3>3 DEF Calls!Next
  <2>4. CASE ChunkCancelled(c, start, len)
    <3>1. PICK s \in Strips(start, len), t \in Token :
             Chunk(c, t, {x \in Strips(start, len) : x < s}, "cancel", FALSE)
      BY <2>4 DEF ChunkCancelled
    <3> DEFINE issued == {x \in Strips(start, len) : x < s}
    <3>2. issued \subseteq Nat /\ "cancel" \in Lent /\ Chunk(c, t, issued, "cancel", FALSE)
      BY <2>1, <3>1 DEF Lent
    <3> HIDE DEF issued
    <3>3. ViewInv' /\ Calls!Start(c)
      BY <3>2, ChunkView
    <3>4. QED
      BY <3>3 DEF Calls!Next
  <2>5. QED
    BY <1>1, <2>2, <2>3, <2>4
<1>2. ASSUME NEW c \in Caller, NEW m \in Member, SyncIo(c, m) PROVE ViewInv' /\ Calls!Next
  BY <1>2, SyncIoView DEF Calls!Next
<1>3. ASSUME NEW c \in Caller, Return(c) PROVE ViewInv' /\ Calls!Next
  BY <1>3, ReturnView DEF Calls!Next
<1>4. ASSUME NEW r \in ring, Answer(r) PROVE ViewInv' /\ Calls!Next
  <2>1. PICK ok \in BOOLEAN : SyncAnswer(r, ok) \/ AioAnswer(r, ok)
    BY <1>4 DEF Answer
  <2>2. CASE SyncAnswer(r, ok)
    <3>1. r.of \in Caller /\ r.strip \in LeftOf(r.of)
      BY <2>2 DEF SyncAnswer, LeftOf, Waits, ViewInv, AioInv, FlightInv, Of, Lent
    <3>2. QED
      BY <2>2, <3>1, SyncAnswerView DEF Calls!Next, LeftOf
  <2>3. CASE AioAnswer(r, ok)
    BY <2>3, AioAnswerView DEF Calls!Next, LeftOf
  <2>4. QED
    BY <2>1, <2>2, <2>3
<1>5. CASE UNCHANGED vars
  BY <1>5 DEF vars, tokVars, ViewInv, Of, Calls!calls, Waits
<1>6. QED
  BY <1>1, <1>2, <1>3, <1>4, <1>5 DEF Next

(* Callers of shfs_aio_chunk and blkdev_sync_io are told what AioCalls     *)
(* promises: one answer, after all parts of the request were answered, and *)
(* an error iff one of them failed or could not be issued.                 *)
THEOREM AioImplementsCalls == Spec => ImplementsCalls
<1>1. QED
  BY InitView, NextView, AioSafe, InitAioInv, NextAioInv, PTL DEF Spec, ImplementsCalls, Calls!Spec
=============================================================================
