----------------------------- MODULE HueBulbProofs -----------------------------
(***************************************************************************)
(* A bulb process is never left with a dead handle, and knows its link     *)
(* when all news has been read: for any number of bulbs, handles, links    *)
(* and troubles, and every queue size.                                     *)
(*                                                                         *)
(* The argument follows one handle through the two queues.  What the       *)
(* driver has on record is treated as a CONNECTED before the queue, at     *)
(* index 0, and the handle of the bulb as one before its mailbox.          *)
(*                                                                         *)
(* The first half (BulbInv) is about what is taken away: whoever loses a   *)
(* handle is told.  The second (QueueInv, MailInv) is about what is given: *)
(* the last word in the event queue on each handle is the table's, and the *)
(* last word in the mailbox on the bulb's own link is the driver's.        *)
(***************************************************************************)
EXTENDS HueBulb, SequenceTheorems, FiniteSetTheorems, TLAPS

Event   == LinkNews \cup {READY}
Message == LinkNews \cup {RECONCILE, UNPAIR}

\* At index i of queue q, or at 0 in the driver's view c, handle s becomes that of p.
At(q, c, i, s, p) == IF i = 0 THEN c[s] = p ELSE q[i] = CONNECTED(s, p)

\* What takes handle s from whoever has it
Cut(q, j, s) == q[j] = DISCONNECTED(s) \/ q[j] = READY

\* Whoever was given a handle that is not its own in the table f, loses it later.
Closed(q, c, f) ==
  \A s \in Slot, p \in Peer, i \in 0 .. Len(q) :
    At(q, c, i, s, p) /\ f[s] # p => \E j \in i + 1 .. Len(q) : Cut(q, j, s)

\* Nobody is given a handle before it is taken from another.
Apart(q, c) ==
  \A s \in Slot, p, r \in Peer, i, k \in 0 .. Len(q) :
    i < k /\ At(q, c, i, s, p) /\ At(q, c, k, s, r) /\ p # r =>
      \E j \in i + 1 .. k - 1 : Cut(q, j, s)

Ordered == ~lossy => Closed(queue, conns, slot) /\ Apart(queue, conns)

\* At index i of mailbox b, or at 0, the bulb takes s for its handle h.
Holds(h, b, i, s) == IF i = 0 THEN h = s ELSE b[i] = CONNECTED(s, Me)

\* It will take s for its handle, and nothing in its mailbox will change its mind.
Keeps(h, b, s) ==
  \E i \in 0 .. Len(b) :
    Holds(h, b, i, s) /\ \A j \in i + 1 .. Len(b) : b[j] # DISCONNECTED(s)

\* Then the driver has a link there, so that its end will be published, and it is the
\* bulb's, unless the nRF was reset.
Recorded == \A s \in Slot : Keeps(handle, box, s) => conns[s] # None
Own ==
  ~lossy => \A s \in Slot :
    Keeps(handle, box, s) => conns[s] = Me \/ READY \in ToSet(queue)

Newborn == phase = "starting" => handle = None /\ box = <<>>

BulbInv == TypeOK /\ Ordered /\ Recorded /\ Own /\ Newborn

-----------------------------------------------------------------------------
(* News and sequences of them                                               *)

LEMMA NewsFacts ==
  /\ \A s \in Slot, p \in Peer : CONNECTED(s, p) \in LinkNews
  /\ \A s \in Slot : ENC(s) \in LinkNews /\ DISCONNECTED(s) \in LinkNews
  /\ \A s, t \in Slot, p, r \in Peer :
       CONNECTED(s, p) = CONNECTED(t, r) => s = t /\ p = r
  /\ \A s, t \in Slot : DISCONNECTED(s) = DISCONNECTED(t) => s = t
  /\ \A s, t \in Slot, p \in Peer :
       CONNECTED(s, p) # DISCONNECTED(t) /\ CONNECTED(s, p) # ENC(t) /\ ENC(s) # DISCONNECTED(t)
<1>1. /\ \A s \in Slot, p \in Peer : CONNECTED(s, p) \in LinkNews
      /\ \A s \in Slot : ENC(s) \in LinkNews /\ DISCONNECTED(s) \in LinkNews
  BY DEF LinkNews
<1>2. \A s, t \in Slot, p, r \in Peer : CONNECTED(s, p) = CONNECTED(t, r) => s = t /\ p = r
  BY DEF CONNECTED
<1>3. \A s, t \in Slot : DISCONNECTED(s) = DISCONNECTED(t) => s = t
  BY DEF DISCONNECTED
<1>4. \A s, t \in Slot, p \in Peer :
        CONNECTED(s, p) # DISCONNECTED(t) /\ CONNECTED(s, p) # ENC(t) /\ ENC(s) # DISCONNECTED(t)
  BY DEF CONNECTED, DISCONNECTED, ENC
<1>5. QED
  BY <1>1, <1>2, <1>3, <1>4

LEMMA OtherFacts ==
  /\ \A e \in LinkNews : e # READY /\ e # RECONCILE /\ e # UNPAIR
  /\ RECONCILE # UNPAIR
BY DEF LinkNews, CONNECTED, ENC, DISCONNECTED, READY, RECONCILE, UNPAIR

\* What handle_event and handle_info read from the first two or three places
LEMMA NewsParts ==
  ASSUME NEW e \in LinkNews \cup {READY, RECONCILE, UNPAIR}
  PROVE  /\ e[1] = "connected" => e[2] \in Slot /\ e[3] \in Peer /\ e = CONNECTED(e[2], e[3])
         /\ e[1] = "enc" => e[2] \in Slot /\ e = ENC(e[2])
         /\ e[1] = "disconnected" => e[2] \in Slot /\ e = DISCONNECTED(e[2])
         /\ e \in LinkNews => e[1] \in {"connected", "enc", "disconnected"}
<1>1. ASSUME NEW s \in Slot, NEW p \in Peer, e = CONNECTED(s, p)
      PROVE  e[1] = "connected" /\ e[2] = s /\ e[3] = p
  BY <1>1 DEF CONNECTED
<1>2. ASSUME NEW s \in Slot, e = ENC(s) PROVE e[1] = "enc" /\ e[2] = s
  BY <1>2 DEF ENC
<1>3. ASSUME NEW s \in Slot, e = DISCONNECTED(s) PROVE e[1] = "disconnected" /\ e[2] = s
  BY <1>3 DEF DISCONNECTED
<1>4. e = READY \/ e = RECONCILE \/ e = UNPAIR =>
        e[1] \notin {"connected", "enc", "disconnected"} /\ e \notin LinkNews
  <2>1. READY[1] = "ready" /\ RECONCILE[1] = "reconcile" /\ UNPAIR[1] = "unpair"
    BY DEF READY, RECONCILE, UNPAIR
  <2>2. QED
    BY <2>1, OtherFacts
<1>5. CASE e = READY \/ e = RECONCILE \/ e = UNPAIR
  BY <1>4, <1>5
<1>6. CASE \E s \in Slot, p \in Peer : e = CONNECTED(s, p)
  BY <1>1, <1>6
<1>7. CASE \E s \in Slot : e = ENC(s)
  BY <1>2, <1>7
<1>8. CASE \E s \in Slot : e = DISCONNECTED(s)
  BY <1>3, <1>8
<1>9. QED
  BY <1>5, <1>6, <1>7, <1>8 DEF LinkNews

\* Indices of a concatenation, of a tail and of a sequence with one element more
LEMMA ConcatIndex ==
  ASSUME NEW S, NEW q \in Seq(S), NEW es \in Seq(S)
  PROVE  /\ q \o es \in Seq(S) /\ Len(q \o es) = Len(q) + Len(es)
         /\ Len(q) \in Nat /\ Len(es) \in Nat
         /\ \A i \in 1 .. Len(q) : (q \o es)[i] = q[i]
         /\ \A i \in 1 .. Len(es) : (q \o es)[Len(q) + i] = es[i]
OBVIOUS

LEMMA TailIndex ==
  ASSUME NEW S, NEW q \in Seq(S), q # <<>>
  PROVE  /\ Tail(q) \in Seq(S) /\ Len(Tail(q)) = Len(q) - 1 /\ Len(q) \in Nat \ {0}
         /\ Head(q) \in S /\ Head(q) = q[1]
         /\ \A i \in 1 .. Len(q) - 1 : Tail(q)[i] = q[i + 1]
OBVIOUS

LEMMA InsertIndex ==
  ASSUME NEW S, NEW q \in Seq(S), NEW e \in S, NEW k \in 1 .. Len(q) + 1
  PROVE  /\ InsertAt(q, k, e) \in Seq(S) /\ Len(InsertAt(q, k, e)) = Len(q) + 1
         /\ InsertAt(q, k, e)[k] = e
         /\ \A i \in 1 .. k - 1 : InsertAt(q, k, e)[i] = q[i]
         /\ \A i \in k .. Len(q) : InsertAt(q, k, e)[i + 1] = q[i]
<1> DEFINE a == SubSeq(q, 1, k - 1)
           z == SubSeq(q, k, Len(q))
<1>1. /\ a \in Seq(S) /\ Len(a) = k - 1 /\ \A i \in 1 .. k - 1 : a[i] = q[i]
      /\ Len(q) \in Nat
  OBVIOUS
<1>2. z \in Seq(S) /\ Len(z) = Len(q) - k + 1 /\ \A i \in 1 .. Len(q) - k + 1 : z[i] = q[k + i - 1]
  OBVIOUS
<1>3. InsertAt(q, k, e) = (a \o <<e>>) \o z
  BY DEF InsertAt
<1> HIDE DEF a, z
<1> DEFINE b == a \o <<e>>
<1>4. /\ b \in Seq(S) /\ Len(b) = k /\ b[k] = e /\ \A i \in 1 .. k - 1 : b[i] = q[i]
  BY <1>1
<1> HIDE DEF b
<1>5. /\ b \o z \in Seq(S) /\ Len(b \o z) = Len(q) + 1
      /\ \A i \in 1 .. k : (b \o z)[i] = b[i]
      /\ \A i \in 1 .. Len(z) : (b \o z)[k + i] = z[i]
  <2>1. /\ b \o z \in Seq(S) /\ Len(b \o z) = Len(b) + Len(z)
        /\ \A i \in 1 .. Len(b) : (b \o z)[i] = b[i]
        /\ \A i \in 1 .. Len(z) : (b \o z)[Len(b) + i] = z[i]
    BY <1>2, <1>4, ConcatIndex
  <2>2. k + (Len(q) - k + 1) = Len(q) + 1
    BY <1>1
  <2>3. QED
    BY <1>2, <1>4, <2>1, <2>2
<1>6. ASSUME NEW i \in k .. Len(q) PROVE (b \o z)[i + 1] = q[i]
  <2>1. PICK m : m = i - k + 1
    OBVIOUS
  <2>2. m \in 1 .. Len(z) /\ m \in 1 .. Len(q) - k + 1 /\ k + m = i + 1 /\ k + m - 1 = i
    BY <1>1, <1>2, <2>1
  <2>3. (b \o z)[k + m] = z[m]
    BY <1>5, <2>2
  <2>4. z[m] = q[k + m - 1]
    BY <1>2, <2>2
  <2>5. QED
    BY <2>2, <2>3, <2>4
<1>7. QED
  BY <1>1, <1>3, <1>4, <1>5, <1>6 DEF b

\* The sequences of the elements of a finite set
LEMMA SetSeqFacts ==
  ASSUME NEW S, IsFiniteSet(S)
  PROVE  /\ SetToSeq(S) \in SetToSeqs(S)
         /\ \A f \in SetToSeqs(S) : f \in Seq(S) /\ \A x \in S : \E i \in DOMAIN f : f[i] = x
<1> DEFINE D == 1 .. Cardinality(S)
<1>1. Cardinality(S) \in Nat /\ ExistsBijection(D, S)
  BY FS_CardinalityType
<1>2. IsFiniteSet(D) /\ Cardinality(D) = Cardinality(S)
  BY <1>1, FS_Interval
<1>3. SetToSeq(S) \in [D -> S] /\ IsInjective(SetToSeq(S))
  <2>1. PICK f \in Bijection(D, S) : TRUE
    BY <1>1 DEF ExistsBijection
  <2>2. f \in [D -> S] /\ IsInjective(f)
    BY <2>1 DEF Bijection, Injection, IsInjective
  <2>3. QED
    BY <2>2 DEF SetToSeq
<1>4. SetToSeq(S) \in SetToSeqs(S)
  BY <1>3 DEF SetToSeqs, IsInjective
<1>5. ASSUME NEW f \in SetToSeqs(S)
      PROVE  f \in Seq(S) /\ \A x \in S : \E i \in DOMAIN f : f[i] = x
  <2>1. f \in [D -> S] /\ \A i, j \in D : i # j => f[i] # f[j]
    BY DEF SetToSeqs
  <2>2. f \in Injection(D, S)
    BY <2>1 DEF Injection, IsInjective
  <2>3. f \in Surjection(D, S)
    BY <1>2, <2>2, FS_Injection
  <2>4. \A x \in S : \E i \in D : f[i] = x
    BY <2>3 DEF Surjection
  <2>5. f \in Seq(S)
    BY <1>1, <2>1, SeqDef
  <2>6. QED
    BY <2>1, <2>4, <2>5
<1>6. QED
  BY <1>4, <1>5

-----------------------------------------------------------------------------
(* One handle through the event queue                                       *)

\* Events are pushed behind the rest while the table changes from f to g: those that
\* announce a link are true, and a link that is replaced or gone is reported.
LEMMA PushOrder ==
  ASSUME NEW q \in Seq(Event), NEW es \in Seq(Event), NEW c, NEW f, NEW g,
         Closed(q, c, f), Apart(q, c),
         \A k \in 1 .. Len(es), s \in Slot, p \in Peer : es[k] = CONNECTED(s, p) => g[s] = p,
         \A s \in Slot : \/ g[s] = f[s] \/ f[s] = None
                         \/ g[s] = None /\ \E k \in 1 .. Len(es) : es[k] = DISCONNECTED(s)
  PROVE  Closed(q \o es, c, g) /\ Apart(q \o es, c)
<1> DEFINE qq == q \o es
<1>1. /\ Len(q) \in Nat /\ Len(es) \in Nat /\ Len(qq) = Len(q) + Len(es)
      /\ \A i \in 1 .. Len(q) : qq[i] = q[i]
      /\ \A i \in 1 .. Len(es) : qq[Len(q) + i] = es[i]
  BY ConcatIndex
<1> HIDE DEF qq
<1>2. \A i \in 0 .. Len(q), s \in Slot, p \in Peer : At(qq, c, i, s, p) <=> At(q, c, i, s, p)
  BY <1>1 DEF At
<1>3. \A j \in 1 .. Len(q), s \in Slot : Cut(q, j, s) => Cut(qq, j, s)
  BY <1>1 DEF Cut
<1>4. ASSUME NEW i \in 0 .. Len(qq), i > Len(q), NEW s \in Slot, NEW p \in Peer,
             At(qq, c, i, s, p)
      PROVE  g[s] = p
  <2>1. i - Len(q) \in 1 .. Len(es) /\ Len(q) + (i - Len(q)) = i
    BY <1>1, <1>4
  <2>2. es[i - Len(q)] = CONNECTED(s, p)
    BY <1>1, <1>4, <2>1 DEF At
  <2>3. QED
    BY <2>1, <2>2
<1>5. ASSUME NEW i \in 0 .. Len(q), NEW s \in Slot, NEW p \in Peer, At(qq, c, i, s, p), f[s] # p
      PROVE  \E j \in i + 1 .. Len(q) : Cut(qq, j, s)
  <2>1. PICK j \in i + 1 .. Len(q) : Cut(q, j, s)
    BY <1>2, <1>5 DEF Closed
  <2>2. j \in 1 .. Len(q)
    BY <1>1, <2>1
  <2>3. QED
    BY <1>3, <2>1, <2>2
<1>6. ASSUME NEW s \in Slot, NEW p \in Peer, NEW i \in 0 .. Len(qq),
             At(qq, c, i, s, p), g[s] # p
      PROVE  \E j \in i + 1 .. Len(qq) : Cut(qq, j, s)
  <2>1. i \in 0 .. Len(q)
    BY <1>1, <1>4, <1>6
  <2>2. CASE f[s] # p
    <3>1. PICK j \in i + 1 .. Len(q) : Cut(qq, j, s)
      BY <1>5, <1>6, <2>1, <2>2
    <3>2. j \in i + 1 .. Len(qq)
      BY <1>1, <2>1, <3>1
    <3>3. QED
      BY <3>1, <3>2
  <2>3. CASE f[s] = p
    <3>1. f[s] # None
      BY <2>3, HueBulbAssumption
    <3>2. PICK k \in 1 .. Len(es) : es[k] = DISCONNECTED(s)
      BY <1>6, <2>3, <3>1
    <3>3. Len(q) + k \in i + 1 .. Len(qq) /\ Cut(qq, Len(q) + k, s)
      BY <1>1, <2>1, <3>2 DEF Cut
    <3>4. QED
      BY <3>3
  <2>4. QED
    BY <2>2, <2>3
<1>7. ASSUME NEW s \in Slot, NEW p \in Peer, NEW r \in Peer,
             NEW i \in 0 .. Len(qq), NEW k \in 0 .. Len(qq),
             i < k, At(qq, c, i, s, p), At(qq, c, k, s, r), p # r
      PROVE  \E j \in i + 1 .. k - 1 : Cut(qq, j, s)
  <2>1. CASE k <= Len(q)
    <3>1. i \in 0 .. Len(q) /\ k \in 0 .. Len(q)
      BY <1>1, <1>7, <2>1
    <3>2. PICK j \in i + 1 .. k - 1 : Cut(q, j, s)
      BY <1>2, <1>7, <3>1 DEF Apart
    <3>3. j \in 1 .. Len(q)
      BY <1>1, <3>1, <3>2
    <3>4. QED
      BY <1>3, <3>2, <3>3
  <2>2. CASE k > Len(q)
    <3>1. g[s] = r
      BY <1>4, <1>7, <2>2
    <3>2. i \in 0 .. Len(q)
      BY <1>1, <1>4, <1>7, <3>1
    <3>3. f[s] # p
      BY <1>7, <3>1, HueBulbAssumption
    <3>4. PICK j \in i + 1 .. Len(q) : Cut(qq, j, s)
      BY <1>5, <1>7, <3>2, <3>3
    <3>5. j \in i + 1 .. k - 1
      BY <1>1, <2>2, <3>2, <3>4
    <3>6. QED
      BY <3>4, <3>5
  <2>3. QED
    BY <1>1, <2>1, <2>2
<1>8. Closed(qq, c, g)
  BY <1>6 DEF Closed
<1>9. Apart(qq, c)
  BY <1>7 DEF Apart
<1>10. QED
  BY <1>8, <1>9 DEF qq

\* The oldest event is handled: the view changes from c to d.
LEMMA PopOrder ==
  ASSUME NEW q \in Seq(Event), q # <<>>, NEW c, NEW d, NEW f,
         Closed(q, c, f), Apart(q, c),
         \A s \in Slot, p \in Peer :
           d[s] = p => q[1] = CONNECTED(s, p) \/ (c[s] = p /\ ~Cut(q, 1, s))
  PROVE  Closed(Tail(q), d, f) /\ Apart(Tail(q), d)
<1> DEFINE t == Tail(q)
<1>1. /\ Len(q) \in Nat \ {0} /\ Len(t) = Len(q) - 1
      /\ \A i \in 1 .. Len(t) : t[i] = q[i + 1]
  BY TailIndex
<1> HIDE DEF t
<1>2. \A j \in 1 .. Len(t), s \in Slot : Cut(q, j + 1, s) => Cut(t, j, s)
  BY <1>1 DEF Cut
\* Where index i of the tail comes from: nothing between is cut.
<1>3. ASSUME NEW s \in Slot, NEW p \in Peer, NEW i \in 0 .. Len(t), At(t, d, i, s, p)
      PROVE  \E o \in 0 .. Len(q) :
               At(q, c, o, s, p) /\ (o = i + 1 \/ (o = 0 /\ i = 0 /\ ~Cut(q, 1, s)))
  <2>1. CASE i # 0
    <3>1. i + 1 \in 0 .. Len(q) /\ At(q, c, i + 1, s, p)
      BY <1>1, <1>3, <2>1 DEF At
    <3>2. QED
      BY <3>1
  <2>2. CASE i = 0 /\ q[1] = CONNECTED(s, p)
    <3>1. 1 \in 0 .. Len(q) /\ At(q, c, 1, s, p)
      BY <1>1, <2>2 DEF At
    <3>2. QED
      BY <2>2, <3>1
  <2>3. CASE i = 0 /\ c[s] = p /\ ~Cut(q, 1, s)
    <3>1. 0 \in 0 .. Len(q) /\ At(q, c, 0, s, p)
      BY <1>1, <2>3 DEF At
    <3>2. QED
      BY <2>3, <3>1
  <2>4. QED
    BY <1>3, <2>1, <2>2, <2>3 DEF At
<1>4. ASSUME NEW s \in Slot, NEW p \in Peer, NEW i \in 0 .. Len(t), At(t, d, i, s, p), f[s] # p
      PROVE  \E j \in i + 1 .. Len(t) : Cut(t, j, s)
  <2>1. PICK o \in 0 .. Len(q) :
          At(q, c, o, s, p) /\ (o = i + 1 \/ (o = 0 /\ i = 0 /\ ~Cut(q, 1, s)))
    BY <1>3, <1>4
  <2>2. PICK j \in o + 1 .. Len(q) : Cut(q, j, s)
    BY <1>4, <2>1 DEF Closed
  <2>3. j # 1
    BY <2>1, <2>2
  <2>4. j - 1 \in i + 1 .. Len(t) /\ (j - 1) + 1 = j /\ j - 1 \in 1 .. Len(t)
    BY <1>1, <2>1, <2>2, <2>3
  <2>5. QED
    BY <1>2, <2>2, <2>4
<1>5. ASSUME NEW s \in Slot, NEW p \in Peer, NEW r \in Peer,
             NEW i \in 0 .. Len(t), NEW k \in 0 .. Len(t),
             i < k, At(t, d, i, s, p), At(t, d, k, s, r), p # r
      PROVE  \E j \in i + 1 .. k - 1 : Cut(t, j, s)
  <2>1. PICK o \in 0 .. Len(q) :
          At(q, c, o, s, p) /\ (o = i + 1 \/ (o = 0 /\ i = 0 /\ ~Cut(q, 1, s)))
    BY <1>3, <1>5
  <2>2. k + 1 \in 0 .. Len(q) /\ At(q, c, k + 1, s, r) /\ o < k + 1
    <3>1. k # 0
      BY <1>5
    <3>2. PICK u \in 0 .. Len(q) : At(q, c, u, s, r) /\ (u = k + 1 \/ k = 0)
      BY <1>3, <1>5
    <3>3. u = k + 1
      BY <3>1, <3>2
    <3>4. o < k + 1
      BY <1>5, <2>1
    <3>5. QED
      BY <3>2, <3>3, <3>4
  <2>3. PICK j \in o + 1 .. (k + 1) - 1 : Cut(q, j, s)
    BY <1>5, <2>1, <2>2 DEF Apart
  <2>4. j # 1
    BY <2>1, <2>3
  <2>5. j - 1 \in i + 1 .. k - 1 /\ (j - 1) + 1 = j /\ j - 1 \in 1 .. Len(t)
    BY <1>1, <1>5, <2>1, <2>3, <2>4
  <2>6. QED
    BY <1>2, <2>3, <2>5
<1>6. Closed(t, d, f)
  BY <1>4 DEF Closed
<1>7. Apart(t, d)
  BY <1>5 DEF Apart
<1>8. QED
  BY <1>6, <1>7 DEF t

-----------------------------------------------------------------------------
(* One handle in the mailbox of the bulb                                    *)

\* Messages are put behind the rest.
LEMMA AppendKeeps ==
  ASSUME NEW b \in Seq(Message), NEW es \in Seq(Message), NEW h, NEW s \in Slot,
         Keeps(h, b \o es, s)
  PROVE  \/ Keeps(h, b, s) /\ \A k \in 1 .. Len(es) : es[k] # DISCONNECTED(s)
         \/ \E k \in 1 .. Len(es) : es[k] = CONNECTED(s, Me)
<1> DEFINE bb == b \o es
<1>1. /\ Len(b) \in Nat /\ Len(es) \in Nat /\ Len(bb) = Len(b) + Len(es)
      /\ \A i \in 1 .. Len(b) : bb[i] = b[i]
      /\ \A i \in 1 .. Len(es) : bb[Len(b) + i] = es[i]
  BY ConcatIndex
<1> HIDE DEF bb
<1>2. PICK i \in 0 .. Len(bb) :
        Holds(h, bb, i, s) /\ \A j \in i + 1 .. Len(bb) : bb[j] # DISCONNECTED(s)
  BY DEF Keeps, bb
<1>3. CASE i <= Len(b)
  <2>1. i \in 0 .. Len(b) /\ Holds(h, b, i, s)
    BY <1>1, <1>2, <1>3 DEF Holds
  <2>2. ASSUME NEW j \in i + 1 .. Len(b) PROVE b[j] # DISCONNECTED(s)
    <3>1. j \in i + 1 .. Len(bb) /\ j \in 1 .. Len(b)
      BY <1>1, <2>1
    <3>2. QED
      BY <1>1, <1>2, <3>1
  <2>3. ASSUME NEW k \in 1 .. Len(es) PROVE es[k] # DISCONNECTED(s)
    <3>1. Len(b) + k \in i + 1 .. Len(bb)
      BY <1>1, <1>3, <2>1
    <3>2. QED
      BY <1>1, <1>2, <3>1
  <2>4. QED
    BY <2>1, <2>2, <2>3 DEF Keeps
<1>4. CASE i > Len(b)
  <2>1. i - Len(b) \in 1 .. Len(es) /\ Len(b) + (i - Len(b)) = i
    BY <1>1, <1>2, <1>4
  <2>2. bb[i] = CONNECTED(s, Me)
    BY <1>1, <1>2, <1>4 DEF Holds
  <2>3. es[i - Len(b)] = CONNECTED(s, Me)
    BY <1>1, <2>1, <2>2
  <2>4. QED
    BY <2>1, <2>3
<1>5. QED
  BY <1>1, <1>2, <1>3, <1>4

\* The bulb reads a message, and has handle g afterwards.
LEMMA PopKeeps ==
  ASSUME NEW b \in Seq(Message), b # <<>>, NEW h, NEW g, NEW s \in Slot,
         Keeps(g, Tail(b), s),
         g = s => b[1] = CONNECTED(s, Me) \/ (h = s /\ b[1] # DISCONNECTED(s))
  PROVE  Keeps(h, b, s)
<1> DEFINE t == Tail(b)
<1>1. /\ Len(b) \in Nat \ {0} /\ Len(t) = Len(b) - 1
      /\ \A i \in 1 .. Len(t) : t[i] = b[i + 1]
  BY TailIndex
<1> HIDE DEF t
<1>2. PICK i \in 0 .. Len(t) :
        Holds(g, t, i, s) /\ \A j \in i + 1 .. Len(t) : t[j] # DISCONNECTED(s)
  BY DEF Keeps, t
<1>3. ASSUME NEW j \in i + 2 .. Len(b) PROVE b[j] # DISCONNECTED(s)
  <2>1. j - 1 \in i + 1 .. Len(t) /\ (j - 1) + 1 = j /\ j - 1 \in 1 .. Len(t)
    BY <1>1, <1>2
  <2>2. QED
    BY <1>1, <1>2, <2>1
<1>4. CASE i # 0
  <2>1. i + 1 \in 0 .. Len(b) /\ Holds(h, b, i + 1, s)
    BY <1>1, <1>2, <1>4 DEF Holds
  <2>2. \A j \in (i + 1) + 1 .. Len(b) : b[j] # DISCONNECTED(s)
    BY <1>2, <1>3
  <2>3. QED
    BY <2>1, <2>2 DEF Keeps
<1>5. CASE i = 0 /\ b[1] = CONNECTED(s, Me)
  <2>1. 1 \in 0 .. Len(b) /\ Holds(h, b, 1, s)
    BY <1>1, <1>5 DEF Holds
  <2>2. \A j \in 1 + 1 .. Len(b) : b[j] # DISCONNECTED(s)
    BY <1>3, <1>5
  <2>3. QED
    BY <2>1, <2>2 DEF Keeps
<1>6. CASE i = 0 /\ h = s /\ b[1] # DISCONNECTED(s)
  <2>1. 0 \in 0 .. Len(b) /\ Holds(h, b, 0, s)
    BY <1>1, <1>6 DEF Holds
  <2>2. \A j \in 0 + 1 .. Len(b) : b[j] # DISCONNECTED(s)
    BY <1>1, <1>3, <1>6
  <2>3. QED
    BY <2>1, <2>2 DEF Keeps
<1>7. i = 0 => g = s
  BY <1>2 DEF Holds
<1>8. QED
  BY <1>4, <1>5, <1>6, <1>7

\* A message that is not about links is put anywhere.
LEMMA InsertKeeps ==
  ASSUME NEW b \in Seq(Message), NEW k \in 1 .. Len(b) + 1, NEW h, NEW s \in Slot,
         Keeps(h, InsertAt(b, k, RECONCILE), s)
  PROVE  Keeps(h, b, s)
<1> DEFINE t == InsertAt(b, k, RECONCILE)
<1>1. /\ Len(b) \in Nat /\ Len(t) = Len(b) + 1 /\ t[k] = RECONCILE
      /\ \A i \in 1 .. k - 1 : t[i] = b[i]
      /\ \A i \in k .. Len(b) : t[i + 1] = b[i]
  <2>1. RECONCILE \in Message
    BY DEF Message
  <2>2. Len(b) \in Nat
    OBVIOUS
  <2>3. QED
    BY <2>1, <2>2, InsertIndex
<1> HIDE DEF t
<1>2. PICK i \in 0 .. Len(t) :
        Holds(h, t, i, s) /\ \A j \in i + 1 .. Len(t) : t[j] # DISCONNECTED(s)
  BY DEF Keeps, t
<1>3. CASE i < k
  <2>1. i \in 0 .. Len(b) /\ Holds(h, b, i, s)
    BY <1>1, <1>2, <1>3 DEF Holds
  <2>2. ASSUME NEW j \in i + 1 .. Len(b) PROVE b[j] # DISCONNECTED(s)
    <3>1. CASE j < k
      <4>1. j \in 1 .. k - 1 /\ j \in i + 1 .. Len(t)
        BY <1>1, <1>2, <3>1
      <4>2. QED
        BY <1>1, <1>2, <4>1
    <3>2. CASE j >= k
      <4>1. j \in k .. Len(b) /\ j + 1 \in i + 1 .. Len(t)
        BY <1>1, <1>2, <3>2
      <4>2. QED
        BY <1>1, <1>2, <4>1
    <3>3. QED
      BY <3>1, <3>2
  <2>3. QED
    BY <2>1, <2>2 DEF Keeps
<1>4. CASE i > k
  <2>1. i - 1 \in k .. Len(b) /\ i - 1 \in 0 .. Len(b) /\ (i - 1) + 1 = i /\ i # 0 /\ i - 1 # 0
    BY <1>1, <1>2, <1>4
  <2>2. b[i - 1] = CONNECTED(s, Me)
    BY <1>1, <1>2, <2>1 DEF Holds
  <2>3. Holds(h, b, i - 1, s)
    BY <2>1, <2>2 DEF Holds
  <2>4. ASSUME NEW j \in (i - 1) + 1 .. Len(b) PROVE b[j] # DISCONNECTED(s)
    <3>1. j \in k .. Len(b) /\ j + 1 \in i + 1 .. Len(t)
      BY <1>1, <1>2, <1>4
    <3>2. QED
      BY <1>1, <1>2, <3>1
  <2>5. QED
    BY <2>1, <2>3, <2>4 DEF Keeps
<1>5. i # k
  <2>1. RECONCILE # CONNECTED(s, Me)
    BY NewsFacts, OtherFacts, HueBulbAssumption
  <2>2. QED
    BY <1>1, <1>2, <2>1 DEF Holds
<1>6. QED
  BY <1>1, <1>2, <1>3, <1>4, <1>5

\* A bulb without a handle and with an empty mailbox keeps none.
LEMMA NothingKept ==
  \A s \in Slot : ~Keeps(None, <<>>, s)
BY HueBulbAssumption DEF Keeps, Holds, Slot

-----------------------------------------------------------------------------
(* Steps of the nRF                                                         *)

\* event_queue_push: what fits is queued, and lossy tells when not all of it is.
LEMMA PushFacts ==
  ASSUME TypeOK, NEW es \in Seq(LinkNews), Push(es)
  PROVE  /\ queue' \in Seq(Event) /\ Len(queue') <= QueueSize /\ lossy' \in BOOLEAN
         /\ ~lossy' => ~lossy /\ queue' = queue \o es
<1> DEFINE room == QueueSize - Len(queue)
           n    == IF room < Len(es) THEN room ELSE Len(es)
           u    == SubSeq(es, 1, n)
<1>1. /\ queue \in Seq(Event) /\ Len(queue) \in Nat /\ Len(queue) <= QueueSize
      /\ QueueSize \in Nat /\ Len(es) \in Nat
  BY HueBulbAssumption DEF TypeOK, Event
<1>2. es \in Seq(Event)
  BY DEF Event
<1>3. n \in 0 .. Len(es) /\ n <= room /\ room \in Int
  BY <1>1
<1>4. u \in Seq(Event) /\ Len(u) = n
  BY <1>2, <1>3
<1>5. queue' = queue \o u
  BY DEF Push
<1>6. lossy' \in BOOLEAN /\ (~lossy' => ~lossy /\ ~(room < Len(es)))
  BY DEF Push
<1>7. n = Len(es) => u = es
  BY <1>2
<1>8. ~(room < Len(es)) => n = Len(es)
  BY <1>1
<1> HIDE DEF u, n
<1>9. queue' \in Seq(Event) /\ Len(queue') = Len(queue) + n
  BY <1>1, <1>4, <1>5, ConcatIndex
<1>10. Len(queue') <= QueueSize
  BY <1>1, <1>3, <1>9
<1>11. ~lossy' => ~lossy /\ queue' = queue \o es
  BY <1>5, <1>6, <1>7, <1>8
<1>12. QED
  BY <1>6, <1>9, <1>10, <1>11

\* News that are true of the new table, and complete
Truthful(es, g) ==
  \A k \in 1 .. Len(es), s \in Slot, p \in Peer : es[k] = CONNECTED(s, p) => g[s] = p
Complete(es, f, g) ==
  \A s \in Slot : \/ g[s] = f[s] \/ f[s] = None
                  \/ g[s] = None /\ \E k \in 1 .. Len(es) : es[k] = DISCONNECTED(s)

LEMMA NewsStep ==
  ASSUME BulbInv, NEW es \in Seq(LinkNews), Push(es), UNCHANGED <<driver, bulb>>,
         Truthful(es, slot'), Complete(es, slot, slot')
  PROVE  Ordered' /\ Recorded' /\ Own' /\ Newborn'
<1>1. TypeOK /\ queue \in Seq(Event) /\ es \in Seq(Event)
  BY DEF BulbInv, TypeOK, Event
<1>2. queue' \in Seq(Event) /\ (~lossy' => ~lossy /\ queue' = queue \o es)
  BY <1>1, PushFacts
<1>3. UNCHANGED <<conns, handle, box, phase>>
  BY DEF driver, bulb
<1>4. Ordered'
  <2> SUFFICES ASSUME ~lossy'
               PROVE  Closed(queue', conns', slot') /\ Apart(queue', conns')
    BY DEF Ordered, Closed, Apart, At, Cut
  <2>1. Closed(queue, conns, slot) /\ Apart(queue, conns)
    BY <1>2 DEF BulbInv, Ordered
  <2>2. PICK g : g = slot'
    OBVIOUS
  <2>3. Closed(queue \o es, conns, g) /\ Apart(queue \o es, conns)
    <3>1. /\ \A k \in 1 .. Len(es), s \in Slot, p \in Peer : es[k] = CONNECTED(s, p) => g[s] = p
          /\ \A s \in Slot : \/ g[s] = slot[s] \/ slot[s] = None
                             \/ g[s] = None /\ \E k \in 1 .. Len(es) : es[k] = DISCONNECTED(s)
      BY <2>2 DEF Truthful, Complete
    <3>2. QED
      BY <1>1, <2>1, <3>1, PushOrder
  <2>4. QED
    BY <1>2, <1>3, <2>2, <2>3
<1>5. Recorded' /\ Newborn'
  BY <1>3 DEF BulbInv, Recorded, Newborn, Keeps, Holds
<1>6. Own'
  <2> SUFFICES ASSUME ~lossy', NEW s \in Slot, Keeps(handle, box, s)
               PROVE  conns[s] = Me \/ READY \in ToSet(queue')
    BY <1>3 DEF Own, Keeps, Holds, ToSet
  <2>1. conns[s] = Me \/ READY \in ToSet(queue)
    BY <1>2 DEF BulbInv, Own
  <2>2. ASSUME READY \in ToSet(queue) PROVE READY \in ToSet(queue')
    <3>1. PICK i \in 1 .. Len(queue) : queue[i] = READY
      BY <1>1, <2>2 DEF ToSet
    <3>2. i \in 1 .. Len(queue') /\ queue'[i] = READY
      BY <1>1, <1>2, <3>1, ConcatIndex
    <3>3. QED
      BY <1>2, <3>2 DEF ToSet
  <2>3. QED
    BY <2>1, <2>2
<1>7. QED
  BY <1>4, <1>5, <1>6

LEMMA LinkUpOK == ASSUME BulbInv, NEW p \in Peer, LinkUp(p) PROVE BulbInv'
<1>1. PICK s \in Slot :
        slot[s] = None /\ slot' = [slot EXCEPT ![s] = p] /\ Push(<<CONNECTED(s, p)>>)
  BY DEF LinkUp, Free
<1>2. UNCHANGED <<enc, listing, cmds, driver, bulb, missed, troubles>> /\ NewLink
  BY DEF LinkUp
<1> DEFINE es == <<CONNECTED(s, p)>>
<1>3. es \in Seq(LinkNews) /\ Len(es) = 1 /\ es[1] = CONNECTED(s, p)
  BY NewsFacts
<1>4. TypeOK /\ slot \in [Slot -> Peer \cup {None}]
  BY DEF BulbInv, TypeOK
<1>5. /\ slot' \in [Slot -> Peer \cup {None}] /\ slot'[s] = p
      /\ \A t \in Slot : t # s => slot'[t] = slot[t]
  BY <1>1, <1>4
<1> HIDE DEF es
<1>6. Truthful(es, slot')
  BY <1>3, <1>5, NewsFacts DEF Truthful
<1>7. Complete(es, slot, slot')
  BY <1>1, <1>5 DEF Complete
<1>8. Push(es)
  BY <1>1 DEF es
<1>9. Ordered' /\ Recorded' /\ Own' /\ Newborn'
  BY <1>2, <1>3, <1>6, <1>7, <1>8, NewsStep
<1>10. queue' \in Seq(Event) /\ Len(queue') <= QueueSize /\ lossy' \in BOOLEAN
  BY <1>3, <1>4, <1>8, PushFacts
<1>11. TypeOK'
  BY <1>2, <1>4, <1>5, <1>10 DEF TypeOK, Event, driver, bulb, NewLink
<1>12. QED
  BY <1>9, <1>11 DEF BulbInv

LEMMA EncryptedOK == ASSUME BulbInv, NEW s \in Slot, Encrypted(s) PROVE BulbInv'
<1>1. /\ enc' = enc \cup {s} /\ Push(<<ENC(s)>>)
      /\ UNCHANGED <<slot, listing, cmds, driver, bulb, missed, bound>>
  BY DEF Encrypted
<1> DEFINE es == <<ENC(s)>>
<1>2. es \in Seq(LinkNews) /\ Len(es) = 1 /\ es[1] = ENC(s)
  BY NewsFacts
<1>3. Push(es)
  BY <1>1
<1> HIDE DEF es
<1>4. Truthful(es, slot')
  BY <1>2, NewsFacts DEF Truthful
<1>5. Complete(es, slot, slot')
  BY <1>1 DEF Complete
<1>6. Ordered' /\ Recorded' /\ Own' /\ Newborn'
  BY <1>1, <1>2, <1>3, <1>4, <1>5, NewsStep
<1>7. TypeOK /\ queue' \in Seq(Event) /\ Len(queue') <= QueueSize /\ lossy' \in BOOLEAN
  BY <1>2, <1>3, PushFacts DEF BulbInv
<1>8. TypeOK'
  BY <1>1, <1>7 DEF TypeOK, Event, driver, bulb, bound
<1>9. QED
  BY <1>6, <1>8 DEF BulbInv

LEMMA SlotFinite == \A ss \in SUBSET Slot : IsFiniteSet(ss)
<1>1. IsFiniteSet(Slot)
  BY FS_Interval, HueBulbAssumption DEF Slot
<1>2. QED
  BY <1>1, FS_Subset

\* A DISCONNECTED for every handle of a set
Disconnects(ss) == [i \in 1 .. Len(SetToSeq(ss)) |-> DISCONNECTED(SetToSeq(ss)[i])]

LEMMA DisconnectsFacts ==
  ASSUME NEW ss \in SUBSET Slot, NEW es, es = Disconnects(ss)
  PROVE  /\ es \in Seq(LinkNews)
         /\ \A k \in 1 .. Len(es) : \E s \in ss : es[k] = DISCONNECTED(s)
         /\ \A s \in ss : \E k \in 1 .. Len(es) : es[k] = DISCONNECTED(s)
<1>1. PICK f : f = SetToSeq(ss)
  OBVIOUS
<1>2. f \in Seq(ss) /\ \A s \in ss : \E i \in DOMAIN f : f[i] = s
  BY <1>1, SlotFinite, SetSeqFacts
<1>3. Len(f) \in Nat /\ DOMAIN f = 1 .. Len(f) /\ \A i \in 1 .. Len(f) : f[i] \in ss
  BY <1>2
<1>4. es = [i \in 1 .. Len(f) |-> DISCONNECTED(f[i])]
  BY <1>1 DEF Disconnects
<1>5. \A i \in 1 .. Len(f) : DISCONNECTED(f[i]) \in LinkNews
  BY <1>3, NewsFacts
<1>6. es \in Seq(LinkNews) /\ Len(es) = Len(f)
  BY <1>3, <1>4, <1>5
<1>7. QED
  BY <1>2, <1>3, <1>4, <1>6

LEMMA DroppedOK ==
  ASSUME BulbInv, NEW ss \in SUBSET Slot, Dropped(ss), UNCHANGED <<listing, driver, bulb>>
  PROVE  /\ Ordered' /\ Recorded' /\ Own' /\ Newborn'
         /\ slot' \in [Slot -> Peer \cup {None}] /\ enc' \subseteq Slot
         /\ queue' \in Seq(Event) /\ Len(queue') <= QueueSize /\ lossy' \in BOOLEAN
<1>1. PICK es : es = Disconnects(ss)
  OBVIOUS
<1>2. /\ es \in Seq(LinkNews)
      /\ \A k \in 1 .. Len(es) : \E s \in ss : es[k] = DISCONNECTED(s)
      /\ \A s \in ss : \E k \in 1 .. Len(es) : es[k] = DISCONNECTED(s)
  BY <1>1, DisconnectsFacts
<1>3. /\ slot' = [s \in Slot |-> IF s \in ss THEN None ELSE slot[s]]
      /\ enc' = enc \ ss /\ Push(es)
  BY <1>1 DEF Dropped, Disconnects
<1>4. TypeOK /\ slot \in [Slot -> Peer \cup {None}] /\ enc \subseteq Slot
  BY DEF BulbInv, TypeOK
<1>5. slot' \in [Slot -> Peer \cup {None}] /\ enc' \subseteq Slot
  BY <1>3, <1>4
<1>6. \A s \in Slot : slot'[s] = IF s \in ss THEN None ELSE slot[s]
  BY <1>3
<1>7. Truthful(es, slot')
  <2>1. \A k \in 1 .. Len(es), s \in Slot, p \in Peer : es[k] # CONNECTED(s, p)
    BY <1>2, NewsFacts
  <2>2. QED
    BY <2>1 DEF Truthful
<1>8. Complete(es, slot, slot')
  BY <1>2, <1>6 DEF Complete
<1>9. Ordered' /\ Recorded' /\ Own' /\ Newborn'
  BY <1>2, <1>3, <1>7, <1>8, NewsStep
<1>10. QED
  BY <1>2, <1>3, <1>4, <1>5, <1>9, PushFacts

LEMMA LinkDownOK == ASSUME BulbInv, NEW s \in Slot, LinkDown(s) PROVE BulbInv'
<1>1. Dropped({s}) /\ UNCHANGED <<listing, cmds, driver, bulb, missed, bound>>
  BY DEF LinkDown
<1>2. {s} \in SUBSET Slot
  OBVIOUS
<1>3. /\ Ordered' /\ Recorded' /\ Own' /\ Newborn'
      /\ slot' \in [Slot -> Peer \cup {None}] /\ enc' \subseteq Slot
      /\ queue' \in Seq(Event) /\ Len(queue') <= QueueSize /\ lossy' \in BOOLEAN
  BY <1>1, <1>2, DroppedOK
<1>4. TypeOK'
  BY <1>1, <1>3 DEF BulbInv, TypeOK, Event, driver, bulb, bound
<1>5. QED
  BY <1>3, <1>4 DEF BulbInv

LEMMA CmdExecOK == ASSUME BulbInv, CmdExec PROVE BulbInv'
<1>1. PICK ss \in SUBSET Slot : Dropped(ss)
  BY DEF CmdExec
<1>2. cmds # <<>> /\ cmds' = Tail(cmds) /\ UNCHANGED <<listing, driver, bulb, missed, bound>>
  BY DEF CmdExec
<1>3. /\ Ordered' /\ Recorded' /\ Own' /\ Newborn'
      /\ slot' \in [Slot -> Peer \cup {None}] /\ enc' \subseteq Slot
      /\ queue' \in Seq(Event) /\ Len(queue') <= QueueSize /\ lossy' \in BOOLEAN
  BY <1>1, <1>2, DroppedOK
<1>4. cmds' \in Seq({<<"disconnect", s>> : s \in Slot} \cup {<<"unpair", Me>>})
  BY <1>2 DEF BulbInv, TypeOK
<1>5. TypeOK'
  BY <1>2, <1>3, <1>4 DEF BulbInv, TypeOK, Event, driver, bulb, bound
<1>6. QED
  BY <1>3, <1>5 DEF BulbInv

\* The news of a list of links: finitely many
LEMMA ListFinite ==
  ASSUME NEW f, NEW ss \in SUBSET Slot, NEW es \in SUBSET Slot
  PROVE  IsFiniteSet({CONNECTED(s, f[s]) : s \in ss} \cup {ENC(s) : s \in es})
<1> DEFINE A == {CONNECTED(s, f[s]) : s \in ss}
           B == {ENC(s) : s \in es}
<1>1. IsFiniteSet(A)
  <2>1. PICK g : g = [s \in ss |-> CONNECTED(s, f[s])]
    OBVIOUS
  <2>2. g \in Surjection(ss, A)
    BY <2>1 DEF Surjection
  <2>3. QED
    BY <2>2, SlotFinite, FS_Surjection
<1>2. IsFiniteSet(B)
  <2>1. PICK g : g = [s \in es |-> ENC(s)]
    OBVIOUS
  <2>2. g \in Surjection(es, B)
    BY <2>1 DEF Surjection
  <2>3. QED
    BY <2>2, SlotFinite, FS_Surjection
<1> HIDE DEF A, B
<1>3. IsFiniteSet(A \cup B)
  BY <1>1, <1>2, FS_Union
<1>4. QED
  BY <1>3 DEF A, B

LEMMA ReportConnectionsOK == ASSUME BulbInv, ReportConnections PROVE BulbInv'
<1> DEFINE N == {CONNECTED(s, slot[s]) : s \in Slot \ Free} \cup {ENC(s) : s \in enc}
<1>1. /\ listing' = FALSE /\ \E es \in SetToSeqs(N) : Push(es)
      /\ UNCHANGED <<slot, enc, cmds, driver, bulb, missed, bound>>
  BY DEF ReportConnections
<1>2. TypeOK /\ slot \in [Slot -> Peer \cup {None}] /\ enc \subseteq Slot
  BY DEF BulbInv, TypeOK
<1>3. IsFiniteSet(N)
  BY <1>2, ListFinite
<1>4. \A s \in Slot \ Free : s \in Slot /\ slot[s] \in Peer
  BY <1>2 DEF Free
<1>5. N \subseteq LinkNews
  BY <1>2, <1>4, NewsFacts
<1>6. \A s \in Slot, p \in Peer : CONNECTED(s, p) \in N => slot[s] = p
  <2> SUFFICES ASSUME NEW s \in Slot, NEW p \in Peer, CONNECTED(s, p) \in N
               PROVE  slot[s] = p
    OBVIOUS
  <2>1. CASE \E t \in Slot \ Free : CONNECTED(s, p) = CONNECTED(t, slot[t])
    <3>1. PICK t \in Slot : slot[t] \in Peer /\ CONNECTED(s, p) = CONNECTED(t, slot[t])
      BY <1>4, <2>1
    <3>2. s = t /\ p = slot[t]
      BY <3>1, NewsFacts
    <3>3. QED
      BY <3>2
  <2>2. CASE \E t \in enc : CONNECTED(s, p) = ENC(t)
    BY <1>2, <2>2, NewsFacts
  <2>3. QED
    BY <2>1, <2>2
<1> HIDE DEF N
<1>7. PICK es \in SetToSeqs(N) : Push(es)
  BY <1>1
<1>8. es \in Seq(N)
  BY <1>3, SetSeqFacts
<1>9. es \in Seq(LinkNews) /\ \A k \in 1 .. Len(es) : es[k] \in N
  BY <1>5, <1>8
<1>10. Truthful(es, slot')
  BY <1>1, <1>6, <1>9 DEF Truthful
<1>11. Complete(es, slot, slot')
  BY <1>1 DEF Complete
<1>12. Ordered' /\ Recorded' /\ Own' /\ Newborn'
  BY <1>1, <1>7, <1>9, <1>10, <1>11, NewsStep
<1>13. queue' \in Seq(Event) /\ Len(queue') <= QueueSize /\ lossy' \in BOOLEAN
  BY <1>2, <1>7, <1>9, PushFacts
<1>14. TypeOK'
  BY <1>1, <1>2, <1>13 DEF TypeOK, Event, driver, bulb, bound
<1>15. QED
  BY <1>12, <1>14 DEF BulbInv

\* A queue that holds nothing but a READY puts every record right.
LEMMA ReadyOnly ==
  ASSUME NEW q, q = <<READY>>, NEW c, NEW f
  PROVE  Closed(q, c, f) /\ Apart(q, c)
<1>1. Len(q) = 1 /\ q[1] = READY
  OBVIOUS
<1>2. \A s \in Slot : Cut(q, 1, s)
  BY <1>1 DEF Cut
<1>3. \A s \in Slot, p \in Peer : READY # CONNECTED(s, p)
  BY NewsFacts, OtherFacts
<1>4. \A s \in Slot, p \in Peer, i \in 0 .. Len(q) : At(q, c, i, s, p) => i = 0
  BY <1>1, <1>3 DEF At
<1>5. Closed(q, c, f)
  <2>1. ASSUME NEW s \in Slot, NEW p \in Peer, NEW i \in 0 .. Len(q), At(q, c, i, s, p)
        PROVE  \E j \in i + 1 .. Len(q) : Cut(q, j, s)
    <3>1. i = 0
      BY <1>4, <2>1
    <3>2. 1 \in i + 1 .. Len(q)
      BY <1>1, <3>1
    <3>3. QED
      BY <1>2, <3>2
  <2>2. QED
    BY <2>1 DEF Closed
<1>6. Apart(q, c)
  <2>1. ASSUME NEW s \in Slot, NEW p \in Peer, NEW r \in Peer,
               NEW i \in 0 .. Len(q), NEW k \in 0 .. Len(q),
               i < k, At(q, c, k, s, r)
        PROVE  FALSE
    <3>1. k = 0
      BY <1>4, <2>1
    <3>2. QED
      BY <1>1, <2>1, <3>1
  <2>2. QED
    BY <2>1 DEF Apart
<1>7. QED
  BY <1>5, <1>6

LEMMA InitOK == ASSUME Init PROVE BulbInv
<1>1. TypeOK
  <2>1. queue = <<READY>> /\ queue \in Seq(LinkNews \cup {READY}) /\ Len(queue) = 1
    BY DEF Init
  <2>2. QueueSize >= 1
    BY HueBulbAssumption
  <2>3. NoLinks \in [Slot -> Peer \cup {None}]
    BY DEF NoLinks
  <2>4. <<>> \in Seq(LinkNews \cup {RECONCILE, UNPAIR})
    OBVIOUS
  <2>5. <<>> \in Seq({<<"disconnect", s>> : s \in Slot} \cup {<<"unpair", Me>>})
    OBVIOUS
  <2>6. QED
    BY <2>1, <2>2, <2>3, <2>4, <2>5 DEF Init, TypeOK
<1>2. Ordered
  <2>1. queue = <<READY>>
    BY DEF Init
  <2>2. QED
    BY <2>1, ReadyOnly DEF Ordered
<1>3. handle = None /\ box = <<>>
  BY DEF Init
<1>4. \A s \in Slot : ~Keeps(handle, box, s)
  BY <1>3, NothingKept
<1>5. QED
  BY <1>1, <1>2, <1>3, <1>4 DEF BulbInv, Recorded, Own, Newborn

LEMMA ResetOK == ASSUME BulbInv, Reset PROVE BulbInv'
<1>1. /\ slot' = NoLinks /\ enc' = {} /\ queue' = <<READY>>
      /\ listing' = FALSE /\ cmds' = <<>> /\ lossy' = FALSE
      /\ UNCHANGED <<driver, bulb, missed, links>> /\ Trouble
  BY DEF Reset
<1>2. UNCHANGED <<ready, checking, conns, encd, phase, box, handle, connected>>
  BY <1>1 DEF driver, bulb
<1>3. TypeOK'
  <2>1. queue' \in Seq(LinkNews \cup {READY}) /\ Len(queue') = 1
    BY <1>1
  <2>2. QueueSize >= 1
    BY HueBulbAssumption
  <2>3. NoLinks \in [Slot -> Peer \cup {None}]
    BY DEF NoLinks
  <2>4. <<>> \in Seq({<<"disconnect", s>> : s \in Slot} \cup {<<"unpair", Me>>})
    OBVIOUS
  <2>5. troubles' \in Nat
    BY <1>1 DEF Trouble, BulbInv, TypeOK
  <2>6. QED
    BY <1>1, <1>2, <2>1, <2>2, <2>3, <2>4, <2>5 DEF BulbInv, TypeOK
<1>4. Ordered'
  <2>1. PICK c, f : c = conns' /\ f = slot'
    OBVIOUS
  <2>2. PICK q : q = queue'
    OBVIOUS
  <2>3. Closed(q, c, f) /\ Apart(q, c)
    BY <1>1, <2>2, ReadyOnly
  <2>4. QED
    BY <2>1, <2>2, <2>3 DEF Ordered
<1>5. Recorded' /\ Newborn'
  BY <1>2 DEF BulbInv, Recorded, Newborn, Keeps, Holds
<1>6. Own'
  <2>1. READY \in ToSet(queue')
    <3>1. Len(queue') = 1 /\ queue'[1] = READY
      BY <1>1
    <3>2. 1 \in DOMAIN queue'
      BY <1>1
    <3>3. QED
      BY <3>1, <3>2 DEF ToSet
  <2>2. QED
    BY <2>1 DEF Own
<1>7. QED
  BY <1>3, <1>4, <1>5, <1>6 DEF BulbInv

-----------------------------------------------------------------------------
(* Steps of the driver                                                      *)

\* What is published is for a bulb that has subscribed.
LEMMA PublishFacts ==
  ASSUME BulbInv, NEW es \in Seq(LinkNews), Publish(es), UNCHANGED <<handle, phase>>
  PROVE  /\ box' \in Seq(LinkNews \cup {RECONCILE, UNPAIR})
         /\ Newborn'
         /\ \A s \in Slot :
              Keeps(handle', box', s) =>
                \/ Keeps(handle, box, s) /\ \A k \in 1 .. Len(es) : es[k] # DISCONNECTED(s)
                \/ \E k \in 1 .. Len(es) : es[k] = CONNECTED(s, Me)
<1>1. box \in Seq(Message) /\ es \in Seq(Message) /\ Newborn
  BY DEF BulbInv, TypeOK, Message
<1>2. CASE phase = "starting"
  <2>1. box' = <<>> /\ handle' = None /\ handle = None
    BY <1>1, <1>2 DEF Publish, Newborn
  <2>2. \A s \in Slot : ~Keeps(handle', box', s)
    BY <2>1, NothingKept
  <2>3. box' \in Seq(LinkNews \cup {RECONCILE, UNPAIR})
    BY <2>1
  <2>4. QED
    BY <2>1, <2>2, <2>3 DEF Newborn
<1>3. CASE phase # "starting"
  <2>1. box' = box \o es
    BY <1>3 DEF Publish
  <2>2. box' \in Seq(LinkNews \cup {RECONCILE, UNPAIR})
    BY <1>1, <2>1 DEF Message
  <2>3. PICK b, h : b = box' /\ h = handle'
    OBVIOUS
  <2>4. ASSUME NEW s \in Slot, Keeps(h, b, s)
        PROVE  \/ Keeps(handle, box, s) /\ \A k \in 1 .. Len(es) : es[k] # DISCONNECTED(s)
               \/ \E k \in 1 .. Len(es) : es[k] = CONNECTED(s, Me)
    <3>1. Keeps(handle, box \o es, s)
      BY <2>1, <2>3, <2>4
    <3>2. QED
      BY <1>1, <3>1, AppendKeeps
  <2>5. Newborn'
    BY <1>3 DEF Newborn
  <2>6. QED
    BY <2>2, <2>3, <2>4, <2>5
<1>4. QED
  BY <1>2, <1>3

\* The first event leaves the queue while the view becomes d.
LEMMA PopStep ==
  ASSUME BulbInv, queue # <<>>, queue' = Tail(queue), UNCHANGED slot,
         ~lossy' => /\ ~lossy
                    /\ \A s \in Slot, p \in Peer :
                         conns'[s] = p =>
                           queue[1] = CONNECTED(s, p) \/ (conns[s] = p /\ ~Cut(queue, 1, s))
  PROVE  Ordered'
<1> SUFFICES ASSUME ~lossy' PROVE Closed(queue', conns', slot') /\ Apart(queue', conns')
  BY DEF Ordered
<1>1. queue \in Seq(Event) /\ Closed(queue, conns, slot) /\ Apart(queue, conns)
  BY DEF BulbInv, TypeOK, Event, Ordered
<1>2. PICK d : d = conns'
  OBVIOUS
<1>3. Closed(Tail(queue), d, slot) /\ Apart(Tail(queue), d)
  <2>1. \A s \in Slot, p \in Peer :
          d[s] = p => queue[1] = CONNECTED(s, p) \/ (conns[s] = p /\ ~Cut(queue, 1, s))
    BY <1>2
  <2>2. QED
    BY <1>1, <2>1, PopOrder
<1>4. QED
  BY <1>2, <1>3

\* The READY of a restart of the nRF: every known handle is taken back.
LEMMA RestartOK ==
  ASSUME BulbInv, HandleEvent, Head(queue) = READY, OnReady, ready
  PROVE  Ordered' /\ Recorded' /\ Own' /\ Newborn' /\ TypeOK'
<1>1. /\ queue # <<>> /\ queue' = Tail(queue)
      /\ UNCHANGED <<slot, enc, cmds, checking, phase, handle, connected, missed, bound>>
  BY DEF HandleEvent
<1> DEFINE known == {s \in Slot : conns[s] # None}
<1>2. PICK es : es = Disconnects(known)
  OBVIOUS
<1>3. /\ Publish(es) /\ conns' = NoLinks /\ encd' = {} /\ listing' = TRUE
      /\ UNCHANGED <<ready, lossy>>
  BY <1>2 DEF OnReady, Disconnects
<1>4. /\ es \in Seq(LinkNews)
      /\ \A k \in 1 .. Len(es) : \E s \in known : es[k] = DISCONNECTED(s)
      /\ \A s \in known : \E k \in 1 .. Len(es) : es[k] = DISCONNECTED(s)
  <2>1. known \in SUBSET Slot
    OBVIOUS
  <2> HIDE DEF known
  <2>2. QED
    BY <1>2, <2>1, DisconnectsFacts
<1>5. TypeOK /\ Recorded
  BY DEF BulbInv
<1>6. \A s \in Slot : conns'[s] = None
  BY <1>3 DEF NoLinks
<1>7. Ordered'
  BY <1>1, <1>3, <1>6, PopStep, HueBulbAssumption
<1>8. /\ box' \in Seq(LinkNews \cup {RECONCILE, UNPAIR}) /\ Newborn'
      /\ \A s \in Slot :
           Keeps(handle', box', s) =>
             \/ Keeps(handle, box, s) /\ \A k \in 1 .. Len(es) : es[k] # DISCONNECTED(s)
             \/ \E k \in 1 .. Len(es) : es[k] = CONNECTED(s, Me)
  BY <1>1, <1>3, <1>4, PublishFacts
<1>9. \A s \in Slot : ~Keeps(handle', box', s)
  <2> SUFFICES ASSUME NEW s \in Slot, Keeps(handle', box', s) PROVE FALSE
    OBVIOUS
  <2>1. \A k \in 1 .. Len(es) : es[k] # CONNECTED(s, Me)
    BY <1>4, NewsFacts, HueBulbAssumption
  <2>2. Keeps(handle, box, s) /\ \A k \in 1 .. Len(es) : es[k] # DISCONNECTED(s)
    BY <1>8, <2>1
  <2>3. s \in known
    BY <1>5, <2>2 DEF Recorded
  <2>4. QED
    BY <1>4, <2>2, <2>3
<1>10. Recorded' /\ Own'
  BY <1>9 DEF Recorded, Own
<1>11. /\ queue' \in Seq(LinkNews \cup {READY}) /\ Len(queue') <= QueueSize
  <2>1. queue \in Seq(LinkNews \cup {READY}) /\ Len(queue) <= QueueSize
    BY <1>5 DEF TypeOK
  <2>2. Tail(queue) \in Seq(LinkNews \cup {READY}) /\ Len(Tail(queue)) = Len(queue) - 1
        /\ Len(queue) \in Nat
    BY <1>1, <2>1, TailIndex
  <2>3. QED
    BY <1>1, <2>1, <2>2, HueBulbAssumption
<1>12. conns' \in [Slot -> Peer \cup {None}]
  BY <1>3 DEF NoLinks
<1>13. TypeOK'
  BY <1>1, <1>3, <1>5, <1>8, <1>11, <1>12 DEF TypeOK, bound
<1>14. QED
  BY <1>7, <1>8, <1>10, <1>13

\* The first READY of a driver: its view is empty, or may be of an earlier boot.
LEMMA FirstReadyOK ==
  ASSUME BulbInv, HandleEvent, Head(queue) = READY, OnReady, ~ready
  PROVE  Ordered' /\ Recorded' /\ Own' /\ Newborn' /\ TypeOK'
<1>1. /\ queue # <<>> /\ queue' = Tail(queue)
      /\ UNCHANGED <<slot, enc, cmds, checking, phase, handle, connected, missed, bound>>
  BY DEF HandleEvent
<1>2. /\ ready' = TRUE /\ lossy' = (lossy \/ conns # NoLinks)
      /\ UNCHANGED <<conns, encd, listing, box>>
  BY DEF OnReady
<1>3. TypeOK /\ Recorded /\ Newborn
  BY DEF BulbInv
<1>4. lossy' \in BOOLEAN /\ (~lossy' => ~lossy /\ conns = NoLinks)
  BY <1>2
<1>5. ~lossy' => \A s \in Slot : conns'[s] = None /\ conns[s] = None
  BY <1>2, <1>4 DEF NoLinks
<1>6. Ordered'
  BY <1>1, <1>4, <1>5, PopStep, HueBulbAssumption
<1>7. Recorded' /\ Newborn'
  BY <1>1, <1>2, <1>3 DEF Recorded, Newborn, Keeps, Holds
<1>8. Own'
  <2> SUFFICES ASSUME ~lossy', NEW s \in Slot, Keeps(handle, box, s) PROVE FALSE
    BY <1>1, <1>2 DEF Own, Keeps, Holds
  <2>1. conns[s] # None
    BY <1>3 DEF Recorded
  <2>2. QED
    BY <1>5, <2>1
<1>9. /\ queue' \in Seq(LinkNews \cup {READY}) /\ Len(queue') <= QueueSize
  <2>1. queue \in Seq(LinkNews \cup {READY}) /\ Len(queue) <= QueueSize
    BY <1>3 DEF TypeOK
  <2>2. Tail(queue) \in Seq(LinkNews \cup {READY}) /\ Len(Tail(queue)) = Len(queue) - 1
        /\ Len(queue) \in Nat
    BY <1>1, <2>1, TailIndex
  <2>3. QED
    BY <1>1, <2>1, <2>2, HueBulbAssumption
<1>10. TypeOK'
  BY <1>1, <1>2, <1>3, <1>4, <1>9 DEF TypeOK, bound
<1>11. QED
  BY <1>6, <1>7, <1>8, <1>10

\* Any other event is recorded and published.
LEMMA NewsReadOK ==
  ASSUME BulbInv, HandleEvent, Head(queue) # READY
  PROVE  Ordered' /\ Recorded' /\ Own' /\ Newborn' /\ TypeOK'
<1>1. /\ queue # <<>> /\ queue' = Tail(queue)
      /\ UNCHANGED <<slot, enc, cmds, checking, phase, handle, connected, missed, bound>>
  BY DEF HandleEvent
<1>2. PICK e : e = Head(queue)
  OBVIOUS
<1>3. /\ Publish(<<e>>)
      /\ conns' = CASE e[1] = "connected"    -> [conns EXCEPT ![e[2]] = e[3]]
                    [] e[1] = "disconnected" -> [conns EXCEPT ![e[2]] = None]
                    [] OTHER                 -> conns
      /\ encd' = IF e[1] = "enc" THEN encd \cup {e[2]} ELSE encd \ {e[2]}
      /\ UNCHANGED <<ready, lossy, listing>>
  BY <1>2 DEF HandleEvent
<1>4. TypeOK /\ Recorded /\ Own /\ queue \in Seq(Event)
  BY DEF BulbInv, TypeOK, Event
<1>5. conns \in [Slot -> Peer \cup {None}] /\ encd \subseteq Slot
  BY <1>4 DEF TypeOK
<1>6. /\ Tail(queue) \in Seq(Event) /\ Len(Tail(queue)) = Len(queue) - 1
      /\ Len(queue) \in Nat \ {0} /\ e \in Event /\ queue[1] = e
      /\ \A i \in 1 .. Len(queue) - 1 : Tail(queue)[i] = queue[i + 1]
  BY <1>1, <1>2, <1>4, TailIndex
<1>7. e \in LinkNews /\ e # READY
  BY <1>2, <1>6 DEF Event
<1>8. /\ e[1] = "connected" => e[2] \in Slot /\ e[3] \in Peer /\ e = CONNECTED(e[2], e[3])
      /\ e[1] = "enc" => e[2] \in Slot /\ e = ENC(e[2])
      /\ e[1] = "disconnected" => e[2] \in Slot /\ e = DISCONNECTED(e[2])
      /\ e[1] \in {"connected", "enc", "disconnected"}
  BY <1>7, NewsParts
\* What becomes of the record of each handle
<1>9. /\ conns' \in [Slot -> Peer \cup {None}]
      /\ \A s \in Slot :
           \/ conns'[s] = conns[s] /\ e # DISCONNECTED(s)
                /\ \A p \in Peer : e # CONNECTED(s, p)
           \/ conns'[s] \in Peer /\ e = CONNECTED(s, conns'[s])
           \/ conns'[s] = None /\ e = DISCONNECTED(s)
  <2>1. CASE e[1] = "connected"
    <3>1. PICK t \in Slot, r \in Peer : t = e[2] /\ r = e[3] /\ e = CONNECTED(t, r)
      BY <1>8, <2>1
    <3>2. conns' = [conns EXCEPT ![t] = r]
      BY <1>3, <2>1, <3>1
    <3>3. conns' \in [Slot -> Peer \cup {None}] /\ conns'[t] = r
          /\ \A s \in Slot : s # t => conns'[s] = conns[s]
      BY <1>5, <3>2
    <3>4. \A s \in Slot : s # t => e # DISCONNECTED(s) /\ \A p \in Peer : e # CONNECTED(s, p)
      BY <3>1, NewsFacts
    <3>5. QED
      BY <3>1, <3>3, <3>4
  <2>2. CASE e[1] = "disconnected"
    <3>1. PICK t \in Slot : t = e[2] /\ e = DISCONNECTED(t)
      BY <1>8, <2>2
    <3>2. conns' = [conns EXCEPT ![t] = None]
      BY <1>3, <2>2, <3>1
    <3>3. conns' \in [Slot -> Peer \cup {None}] /\ conns'[t] = None
          /\ \A s \in Slot : s # t => conns'[s] = conns[s]
      BY <1>5, <3>2
    <3>4. \A s \in Slot : s # t => e # DISCONNECTED(s) /\ \A p \in Peer : e # CONNECTED(s, p)
      BY <3>1, NewsFacts
    <3>5. QED
      BY <3>1, <3>3, <3>4
  <2>3. CASE e[1] = "enc"
    <3>1. PICK t \in Slot : e = ENC(t)
      BY <1>8, <2>3
    <3>2. conns' = conns
      BY <1>3, <2>3
    <3>3. \A s \in Slot : e # DISCONNECTED(s) /\ \A p \in Peer : e # CONNECTED(s, p)
      BY <3>1, NewsFacts, HueBulbAssumption
    <3>4. QED
      BY <1>5, <3>2, <3>3
  <2>4. QED
    BY <1>8, <2>1, <2>2, <2>3
<1>10. \A s \in Slot, p \in Peer :
         conns'[s] = p => queue[1] = CONNECTED(s, p) \/ (conns[s] = p /\ ~Cut(queue, 1, s))
  BY <1>6, <1>7, <1>9, HueBulbAssumption DEF Cut
<1>11. Ordered'
  BY <1>1, <1>3, <1>10, PopStep
<1>12. PICK es : es = <<e>>
  OBVIOUS
<1>13. es \in Seq(LinkNews) /\ Len(es) = 1 /\ es[1] = e
  BY <1>7, <1>12
<1>14. /\ box' \in Seq(LinkNews \cup {RECONCILE, UNPAIR}) /\ Newborn'
       /\ \A s \in Slot :
            Keeps(handle', box', s) =>
              \/ Keeps(handle, box, s) /\ \A k \in 1 .. Len(es) : es[k] # DISCONNECTED(s)
              \/ \E k \in 1 .. Len(es) : es[k] = CONNECTED(s, Me)
  BY <1>1, <1>3, <1>12, <1>13, PublishFacts
<1>15. \A s \in Slot :
         Keeps(handle', box', s) =>
           \/ Keeps(handle, box, s) /\ e # DISCONNECTED(s)
           \/ e = CONNECTED(s, Me)
  BY <1>13, <1>14
<1>16. \A s \in Slot : e = CONNECTED(s, Me) => conns'[s] = Me
  BY <1>9, NewsFacts, HueBulbAssumption
<1>17. Recorded'
  <2> SUFFICES ASSUME NEW s \in Slot, Keeps(handle', box', s) PROVE conns'[s] # None
    BY DEF Recorded
  <2>1. CASE e = CONNECTED(s, Me)
    BY <1>16, <2>1, HueBulbAssumption
  <2>2. CASE Keeps(handle, box, s) /\ e # DISCONNECTED(s)
    <3>1. conns[s] # None
      BY <1>4, <2>2 DEF Recorded
    <3>2. QED
      BY <1>9, <2>2, <3>1, HueBulbAssumption
  <2>3. QED
    BY <1>15, <2>1, <2>2
<1>18. Own'
  <2> SUFFICES ASSUME ~lossy, NEW s \in Slot, Keeps(handle', box', s)
               PROVE  conns'[s] = Me \/ READY \in ToSet(queue')
    BY <1>3 DEF Own
  <2>1. CASE e = CONNECTED(s, Me)
    BY <1>16, <2>1
  <2>2. CASE Keeps(handle, box, s) /\ e # DISCONNECTED(s)
    <3>1. conns[s] = Me \/ READY \in ToSet(queue)
      BY <1>4, <2>2 DEF Own
    <3>2. CASE READY \in ToSet(queue)
      <4>1. PICK i \in 1 .. Len(queue) : queue[i] = READY
        BY <1>4, <3>2 DEF ToSet
      <4>2. i # 1
        BY <1>6, <1>7, <4>1
      <4>3. i - 1 \in 1 .. Len(queue) - 1 /\ (i - 1) + 1 = i
        BY <1>6, <4>1, <4>2
      <4>4. Tail(queue)[i - 1] = READY /\ i - 1 \in DOMAIN Tail(queue)
        BY <1>6, <4>1, <4>3
      <4>5. QED
        BY <1>1, <4>4 DEF ToSet
    <3>3. CASE conns[s] = Me
      <4>1. ASSUME NEW p \in Peer, e = CONNECTED(s, p) PROVE p = Me
        <5>1. Apart(queue, conns)
          BY DEF BulbInv, Ordered
        <5>2. At(queue, conns, 0, s, Me) /\ At(queue, conns, 1, s, p)
          BY <1>6, <3>3, <4>1 DEF At
        <5>3. 0 \in 0 .. Len(queue) /\ 1 \in 0 .. Len(queue)
          BY <1>6
        <5>4. ~ \E j \in 0 + 1 .. 1 - 1 : Cut(queue, j, s)
          OBVIOUS
        <5>5. 0 < 1 /\ Me \in Peer
          BY HueBulbAssumption
        <5>6. QED
          BY <5>1, <5>2, <5>3, <5>4, <5>5 DEF Apart
      <4>2. QED
        BY <1>9, <2>2, <3>3, <4>1
    <3>4. QED
      BY <3>1, <3>2, <3>3
  <2>3. QED
    BY <1>15, <2>1, <2>2
<1>19. encd' \subseteq Slot
  BY <1>3, <1>5, <1>8
<1>20. /\ queue' \in Seq(LinkNews \cup {READY}) /\ Len(queue') <= QueueSize
  <2>1. Len(queue) <= QueueSize
    BY <1>4 DEF TypeOK
  <2>2. QED
    BY <1>1, <1>6, <2>1, HueBulbAssumption DEF Event
<1>21. TypeOK'
  BY <1>1, <1>3, <1>4, <1>9, <1>14, <1>19, <1>20 DEF TypeOK, bound
<1>22. QED
  BY <1>11, <1>14, <1>17, <1>18, <1>21

LEMMA HandleEventOK == ASSUME BulbInv, HandleEvent PROVE BulbInv'
<1>1. Head(queue) = READY => OnReady
  BY DEF HandleEvent
<1>2. QED
  BY <1>1, RestartOK, FirstReadyOK, NewsReadOK DEF BulbInv

\* A step that changes nothing of what the invariant is about, types apart
LEMMA AsBefore ==
  ASSUME BulbInv, UNCHANGED <<slot, queue, conns, phase, box, handle, lossy>>
  PROVE  Ordered' /\ Recorded' /\ Own' /\ Newborn'
<1>1. BulbInv
  OBVIOUS
<1>2. Ordered'
  BY DEF BulbInv, Ordered, Closed, Apart, At, Cut
<1>3. Recorded' /\ Own' /\ Newborn'
  BY DEF BulbInv, Recorded, Own, Newborn, Keeps, Holds, ToSet
<1>4. QED
  BY <1>2, <1>3

LEMMA CheckReadyOK == ASSUME BulbInv, CheckReady PROVE BulbInv'
<1>1. /\ checking' = FALSE /\ listing' = TRUE
      /\ UNCHANGED <<slot, enc, queue, cmds, ready, conns, encd, bulb, lossy, missed, bound>>
  BY DEF CheckReady
<1>2. UNCHANGED <<phase, box, handle, connected, links, troubles>>
  BY <1>1 DEF bulb, bound
<1>3. TypeOK'
  BY <1>1, <1>2 DEF BulbInv, TypeOK
<1>4. QED
  BY <1>1, <1>2, <1>3, AsBefore DEF BulbInv

-----------------------------------------------------------------------------
(* Steps of the bulb                                                        *)

\* The driver, the queue and the table are as before, and the bulb keeps no handle
\* that it did not keep.
LEMMA BulbStep ==
  ASSUME BulbInv, UNCHANGED <<slot, queue, conns, lossy>>,
         \A s \in Slot :
           Keeps(handle', box', s) => Keeps(handle, box, s) \/ conns[s] = Me
  PROVE  Ordered' /\ Recorded' /\ Own'
<1>1. Ordered'
  BY DEF BulbInv, Ordered, Closed, Apart, At, Cut
<1>2. Recorded'
  <2> SUFFICES ASSUME NEW s \in Slot, Keeps(handle', box', s) PROVE conns[s] # None
    BY DEF Recorded
  <2>1. Keeps(handle, box, s) \/ conns[s] = Me
    OBVIOUS
  <2>2. QED
    BY <2>1, HueBulbAssumption DEF BulbInv, Recorded
<1>3. Own'
  <2> SUFFICES ASSUME ~lossy, NEW s \in Slot, Keeps(handle', box', s)
               PROVE  conns[s] = Me \/ READY \in ToSet(queue)
    BY DEF Own
  <2>1. Keeps(handle, box, s) \/ conns[s] = Me
    OBVIOUS
  <2>2. QED
    BY <2>1 DEF BulbInv, Own
<1>4. QED
  BY <1>1, <1>2, <1>3

LEMMA SubscribeOK == ASSUME BulbInv, Subscribe PROVE BulbInv'
<1>1. /\ phase' = "init"
      /\ UNCHANGED <<nrf, driver, box, handle, connected, lossy, missed, bound>>
  BY DEF Subscribe
<1>2. UNCHANGED <<slot, enc, queue, listing, cmds, ready, checking, conns, encd, links, troubles>>
  BY <1>1 DEF nrf, driver, bound
<1>3. \A s \in Slot : Keeps(handle', box', s) => Keeps(handle, box, s)
  BY <1>1
<1>4. Ordered' /\ Recorded' /\ Own'
  BY <1>1, <1>2, <1>3, BulbStep
<1>5. TypeOK'
  BY <1>1, <1>2 DEF BulbInv, TypeOK
<1>6. QED
  BY <1>1, <1>4, <1>5 DEF BulbInv, Newborn

LEMMA InitEndsOK == ASSUME BulbInv, InitEnds PROVE BulbInv'
<1>1. /\ phase' = "idle"
      /\ UNCHANGED <<nrf, driver, handle, connected, lossy, missed, bound>>
  BY DEF InitEnds
<1>2. UNCHANGED <<slot, enc, queue, listing, cmds, ready, checking, conns, encd, links, troubles>>
  BY <1>1 DEF nrf, driver, bound
<1>3. PICK k \in 1 .. Len(box) + 1 : box' = InsertAt(box, k, RECONCILE)
  BY DEF InitEnds
<1>4. box \in Seq(Message) /\ RECONCILE \in Message
  BY DEF BulbInv, TypeOK, Message
<1>5. PICK b : b = box'
  OBVIOUS
<1>6. \A s \in Slot : Keeps(handle, b, s) => Keeps(handle, box, s)
  BY <1>3, <1>4, <1>5, InsertKeeps
<1>7. \A s \in Slot : Keeps(handle', box', s) => Keeps(handle, box, s)
  BY <1>1, <1>5, <1>6
<1>8. Ordered' /\ Recorded' /\ Own'
  BY <1>1, <1>2, <1>7, BulbStep
<1>9. box' \in Seq(Message)
  BY <1>3, <1>4, InsertIndex
<1>10. TypeOK'
  BY <1>1, <1>2, <1>9 DEF BulbInv, TypeOK, Message
<1>11. QED
  BY <1>1, <1>8, <1>10 DEF BulbInv, Newborn

LEMMA UnpairOK == ASSUME BulbInv, Unpair PROVE BulbInv'
<1>1. /\ box' = Append(box, UNPAIR) /\ phase # "starting" /\ Trouble
      /\ UNCHANGED <<nrf, driver, phase, handle, connected, lossy, missed, links>>
  BY DEF Unpair
<1>2. UNCHANGED <<slot, enc, queue, listing, cmds, ready, checking, conns, encd>>
  BY <1>1 DEF nrf, driver
<1>3. PICK es : es = <<UNPAIR>>
  OBVIOUS
<1>4. box \in Seq(Message) /\ UNPAIR \in Message
  BY DEF BulbInv, TypeOK, Message
<1>5. /\ es \in Seq(Message) /\ Len(es) = 1 /\ es[1] = UNPAIR /\ box' = box \o es
      /\ box' \in Seq(Message)
  BY <1>1, <1>3, <1>4
<1>6. \A s \in Slot : UNPAIR # CONNECTED(s, Me)
  BY NewsFacts, OtherFacts, HueBulbAssumption
<1>7. PICK b : b = box'
  OBVIOUS
<1>8. ASSUME NEW s \in Slot, Keeps(handle, b, s) PROVE Keeps(handle, box, s)
  <2>1. Keeps(handle, box \o es, s)
    BY <1>5, <1>7, <1>8
  <2>2. \A k \in 1 .. Len(es) : es[k] # CONNECTED(s, Me)
    BY <1>5, <1>6
  <2>3. QED
    BY <1>4, <1>5, <2>1, <2>2, AppendKeeps
<1>9. \A s \in Slot : Keeps(handle', box', s) => Keeps(handle, box, s)
  BY <1>1, <1>7, <1>8
<1>10. Ordered' /\ Recorded' /\ Own'
  BY <1>1, <1>2, <1>9, BulbStep
<1>11. troubles' \in Nat
  BY <1>1 DEF Trouble, BulbInv, TypeOK
<1>12. TypeOK'
  BY <1>1, <1>2, <1>5, <1>11 DEF BulbInv, TypeOK, Message
<1>13. QED
  BY <1>1, <1>10, <1>12 DEF BulbInv, Newborn

LEMMA BulbCrashOK == ASSUME BulbInv, BulbCrash PROVE BulbInv'
<1>1. /\ Trouble /\ phase' = "starting" /\ box' = <<>>
      /\ handle' = None /\ connected' = FALSE /\ missed' = FALSE
      /\ UNCHANGED <<slot, enc, queue, listing, driver, lossy, links>>
  BY DEF BulbCrash, Starts
<1>2. UNCHANGED <<ready, checking, conns, encd>>
  BY <1>1 DEF driver
<1>3. \A s \in Slot : ~Keeps(handle', box', s)
  BY <1>1, NothingKept
<1>4. Ordered' /\ Recorded' /\ Own'
  BY <1>1, <1>2, <1>3, BulbStep
<1> DEFINE Cmd == {<<"disconnect", s>> : s \in Slot} \cup {<<"unpair", Me>>}
<1>5. cmds' \in Seq(Cmd)
  <2>1. cmds \in Seq(Cmd) /\ handle \in Slot \cup {None}
    BY DEF BulbInv, TypeOK
  <2>2. CASE handle # None /\ cmds' = Append(cmds, <<"disconnect", handle>>)
    <3>1. <<"disconnect", handle>> \in Cmd
      BY <2>1, <2>2
    <3> HIDE DEF Cmd
    <3>2. QED
      BY <2>1, <2>2, <3>1
  <2>3. QED
    BY <2>1, <2>2 DEF BulbCrash
<1>6. troubles' \in Nat
  BY <1>1 DEF Trouble, BulbInv, TypeOK
<1>7. box' \in Seq(LinkNews \cup {RECONCILE, UNPAIR})
  BY <1>1
<1>8. TypeOK'
  BY <1>1, <1>2, <1>5, <1>6, <1>7 DEF BulbInv, TypeOK
<1>9. QED
  BY <1>1, <1>4, <1>8 DEF BulbInv, Newborn

LEMMA EspRestartOK == ASSUME BulbInv, EspRestart PROVE BulbInv'
<1>1. /\ Trouble /\ phase' = "starting" /\ box' = <<>>
      /\ handle' = None /\ connected' = FALSE /\ missed' = FALSE
      /\ ready' = FALSE /\ checking' = TRUE /\ conns' = NoLinks /\ encd' = {}
      /\ lossy' = (lossy \/ (slot # NoLinks /\ READY \notin ToSet(queue)))
      /\ UNCHANGED <<nrf, links>>
  BY DEF EspRestart, Starts
<1>2. UNCHANGED <<slot, enc, queue, listing, cmds>>
  BY <1>1 DEF nrf
<1>3. \A s \in Slot : ~Keeps(handle', box', s)
  BY <1>1, NothingKept
<1>4. Recorded' /\ Own' /\ Newborn'
  BY <1>1, <1>3 DEF Recorded, Own, Newborn
<1>5. Ordered'
  <2> SUFFICES ASSUME ~lossy' PROVE Closed(queue, NoLinks, slot) /\ Apart(queue, NoLinks)
    BY <1>1, <1>2 DEF Ordered
  <2>1. Closed(queue, conns, slot) /\ Apart(queue, conns)
    BY <1>1 DEF BulbInv, Ordered
  <2>2. \A i \in 0 .. Len(queue), s \in Slot, p \in Peer :
          At(queue, NoLinks, i, s, p) => At(queue, conns, i, s, p)
    BY HueBulbAssumption DEF At, NoLinks
  <2>3. QED
    BY <2>1, <2>2 DEF Closed, Apart
<1>6. troubles' \in Nat
  BY <1>1 DEF Trouble, BulbInv, TypeOK
<1>7. NoLinks \in [Slot -> Peer \cup {None}]
  BY DEF NoLinks
<1>8. box' \in Seq(LinkNews \cup {RECONCILE, UNPAIR})
  BY <1>1
<1>9. lossy' \in BOOLEAN
  BY <1>1
<1>10. TypeOK'
  BY <1>1, <1>2, <1>6, <1>7, <1>8, <1>9 DEF BulbInv, TypeOK
<1>11. QED
  BY <1>4, <1>5, <1>10 DEF BulbInv

\* handle_call(unpair): the commands
LEMMA OnUnpairTypes ==
  ASSUME TypeOK, OnUnpair
  PROVE  cmds' \in Seq({<<"disconnect", s>> : s \in Slot} \cup {<<"unpair", Me>>})
<1>1. PICK Cmd, u, d :
        /\ Cmd = {<<"disconnect", s>> : s \in Slot} \cup {<<"unpair", Me>>}
        /\ u = <<"unpair", Me>> /\ d = <<"disconnect", handle>>
  OBVIOUS
<1>2. cmds \in Seq(Cmd) /\ u \in Cmd /\ (handle # None => d \in Cmd)
  BY <1>1 DEF TypeOK
<1>3. CASE cmds' = Append(cmds, u)
  <2>1. Append(cmds, u) \in Seq(Cmd)
    BY <1>2
  <2>2. QED
    BY <1>1, <1>3, <2>1
<1>4. CASE handle # None /\ \E first \in {<<>>, <<d>>} : cmds' = cmds \o first \o <<u>>
  <2>1. PICK first \in {<<>>, <<d>>} : cmds' = cmds \o first \o <<u>>
    BY <1>4
  <2>2. first \in Seq(Cmd)
    <3>1. <<>> \in Seq(Cmd)
      OBVIOUS
    <3>2. <<d>> \in Seq(Cmd)
      BY <1>2, <1>4
    <3>3. QED
      BY <2>1, <3>1, <3>2
  <2>3. <<u>> \in Seq(Cmd)
    BY <1>2
  <2>4. (cmds \o first) \o <<u>> \in Seq(Cmd)
    BY <1>2, <2>2, <2>3
  <2>5. QED
    BY <1>1, <2>1, <2>4
<1>5. QED
  BY <1>1, <1>3, <1>4 DEF OnUnpair

\* The handle a bulb has after a message: the one announced, the one it had, or the
\* one the driver knows.
LEMMA HandleAfter ==
  ASSUME BulbInv, BulbHandle
  PROVE  /\ handle' \in Slot \cup {None} /\ connected' \in BOOLEAN
         /\ \A s \in Slot :
              handle' = s => \/ Head(box) = CONNECTED(s, Me)
                             \/ handle = s /\ Head(box) # DISCONNECTED(s)
                             \/ conns[s] = Me
<1>1. PICK m : m = Head(box)
  OBVIOUS
<1>2. box \in Seq(Message) /\ box # <<>> /\ TypeOK
  BY DEF BulbInv, TypeOK, Message, BulbHandle
<1>3. m \in LinkNews \cup {RECONCILE, UNPAIR}
  BY <1>1, <1>2, TailIndex DEF Message
<1>4. handle \in Slot \cup {None} /\ None \notin Slot
  BY <1>2, HueBulbAssumption DEF TypeOK, Slot
<1>5. /\ m[1] = "connected" => m[2] \in Slot /\ m[3] \in Peer /\ m = CONNECTED(m[2], m[3])
      /\ m[1] = "enc" => m[2] \in Slot /\ m = ENC(m[2])
      /\ m[1] = "disconnected" => m[2] \in Slot /\ m = DISCONNECTED(m[2])
  BY <1>3, NewsParts
<1>6. \A s \in Slot : RECONCILE # DISCONNECTED(s) /\ UNPAIR # DISCONNECTED(s)
  BY NewsFacts, OtherFacts
<1> DEFINE Goal == /\ handle' \in Slot \cup {None}
                   /\ \A s \in Slot :
                        handle' = s => \/ m = CONNECTED(s, Me)
                                       \/ handle = s /\ m # DISCONNECTED(s)
                                       \/ conns[s] = Me
<1>7. ASSUME m[1] = "connected" /\ OnConnected(m[2], m[3]) PROVE Goal
  <2>1. PICK t \in Slot, r \in Peer : t = m[2] /\ r = m[3] /\ m = CONNECTED(t, r)
    BY <1>5, <1>7
  <2>2. \A s \in Slot : m # DISCONNECTED(s)
    BY <2>1, NewsFacts
  <2>3. CASE r = Me
    <3>1. handle' = t
      BY <1>7, <2>1, <2>3 DEF OnConnected, Noted
    <3>2. QED
      BY <2>1, <2>3, <3>1
  <2>4. CASE r # Me
    <3>1. handle' = handle
      BY <1>7, <2>1, <2>4 DEF OnConnected, Ignored
    <3>2. QED
      BY <1>4, <2>2, <3>1
  <2>5. QED
    BY <2>3, <2>4
<1>8. ASSUME m[1] = "enc" /\ OnEncChange(m[2]) PROVE Goal
  <2>1. PICK t \in Slot : t = m[2] /\ m = ENC(t)
    BY <1>5, <1>8
  <2>2. \A s \in Slot : m # DISCONNECTED(s)
    BY <2>1, NewsFacts, HueBulbAssumption
  <2>3. handle' = handle
    BY <1>8, <2>1 DEF OnEncChange, Ready, Ignored
  <2>4. QED
    BY <1>4, <2>2, <2>3
<1>9. ASSUME m[1] = "disconnected" /\ OnDisconnected(m[2]) PROVE Goal
  <2>1. PICK t \in Slot : t = m[2] /\ m = DISCONNECTED(t)
    BY <1>5, <1>9
  <2>2. CASE t = handle
    <3>1. handle' = None
      BY <1>9, <2>1, <2>2 DEF OnDisconnected, Noted
    <3>2. QED
      BY <1>4, <3>1
  <2>3. CASE t # handle
    <3>1. handle' = handle
      BY <1>9, <2>1, <2>3 DEF OnDisconnected, Ignored
    <3>2. \A s \in Slot : handle = s => m # DISCONNECTED(s)
      BY <2>1, <2>3, NewsFacts
    <3>3. QED
      BY <1>4, <3>1, <3>2
  <2>4. QED
    BY <2>2, <2>3
<1>10. ASSUME m = RECONCILE /\ OnReconcile PROVE Goal
  <2>1. CASE handle' = handle
    BY <1>4, <1>6, <1>10, <2>1
  <2>2. CASE \E s \in Slot : conns[s] = Me /\ handle' = s
    BY <2>2
  <2>3. QED
    BY <1>10, <2>1, <2>2 DEF OnReconcile, Ready, Noted, Ignored
<1>11. ASSUME m = UNPAIR /\ OnUnpair PROVE Goal
  <2>1. handle' = None
    BY <1>11 DEF OnUnpair, Noted
  <2>2. QED
    BY <1>4, <2>1
<1>12. connected' \in BOOLEAN
  <2>1. connected \in BOOLEAN
    BY <1>2 DEF TypeOK
  <2>2. UNCHANGED connected \/ connected' = TRUE \/ connected' = FALSE
    BY DEF BulbHandle, OnConnected, OnEncChange, OnDisconnected, OnReconcile, OnUnpair,
           Ready, Noted, Ignored
  <2>3. QED
    BY <2>1, <2>2
<1>13. Goal
  BY <1>1, <1>7, <1>8, <1>9, <1>10, <1>11 DEF BulbHandle
<1>14. QED
  BY <1>1, <1>12, <1>13

LEMMA BulbHandleOK == ASSUME BulbInv, BulbHandle PROVE BulbInv'
<1>1. /\ phase = "idle" /\ box # <<>> /\ box' = Tail(box)
      /\ UNCHANGED <<slot, enc, queue, listing, driver, phase, lossy, links>>
  BY DEF BulbHandle
<1>2. UNCHANGED <<ready, checking, conns, encd>>
  BY <1>1 DEF driver
<1>3. TypeOK /\ box \in Seq(Message)
  BY DEF BulbInv, TypeOK, Message
<1>4. box' \in Seq(Message) /\ Head(box) = box[1]
  BY <1>1, <1>3, TailIndex
<1>5. PICK g : g = handle'
  OBVIOUS
<1>6. /\ handle' \in Slot \cup {None} /\ connected' \in BOOLEAN
      /\ \A s \in Slot :
           g = s => \/ box[1] = CONNECTED(s, Me)
                    \/ handle = s /\ box[1] # DISCONNECTED(s)
                    \/ conns[s] = Me
  BY <1>4, <1>5, HandleAfter
<1>7. ASSUME NEW s \in Slot, Keeps(g, Tail(box), s), conns[s] # Me
      PROVE  Keeps(handle, box, s)
  <2>1. g = s => box[1] = CONNECTED(s, Me) \/ (handle = s /\ box[1] # DISCONNECTED(s))
    BY <1>6, <1>7
  <2>2. QED
    BY <1>1, <1>3, <1>7, <2>1, PopKeeps
<1>8. \A s \in Slot : Keeps(handle', box', s) => Keeps(handle, box, s) \/ conns[s] = Me
  BY <1>1, <1>5, <1>7
<1>9. Ordered' /\ Recorded' /\ Own'
  BY <1>1, <1>2, <1>8, BulbStep
<1>10. cmds' \in Seq({<<"disconnect", s>> : s \in Slot} \cup {<<"unpair", Me>>})
  <2>1. cmds' = cmds \/ OnUnpair
    BY DEF BulbHandle
  <2>2. QED
    BY <1>3, <2>1, OnUnpairTypes DEF TypeOK
<1>11. missed' \in BOOLEAN /\ troubles' \in Nat
  <2>1. missed \in BOOLEAN /\ troubles \in Nat
    BY <1>3 DEF TypeOK
  <2>2. troubles' = troubles \/ troubles' = troubles + 1
    BY DEF BulbHandle, OnReconcile, Trouble
  <2>3. missed' = TRUE \/ missed' = missed \/ missed' = (missed /\ Head(box)[3] # Me)
    BY DEF BulbHandle, OnReconcile, OnUnpair
  <2>4. missed' \in BOOLEAN
    BY <2>1, <2>3
  <2>5. QED
    BY <2>1, <2>2, <2>4
<1>12. TypeOK'
  BY <1>1, <1>2, <1>3, <1>4, <1>6, <1>10, <1>11 DEF TypeOK, Message
<1>13. QED
  BY <1>1, <1>9, <1>12 DEF BulbInv, Newborn

-----------------------------------------------------------------------------

LEMMA NextOK == ASSUME BulbInv, [Next]_vars PROVE BulbInv'
<1>1. CASE UNCHANGED vars
  BY <1>1, AsBefore DEF vars, nrf, driver, bulb, bound, BulbInv, TypeOK
<1>2. CASE Nrf
  BY <1>2, LinkUpOK, EncryptedOK, LinkDownOK, ReportConnectionsOK, CmdExecOK, ResetOK DEF Nrf
<1>3. CASE Driver
  BY <1>3, HandleEventOK, CheckReadyOK DEF Driver
<1>4. CASE Bulb
  BY <1>4, SubscribeOK, InitEndsOK, BulbHandleOK DEF Bulb
<1>5. QED
  BY <1>1, <1>2, <1>3, <1>4, UnpairOK, BulbCrashOK, EspRestartOK DEF Next

LEMMA Invariant == Spec => []BulbInv
<1>1. Init => BulbInv
  BY InitOK
<1>2. BulbInv /\ [Next]_vars => BulbInv'
  BY NextOK
<1>3. QED
  BY <1>1, <1>2, PTL DEF Spec

\* Every step of the three parties keeps the types of the tables, queues and
\* mailboxes, and the event queue within EVENT_QUEUE_SIZE.
THEOREM TypesCorrect == Spec => []TypeOK
<1>1. BulbInv => TypeOK
  BY DEF BulbInv
<1>2. QED
  BY <1>1, Invariant, PTL

\* A bulb process whose handle is another link's, or nobody's, has the end of its own
\* link before it: a DISCONNECTED between disconnected_cb and the handle_info of
\* myhome_hue_ble.erl, or the READY of a reset.  Only an event that the full queue
\* refused, or a view older than the last boot, can leave it without.
THEOREM NoticeTheorem == Spec => []StaleHandleNoticed
<1>1. BulbInv => StaleHandleNoticed
  <2> SUFFICES ASSUME BulbInv, handle # None, slot[handle] # Me, ~lossy
               PROVE  NoticeOf(handle)
    BY DEF StaleHandleNoticed
  <2>1. PICK s \in Slot : s = handle
    BY DEF BulbInv, TypeOK
  <2>2. box \in Seq(Message) /\ queue \in Seq(Event)
    BY DEF BulbInv, TypeOK, Message, Event
  <2>3. CASE Keeps(handle, box, s)
    <3>1. conns[s] = Me \/ READY \in ToSet(queue)
      BY <2>3 DEF BulbInv, Own
    <3>2. CASE conns[s] = Me
      <4>1. Closed(queue, conns, slot)
        BY DEF BulbInv, Ordered
      <4>2. 0 \in 0 .. Len(queue) /\ Me \in Peer /\ At(queue, conns, 0, s, Me)
        BY <2>2, <3>2, HueBulbAssumption DEF At
      <4>3. PICK j \in 0 + 1 .. Len(queue) : Cut(queue, j, s)
        BY <2>1, <4>1, <4>2 DEF Closed
      <4>4. j \in DOMAIN queue
        BY <2>2, <4>3
      <4>5. QED
        BY <2>1, <4>3, <4>4 DEF Cut, NoticeOf, ToSet
    <3>3. QED
      BY <3>1, <3>2 DEF NoticeOf
  <2>4. CASE ~Keeps(handle, box, s)
    <3>1. 0 \in 0 .. Len(box) /\ Holds(handle, box, 0, s)
      BY <2>1, <2>2 DEF Holds
    <3>2. PICK j \in 0 + 1 .. Len(box) : box[j] = DISCONNECTED(s)
      BY <2>4, <3>1 DEF Keeps
    <3>3. j \in DOMAIN box
      BY <2>2, <3>2
    <3>4. QED
      BY <2>1, <3>2, <3>3 DEF NoticeOf, ToSet
  <2>5. QED
    BY <2>3, <2>4
<1>2. QED
  BY <1>1, Invariant, PTL

-----------------------------------------------------------------------------
(* What the bulb knows in the end                                           *)

\* Event e decides who has handle s.
Moves(e, s) == e \in {READY, DISCONNECTED(s)} \cup {CONNECTED(s, p) : p \in Peer}

\* At index i of q, or at 0 on the record c, handle s becomes v's, or nobody's.
Gives(q, c, i, s, v) ==
  IF i = 0 THEN c[s] = v ELSE IF v = None THEN Cut(q, i, s) ELSE q[i] = CONNECTED(s, v)

\* The last word on handle s, in q or else on the records c and d of links and of encrypted
\* ones, is what f and g say of it.
Leads(q, c, d, f, g, s) ==
  \E i \in 0 .. Len(q) :
    /\ Gives(q, c, i, s, f[s])
    /\ \A j \in i + 1 .. Len(q) : ~Moves(q[j], s)
    /\ f[s] # None =>
         (s \in g <=> (i = 0 /\ s \in d) \/ \E j \in i + 1 .. Len(q) : q[j] = ENC(s))

\* The bulb is given one handle at a time.
Single(q, c) ==
  \A s, t \in Slot, i, k \in 0 .. Len(q) :
    i < k /\ At(q, c, i, s, Me) /\ At(q, c, k, t, Me) /\ s # t =>
      \E j \in i + 1 .. k - 1 : Cut(q, j, s)

\* It has one at most in the table or view f.
OneLink(f) == \A s, t \in Slot : f[s] = Me /\ f[t] = Me => s = t

\* No event was lost since the last READY, which the driver has handled.
Clean == ~lossy /\ \A i \in 1 .. Len(queue) : queue[i] # READY

QueueInv ==
  /\ \A i \in 2 .. Len(queue) : queue[i] # READY
  /\ OneLink(slot) /\ \A s \in enc : slot[s] # None
  /\ ~lossy =>
       Single(queue, conns) /\ \A s \in Slot : Leads(queue, conns, encd, slot, enc, s)
  /\ Clean => OneLink(conns)

\* A message that gives the bulb a handle
Adopts(m) == m \in {CONNECTED(t, Me) : t \in Slot}

\* In mailbox b the last word on the bulb's link, if there is one, is handle s.
Told(b, s) ==
  \A k \in 1 .. Len(b) :
    b[k] = DISCONNECTED(s) \/ Adopts(b[k]) =>
      \E i \in k .. Len(b) :
        b[i] = CONNECTED(s, Me) /\ \A j \in i + 1 .. Len(b) : b[j] # DISCONNECTED(s)

\* An encryption that the driver does not know of, or not any more, is that of an older
\* link: a newer one comes behind it.
Outdated(b, d, s) ==
  \A k \in 1 .. Len(b) :
    b[k] = ENC(s) /\ s \notin d => \E i \in k + 1 .. Len(b) : Adopts(b[i])

\* A bulb that has taken handle s, or will at index i and for good, ends up with the
\* driver's view of its encryption.
Judged(h, z, b, d, s) ==
  \A i \in 0 .. Len(b) :
    Holds(h, b, i, s) /\ (\A j \in i + 1 .. Len(b) : b[j] # DISCONNECTED(s) /\ ~Adopts(b[j])) =>
      (s \in d <=> (i = 0 /\ z) \/ \E j \in i + 1 .. Len(b) : b[j] = ENC(s))

\* A bulb that nothing will tell of its handle has it.
Reached(h, b, s) ==
  (\A j \in 1 .. Len(b) : b[j] # RECONCILE /\ b[j] # UNPAIR /\ ~Adopts(b[j])) => h = s

\* What the bulb can know of its link, handle s
Knows(h, z, b, d, s) == Told(b, s) /\ Outdated(b, d, s) /\ Judged(h, z, b, d, s)

Informed(s) ==
  /\ Knows(handle, connected, box, encd, s)
  /\ phase = "idle" /\ ~missed => Reached(handle, box, s)

MailInv ==
  /\ handle = None => ~connected
  /\ Clean => \A s \in Slot : conns[s] = Me => Informed(s)

LEMMA MoveFacts ==
  /\ \A s \in Slot : Moves(READY, s)
  /\ \A s, t \in Slot, p \in Peer : Moves(CONNECTED(t, p), s) <=> s = t
  /\ \A s, t \in Slot : Moves(DISCONNECTED(t), s) <=> s = t
  /\ \A s, t \in Slot : ~Moves(ENC(t), s) /\ (ENC(s) = ENC(t) => s = t)
  /\ \A s \in Slot, p \in Peer : ~Adopts(ENC(s)) /\ ~Adopts(DISCONNECTED(s))
                                   /\ (Adopts(CONNECTED(s, p)) <=> p = Me)
  /\ ~Adopts(RECONCILE) /\ ~Adopts(UNPAIR)
<1>1. \A s \in Slot : Moves(READY, s)
  BY DEF Moves
<1>2. \A s, t \in Slot, p \in Peer : Moves(CONNECTED(t, p), s) <=> s = t
  BY NewsFacts, OtherFacts DEF Moves
<1>3. \A s, t \in Slot : Moves(DISCONNECTED(t), s) <=> s = t
  BY NewsFacts, OtherFacts DEF Moves
<1>4. \A s, t \in Slot : ENC(s) = ENC(t) => s = t
  BY DEF ENC
<1>5. \A s, t \in Slot : ~Moves(ENC(t), s)
  BY NewsFacts, OtherFacts, HueBulbAssumption DEF Moves
<1>6. \A s \in Slot, p \in Peer : ~Adopts(ENC(s)) /\ ~Adopts(DISCONNECTED(s))
                                    /\ (Adopts(CONNECTED(s, p)) <=> p = Me)
  BY NewsFacts, HueBulbAssumption DEF Adopts
<1>7. ~Adopts(RECONCILE) /\ ~Adopts(UNPAIR)
  BY NewsFacts, OtherFacts, HueBulbAssumption DEF Adopts
<1>8. QED
  BY <1>1, <1>2, <1>3, <1>4, <1>5, <1>6, <1>7

-----------------------------------------------------------------------------
(* The last word in a queue                                                 *)

\* What leads from a record to a table, and from there to the next, leads to that.
LEMMA LeadsOn ==
  ASSUME NEW q \in Seq(Event), NEW es \in Seq(Event), NEW c, NEW d, NEW f, NEW g, NEW f1, NEW g1,
         NEW s \in Slot, Leads(q, c, d, f, g, s), Leads(es, f, g, f1, g1, s)
  PROVE  Leads(q \o es, c, d, f1, g1, s)
<1> DEFINE t == q \o es
<1>1. /\ Len(q) \in Nat /\ Len(es) \in Nat /\ Len(t) = Len(q) + Len(es)
      /\ \A i \in 1 .. Len(q) : t[i] = q[i]
      /\ \A i \in 1 .. Len(es) : t[Len(q) + i] = es[i]
  BY ConcatIndex
<1> HIDE DEF t
<1>2. PICK i \in 0 .. Len(q) :
        /\ Gives(q, c, i, s, f[s])
        /\ \A j \in i + 1 .. Len(q) : ~Moves(q[j], s)
        /\ f[s] # None => (s \in g <=> (i = 0 /\ s \in d) \/ \E j \in i + 1 .. Len(q) : q[j] = ENC(s))
  BY DEF Leads
<1>3. PICK k \in 0 .. Len(es) :
        /\ Gives(es, f, k, s, f1[s])
        /\ \A j \in k + 1 .. Len(es) : ~Moves(es[j], s)
        /\ f1[s] # None =>
             (s \in g1 <=> (k = 0 /\ s \in g) \/ \E j \in k + 1 .. Len(es) : es[j] = ENC(s))
  BY DEF Leads
<1>4. CASE k = 0
  <2>1. f[s] = f1[s]
    BY <1>3, <1>4 DEF Gives
  <2>2. i \in 0 .. Len(t)
    BY <1>1, <1>2
  <2>3. Gives(t, c, i, s, f1[s])
    BY <1>1, <1>2, <2>1 DEF Gives, Cut
  <2>4. ASSUME NEW j \in i + 1 .. Len(t) PROVE ~Moves(t[j], s)
    <3>1. CASE j <= Len(q)
      <4>1. j \in i + 1 .. Len(q) /\ j \in 1 .. Len(q)
        BY <1>1, <1>2, <3>1
      <4>2. QED
        BY <1>1, <1>2, <4>1
    <3>2. CASE j > Len(q)
      <4>1. PICK l \in 1 .. Len(es) : j = Len(q) + l
        <5>1. j - Len(q) \in 1 .. Len(es) /\ j = Len(q) + (j - Len(q))
          BY <1>1, <1>2, <3>2
        <5>2. QED
          BY <5>1
      <4>2. t[j] = es[l]
        BY <1>1, <4>1
      <4>3. l \in k + 1 .. Len(es)
        BY <1>1, <1>4
      <4>4. QED
        BY <1>3, <4>2, <4>3
    <3>3. QED
      BY <1>1, <1>2, <3>1, <3>2
  <2>5. (\E j \in i + 1 .. Len(t) : t[j] = ENC(s))
          <=> (\E j \in i + 1 .. Len(q) : q[j] = ENC(s)) \/ \E l \in 1 .. Len(es) : es[l] = ENC(s)
    <3>1. ASSUME NEW j \in i + 1 .. Len(t), t[j] = ENC(s)
          PROVE  (\E m \in i + 1 .. Len(q) : q[m] = ENC(s)) \/ \E l \in 1 .. Len(es) : es[l] = ENC(s)
      <4>1. CASE j <= Len(q)
        <5>1. j \in i + 1 .. Len(q) /\ j \in 1 .. Len(q)
          BY <1>1, <1>2, <4>1
        <5>2. QED
          BY <1>1, <3>1, <5>1
      <4>2. CASE j > Len(q)
        <5>1. j - Len(q) \in 1 .. Len(es) /\ j = Len(q) + (j - Len(q))
          BY <1>1, <1>2, <4>2
        <5>2. QED
          BY <1>1, <3>1, <5>1
      <4>3. QED
        BY <1>1, <1>2, <4>1, <4>2
    <3>2. ASSUME NEW j \in i + 1 .. Len(q), q[j] = ENC(s) PROVE \E m \in i + 1 .. Len(t) : t[m] = ENC(s)
      <4>1. j \in i + 1 .. Len(t) /\ j \in 1 .. Len(q)
        BY <1>1, <1>2
      <4>2. QED
        BY <1>1, <3>2, <4>1
    <3>3. ASSUME NEW l \in 1 .. Len(es), es[l] = ENC(s) PROVE \E m \in i + 1 .. Len(t) : t[m] = ENC(s)
      <4>1. Len(q) + l \in i + 1 .. Len(t)
        BY <1>1, <1>2
      <4>2. QED
        BY <1>1, <3>3, <4>1
    <3>4. QED
      BY <3>1, <3>2, <3>3
  <2>6. f1[s] # None =>
          (s \in g1 <=> (i = 0 /\ s \in d) \/ \E j \in i + 1 .. Len(t) : t[j] = ENC(s))
    BY <1>2, <1>3, <1>4, <2>1, <2>5
  <2>7. QED
    BY <2>2, <2>3, <2>4, <2>6 DEF Leads, t
<1>5. CASE k # 0
  <2>1. PICK n : n = Len(q) + k
    OBVIOUS
  <2>2. n \in 0 .. Len(t) /\ n # 0 /\ k \in 1 .. Len(es)
    BY <1>1, <1>5, <2>1
  <2>3. t[n] = es[k]
    BY <1>1, <2>1, <2>2
  <2>4. Gives(t, c, n, s, f1[s])
    BY <1>3, <1>5, <2>2, <2>3 DEF Gives, Cut
  <2>5. \A j \in n + 1 .. Len(t) : j - Len(q) \in k + 1 .. Len(es) /\ t[j] = es[j - Len(q)]
    <3>1. ASSUME NEW j \in n + 1 .. Len(t)
          PROVE  j - Len(q) \in k + 1 .. Len(es) /\ t[j] = es[j - Len(q)]
      <4>1. j - Len(q) \in k + 1 .. Len(es) /\ j - Len(q) \in 1 .. Len(es) /\ Len(q) + (j - Len(q)) = j
        BY <1>1, <2>1, <2>2
      <4>2. QED
        BY <1>1, <4>1
    <3>2. QED
      BY <3>1
  <2>6. \A j \in n + 1 .. Len(t) : ~Moves(t[j], s)
    BY <1>3, <2>5
  <2>7. (\E j \in n + 1 .. Len(t) : t[j] = ENC(s)) <=> \E l \in k + 1 .. Len(es) : es[l] = ENC(s)
    <3>1. ASSUME NEW l \in k + 1 .. Len(es), es[l] = ENC(s)
          PROVE  \E j \in n + 1 .. Len(t) : t[j] = ENC(s)
      <4>1. Len(q) + l \in n + 1 .. Len(t) /\ l \in 1 .. Len(es)
        BY <1>1, <2>1, <2>2
      <4>2. QED
        BY <1>1, <3>1, <4>1
    <3>2. QED
      BY <2>5, <3>1
  <2>8. f1[s] # None =>
          (s \in g1 <=> (n = 0 /\ s \in d) \/ \E j \in n + 1 .. Len(t) : t[j] = ENC(s))
    BY <1>3, <1>5, <2>2, <2>7
  <2>9. QED
    BY <2>2, <2>4, <2>6, <2>8 DEF Leads, t
<1>6. QED
  BY <1>4, <1>5

\* The driver handles the oldest event: its records change from c and d to c1 and d1.
LEMMA LeadsLess ==
  ASSUME NEW q \in Seq(Event), q # <<>>, NEW c, NEW d, NEW f, NEW g, NEW c1, NEW d1, NEW s \in Slot,
         Leads(q, c, d, f, g, s),
         ~Moves(q[1], s) => c1[s] = c[s] /\ (s \in d1 <=> s \in d \/ q[1] = ENC(s)),
         Gives(q, c, 1, s, f[s]) => c1[s] = f[s] /\ (f[s] # None => s \notin d1)
  PROVE  Leads(Tail(q), c1, d1, f, g, s)
<1> DEFINE t == Tail(q)
<1>1. /\ Len(q) \in Nat \ {0} /\ Len(t) = Len(q) - 1
      /\ \A i \in 1 .. Len(t) : t[i] = q[i + 1]
  BY TailIndex
<1> HIDE DEF t
<1>2. PICK i \in 0 .. Len(q) :
        /\ Gives(q, c, i, s, f[s])
        /\ \A j \in i + 1 .. Len(q) : ~Moves(q[j], s)
        /\ f[s] # None => (s \in g <=> (i = 0 /\ s \in d) \/ \E j \in i + 1 .. Len(q) : q[j] = ENC(s))
  BY DEF Leads
<1>3. PICK m \in 0 .. Len(t) : (i = 0 /\ m = 0) \/ m + 1 = i
  <2>1. CASE i = 0
    <3>1. 0 \in 0 .. Len(t)
      BY <1>1
    <3>2. QED
      BY <2>1, <3>1
  <2>2. CASE i # 0
    <3>1. i - 1 \in 0 .. Len(t) /\ (i - 1) + 1 = i
      BY <1>1, <1>2, <2>2
    <3>2. QED
      BY <3>1
  <2>3. QED
    BY <2>1, <2>2
<1>4. \A j \in m + 1 .. Len(t) : j \in 1 .. Len(t) /\ j + 1 \in i + 1 .. Len(q) /\ t[j] = q[j + 1]
  BY <1>1, <1>2, <1>3
<1>5. \A j \in m + 1 .. Len(t) : ~Moves(t[j], s)
  BY <1>2, <1>4
<1>6. CASE i = 0
  <2>1. ~Moves(q[1], s) /\ m = 0
    BY <1>1, <1>2, <1>3, <1>6
  <2>2. Gives(t, c1, 0, s, f[s])
    BY <1>2, <1>6, <2>1 DEF Gives
  <2>3. (\E j \in 1 .. Len(q) : q[j] = ENC(s))
          <=> q[1] = ENC(s) \/ \E j \in 1 .. Len(t) : t[j] = ENC(s)
    <3>1. ASSUME NEW j \in 1 .. Len(q), q[j] = ENC(s), j # 1
          PROVE  \E l \in 1 .. Len(t) : t[l] = ENC(s)
      <4>1. j - 1 \in 1 .. Len(t) /\ (j - 1) + 1 = j
        BY <1>1, <3>1
      <4>2. QED
        BY <1>1, <3>1, <4>1
    <3>2. 1 \in 1 .. Len(q)
      BY <1>1
    <3>3. \A j \in 1 .. Len(t) : j + 1 \in 1 .. Len(q)
      BY <1>1
    <3>4. QED
      BY <1>1, <3>1, <3>2, <3>3
  <2>4. f[s] # None =>
          (s \in g <=> (0 = 0 /\ s \in d1) \/ \E j \in 0 + 1 .. Len(t) : t[j] = ENC(s))
    BY <1>2, <1>6, <2>1, <2>3
  <2>5. QED
    BY <1>5, <2>1, <2>2, <2>4 DEF Leads, t
<1>7. CASE i # 0
  <2>1. m + 1 = i
    BY <1>3, <1>7
  <2>2. (\E j \in i + 1 .. Len(q) : q[j] = ENC(s)) <=> \E j \in m + 1 .. Len(t) : t[j] = ENC(s)
    <3>1. ASSUME NEW j \in i + 1 .. Len(q), q[j] = ENC(s)
          PROVE  \E l \in m + 1 .. Len(t) : t[l] = ENC(s)
      <4>1. j - 1 \in m + 1 .. Len(t) /\ (j - 1) + 1 = j /\ j - 1 \in 1 .. Len(t)
        BY <1>1, <1>2, <2>1
      <4>2. QED
        BY <1>1, <3>1, <4>1
    <3>2. QED
      BY <1>4, <3>1
  <2>3. Gives(t, c1, m, s, f[s])
    <3>1. CASE m = 0
      BY <1>2, <2>1, <3>1 DEF Gives
    <3>2. CASE m # 0
      <4>1. t[m] = q[i] /\ i # 0
        BY <1>1, <1>3, <2>1, <3>2
      <4>2. QED
        BY <1>2, <3>2, <4>1 DEF Gives, Cut
    <3>3. QED
      BY <3>1, <3>2
  <2>4. f[s] # None /\ m = 0 => s \notin d1
    BY <1>2, <2>1
  <2>5. f[s] # None =>
          (s \in g <=> (m = 0 /\ s \in d1) \/ \E j \in m + 1 .. Len(t) : t[j] = ENC(s))
    BY <1>2, <1>7, <2>2, <2>4
  <2>6. QED
    BY <1>3, <1>5, <2>3, <2>5 DEF Leads, t
<1>8. QED
  BY <1>6, <1>7

\* The bulb's own: links are announced behind the rest, none while the bulb has another.
LEMMA SingleMore ==
  ASSUME NEW q \in Seq(Event), NEW es \in Seq(Event), NEW c, NEW f, Closed(q, c, f), Single(q, c),
         \A k \in 1 .. Len(es), t \in Slot : es[k] = CONNECTED(t, Me) =>
           /\ \A s \in Slot : s # t => f[s] # Me
           /\ \A i \in 1 .. Len(es), s \in Slot : es[i] = CONNECTED(s, Me) => s = t
  PROVE  Single(q \o es, c)
<1> DEFINE qq == q \o es
<1>1. /\ Len(q) \in Nat /\ Len(es) \in Nat /\ Len(qq) = Len(q) + Len(es)
      /\ \A i \in 1 .. Len(q) : qq[i] = q[i]
      /\ \A i \in 1 .. Len(es) : qq[Len(q) + i] = es[i]
  BY ConcatIndex
<1> HIDE DEF qq
<1>2. Me \in Peer
  BY HueBulbAssumption
<1>3. \A i \in 0 .. Len(q), s \in Slot : At(qq, c, i, s, Me) <=> At(q, c, i, s, Me)
  BY <1>1 DEF At
<1>4. \A j \in 1 .. Len(q), s \in Slot : Cut(q, j, s) => Cut(qq, j, s)
  BY <1>1 DEF Cut
<1>5. ASSUME NEW i \in 0 .. Len(qq), i > Len(q), NEW s \in Slot, At(qq, c, i, s, Me)
      PROVE  \E l \in 1 .. Len(es) : es[l] = CONNECTED(s, Me)
  <2>1. i - Len(q) \in 1 .. Len(es) /\ Len(q) + (i - Len(q)) = i
    BY <1>1, <1>5
  <2>2. es[i - Len(q)] = CONNECTED(s, Me)
    BY <1>1, <1>5, <2>1 DEF At
  <2>3. QED
    BY <2>1, <2>2
<1>6. ASSUME NEW s \in Slot, NEW t \in Slot, NEW i \in 0 .. Len(qq), NEW k \in 0 .. Len(qq),
             i < k, At(qq, c, i, s, Me), At(qq, c, k, t, Me), s # t
      PROVE  \E j \in i + 1 .. k - 1 : Cut(qq, j, s)
  <2>1. CASE k <= Len(q)
    <3>1. i \in 0 .. Len(q) /\ k \in 0 .. Len(q)
      BY <1>1, <1>6, <2>1
    <3>2. PICK j \in i + 1 .. k - 1 : Cut(q, j, s)
      BY <1>3, <1>6, <3>1 DEF Single
    <3>3. j \in 1 .. Len(q)
      BY <1>1, <3>1, <3>2
    <3>4. QED
      BY <1>4, <3>2, <3>3
  <2>2. CASE k > Len(q)
    <3>1. PICK l \in 1 .. Len(es) : es[l] = CONNECTED(t, Me)
      BY <1>5, <1>6, <2>2
    <3>2. i \in 0 .. Len(q)
      <4>1. ~(i > Len(q))
        BY <1>5, <1>6, <3>1
      <4>2. QED
        BY <1>1, <4>1
    <3>3. f[s] # Me
      BY <1>6, <3>1
    <3>4. PICK j \in i + 1 .. Len(q) : Cut(q, j, s)
      BY <1>2, <1>3, <1>6, <3>2, <3>3 DEF Closed
    <3>5. j \in i + 1 .. k - 1 /\ j \in 1 .. Len(q)
      BY <1>1, <2>2, <3>2, <3>4
    <3>6. QED
      BY <1>4, <3>4, <3>5
  <2>3. QED
    BY <1>1, <2>1, <2>2
<1>7. QED
  BY <1>6 DEF Single, qq

LEMMA SingleLess ==
  ASSUME NEW q \in Seq(Event), q # <<>>, NEW c, NEW d, Single(q, c),
         \A s \in Slot : d[s] = Me => q[1] = CONNECTED(s, Me) \/ (c[s] = Me /\ ~Cut(q, 1, s))
  PROVE  Single(Tail(q), d)
<1> DEFINE t == Tail(q)
<1>1. /\ Len(q) \in Nat \ {0} /\ Len(t) = Len(q) - 1
      /\ \A i \in 1 .. Len(t) : t[i] = q[i + 1]
  BY TailIndex
<1> HIDE DEF t
<1>2. \A j \in 1 .. Len(t), s \in Slot : Cut(q, j + 1, s) => Cut(t, j, s)
  BY <1>1 DEF Cut
<1>3. ASSUME NEW s \in Slot, NEW i \in 0 .. Len(t), At(t, d, i, s, Me)
      PROVE  \E o \in 0 .. Len(q) :
               At(q, c, o, s, Me) /\ (o = i + 1 \/ (o = 0 /\ i = 0 /\ ~Cut(q, 1, s)))
  <2>1. CASE i # 0
    <3>1. i + 1 \in 0 .. Len(q) /\ At(q, c, i + 1, s, Me)
      BY <1>1, <1>3, <2>1 DEF At
    <3>2. QED
      BY <3>1
  <2>2. CASE i = 0 /\ q[1] = CONNECTED(s, Me)
    <3>1. 1 \in 0 .. Len(q) /\ At(q, c, 1, s, Me)
      BY <1>1, <2>2 DEF At
    <3>2. QED
      BY <2>2, <3>1
  <2>3. CASE i = 0 /\ c[s] = Me /\ ~Cut(q, 1, s)
    <3>1. 0 \in 0 .. Len(q) /\ At(q, c, 0, s, Me)
      BY <1>1, <2>3 DEF At
    <3>2. QED
      BY <2>3, <3>1
  <2>4. QED
    BY <1>3, <2>1, <2>2, <2>3 DEF At
<1>4. ASSUME NEW s \in Slot, NEW r \in Slot, NEW i \in 0 .. Len(t), NEW k \in 0 .. Len(t),
             i < k, At(t, d, i, s, Me), At(t, d, k, r, Me), s # r
      PROVE  \E j \in i + 1 .. k - 1 : Cut(t, j, s)
  <2>1. PICK o \in 0 .. Len(q) :
          At(q, c, o, s, Me) /\ (o = i + 1 \/ (o = 0 /\ i = 0 /\ ~Cut(q, 1, s)))
    BY <1>3, <1>4
  <2>2. k + 1 \in 0 .. Len(q) /\ At(q, c, k + 1, r, Me) /\ o < k + 1
    <3>1. k # 0
      BY <1>4
    <3>2. PICK u \in 0 .. Len(q) : At(q, c, u, r, Me) /\ (u = k + 1 \/ k = 0)
      BY <1>3, <1>4
    <3>3. u = k + 1
      BY <3>1, <3>2
    <3>4. o < k + 1
      BY <1>4, <2>1
    <3>5. QED
      BY <3>2, <3>3, <3>4
  <2>3. PICK j \in o + 1 .. (k + 1) - 1 : Cut(q, j, s)
    BY <1>4, <2>1, <2>2 DEF Single
  <2>4. j # 1
    BY <2>1, <2>3
  <2>5. j - 1 \in i + 1 .. k - 1 /\ (j - 1) + 1 = j /\ j - 1 \in 1 .. Len(t)
    BY <1>1, <1>4, <2>1, <2>3, <2>4
  <2>6. QED
    BY <1>2, <2>3, <2>5
<1>5. QED
  BY <1>4 DEF Single, t

-----------------------------------------------------------------------------
(* Steps of the nRF                                                         *)

\* A link of the bulb is announced when it has no other.
Lone(es, f) ==
  \A k \in 1 .. Len(es), t \in Slot : es[k] = CONNECTED(t, Me) =>
    /\ \A s \in Slot : s # t => f[s] # Me
    /\ \A i \in 1 .. Len(es), s \in Slot : es[i] = CONNECTED(s, Me) => s = t

\* No event of a link is a READY, so pushing some leaves it where it is.
LEMMA PushReady ==
  ASSUME TypeOK, NEW es \in Seq(LinkNews), Push(es)
  PROVE  /\ \A i \in 1 .. Len(queue') :
              queue'[i] = READY => i \in 1 .. Len(queue) /\ queue[i] = READY
         /\ \A i \in 1 .. Len(queue) : i \in 1 .. Len(queue') /\ queue'[i] = queue[i]
<1> DEFINE room == QueueSize - Len(queue)
           n    == IF room < Len(es) THEN room ELSE Len(es)
           u    == SubSeq(es, 1, n)
<1>1. /\ queue \in Seq(Event) /\ Len(queue) \in Nat /\ Len(queue) <= QueueSize
      /\ QueueSize \in Nat /\ Len(es) \in Nat
  BY HueBulbAssumption DEF TypeOK, Event
<1>2. n \in 0 .. Len(es)
  BY <1>1
<1>3. u \in Seq(LinkNews) /\ Len(u) = n
  BY <1>2
<1>4. queue' = queue \o u
  BY DEF Push
<1> HIDE DEF u, n
<1>5. PICK v : v = u
  OBVIOUS
<1>6. v \in Seq(Event) /\ Len(v) \in Nat /\ \A i \in 1 .. Len(v) : v[i] \in LinkNews
  BY <1>3, <1>5 DEF Event
<1>7. /\ Len(queue \o v) = Len(queue) + Len(v)
      /\ \A i \in 1 .. Len(queue) : (queue \o v)[i] = queue[i]
      /\ \A i \in 1 .. Len(v) : (queue \o v)[Len(queue) + i] = v[i]
  BY <1>1, <1>6, ConcatIndex
<1>8. PICK t : t = queue \o v
  OBVIOUS
<1>9. ASSUME NEW i \in 1 .. Len(t), t[i] = READY PROVE i \in 1 .. Len(queue) /\ queue[i] = READY
  <2>1. CASE i <= Len(queue)
    <3>1. i \in 1 .. Len(queue)
      BY <1>1, <1>9, <2>1
    <3>2. QED
      BY <1>7, <1>8, <1>9, <3>1
  <2>2. CASE i > Len(queue)
    <3>1. i - Len(queue) \in 1 .. Len(v) /\ Len(queue) + (i - Len(queue)) = i
      BY <1>1, <1>6, <1>7, <1>8, <2>2
    <3>2. t[i] \in LinkNews
      BY <1>6, <1>7, <1>8, <3>1
    <3>3. QED
      BY <1>9, <3>2, OtherFacts
  <2>3. QED
    BY <1>1, <2>1, <2>2
<1>10. \A i \in 1 .. Len(queue) : i \in 1 .. Len(t) /\ t[i] = queue[i]
  BY <1>1, <1>6, <1>7, <1>8
<1>11. queue' = t
  BY <1>4, <1>5, <1>8
<1>12. QED
  BY <1>9, <1>10, <1>11

LEMMA QueueStep ==
  ASSUME BulbInv, QueueInv, NEW es \in Seq(LinkNews), Push(es), UNCHANGED <<conns, encd>>,
         Lone(es, slot), OneLink(slot'), \A s \in enc' : slot'[s] # None,
         \A s \in Slot : Leads(es, slot, enc, slot', enc', s)
  PROVE  QueueInv' /\ (Clean' => Clean)
<1>1. TypeOK /\ queue \in Seq(Event) /\ es \in Seq(Event)
  BY DEF BulbInv, TypeOK, Event
<1>2. ~lossy' => ~lossy /\ queue' = queue \o es
  BY <1>1, PushFacts
<1>3. /\ \A i \in 1 .. Len(queue') :
           queue'[i] = READY => i \in 1 .. Len(queue) /\ queue[i] = READY
      /\ \A i \in 1 .. Len(queue) : i \in 1 .. Len(queue') /\ queue'[i] = queue[i]
  BY <1>1, PushReady
<1>4. Clean' => Clean
  <2> SUFFICES ASSUME ~lossy', \A i \in 1 .. Len(queue') : queue'[i] # READY PROVE Clean
    BY DEF Clean
  <2>1. \A i \in 1 .. Len(queue) : queue[i] # READY
    BY <1>3
  <2>2. QED
    BY <1>2, <2>1 DEF Clean
<1>5. \A i \in 2 .. Len(queue') : queue'[i] # READY
  <2> SUFFICES ASSUME NEW i \in 2 .. Len(queue'), queue'[i] = READY PROVE FALSE
    OBVIOUS
  <2>1. i \in 1 .. Len(queue')
    OBVIOUS
  <2>2. i \in 2 .. Len(queue) /\ queue[i] = READY
    <3>1. i \in 1 .. Len(queue) /\ queue[i] = READY
      BY <1>3, <2>1
    <3>2. QED
      BY <3>1
  <2>3. QED
    BY <2>2 DEF QueueInv
<1>6. ASSUME ~lossy'
      PROVE  Single(queue', conns) /\ \A s \in Slot : Leads(queue', conns, encd, slot', enc', s)
  <2>1. /\ Closed(queue, conns, slot) /\ Single(queue, conns)
        /\ \A s \in Slot : Leads(queue, conns, encd, slot, enc, s)
    BY <1>2, <1>6 DEF BulbInv, Ordered, QueueInv
  <2>2. PICK f, g, t : f = slot' /\ g = enc' /\ t = queue \o es
    OBVIOUS
  <2>3. Single(t, conns)
    <3>1. Single(queue \o es, conns)
      BY <1>1, <2>1, SingleMore DEF Lone
    <3>2. QED
      BY <2>2, <3>1
  <2>4. ASSUME NEW s \in Slot PROVE Leads(t, conns, encd, f, g, s)
    <3>1. Leads(es, slot, enc, f, g, s)
      BY <2>2
    <3>2. Leads(queue \o es, conns, encd, f, g, s)
      BY <1>1, <2>1, <3>1, LeadsOn
    <3>3. QED
      BY <2>2, <3>2
  <2>5. QED
    BY <1>2, <1>6, <2>2, <2>3, <2>4
<1>7. Clean' => OneLink(conns)
  BY <1>4 DEF QueueInv
<1>8. (\A s \in Slot : Leads(queue', conns, encd, slot', enc', s)) /\ Single(queue', conns) =>
        (\A s \in Slot : Leads(queue, conns, encd, slot, enc, s))' /\ Single(queue, conns)'
  BY DEF Leads, Gives, Cut, Single, At
<1>9. OneLink(conns)' <=> OneLink(conns)
  BY DEF OneLink
<1>10. QED
  BY <1>4, <1>5, <1>6, <1>7, <1>8, <1>9 DEF QueueInv, OneLink

\* A mailbox is not concerned as long as neither the view nor the bulb changes.
LEMMA MailAsBefore ==
  ASSUME MailInv, UNCHANGED <<conns, encd, phase, box, handle, connected, missed>>, Clean' => Clean
  PROVE  MailInv'
BY DEF MailInv, Informed, Knows, Told, Outdated, Judged, Reached, Holds, Adopts

\* Events none of which moves s, or the last of which is k
LEMMA Untouched ==
  ASSUME NEW es, Len(es) \in Nat, NEW f, NEW g, NEW f1, NEW g1, NEW s, f1[s] = f[s],
         \A k \in 1 .. Len(es) : ~Moves(es[k], s),
         f1[s] # None => (s \in g1 <=> s \in g \/ \E k \in 1 .. Len(es) : es[k] = ENC(s))
  PROVE  Leads(es, f, g, f1, g1, s)
<1>1. 0 \in 0 .. Len(es) /\ 0 + 1 = 1 /\ Gives(es, f, 0, s, f1[s])
  BY DEF Gives
<1>2. QED
  BY <1>1 DEF Leads

LEMMA Moved ==
  ASSUME NEW es, Len(es) \in Nat, NEW f, NEW g, NEW f1, NEW g1, NEW s,
         NEW k \in 1 .. Len(es), Gives(es, f, k, s, f1[s]),
         \A j \in k + 1 .. Len(es) : ~Moves(es[j], s),
         f1[s] # None => (s \in g1 <=> \E j \in k + 1 .. Len(es) : es[j] = ENC(s))
  PROVE  Leads(es, f, g, f1, g1, s)
<1>1. k \in 0 .. Len(es) /\ k # 0
  OBVIOUS
<1>2. QED
  BY <1>1 DEF Leads

LEMMA LinkUpView ==
  ASSUME BulbInv, QueueInv, MailInv, NEW p \in Peer, LinkUp(p)
  PROVE  QueueInv' /\ MailInv'
<1>1. PICK t \in Slot :
        slot[t] = None /\ slot' = [slot EXCEPT ![t] = p] /\ Push(<<CONNECTED(t, p)>>)
  BY DEF LinkUp, Free
<1>2. /\ UNCHANGED <<enc, listing, cmds, driver, bulb, missed, troubles>>
      /\ \A s \in Slot : slot[s] # p
  BY DEF LinkUp
<1>3. UNCHANGED <<conns, encd, phase, box, handle, connected, missed>>
  BY <1>2 DEF driver, bulb
<1>4. TypeOK /\ slot \in [Slot -> Peer \cup {None}] /\ enc \subseteq Slot
  BY DEF BulbInv, TypeOK
<1>5. PICK f : f = slot'
  OBVIOUS
<1>6. f[t] = p /\ \A s \in Slot : s # t => f[s] = slot[s]
  BY <1>1, <1>4, <1>5
<1>7. t \notin enc /\ (\A s \in enc : slot[s] # None) /\ OneLink(slot)
  BY <1>1 DEF QueueInv
<1>8. PICK es : es = <<CONNECTED(t, p)>>
  OBVIOUS
<1>9. /\ es \in Seq(LinkNews) /\ Len(es) = 1 /\ es[1] = CONNECTED(t, p) /\ Push(es)
  BY <1>1, <1>8, NewsFacts
<1>10. Lone(es, slot)
  <2>1. \A k \in 1 .. Len(es), s \in Slot : es[k] = CONNECTED(s, Me) => s = t /\ p = Me
    BY <1>9, NewsFacts, HueBulbAssumption
  <2>2. QED
    BY <1>2, <2>1 DEF Lone
<1>11. OneLink(f) /\ \A s \in enc : f[s] # None
  <2>1. OneLink(f)
    BY <1>2, <1>6, <1>7 DEF OneLink
  <2>2. QED
    BY <1>4, <1>6, <1>7, <2>1
<1>12. ASSUME NEW s \in Slot PROVE Leads(es, slot, enc, f, enc, s)
  <2>1. CASE s = t
    <3>1. Gives(es, slot, 1, s, f[s])
      BY <1>6, <1>9, <2>1, HueBulbAssumption DEF Gives
    <3>2. 1 \in 1 .. Len(es) /\ Len(es) \in Nat /\ \A j \in 1 + 1 .. Len(es) : FALSE
      BY <1>9
    <3>3. QED
      BY <1>7, <2>1, <3>1, <3>2, Moved
  <2>2. CASE s # t
    <3>1. \A k \in 1 .. Len(es) : ~Moves(es[k], s) /\ es[k] # ENC(s)
      BY <1>9, <2>2, MoveFacts, NewsFacts
    <3>2. Len(es) \in Nat
      BY <1>9
    <3>3. QED
      BY <1>6, <2>2, <3>1, <3>2, Untouched
  <2>3. QED
    BY <2>1, <2>2
<1>13. QueueInv' /\ (Clean' => Clean)
  <2>1. OneLink(slot') /\ (\A s \in enc' : slot'[s] # None) /\ UNCHANGED <<conns, encd>>
    BY <1>2, <1>3, <1>5, <1>11
  <2>2. \A s \in Slot : Leads(es, slot, enc, slot', enc', s)
    BY <1>2, <1>5, <1>12
  <2>3. QED
    BY <1>9, <1>10, <2>1, <2>2, QueueStep
<1>14. QED
  BY <1>3, <1>13, MailAsBefore

LEMMA EncryptedView ==
  ASSUME BulbInv, QueueInv, MailInv, NEW t \in Slot, Encrypted(t)
  PROVE  QueueInv' /\ MailInv'
<1>1. /\ slot[t] # None /\ enc' = enc \cup {t} /\ Push(<<ENC(t)>>)
      /\ UNCHANGED <<slot, listing, cmds, driver, bulb, missed, bound>>
  BY DEF Encrypted
<1>2. UNCHANGED <<conns, encd, phase, box, handle, connected, missed>>
  BY <1>1 DEF driver, bulb
<1>3. PICK g : g = enc'
  OBVIOUS
<1>4. PICK es : es = <<ENC(t)>>
  OBVIOUS
<1>5. es \in Seq(LinkNews) /\ Len(es) = 1 /\ es[1] = ENC(t) /\ Push(es)
  BY <1>1, <1>4, NewsFacts
<1>6. Lone(es, slot)
  BY <1>5, NewsFacts, HueBulbAssumption DEF Lone
<1>7. OneLink(slot) /\ \A s \in g : slot[s] # None
  BY <1>1, <1>3 DEF QueueInv
<1>8. ASSUME NEW s \in Slot PROVE Leads(es, slot, enc, slot, g, s)
  <2>1. \A k \in 1 .. Len(es) : ~Moves(es[k], s) /\ (es[k] = ENC(s) <=> s = t)
    BY <1>5, MoveFacts
  <2>2. 1 \in 1 .. Len(es) /\ Len(es) \in Nat
    BY <1>5
  <2>3. s \in g <=> s \in enc \/ \E k \in 1 .. Len(es) : es[k] = ENC(s)
    BY <1>1, <1>3, <2>1, <2>2
  <2>4. QED
    BY <2>1, <2>2, <2>3, Untouched
<1>9. QueueInv' /\ (Clean' => Clean)
  <2>1. OneLink(slot') /\ (\A s \in enc' : slot'[s] # None) /\ UNCHANGED <<conns, encd>>
    BY <1>1, <1>2, <1>3, <1>7
  <2>2. \A s \in Slot : Leads(es, slot, enc, slot', enc', s)
    BY <1>1, <1>3, <1>8
  <2>3. QED
    BY <1>5, <1>6, <2>1, <2>2, QueueStep
<1>10. QED
  BY <1>2, <1>9, MailAsBefore

\* One DISCONNECTED for each handle of a set
LEMMA DisconnectsOnce ==
  ASSUME NEW ss \in SUBSET Slot, NEW es, es = Disconnects(ss)
  PROVE  \A k, l \in 1 .. Len(es) : es[k] = es[l] => k = l
<1>1. PICK f : f = SetToSeq(ss)
  OBVIOUS
<1>2. f \in SetToSeqs(ss) /\ f \in Seq(ss)
  BY <1>1, SlotFinite, SetSeqFacts
<1>3. Len(f) \in Nat /\ DOMAIN f = 1 .. Len(f) /\ \A i \in 1 .. Len(f) : f[i] \in ss
  BY <1>2
<1>4. \A k, l \in 1 .. Len(f) : f[k] = f[l] => k = l
  BY <1>2, <1>3 DEF SetToSeqs
<1>5. es = [i \in 1 .. Len(f) |-> DISCONNECTED(f[i])] /\ Len(es) = Len(f)
  BY <1>1, <1>3 DEF Disconnects
<1>6. \A k, l \in 1 .. Len(f) : DISCONNECTED(f[k]) = DISCONNECTED(f[l]) => k = l
  BY <1>3, <1>4, NewsFacts
<1>7. QED
  BY <1>5, <1>6

LEMMA DroppedView ==
  ASSUME BulbInv, QueueInv, MailInv, NEW ss \in SUBSET Slot, Dropped(ss),
         UNCHANGED <<driver, bulb, missed>>
  PROVE  QueueInv' /\ MailInv'
<1>1. PICK es : es = Disconnects(ss)
  OBVIOUS
<1>2. /\ es \in Seq(LinkNews)
      /\ \A k \in 1 .. Len(es) : \E s \in ss : es[k] = DISCONNECTED(s)
      /\ \A s \in ss : \E k \in 1 .. Len(es) : es[k] = DISCONNECTED(s)
      /\ \A k, l \in 1 .. Len(es) : es[k] = es[l] => k = l
  <2>1. /\ es \in Seq(LinkNews)
        /\ \A k \in 1 .. Len(es) : \E s \in ss : es[k] = DISCONNECTED(s)
        /\ \A s \in ss : \E k \in 1 .. Len(es) : es[k] = DISCONNECTED(s)
    BY <1>1, DisconnectsFacts
  <2>2. \A k, l \in 1 .. Len(es) : es[k] = es[l] => k = l
    BY <1>1, DisconnectsOnce
  <2>3. QED
    BY <2>1, <2>2
<1>3. /\ slot' = [s \in Slot |-> IF s \in ss THEN None ELSE slot[s]]
      /\ enc' = enc \ ss /\ Push(es)
  BY <1>1 DEF Dropped, Disconnects
<1>4. UNCHANGED <<conns, encd, phase, box, handle, connected, missed>>
  BY DEF driver, bulb
<1>5. PICK f, g : f = slot' /\ g = enc'
  OBVIOUS
<1>6. /\ \A s \in Slot : f[s] = IF s \in ss THEN None ELSE slot[s]
      /\ g = enc \ ss /\ enc \subseteq Slot
  BY <1>3, <1>5 DEF BulbInv, TypeOK
<1>7. Lone(es, slot)
  <2>1. \A k \in 1 .. Len(es), t \in Slot : es[k] # CONNECTED(t, Me)
    BY <1>2, NewsFacts, HueBulbAssumption
  <2>2. QED
    BY <2>1 DEF Lone
<1>8. OneLink(f) /\ \A s \in g : f[s] # None
  <2>1. OneLink(slot) /\ \A s \in enc : slot[s] # None
    BY DEF QueueInv
  <2>2. QED
    BY <1>6, <2>1, HueBulbAssumption DEF OneLink
<1>9. Len(es) \in Nat
  BY <1>2
<1>10. ASSUME NEW s \in Slot PROVE Leads(es, slot, enc, f, g, s)
  <2>1. CASE s \in ss
    <3>1. PICK k \in 1 .. Len(es) : es[k] = DISCONNECTED(s)
      BY <1>2, <2>1
    <3>2. f[s] = None
      BY <1>6, <2>1
    <3>3. Gives(es, slot, k, s, f[s])
      BY <1>9, <3>1, <3>2 DEF Gives, Cut
    <3>4. ASSUME NEW j \in k + 1 .. Len(es) PROVE ~Moves(es[j], s)
      <4>1. j \in 1 .. Len(es) /\ j # k
        BY <1>9
      <4>2. PICK t \in ss : es[j] = DISCONNECTED(t)
        BY <1>2, <4>1
      <4>3. t # s
        BY <1>2, <3>1, <4>1, <4>2
      <4>4. QED
        BY <4>2, <4>3, MoveFacts
    <3>5. QED
      BY <1>9, <3>2, <3>3, <3>4, Moved
  <2>2. CASE s \notin ss
    <3>1. \A k \in 1 .. Len(es) : ~Moves(es[k], s) /\ es[k] # ENC(s)
      BY <1>2, <2>2, MoveFacts, NewsFacts, HueBulbAssumption
    <3>2. f[s] = slot[s] /\ (s \in g <=> s \in enc)
      BY <1>6, <2>2
    <3>3. QED
      BY <1>9, <3>1, <3>2, Untouched
  <2>3. QED
    BY <2>1, <2>2
<1>11. QueueInv' /\ (Clean' => Clean)
  <2>1. OneLink(slot') /\ (\A s \in enc' : slot'[s] # None) /\ UNCHANGED <<conns, encd>>
    BY <1>4, <1>5, <1>8
  <2>2. \A s \in Slot : Leads(es, slot, enc, slot', enc', s)
    BY <1>5, <1>10
  <2>3. QED
    BY <1>2, <1>3, <1>7, <2>1, <2>2, QueueStep
<1>12. QED
  BY <1>4, <1>11, MailAsBefore

LEMMA ReportView ==
  ASSUME BulbInv, QueueInv, MailInv, ReportConnections
  PROVE  QueueInv' /\ MailInv'
<1> DEFINE N == {CONNECTED(s, slot[s]) : s \in Slot \ Free} \cup {ENC(s) : s \in enc}
<1>1. /\ \E es \in SetToSeqs(N) : InOrder(es) /\ Push(es)
      /\ UNCHANGED <<slot, enc, cmds, driver, bulb, missed, bound>>
  BY DEF ReportConnections
<1>2. UNCHANGED <<conns, encd, phase, box, handle, connected, missed>>
  BY <1>1 DEF driver, bulb
<1>3. slot \in [Slot -> Peer \cup {None}] /\ enc \subseteq Slot
  BY DEF BulbInv, TypeOK
<1>4. IsFiniteSet(N)
  BY <1>3, ListFinite
<1>5. \A s \in Slot : slot[s] # None => slot[s] \in Peer /\ CONNECTED(s, slot[s]) \in N
  BY <1>3 DEF Free
<1>6. \A e \in N :
        \/ \E s \in Slot : slot[s] \in Peer /\ e = CONNECTED(s, slot[s])
        \/ \E s \in enc : e = ENC(s)
  BY <1>3 DEF Free
<1>7. \A s \in enc : ENC(s) \in N
  OBVIOUS
<1> HIDE DEF N
<1>8. N \subseteq LinkNews
  BY <1>3, <1>6, NewsFacts
<1>9. PICK es \in SetToSeqs(N) : InOrder(es) /\ Push(es)
  BY <1>1
<1>10. es \in Seq(N) /\ \A x \in N : \E i \in DOMAIN es : es[i] = x
  BY <1>4, SetSeqFacts
<1>11. /\ Len(es) \in Nat /\ DOMAIN es = 1 .. Len(es) /\ es \in Seq(LinkNews)
       /\ \A i \in 1 .. Len(es) : es[i] \in N
  BY <1>8, <1>10
<1>12. \A k, l \in 1 .. Len(es) : es[k] = es[l] => k = l
  BY <1>10, <1>11 DEF SetToSeqs
<1>13. \A s \in Slot, p \in Peer : CONNECTED(s, p) \in N => slot[s] = p
  <2> SUFFICES ASSUME NEW s \in Slot, NEW p \in Peer, CONNECTED(s, p) \in N PROVE slot[s] = p
    OBVIOUS
  <2>1. PICK t \in Slot : slot[t] \in Peer /\ CONNECTED(s, p) = CONNECTED(t, slot[t])
    BY <1>3, <1>6, NewsFacts
  <2>2. QED
    BY <2>1, NewsFacts
<1>14. \A s \in Slot : ENC(s) \in N => s \in enc
  BY <1>3, <1>6, NewsFacts, MoveFacts
<1>15. OneLink(slot) /\ \A s \in enc : slot[s] # None
  BY DEF QueueInv
<1>16. Lone(es, slot)
  <2>1. \A k \in 1 .. Len(es), t \in Slot : es[k] = CONNECTED(t, Me) => slot[t] = Me
    BY <1>11, <1>13, HueBulbAssumption
  <2>2. QED
    BY <1>15, <2>1 DEF Lone, OneLink
<1>17. ASSUME NEW s \in Slot PROVE Leads(es, slot, enc, slot, enc, s)
  <2>1. \A j \in 1 .. Len(es) : Moves(es[j], s) => slot[s] # None /\ es[j] = CONNECTED(s, slot[s])
    <3> SUFFICES ASSUME NEW j \in 1 .. Len(es), Moves(es[j], s)
                 PROVE  slot[s] # None /\ es[j] = CONNECTED(s, slot[s])
      OBVIOUS
    <3>1. es[j] \in N
      BY <1>11
    <3>2. PICK t \in Slot : slot[t] \in Peer /\ es[j] = CONNECTED(t, slot[t])
      BY <1>3, <1>6, <3>1, MoveFacts
    <3>3. s = t
      BY <3>2, MoveFacts
    <3>4. QED
      BY <3>2, <3>3, HueBulbAssumption
  <2>2. CASE slot[s] = None
    <3>1. \A k \in 1 .. Len(es) : ~Moves(es[k], s)
      BY <2>1, <2>2
    <3>2. QED
      BY <1>11, <2>2, <3>1, Untouched
  <2>3. CASE slot[s] # None
    <3>1. slot[s] \in Peer /\ CONNECTED(s, slot[s]) \in N
      BY <1>5, <2>3
    <3>2. PICK k \in 1 .. Len(es) : es[k] = CONNECTED(s, slot[s])
      BY <1>10, <1>11, <3>1
    <3>3. Gives(es, slot, k, s, slot[s])
      BY <1>11, <2>3, <3>2 DEF Gives
    <3>4. ASSUME NEW j \in k + 1 .. Len(es) PROVE ~Moves(es[j], s)
      <4>1. j \in 1 .. Len(es) /\ j # k
        BY <1>11
      <4>2. QED
        BY <1>12, <2>1, <3>2, <4>1
    <3>5. ASSUME s \in enc PROVE \E j \in k + 1 .. Len(es) : es[j] = ENC(s)
      <4>1. PICK j \in 1 .. Len(es) : es[j] = ENC(s)
        BY <1>7, <1>10, <1>11, <3>5
      <4>2. es[j][2] = s /\ es[k][2] = s /\ es[k][1] = "connected"
        BY <3>2, <4>1 DEF CONNECTED, ENC
      <4>3. j # k
        BY <3>1, <3>2, <4>1, NewsFacts
      <4>4. ~(j < k)
        <5>1. j < k => (es[j][2] = es[k][2] => es[k][1] = "enc")
          BY <1>9, <1>11 DEF InOrder
        <5>2. es[k][1] # "enc"
          BY <4>2
        <5>3. QED
          BY <4>2, <5>1, <5>2
      <4>5. j \in k + 1 .. Len(es)
        BY <1>11, <4>3, <4>4
      <4>6. QED
        BY <4>1, <4>5
    <3>6. ASSUME NEW j \in k + 1 .. Len(es), es[j] = ENC(s) PROVE s \in enc
      <4>1. j \in 1 .. Len(es)
        BY <1>11
      <4>2. QED
        BY <1>11, <1>14, <3>6, <4>1
    <3>7. QED
      BY <1>11, <3>3, <3>4, <3>5, <3>6, Moved
  <2>4. QED
    BY <2>2, <2>3
<1>18. QueueInv' /\ (Clean' => Clean)
  <2>1. OneLink(slot') /\ (\A s \in enc' : slot'[s] # None) /\ UNCHANGED <<conns, encd>>
    BY <1>1, <1>2, <1>15
  <2>2. \A s \in Slot : Leads(es, slot, enc, slot', enc', s)
    BY <1>1, <1>17
  <2>3. QED
    BY <1>9, <1>11, <1>16, <2>1, <2>2, QueueStep
<1>19. QED
  BY <1>2, <1>18, MailAsBefore

LEMMA ResetView ==
  ASSUME BulbInv, QueueInv, MailInv, Reset
  PROVE  QueueInv' /\ MailInv'
<1>1. /\ slot' = NoLinks /\ enc' = {} /\ queue' = <<READY>> /\ lossy' = FALSE
      /\ UNCHANGED <<driver, bulb, missed>>
  BY DEF Reset
<1>2. PICK q, f, g, c, d : q = queue' /\ f = slot' /\ g = enc' /\ c = conns' /\ d = encd'
  OBVIOUS
<1>3. Len(q) = 1 /\ q[1] = READY /\ g = {} /\ \A s \in Slot : f[s] = None
  BY <1>1, <1>2 DEF NoLinks
<1>4. ~Clean'
  BY <1>1 DEF Clean
<1>5. Single(q, c)
  <2>1. \A s \in Slot : READY # CONNECTED(s, Me)
    BY NewsFacts, OtherFacts, HueBulbAssumption
  <2>2. \A k \in 0 .. Len(q), s \in Slot : At(q, c, k, s, Me) => k = 0
    BY <1>3, <2>1 DEF At
  <2>3. \A i, k \in 0 .. Len(q) : i < k => k # 0
    BY <1>3
  <2>4. QED
    BY <2>2, <2>3 DEF Single
<1>6. ASSUME NEW s \in Slot PROVE Leads(q, c, d, f, g, s)
  <2>1. 1 \in 1 .. Len(q) /\ Len(q) \in Nat /\ \A j \in 1 + 1 .. Len(q) : FALSE
    BY <1>3
  <2>2. Gives(q, c, 1, s, f[s])
    BY <1>3 DEF Gives, Cut
  <2>3. QED
    BY <1>3, <2>1, <2>2, Moved
<1>7. OneLink(f) /\ (\A s \in g : f[s] # None) /\ \A i \in 2 .. Len(q) : q[i] # READY
  BY <1>3, HueBulbAssumption DEF OneLink
<1>8. QueueInv'
  BY <1>2, <1>4, <1>5, <1>6, <1>7 DEF QueueInv
<1>9. MailInv'
  <2>1. UNCHANGED <<handle, connected>>
    BY <1>1 DEF bulb
  <2>2. QED
    BY <1>4, <2>1 DEF MailInv
<1>10. QED
  BY <1>8, <1>9

-----------------------------------------------------------------------------
(* The mailbox                                                              *)

\* The link itself is announced behind the rest.
LEMMA Adopted ==
  ASSUME NEW b \in Seq(Message), NEW s \in Slot, NEW e \in Message, e = CONNECTED(s, Me),
         NEW h, NEW z, NEW d, s \notin d
  PROVE  Knows(h, z, b \o <<e>>, d, s) /\ Reached(h, b \o <<e>>, s)
<1> DEFINE bb == b \o <<e>>
<1>1. PICK n : n = Len(bb)
  OBVIOUS
<1>2. /\ n \in Nat \ {0} /\ bb[n] = e /\ n = Len(b) + 1 /\ Len(bb) = n
  BY <1>1
<1> HIDE DEF bb
<1>3. Adopts(e) /\ e # DISCONNECTED(s) /\ e # ENC(s)
  BY NewsFacts, MoveFacts, HueBulbAssumption
<1>4. n \in 1 .. n /\ \A j \in n + 1 .. n : FALSE
  BY <1>2
<1>5. Told(bb, s)
  <2>1. ASSUME NEW k \in 1 .. Len(bb)
        PROVE  \E i \in k .. Len(bb) :
                 bb[i] = CONNECTED(s, Me) /\ \A j \in i + 1 .. Len(bb) : bb[j] # DISCONNECTED(s)
    <3>1. n \in k .. Len(bb) /\ \A j \in n + 1 .. Len(bb) : FALSE
      BY <1>2
    <3>2. QED
      BY <1>2, <3>1
  <2>2. QED
    BY <2>1 DEF Told
<1>6. Outdated(bb, d, s)
  <2>1. ASSUME NEW k \in 1 .. Len(bb), bb[k] = ENC(s) PROVE \E i \in k + 1 .. Len(bb) : Adopts(bb[i])
    <3>1. k # n
      BY <1>2, <1>3, <2>1
    <3>2. n \in k + 1 .. Len(bb)
      BY <1>2, <3>1
    <3>3. QED
      BY <1>2, <1>3, <3>2
  <2>2. QED
    BY <2>1 DEF Outdated
<1>7. Judged(h, z, bb, d, s)
  <2>1. ASSUME NEW i \in 0 .. Len(bb),
               \A j \in i + 1 .. Len(bb) : bb[j] # DISCONNECTED(s) /\ ~Adopts(bb[j])
        PROVE  i = n
    <3>1. ~(n \in i + 1 .. Len(bb))
      BY <1>2, <1>3, <2>1
    <3>2. QED
      BY <1>2, <3>1
  <2>2. n # 0 /\ \A j \in n + 1 .. Len(bb) : FALSE
    BY <1>2
  <2>3. QED
    BY <2>1, <2>2 DEF Judged
<1>8. Reached(h, bb, s)
  <2>1. n \in 1 .. Len(bb) /\ Adopts(bb[n])
    BY <1>2, <1>3
  <2>2. QED
    BY <2>1 DEF Reached
<1>9. QED
  BY <1>5, <1>6, <1>7, <1>8 DEF Knows, bb

\* Anything else that is not of its end is put behind the rest, and d becomes d1.
LEMMA Heard ==
  ASSUME NEW b \in Seq(Message), NEW s \in Slot, NEW e \in Message,
         NEW h, NEW z, NEW d, NEW d1, Knows(h, z, b, d, s),
         ~Adopts(e), e # DISCONNECTED(s), s \in d1 <=> s \in d \/ e = ENC(s)
  PROVE  /\ Knows(h, z, b \o <<e>>, d1, s)
         /\ Reached(h, b, s) => Reached(h, b \o <<e>>, s)
<1> DEFINE bb == b \o <<e>>
<1>1. PICK n : n = Len(bb)
  OBVIOUS
<1>2. /\ n \in Nat \ {0} /\ bb[n] = e /\ n = Len(b) + 1 /\ Len(bb) = n /\ Len(b) \in Nat
      /\ \A i \in 1 .. Len(b) : bb[i] = b[i]
  BY <1>1
<1> HIDE DEF bb
<1>3. \A i \in 1 .. n : i \in 1 .. Len(b) \/ i = n
  BY <1>2
<1>4. \A i \in 1 .. Len(b) : i \in 1 .. n /\ i # n /\ n \in i + 1 .. n
  BY <1>2
<1>5. Told(bb, s)
  <2>1. ASSUME NEW k \in 1 .. n, bb[k] = DISCONNECTED(s) \/ Adopts(bb[k])
        PROVE  \E i \in k .. n :
                 bb[i] = CONNECTED(s, Me) /\ \A j \in i + 1 .. n : bb[j] # DISCONNECTED(s)
    <3>1. k \in 1 .. Len(b) /\ (b[k] = DISCONNECTED(s) \/ Adopts(b[k]))
      BY <1>2, <1>3, <2>1
    <3>2. PICK i \in k .. Len(b) :
            b[i] = CONNECTED(s, Me) /\ \A j \in i + 1 .. Len(b) : b[j] # DISCONNECTED(s)
      BY <3>1 DEF Knows, Told
    <3>3. i \in k .. n /\ i \in 1 .. Len(b)
      BY <1>2, <3>1
    <3>4. ASSUME NEW j \in i + 1 .. n PROVE bb[j] # DISCONNECTED(s)
      <4>1. j = n \/ (j \in i + 1 .. Len(b) /\ j \in 1 .. Len(b))
        BY <1>2, <3>3
      <4>2. QED
        BY <1>2, <3>2, <4>1
    <3>5. QED
      BY <1>2, <3>2, <3>3, <3>4
  <2>2. QED
    BY <1>2, <2>1 DEF Told
<1>6. Outdated(bb, d1, s)
  <2>1. ASSUME NEW k \in 1 .. n, bb[k] = ENC(s), s \notin d1 PROVE \E i \in k + 1 .. n : Adopts(bb[i])
    <3>1. k \in 1 .. Len(b) /\ b[k] = ENC(s) /\ s \notin d
      BY <1>2, <1>3, <2>1
    <3>2. PICK i \in k + 1 .. Len(b) : Adopts(b[i])
      BY <3>1 DEF Knows, Outdated
    <3>3. i \in k + 1 .. n /\ i \in 1 .. Len(b)
      BY <1>2, <3>1
    <3>4. QED
      BY <1>2, <3>2, <3>3
  <2>2. QED
    BY <1>2, <2>1 DEF Outdated
<1>7. Judged(h, z, bb, d1, s)
  <2>1. ASSUME NEW i \in 0 .. n, Holds(h, bb, i, s),
               \A j \in i + 1 .. n : bb[j] # DISCONNECTED(s) /\ ~Adopts(bb[j])
        PROVE  s \in d1 <=> (i = 0 /\ z) \/ \E j \in i + 1 .. n : bb[j] = ENC(s)
    <3>1. i # n
      <4>1. Adopts(CONNECTED(s, Me))
        BY MoveFacts, HueBulbAssumption
      <4>2. QED
        BY <1>2, <2>1, <4>1 DEF Holds
    <3>2. i \in 0 .. Len(b) /\ Holds(h, b, i, s)
      BY <1>2, <2>1, <3>1 DEF Holds
    <3>3. \A j \in i + 1 .. Len(b) : j \in i + 1 .. n /\ j \in 1 .. Len(b)
      BY <1>2, <3>2
    <3>4. s \in d <=> (i = 0 /\ z) \/ \E j \in i + 1 .. Len(b) : b[j] = ENC(s)
      <4>1. \A j \in i + 1 .. Len(b) : b[j] # DISCONNECTED(s) /\ ~Adopts(b[j])
        BY <1>2, <2>1, <3>3
      <4>2. QED
        BY <3>2, <4>1 DEF Knows, Judged
    <3>5. (\E j \in i + 1 .. n : bb[j] = ENC(s))
            <=> (\E j \in i + 1 .. Len(b) : b[j] = ENC(s)) \/ e = ENC(s)
      <4>1. n \in i + 1 .. n
        BY <1>2, <3>2
      <4>2. \A j \in i + 1 .. n : j = n \/ j \in i + 1 .. Len(b)
        BY <1>2, <3>2
      <4>3. QED
        BY <1>2, <3>3, <4>1, <4>2
    <3>6. QED
      BY <3>4, <3>5
  <2>2. QED
    BY <1>2, <2>1 DEF Judged
<1>8. Reached(h, b, s) => Reached(h, bb, s)
  BY <1>2, <1>4 DEF Reached
<1>9. QED
  BY <1>5, <1>6, <1>7, <1>8 DEF Knows, bb

\* The message of init is put anywhere.
LEMMA Inserted ==
  ASSUME NEW b \in Seq(Message), NEW s \in Slot, NEW m \in 1 .. Len(b) + 1,
         NEW h, NEW z, NEW d, Knows(h, z, b, d, s)
  PROVE  Knows(h, z, InsertAt(b, m, RECONCILE), d, s) /\ Reached(h, InsertAt(b, m, RECONCILE), s)
<1> DEFINE t == InsertAt(b, m, RECONCILE)
           to(i) == IF i < m THEN i ELSE i + 1
<1>1. /\ Len(b) \in Nat /\ Len(t) = Len(b) + 1 /\ t[m] = RECONCILE
      /\ \A i \in 1 .. m - 1 : t[i] = b[i]
      /\ \A i \in m .. Len(b) : t[i + 1] = b[i]
  <2>1. RECONCILE \in Message
    BY DEF Message
  <2>2. Len(b) \in Nat
    OBVIOUS
  <2>3. QED
    BY <2>1, <2>2, InsertIndex
<1> HIDE DEF t
<1>2. m \in 1 .. Len(t)
  BY <1>1
<1>3. \A i \in 1 .. Len(b) : to(i) \in 1 .. Len(t) /\ t[to(i)] = b[i]
  BY <1>1
<1>4. \A k \in 1 .. Len(t) : k = m \/ \E i \in 1 .. Len(b) : k = to(i)
  <2>1. ASSUME NEW k \in 1 .. Len(t), k < m PROVE k \in 1 .. Len(b) /\ k = to(k)
    BY <1>1, <2>1
  <2>2. ASSUME NEW k \in 1 .. Len(t), k > m PROVE k - 1 \in 1 .. Len(b) /\ k = to(k - 1)
    BY <1>1, <2>2
  <2>3. \A k \in 1 .. Len(t) : k = m \/ k < m \/ k > m
    BY <1>1
  <2> HIDE DEF to
  <2>4. ASSUME NEW k \in 1 .. Len(t), k # m PROVE \E i \in 1 .. Len(b) : k = to(i)
    <3>1. CASE k < m
      BY <2>1, <3>1
    <3>2. CASE k > m
      BY <2>2, <3>2
    <3>3. QED
      BY <2>3, <2>4, <3>1, <3>2
  <2>5. QED
    BY <2>4
<1>5. \A i, j \in 0 .. Len(b) : i < j <=> to(i) < to(j)
  BY <1>1
<1>6. to(0) = 0 /\ \A i \in 1 .. Len(b) : to(i) # 0 /\ to(i) # m
  BY <1>1
<1> HIDE DEF to
<1>7. \A i \in 1 .. Len(b) : \A j \in i .. Len(b) : j \in 1 .. Len(b) /\ to(j) \in to(i) .. Len(t)
  BY <1>1, <1>3, <1>5
<1>8. \A i \in 0 .. Len(b) : \A k \in to(i) + 1 .. Len(t) :
        k = m \/ \E j \in i + 1 .. Len(b) : j \in 1 .. Len(b) /\ k = to(j)
  <2>1. ASSUME NEW i \in 0 .. Len(b), NEW k \in to(i) + 1 .. Len(t), k # m
        PROVE  \E j \in i + 1 .. Len(b) : j \in 1 .. Len(b) /\ k = to(j)
    <3>1. to(i) \in 0 .. Len(t)
      BY <1>1, <1>3, <1>6
    <3>2. k \in 1 .. Len(t)
      BY <1>1, <3>1
    <3>3. PICK j \in 1 .. Len(b) : k = to(j)
      BY <1>4, <2>1, <3>2
    <3>4. i < j
      <4>1. to(i) < to(j)
        BY <1>1, <3>1, <3>3
      <4>2. j \in 0 .. Len(b)
        BY <1>1
      <4>3. QED
        BY <1>5, <4>1, <4>2
    <3>5. QED
      BY <1>1, <3>3, <3>4
  <2>2. QED
    BY <2>1
<1>9. \A i \in 0 .. Len(b) : \A j \in i + 1 .. Len(b) :
        j \in 1 .. Len(b) /\ to(j) \in to(i) + 1 .. Len(t)
  <2>1. ASSUME NEW i \in 0 .. Len(b), NEW j \in i + 1 .. Len(b)
        PROVE  j \in 1 .. Len(b) /\ to(j) \in to(i) + 1 .. Len(t)
    <3>1. j \in 1 .. Len(b) /\ i < j
      BY <1>1
    <3>2. to(i) < to(j) /\ to(j) \in 1 .. Len(t) /\ to(i) \in 0 .. Len(t)
      BY <1>1, <1>3, <1>5, <1>6, <3>1
    <3>3. QED
      BY <1>1, <3>1, <3>2
  <2>2. QED
    BY <2>1
<1>10. ~Adopts(RECONCILE) /\ RECONCILE # DISCONNECTED(s) /\ RECONCILE # ENC(s) /\ RECONCILE # CONNECTED(s, Me)
  BY MoveFacts, NewsFacts, OtherFacts, HueBulbAssumption
<1>11. Told(t, s)
  <2>1. ASSUME NEW k \in 1 .. Len(t), t[k] = DISCONNECTED(s) \/ Adopts(t[k])
        PROVE  \E i \in k .. Len(t) :
                 t[i] = CONNECTED(s, Me) /\ \A j \in i + 1 .. Len(t) : t[j] # DISCONNECTED(s)
    <3>1. PICK l \in 1 .. Len(b) : k = to(l)
      BY <1>1, <1>4, <1>10, <2>1
    <3>2. PICK i \in l .. Len(b) :
            b[i] = CONNECTED(s, Me) /\ \A j \in i + 1 .. Len(b) : b[j] # DISCONNECTED(s)
      BY <1>3, <2>1, <3>1 DEF Knows, Told
    <3>3. i \in 1 .. Len(b) /\ i \in 0 .. Len(b) /\ to(i) \in k .. Len(t)
      BY <1>1, <1>7, <3>1, <3>2
    <3>4. ASSUME NEW j \in to(i) + 1 .. Len(t) PROVE t[j] # DISCONNECTED(s)
      <4>1. CASE j = m
        BY <1>1, <1>3, <1>10, <4>1
      <4>2. CASE j # m
        <5>1. PICK n \in i + 1 .. Len(b) : n \in 1 .. Len(b) /\ j = to(n)
          BY <1>8, <3>3, <4>2
        <5>2. t[j] = b[n] /\ b[n] # DISCONNECTED(s)
          BY <1>3, <3>2, <5>1
        <5>3. QED
          BY <5>2
      <4>3. QED
        BY <4>1, <4>2
    <3>5. QED
      BY <1>3, <3>2, <3>3, <3>4
  <2>2. QED
    BY <2>1 DEF Told
<1>12. Outdated(t, d, s)
  <2>1. ASSUME NEW k \in 1 .. Len(t), t[k] = ENC(s), s \notin d
        PROVE  \E i \in k + 1 .. Len(t) : Adopts(t[i])
    <3>1. PICK l \in 1 .. Len(b) : k = to(l)
      BY <1>1, <1>4, <1>10, <2>1
    <3>2. PICK i \in l + 1 .. Len(b) : Adopts(b[i])
      BY <1>3, <2>1, <3>1 DEF Knows, Outdated
    <3>3. l \in 0 .. Len(b)
      BY <1>1
    <3>4. QED
      BY <1>3, <1>9, <3>1, <3>2, <3>3
  <2>2. QED
    BY <2>1 DEF Outdated
<1>13. Judged(h, z, t, d, s)
  <2>1. ASSUME NEW k \in 0 .. Len(t), Holds(h, t, k, s),
               \A j \in k + 1 .. Len(t) : t[j] # DISCONNECTED(s) /\ ~Adopts(t[j])
        PROVE  s \in d <=> (k = 0 /\ z) \/ \E j \in k + 1 .. Len(t) : t[j] = ENC(s)
    <3>1. PICK i \in 0 .. Len(b) : k = to(i) /\ (i = 0 <=> k = 0)
      <4>1. CASE k = 0
        BY <1>1, <1>6, <4>1
      <4>2. CASE k # 0
        <5>1. k \in 1 .. Len(t) /\ k # m
          BY <1>1, <1>10, <2>1, <4>2 DEF Holds
        <5>2. PICK i \in 1 .. Len(b) : k = to(i)
          BY <1>4, <5>1
        <5>3. i \in 0 .. Len(b) /\ i # 0
          BY <1>1
        <5>4. QED
          BY <4>2, <5>2, <5>3
      <4>3. QED
        BY <4>1, <4>2
    <3>2. Holds(h, b, i, s)
      <4>1. i # 0 => i \in 1 .. Len(b)
        BY <1>1
      <4>2. QED
        BY <1>3, <2>1, <3>1, <4>1 DEF Holds
    <3>3. \A j \in i + 1 .. Len(b) : b[j] # DISCONNECTED(s) /\ ~Adopts(b[j])
      BY <1>3, <1>9, <2>1, <3>1
    <3>4. (\E j \in k + 1 .. Len(t) : t[j] = ENC(s)) <=> \E j \in i + 1 .. Len(b) : b[j] = ENC(s)
      <4>1. ASSUME NEW j \in i + 1 .. Len(b), b[j] = ENC(s) PROVE \E l \in k + 1 .. Len(t) : t[l] = ENC(s)
        BY <1>3, <1>9, <3>1, <4>1
      <4>2. ASSUME NEW l \in k + 1 .. Len(t), t[l] = ENC(s) PROVE \E j \in i + 1 .. Len(b) : b[j] = ENC(s)
        <5>1. PICK j \in i + 1 .. Len(b) : j \in 1 .. Len(b) /\ l = to(j)
          BY <1>1, <1>8, <1>10, <3>1, <4>2
        <5>2. QED
          BY <1>3, <4>2, <5>1
      <4>3. QED
        BY <4>1, <4>2
    <3>5. QED
      BY <3>1, <3>2, <3>3, <3>4 DEF Knows, Judged
  <2>2. QED
    BY <2>1 DEF Judged
<1>14. Reached(h, t, s)
  BY <1>1, <1>2 DEF Reached
<1>15. QED
  BY <1>11, <1>12, <1>13, <1>14 DEF Knows, t

\* The bulb reads a message: its handle and state change from h and z to g and y.
LEMMA ReadOn ==
  ASSUME NEW b \in Seq(Message), b # <<>>, NEW s \in Slot, NEW h, NEW z, NEW g, NEW y, NEW d,
         Knows(h, z, b, d, s),
         g = s => \/ b[1] = CONNECTED(s, Me) /\ ~y
                  \/ h = s /\ b[1] # DISCONNECTED(s) /\ ~Adopts(b[1]) /\ (y <=> z \/ b[1] = ENC(s))
                  \/ y <=> s \in d
  PROVE  Knows(g, y, Tail(b), d, s)
<1> DEFINE t == Tail(b)
<1>1. /\ Len(b) \in Nat \ {0} /\ Len(t) = Len(b) - 1
      /\ \A i \in 1 .. Len(t) : t[i] = b[i + 1]
  BY TailIndex
<1> HIDE DEF t
<1>2. \A i \in 0 .. Len(t) : \A j \in i + 1 .. Len(t) :
        j \in 1 .. Len(t) /\ j + 1 \in (i + 1) + 1 .. Len(b) /\ t[j] = b[j + 1]
  BY <1>1
<1>3. \A i \in 0 .. Len(t) : \A j \in (i + 1) + 1 .. Len(b) :
        j - 1 \in i + 1 .. Len(t) /\ t[j - 1] = b[j]
  <2>1. ASSUME NEW i \in 0 .. Len(t), NEW j \in (i + 1) + 1 .. Len(b)
        PROVE  j - 1 \in i + 1 .. Len(t) /\ t[j - 1] = b[j]
    <3>1. j - 1 \in i + 1 .. Len(t) /\ j - 1 \in 1 .. Len(t) /\ (j - 1) + 1 = j
      BY <1>1
    <3>2. QED
      BY <1>1, <3>1
  <2>2. QED
    BY <2>1
<1>4. Told(t, s)
  <2>1. ASSUME NEW k \in 1 .. Len(t), t[k] = DISCONNECTED(s) \/ Adopts(t[k])
        PROVE  \E i \in k .. Len(t) :
                 t[i] = CONNECTED(s, Me) /\ \A j \in i + 1 .. Len(t) : t[j] # DISCONNECTED(s)
    <3>1. k + 1 \in 1 .. Len(b) /\ t[k] = b[k + 1]
      BY <1>1
    <3>2. PICK i \in k + 1 .. Len(b) :
            b[i] = CONNECTED(s, Me) /\ \A j \in i + 1 .. Len(b) : b[j] # DISCONNECTED(s)
      BY <2>1, <3>1 DEF Knows, Told
    <3>3. i - 1 \in k .. Len(t) /\ i - 1 \in 1 .. Len(t) /\ (i - 1) + 1 = i
      BY <1>1, <3>2
    <3>4. ASSUME NEW j \in (i - 1) + 1 .. Len(t) PROVE t[j] # DISCONNECTED(s)
      <4>1. j \in 1 .. Len(t) /\ j + 1 \in i + 1 .. Len(b)
        BY <1>1, <3>3
      <4>2. QED
        BY <1>1, <3>2, <4>1
    <3>5. QED
      BY <1>1, <3>2, <3>3, <3>4
  <2>2. QED
    BY <2>1 DEF Told
<1>5. Outdated(t, d, s)
  <2>1. ASSUME NEW k \in 1 .. Len(t), t[k] = ENC(s), s \notin d
        PROVE  \E i \in k + 1 .. Len(t) : Adopts(t[i])
    <3>1. k + 1 \in 1 .. Len(b) /\ t[k] = b[k + 1] /\ k \in 0 .. Len(t)
      BY <1>1
    <3>2. PICK i \in (k + 1) + 1 .. Len(b) : Adopts(b[i])
      BY <2>1, <3>1 DEF Knows, Outdated
    <3>3. QED
      BY <1>3, <3>1, <3>2
  <2>2. QED
    BY <2>1 DEF Outdated
<1>6. \A i \in 0 .. Len(t) :
        /\ (\E j \in (i + 1) + 1 .. Len(b) : b[j] = ENC(s)) <=> \E j \in i + 1 .. Len(t) : t[j] = ENC(s)
        /\ (\A j \in i + 1 .. Len(t) : t[j] # DISCONNECTED(s) /\ ~Adopts(t[j])) =>
              \A j \in (i + 1) + 1 .. Len(b) : b[j] # DISCONNECTED(s) /\ ~Adopts(b[j])
  BY <1>2, <1>3
<1>7. \A i \in 0 .. Len(t) : i + 1 \in 0 .. Len(b) /\ i + 1 # 0
  BY <1>1
<1>8. ASSUME NEW i \in 0 .. Len(t), b[i + 1] = CONNECTED(s, Me),
             \A j \in i + 1 .. Len(t) : t[j] # DISCONNECTED(s) /\ ~Adopts(t[j])
      PROVE  s \in d <=> \E j \in i + 1 .. Len(t) : t[j] = ENC(s)
  <2>1. Holds(h, b, i + 1, s)
    BY <1>7, <1>8 DEF Holds
  <2>2. QED
    BY <1>6, <1>7, <1>8, <2>1 DEF Knows, Judged
<1>9. Judged(g, y, t, d, s)
  <2>1. ASSUME NEW i \in 0 .. Len(t), Holds(g, t, i, s),
               \A j \in i + 1 .. Len(t) : t[j] # DISCONNECTED(s) /\ ~Adopts(t[j])
        PROVE  s \in d <=> (i = 0 /\ y) \/ \E j \in i + 1 .. Len(t) : t[j] = ENC(s)
    <3>1. CASE i # 0
      <4>1. t[i] = b[i + 1]
        BY <1>1, <3>1
      <4>2. QED
        BY <1>8, <2>1, <3>1, <4>1 DEF Holds
    <3>2. CASE i = 0 /\ b[1] = CONNECTED(s, Me) /\ ~y
      BY <1>8, <2>1, <3>2
    <3>3. CASE i = 0 /\ h = s /\ b[1] # DISCONNECTED(s) /\ ~Adopts(b[1]) /\ (y <=> z \/ b[1] = ENC(s))
      <4>1. 0 \in 0 .. Len(b) /\ Holds(h, b, 0, s)
        BY <1>1, <3>3 DEF Holds
      <4>2. \A j \in 1 .. Len(b) : j = 1 \/ j \in (0 + 1) + 1 .. Len(b)
        BY <1>1
      <4>3. \A j \in 0 + 1 .. Len(b) : b[j] # DISCONNECTED(s) /\ ~Adopts(b[j])
        BY <1>6, <2>1, <3>3, <4>2
      <4>4. s \in d <=> z \/ \E j \in 0 + 1 .. Len(b) : b[j] = ENC(s)
        BY <4>1, <4>3 DEF Knows, Judged
      <4>5. (\E j \in 0 + 1 .. Len(b) : b[j] = ENC(s))
              <=> b[1] = ENC(s) \/ \E j \in (0 + 1) + 1 .. Len(b) : b[j] = ENC(s)
        BY <1>1, <4>2
      <4>6. QED
        BY <1>6, <3>3, <4>4, <4>5
    <3>4. CASE i = 0 /\ (y <=> s \in d)
      <4>1. ASSUME NEW j \in 0 + 1 .. Len(t), t[j] = ENC(s) PROVE s \in d
        <5>1. j \in 1 .. Len(t) /\ \A l \in j + 1 .. Len(t) : l \in i + 1 .. Len(t)
          BY <1>1, <3>4
        <5>2. \A l \in j + 1 .. Len(t) : ~Adopts(t[l])
          BY <2>1, <5>1
        <5>3. QED
          BY <1>5, <4>1, <5>1, <5>2 DEF Outdated
      <4>2. QED
        BY <3>4, <4>1
    <3>5. i = 0 => g = s
      BY <2>1 DEF Holds
    <3>6. QED
      BY <3>1, <3>2, <3>3, <3>4, <3>5
  <2>2. QED
    BY <2>1 DEF Judged
<1>10. QED
  BY <1>4, <1>5, <1>9 DEF Knows, t

-----------------------------------------------------------------------------
(* Steps of the driver                                                      *)

\* What event e makes of the record of handle s
Records(e, c, d, c1, d1, s) ==
  \/ ~Moves(e, s) /\ c1[s] = c[s] /\ (s \in d1 <=> s \in d \/ e = ENC(s))
  \/ \E p \in Peer : e = CONNECTED(s, p) /\ c1[s] = p /\ s \notin d1
  \/ e \in {READY, DISCONNECTED(s)} /\ c1[s] = None

\* What the two lemmas about a tail need of it
Handled(q, c, d, c1, d1, s) ==
  /\ ~Moves(q[1], s) => c1[s] = c[s] /\ (s \in d1 <=> s \in d \/ q[1] = ENC(s))
  /\ \A v \in Peer \cup {None} : Gives(q, c, 1, s, v) => c1[s] = v /\ (v # None => s \notin d1)
  /\ c1[s] = Me => q[1] = CONNECTED(s, Me) \/ (c[s] = Me /\ ~Cut(q, 1, s))

LEMMA RecordFacts ==
  ASSUME NEW q \in Seq(Event), q # <<>>, NEW c, NEW d, NEW c1, NEW d1, NEW s \in Slot,
         Records(q[1], c, d, c1, d1, s)
  PROVE  Handled(q, c, d, c1, d1, s)
<1>1. CASE ~Moves(q[1], s) /\ c1[s] = c[s] /\ (s \in d1 <=> s \in d \/ q[1] = ENC(s))
  <2>1. q[1] # READY /\ q[1] # DISCONNECTED(s) /\ \A p \in Peer : q[1] # CONNECTED(s, p)
    BY <1>1 DEF Moves
  <2>2. QED
    BY <1>1, <2>1 DEF Handled, Gives, Cut
<1>2. ASSUME NEW p \in Peer, q[1] = CONNECTED(s, p), c1[s] = p, s \notin d1
      PROVE  Handled(q, c, d, c1, d1, s)
  <2>1. Moves(q[1], s) /\ ~Cut(q, 1, s)
    BY <1>2, MoveFacts, NewsFacts, OtherFacts DEF Cut
  <2>2. ASSUME NEW v \in Peer, q[1] = CONNECTED(s, v) PROVE v = p
    <3>1. CONNECTED(s, v) = CONNECTED(s, p)
      BY <1>2, <2>2
    <3>2. QED
      BY <3>1, NewsFacts
  <2>3. ASSUME NEW v \in Peer \cup {None}, Gives(q, c, 1, s, v)
        PROVE  c1[s] = v /\ (v # None => s \notin d1)
    BY <1>2, <2>1, <2>2, <2>3 DEF Gives
  <2>4. c1[s] = Me => q[1] = CONNECTED(s, Me)
    BY <1>2
  <2>5. QED
    BY <2>1, <2>3, <2>4 DEF Handled
<1>3. CASE q[1] \in {READY, DISCONNECTED(s)} /\ c1[s] = None
  <2>1. Moves(q[1], s) /\ Cut(q, 1, s) /\ \A v \in Peer : q[1] # CONNECTED(s, v)
    BY <1>3, MoveFacts, NewsFacts, OtherFacts DEF Cut
  <2>2. QED
    BY <1>3, <2>1, HueBulbAssumption DEF Handled, Gives
<1>4. QED
  BY <1>1, <1>2, <1>3 DEF Records

LEMMA QueueLess ==
  ASSUME BulbInv, QueueInv, queue # <<>>, queue' = Tail(queue), UNCHANGED <<slot, enc>>,
         ~lossy' => ~lossy /\ \A s \in Slot : Records(queue[1], conns, encd, conns', encd', s)
  PROVE  QueueInv'
<1>1. queue \in Seq(Event) /\ slot \in [Slot -> Peer \cup {None}]
  BY DEF BulbInv, TypeOK, Event
<1>2. /\ Len(queue) \in Nat \ {0} /\ Len(Tail(queue)) = Len(queue) - 1
      /\ \A i \in 1 .. Len(queue) - 1 : Tail(queue)[i] = queue[i + 1]
  BY <1>1, TailIndex
<1>3. PICK c, d, t : c = conns' /\ d = encd' /\ t = Tail(queue)
  OBVIOUS
<1>4. \A i \in 1 .. Len(t) : t[i] # READY
  <2>1. \A i \in 2 .. Len(queue) : queue[i] # READY
    BY DEF QueueInv
  <2>2. \A i \in 1 .. Len(t) : i \in 1 .. Len(queue) - 1 /\ i + 1 \in 2 .. Len(queue)
    BY <1>2, <1>3
  <2>3. QED
    BY <1>2, <1>3, <2>1, <2>2
<1>5. ASSUME ~lossy'
      PROVE  Single(t, c) /\ (\A s \in Slot : Leads(t, c, d, slot, enc, s)) /\ OneLink(c)
  <2>1. ~lossy /\ \A s \in Slot : Records(queue[1], conns, encd, c, d, s)
    BY <1>3, <1>5
  <2>2. Single(queue, conns) /\ \A s \in Slot : Leads(queue, conns, encd, slot, enc, s)
    BY <2>1 DEF QueueInv
  <2>8. ASSUME NEW s \in Slot PROVE Handled(queue, conns, encd, c, d, s)
    BY <1>1, <2>1, RecordFacts
  <2>3. \A s \in Slot : c[s] = Me => queue[1] = CONNECTED(s, Me) \/ (conns[s] = Me /\ ~Cut(queue, 1, s))
    BY <2>8 DEF Handled
  <2>4. Single(t, c)
    BY <1>1, <1>3, <2>2, <2>3, SingleLess
  <2>5. ASSUME NEW s \in Slot PROVE Leads(t, c, d, slot, enc, s)
    <3>1. slot[s] \in Peer \cup {None}
      BY <1>1
    <3>2. /\ ~Moves(queue[1], s) => c[s] = conns[s] /\ (s \in d <=> s \in encd \/ queue[1] = ENC(s))
          /\ Gives(queue, conns, 1, s, slot[s]) => c[s] = slot[s] /\ (slot[s] # None => s \notin d)
      BY <2>8, <3>1 DEF Handled
    <3>3. QED
      BY <1>1, <1>3, <2>2, <3>2, LeadsLess
  <2>6. OneLink(c)
    <3> SUFFICES ASSUME NEW s \in Slot, NEW r \in Slot, c[s] = Me, c[r] = Me, s # r PROVE FALSE
      BY DEF OneLink
    <3>1. \A u \in Slot, v \in Slot : queue[1] = CONNECTED(u, Me) /\ conns[v] = Me => u = v
      <4> SUFFICES ASSUME NEW u \in Slot, NEW v \in Slot, queue[1] = CONNECTED(u, Me),
                          conns[v] = Me, u # v
                   PROVE  FALSE
        OBVIOUS
      <4>1. 0 \in 0 .. Len(queue) /\ 1 \in 0 .. Len(queue) /\ 0 < 1
        BY <1>2
      <4>2. At(queue, conns, 0, v, Me) /\ At(queue, conns, 1, u, Me)
        BY DEF At
      <4>3. \E j \in 0 + 1 .. 1 - 1 : Cut(queue, j, v)
        BY <2>2, <4>1, <4>2 DEF Single
      <4>4. QED
        BY <4>3
    <3>2. \A u \in Slot, v \in Slot :
            queue[1] = CONNECTED(u, Me) /\ queue[1] = CONNECTED(v, Me) => u = v
      BY NewsFacts, HueBulbAssumption
    <3>3. conns[s] = Me /\ conns[r] = Me /\ ~Cut(queue, 1, s)
      BY <2>3, <3>1, <3>2
    <3>4. queue[1] # READY
      BY <3>3 DEF Cut
    <3>5. Clean
      <4>1. \A i \in 1 .. Len(queue) : i = 1 \/ i \in 2 .. Len(queue)
        BY <1>2
      <4>2. \A i \in 1 .. Len(queue) : queue[i] # READY
        BY <3>4, <4>1 DEF QueueInv
      <4>3. QED
        BY <2>1, <4>2 DEF Clean
    <3>6. QED
      BY <3>3, <3>5 DEF QueueInv, OneLink
  <2>7. QED
    BY <2>4, <2>5, <2>6
<1>6. OneLink(slot) /\ \A s \in enc : slot[s] # None
  BY DEF QueueInv
<1>7. \A i \in 2 .. Len(t) : i \in 1 .. Len(t)
  BY <1>2, <1>3
<1>8. \A i \in 2 .. Len(queue') : queue'[i] # READY
  BY <1>3, <1>4, <1>7
<1>9. ~lossy' => Single(queue', conns') /\ \A s \in Slot : Leads(queue', conns', encd', slot', enc', s)
  BY <1>3, <1>5
<1>10. Clean' => OneLink(conns')
  BY <1>3, <1>5 DEF Clean
<1>11. OneLink(slot)' /\ \A s \in enc' : slot'[s] # None
  BY <1>6 DEF OneLink
<1>12. (OneLink(conns') => OneLink(conns)')
       /\ (Single(queue', conns') => Single(queue, conns)')
       /\ ((\A s \in Slot : Leads(queue', conns', encd', slot', enc', s))
             => (\A s \in Slot : Leads(queue, conns, encd, slot, enc, s))')
  BY DEF OneLink, Single, Leads, Gives, Cut, At
<1>13. QED
  BY <1>8, <1>9, <1>10, <1>11, <1>12 DEF QueueInv

LEMMA InformedOf ==
  ASSUME NEW s \in Slot, NEW h, NEW z, NEW b, NEW d,
         h = handle', z = connected', b = box', d = encd',
         Knows(h, z, b, d, s), phase' = "idle" /\ ~missed' => Reached(h, b, s)
  PROVE  Informed(s)'
BY DEF Informed, Knows, Told, Outdated, Judged, Reached, Holds, Adopts

LEMMA NewsRecords ==
  ASSUME BulbInv, HandleEvent, Head(queue) # READY
  PROVE  /\ queue[1] \in LinkNews /\ queue[1] # READY
         /\ Publish(<<queue[1]>>) /\ UNCHANGED lossy
         /\ \A s \in Slot : Records(queue[1], conns, encd, conns', encd', s)
<1>1. queue # <<>> /\ queue \in Seq(Event)
  BY DEF HandleEvent, BulbInv, TypeOK, Event
<1>2. PICK e : e = Head(queue)
  OBVIOUS
<1>3. /\ Publish(<<e>>)
      /\ conns' = CASE e[1] = "connected"    -> [conns EXCEPT ![e[2]] = e[3]]
                    [] e[1] = "disconnected" -> [conns EXCEPT ![e[2]] = None]
                    [] OTHER                 -> conns
      /\ encd' = IF e[1] = "enc" THEN encd \cup {e[2]} ELSE encd \ {e[2]}
      /\ UNCHANGED lossy
  BY <1>2 DEF HandleEvent
<1>4. e \in Event /\ queue[1] = e
  BY <1>1, <1>2, TailIndex
<1>5. e \in LinkNews /\ e # READY
  BY <1>2, <1>4 DEF Event
<1>6. /\ e[1] = "connected" => e[2] \in Slot /\ e[3] \in Peer /\ e = CONNECTED(e[2], e[3])
      /\ e[1] = "enc" => e[2] \in Slot /\ e = ENC(e[2])
      /\ e[1] = "disconnected" => e[2] \in Slot /\ e = DISCONNECTED(e[2])
      /\ e[1] \in {"connected", "enc", "disconnected"}
  BY <1>5, NewsParts
<1>7. conns \in [Slot -> Peer \cup {None}]
  BY DEF BulbInv, TypeOK
<1>8. PICK c, d : c = conns' /\ d = encd'
  OBVIOUS
<1>9. ASSUME NEW s \in Slot PROVE Records(e, conns, encd, c, d, s)
  <2>1. CASE e[1] = "connected"
    <3>1. PICK t \in Slot, r \in Peer : t = e[2] /\ r = e[3] /\ e = CONNECTED(t, r)
      BY <1>6, <2>1
    <3>2. c[t] = r /\ (\A u \in Slot : u # t => c[u] = conns[u]) /\ d = encd \ {t}
      BY <1>3, <1>7, <1>8, <2>1, <3>1
    <3>3. s # t => ~Moves(e, s) /\ e # ENC(s)
      BY <3>1, MoveFacts, NewsFacts
    <3>4. QED
      BY <3>1, <3>2, <3>3 DEF Records
  <2>2. CASE e[1] = "disconnected"
    <3>1. PICK t \in Slot : t = e[2] /\ e = DISCONNECTED(t)
      BY <1>6, <2>2
    <3>2. c[t] = None /\ (\A u \in Slot : u # t => c[u] = conns[u]) /\ d = encd \ {t}
      BY <1>3, <1>7, <1>8, <2>2, <3>1
    <3>3. s # t => ~Moves(e, s) /\ e # ENC(s)
      BY <3>1, MoveFacts, NewsFacts, HueBulbAssumption
    <3>4. QED
      BY <3>1, <3>2, <3>3 DEF Records
  <2>3. CASE e[1] = "enc"
    <3>1. PICK t \in Slot : t = e[2] /\ e = ENC(t)
      BY <1>6, <2>3
    <3>2. c = conns /\ d = encd \cup {t}
      BY <1>3, <1>8, <2>3, <3>1
    <3>3. ~Moves(e, s) /\ (e = ENC(s) <=> s = t)
      BY <3>1, MoveFacts
    <3>4. QED
      BY <3>2, <3>3 DEF Records
  <2>4. QED
    BY <1>6, <2>1, <2>2, <2>3
<1>10. QED
  BY <1>3, <1>4, <1>5, <1>8, <1>9

LEMMA NewsView ==
  ASSUME BulbInv, QueueInv, MailInv, HandleEvent, Head(queue) # READY
  PROVE  QueueInv' /\ MailInv'
<1>1. /\ queue # <<>> /\ queue' = Tail(queue)
      /\ UNCHANGED <<slot, enc, phase, handle, connected, missed>>
  BY DEF HandleEvent
<1>2. PICK e, c, d : e = queue[1] /\ c = conns' /\ d = encd'
  OBVIOUS
<1>3. /\ e \in LinkNews /\ e # READY /\ Publish(<<e>>) /\ UNCHANGED lossy
      /\ \A s \in Slot : Records(e, conns, encd, c, d, s)
  BY <1>2, NewsRecords
<1>4. QueueInv'
  <2>1. \A s \in Slot : Records(queue[1], conns, encd, conns', encd', s)
    BY <1>2, <1>3
  <2>2. QED
    BY <1>1, <1>3, <2>1, QueueLess
<1>5. queue \in Seq(Event) /\ box \in Seq(Message) /\ Newborn
  BY DEF BulbInv, TypeOK, Event, Message
<1>6. ASSUME Clean' PROVE Clean
  <2>1. /\ Len(queue) \in Nat \ {0} /\ Len(Tail(queue)) = Len(queue) - 1
        /\ \A i \in 1 .. Len(queue) - 1 : Tail(queue)[i] = queue[i + 1]
    BY <1>1, <1>5, TailIndex
  <2>2. \A i \in 1 .. Len(queue) : i = 1 \/ i \in 2 .. Len(queue)
    BY <2>1
  <2>3. \A i \in 1 .. Len(queue) : queue[i] # READY
    BY <1>2, <1>3, <2>2 DEF QueueInv
  <2>4. QED
    BY <1>3, <1>6, <2>3 DEF Clean
<1>7. handle' = None => ~connected'
  BY <1>1 DEF MailInv
<1>8. CASE phase = "starting"
  <2>1. box' = <<>> /\ handle = None /\ phase' # "idle"
    BY <1>1, <1>3, <1>5, <1>8 DEF Publish, Newborn
  <2>2. \A s \in Slot : Told(<<>>, s) /\ Outdated(<<>>, d, s) /\ Judged(None, connected, <<>>, d, s)
    BY HueBulbAssumption DEF Told, Outdated, Judged, Holds, Slot
  <2>3. ASSUME NEW s \in Slot PROVE Informed(s)'
    <3>1. Knows(None, connected, <<>>, d, s)
      BY <2>2 DEF Knows
    <3>2. QED
      BY <1>1, <1>2, <2>1, <3>1, InformedOf
  <2>4. QED
    BY <1>4, <1>7, <2>3 DEF MailInv
<1>9. CASE phase # "starting"
  <2>1. PICK b : b = box \o <<e>>
    OBVIOUS
  <2>2. box' = b
    BY <1>3, <1>9, <2>1 DEF Publish
  <2>3. e \in Message
    BY <1>3 DEF Message
  <2>4. ASSUME Clean', NEW s \in Slot, c[s] = Me
        PROVE  /\ Knows(handle, connected, b, d, s)
               /\ phase = "idle" /\ ~missed => Reached(handle, b, s)
    <3>1. Clean /\ OneLink(c)
      BY <1>2, <1>4, <1>6, <2>4 DEF QueueInv, OneLink
    <3>2. Records(e, conns, encd, c, d, s)
      BY <1>3
    <3>3. CASE \E p \in Peer : e = CONNECTED(s, p) /\ c[s] = p /\ s \notin d
      BY <1>5, <2>1, <2>3, <2>4, <3>3, Adopted
    <3>4. CASE ~Moves(e, s) /\ c[s] = conns[s] /\ (s \in d <=> s \in encd \/ e = ENC(s))
      <4>1. /\ Knows(handle, connected, box, encd, s)
            /\ phase = "idle" /\ ~missed => Reached(handle, box, s)
        BY <2>4, <3>1, <3>4 DEF MailInv, Informed
      <4>2. e # DISCONNECTED(s)
        BY <3>4, MoveFacts
      <4>3. ~Adopts(e)
        <5> SUFFICES ASSUME NEW t \in Slot, e = CONNECTED(t, Me) PROVE FALSE
          BY DEF Adopts
        <5>1. t # s /\ Me \in Peer
          BY <3>4, MoveFacts, HueBulbAssumption
        <5>2. c[t] = Me
          <6>1. Records(e, conns, encd, c, d, t)
            BY <1>3
          <6>2. Moves(e, t) /\ e # DISCONNECTED(t)
            BY <5>1, MoveFacts, NewsFacts
          <6>3. QED
            BY <1>3, <5>1, <6>1, <6>2, NewsFacts DEF Records
        <5>3. QED
          BY <2>4, <3>1, <5>1, <5>2 DEF OneLink
      <4>4. QED
        BY <1>5, <2>1, <2>3, <3>4, <4>1, <4>2, <4>3, Heard
    <3>5. QED
      BY <2>4, <3>2, <3>3, <3>4, HueBulbAssumption DEF Records
  <2>5. ASSUME Clean', NEW s \in Slot, conns'[s] = Me PROVE Informed(s)'
    <3>1. PICK h, z, bb, dd : h = handle' /\ z = connected' /\ bb = box' /\ dd = encd'
      OBVIOUS
    <3>2. Knows(h, z, bb, dd, s) /\ (phase' = "idle" /\ ~missed' => Reached(h, bb, s))
      BY <1>1, <1>2, <2>2, <2>4, <2>5, <3>1
    <3>3. QED
      BY <3>1, <3>2, InformedOf
  <2>6. QED
    BY <1>4, <1>7, <2>5 DEF MailInv
<1>10. QED
  BY <1>4, <1>8, <1>9

LEMMA ReadyView ==
  ASSUME BulbInv, QueueInv, MailInv, HandleEvent, Head(queue) = READY
  PROVE  QueueInv' /\ MailInv'
<1>1. /\ queue # <<>> /\ queue' = Tail(queue) /\ OnReady
      /\ UNCHANGED <<slot, enc, phase, handle, connected, missed>>
  BY DEF HandleEvent
<1>2. queue[1] = READY
  <2>1. queue \in Seq(Event)
    BY DEF BulbInv, TypeOK, Event
  <2>2. QED
    BY <1>1, <2>1, TailIndex
<1>3. ~lossy' => ~lossy /\ \A s \in Slot : conns'[s] = None
  BY <1>1 DEF OnReady, NoLinks
<1>4. ~lossy' => ~lossy /\ \A s \in Slot : Records(queue[1], conns, encd, conns', encd', s)
  BY <1>2, <1>3 DEF Records
<1>5. QueueInv'
  BY <1>1, <1>4, QueueLess
<1>6. Clean' => \A s \in Slot : conns'[s] # Me
  BY <1>3, HueBulbAssumption DEF Clean
<1>7. handle' = None => ~connected'
  BY <1>1 DEF MailInv
<1>8. QED
  BY <1>5, <1>6, <1>7 DEF MailInv

-----------------------------------------------------------------------------
(* Steps of the bulb, and of the driver towards it                          *)

LEMMA QueueAsBefore ==
  ASSUME QueueInv, UNCHANGED <<slot, enc, queue, conns, encd, lossy>>
  PROVE  QueueInv' /\ (Clean' <=> Clean)
<1>1. Clean' <=> Clean
  BY DEF Clean
<1>2. QueueInv'
  BY <1>1 DEF QueueInv, OneLink, Single, Leads, Gives, Cut, At
<1>3. QED
  BY <1>1, <1>2

LEMMA CheckReadyView ==
  ASSUME BulbInv, QueueInv, MailInv, CheckReady
  PROVE  QueueInv' /\ MailInv'
<1>1. UNCHANGED <<slot, enc, queue, conns, encd, bulb, lossy, missed>>
  BY DEF CheckReady
<1>2. UNCHANGED <<phase, box, handle, connected>>
  BY <1>1 DEF bulb
<1>3. QED
  BY <1>1, <1>2, QueueAsBefore, MailAsBefore

LEMMA NothingHeard ==
  ASSUME NEW z, NEW d, NEW s \in Slot
  PROVE  Knows(None, z, <<>>, d, s)
<1>1. None \notin Slot
  BY HueBulbAssumption DEF Slot
<1>2. ~Holds(None, <<>>, 0, s)
  BY <1>1 DEF Holds
<1>3. Told(<<>>, s) /\ Outdated(<<>>, d, s)
  BY DEF Told, Outdated
<1>4. Judged(None, z, <<>>, d, s)
  BY <1>2 DEF Judged
<1>5. QED
  BY <1>3, <1>4 DEF Knows

LEMMA SubscribeView ==
  ASSUME BulbInv, QueueInv, MailInv, Subscribe
  PROVE  QueueInv' /\ MailInv'
<1>1. /\ phase = "starting" /\ phase' = "init"
      /\ UNCHANGED <<nrf, driver, box, handle, connected, lossy, missed>>
  BY DEF Subscribe
<1>2. UNCHANGED <<slot, enc, queue, conns, encd>> /\ handle = None /\ box = <<>>
  BY <1>1 DEF nrf, driver, BulbInv, Newborn
<1>3. QueueInv' /\ (Clean' <=> Clean)
  BY <1>1, <1>2, QueueAsBefore
<1>4. ASSUME NEW s \in Slot PROVE Informed(s)'
  <2>1. PICK h, z, b, d : h = handle' /\ z = connected' /\ b = box' /\ d = encd'
    OBVIOUS
  <2>2. Knows(h, z, b, d, s) /\ phase' # "idle"
    BY <1>1, <1>2, <2>1, NothingHeard
  <2>3. QED
    BY <2>1, <2>2, InformedOf
<1>5. handle' = None => ~connected'
  BY <1>1 DEF MailInv
<1>6. QED
  BY <1>3, <1>4, <1>5 DEF MailInv

LEMMA InitEndsView ==
  ASSUME BulbInv, QueueInv, MailInv, InitEnds
  PROVE  QueueInv' /\ MailInv'
<1>1. UNCHANGED <<nrf, driver, handle, connected, lossy, missed>>
  BY DEF InitEnds
<1>2. UNCHANGED <<slot, enc, queue, conns, encd>> /\ box \in Seq(Message)
  BY <1>1 DEF nrf, driver, BulbInv, TypeOK, Message
<1>3. QueueInv' /\ (Clean' <=> Clean)
  BY <1>1, <1>2, QueueAsBefore
<1>4. PICK k \in 1 .. Len(box) + 1 : box' = InsertAt(box, k, RECONCILE)
  BY DEF InitEnds
<1>5. ASSUME NEW s \in Slot, Informed(s) PROVE Informed(s)'
  <2>1. PICK h, z, b, d : h = handle' /\ z = connected' /\ b = box' /\ d = encd'
    OBVIOUS
  <2>2. Knows(handle, connected, box, encd, s)
    BY <1>5 DEF Informed
  <2>3. Knows(handle, connected, InsertAt(box, k, RECONCILE), encd, s)
          /\ Reached(handle, InsertAt(box, k, RECONCILE), s)
    BY <1>2, <2>2, Inserted
  <2>4. Knows(h, z, b, d, s) /\ Reached(h, b, s)
    BY <1>1, <1>2, <1>4, <2>1, <2>3
  <2>5. QED
    BY <2>1, <2>4, InformedOf
<1>6. handle' = None => ~connected'
  BY <1>1 DEF MailInv
<1>7. QED
  BY <1>2, <1>3, <1>5, <1>6 DEF MailInv

LEMMA UnpairView ==
  ASSUME BulbInv, QueueInv, MailInv, Unpair
  PROVE  QueueInv' /\ MailInv'
<1>1. box' = Append(box, UNPAIR) /\ UNCHANGED <<nrf, driver, phase, handle, connected, lossy, missed>>
  BY DEF Unpair
<1>2. UNCHANGED <<slot, enc, queue, conns, encd>> /\ box \in Seq(Message)
  BY <1>1 DEF nrf, driver, BulbInv, TypeOK, Message
<1>3. QueueInv' /\ (Clean' <=> Clean)
  BY <1>1, <1>2, QueueAsBefore
<1>4. PICK e : e = UNPAIR
  OBVIOUS
<1>5. e \in Message /\ ~Adopts(e) /\ \A s \in Slot : e # DISCONNECTED(s) /\ e # ENC(s)
  BY <1>4, MoveFacts, NewsFacts, OtherFacts DEF Message
<1>6. box' = box \o <<e>>
  BY <1>1, <1>2, <1>4
<1>7. ASSUME NEW s \in Slot, Informed(s) PROVE Informed(s)'
  <2>1. PICK h, z, b, d : h = handle' /\ z = connected' /\ b = box' /\ d = encd'
    OBVIOUS
  <2>2. Knows(handle, connected, box, encd, s)
    BY <1>7 DEF Informed
  <2>3. /\ Knows(handle, connected, box \o <<e>>, encd, s)
        /\ Reached(handle, box, s) => Reached(handle, box \o <<e>>, s)
    BY <1>2, <1>5, <2>2, Heard
  <2>4. Knows(h, z, b, d, s) /\ (phase' = "idle" /\ ~missed' => Reached(h, b, s))
    BY <1>1, <1>2, <1>6, <1>7, <2>1, <2>3 DEF Informed
  <2>5. QED
    BY <2>1, <2>4, InformedOf
<1>8. handle' = None => ~connected'
  BY <1>1 DEF MailInv
<1>9. QED
  BY <1>2, <1>3, <1>7, <1>8 DEF MailInv

LEMMA BulbCrashView ==
  ASSUME BulbInv, QueueInv, MailInv, BulbCrash
  PROVE  QueueInv' /\ MailInv'
<1>1. /\ UNCHANGED <<slot, enc, queue, listing, driver, lossy>>
      /\ phase' = "starting" /\ box' = <<>> /\ handle' = None /\ connected' = FALSE
  BY DEF BulbCrash, Starts
<1>2. UNCHANGED <<conns, encd>>
  BY <1>1 DEF driver
<1>3. QueueInv'
  BY <1>1, <1>2, QueueAsBefore
<1>4. ASSUME NEW s \in Slot PROVE Informed(s)'
  <2>1. PICK h, z, b, d : h = handle' /\ z = connected' /\ b = box' /\ d = encd'
    OBVIOUS
  <2>2. Knows(h, z, b, d, s) /\ phase' # "idle"
    BY <1>1, <2>1, NothingHeard
  <2>3. QED
    BY <2>1, <2>2, InformedOf
<1>5. QED
  BY <1>1, <1>3, <1>4 DEF MailInv

\* The driver forgets its view: what is in the queue still tells of the table, or the nRF
\* has booted and not a link is up, or the view is called lossy.
LEMMA EspRestartView ==
  ASSUME BulbInv, QueueInv, MailInv, EspRestart
  PROVE  QueueInv' /\ MailInv'
<1>1. /\ UNCHANGED <<slot, enc, queue>>
      /\ conns' = NoLinks /\ encd' = {} /\ handle' = None /\ connected' = FALSE
      /\ lossy' = (lossy \/ (slot # NoLinks /\ READY \notin ToSet(queue)))
  BY DEF EspRestart, Starts, nrf
<1>2. queue \in Seq(Event) /\ slot \in [Slot -> Peer \cup {None}]
  BY DEF BulbInv, TypeOK, Event
<1>3. \A s \in Slot : NoLinks[s] = None /\ NoLinks[s] # Me
  BY HueBulbAssumption DEF NoLinks
<1>4. ASSUME ~lossy'
      PROVE  /\ Single(queue, NoLinks)
             /\ \A s \in Slot : Leads(queue, NoLinks, {}, slot, enc, s)
  <2>1. ~lossy /\ (slot = NoLinks \/ READY \in ToSet(queue))
    BY <1>1, <1>4
  <2>2. Single(queue, conns) /\ \A s \in Slot : Leads(queue, conns, encd, slot, enc, s)
    BY <2>1 DEF QueueInv
  <2>3. Single(queue, NoLinks)
    <3>1. \A s \in Slot, i \in 0 .. Len(queue) : At(queue, NoLinks, i, s, Me) => At(queue, conns, i, s, Me)
      BY <1>3 DEF At
    <3>2. QED
      BY <2>2, <3>1 DEF Single
  <2>4. ASSUME NEW s \in Slot PROVE Leads(queue, NoLinks, {}, slot, enc, s)
    <3>1. PICK i \in 0 .. Len(queue) :
            /\ Gives(queue, conns, i, s, slot[s])
            /\ \A j \in i + 1 .. Len(queue) : ~Moves(queue[j], s)
            /\ slot[s] # None =>
                 (s \in enc <=> (i = 0 /\ s \in encd) \/ \E j \in i + 1 .. Len(queue) : queue[j] = ENC(s))
      BY <2>2 DEF Leads
    <3>2. CASE i # 0
      <4>1. Gives(queue, NoLinks, i, s, slot[s])
        BY <3>1, <3>2 DEF Gives
      <4>2. QED
        BY <3>1, <3>2, <4>1 DEF Leads
    <3>3. CASE i = 0
      <4>1. \A j \in 1 .. Len(queue) : queue[j] # READY
        BY <3>1, <3>3, MoveFacts
      <4>2. READY \notin ToSet(queue)
        BY <1>2, <4>1 DEF ToSet
      <4>3. slot[s] = None
        BY <1>3, <2>1, <4>2
      <4>4. Gives(queue, NoLinks, 0, s, slot[s])
        BY <1>3, <4>3 DEF Gives
      <4>5. QED
        BY <3>1, <3>3, <4>3, <4>4 DEF Leads
    <3>4. QED
      BY <3>2, <3>3
  <2>5. QED
    BY <2>3, <2>4
<1>5. OneLink(NoLinks)
  BY <1>3 DEF OneLink
<1>6. QueueInv'
  <2>1. /\ \A i \in 2 .. Len(queue') : queue'[i] # READY
        /\ OneLink(slot)' /\ \A s \in enc' : slot'[s] # None
    BY <1>1 DEF QueueInv, OneLink
  <2>2. ~lossy' => Single(queue, conns)' /\ (\A s \in Slot : Leads(queue, conns, encd, slot, enc, s))'
    BY <1>1, <1>4 DEF Single, Leads, Gives, Cut, At
  <2>3. OneLink(conns)'
    BY <1>1, <1>5 DEF OneLink
  <2>4. QED
    BY <2>1, <2>2, <2>3 DEF QueueInv
<1>7. \A s \in Slot : conns'[s] # Me
  BY <1>1, <1>3
<1>8. QED
  BY <1>1, <1>6, <1>7 DEF MailInv

\* The bulb reads a message about a link, and has handle g afterwards.
LEMMA ReachedOn ==
  ASSUME NEW b \in Seq(Message), b # <<>>, NEW s \in Slot, NEW h, NEW g, Told(b, s),
         \/ g \in Slot /\ b[1] = CONNECTED(g, Me)
         \/ /\ b[1] # RECONCILE /\ b[1] # UNPAIR /\ ~Adopts(b[1]) /\ Reached(h, b, s)
            /\ g = h \/ b[1] = DISCONNECTED(h)
  PROVE  Reached(g, Tail(b), s)
<1> DEFINE t == Tail(b)
<1>1. /\ Len(b) \in Nat \ {0} /\ Len(t) = Len(b) - 1
      /\ \A i \in 1 .. Len(t) : t[i] = b[i + 1]
  BY TailIndex
<1> HIDE DEF t
<1> SUFFICES ASSUME \A j \in 1 .. Len(t) : t[j] # RECONCILE /\ t[j] # UNPAIR /\ ~Adopts(t[j])
             PROVE  g = s
  BY DEF Reached, t
<1>2. \A i \in 1 .. Len(b) : i = 1 \/ (b[i] # RECONCILE /\ b[i] # UNPAIR /\ ~Adopts(b[i]))
  <2>1. ASSUME NEW i \in 1 .. Len(b), i # 1
        PROVE  b[i] # RECONCILE /\ b[i] # UNPAIR /\ ~Adopts(b[i])
    <3>1. i - 1 \in 1 .. Len(t) /\ (i - 1) + 1 = i
      BY <1>1, <2>1
    <3>2. t[i - 1] = b[i]
      BY <1>1, <3>1
    <3>3. QED
      BY <3>1, <3>2
  <2>2. QED
    BY <2>1
<1>3. \A u \in Slot : Adopts(CONNECTED(u, Me))
  BY MoveFacts, HueBulbAssumption
<1>4. b[1] = DISCONNECTED(s) \/ Adopts(b[1]) => b[1] = CONNECTED(s, Me)
  <2> SUFFICES ASSUME b[1] = DISCONNECTED(s) \/ Adopts(b[1]) PROVE b[1] = CONNECTED(s, Me)
    OBVIOUS
  <2>1. 1 \in 1 .. Len(b)
    BY <1>1
  <2>2. PICK i \in 1 .. Len(b) : b[i] = CONNECTED(s, Me)
    BY <2>1 DEF Told
  <2>3. QED
    BY <1>2, <1>3, <2>2
<1>5. CASE g \in Slot /\ b[1] = CONNECTED(g, Me)
  BY <1>3, <1>4, <1>5, NewsFacts, HueBulbAssumption
<1>6. CASE /\ b[1] # RECONCILE /\ b[1] # UNPAIR /\ ~Adopts(b[1]) /\ Reached(h, b, s)
           /\ g = h \/ b[1] = DISCONNECTED(h)
  <2>1. h = s
    BY <1>2, <1>6 DEF Reached
  <2>2. b[1] # DISCONNECTED(s)
    BY <1>3, <1>4, <1>6
  <2>3. QED
    BY <1>6, <2>1, <2>2
<1>7. QED
  BY <1>5, <1>6

\* What a message makes of the handle and state, h and z, of the bulb whose link is s
Reads(m, h, z, g, y, d, s) ==
  \/ m = CONNECTED(g, Me) /\ g \in Slot /\ ~y
  \/ /\ m # RECONCILE /\ m # UNPAIR /\ ~Adopts(m)
     /\ g = h /\ m # DISCONNECTED(h) /\ (g = s => (y <=> z \/ m = ENC(s)))
  \/ m = DISCONNECTED(h) /\ g = None
  \/ m = RECONCILE /\ g = s /\ (y <=> s \in d)

\* What a message makes of the handle and state of a bulb that misses the news of its
\* link, or has been unpaired
Misses(m, h, z, g, y) ==
  \/ m = RECONCILE /\ g = h /\ y = z
  \/ m = UNPAIR /\ g = None

LEMMA EndFacts ==
  ASSUME NEW h
  PROVE  /\ \A t \in Slot, p \in Peer : CONNECTED(t, p) # DISCONNECTED(h)
         /\ \A t \in Slot : ENC(t) # DISCONNECTED(h)
         /\ \A t \in Slot : DISCONNECTED(t) = DISCONNECTED(h) => t = h
BY DEF CONNECTED, ENC, DISCONNECTED

LEMMA BulbReads ==
  ASSUME BulbInv, BulbHandle, MailInv, NEW s \in Slot, conns[s] = Me, OneLink(conns)
  PROVE  /\ \/ Reads(box[1], handle, connected, handle', connected', encd, s)
            \/ missed' /\ Misses(box[1], handle, connected, handle', connected')
         /\ ~missed' => ~missed \/ Adopts(box[1])
<1>1. box # <<>> /\ box \in Seq(Message)
  BY DEF BulbHandle, BulbInv, TypeOK, Message
<1>2. PICK m : m = Head(box)
  OBVIOUS
<1>3. box[1] = m /\ m \in LinkNews \cup {RECONCILE, UNPAIR}
  BY <1>1, <1>2, TailIndex DEF Message
<1>4. PICK h, z, g, y, d : h = handle /\ z = connected /\ g = handle' /\ y = connected' /\ d = encd
  OBVIOUS
<1>5. /\ m[1] = "connected" => m[2] \in Slot /\ m[3] \in Peer /\ m = CONNECTED(m[2], m[3])
      /\ m[1] = "enc" => m[2] \in Slot /\ m = ENC(m[2])
      /\ m[1] = "disconnected" => m[2] \in Slot /\ m = DISCONNECTED(m[2])
  BY <1>3, NewsParts
<1>6. missed \in BOOLEAN
  BY DEF BulbInv, TypeOK
<1> DEFINE Goal == /\ Reads(m, h, z, g, y, d, s) \/ (missed' /\ Misses(m, h, z, g, y))
                   /\ ~missed' => ~missed \/ Adopts(m)
<1>7. ASSUME m[1] = "connected", OnConnected(m[2], m[3]), missed' = (missed /\ m[3] # Me)
      PROVE  Goal
  <2>1. PICK t \in Slot, p \in Peer : t = m[2] /\ p = m[3] /\ m = CONNECTED(t, p)
    BY <1>5, <1>7
  <2>2. m # RECONCILE /\ m # UNPAIR /\ m # DISCONNECTED(h) /\ m # ENC(s) /\ (Adopts(m) <=> p = Me)
    BY <2>1, EndFacts, MoveFacts, NewsFacts, OtherFacts
  <2>3. CASE p = Me
    <3>1. g = t /\ y = FALSE
      BY <1>4, <1>7, <2>1, <2>3 DEF OnConnected, Noted
    <3>2. QED
      BY <2>1, <2>2, <2>3, <3>1 DEF Reads
  <2>4. CASE p # Me
    <3>1. g = h /\ y = z
      BY <1>4, <1>7, <2>1, <2>4 DEF OnConnected, Ignored
    <3>2. ~missed' => ~missed
      BY <1>7, <2>1, <2>4
    <3>3. Reads(m, h, z, g, y, d, s)
      BY <2>2, <2>4, <3>1 DEF Reads
    <3>4. QED
      BY <3>2, <3>3
  <2>5. QED
    BY <2>3, <2>4
<1>8. ASSUME m[1] = "enc", OnEncChange(m[2]), UNCHANGED missed PROVE Goal
  <2>1. PICK t \in Slot : t = m[2] /\ m = ENC(t)
    BY <1>5, <1>8
  <2>2. /\ m # RECONCILE /\ m # UNPAIR /\ m # DISCONNECTED(h) /\ ~Adopts(m)
        /\ m = ENC(s) <=> t = s
    BY <2>1, EndFacts, MoveFacts, NewsFacts, OtherFacts, HueBulbAssumption
  <2>3. g = h /\ (g = s => (y <=> z \/ m = ENC(s)))
    <3>1. CASE t = h
      <4>1. g = t /\ y = TRUE
        BY <1>4, <1>8, <2>1, <3>1 DEF OnEncChange, Ready
      <4>2. QED
        BY <2>2, <3>1, <4>1
    <3>2. CASE t # h
      <4>1. g = h /\ y = z
        BY <1>4, <1>8, <2>1, <3>2 DEF OnEncChange, Ignored
      <4>2. QED
        BY <2>2, <3>2, <4>1
    <3>3. QED
      BY <3>1, <3>2
  <2>4. Reads(m, h, z, g, y, d, s)
    BY <2>2, <2>3 DEF Reads
  <2>5. QED
    BY <1>8, <2>4
<1>9. ASSUME m[1] = "disconnected", OnDisconnected(m[2]), UNCHANGED missed PROVE Goal
  <2>1. PICK t \in Slot : t = m[2] /\ m = DISCONNECTED(t)
    BY <1>5, <1>9
  <2>2. m # RECONCILE /\ m # UNPAIR /\ ~Adopts(m) /\ m # ENC(s)
    BY <2>1, MoveFacts, NewsFacts, OtherFacts, HueBulbAssumption
  <2>3. CASE t = h
    <3>1. g = None
      BY <1>4, <1>9, <2>1, <2>3 DEF OnDisconnected, Noted
    <3>2. Reads(m, h, z, g, y, d, s)
      BY <2>1, <2>3, <3>1 DEF Reads
    <3>3. QED
      BY <1>9, <3>2
  <2>4. CASE t # h
    <3>1. g = h /\ y = z
      BY <1>4, <1>9, <2>1, <2>4 DEF OnDisconnected, Ignored
    <3>2. m # DISCONNECTED(h)
      BY <2>1, <2>4, EndFacts
    <3>3. Reads(m, h, z, g, y, d, s)
      BY <2>2, <3>1, <3>2 DEF Reads
    <3>4. QED
      BY <1>9, <3>3
  <2>5. QED
    BY <2>3, <2>4
<1>10. ASSUME m = RECONCILE, OnReconcile PROVE Goal
  <2>1. CASE UNCHANGED missed /\ \E t \in Slot : conns[t] = Me /\ IF t \in encd THEN Ready(t) ELSE Noted(t)
    <3>1. PICK t \in Slot : conns[t] = Me /\ IF t \in encd THEN Ready(t) ELSE Noted(t)
      BY <2>1
    <3>2. t = s
      BY <3>1 DEF OneLink
    <3>3. g = s /\ (y <=> s \in d)
      BY <1>4, <3>1, <3>2 DEF Ready, Noted
    <3>4. Reads(m, h, z, g, y, d, s)
      BY <1>10, <3>3 DEF Reads
    <3>5. QED
      BY <2>1, <3>4
  <2>2. CASE missed' = TRUE /\ Ignored
    <3>1. Misses(m, h, z, g, y)
      BY <1>4, <1>10, <2>2 DEF Ignored, Misses
    <3>2. QED
      BY <2>2, <3>1
  <2>3. QED
    BY <1>10, <2>1, <2>2 DEF OnReconcile
<1>11. ASSUME m = UNPAIR, OnUnpair PROVE Goal
  <2>1. missed' = TRUE /\ g = None
    BY <1>4, <1>11 DEF OnUnpair, Noted
  <2>2. QED
    BY <1>11, <2>1 DEF Misses
<1>12. Goal
  <2> HIDE DEF Goal
  <2>1. QED
    BY <1>2, <1>7, <1>8, <1>9, <1>10, <1>11 DEF BulbHandle
<1>13. QED
  BY <1>3, <1>4, <1>12

\* Without a handle it is not ready, whatever it reads.
LEMMA BulbUnready ==
  ASSUME BulbInv, BulbHandle, MailInv
  PROVE  handle' = None => ~connected'
<1>1. box # <<>> /\ box \in Seq(Message) /\ None \notin Slot
  BY HueBulbAssumption DEF BulbHandle, BulbInv, TypeOK, Message, Slot
<1>2. PICK m : m = Head(box)
  OBVIOUS
<1>3. m \in LinkNews \cup {RECONCILE, UNPAIR}
  BY <1>1, <1>2, TailIndex DEF Message
<1>4. m[1] = "enc" => m[2] \in Slot
  BY <1>3, NewsParts
<1>5. \/ UNCHANGED <<handle, connected>> \/ connected' = FALSE
      \/ \E t \in Slot : handle' = t
  BY <1>2, <1>4 DEF BulbHandle, OnConnected, OnEncChange, OnDisconnected, OnReconcile, OnUnpair,
                    Ready, Noted, Ignored
<1>6. handle = None => ~connected
  BY DEF MailInv
<1>7. QED
  BY <1>1, <1>5, <1>6

LEMMA BulbHandleView ==
  ASSUME BulbInv, QueueInv, MailInv, BulbHandle
  PROVE  QueueInv' /\ MailInv'
<1>1. /\ box # <<>> /\ box' = Tail(box) /\ phase = "idle"
      /\ UNCHANGED <<slot, enc, queue, driver, phase, lossy>>
  BY DEF BulbHandle
<1>2. UNCHANGED <<conns, encd>> /\ box \in Seq(Message)
  BY <1>1 DEF driver, BulbInv, TypeOK, Message
<1>3. QueueInv' /\ (Clean' <=> Clean)
  BY <1>1, <1>2, QueueAsBefore
<1>4. None \notin Slot
  BY HueBulbAssumption DEF Slot
<1>5. ASSUME Clean, NEW s \in Slot, conns[s] = Me PROVE Informed(s)'
  <2>1. PICK g, y : g = handle' /\ y = connected'
    OBVIOUS
  <2>2. OneLink(conns) /\ Informed(s)
    BY <1>5 DEF QueueInv, MailInv
  <2>3. /\ \/ Reads(box[1], handle, connected, g, y, encd, s)
           \/ missed' /\ Misses(box[1], handle, connected, g, y)
        /\ ~missed' => ~missed \/ Adopts(box[1])
    BY <1>5, <2>1, <2>2, BulbReads
  <2>4. Knows(handle, connected, box, encd, s) /\ Told(box, s)
    BY <2>2 DEF Informed, Knows
  <2>5. /\ RECONCILE # DISCONNECTED(s) /\ ~Adopts(RECONCILE) /\ RECONCILE # ENC(s)
    BY MoveFacts, NewsFacts, OtherFacts
  <2>6. g = s => \/ box[1] = CONNECTED(s, Me) /\ ~y
                 \/ /\ handle = s /\ box[1] # DISCONNECTED(s) /\ ~Adopts(box[1])
                    /\ y <=> connected \/ box[1] = ENC(s)
                 \/ y <=> s \in encd
    BY <1>4, <2>3, <2>5 DEF Reads, Misses
  <2>7. Knows(g, y, Tail(box), encd, s)
    BY <1>1, <1>2, <2>4, <2>6, ReadOn
  <2>8. ASSUME ~missed' PROVE Reached(g, Tail(box), s)
    <3>1. Reads(box[1], handle, connected, g, y, encd, s) /\ (~missed \/ Adopts(box[1]))
      BY <2>3, <2>8
    <3>2. CASE box[1] = RECONCILE /\ g = s
      BY <3>2 DEF Reached
    <3>3. CASE g \in Slot /\ box[1] = CONNECTED(g, Me)
      BY <1>1, <1>2, <2>4, <3>3, ReachedOn
    <3>4. CASE /\ box[1] # RECONCILE /\ box[1] # UNPAIR /\ ~Adopts(box[1])
               /\ g = handle \/ box[1] = DISCONNECTED(handle)
      <4>1. Reached(handle, box, s)
        BY <1>1, <2>2, <3>1, <3>4 DEF Informed
      <4>2. QED
        BY <1>1, <1>2, <2>4, <3>4, <4>1, ReachedOn
    <3>5. CASE box[1] = DISCONNECTED(handle)
      <4>1. box[1] # RECONCILE /\ box[1] # UNPAIR /\ ~Adopts(box[1])
        <5>1. RECONCILE # DISCONNECTED(handle) /\ UNPAIR # DISCONNECTED(handle)
          BY DEF RECONCILE, UNPAIR, DISCONNECTED
        <5>2. ~Adopts(DISCONNECTED(handle))
          BY EndFacts, HueBulbAssumption DEF Adopts
        <5>3. QED
          BY <3>5, <5>1, <5>2
      <4>2. QED
        BY <3>4, <3>5, <4>1
    <3>6. QED
      BY <3>1, <3>2, <3>3, <3>4, <3>5 DEF Reads
  <2>9. PICK b, d : b = box' /\ d = encd'
    OBVIOUS
  <2>10. Knows(g, y, b, d, s) /\ (phase' = "idle" /\ ~missed' => Reached(g, b, s))
    BY <1>1, <1>2, <2>7, <2>8, <2>9
  <2>11. QED
    BY <2>1, <2>9, <2>10, InformedOf
<1>6. handle' = None => ~connected'
  BY BulbUnready
<1>7. QED
  BY <1>2, <1>3, <1>5, <1>6 DEF MailInv

-----------------------------------------------------------------------------

LEMMA InitView == ASSUME Init PROVE QueueInv /\ MailInv
<1>1. /\ slot = NoLinks /\ enc = {} /\ queue = <<READY>> /\ conns = NoLinks
      /\ connected = FALSE
  BY DEF Init
<1>2. Len(queue) = 1 /\ queue[1] = READY /\ \A s \in Slot : slot[s] = None /\ conns[s] = None
  BY <1>1 DEF NoLinks
<1>3. ~Clean
  BY <1>2 DEF Clean
<1>4. Single(queue, conns)
  <2>1. \A s \in Slot : READY # CONNECTED(s, Me)
    BY NewsFacts, OtherFacts, HueBulbAssumption
  <2>2. \A k \in 0 .. Len(queue), s \in Slot : ~At(queue, conns, k, s, Me)
    BY <1>2, <2>1, HueBulbAssumption DEF At
  <2>3. QED
    BY <2>2 DEF Single
<1>5. ASSUME NEW s \in Slot PROVE Leads(queue, conns, encd, slot, enc, s)
  <2>1. 1 \in 1 .. Len(queue) /\ Len(queue) \in Nat /\ \A j \in 1 + 1 .. Len(queue) : FALSE
    BY <1>2
  <2>2. Gives(queue, conns, 1, s, slot[s])
    BY <1>2 DEF Gives, Cut
  <2>3. QED
    BY <1>2, <2>1, <2>2, Moved
<1>6. OneLink(slot) /\ (\A s \in enc : slot[s] # None) /\ \A i \in 2 .. Len(queue) : queue[i] # READY
  BY <1>1, <1>2, HueBulbAssumption DEF OneLink
<1>7. QED
  BY <1>1, <1>3, <1>4, <1>5, <1>6 DEF QueueInv, MailInv

LEMMA NextView ==
  ASSUME BulbInv, QueueInv, MailInv, [Next]_vars
  PROVE  QueueInv' /\ MailInv'
<1>1. CASE UNCHANGED vars
  <2>1. UNCHANGED <<slot, enc, queue, conns, encd, lossy, phase, box, handle, connected, missed>>
    BY <1>1 DEF vars, nrf, driver, bulb
  <2>2. QED
    BY <2>1, QueueAsBefore, MailAsBefore
<1>2. CASE Nrf
  <2>1. ASSUME NEW s \in Slot, LinkDown(s) PROVE QueueInv' /\ MailInv'
    <3>1. Dropped({s}) /\ {s} \in SUBSET Slot /\ UNCHANGED <<driver, bulb, missed>>
      BY <2>1 DEF LinkDown
    <3>2. QED
      BY <3>1, DroppedView
  <2>2. ASSUME CmdExec PROVE QueueInv' /\ MailInv'
    <3>1. PICK ss \in SUBSET Slot : Dropped(ss)
      BY <2>2 DEF CmdExec
    <3>2. UNCHANGED <<driver, bulb, missed>>
      BY <2>2 DEF CmdExec
    <3>3. QED
      BY <3>1, <3>2, DroppedView
  <2>3. QED
    BY <1>2, <2>1, <2>2, LinkUpView, EncryptedView, ReportView, ResetView DEF Nrf
<1>3. CASE Driver
  BY <1>3, ReadyView, NewsView, CheckReadyView DEF Driver
<1>4. CASE Bulb
  BY <1>4, SubscribeView, InitEndsView, BulbHandleView DEF Bulb
<1>5. QED
  BY <1>1, <1>2, <1>3, <1>4, UnpairView, BulbCrashView, EspRestartView DEF Next

LEMMA ViewInvariant == Spec => [](QueueInv /\ MailInv)
<1>1. Init => QueueInv /\ MailInv
  BY InitView
<1>2. BulbInv /\ (QueueInv /\ MailInv) /\ [Next]_vars => (QueueInv /\ MailInv)'
  BY NextView
<1>3. QED
  BY <1>1, <1>2, Invariant, PTL DEF Spec

\* Once all news has been read, the bulb's handle and the state of its encryption are
\* those of the table of ble_central.c: no interleaving of connected_cb,
\* security_changed_cb, disconnected_cb, the list command, the drain of the driver, the
\* answer to reconcile_connection and a busy bulb leaves it with an old one.
THEOREM SettledTheorem == Spec => []SettledView
<1>1. BulbInv /\ QueueInv /\ MailInv => SettledView
  <2> SUFFICES ASSUME BulbInv, QueueInv, MailInv, Quiet, ~lossy
               PROVE  <<handle, connected>> = Truth \/ (missed /\ handle = None)
    BY DEF SettledView
  <2>1. queue = <<>> /\ box = <<>> /\ phase = "idle"
    BY DEF Quiet
  <2>2. Len(queue) = 0 /\ Len(box) = 0
    BY <2>1
  <2>3. /\ slot \in [Slot -> Peer \cup {None}] /\ handle \in Slot \cup {None}
        /\ connected \in BOOLEAN /\ None \notin Slot /\ Me # None
    BY HueBulbAssumption DEF BulbInv, TypeOK, Slot
  <2>4. Clean /\ OneLink(conns)
    BY <2>2 DEF Clean, QueueInv
  <2>5. \A s \in Slot : conns[s] = slot[s] /\ (slot[s] # None => (s \in enc <=> s \in encd))
    <3> SUFFICES ASSUME NEW s \in Slot
                 PROVE  conns[s] = slot[s] /\ (slot[s] # None => (s \in enc <=> s \in encd))
      OBVIOUS
    <3>1. Leads(queue, conns, encd, slot, enc, s)
      BY DEF QueueInv
    <3>2. QED
      BY <2>2, <3>1 DEF Leads, Gives
  <2>6. ASSUME handle # None PROVE slot[handle] = Me
    <3>1. PICK s \in Slot : s = handle
      BY <2>3, <2>6
    <3>2. Keeps(handle, box, s)
      BY <2>2, <3>1 DEF Keeps, Holds
    <3>3. READY \notin ToSet(queue)
      BY <2>1 DEF ToSet
    <3>4. conns[s] = Me
      BY <3>2, <3>3 DEF BulbInv, Own
    <3>5. QED
      BY <2>5, <3>1, <3>4
  <2>7. ASSUME NEW s \in Slot, slot[s] = Me
        PROVE  /\ Truth = <<s, s \in enc>>
               /\ handle = s => (connected <=> s \in enc)
               /\ missed \/ handle = s
    <3>1. \A t \in Slot : slot[t] = Me <=> t = s
      BY <2>7 DEF QueueInv, OneLink
    <3>2. (CHOOSE t \in Slot : slot[t] = Me) = s
      BY <3>1
    <3>3. Truth = <<s, s \in enc>>
      BY <2>7, <3>2 DEF Truth
    <3>4. Informed(s)
      BY <2>4, <2>5, <2>7 DEF MailInv
    <3>5. handle = s => (connected <=> s \in enc)
      <4>1. Judged(handle, connected, box, encd, s)
        BY <3>4 DEF Informed, Knows
      <4>2. handle = s => (s \in encd <=> connected)
        BY <2>2, <4>1 DEF Judged, Holds
      <4>3. QED
        BY <2>3, <2>5, <2>7, <4>2
    <3>6. missed \/ handle = s
      BY <2>1, <2>2, <3>4 DEF Informed, Reached
    <3>7. QED
      BY <3>3, <3>5, <3>6
  <2>8. CASE \E s \in Slot : slot[s] = Me
    <3>1. PICK s \in Slot : slot[s] = Me
      BY <2>8
    <3>2. handle = None \/ handle = s
      BY <2>3, <2>6, <3>1 DEF QueueInv, OneLink
    <3>3. CASE handle = s
      <4>1. connected = (s \in enc)
        BY <2>3, <2>7, <3>1, <3>3
      <4>2. QED
        BY <2>7, <3>1, <3>3, <4>1
    <3>4. CASE handle = None
      BY <2>3, <2>7, <3>1, <3>4
    <3>5. QED
      BY <3>2, <3>3, <3>4
  <2>9. CASE ~ \E s \in Slot : slot[s] = Me
    <3>1. handle = None
      BY <2>3, <2>6, <2>9
    <3>2. connected = FALSE
      BY <2>3, <3>1 DEF MailInv
    <3>3. Truth = <<None, FALSE>>
      BY <2>9 DEF Truth
    <3>4. QED
      BY <3>1, <3>2, <3>3
  <2>10. QED
    BY <2>8, <2>9
<1>2. QED
  BY <1>1, Invariant, ViewInvariant, PTL
=============================================================================
