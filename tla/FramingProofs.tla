---------------------------- MODULE FramingProofs ---------------------------
(***************************************************************************)
(* Theorems about the two receivers of Framing, for packets of every size, *)
(* buffers of every size that holds a frame, any number of packets and any *)
(* number of failures of the line: the buffers stay bounded, packets come  *)
(* out in the order they went in, frame errors tell the truth, and a       *)
(* failure of the line costs no packet but the ones it touches.            *)
(*                                                                         *)
(* Both receivers do the same to the stream, the bytes in the buffer and   *)
(* on the line: they leave it as it is, or take bytes off its front and    *)
(* pass a verdict on them.  What holds of the stream holds of both.        *)
(*                                                                         *)
(* The second half is about the byte stuffing, for data of every length    *)
(* and every content: what cobs_encode writes cobs_decode reads back,      *)
(* nothing else is read as the same data, and the encoding is no longer    *)
(* than MAX_FRAME_SIZE takes it to be.  Both walk over their input by a    *)
(* recursion of their own.  What holds at every place is proved by looking *)
(* at the first place where it fails (LeastPlace): there is none before    *)
(* it, and a step does not lead to it.                                     *)
(***************************************************************************)
EXTENDS MCFraming, SequenceTheorems, FiniteSetTheorems, FunctionTheorems,
        WellFoundedInduction, TLAPS

-----------------------------------------------------------------------------
(* The inductive invariants *)

stream == frame \o line

Place(p, i) == [packet |-> p, place |-> i]

(* What stands at this place of a packet's encoding and its delimiter. *)
Coded(p, i, sz) == IF i <= sz[p] THEN Place(p, i) ELSE Delimiter

Before(a, b) == a.packet < b.packet \/ (a.packet = b.packet /\ a.place < b.place)

(* Every byte that was sent is of a packet that was sent.                   *)
Known(s, sz) ==
  \A i \in 1..Len(s) : s[i] \in Places =>
    s[i].packet \in 1..Len(sz) /\ s[i].place \in 1..sz[s[i].packet]

Ordered(s) ==
  \A i, j \in 1..Len(s) :
    i < j /\ s[i] \in Places /\ s[j] \in Places => Before(s[i], s[j])

(* What is still to come is of later packets than what has come out.        *)
Later(s, d) ==
  \A i \in 1..Len(s), k \in 1..Len(d) : s[i] \in Places => d[k] < s[i].packet

Increasing(d) == \A i, j \in 1..Len(d) : i < j => d[i] < d[j]

OrderInv ==
  /\ Known(stream, sizes)
  /\ Ordered(stream)
  /\ Later(stream, delivered)
  /\ Increasing(delivered)

(* Nothing but encodings, each one to its end and with its delimiter.       *)
Complete(s, j, sz) ==
  \A i \in s[j].place..sz[s[j].packet] + 1 :
    /\ j + (i - s[j].place) \in 1..Len(s)
    /\ s[j + (i - s[j].place)] = Coded(s[j].packet, i, sz)

Clean(s, sz) ==
  \A j \in 1..Len(s) :
    \/ s[j] = Delimiter
    \/ /\ s[j] \in Places /\ Complete(s, j, sz)
       /\ j = 1 \/ s[j - 1] = Delimiter => s[j].place = 1

CleanInv == damage = 0 => Clean(stream, sizes) /\ errors = 0

(* The places of a packet that are still to come.                           *)
Present(s, p, sz) == {i \in 1..sz[p] : \E j \in 1..Len(s) : s[j] = Place(p, i)}

Out(d, p) == \E k \in 1..Len(d) : d[k] = p

(* As long as no error was counted, a packet that has not come out is only  *)
(* short of what the line has taken away.                                   *)
LossInv ==
  errors = 0 =>
    \A p \in 1..Len(sizes) :
      Out(delivered, p) \/ Cardinality(Present(stream, p, sizes)) + damage >= sizes[p]

(* A whole packet behind a delimiter, or at the beginning: it will come out. *)
Stands(s, p, j, sz) ==
  /\ j \in 1..Len(s) /\ j + sz[p] \in 1..Len(s)
  /\ \A i \in 1..sz[p] + 1 : s[(j - 1) + i] = Coded(p, i, sz)
  /\ j = 1 \/ s[j - 1] = Delimiter

Safe(s, p, sz) == \E j \in 1..Len(s) : Stands(s, p, j, sz)

Gone(s, d, sz) == {p \in 1..Len(sz) : ~Out(d, p) /\ ~Safe(s, p, sz)}

(* The next packet runs into what the last one has left. *)
Taint(s) == IF Len(s) > 0 /\ s[Len(s)] # Delimiter THEN 1 ELSE 0

(* A failure costs two packets at most, of those sent or to be sent next.   *)
LocalInv == Cardinality(Gone(stream, delivered, sizes)) + Taint(stream) <= 2 * damage

-----------------------------------------------------------------------------
(* Sequences *)

LEMMA ConcatIndex ==
  ASSUME NEW S, NEW f \in Seq(S), NEW l \in Seq(S)
  PROVE  /\ f \o l \in Seq(S)
         /\ Len(f) \in Nat /\ Len(l) \in Nat
         /\ Len(f \o l) = Len(f) + Len(l)
         /\ DOMAIN f = 1..Len(f) /\ DOMAIN l = 1..Len(l)
         /\ DOMAIN (f \o l) = 1..Len(f) + Len(l)
         /\ \A i \in 1..Len(f) : (f \o l)[i] = f[i]
         /\ \A i \in 1..Len(l) : (f \o l)[Len(f) + i] = l[i]
         /\ \A i \in Len(f) + 1..Len(f) + Len(l) : (f \o l)[i] = l[i - Len(f)]
<1>1. /\ f \o l \in Seq(S)
      /\ Len(f \o l) = Len(f) + Len(l)
      /\ \A i \in 1..Len(f) + Len(l) :
           (f \o l)[i] = IF i <= Len(f) THEN f[i] ELSE l[i - Len(f)]
  BY ConcatProperties
<1>2. Len(f) \in Nat /\ Len(l) \in Nat /\ DOMAIN f = 1..Len(f) /\ DOMAIN l = 1..Len(l)
  BY LenProperties
<1>3. DOMAIN (f \o l) = 1..Len(f) + Len(l)
  BY <1>1, LenProperties
<1> QED BY <1>1, <1>2, <1>3

LEMMA FrontIndex ==
  ASSUME NEW S, NEW s \in Seq(S), NEW n \in 0..Len(s)
  PROVE  /\ SubSeq(s, 1, n) \in Seq(S)
         /\ Len(SubSeq(s, 1, n)) = n
         /\ DOMAIN SubSeq(s, 1, n) = 1..n
         /\ \A k \in 1..n : SubSeq(s, 1, n)[k] = s[k]
<1>1. Len(s) \in Nat /\ \A i \in 1..n : s[i] \in S
  BY LenProperties, ElementOfSeq
<1>2. /\ SubSeq(s, 1, n) \in Seq(S)
      /\ Len(SubSeq(s, 1, n)) = IF 1 <= n THEN n - 1 + 1 ELSE 0
      /\ \A i \in 1..n - 1 + 1 : SubSeq(s, 1, n)[i] = s[1 + i - 1]
  BY <1>1, SubSeqProperties
<1>3. Len(SubSeq(s, 1, n)) = n
  BY <1>1, <1>2
<1>4. ASSUME NEW k \in 1..n PROVE SubSeq(s, 1, n)[k] = s[k]
  <2>1. 1 + k - 1 = k /\ k \in 1..n - 1 + 1
    BY <1>1
  <2> QED BY <1>2, <2>1
<1> QED BY <1>2, <1>3, <1>4, LenProperties

LEMMA BackIndex ==
  ASSUME NEW S, NEW s \in Seq(S), NEW n \in 0..Len(s)
  PROVE  /\ SubSeq(s, n + 1, Len(s)) \in Seq(S)
         /\ Len(SubSeq(s, n + 1, Len(s))) = Len(s) - n
         /\ DOMAIN SubSeq(s, n + 1, Len(s)) = 1..Len(s) - n
         /\ \A k \in 1..Len(s) - n : SubSeq(s, n + 1, Len(s))[k] = s[n + k]
<1> DEFINE l == SubSeq(s, n + 1, Len(s))
<1>1. Len(s) \in Nat /\ n + 1 \in Int /\ \A i \in n + 1..Len(s) : s[i] \in S
  BY LenProperties, ElementOfSeq
<1>2. /\ l \in Seq(S)
      /\ Len(l) = IF n + 1 <= Len(s) THEN Len(s) - (n + 1) + 1 ELSE 0
      /\ \A i \in 1..Len(s) - (n + 1) + 1 : l[i] = s[(n + 1) + i - 1]
  BY <1>1, SubSeqProperties
<1> HIDE DEF l
<1>3. Len(l) = Len(s) - n
  BY <1>1, <1>2
<1>4. ASSUME NEW k \in 1..Len(s) - n PROVE l[k] = s[n + k]
  <2>1. (n + 1) + k - 1 = n + k /\ k \in 1..Len(s) - (n + 1) + 1
    BY <1>1
  <2> QED BY <1>2, <2>1
<1>5. DOMAIN l = 1..Len(s) - n
  BY <1>2, <1>3, LenProperties
<1> QED BY <1>2, <1>3, <1>4, <1>5 DEF l

IsRemoved(t, s, i) ==
  /\ Len(t) = Len(s) - 1
  /\ \A k \in 1..Len(s) - 1 : t[k] = IF k < i THEN s[k] ELSE s[k + 1]

IsInserted(t, s, i, b) ==
  /\ Len(t) = Len(s) + 1
  /\ \A k \in 1..Len(s) + 1 :
       t[k] = IF k <= i THEN s[k] ELSE IF k = i + 1 THEN b ELSE s[k - 1]

LEMMA RemoveIndex ==
  ASSUME NEW S, NEW s \in Seq(S), NEW i \in 1..Len(s)
  PROVE  /\ SubSeq(s, 1, i - 1) \o SubSeq(s, i + 1, Len(s)) \in Seq(S)
         /\ IsRemoved(SubSeq(s, 1, i - 1) \o SubSeq(s, i + 1, Len(s)), s, i)
<1>0. Len(s) \in Nat /\ i \in 1..Len(s) /\ i - 1 \in 0..Len(s) /\ i \in 0..Len(s)
  BY LenProperties
<1> DEFINE f == SubSeq(s, 1, i - 1)  l == SubSeq(s, i + 1, Len(s))  t == f \o l
<1>1. f \in Seq(S) /\ Len(f) = i - 1 /\ \A k \in 1..i - 1 : f[k] = s[k]
  BY <1>0, FrontIndex
<1>2. l \in Seq(S) /\ Len(l) = Len(s) - i /\ \A k \in 1..Len(s) - i : l[k] = s[i + k]
  BY <1>0, BackIndex
<1> HIDE DEF f, l
<1>3. /\ t \in Seq(S) /\ Len(t) = Len(f) + Len(l)
      /\ \A k \in 1..Len(f) : t[k] = f[k]
      /\ \A k \in Len(f) + 1..Len(f) + Len(l) : t[k] = l[k - Len(f)]
  <2>1. f \in Seq(S) /\ l \in Seq(S)
    BY <1>1, <1>2
  <2> QED BY <2>1, ConcatIndex, ZenonT(40)
<1> HIDE DEF t
<1>4. ASSUME NEW k \in 1..Len(s) - 1
      PROVE  t[k] = IF k < i THEN s[k] ELSE s[k + 1]
  <2>1. CASE k < i
    BY <1>0, <1>1, <1>3, <2>1
  <2>2. CASE ~(k < i)
    <3>1. k - (i - 1) \in 1..Len(s) - i /\ i + (k - (i - 1)) = k + 1
      BY <1>0, <2>2
    <3>2. t[k] = l[k - (i - 1)]
      BY <1>0, <1>1, <1>2, <1>3, <2>2
    <3> QED BY <1>2, <2>2, <3>1, <3>2
  <2> QED BY <2>1, <2>2
<1>5. t \in Seq(S) /\ IsRemoved(t, s, i)
  BY <1>0, <1>1, <1>2, <1>3, <1>4 DEF IsRemoved
<1> QED BY <1>5 DEF t, f, l

LEMMA InsertIndex ==
  ASSUME NEW S, NEW s \in Seq(S), NEW i \in 1..Len(s), NEW b \in S
  PROVE  /\ SubSeq(s, 1, i) \o <<b>> \o SubSeq(s, i + 1, Len(s)) \in Seq(S)
         /\ IsInserted(SubSeq(s, 1, i) \o <<b>> \o SubSeq(s, i + 1, Len(s)), s, i, b)
<1>0. Len(s) \in Nat /\ i \in 1..Len(s) /\ i \in 0..Len(s)
  BY LenProperties
<1> DEFINE f == SubSeq(s, 1, i)  l == SubSeq(s, i + 1, Len(s))  one == <<b>>
           h == f \o one  t == h \o l
<1>1. f \in Seq(S) /\ Len(f) = i /\ \A k \in 1..i : f[k] = s[k]
  BY <1>0, FrontIndex
<1>2. l \in Seq(S) /\ Len(l) = Len(s) - i /\ \A k \in 1..Len(s) - i : l[k] = s[i + k]
  BY <1>0, BackIndex
<1>3. one \in Seq(S) /\ Len(one) = 1 /\ one[1] = b
  OBVIOUS
<1> HIDE DEF f, l, one
<1>4. /\ h \in Seq(S) /\ Len(h) = Len(f) + Len(one)
      /\ \A k \in 1..Len(f) : h[k] = f[k]
      /\ \A k \in Len(f) + 1..Len(f) + Len(one) : h[k] = one[k - Len(f)]
  <2>1. f \in Seq(S) /\ one \in Seq(S)
    BY <1>1, <1>3
  <2> QED BY <2>1, ConcatIndex, ZenonT(40)
<1> HIDE DEF h
<1>5. /\ t \in Seq(S) /\ Len(t) = Len(h) + Len(l)
      /\ \A k \in 1..Len(h) : t[k] = h[k]
      /\ \A k \in Len(h) + 1..Len(h) + Len(l) : t[k] = l[k - Len(h)]
  <2>1. h \in Seq(S) /\ l \in Seq(S)
    BY <1>2, <1>4
  <2> QED BY <2>1, ConcatIndex, ZenonT(40)
<1> HIDE DEF t
<1>6. Len(h) = i + 1 /\ h[i + 1] = b
  <2>1. (i + 1) - Len(f) = 1 /\ i + 1 \in Len(f) + 1..Len(f) + Len(one)
    BY <1>0, <1>1, <1>3
  <2> QED BY <1>0, <1>1, <1>3, <1>4, <2>1
<1>7. ASSUME NEW k \in 1..Len(s) + 1
      PROVE  t[k] = IF k <= i THEN s[k] ELSE IF k = i + 1 THEN b ELSE s[k - 1]
  <2>1. CASE k <= i
    BY <1>0, <1>1, <1>4, <1>5, <1>6, <2>1
  <2>2. CASE k = i + 1
    BY <1>0, <1>5, <1>6, <2>2
  <2>3. CASE k > i + 1
    <3>1. k - (i + 1) \in 1..Len(s) - i /\ i + (k - (i + 1)) = k - 1
      BY <1>0, <2>3
    <3>2. t[k] = l[k - (i + 1)]
      <4>1. k \in Len(h) + 1..Len(h) + Len(l) /\ k - Len(h) = k - (i + 1)
        BY ONLY <1>0, <1>2, <1>6, <2>3, k \in 1..Len(s) + 1
      <4> QED BY <1>5, <4>1
    <3>3. t[k] = s[k - 1]
      BY <1>2, <3>1, <3>2
    <3> QED BY <1>0, <2>3, <3>3
  <2> QED BY <1>0, <2>1, <2>2, <2>3
<1>8. t \in Seq(S) /\ IsInserted(t, s, i, b)
  BY <1>0, <1>2, <1>5, <1>6, <1>7 DEF IsInserted
<1> QED BY <1>8 DEF t, h, f, l, one

-----------------------------------------------------------------------------
(* What the line does to the stream *)

StreamTypes ==
  /\ LineTypeOK
  /\ frame \in Seq(Bytes)

(* A new packet and its delimiter at the end. *)
Grown(t, s, p, sz) ==
  /\ Len(t) = Len(s) + sz[p] + 1
  /\ \A j \in 1..Len(s) : t[j] = s[j]
  /\ \A i \in 1..sz[p] + 1 : t[Len(s) + i] = Coded(p, i, sz)

(* One failure at x: what is before x stays, what is behind it moves by o,  *)
(* and nothing that was sent appears in between but the byte at x itself.   *)
Hit(t, s, x, o) ==
  /\ x \in 1..Len(s) /\ o \in {-1, 0, 1}
  /\ Len(t) = Len(s) + o
  /\ \A k \in 1..x - 1 : t[k] = s[k]
  /\ \A k \in x + 1..Len(s) : t[k + o] = s[k]
  /\ \A k \in x..x + o : t[k] \in Places => k = x /\ t[k] = s[x]

LEMMA RemovedHits ==
  ASSUME NEW s, NEW t, Len(s) \in Nat, NEW i \in 1..Len(s), IsRemoved(t, s, i)
  PROVE  Hit(t, s, i, -1)
<1>1. Len(t) = Len(s) + (-1) /\ -1 \in {-1, 0, 1}
  BY DEF IsRemoved
<1>2. \A k \in 1..i - 1 : t[k] = s[k]
  BY DEF IsRemoved
<1>3. ASSUME NEW k \in i + 1..Len(s) PROVE t[k + (-1)] = s[k]
  <2>1. k + (-1) \in 1..Len(s) - 1 /\ ~(k + (-1) < i) /\ (k + (-1)) + 1 = k
    OBVIOUS
  <2> QED BY <2>1 DEF IsRemoved
<1>4. i..i + (-1) = {}
  OBVIOUS
<1> QED BY <1>1, <1>2, <1>3, <1>4 DEF Hit

LEMMA InsertedHits ==
  ASSUME NEW s, NEW t, Len(s) \in Nat, NEW i \in 1..Len(s),
         NEW b \in {Delimiter, Noise}, IsInserted(t, s, i, b)
  PROVE  Hit(t, s, i, 1)
<1>1. Len(t) = Len(s) + 1 /\ \A k \in 1..i - 1 : t[k] = s[k]
  BY DEF IsInserted
<1>2. ASSUME NEW k \in i + 1..Len(s) PROVE t[k + 1] = s[k]
  <2>1. k + 1 \in 1..Len(s) + 1 /\ ~(k + 1 <= i) /\ k + 1 # i + 1 /\ (k + 1) - 1 = k
    OBVIOUS
  <2> QED BY <2>1 DEF IsInserted
<1>3. ASSUME NEW k \in i..i + 1, t[k] \in Places PROVE k = i /\ t[k] = s[i]
  <2>1. k \in 1..Len(s) + 1 /\ (k = i \/ k = i + 1)
    OBVIOUS
  <2>2. k # i + 1
    BY <1>3, <2>1, BytesAssumption DEF IsInserted
  <2> QED BY <2>1, <2>2 DEF IsInserted
<1> QED BY <1>1, <1>2, <1>3 DEF Hit

LEMMA ChangedHits ==
  ASSUME NEW s, NEW t, Len(s) \in Nat, NEW i \in 1..Len(s), Len(t) = Len(s),
         t[i] \in {Delimiter, Noise}, \A k \in 1..Len(s) : k # i => t[k] = s[k]
  PROVE  Hit(t, s, i, 0)
<1>1. \A k \in i..i + 0 : t[k] \notin Places
  BY BytesAssumption
<1>2. \A k \in i + 1..Len(s) : k + 0 = k /\ t[k] = s[k]
  OBVIOUS
<1> QED BY <1>1, <1>2 DEF Hit

(* It is the same with something before it. *)
LEMMA HitBehind ==
  ASSUME NEW f \in Seq(Bytes), NEW s \in Seq(Bytes), NEW t \in Seq(Bytes),
         NEW x, NEW o, Hit(t, s, x, o)
  PROVE  Hit(f \o t, f \o s, Len(f) + x, o)
<1> DEFINE n == Len(f)  S == f \o s  T == f \o t  X == n + x
<1>1. /\ n \in Nat /\ Len(s) \in Nat /\ Len(S) = n + Len(s)
      /\ \A k \in 1..n : S[k] = f[k]
      /\ \A k \in n + 1..n + Len(s) : S[k] = s[k - n]
  BY ConcatIndex, ZenonT(40)
<1>2. /\ Len(t) \in Nat /\ Len(T) = n + Len(t)
      /\ \A k \in 1..n : T[k] = f[k]
      /\ \A k \in n + 1..n + Len(t) : T[k] = t[k - n]
  BY ConcatIndex, ZenonT(40)
<1> HIDE DEF n, S, T
<1>3. /\ x \in 1..Len(s) /\ x \in Nat /\ o \in {-1, 0, 1} /\ o \in Int
      /\ Len(t) = Len(s) + o /\ X = n + x
      /\ X \in 1..Len(S) /\ Len(T) = Len(S) + o
  BY <1>1, <1>2 DEF Hit
<1> HIDE DEF X
<1>4. ASSUME NEW k \in 1..X - 1 PROVE T[k] = S[k]
  <2>1. CASE k <= n
    BY <1>1, <1>2, <1>3, <2>1
  <2>2. CASE k > n
    <3>1. /\ k \in n + 1..n + Len(s) /\ k \in n + 1..n + Len(t)
          /\ k - n \in 1..x - 1
      BY <1>1, <1>2, <1>3, <2>2
    <3>2. t[k - n] = s[k - n]
      BY <3>1 DEF Hit
    <3> QED BY <1>1, <1>2, <3>1, <3>2
  <2> QED BY <1>1, <1>3, <2>1, <2>2
<1>5. ASSUME NEW k \in X + 1..Len(S) PROVE T[k + o] = S[k]
  <2>1. /\ k \in n + 1..n + Len(s) /\ k + o \in n + 1..n + Len(t)
        /\ k - n \in x + 1..Len(s) /\ (k + o) - n = (k - n) + o
    BY <1>1, <1>2, <1>3
  <2>2. t[(k - n) + o] = s[k - n]
    BY <2>1 DEF Hit
  <2> QED BY <1>1, <1>2, <2>1, <2>2
<1>6. ASSUME NEW k \in X..X + o, T[k] \in Places PROVE k = X /\ T[k] = S[X]
  <2>1. /\ k \in n + 1..n + Len(t) /\ k - n \in x..x + o
        /\ X \in n + 1..n + Len(s) /\ X - n = x
    BY <1>1, <1>2, <1>3
  <2>2. t[k - n] = T[k]
    BY <1>2, <2>1
  <2>3. k - n = x /\ t[k - n] = s[x]
    BY <1>6, <2>1, <2>2 DEF Hit
  <2>4. k = X
    BY <1>1, <1>3, <2>1, <2>3
  <2> QED BY <1>1, <2>1, <2>2, <2>3, <2>4
<1>7. Hit(T, S, X, o)
  BY <1>3, <1>4, <1>5, <1>6 DEF Hit
<1> QED BY <1>7 DEF n, S, T, X

(* What was sent and is still there comes from the places m gives, in       *)
(* order, and nothing but the byte at x is gone.                            *)
Thins(t, s, m, x) ==
  /\ \A k \in 1..Len(t) : t[k] \in Places => m[k] \in 1..Len(s) /\ t[k] = s[m[k]]
  /\ \A j, k \in 1..Len(t) :
       j < k /\ t[j] \in Places /\ t[k] \in Places => m[j] < m[k]
  /\ \A j \in 1..Len(s) : j # x => \E k \in 1..Len(t) : t[k] = s[j]

LEMMA HitThins ==
  ASSUME NEW s, NEW t, Len(s) \in Nat, NEW x, NEW o, Hit(t, s, x, o)
  PROVE  \E m : Thins(t, s, m, x)
<1> DEFINE m == [k \in 1..Len(t) |-> IF k < x THEN k ELSE IF k <= x + o THEN x ELSE k - o]
<1>1. /\ x \in 1..Len(s) /\ o \in {-1, 0, 1} /\ o \in Int
      /\ Len(t) = Len(s) + o /\ Len(t) \in Int
  BY DEF Hit
<1>2. ASSUME NEW k \in 1..Len(t), t[k] \in Places
      PROVE  /\ m[k] \in 1..Len(s) /\ t[k] = s[m[k]]
             /\ \/ k < x /\ m[k] = k
                \/ k = x /\ m[k] = x /\ x <= x + o
                \/ k > x + o /\ k >= x /\ m[k] = k - o
  <2>1. CASE k < x
    BY <1>1, <2>1 DEF Hit
  <2>2. CASE k >= x /\ k <= x + o
    BY <1>1, <1>2, <2>2 DEF Hit
  <2>3. CASE k >= x /\ k > x + o
    <3>1. k - o \in x + 1..Len(s) /\ (k - o) + o = k /\ m[k] = k - o
      BY <1>1, <2>3
    <3> QED BY <1>1, <2>3, <3>1 DEF Hit
  <2> QED BY <1>1, <2>1, <2>2, <2>3
<1> HIDE DEF m
<1>3. \A j, k \in 1..Len(t) : j < k /\ t[j] \in Places /\ t[k] \in Places => m[j] < m[k]
  <2> SUFFICES ASSUME NEW j \in 1..Len(t), NEW k \in 1..Len(t), j < k,
                      t[j] \in Places, t[k] \in Places
               PROVE  m[j] < m[k]
    OBVIOUS
  <2>1. \/ j < x /\ m[j] = j
        \/ j = x /\ m[j] = x /\ x <= x + o
        \/ j > x + o /\ j >= x /\ m[j] = j - o
    BY <1>2
  <2>2. \/ k < x /\ m[k] = k
        \/ k = x /\ m[k] = x /\ x <= x + o
        \/ k > x + o /\ k >= x /\ m[k] = k - o
    BY <1>2
  <2> QED BY <1>1, <2>1, <2>2
<1>4. ASSUME NEW j \in 1..Len(s), j # x
      PROVE  \E k \in 1..Len(t) : t[k] = s[j]
  <2>1. CASE j < x
    BY <1>1, <2>1, SMTT(30) DEF Hit
  <2>2. CASE j > x
    <3>1. j + o \in 1..Len(t)
      BY <1>1, <2>2
    <3> QED BY <1>1, <2>2, <3>1 DEF Hit
  <2> QED BY <1>1, <1>4, <2>1, <2>2
<1>5. Thins(t, s, m, x)
  BY <1>2, <1>3, <1>4 DEF Thins
<1> QED BY <1>5

-----------------------------------------------------------------------------
(* Both receivers are on the same line *)

LEMMA HostLine ==
  /\ Host!LineNext <=> LineNext
  /\ Host!LineTypeOK <=> LineTypeOK
  /\ Host!FrameError <=> FrameError
  /\ \A bytes : Host!Receive(bytes) <=> Receive(bytes)
<1>1. Host!LineNext <=> LineNext
  BY DEF LineNext, Send, LoseByte, ChangeByte, AddByte, Fail, Encoding, output,
         Host!LineNext, Host!Send, Host!LoseByte, Host!ChangeByte, Host!AddByte, Host!Fail,
         Host!Encoding, Host!output
<1>2. Host!LineTypeOK <=> LineTypeOK
  BY DEF LineTypeOK, Bytes, Places, Host!LineTypeOK, Host!Bytes, Host!Places
<1>3. Host!FrameError <=> FrameError
  BY DEF FrameError, Host!FrameError
<1>4. \A bytes : Host!Receive(bytes) <=> Receive(bytes)
  BY <1>3 DEF Receive, IsPacket, Encoding, Deliver,
              Host!Receive, Host!IsPacket, Host!Encoding, Host!Deliver
<1> QED BY <1>1, <1>2, <1>3, <1>4

-----------------------------------------------------------------------------
(* Types *)

LEMMA FrameErrorType ==
  ASSUME delivered \in Seq(DOMAIN sizes), errors \in Nat, FrameError
  PROVE  delivered' \in Seq(DOMAIN sizes) /\ errors' \in Nat
BY DEF FrameError

LEMMA ReceiveType ==
  ASSUME NEW bytes, Receive(bytes), delivered \in Seq(DOMAIN sizes), errors \in Nat
  PROVE  delivered' \in Seq(DOMAIN sizes) /\ errors' \in Nat
<1>1. CASE \E packet \in DOMAIN sizes : IsPacket(bytes, packet) /\ Deliver(packet)
  BY <1>1 DEF Deliver
<1>2. CASE FrameError
  BY <1>2, FrameErrorType
<1> QED BY <1>1, <1>2 DEF Receive

(* The line only ever carries bytes. *)
LEMMA LineType ==
  ASSUME LineTypeOK, LineNext
  PROVE  LineTypeOK'
<1> USE LineAssumption DEF LineTypeOK
<1>1. ASSUME NEW size \in Sizes, Send(size)
      PROVE  LineTypeOK'
  <2>1. Encoding(Len(sizes) + 1, size) \in Seq(Bytes)
    BY DEF Encoding, Bytes, Places
  <2>2. line' \in Seq(Bytes)
    BY <1>1, <2>1 DEF Send, Bytes
  <2>3. delivered' \in Seq(DOMAIN sizes')
    <3>1. DOMAIN sizes \subseteq DOMAIN sizes'
      BY <1>1 DEF Send
    <3> QED BY <1>1, <3>1 DEF Send, output
  <2> QED BY <1>1, <2>2, <2>3 DEF Send, output
<1>2. ASSUME NEW i \in DOMAIN line, LoseByte(i)
      PROVE  LineTypeOK'
  BY <1>2 DEF LoseByte, Fail, output
<1>3. ASSUME NEW i \in DOMAIN line, ChangeByte(i)
      PROVE  LineTypeOK'
  BY <1>3 DEF ChangeByte, Fail, output, Bytes
<1>4. ASSUME NEW i \in DOMAIN line, AddByte(i)
      PROVE  LineTypeOK'
  <2>1. PICK byte \in Bytes :
          line' = SubSeq(line, 1, i) \o <<byte>> \o SubSeq(line, i + 1, Len(line))
    BY <1>4 DEF AddByte, Bytes
  <2>2. line' \in Seq(Bytes)
    BY <2>1
  <2> QED BY <1>4, <2>2 DEF AddByte, Fail, output
<1> QED BY <1>1, <1>2, <1>3, <1>4 DEF LineNext

(* FramingDecoder::consume: frame_ holds no delimiter and is never written  *)
(* behind its end.                                                          *)
LEMMA DeviceType ==
  ASSUME TypeOK, [Next]_vars
  PROVE  TypeOK'
<1> USE LineAssumption, FrameAssumption DEF TypeOK
<1>1. CASE LineNext /\ UNCHANGED frame
  BY <1>1, LineType
<1>2. ASSUME Take
      PROVE  line' \in Seq(Bytes) /\ UNCHANGED <<sizes, damage>> /\ Head(line) \in Bytes
  BY <1>2 DEF Take, LineTypeOK
<1>3. CASE SkipDelimiter
  BY <1>2, <1>3 DEF SkipDelimiter, LineTypeOK, output
<1>4. CASE EndFrame
  BY <1>2, <1>4, ReceiveType DEF EndFrame, LineTypeOK
<1>5. CASE Overflow
  BY <1>2, <1>5, FrameErrorType DEF Overflow, LineTypeOK
<1>6. CASE Store
  <2>1. Len(frame) < MaxFrame
    BY <1>6 DEF Store, Full
  <2>2. frame' \in Seq(Bytes \ {Delimiter}) /\ Len(frame') <= MaxFrame
    BY <1>2, <1>6, <2>1 DEF Store
  <2> QED BY <1>2, <1>6, <2>2 DEF Store, LineTypeOK, output
<1>7. CASE UNCHANGED vars
  BY <1>7 DEF vars, lineVars, output, LineTypeOK
<1> QED BY <1>1, <1>3, <1>4, <1>5, <1>6, <1>7 DEF Next

LEMMA FirstIsFirst ==
  ASSUME frame \in Seq(Bytes), Host!Delimited
  PROVE  /\ Host!FirstDelimiter \in 1..Len(frame)
         /\ frame[Host!FirstDelimiter] = Delimiter
         /\ \A j \in 1..Host!FirstDelimiter - 1 : frame[j] # Delimiter
<1> DEFINE T == {i \in DOMAIN frame : frame[i] = Delimiter}
           less == OpToRel(<, Nat)
<1>1. DOMAIN frame = 1..Len(frame) /\ Len(frame) \in Nat
  BY LenProperties
<1>2. T \subseteq Nat /\ T # {}
  BY <1>1 DEF Host!Delimited
<1>3. PICK x \in T : \A y \in T : ~(<<y, x>> \in less)
  <2> HIDE DEF T, less
  <2>1. IsWellFoundedOn(less, Nat)
    BY NatLessThanWellFounded DEF less
  <2> QED BY <1>2, <2>1, WFMin, Zenon
<1>4. \A y \in T : ~(y < x)
  BY <1>2, <1>3 DEF OpToRel
<1>5. frame[x] = Delimiter /\ \A j \in 1..x - 1 : frame[j] # Delimiter
  BY <1>1, <1>4
<1>6. /\ Host!FirstDelimiter \in DOMAIN frame
      /\ frame[Host!FirstDelimiter] = Delimiter
      /\ \A j \in 1..Host!FirstDelimiter - 1 : frame[j] # Delimiter
  BY <1>5, Zenon DEF Host!FirstDelimiter
<1> QED BY <1>1, <1>6

(* read_packet: the buffer is read into only while it is within its limit.  *)
LEMMA HostType ==
  ASSUME Host!TypeOK, Host!Next
  PROVE  Host!TypeOK'
<1> USE RxAssumption DEF Host!TypeOK
<1>0. /\ LineTypeOK /\ frame \in Seq(Bytes) /\ Len(frame) <= MaxRx + Chunk
      /\ (Host!TypeOK' <=> LineTypeOK' /\ frame' \in Seq(Bytes) /\ Len(frame') <= MaxRx + Chunk)
  BY HostLine DEF Bytes, Places, Host!Bytes, Host!Places, LineTypeOK, Host!LineTypeOK
<1> HIDE DEF Host!TypeOK
<1>1. ASSUME NEW n \in 0..Len(frame), frame' = SubSeq(frame, n + 1, Len(frame))
      PROVE  frame' \in Seq(Bytes) /\ Len(frame') <= MaxRx + Chunk
  BY <1>0, <1>1, BackIndex, LenProperties
<1>2. CASE Host!LineNext /\ UNCHANGED frame
  BY <1>0, <1>2, HostLine, LineType
<1>3. CASE Host!SkipFrame
  <2>1. frame # <<>> /\ frame' = Tail(frame)
    BY <1>3 DEF Host!SkipFrame, Host!Delimited
  <2> QED BY <1>0, <1>3, <2>1 DEF Host!SkipFrame, Host!lineVars, Host!output, LineTypeOK
<1>4. CASE Host!TakeFrame
  <2>1. Host!FirstDelimiter \in 0..Len(frame)
    BY <1>0, <1>4, FirstIsFirst DEF Host!TakeFrame
  <2>2. frame' = SubSeq(frame, Host!FirstDelimiter + 1, Len(frame))
    BY <1>4 DEF Host!TakeFrame, Host!Cut
  <2>3. frame' \in Seq(Bytes) /\ Len(frame') <= MaxRx + Chunk
    BY <1>1, <2>1, <2>2
  <2>4. Receive(SubSeq(frame, 1, Host!FirstDelimiter - 1)) /\ UNCHANGED lineVars
    BY <1>4, HostLine DEF Host!TakeFrame, Host!lineVars, lineVars
  <2>5. LineTypeOK'
    BY <1>0, <2>4, ReceiveType DEF LineTypeOK, lineVars
  <2> QED BY <1>0, <2>3, <2>5
<1>5. CASE Host!Overflow
  BY <1>0, <1>5, HostLine, FrameErrorType DEF Host!Overflow, Host!lineVars, LineTypeOK
<1>6. CASE Host!Read
  <2>1. /\ ~Host!Delimited /\ ~Host!Overfull
        /\ UNCHANGED <<sizes, damage, delivered, errors>>
    BY <1>6 DEF Host!Read, Host!output
  <2>2. Len(frame) <= MaxRx
    BY <1>0, <2>1, LenProperties DEF Host!Overfull
  <2>3. PICK n \in 1..Chunk :
          /\ n <= Len(line)
          /\ frame' = frame \o SubSeq(line, 1, n)
          /\ line' = SubSeq(line, n + 1, Len(line))
    BY <1>6 DEF Host!Read
  <2>4. line \in Seq(Bytes) /\ n \in 0..Len(line) /\ n \in Nat
    BY <1>0, <2>3, LenProperties DEF LineTypeOK
  <2>5. SubSeq(line, 1, n) \in Seq(Bytes) /\ Len(SubSeq(line, 1, n)) = n
    BY <2>4, FrontIndex
  <2>6. frame' \in Seq(Bytes) /\ Len(frame') = Len(frame) + n /\ Len(frame) \in Nat
    <3> DEFINE l == SubSeq(line, 1, n)
    <3>1. frame \in Seq(Bytes) /\ l \in Seq(Bytes) /\ Len(l) = n /\ frame' = frame \o l
      BY <1>0, <2>3, <2>5
    <3> HIDE DEF l
    <3>2. /\ frame \o l \in Seq(Bytes) /\ Len(frame) \in Nat
          /\ Len(frame \o l) = Len(frame) + Len(l)
      BY <3>1, ConcatIndex, Zenon
    <3> QED BY <3>1, <3>2
  <2>7. Len(frame') <= MaxRx + Chunk
    BY <2>2, <2>3, <2>6
  <2>8. line' \in Seq(Bytes)
    BY <2>3, <2>4, BackIndex
  <2> QED BY <1>0, <2>1, <2>6, <2>7, <2>8 DEF LineTypeOK
<1> QED BY <1>2, <1>3, <1>4, <1>5, <1>6 DEF Host!Next

Bounded == side \in {"device", "host"} /\ BuffersBounded

LEMMA BoundedStep ==
  ASSUME Bounded, [FramingNext]_framingVars
  PROVE  Bounded'
<1> USE DEF Bounded
<1>1. CASE side = "device" /\ Next /\ UNCHANGED side
  BY <1>1, DeviceType DEF BuffersBounded
<1>2. CASE side = "host" /\ Host!Next /\ UNCHANGED side
  BY <1>2, HostType DEF BuffersBounded
<1>3. CASE UNCHANGED framingVars
  <2>1. TypeOK' <=> TypeOK
    BY <1>3 DEF framingVars, vars, lineVars, output, TypeOK, LineTypeOK
  <2>2. Host!TypeOK' <=> Host!TypeOK
    BY <1>3 DEF framingVars, vars, lineVars, output, Host!TypeOK, Host!LineTypeOK
  <2> QED BY <1>3, <2>1, <2>2 DEF framingVars, BuffersBounded
<1> QED BY <1>1, <1>2, <1>3 DEF FramingNext

LEMMA BoundedAlways == FramingSpec => []Bounded
<1>1. FramingInit => Bounded
  <2> SUFFICES ASSUME FramingInit PROVE Bounded
    OBVIOUS
  <2>1. LineTypeOK /\ frame = <<>> /\ side \in {"device", "host"}
    BY LineAssumption DEF FramingInit, Init, LineInit, LineTypeOK
  <2>2. TypeOK
    BY <2>1, FrameAssumption DEF TypeOK
  <2>3. Host!TypeOK
    BY <2>1, RxAssumption, HostLine DEF Host!TypeOK
  <2> QED BY <2>1, <2>2, <2>3 DEF Bounded, BuffersBounded
<1>2. Bounded /\ [FramingNext]_framingVars => Bounded'
  BY BoundedStep
<1> QED BY <1>1, <1>2, PTL DEF FramingSpec

(* Whatever bytes arrive: frame_ holds no delimiter and is never overrun,   *)
(* and _rx exceeds RX_BUFFER_LIMIT by one read at most.                     *)
THEOREM BoundedBuffers == FramingSpec => []BuffersBounded
<1>1. Bounded => BuffersBounded
  BY DEF Bounded
<1> QED BY <1>1, BoundedAlways, PTL

-----------------------------------------------------------------------------
(* What the line does to the stream, as a step *)

LEMMA SendGrows ==
  ASSUME StreamTypes, NEW size \in Sizes, Send(size), UNCHANGED frame
  PROVE  Grown(stream', stream, Len(sizes) + 1, sizes')
<1> DEFINE p == Len(sizes) + 1  l == line'
<1>1. /\ sizes \in Seq(Sizes) /\ line \in Seq(Bytes) /\ frame \in Seq(Bytes)
      /\ size \in Nat \ {0} /\ Len(sizes) \in Nat /\ Len(line) \in Nat
  BY LineAssumption DEF StreamTypes, LineTypeOK
<1>2. sizes'[p] = size
  BY <1>1 DEF Send
<1>3. /\ l \in Seq(Bytes) /\ Len(l) = Len(line) + size + 1
      /\ \A j \in 1..Len(line) : l[j] = line[j]
      /\ \A i \in 1..size + 1 : l[Len(line) + i] = Coded(p, i, sizes')
  <2> DEFINE e == Encoding(p, size)
             le == line \o e
  <2>1. e \in Seq(Bytes) /\ Len(e) = size /\ \A i \in 1..size : e[i] = Place(p, i)
    BY <1>1 DEF Encoding, Bytes, Places, Place
  <2>2. l = Append(le, Delimiter) /\ Delimiter \in Bytes
    BY DEF Send, Bytes
  <2> HIDE DEF e
  <2>3. /\ le \in Seq(Bytes) /\ Len(le) = Len(line) + Len(e)
        /\ \A i \in 1..Len(line) : le[i] = line[i]
        /\ \A i \in Len(line) + 1..Len(line) + Len(e) : le[i] = e[i - Len(line)]
    <3>1. line \in Seq(Bytes) /\ e \in Seq(Bytes)
      BY <1>1, <2>1
    <3> QED BY ONLY <3>1, ConcatIndex, ZenonT(40)
  <2> HIDE DEF le, l, p
  <2>4. /\ l \in Seq(Bytes) /\ Len(l) = Len(le) + 1
        /\ \A i \in 1..Len(le) : l[i] = le[i]
        /\ l[Len(le) + 1] = Delimiter
    BY <2>2, <2>3, AppendProperties
  <2>5. ASSUME NEW i \in 1..size + 1
        PROVE  l[Len(line) + i] = Coded(p, i, sizes')
    <3>1. CASE i <= size
      <4>1. /\ Len(line) + i \in 1..Len(le) /\ i \in 1..size
            /\ Len(line) + i \in Len(line) + 1..Len(line) + Len(e)
            /\ (Len(line) + i) - Len(line) = i
        BY <1>1, <2>1, <2>3, <3>1
      <4> QED BY <1>2, <2>1, <2>3, <2>4, <3>1, <4>1 DEF Coded
    <3>2. CASE i = size + 1
      <4>1. Len(line) + i = Len(le) + 1 /\ ~(i <= size)
        BY <1>1, <2>1, <2>3, <3>2
      <4> QED BY <1>2, <2>4, <4>1 DEF Coded
    <3> QED BY <1>1, <3>1, <3>2
  <2> QED BY <1>1, <2>1, <2>3, <2>4, <2>5
<1> HIDE DEF l, p
<1> DEFINE S == frame \o line  T == frame \o l
<1>4. /\ Len(frame) \in Nat /\ Len(S) = Len(frame) + Len(line)
      /\ \A i \in 1..Len(frame) : S[i] = frame[i]
      /\ \A i \in Len(frame) + 1..Len(frame) + Len(line) : S[i] = line[i - Len(frame)]
  <2>1. frame \in Seq(Bytes) /\ line \in Seq(Bytes)
    BY <1>1
  <2> QED BY ONLY <2>1, ConcatIndex, ZenonT(40)
<1>5. /\ Len(T) = Len(frame) + Len(l)
      /\ \A i \in 1..Len(frame) : T[i] = frame[i]
      /\ \A i \in Len(frame) + 1..Len(frame) + Len(l) : T[i] = l[i - Len(frame)]
  <2>1. frame \in Seq(Bytes) /\ l \in Seq(Bytes)
    BY <1>1, <1>3
  <2> QED BY ONLY <2>1, ConcatIndex, ZenonT(40)
<1>6. S = stream /\ T = stream'
  BY DEF stream, l
<1> HIDE DEF S, T
<1>7. \A j \in 1..Len(S) : T[j] = S[j]
  <2> TAKE j \in 1..Len(S)
  <2>1. CASE j <= Len(frame)
    BY <1>4, <1>5, <2>1
  <2>2. CASE j > Len(frame)
    <3>1. j - Len(frame) \in 1..Len(line) /\ j - Len(frame) \in 1..Len(l)
      BY <1>1, <1>3, <1>4, <2>2
    <3>2. /\ j \in Len(frame) + 1..Len(frame) + Len(line)
          /\ j \in Len(frame) + 1..Len(frame) + Len(l)
      BY <1>1, <1>3, <1>4, <2>2
    <3>3. S[j] = line[j - Len(frame)] /\ T[j] = l[j - Len(frame)]
      BY <1>4, <1>5, <3>2
    <3> QED BY <1>3, <3>1, <3>3
  <2> QED BY <1>1, <1>4, <2>1, <2>2
<1>8. ASSUME NEW i \in 1..size + 1
      PROVE  T[Len(S) + i] = Coded(p, i, sizes')
  <2>1. /\ Len(S) + i \in Len(frame) + 1..Len(frame) + Len(l)
        /\ (Len(S) + i) - Len(frame) = Len(line) + i
    BY <1>1, <1>3, <1>4
  <2> QED BY <1>3, <1>5, <2>1
<1>9. Len(T) = Len(S) + size + 1
  BY <1>1, <1>3, <1>4, <1>5
<1>10. Grown(T, S, p, sizes')
  BY <1>2, <1>7, <1>8, <1>9 DEF Grown
<1> QED BY <1>6, <1>10 DEF p

LEMMA FailHits ==
  ASSUME StreamTypes, NEW i \in DOMAIN line, LoseByte(i) \/ ChangeByte(i) \/ AddByte(i),
         UNCHANGED frame
  PROVE  \E x, o : Hit(stream', stream, x, o)
<1>1. /\ line \in Seq(Bytes) /\ frame \in Seq(Bytes)
      /\ i \in 1..Len(line) /\ Len(line) \in Nat
  BY DEF StreamTypes, LineTypeOK
<1>2. line' \in Seq(Bytes) /\ \E o : Hit(line', line, i, o)
  <2>1. CASE LoseByte(i)
    BY <1>1, <2>1, RemoveIndex, RemovedHits DEF LoseByte
  <2>2. CASE ChangeByte(i)
    <3>1. PICK byte \in {Delimiter, Noise} : line' = [line EXCEPT ![i] = byte]
      BY <2>2 DEF ChangeByte
    <3>2. /\ line' \in Seq(Bytes) /\ Len(line') = Len(line) /\ line'[i] = byte
          /\ \A k \in 1..Len(line) : k # i => line'[k] = line[k]
      BY <1>1, <3>1, ExceptSeq DEF Bytes
    <3> QED BY <1>1, <3>2, ChangedHits
  <2>3. CASE AddByte(i)
    <3>1. PICK byte \in {Delimiter, Noise} :
            line' = SubSeq(line, 1, i) \o <<byte>> \o SubSeq(line, i + 1, Len(line))
      BY <2>3 DEF AddByte
    <3>2. byte \in Bytes
      BY DEF Bytes
    <3>3. line' \in Seq(Bytes) /\ IsInserted(line', line, i, byte)
      BY <1>1, <3>1, <3>2, InsertIndex
    <3> QED BY <1>1, <3>3, InsertedHits
  <2> QED BY <2>1, <2>2, <2>3
<1>3. PICK o : Hit(frame \o line', frame \o line, Len(frame) + i, o)
  BY <1>1, <1>2, HitBehind
<1> QED BY <1>3 DEF stream

-----------------------------------------------------------------------------
(* What a receiver does to the stream *)

(* The first n bytes are gone. *)
Dropped(t, s, n) ==
  /\ n \in 0..Len(s)
  /\ Len(t) = Len(s) - n
  /\ \A k \in 1..Len(t) : t[k] = s[k + n]

LEMMA ConcatRange ==
  ASSUME NEW f \in Seq(Bytes), NEW l \in Seq(Bytes)
  PROVE  /\ Len(f) \in Nat /\ Len(l) \in Nat /\ Len(f \o l) = Len(f) + Len(l)
         /\ \A i \in 1..Len(f) : (f \o l)[i] = f[i]
         /\ \A i \in Len(f) + 1..Len(f) + Len(l) : (f \o l)[i] = l[i - Len(f)]
BY ConcatIndex, ZenonT(40)

(* Bytes that move from the line into the buffer stay where they are.       *)
LEMMA Moved ==
  ASSUME NEW f \in Seq(Bytes), NEW l \in Seq(Bytes),
         NEW g \in Seq(Bytes), NEW h \in Seq(Bytes), NEW m \in 0..Len(l),
         Len(g) = Len(f) + m, Len(h) = Len(l) - m,
         \A i \in 1..Len(f) : g[i] = f[i],
         \A i \in Len(f) + 1..Len(f) + m : g[i] = l[i - Len(f)],
         \A k \in 1..Len(l) - m : h[k] = l[k + m]
  PROVE  Dropped(g \o h, f \o l, 0)
<1> DEFINE s == f \o l  t == g \o h
<1>1. /\ Len(f) \in Nat /\ Len(l) \in Nat /\ Len(s) = Len(f) + Len(l)
      /\ \A i \in 1..Len(f) : s[i] = f[i]
      /\ \A i \in Len(f) + 1..Len(f) + Len(l) : s[i] = l[i - Len(f)]
  BY ONLY f \in Seq(Bytes), l \in Seq(Bytes), ConcatRange, Zenon
<1>2. /\ Len(g) \in Nat /\ Len(h) \in Nat /\ Len(t) = Len(g) + Len(h)
      /\ \A i \in 1..Len(g) : t[i] = g[i]
      /\ \A i \in Len(g) + 1..Len(g) + Len(h) : t[i] = h[i - Len(g)]
  BY ONLY g \in Seq(Bytes), h \in Seq(Bytes), ConcatRange, Zenon
<1> HIDE DEF s, t
<1>3. ASSUME NEW k \in 1..Len(t)
      PROVE  t[k] = s[k + 0]
  <2>0. k + 0 = k /\ k \in 1..Len(f) + Len(l)
    BY <1>1, <1>2
  <2>1. CASE k <= Len(f)
    <3>1. k \in 1..Len(f) /\ k \in 1..Len(g)
      BY <1>1, <1>2, <2>1
    <3> QED BY <1>1, <1>2, <2>0, <3>1
  <2>2. CASE k > Len(f) /\ k <= Len(f) + m
    <3>1. /\ k \in Len(f) + 1..Len(f) + m /\ k \in 1..Len(g)
          /\ k \in Len(f) + 1..Len(f) + Len(l)
      BY <1>1, <1>2, <2>0, <2>2
    <3> QED BY <1>1, <1>2, <2>0, <3>1
  <2>3. CASE k > Len(f) + m
    <3>1. /\ k \in Len(g) + 1..Len(g) + Len(h) /\ k - Len(g) \in 1..Len(l) - m
          /\ k \in Len(f) + 1..Len(f) + Len(l) /\ (k - Len(g)) + m = k - Len(f)
      BY <1>1, <1>2, <2>0, <2>3
    <3>2. t[k] = h[k - Len(g)] /\ h[k - Len(g)] = l[k - Len(f)]
      BY <1>2, <3>1
    <3> QED BY <1>1, <2>0, <3>1, <3>2
  <2> QED BY <1>1, <2>0, <2>1, <2>2, <2>3
<1>4. Dropped(t, s, 0)
  BY <1>1, <1>2, <1>3 DEF Dropped
<1> QED BY <1>4 DEF s, t

LEMMA CutFront ==
  ASSUME NEW f \in Seq(Bytes), NEW l \in Seq(Bytes), NEW g \in Seq(Bytes), NEW m \in 0..Len(f),
         Len(g) = Len(f) - m, \A k \in 1..Len(f) - m : g[k] = f[m + k]
  PROVE  Dropped(g \o l, f \o l, m)
<1> DEFINE s == f \o l  t == g \o l
<1>1. /\ Len(f) \in Nat /\ Len(l) \in Nat /\ Len(s) = Len(f) + Len(l)
      /\ \A i \in 1..Len(f) : s[i] = f[i]
      /\ \A i \in Len(f) + 1..Len(f) + Len(l) : s[i] = l[i - Len(f)]
  BY ONLY f \in Seq(Bytes), l \in Seq(Bytes), ConcatRange, Zenon
<1>2. /\ Len(g) \in Nat /\ Len(t) = Len(g) + Len(l)
      /\ \A i \in 1..Len(g) : t[i] = g[i]
      /\ \A i \in Len(g) + 1..Len(g) + Len(l) : t[i] = l[i - Len(g)]
  BY ONLY g \in Seq(Bytes), l \in Seq(Bytes), ConcatRange, Zenon
<1> HIDE DEF s, t
<1>3. ASSUME NEW k \in 1..Len(t)
      PROVE  t[k] = s[k + m]
  <2>0. k \in 1..Len(g) + Len(l) /\ k + m = m + k
    BY <1>1, <1>2
  <2>1. CASE k <= Len(g)
    <3>1. k \in 1..Len(g) /\ k \in 1..Len(f) - m /\ m + k \in 1..Len(f)
      BY <1>1, <1>2, <2>1
    <3> QED BY <1>1, <1>2, <2>0, <3>1
  <2>2. CASE k > Len(g)
    <3>1. /\ k \in Len(g) + 1..Len(g) + Len(l) /\ k + m \in Len(f) + 1..Len(f) + Len(l)
          /\ k - Len(g) = (k + m) - Len(f)
      BY <1>1, <1>2, <2>0, <2>2
    <3> QED BY <1>1, <1>2, <3>1
  <2> QED BY <1>2, <2>0, <2>1, <2>2
<1>4. m \in 0..Len(s) /\ Len(t) = Len(s) - m
  BY <1>1, <1>2
<1>5. Dropped(t, s, m)
  BY <1>3, <1>4 DEF Dropped
<1> QED BY <1>5 DEF s, t

LEMMA Cleared ==
  ASSUME NEW f \in Seq(Bytes), NEW l \in Seq(Bytes),
         NEW g \in Seq(Bytes), NEW h \in Seq(Bytes), Len(g) = 0,
         Len(l) > 0, Len(h) = Len(l) - 1, \A k \in 1..Len(l) - 1 : h[k] = l[k + 1]
  PROVE  Dropped(g \o h, f \o l, Len(f) + 1)
<1> DEFINE s == f \o l  t == g \o h
<1>1. /\ Len(f) \in Nat /\ Len(l) \in Nat /\ Len(s) = Len(f) + Len(l)
      /\ \A i \in Len(f) + 1..Len(f) + Len(l) : s[i] = l[i - Len(f)]
  BY ONLY f \in Seq(Bytes), l \in Seq(Bytes), ConcatRange, Zenon
<1>2. /\ Len(t) = Len(g) + Len(h)
      /\ \A i \in Len(g) + 1..Len(g) + Len(h) : t[i] = h[i - Len(g)]
  BY ONLY g \in Seq(Bytes), h \in Seq(Bytes), ConcatRange, Zenon
<1> HIDE DEF s, t
<1>3. ASSUME NEW k \in 1..Len(t)
      PROVE  t[k] = s[k + (Len(f) + 1)]
  <2>1. /\ k \in Len(g) + 1..Len(g) + Len(h) /\ k - Len(g) = k /\ k \in 1..Len(l) - 1
        /\ k + (Len(f) + 1) \in Len(f) + 1..Len(f) + Len(l)
        /\ (k + (Len(f) + 1)) - Len(f) = k + 1
    BY <1>1, <1>2
  <2> QED BY <1>1, <1>2, <2>1
<1>4. Dropped(t, s, Len(f) + 1)
  <2>1. Len(f) + 1 \in 0..Len(s) /\ Len(t) = Len(s) - (Len(f) + 1)
    BY <1>1, <1>2
  <2> QED BY <1>3, <2>1 DEF Dropped
<1> QED BY <1>4 DEF s, t

(* The stream begins with a whole packet and its delimiter. *)
Whole(s, p, sz) ==
  /\ p \in 1..Len(sz)
  /\ sz[p] + 1 \in 1..Len(s)
  /\ \A i \in 1..sz[p] + 1 : s[i] = Coded(p, i, sz)

(* The n bytes are of one frame at most, and it is not a packet. *)
Broken(n) ==
  /\ n \in Nat \ {0}
  /\ stream[1] # Delimiter
  /\ \A i \in 1..n - 1 : stream[i] # Delimiter
  /\ \A p : ~Whole(stream, p, sizes)

(* What a receiver makes of the n bytes that are gone. *)
Judged(n) ==
  \/ n = 0 /\ UNCHANGED output
  \/ n = 1 /\ stream[1] = Delimiter /\ UNCHANGED output
  \/ \E p : n = sizes[p] + 1 /\ Whole(stream, p, sizes) /\ Deliver(p)
  \/ FrameError /\ Broken(n)

Received(n) ==
  /\ UNCHANGED <<sizes, damage>>
  /\ Dropped(stream', stream, n)
  /\ Judged(n)

LEMMA SizesType ==
  ASSUME NEW sz \in Seq(Sizes)
  PROVE  Len(sz) \in Nat /\ \A p \in 1..Len(sz) : sz[p] \in Nat \ {0} /\ sz[p] \in Sizes
BY LineAssumption, LenProperties, ElementOfSeq

LEMMA CodedBytes ==
  ASSUME NEW p \in Nat \ {0}, NEW i \in Nat \ {0}
  PROVE  Place(p, i) \in Places /\ Place(p, i) # Delimiter /\ Place(p, i) # Noise
BY BytesAssumption DEF Place, Places

(* Bytes cut off at the first delimiter are handed to decode_packet.        *)
LEMMA CutOff ==
  ASSUME StreamTypes, stream \in Seq(Bytes),
         NEW bytes \in Seq(Bytes), Len(bytes) >= 1, Len(bytes) + 1 <= Len(stream),
         \A i \in 1..Len(bytes) : bytes[i] = stream[i] /\ bytes[i] # Delimiter,
         stream[Len(bytes) + 1] = Delimiter,
         Receive(bytes)
  PROVE  Judged(Len(bytes) + 1)
<1> DEFINE e == Len(bytes)
<1>1. /\ sizes \in Seq(Sizes) /\ DOMAIN sizes = 1..Len(sizes)
      /\ e \in Nat /\ Len(stream) \in Nat
      /\ \A p \in 1..Len(sizes) : sizes[p] \in Nat \ {0}
  BY SizesType, LenProperties DEF StreamTypes, LineTypeOK
<1>2. CASE \E p \in DOMAIN sizes : IsPacket(bytes, p) /\ Deliver(p)
  <2>1. PICK p \in 1..Len(sizes) : bytes = Encoding(p, sizes[p]) /\ Deliver(p)
    BY <1>1, <1>2 DEF IsPacket
  <2>2. sizes[p] \in Nat \ {0} /\ DOMAIN bytes = 1..e
    BY <1>1, LenProperties
  <2>3. DOMAIN bytes = 1..sizes[p] /\ \A i \in 1..sizes[p] : bytes[i] = Place(p, i)
    BY <2>1 DEF Encoding, Place
  <2>4. e = sizes[p]
    BY <1>1, <2>2, <2>3
  <2>5. \A i \in 1..sizes[p] + 1 : stream[i] = Coded(p, i, sizes)
    BY <1>1, <2>2, <2>3, <2>4 DEF Coded
  <2>6. Whole(stream, p, sizes)
    BY <1>1, <2>2, <2>4, <2>5 DEF Whole
  <2> QED BY <2>1, <2>4, <2>6 DEF Judged
<1>3. CASE (\A p \in DOMAIN sizes : ~IsPacket(bytes, p)) /\ FrameError
  <2>0. e + 1 \in Nat \ {0} /\ stream[1] # Delimiter /\ \A i \in 1..e : stream[i] # Delimiter
    <3>1. 1 \in 1..e /\ e + 1 \in Nat \ {0}
      BY <1>1
    <3>2. \A i \in 1..e : stream[i] # Delimiter
      OBVIOUS
    <3> QED BY <3>1, <3>2
  <2>1. ASSUME NEW p, Whole(stream, p, sizes) PROVE FALSE
    <3>1. p \in 1..Len(sizes) /\ sizes[p] \in Nat \ {0} /\ p \in Nat \ {0}
      BY <1>1, <2>1 DEF Whole
    <3>2. \A i \in 1..sizes[p] : stream[i] = Place(p, i) /\ stream[i] # Delimiter
      BY <2>1, <3>1, CodedBytes, SMTT(30) DEF Whole, Coded
    <3>3. stream[sizes[p] + 1] = Delimiter
      BY <2>1, <3>1 DEF Whole, Coded
    <3>4. e = sizes[p]
      <4>1. ~(e + 1 <= sizes[p])
        BY <1>1, <3>2
      <4>2. ~(sizes[p] + 1 <= e)
        BY <1>1, <2>0, <3>1, <3>3
      <4> QED BY <1>1, <3>1, <4>1, <4>2
    <3>5. \A i \in 1..e : bytes[i] = Place(p, i)
      BY <3>2, <3>4
    <3>6. bytes = Encoding(p, sizes[p])
      <4>1. DOMAIN bytes = 1..e /\ bytes = [i \in DOMAIN bytes |-> bytes[i]]
        BY LenProperties
      <4> QED BY <3>4, <3>5, <4>1 DEF Encoding, Place
    <3> QED BY <1>1, <1>3, <3>1, <3>6 DEF IsPacket
  <2>2. Broken(e + 1)
    BY <1>1, <2>0, <2>1 DEF Broken
  <2> QED BY <1>3, <2>2 DEF Judged
<1> QED BY <1>2, <1>3 DEF Receive

(* A buffer that is full without a delimiter is dropped.                    *)
LEMMA DroppedFull ==
  ASSUME StreamTypes, FrameError,
         NEW e \in Nat \ {0}, \A size \in Sizes : size < e,
         \A i \in 1..e : stream[i] # Delimiter
  PROVE  Judged(e)
<1>1. ASSUME NEW p, Whole(stream, p, sizes) PROVE FALSE
  <2>1. sizes[p] \in Nat \ {0} /\ sizes[p] \in Sizes
    BY <1>1, SizesType DEF Whole, StreamTypes, LineTypeOK
  <2>2. stream[sizes[p] + 1] = Delimiter
    BY <1>1, <2>1 DEF Whole, Coded
  <2>3. sizes[p] + 1 \in 1..e
    BY <2>1
  <2> QED BY <2>2, <2>3
<1> QED BY <1>1 DEF Broken, Judged

LEMMA StreamIndex ==
  ASSUME StreamTypes
  PROVE  /\ frame \in Seq(Bytes) /\ line \in Seq(Bytes) /\ stream \in Seq(Bytes)
         /\ Len(frame) \in Nat /\ Len(line) \in Nat
         /\ Len(stream) = Len(frame) + Len(line)
         /\ \A i \in 1..Len(frame) : stream[i] = frame[i]
         /\ \A i \in Len(frame) + 1..Len(frame) + Len(line) : stream[i] = line[i - Len(frame)]
<1>1. frame \in Seq(Bytes) /\ line \in Seq(Bytes)
  BY DEF StreamTypes, LineTypeOK
<1>2. frame \o line \in Seq(Bytes)
  BY ONLY <1>1, ConcatIndex, Zenon
<1> QED BY <1>1, <1>2, ConcatRange DEF stream

LEMMA TakeIndex ==
  ASSUME StreamTypes, Take
  PROVE  /\ line' \in Seq(Bytes) /\ Len(line) > 0 /\ Len(line') = Len(line) - 1
         /\ \A k \in 1..Len(line) - 1 : line'[k] = line[k + 1]
         /\ Head(line) = line[1] /\ stream[Len(frame) + 1] = line[1]
         /\ Len(frame) + 1 \in 1..Len(stream)
         /\ UNCHANGED <<sizes, damage>>
<1>1. line \in Seq(Bytes) /\ line # <<>> /\ line' = Tail(line) /\ UNCHANGED <<sizes, damage>>
  BY DEF StreamTypes, LineTypeOK, Take
<1>2. Len(line) \in Nat /\ Len(line) > 0 /\ Head(line) = line[1]
  BY <1>1, EmptySeq, LenProperties
<1>3. /\ line' \in Seq(Bytes) /\ Len(line') = Len(line) - 1
      /\ \A k \in 1..Len(line) - 1 : line'[k] = line[k + 1]
  BY <1>1, <1>2, HeadTailProperties
<1>4. /\ Len(frame) + 1 \in Len(frame) + 1..Len(frame) + Len(line)
      /\ (Len(frame) + 1) - Len(frame) = 1
  BY <1>2, StreamIndex
<1> QED BY <1>1, <1>2, <1>3, <1>4, StreamIndex, SMTT(30)

(* FramingDecoder::consume *)
LEMMA DeviceOnStream ==
  ASSUME TypeOK, SkipDelimiter \/ EndFrame \/ Overflow \/ Store
  PROVE  \E n : Received(n)
<1>1. StreamTypes /\ \A i \in 1..Len(frame) : frame[i] # Delimiter
  <2>1. frame \in Seq(Bytes \ {Delimiter}) /\ LineTypeOK
    BY DEF TypeOK
  <2>2. \A i \in 1..Len(frame) : frame[i] \in Bytes \ {Delimiter}
    BY <2>1, ElementOfSeq
  <2> QED BY <2>1, <2>2 DEF StreamTypes
<1>2. Take
  BY DEF SkipDelimiter, EndFrame, Overflow, Store
<1> DEFINE e == Len(frame) + 1
<1>3. /\ frame \in Seq(Bytes) /\ line \in Seq(Bytes) /\ stream \in Seq(Bytes)
      /\ Len(frame) \in Nat /\ Len(line) \in Nat
      /\ \A i \in 1..Len(frame) : stream[i] = frame[i]
      /\ stream[e] = Head(line) /\ e \in 1..Len(stream) /\ Len(stream) \in Nat
      /\ line' \in Seq(Bytes) /\ UNCHANGED <<sizes, damage>>
  BY <1>1, <1>2, StreamIndex, TakeIndex, LenProperties
<1>4. frame' = <<>> => Dropped(stream', stream, e)
  <2> SUFFICES ASSUME frame' = <<>> PROVE Dropped(stream', stream, e)
    OBVIOUS
  <2>1. frame' \in Seq(Bytes) /\ Len(frame') = 0
    OBVIOUS
  <2>2. Dropped(frame' \o line', frame \o line, e)
    BY <1>1, <1>2, <1>3, <2>1, TakeIndex, Cleared
  <2> QED BY <2>2 DEF stream
<1> HIDE DEF e
<1>5. CASE SkipDelimiter
  <2>1. frame = <<>> /\ frame' = <<>> /\ Head(line) = Delimiter /\ UNCHANGED output
    BY <1>5 DEF SkipDelimiter
  <2>2. e = 1
    BY <2>1 DEF e
  <2>3. Judged(e)
    BY <1>3, <2>1, <2>2 DEF Judged
  <2> QED BY <1>3, <1>4, <2>1, <2>3 DEF Received
<1>6. CASE EndFrame
  <2>1. frame # <<>> /\ frame' = <<>> /\ Head(line) = Delimiter /\ Receive(frame)
    BY <1>6 DEF EndFrame
  <2>2. Len(frame) >= 1 /\ Len(frame) + 1 <= Len(stream)
    BY <1>3, <2>1, EmptySeq DEF e
  <2>3. Judged(Len(frame) + 1)
    BY <1>1, <1>3, <2>1, <2>2, CutOff DEF e
  <2> QED BY <1>3, <1>4, <2>1, <2>3 DEF Received, e
<1>7. CASE Overflow
  <2>1. frame' = <<>> /\ Head(line) # Delimiter /\ FrameError /\ Len(frame) >= MaxFrame
    BY <1>7 DEF Overflow, Full
  <2>2. \A size \in Sizes : size < e
    BY <1>3, <2>1, FrameAssumption, LineAssumption DEF e
  <2>3. \A i \in 1..e : stream[i] # Delimiter
    <3> TAKE i \in 1..e
    <3>1. i = e \/ i \in 1..Len(frame)
      BY <1>3 DEF e
    <3>2. stream[e] # Delimiter
      BY <1>3, <2>1
    <3> QED BY <1>1, <1>3, <3>1, <3>2
  <2>4. Judged(e)
    BY <1>1, <1>3, <2>1, <2>2, <2>3, DroppedFull
  <2> QED BY <1>3, <1>4, <2>1, <2>4 DEF Received
<1>8. CASE Store
  <2>1. frame' = Append(frame, Head(line)) /\ UNCHANGED output
    BY <1>8 DEF Store
  <2>2. Head(line) = line[1] /\ Len(line) > 0 /\ 1 \in 0..Len(line) /\ line[1] \in Bytes
    BY <1>1, <1>2, <1>3, TakeIndex, ElementOfSeq
  <2>3. /\ frame' \in Seq(Bytes) /\ Len(frame') = Len(frame) + 1
        /\ \A i \in 1..Len(frame) : frame'[i] = frame[i]
        /\ frame'[Len(frame) + 1] = line[1]
    BY <1>3, <2>1, <2>2, AppendProperties
  <2>4. \A i \in Len(frame) + 1..Len(frame) + 1 : frame'[i] = line[i - Len(frame)]
    BY <1>3, <2>3
  <2>5. Dropped(frame' \o line', frame \o line, 0)
    BY <1>1, <1>2, <1>3, <2>2, <2>3, <2>4, TakeIndex, Moved
  <2> QED BY <1>3, <2>1, <2>5 DEF Received, Judged, stream
<1> QED BY <1>5, <1>6, <1>7, <1>8

(* SerialTransport.read_packet *)
LEMMA HostOnStream ==
  ASSUME Host!TypeOK,
         Host!SkipFrame \/ Host!TakeFrame \/ Host!Overflow \/ Host!Read
  PROVE  \E n : Received(n)
<1>1. StreamTypes
  BY HostLine DEF StreamTypes, Host!TypeOK, Bytes, Places, Host!Bytes, Host!Places
<1>2. /\ frame \in Seq(Bytes) /\ line \in Seq(Bytes) /\ stream \in Seq(Bytes)
      /\ Len(frame) \in Nat /\ Len(line) \in Nat /\ Len(stream) \in Nat
      /\ Len(stream) = Len(frame) + Len(line)
      /\ \A i \in 1..Len(frame) : stream[i] = frame[i]
  BY <1>1, StreamIndex, LenProperties
<1>3. ASSUME NEW n \in 0..Len(frame), frame' = SubSeq(frame, n + 1, Len(frame)), line' = line
      PROVE  Dropped(stream', stream, n)
  <2>1. /\ frame' \in Seq(Bytes) /\ Len(frame') = Len(frame) - n
        /\ \A k \in 1..Len(frame) - n : frame'[k] = frame[n + k]
    BY <1>2, <1>3, BackIndex
  <2>2. Dropped(frame' \o line, frame \o line, n)
    BY <1>2, <2>1, CutFront
  <2> QED BY <1>3, <2>2 DEF stream
<1>4. CASE Host!SkipFrame
  <2>1. /\ Host!Delimited /\ Host!FirstDelimiter = 1 /\ frame' = Tail(frame)
        /\ UNCHANGED <<sizes, line, damage, delivered, errors>>
    BY <1>4 DEF Host!SkipFrame, Host!lineVars, Host!output
  <2>2. 1 \in 0..Len(frame) /\ 1 \in 1..Len(frame) /\ frame[1] = Delimiter
    BY <1>2, <2>1, FirstIsFirst
  <2>3. frame' = SubSeq(frame, 1 + 1, Len(frame))
    BY <1>2, <2>1, <2>2
  <2>4. Dropped(stream', stream, 1)
    BY <1>3, <2>1, <2>2, <2>3
  <2>5. Judged(1)
    BY <1>2, <2>1, <2>2 DEF Judged, output
  <2> QED BY <2>1, <2>4, <2>5 DEF Received
<1>5. CASE Host!TakeFrame
  <2> DEFINE n == Host!FirstDelimiter  bytes == SubSeq(frame, 1, n - 1)
  <2>1. /\ Host!Delimited /\ n > 1 /\ Receive(bytes)
        /\ frame' = SubSeq(frame, n + 1, Len(frame))
        /\ UNCHANGED <<sizes, line, damage>>
    BY <1>5, HostLine DEF Host!TakeFrame, Host!Cut, Host!lineVars
  <2>2. /\ n \in 1..Len(frame) /\ n \in 0..Len(frame) /\ n - 1 \in 0..Len(frame)
        /\ frame[n] = Delimiter /\ \A j \in 1..n - 1 : frame[j] # Delimiter
    BY <1>2, <2>1, FirstIsFirst
  <2> HIDE DEF n
  <2>3. Dropped(stream', stream, n)
    BY <1>3, <2>1, <2>2
  <2>4. bytes \in Seq(Bytes) /\ Len(bytes) = n - 1 /\ \A i \in 1..n - 1 : bytes[i] = frame[i]
    BY <1>2, <2>2, FrontIndex
  <2> HIDE DEF bytes
  <2>5. /\ Len(bytes) >= 1 /\ Len(bytes) + 1 = n /\ Len(bytes) + 1 <= Len(stream)
        /\ \A i \in 1..Len(bytes) : bytes[i] = stream[i] /\ bytes[i] # Delimiter
        /\ stream[n] = Delimiter
    BY <1>2, <2>1, <2>2, <2>4, SMTT(30)
  <2>6. Judged(n)
    BY <1>1, <1>2, <2>1, <2>4, <2>5, CutOff
  <2> QED BY <2>1, <2>3, <2>6 DEF Received
<1>6. CASE Host!Overflow
  <2>1. /\ ~Host!Delimited /\ Len(frame) > MaxRx /\ frame' = <<>> /\ FrameError
        /\ UNCHANGED <<sizes, line, damage>>
    BY <1>6, HostLine DEF Host!Overflow, Host!Overfull, Host!lineVars
  <2>2. Len(frame) \in 0..Len(frame) /\ Len(<<>>) = Len(frame) - Len(frame)
    BY <1>2
  <2>3. Dropped(frame' \o line, frame \o line, Len(frame))
    <3>1. <<>> \in Seq(Bytes) /\ \A k \in 1..Len(frame) - Len(frame) : <<>>[k] = frame[Len(frame) + k]
      BY <1>2
    <3> QED BY <1>2, <2>1, <2>2, <3>1, CutFront
  <2>4. Len(frame) \in 1..Len(stream) /\ \A size \in Sizes : size < Len(frame)
    BY <1>2, <2>1, RxAssumption, LineAssumption
  <2>5. \A i \in 1..Len(frame) : stream[i] # Delimiter
    BY <1>2, <2>1 DEF Host!Delimited
  <2>6. Judged(Len(frame))
    BY <1>1, <1>2, <2>1, <2>4, <2>5, DroppedFull, SMTT(30)
  <2> QED BY <2>1, <2>3, <2>6 DEF Received, stream
<1>7. CASE Host!Read
  <2>1. UNCHANGED <<sizes, damage, delivered, errors>>
    BY <1>7 DEF Host!Read, Host!output
  <2>2. PICK n \in 1..Chunk :
          /\ n <= Len(line)
          /\ frame' = frame \o SubSeq(line, 1, n)
          /\ line' = SubSeq(line, n + 1, Len(line))
    BY <1>7 DEF Host!Read
  <2>3. n \in 0..Len(line) /\ n \in Nat
    BY <1>2, <2>2, RxAssumption
  <2> DEFINE l == SubSeq(line, 1, n)
  <2>4. l \in Seq(Bytes) /\ Len(l) = n /\ \A k \in 1..n : l[k] = line[k]
    BY <1>2, <2>3, FrontIndex
  <2>5. /\ line' \in Seq(Bytes) /\ Len(line') = Len(line) - n
        /\ \A k \in 1..Len(line) - n : line'[k] = line[n + k]
    BY <1>2, <2>2, <2>3, BackIndex
  <2>6. frame' = frame \o l
    BY <2>2
  <2> HIDE DEF l
  <2>7. /\ frame' \in Seq(Bytes) /\ Len(frame') = Len(frame) + Len(l)
        /\ \A i \in 1..Len(frame) : frame'[i] = frame[i]
        /\ \A i \in Len(frame) + 1..Len(frame) + Len(l) : frame'[i] = l[i - Len(frame)]
    <3>1. frame \in Seq(Bytes) /\ l \in Seq(Bytes)
      BY <1>2, <2>4
    <3>2. /\ frame \o l \in Seq(Bytes) /\ Len(frame \o l) = Len(frame) + Len(l)
          /\ \A i \in 1..Len(frame) : (frame \o l)[i] = frame[i]
          /\ \A i \in Len(frame) + 1..Len(frame) + Len(l) : (frame \o l)[i] = l[i - Len(frame)]
      BY ONLY <3>1, ConcatIndex, ZenonT(40)
    <3> QED BY <2>6, <3>2
  <2>8. /\ Len(frame') = Len(frame) + n
        /\ \A i \in Len(frame) + 1..Len(frame) + n : frame'[i] = line[i - Len(frame)]
        /\ \A k \in 1..Len(line) - n : line'[k] = line[k + n]
    <3>1. Len(frame') = Len(frame) + n
      BY <2>4, <2>7
    <3>2. ASSUME NEW i \in Len(frame) + 1..Len(frame) + n
          PROVE  frame'[i] = line[i - Len(frame)]
      BY <1>2, <2>3, <2>4, <2>7
    <3>3. \A k \in 1..Len(line) - n : k + n = n + k
      BY <1>2, <2>3
    <3> QED BY <2>5, <3>1, <3>2, <3>3
  <2>9. Dropped(frame' \o line', frame \o line, 0)
    BY <1>2, <2>3, <2>5, <2>7, <2>8, Moved
  <2> QED BY <2>1, <2>9 DEF Received, Judged, stream, output
<1> QED BY <1>4, <1>5, <1>6, <1>7

-----------------------------------------------------------------------------
(* The order of the packets is kept *)

LEMMA HitKeepsOrder ==
  ASSUME NEW sz, NEW d, NEW s \in Seq(Bytes), NEW t \in Seq(Bytes),
         NEW x, NEW o, Hit(t, s, x, o), Known(s, sz), Ordered(s), Later(s, d)
  PROVE  Known(t, sz) /\ Ordered(t) /\ Later(t, d)
<1>0. Len(s) \in Nat /\ Len(t) \in Nat
  BY LenProperties
<1>1. PICK m : Thins(t, s, m, x)
  BY <1>0, HitThins
<1>2. \A k \in 1..Len(t) : t[k] \in Places => m[k] \in 1..Len(s) /\ t[k] = s[m[k]]
  BY <1>1 DEF Thins
<1>3. \A j, k \in 1..Len(t) : j < k /\ t[j] \in Places /\ t[k] \in Places => m[j] < m[k]
  BY <1>1 DEF Thins
<1>4. Known(t, sz)
  BY <1>2 DEF Known
<1>5. Ordered(t)
  <2> SUFFICES ASSUME NEW i \in 1..Len(t), NEW j \in 1..Len(t),
                      i < j, t[i] \in Places, t[j] \in Places
               PROVE  Before(t[i], t[j])
    BY DEF Ordered
  <2>1. /\ m[i] \in 1..Len(s) /\ m[j] \in 1..Len(s) /\ m[i] < m[j]
        /\ t[i] = s[m[i]] /\ t[j] = s[m[j]]
    BY <1>2, <1>3
  <2> QED BY <2>1 DEF Ordered
<1>6. Later(t, d)
  BY <1>2 DEF Later
<1> QED BY <1>4, <1>5, <1>6

LEMMA DroppedKeepsOrder ==
  ASSUME NEW sz, NEW d, NEW s \in Seq(Bytes), NEW t \in Seq(Bytes), NEW n, Dropped(t, s, n),
         Known(s, sz), Ordered(s), Later(s, d)
  PROVE  Known(t, sz) /\ Ordered(t) /\ Later(t, d)
<1>0. Len(s) \in Nat /\ Len(t) \in Nat
  BY LenProperties
<1>1. \A k \in 1..Len(t) : k + n \in 1..Len(s) /\ t[k] = s[k + n]
  BY <1>0 DEF Dropped
<1>2. Known(t, sz)
  BY <1>1 DEF Known
<1>3. Ordered(t)
  <2> SUFFICES ASSUME NEW i \in 1..Len(t), NEW j \in 1..Len(t),
                      i < j, t[i] \in Places, t[j] \in Places
               PROVE  Before(t[i], t[j])
    BY DEF Ordered
  <2>1. /\ i + n \in 1..Len(s) /\ j + n \in 1..Len(s) /\ i + n < j + n
        /\ t[i] = s[i + n] /\ t[j] = s[j + n]
    BY <1>0, <1>1 DEF Dropped
  <2> QED BY <2>1 DEF Ordered
<1>4. Later(t, d)
  BY <1>1 DEF Later
<1> QED BY <1>2, <1>3, <1>4

(* One more packet was sent. *)
Sent(sz2, sz) ==
  /\ Len(sz2) = Len(sz) + 1
  /\ \A q \in 1..Len(sz) : sz2[q] = sz[q]

LEMMA GrownIndex ==
  ASSUME NEW sz2 \in Seq(Sizes), NEW p \in 1..Len(sz2),
         NEW s \in Seq(Bytes), NEW t \in Seq(Bytes), Grown(t, s, p, sz2), NEW k \in 1..Len(t)
  PROVE  \/ k \in 1..Len(s) /\ t[k] = s[k]
         \/ k = Len(t) /\ t[k] = Delimiter
         \/ /\ k > Len(s) /\ k < Len(t)
            /\ k - Len(s) \in 1..sz2[p] /\ t[k] = Place(p, k - Len(s)) /\ t[k] \in Places
<1>0. /\ Len(s) \in Nat /\ Len(t) \in Nat /\ Len(t) = Len(s) + sz2[p] + 1
      /\ sz2[p] \in Nat \ {0} /\ p \in Nat \ {0} /\ Len(sz2) \in Nat
  BY LenProperties, SizesType DEF Grown
<1>1. CASE k <= Len(s)
  BY <1>0, <1>1 DEF Grown
<1>2. CASE k > Len(s)
  <2> DEFINE i == k - Len(s)
  <2>1. i \in 1..sz2[p] + 1 /\ k = Len(s) + i /\ i \in Nat \ {0}
    BY <1>0, <1>2
  <2> HIDE DEF i
  <2>2. t[k] = Coded(p, i, sz2)
    BY <2>1 DEF Grown
  <2>3. CASE i <= sz2[p]
    BY <1>0, <1>2, <2>1, <2>2, <2>3, CodedBytes DEF Coded, i
  <2>4. CASE i = sz2[p] + 1
    BY <1>0, <2>1, <2>2, <2>4, SMTT(30) DEF Coded
  <2> QED BY <1>0, <2>1, <2>3, <2>4
<1> QED BY <1>0, <1>1, <1>2

LEMMA GrownKeepsOrder ==
  ASSUME NEW sz \in Seq(Sizes), NEW sz2 \in Seq(Sizes), Sent(sz2, sz),
         NEW s \in Seq(Bytes), NEW t \in Seq(Bytes), Grown(t, s, Len(sz) + 1, sz2),
         NEW d, \A k \in 1..Len(d) : d[k] \in 1..Len(sz),
         Known(s, sz), Ordered(s), Later(s, d)
  PROVE  Known(t, sz2) /\ Ordered(t) /\ Later(t, d)
<1> DEFINE p == Len(sz) + 1
<1>0. /\ Len(s) \in Nat /\ Len(t) \in Nat /\ Len(sz) \in Nat /\ p \in 1..Len(sz2)
      /\ Len(sz2) \in Nat /\ \A q \in 1..Len(sz2) : sz2[q] \in Nat
  BY LenProperties, SizesType DEF Sent
<1>1. ASSUME NEW k \in 1..Len(t), t[k] \in Places
      PROVE  \/ k \in 1..Len(s) /\ t[k] = s[k]
             \/ /\ k > Len(s) /\ k - Len(s) \in 1..sz2[p] /\ t[k] = Place(p, k - Len(s))
  BY <1>0, <1>1, GrownIndex, BytesAssumption
<1>2. Known(t, sz2)
  <2> SUFFICES ASSUME NEW k \in 1..Len(t), t[k] \in Places
               PROVE  t[k].packet \in 1..Len(sz2) /\ t[k].place \in 1..sz2[t[k].packet]
    BY DEF Known
  <2>1. CASE k \in 1..Len(s) /\ t[k] = s[k]
    <3>1. s[k].packet \in 1..Len(sz) /\ s[k].place \in 1..sz[s[k].packet]
      BY <2>1 DEF Known
    <3> QED BY <1>0, <2>1, <3>1 DEF Sent
  <2>2. CASE k - Len(s) \in 1..sz2[p] /\ t[k] = Place(p, k - Len(s))
    BY <1>0, <2>2 DEF Place
  <2> QED BY <1>1, <2>1, <2>2
<1>3. Ordered(t)
  <2> SUFFICES ASSUME NEW i \in 1..Len(t), NEW j \in 1..Len(t),
                      i < j, t[i] \in Places, t[j] \in Places
               PROVE  Before(t[i], t[j])
    BY DEF Ordered
  <2>1. CASE i \in 1..Len(s) /\ t[i] = s[i] /\ j \in 1..Len(s) /\ t[j] = s[j]
    BY <2>1 DEF Ordered
  <2>2. CASE /\ i \in 1..Len(s) /\ t[i] = s[i]
             /\ j - Len(s) \in 1..sz2[p] /\ t[j] = Place(p, j - Len(s))
    <3>1. t[i].packet \in 1..Len(sz) /\ t[j].packet = p
      BY <2>2 DEF Known, Place
    <3> QED BY <1>0, <3>1 DEF Before
  <2>3. CASE /\ i > Len(s) /\ t[i] = Place(p, i - Len(s))
             /\ j > Len(s) /\ t[j] = Place(p, j - Len(s))
    BY <1>0, <2>3 DEF Before, Place
  <2>4. ~(i > Len(s) /\ j \in 1..Len(s))
    BY <1>0
  <2> QED BY <1>1, <2>1, <2>2, <2>3, <2>4
<1>4. Later(t, d)
  <2> SUFFICES ASSUME NEW k \in 1..Len(t), NEW q \in 1..Len(d), t[k] \in Places
               PROVE  d[q] < t[k].packet
    BY DEF Later
  <2>1. CASE k \in 1..Len(s) /\ t[k] = s[k]
    BY <2>1 DEF Later
  <2>2. CASE t[k] = Place(p, k - Len(s))
    <3>1. t[k].packet = p /\ d[q] \in 1..Len(sz)
      BY <2>2 DEF Place
    <3> QED BY <1>0, <3>1
  <2> QED BY <1>1, <2>1, <2>2
<1> QED BY <1>2, <1>3, <1>4

LEMMA DeliveredKeepsOrder ==
  ASSUME NEW sz \in Seq(Sizes), NEW s \in Seq(Bytes), NEW t \in Seq(Bytes), NEW p,
         Whole(s, p, sz), Dropped(t, s, sz[p] + 1), NEW d \in Seq(Nat),
         Known(s, sz), Ordered(s), Later(s, d), Increasing(d)
  PROVE  Later(t, Append(d, p)) /\ Increasing(Append(d, p))
<1> DEFINE e == Append(d, p)  z == sz[p]
<1>0. /\ Len(s) \in Nat /\ Len(t) \in Nat /\ Len(d) \in Nat /\ Len(sz) \in Nat
      /\ p \in 1..Len(sz) /\ p \in Nat \ {0} /\ z \in Nat \ {0} /\ z + 1 \in 1..Len(s)
      /\ 1 \in 1..Len(s) /\ z \in 1..Len(s)
  BY LenProperties, SizesType DEF Whole
<1>1. /\ Len(e) = Len(d) + 1 /\ e[Len(d) + 1] = p
      /\ \A k \in 1..Len(d) : e[k] = d[k] /\ d[k] \in Nat
  BY <1>0, AppendProperties, ElementOfSeq, SMTT(30)
<1>2. s[1] = Place(p, 1) /\ s[z] = Place(p, z) /\ s[1] \in Places /\ s[z] \in Places
  <2>0. \A i \in 1..z : i \in 1..z + 1 /\ i <= z
    BY <1>0
  <2>1. \A i \in 1..z : s[i] = Place(p, i)
    BY <2>0 DEF Whole, Coded
  <2>2. 1 \in 1..z /\ z \in 1..z
    BY <1>0
  <2> QED BY <1>0, <2>1, <2>2, CodedBytes
<1> HIDE DEF e, z
<1>3. \A k \in 1..Len(d) : d[k] < p
  BY <1>0, <1>2 DEF Later, Place
<1>4. ASSUME NEW k \in 1..Len(t), t[k] \in Places
      PROVE  p < t[k].packet
  <2>1. k + (z + 1) \in 1..Len(s) /\ t[k] = s[k + (z + 1)] /\ z < k + (z + 1)
    BY <1>0, SMTT(30) DEF Dropped, z
  <2>2. Before(s[z], t[k])
    BY <1>0, <1>2, <1>4, <2>1 DEF Ordered
  <2>3. t[k].packet \in 1..Len(sz) /\ t[k].place \in 1..sz[t[k].packet]
    BY <1>4, <2>1 DEF Known
  <2>4. \/ p < t[k].packet
        \/ p = t[k].packet /\ z < t[k].place
    BY <1>2, <2>2 DEF Before, Place
  <2> QED BY <1>0, <2>3, <2>4 DEF z
<1>5. Later(t, e)
  <2> SUFFICES ASSUME NEW k \in 1..Len(t), NEW q \in 1..Len(e), t[k] \in Places
               PROVE  e[q] < t[k].packet
    BY DEF Later
  <2>1. p < t[k].packet /\ t[k].packet \in Nat
    BY <1>4 DEF Places
  <2>2. CASE q = Len(d) + 1
    BY <1>1, <2>1, <2>2
  <2>3. CASE q \in 1..Len(d)
    <3>1. e[q] = d[q] /\ d[q] \in Nat /\ d[q] < p
      BY <1>1, <1>3, <2>3
    <3> QED BY <1>0, <2>1, <3>1, SMTT(30)
  <2> QED BY <1>0, <1>1, <2>2, <2>3
<1>6. Increasing(e)
  <2> SUFFICES ASSUME NEW i \in 1..Len(e), NEW j \in 1..Len(e), i < j
               PROVE  e[i] < e[j]
    BY DEF Increasing
  <2>1. i \in 1..Len(d) /\ (j = Len(d) + 1 \/ j \in 1..Len(d))
    BY <1>0, <1>1, SMTT(30)
  <2> QED BY <1>1, <1>3, <2>1 DEF Increasing
<1> QED BY <1>5, <1>6 DEF e

-----------------------------------------------------------------------------
(* Every step of the two ends, seen on the stream *)

Transmitted ==
  /\ UNCHANGED <<damage, output>>
  /\ \E size \in Sizes : sizes' = Append(sizes, size)
  /\ Grown(stream', stream, Len(sizes) + 1, sizes')

Damaged ==
  /\ UNCHANGED <<sizes, output>>
  /\ damage' = damage + 1
  /\ \E x, o : Hit(stream', stream, x, o)

LEMMA BoundedTypes ==
  ASSUME Bounded
  PROVE  /\ StreamTypes
         /\ stream \in Seq(Bytes) /\ sizes \in Seq(Sizes) /\ damage \in Nat /\ errors \in Nat
         /\ Len(sizes) \in Nat /\ Len(stream) \in Nat
         /\ delivered \in Seq(1..Len(sizes))
<1>1. ASSUME side = "device" PROVE StreamTypes
  <2>1. LineTypeOK /\ frame \in Seq(Bytes \ {Delimiter})
    BY <1>1 DEF Bounded, BuffersBounded, TypeOK
  <2> QED BY <2>1 DEF StreamTypes
<1>2. ASSUME side = "host" PROVE StreamTypes
  BY <1>2, HostLine DEF Bounded, BuffersBounded, StreamTypes, Host!TypeOK,
                        Bytes, Places, Host!Bytes, Host!Places
<1>3. StreamTypes
  BY <1>1, <1>2 DEF Bounded
<1>4. stream \in Seq(Bytes) /\ Len(stream) \in Nat
  BY <1>3, StreamIndex, LenProperties
<1> QED BY <1>3, <1>4, LenProperties, LineAssumption DEF StreamTypes, LineTypeOK

LEMMA BoundedTypesAfter ==
  Bounded' => stream' \in Seq(Bytes) /\ sizes' \in Seq(Sizes)
<1>1. Bounded => (stream \in Seq(Bytes) /\ sizes \in Seq(Sizes))
  BY BoundedTypes
<1>2. Bounded' => (stream \in Seq(Bytes) /\ sizes \in Seq(Sizes))'
  BY <1>1, PTL
<1> QED BY <1>2

LEMMA LineOnStream ==
  ASSUME StreamTypes, LineNext, UNCHANGED frame
  PROVE  Transmitted \/ Damaged
<1>1. ASSUME NEW size \in Sizes, Send(size)
      PROVE  Transmitted
  BY <1>1, SendGrows DEF Transmitted, Send
<1>2. ASSUME NEW i \in DOMAIN line, LoseByte(i) \/ ChangeByte(i) \/ AddByte(i)
      PROVE  Damaged
  BY <1>2, FailHits DEF Damaged, LoseByte, ChangeByte, AddByte, Fail
<1> QED BY <1>1, <1>2 DEF LineNext

LEMMA StepOnStream ==
  ASSUME Bounded, [FramingNext]_framingVars
  PROVE  Transmitted \/ Damaged \/ \E n : Received(n)
<1>1. StreamTypes /\ Len(stream) \in Nat
  BY BoundedTypes
<1>2. CASE side = "device" /\ Next
  BY <1>1, <1>2, LineOnStream, DeviceOnStream DEF Bounded, BuffersBounded, Next
<1>3. CASE side = "host" /\ Host!Next
  BY <1>1, <1>3, LineOnStream, HostOnStream, HostLine DEF Bounded, BuffersBounded, Host!Next
<1>4. CASE UNCHANGED framingVars
  <2>1. UNCHANGED <<sizes, damage, output, stream>>
    BY <1>4 DEF framingVars, vars, lineVars, stream
  <2>2. Dropped(stream', stream, 0)
    BY <1>1, <2>1 DEF Dropped
  <2> QED BY <2>1, <2>2 DEF Received, Judged
<1> QED BY <1>2, <1>3, <1>4 DEF FramingNext

-----------------------------------------------------------------------------
(* Packets come out in order *)

LEMMA OrderStep ==
  ASSUME Bounded, Bounded', OrderInv, [FramingNext]_framingVars
  PROVE  OrderInv'
<1>1. /\ stream \in Seq(Bytes) /\ sizes \in Seq(Sizes) /\ Len(sizes) \in Nat
      /\ delivered \in Seq(1..Len(sizes))
  BY BoundedTypes
<1>2. stream' \in Seq(Bytes) /\ sizes' \in Seq(Sizes)
  BY BoundedTypesAfter
<1>3. CASE Transmitted
  <2>1. Sent(sizes', sizes)
    BY <1>1, <1>3 DEF Transmitted, Sent
  <2>2. \A k \in 1..Len(delivered) : delivered[k] \in 1..Len(sizes)
    BY <1>1, ElementOfSeq
  <2>3. Known(stream', sizes') /\ Ordered(stream') /\ Later(stream', delivered)
    BY <1>1, <1>2, <1>3, <2>1, <2>2, GrownKeepsOrder DEF Transmitted, OrderInv
  <2> QED BY <1>3, <2>3 DEF OrderInv, Transmitted, output
<1>4. CASE Damaged
  <2>1. Known(stream', sizes) /\ Ordered(stream') /\ Later(stream', delivered)
    BY <1>1, <1>2, <1>4, HitKeepsOrder DEF Damaged, OrderInv
  <2> QED BY <1>4, <2>1 DEF OrderInv, Damaged, output
<1>5. ASSUME NEW n, Received(n)
      PROVE  OrderInv'
  <2>1. Dropped(stream', stream, n) /\ UNCHANGED <<sizes, damage>>
    BY <1>5 DEF Received
  <2>2. Known(stream', sizes) /\ Ordered(stream') /\ Later(stream', delivered)
    BY <1>1, <1>2, <2>1, DroppedKeepsOrder DEF OrderInv
  <2>3. CASE UNCHANGED delivered
    BY <2>1, <2>2, <2>3 DEF OrderInv
  <2>4. ASSUME NEW p, n = sizes[p] + 1, Whole(stream, p, sizes), Deliver(p)
        PROVE  OrderInv'
    <3>1. delivered' = Append(delivered, p) /\ delivered \in Seq(Nat)
      BY <1>1, <2>4 DEF Deliver
    <3>2. Later(stream', delivered') /\ Increasing(delivered')
      BY <1>1, <1>2, <2>1, <2>4, <3>1, DeliveredKeepsOrder DEF OrderInv
    <3> QED BY <2>1, <2>2, <3>2 DEF OrderInv
  <2> QED BY <1>5, <2>3, <2>4 DEF Received, Judged, FrameError, output
<1> QED BY <1>3, <1>4, <1>5, StepOnStream DEF OrderInv

LEMMA OrderHolds == FramingSpec => [](Bounded /\ OrderInv)
<1>1. FramingInit => OrderInv
  <2> SUFFICES ASSUME FramingInit PROVE OrderInv
    OBVIOUS
  <2>1. stream = <<>> /\ delivered = <<>>
    BY DEF FramingInit, Init, LineInit, stream
  <2> QED BY <2>1 DEF OrderInv, Known, Ordered, Later, Increasing
<1>2. Bounded /\ Bounded' /\ OrderInv /\ [FramingNext]_framingVars => OrderInv'
  BY OrderStep
<1>3. FramingSpec => []Bounded
  BY BoundedAlways
<1> QED BY <1>1, <1>2, <1>3, PTL DEF FramingSpec

(* Whatever the line loses, changes or adds, either receiver hands packets  *)
(* out in the order they were sent, and none of them twice.                 *)
THEOREM PacketsInOrder == FramingSpec => []InOrder
<1>1. Bounded /\ OrderInv => InOrder
  <2> SUFFICES ASSUME Bounded, OrderInv PROVE InOrder
    OBVIOUS
  <2>1. DOMAIN delivered = 1..Len(delivered)
    BY BoundedTypes, LenProperties
  <2> QED BY <2>1 DEF OrderInv, Increasing, InOrder
<1> QED BY <1>1, OrderHolds, PTL

-----------------------------------------------------------------------------
(* Without a failure of the line there are no frame errors *)

LEMMA CleanBegin ==
  ASSUME NEW sz \in Seq(Sizes), NEW s \in Seq(Bytes), Known(s, sz), Clean(s, sz),
         1 <= Len(s), s[1] # Delimiter
  PROVE  \E p : Whole(s, p, sz)
<1> DEFINE p == s[1].packet
<1>1. Len(s) \in Nat /\ 1 \in 1..Len(s)
  BY LenProperties
<1>2. s[1] \in Places /\ s[1].place = 1 /\ Complete(s, 1, sz)
  BY <1>1 DEF Clean
<1>3. p \in 1..Len(sz) /\ sz[p] \in Nat \ {0}
  BY <1>1, <1>2, SizesType DEF Known
<1> HIDE DEF p
<1>4. ASSUME NEW i \in 1..sz[p] + 1
      PROVE  i \in 1..Len(s) /\ s[i] = Coded(p, i, sz)
  <2>1. 1 + (i - s[1].place) = i /\ i \in s[1].place..sz[p] + 1
    BY <1>2, <1>3
  <2> QED BY <1>2, <2>1 DEF Complete, p
<1>5. sz[p] + 1 \in 1..Len(s)
  BY <1>3, <1>4
<1> QED BY <1>3, <1>4, <1>5 DEF Whole

LEMMA DroppedKeepsClean ==
  ASSUME NEW sz \in Seq(Sizes), NEW s \in Seq(Bytes), NEW t \in Seq(Bytes), NEW n,
         Dropped(t, s, n), Known(s, sz), Clean(s, sz),
         n = 0 \/ (n \in 1..Len(s) /\ s[n] = Delimiter)
  PROVE  Clean(t, sz)
<1>0. Len(s) \in Nat /\ Len(t) \in Nat /\ n \in Nat /\ Len(t) = Len(s) - n
  BY LenProperties DEF Dropped
<1>1. \A k \in 1..Len(t) : k + n \in 1..Len(s) /\ t[k] = s[k + n]
  BY <1>0 DEF Dropped
<1> SUFFICES ASSUME NEW j \in 1..Len(t), t[j] # Delimiter
             PROVE  /\ t[j] \in Places /\ Complete(t, j, sz)
                    /\ j = 1 \/ t[j - 1] = Delimiter => t[j].place = 1
  BY DEF Clean
<1> DEFINE h == j + n
<1>2. h \in 1..Len(s) /\ t[j] = s[h] /\ h = j + n /\ h \in Nat /\ j \in Nat /\ j >= 1
  BY <1>0, <1>1
<1> HIDE DEF h
<1>3. /\ s[h] \in Places /\ Complete(s, h, sz)
      /\ h = 1 \/ s[h - 1] = Delimiter => s[h].place = 1
  BY <1>2 DEF Clean
<1>4. s[h].place \in Nat /\ s[h].packet \in 1..Len(sz) /\ sz[s[h].packet] \in Nat
  BY <1>2, <1>3, SizesType DEF Known, Places
<1>5. Complete(t, j, sz)
  <2> SUFFICES ASSUME NEW i \in t[j].place..sz[t[j].packet] + 1
               PROVE  /\ j + (i - t[j].place) \in 1..Len(t)
                      /\ t[j + (i - t[j].place)] = Coded(t[j].packet, i, sz)
    BY DEF Complete
  <2> DEFINE a == j + (i - t[j].place)
  <2>1. h + (i - s[h].place) \in 1..Len(s) /\ s[h + (i - s[h].place)] = Coded(s[h].packet, i, sz)
    BY <1>2, <1>3 DEF Complete
  <2>2. a + n = h + (i - s[h].place) /\ a >= 1 /\ a \in Int
    <3> DEFINE q == s[h].place  z == sz[s[h].packet]
    <3>1. q \in Nat /\ z \in Nat /\ i \in q..z + 1 /\ a = j + (i - q)
      BY <1>2, <1>4
    <3> HIDE DEF q, z, a
    <3>2. a + n = h + (i - q) /\ a >= 1 /\ a \in Int
      BY <1>0, <1>2, <3>1, SMTT(30)
    <3> QED BY <3>2 DEF q
  <2> HIDE DEF a
  <2>3. a \in 1..Len(t)
    BY <1>0, <2>1, <2>2
  <2> QED BY <1>1, <1>2, <2>1, <2>2, <2>3 DEF a
<1>6. ASSUME j = 1 \/ t[j - 1] = Delimiter PROVE t[j].place = 1
  <2>1. CASE j > 1 /\ t[j - 1] = Delimiter
    <3>0. j > 1
      BY <2>1
    <3>1. j - 1 \in 1..Len(t) /\ (j - 1) + n = h - 1
      <4>1. j \in 1..Len(t)
        OBVIOUS
      <4> QED BY ONLY <1>0, <1>2, <3>0, <4>1
    <3> QED BY <1>1, <1>2, <1>3, <2>1, <3>1
  <2>2. CASE j = 1 /\ n = 0
    BY <1>2, <1>3, <2>2
  <2>3. CASE j = 1 /\ n \in 1..Len(s) /\ s[n] = Delimiter
    <3>1. h - 1 = n
      BY <1>0, <1>2, <2>3
    <3> QED BY <1>2, <1>3, <2>3, <3>1
  <2> QED BY <1>2, <1>6, <2>1, <2>2, <2>3
<1> QED BY <1>2, <1>3, <1>5, <1>6

LEMMA GrownKeepsClean ==
  ASSUME NEW sz \in Seq(Sizes), NEW sz2 \in Seq(Sizes), Sent(sz2, sz),
         NEW s \in Seq(Bytes), NEW t \in Seq(Bytes), Grown(t, s, Len(sz) + 1, sz2),
         Known(s, sz), Clean(s, sz)
  PROVE  Clean(t, sz2)
<1> DEFINE p == Len(sz) + 1
<1>0. /\ Len(s) \in Nat /\ Len(t) \in Nat /\ Len(sz) \in Nat /\ p \in 1..Len(sz2)
      /\ sz2[p] \in Nat \ {0} /\ Len(t) = Len(s) + sz2[p] + 1
      /\ \A k \in 1..Len(s) : t[k] = s[k]
      /\ \A i \in 1..sz2[p] + 1 : t[Len(s) + i] = Coded(p, i, sz2)
  BY LenProperties, SizesType DEF Sent, Grown
<1> SUFFICES ASSUME NEW j \in 1..Len(t), t[j] # Delimiter
             PROVE  /\ t[j] \in Places /\ Complete(t, j, sz2)
                    /\ j = 1 \/ t[j - 1] = Delimiter => t[j].place = 1
  BY DEF Clean
<1>1. CASE j <= Len(s)
  <2>1. j \in 1..Len(s) /\ t[j] = s[j] /\ (j > 1 => t[j - 1] = s[j - 1])
    BY <1>0, <1>1
  <2>2. /\ s[j] \in Places /\ Complete(s, j, sz)
        /\ j = 1 \/ s[j - 1] = Delimiter => s[j].place = 1
    BY <2>1 DEF Clean
  <2>3. s[j].packet \in 1..Len(sz) /\ sz2[s[j].packet] = sz[s[j].packet]
    BY <2>1, <2>2 DEF Known, Sent
  <2>4. Complete(t, j, sz2)
    <3> SUFFICES ASSUME NEW i \in t[j].place..sz2[t[j].packet] + 1
                 PROVE  /\ j + (i - t[j].place) \in 1..Len(t)
                        /\ t[j + (i - t[j].place)] = Coded(t[j].packet, i, sz2)
      BY DEF Complete
    <3> DEFINE a == j + (i - s[j].place)
    <3>1. a \in 1..Len(s) /\ s[a] = Coded(s[j].packet, i, sz)
      BY <2>1, <2>2, <2>3 DEF Complete
    <3> HIDE DEF a
    <3>2. a \in 1..Len(t) /\ t[a] = Coded(s[j].packet, i, sz2)
      BY <1>0, <2>3, <3>1, SMTT(30) DEF Coded
    <3> QED BY <2>1, <3>2 DEF a
  <2> QED BY <2>1, <2>2, <2>4
<1>2. CASE j > Len(s)
  <2> DEFINE i == j - Len(s)
  <2>1. i \in 1..sz2[p] /\ t[j] = Place(p, i) /\ t[j] \in Places
    BY <1>0, <1>2, GrownIndex, SMTT(30)
  <2>2. t[j].packet = p /\ t[j].place = i /\ j = Len(s) + i
    BY <1>0, <2>1 DEF Place
  <2> HIDE DEF i
  <2>3. Complete(t, j, sz2)
    <3> SUFFICES ASSUME NEW k \in i..sz2[p] + 1
                 PROVE  /\ j + (k - i) \in 1..Len(t)
                        /\ t[j + (k - i)] = Coded(p, k, sz2)
      BY <2>2 DEF Complete
    <3>1. j + (k - i) = Len(s) + k /\ k \in 1..sz2[p] + 1 /\ Len(s) + k \in 1..Len(t)
      BY <1>0, <2>1, <2>2, SMTT(30)
    <3> QED BY <1>0, <3>1
  <2>4. ASSUME i # 1 PROVE j # 1 /\ t[j - 1] # Delimiter
    <3>1. /\ i - 1 \in 1..sz2[p] /\ i - 1 \in 1..sz2[p] + 1
          /\ j - 1 = Len(s) + (i - 1) /\ i - 1 <= sz2[p] /\ i - 1 \in Nat \ {0}
      BY <1>0, <2>1, <2>2, <2>4, SMTT(30)
    <3>2. t[j - 1] = Place(p, i - 1) /\ p \in Nat \ {0}
      BY <1>0, <3>1, SMTT(30) DEF Coded
    <3> QED BY <1>0, <3>1, <3>2, CodedBytes
  <2> QED BY <2>1, <2>2, <2>3, <2>4
<1> QED BY <1>0, <1>1, <1>2

LEMMA CleanStep ==
  ASSUME Bounded, Bounded', OrderInv, CleanInv, [FramingNext]_framingVars
  PROVE  CleanInv'
<1>1. /\ stream \in Seq(Bytes) /\ sizes \in Seq(Sizes) /\ Len(sizes) \in Nat
      /\ Len(stream) \in Nat /\ damage \in Nat
      /\ stream' \in Seq(Bytes) /\ sizes' \in Seq(Sizes) /\ Known(stream, sizes)
  BY BoundedTypes, BoundedTypesAfter DEF OrderInv
<1> SUFFICES ASSUME damage' = 0 PROVE Clean(stream', sizes') /\ errors' = 0
  BY DEF CleanInv
<1>2. CASE Transmitted
  <2>1. Sent(sizes', sizes) /\ Clean(stream, sizes) /\ errors' = 0
    BY <1>1, <1>2 DEF Transmitted, Sent, CleanInv, output
  <2> QED BY <1>1, <1>2, <2>1, GrownKeepsClean DEF Transmitted
<1>3. CASE Damaged
  BY <1>1, <1>3 DEF Damaged
<1>4. ASSUME NEW n, Received(n)
      PROVE  Clean(stream', sizes') /\ errors' = 0
  <2>1. /\ Dropped(stream', stream, n) /\ sizes' = sizes
        /\ Clean(stream, sizes) /\ errors = 0
    BY <1>4 DEF Received, CleanInv
  <2>2. n \in 0..Len(stream)
    BY <2>1 DEF Dropped
  <2>3. ~Broken(n)
    BY <1>1, <2>1, <2>2, CleanBegin DEF Broken
  <2>4. errors' = 0 /\ (n = 0 \/ (n \in 1..Len(stream) /\ stream[n] = Delimiter))
    <3>1. CASE n = 0 /\ UNCHANGED output
      BY <2>1, <3>1 DEF output
    <3>2. CASE n = 1 /\ stream[1] = Delimiter /\ UNCHANGED output
      BY <1>1, <2>1, <2>2, <3>2 DEF output
    <3>3. ASSUME NEW p, n = sizes[p] + 1, Whole(stream, p, sizes), Deliver(p)
          PROVE  errors' = 0 /\ n \in 1..Len(stream) /\ stream[n] = Delimiter
      <4>1. sizes[p] \in Nat \ {0}
        BY <1>1, <3>3, SizesType DEF Whole
      <4> QED BY <2>1, <3>3, <4>1 DEF Whole, Coded, Deliver
    <3> QED BY <1>4, <2>3, <3>1, <3>2, <3>3 DEF Received, Judged
  <2> QED BY <1>1, <2>1, <2>4, DroppedKeepsClean
<1> QED BY <1>2, <1>3, <1>4, StepOnStream

-----------------------------------------------------------------------------
(* Without a frame error nothing is missing but what the line took *)

LEMMA PresentFinite ==
  ASSUME NEW s, NEW p, NEW sz, sz[p] \in Nat
  PROVE  IsFiniteSet(Present(s, p, sz)) /\ Cardinality(Present(s, p, sz)) \in Nat
<1>1. IsFiniteSet(1..sz[p])
  BY FS_Interval
<1>2. Present(s, p, sz) \in SUBSET (1..sz[p])
  BY DEF Present
<1> QED BY <1>1, <1>2, FS_Subset, FS_CardinalityType

(* So many places of a packet are still to come. *)
ToCome(s, p, sz) == Cardinality(Present(s, p, sz))

LEMMA PresentMore ==
  ASSUME NEW s, NEW t, NEW p, NEW sz, NEW sz2, sz[p] \in Nat, sz2[p] \in Nat,
         Present(s, p, sz) \subseteq Present(t, p, sz2)
  PROVE  ToCome(s, p, sz) <= ToCome(t, p, sz2)
BY PresentFinite, FS_Subset DEF ToCome

LEMMA HitTakesOne ==
  ASSUME NEW p, NEW sz, sz[p] \in Nat, NEW s \in Seq(Bytes), NEW t \in Seq(Bytes),
         NEW x, NEW o, Hit(t, s, x, o)
  PROVE  ToCome(s, p, sz) <= ToCome(t, p, sz) + 1
<1> DEFINE A == Present(s, p, sz)  B == Present(t, p, sz)  a == s[x].place
<1>1. PICK m : Thins(t, s, m, x)
  BY HitThins, LenProperties
<1>2. ASSUME NEW i \in A PROVE i \in B \cup {a}
  <2>1. PICK j \in 1..Len(s) : s[j] = Place(p, i)
    BY DEF Present
  <2>2. CASE j = x
    BY <2>1, <2>2 DEF Place
  <2>3. CASE j # x
    <3>1. \E k \in 1..Len(t) : t[k] = s[j]
      BY <1>1, <2>3 DEF Thins
    <3> QED BY <2>1, <3>1 DEF Present
  <2> QED BY <2>2, <2>3
<1> HIDE DEF A, B, a
<1>3. IsFiniteSet(B) /\ Cardinality(B) \in Nat /\ Cardinality(A) \in Nat
  BY PresentFinite DEF A, B
<1>4. /\ IsFiniteSet(B \cup {a})
      /\ Cardinality(B \cup {a}) = Cardinality(B) \/ Cardinality(B \cup {a}) = Cardinality(B) + 1
  BY <1>3, FS_AddElement
<1>5. Cardinality(A) <= Cardinality(B \cup {a})
  BY <1>2, <1>4, FS_Subset
<1> QED BY <1>3, <1>4, <1>5 DEF ToCome, A, B

LEMMA GrownPresent ==
  ASSUME NEW sz \in Seq(Sizes), NEW sz2 \in Seq(Sizes), Sent(sz2, sz),
         NEW s \in Seq(Bytes), NEW t \in Seq(Bytes), Grown(t, s, Len(sz) + 1, sz2)
  PROVE  /\ \A q \in 1..Len(sz) : ToCome(s, q, sz) <= ToCome(t, q, sz2)
         /\ ToCome(t, Len(sz) + 1, sz2) = sz2[Len(sz) + 1]
<1> DEFINE p == Len(sz) + 1
<1>0. /\ Len(s) \in Nat /\ Len(t) \in Nat /\ Len(sz) \in Nat /\ p \in 1..Len(sz2)
      /\ sz2[p] \in Nat \ {0} /\ Len(t) = Len(s) + sz2[p] + 1
      /\ \A k \in 1..Len(s) : t[k] = s[k]
      /\ \A i \in 1..sz2[p] + 1 : t[Len(s) + i] = Coded(p, i, sz2)
      /\ \A q \in 1..Len(sz) : sz[q] \in Nat /\ sz2[q] = sz[q]
  BY LenProperties, SizesType DEF Sent, Grown
<1>1. ASSUME NEW q \in 1..Len(sz) PROVE ToCome(s, q, sz) <= ToCome(t, q, sz2)
  <2>1. \A k \in 1..Len(s) : k \in 1..Len(t)
    BY <1>0
  <2>2. Present(s, q, sz) \subseteq Present(t, q, sz2)
    BY <1>0, <2>1 DEF Present
  <2> QED BY <1>0, <2>2, PresentMore
<1>2. Present(t, p, sz2) = 1..sz2[p]
  <2>1. ASSUME NEW i \in 1..sz2[p] PROVE Len(s) + i \in 1..Len(t) /\ t[Len(s) + i] = Place(p, i)
    <3> HIDE DEF p
    <3>1. i \in 1..sz2[p] + 1 /\ i <= sz2[p] /\ Len(s) + i \in 1..Len(t)
      BY <1>0, SMTT(30)
    <3> QED BY <1>0, <3>1 DEF Coded
  <2> HIDE DEF p
  <2> QED BY <2>1 DEF Present
<1>3. ToCome(t, p, sz2) = sz2[p]
  <2> DEFINE z == sz2[p]
  <2>1. z \in Nat \ {0}
    BY <1>0
  <2> HIDE DEF z
  <2>2. Cardinality(1..z) = z
    BY <2>1, FS_Interval
  <2> QED BY <1>2, <2>2 DEF ToCome, z
<1> QED BY <1>1, <1>3

LEMMA DroppedPresent ==
  ASSUME NEW sz \in Seq(Sizes), NEW s \in Seq(Bytes), NEW t \in Seq(Bytes), NEW n,
         Dropped(t, s, n), NEW p \in 1..Len(sz), \A j \in 1..n, i \in 1..sz[p] : s[j] # Place(p, i)
  PROVE  ToCome(s, p, sz) <= ToCome(t, p, sz)
<1>0. /\ Len(s) \in Nat /\ Len(t) \in Nat /\ n \in 0..Len(s) /\ Len(t) = Len(s) - n
      /\ sz[p] \in Nat
  BY LenProperties, SizesType DEF Dropped
<1>1. ASSUME NEW i \in 1..sz[p], NEW j \in 1..Len(s), s[j] = Place(p, i)
      PROVE  \E k \in 1..Len(t) : t[k] = Place(p, i)
  <2>1. ~(j \in 1..n)
    BY <1>1
  <2>2. j - n \in 1..Len(t) /\ (j - n) + n = j
    BY <1>0, <2>1
  <2>3. t[j - n] = s[j]
    BY <2>2 DEF Dropped
  <2> QED BY <1>1, <2>2, <2>3
<1>2. Present(s, p, sz) \subseteq Present(t, p, sz)
  BY <1>1 DEF Present
<1> QED BY <1>0, <1>2, PresentMore

LEMMA LossStep ==
  ASSUME Bounded, Bounded', LossInv, [FramingNext]_framingVars
  PROVE  LossInv'
<1>1. /\ stream \in Seq(Bytes) /\ sizes \in Seq(Sizes) /\ Len(sizes) \in Nat
      /\ Len(stream) \in Nat /\ damage \in Nat /\ errors \in Nat
      /\ stream' \in Seq(Bytes) /\ sizes' \in Seq(Sizes)
      /\ delivered \in Seq(1..Len(sizes))
      /\ \A p \in 1..Len(sizes) : sizes[p] \in Nat \ {0} /\ p \in Nat \ {0}
  BY BoundedTypes, BoundedTypesAfter, SizesType
<1>2. \A p \in 1..Len(sizes) : ToCome(stream, p, sizes) \in Nat
  BY <1>1, PresentFinite DEF ToCome
<1> SUFFICES ASSUME errors' = 0, NEW p \in 1..Len(sizes'), ~Out(delivered', p)
             PROVE  ToCome(stream', p, sizes') + damage' >= sizes'[p]
  BY DEF LossInv, ToCome
<1>3. ASSUME errors = 0, p \in 1..Len(sizes), ~Out(delivered, p)
      PROVE  ToCome(stream, p, sizes) + damage >= sizes[p]
  BY <1>3 DEF LossInv, ToCome
<1>4. ToCome(stream', p, sizes') \in Nat
  BY <1>1, PresentFinite, SizesType DEF ToCome
<1>5. CASE Transmitted
  <2>1. Sent(sizes', sizes) /\ errors = 0 /\ delivered' = delivered /\ damage' = damage
    BY <1>1, <1>5 DEF Transmitted, Sent, output
  <2>2. /\ \A q \in 1..Len(sizes) : ToCome(stream, q, sizes) <= ToCome(stream', q, sizes')
        /\ ToCome(stream', Len(sizes) + 1, sizes') = sizes'[Len(sizes) + 1]
    BY <1>1, <1>5, <2>1, GrownPresent DEF Transmitted
  <2>3. CASE p = Len(sizes) + 1
    BY <1>1, <1>4, <2>1, <2>2, <2>3
  <2>4. CASE p \in 1..Len(sizes)
    <3>1. sizes'[p] = sizes[p]
      BY <2>1, <2>4 DEF Sent
    <3>2. ToCome(stream, p, sizes) + damage >= sizes[p]
      BY <1>3, <2>1, <2>4
    <3>3. ToCome(stream, p, sizes) <= ToCome(stream', p, sizes')
      BY <2>2, <2>4
    <3> QED BY <1>1, <1>2, <1>4, <2>1, <2>4, <3>1, <3>2, <3>3
  <2> QED BY <1>1, <2>1, <2>3, <2>4 DEF Sent
<1>6. CASE Damaged
  <2>1. /\ sizes' = sizes /\ errors = 0 /\ delivered' = delivered /\ damage' = damage + 1
        /\ \E x, o : Hit(stream', stream, x, o)
    BY <1>6 DEF Damaged, output
  <2>2. ToCome(stream, p, sizes) <= ToCome(stream', p, sizes) + 1
    BY <1>1, <2>1, HitTakesOne
  <2> QED BY <1>1, <1>2, <1>3, <1>4, <2>1, <2>2
<1>7. ASSUME NEW n, Received(n)
      PROVE  ToCome(stream', p, sizes') + damage' >= sizes'[p]
  <2>1. /\ Dropped(stream', stream, n) /\ Judged(n)
        /\ sizes' = sizes /\ damage' = damage
    BY <1>7 DEF Received
  <2>2. \A i \in 1..sizes[p] : Place(p, i) # Delimiter
    BY <1>1, <2>1, CodedBytes
  <2>3. errors = 0 /\ ~Out(delivered, p) /\ \A j \in 1..n, i \in 1..sizes[p] : stream[j] # Place(p, i)
    <3>1. CASE n = 0 /\ UNCHANGED output
      BY <3>1 DEF output
    <3>2. CASE n = 1 /\ stream[1] = Delimiter /\ UNCHANGED output
      BY <2>2, <3>2 DEF output
    <3>3. ASSUME NEW q, n = sizes[q] + 1, Whole(stream, q, sizes), Deliver(q)
          PROVE  /\ errors = 0 /\ ~Out(delivered, p)
                 /\ \A j \in 1..n, i \in 1..sizes[p] : stream[j] # Place(p, i)
      <4>1. /\ delivered' = Append(delivered, q) /\ errors' = errors
            /\ q \in 1..Len(sizes) /\ sizes[q] \in Nat \ {0}
        BY <1>1, <3>3 DEF Deliver, Whole
      <4>2. /\ Len(delivered) \in Nat /\ Len(delivered') = Len(delivered) + 1
            /\ delivered'[Len(delivered) + 1] = q
            /\ \A k \in 1..Len(delivered) : delivered'[k] = delivered[k]
        BY <1>1, <4>1, AppendProperties, LenProperties
      <4>3. p # q /\ ~Out(delivered, p)
        BY <4>2 DEF Out
      <4>4. ASSUME NEW j \in 1..n, NEW i \in 1..sizes[p], stream[j] = Place(p, i) PROVE FALSE
        <5>1. stream[j] = Place(q, j) \/ stream[j] = Delimiter
          BY <3>3, <4>1 DEF Whole, Coded
        <5> QED BY <2>2, <4>3, <4>4, <5>1 DEF Place
      <4> QED BY <4>1, <4>3, <4>4
    <3>4. ~FrameError
      BY <1>1 DEF FrameError
    <3> QED BY <2>1, <3>1, <3>2, <3>3, <3>4 DEF Judged
  <2>4. ToCome(stream, p, sizes) <= ToCome(stream', p, sizes)
    BY <1>1, <2>1, <2>3, DroppedPresent
  <2> QED BY <1>1, <1>2, <1>3, <1>4, <2>1, <2>3, <2>4
<1> QED BY <1>5, <1>6, <1>7, StepOnStream

-----------------------------------------------------------------------------
(* Nothing left on the way, nothing left to come *)

(* What has not come out is at least what was lost. *)
LEMMA LostIsMissing ==
  ASSUME NEW n \in Nat, NEW d \in Seq(1..n)
  PROVE  /\ IsFiniteSet({p \in 1..n : ~Out(d, p)})
         /\ n - Len(d) <= Cardinality({p \in 1..n : ~Out(d, p)})
<1> DEFINE U == {p \in 1..n : ~Out(d, p)}  V == {p \in 1..n : Out(d, p)}  D == 1..Len(d)
<1>1. Len(d) \in Nat /\ DOMAIN d = D /\ \A k \in D : d[k] \in 1..n
  BY LenProperties, ElementOfSeq
<1>2. IsFiniteSet(1..n) /\ Cardinality(1..n) = n
  BY FS_Interval
<1>3. IsFiniteSet(D) /\ Cardinality(D) = Len(d)
  <2> DEFINE m == Len(d)
  <2>1. m \in Nat
    BY <1>1
  <2> HIDE DEF m
  <2>2. IsFiniteSet(1..m) /\ Cardinality(1..m) = m
    BY <2>1, FS_Interval
  <2> QED BY <2>2 DEF m
<1>4. IsFiniteSet(U) /\ IsFiniteSet(V)
  BY <1>2, FS_Subset
<1>5. Cardinality(U) \in Nat /\ Cardinality(V) \in Nat /\ Cardinality(U \cap V) \in Nat
  <2>1. IsFiniteSet(U \cap V)
    BY <1>4, FS_Subset
  <2> QED BY <1>4, <2>1, FS_CardinalityType
<1>6. Cardinality(V) <= Len(d)
  <2>1. d \in [D -> V]
    <3>1. d = [k \in D |-> d[k]]
      BY <1>1, LenProperties
    <3>2. \A k \in D : d[k] \in V
      BY <1>1 DEF Out
    <3> QED BY <3>1, <3>2
  <2>2. \A p \in V : \E k \in D : d[k] = p
    BY DEF Out
  <2> HIDE DEF D, V
  <2>3. d \in Surjection(D, V)
    BY <2>1, <2>2, Fun_IsSurj
  <2> QED BY <1>3, <2>3, FS_Surjection
<1>7. U \cup V = 1..n
  OBVIOUS
<1> HIDE DEF U, V
<1>8. n = Cardinality(U) + Cardinality(V) - Cardinality(U \cap V)
  BY <1>2, <1>4, <1>7, FS_Union
<1>9. n - Len(d) <= Cardinality(U)
  BY <1>1, <1>5, <1>6, <1>8
<1> QED BY <1>4, <1>9 DEF U

LEMMA TruthHolds == FramingSpec => [](Bounded /\ OrderInv /\ CleanInv /\ LossInv)
<1>1. FramingInit => CleanInv /\ LossInv
  <2> SUFFICES ASSUME FramingInit PROVE CleanInv /\ LossInv
    OBVIOUS
  <2>1. stream = <<>> /\ sizes = <<>> /\ errors = 0
    BY DEF FramingInit, Init, LineInit, stream
  <2> QED BY <2>1 DEF CleanInv, LossInv, Clean
<1>2. Bounded /\ Bounded' /\ OrderInv /\ CleanInv /\ LossInv /\ [FramingNext]_framingVars
      => CleanInv' /\ LossInv'
  BY CleanStep, LossStep
<1>3. FramingSpec => [](Bounded /\ OrderInv)
  BY OrderHolds
<1> QED BY <1>1, <1>2, <1>3, PTL DEF FramingSpec

(* A frame error means that the line has failed, for either receiver; and a *)
(* packet that is missing at the end has left an error behind, unless the   *)
(* line took as many bytes as a whole packet has.                           *)
THEOREM ErrorsTrue == FramingSpec => []ErrorsTellDamage
<1>1. Bounded /\ CleanInv /\ LossInv => ErrorsTellDamage
  <2> SUFFICES ASSUME Bounded, CleanInv, LossInv PROVE ErrorsTellDamage
    OBVIOUS
  <2>1. /\ damage \in Nat /\ errors \in Nat /\ sizes \in Seq(Sizes)
        /\ Len(sizes) \in Nat /\ delivered \in Seq(1..Len(sizes)) /\ Len(delivered) \in Nat
    BY BoundedTypes, LenProperties
  <2>2. errors > 0 => damage > 0
    BY <2>1 DEF CleanInv
  <2>3. ASSUME Quiet, Lost > 0, errors = 0
        PROVE  \E size \in Sizes : damage >= size
    <3> DEFINE U == {p \in 1..Len(sizes) : ~Out(delivered, p)}
    <3>1. /\ IsFiniteSet(U) /\ Len(sizes) - Len(delivered) <= Cardinality(U)
      BY <2>1, LostIsMissing
    <3>2. PICK p \in 1..Len(sizes) : ~Out(delivered, p)
      <4>1. U # {}
        <5> SUFFICES ASSUME U = {} PROVE FALSE
          OBVIOUS
        <5>1. Cardinality(U) = 0
          BY FS_EmptySet
        <5> HIDE DEF U
        <5> QED BY <2>1, <2>3, <3>1, <5>1 DEF Lost
      <4> QED BY <4>1
    <3>3. sizes[p] \in Sizes /\ sizes[p] \in Nat
      BY <2>1, SizesType
    <3>4. Present(stream, p, sizes) = {}
      <4>1. stream = <<>>
        BY <2>3 DEF Quiet, stream
      <4> QED BY <4>1 DEF Present
    <3>5. Cardinality(Present(stream, p, sizes)) = 0
      BY <3>4, FS_EmptySet
    <3>6. damage >= sizes[p]
      BY <2>1, <2>3, <3>2, <3>3, <3>5 DEF LossInv
    <3> QED BY <3>3, <3>6
  <2> QED BY <2>1, <2>2, <2>3 DEF ErrorsTellDamage
<1> QED BY <1>1, TruthHolds, PTL

-----------------------------------------------------------------------------
(* What a failure of the line can cost *)

LEMMA StandsIndex ==
  ASSUME NEW sz \in Seq(Sizes), NEW p \in 1..Len(sz), NEW s \in Seq(Bytes),
         NEW j, Stands(s, p, j, sz)
  PROVE  /\ Len(s) \in Nat /\ p \in Nat \ {0} /\ sz[p] \in Nat \ {0}
         /\ j \in 1..Len(s) /\ j + sz[p] \in 1..Len(s)
         /\ \A k \in j..j + sz[p] - 1 : s[k] = Place(p, k - (j - 1)) /\ s[k] # Delimiter
         /\ s[j + sz[p]] = Delimiter
         /\ j = 1 \/ s[j - 1] = Delimiter
<1>1. /\ Len(s) \in Nat /\ p \in Nat \ {0} /\ sz[p] \in Nat \ {0}
      /\ j \in 1..Len(s) /\ j + sz[p] \in 1..Len(s)
      /\ \A i \in 1..sz[p] + 1 : s[(j - 1) + i] = Coded(p, i, sz)
      /\ j = 1 \/ s[j - 1] = Delimiter
  BY LenProperties, SizesType DEF Stands
<1>2. ASSUME NEW k \in j..j + sz[p] - 1
      PROVE  s[k] = Place(p, k - (j - 1)) /\ s[k] # Delimiter
  <2> DEFINE i == k - (j - 1)
  <2>1. i \in 1..sz[p] + 1 /\ i <= sz[p] /\ (j - 1) + i = k /\ i \in Nat \ {0}
    BY <1>1, SMTT(30)
  <2> HIDE DEF i
  <2>2. s[k] = Place(p, i)
    BY <1>1, <2>1 DEF Coded
  <2>3. s[k] # Delimiter
    BY <1>1, <2>1, <2>2, CodedBytes
  <2> QED BY <2>2, <2>3 DEF i
<1>3. s[j + sz[p]] = Delimiter
  <2>1. sz[p] + 1 \in 1..sz[p] + 1 /\ ~(sz[p] + 1 <= sz[p]) /\ (j - 1) + (sz[p] + 1) = j + sz[p]
    BY <1>1
  <2> QED BY <1>1, <2>1 DEF Coded
<1> QED BY <1>1, <1>2, <1>3

LEMMA DroppedStands ==
  ASSUME NEW sz \in Seq(Sizes), NEW p \in 1..Len(sz),
         NEW s \in Seq(Bytes), NEW t \in Seq(Bytes), NEW n, Dropped(t, s, n),
         NEW j, Stands(s, p, j, sz), n < j
  PROVE  Safe(t, p, sz)
<1>0. /\ Len(s) \in Nat /\ Len(t) \in Nat /\ n \in Nat /\ Len(t) = Len(s) - n
      /\ sz[p] \in Nat \ {0} /\ j \in 1..Len(s) /\ j + sz[p] \in 1..Len(s)
      /\ j = 1 \/ s[j - 1] = Delimiter
  BY LenProperties, StandsIndex DEF Dropped
<1> DEFINE h == j - n
<1>1. /\ h = j - n /\ h + n = j /\ h \in Nat \ {0}
      /\ h \in 1..Len(t) /\ h + sz[p] \in 1..Len(t)
  BY <1>0, SMTT(30)
<1> HIDE DEF h
<1>2. ASSUME NEW i \in 1..sz[p] + 1
      PROVE  t[(h - 1) + i] = Coded(p, i, sz)
  <2>1. (h - 1) + i \in 1..Len(t) /\ ((h - 1) + i) + n = (j - 1) + i
    <3> DEFINE z == sz[p]  m == Len(t)
    <3>1. /\ i \in 1..z + 1 /\ z \in Nat /\ m \in Nat /\ n \in Nat /\ h \in Nat \ {0}
          /\ j = h + n /\ h + z \in 1..m
      BY <1>0, <1>1
    <3> HIDE DEF z, m
    <3>2. (h - 1) + i \in 1..m /\ ((h - 1) + i) + n = (j - 1) + i
      BY ONLY <3>1
    <3> QED BY <3>2 DEF m
  <2> QED BY <2>1 DEF Dropped, Stands
<1>3. ASSUME h # 1 PROVE t[h - 1] = Delimiter
  <2>1. h - 1 \in 1..Len(t) /\ (h - 1) + n = j - 1 /\ j # 1
    BY <1>0, <1>1, <1>3
  <2> QED BY <1>0, <2>1 DEF Dropped
<1> QED BY <1>1, <1>2, <1>3 DEF Stands, Safe

LEMMA HitStands ==
  ASSUME NEW sz \in Seq(Sizes), NEW p \in 1..Len(sz),
         NEW s \in Seq(Bytes), NEW t \in Seq(Bytes), NEW x, NEW o, Hit(t, s, x, o),
         NEW j, Stands(s, p, j, sz), x \notin j - 1..j + sz[p]
  PROVE  Safe(t, p, sz)
<1>0. /\ Len(s) \in Nat /\ Len(t) \in Nat /\ x \in 1..Len(s)
      /\ o \in {-1, 0, 1} /\ o \in Int /\ Len(t) = Len(s) + o
      /\ sz[p] \in Nat \ {0} /\ j \in 1..Len(s) /\ j + sz[p] \in 1..Len(s)
      /\ j = 1 \/ s[j - 1] = Delimiter
      /\ \A k \in 1..x - 1 : t[k] = s[k]
      /\ \A k \in x + 1..Len(s) : t[k + o] = s[k]
  BY LenProperties, StandsIndex DEF Hit
<1>1. CASE x > j + sz[p]
  <2>1. j \in 1..Len(t) /\ j + sz[p] \in 1..Len(t)
    BY <1>0, <1>1, SMTT(30)
  <2>2. ASSUME NEW i \in 1..sz[p] + 1
        PROVE  t[(j - 1) + i] = Coded(p, i, sz)
    <3>1. (j - 1) + i \in 1..x - 1
      BY <1>0, <1>1, SMTT(30)
    <3> QED BY <1>0, <3>1 DEF Stands
  <2>3. j = 1 \/ t[j - 1] = Delimiter
    <3>1. j # 1 => j - 1 \in 1..x - 1
      BY <1>0, <1>1
    <3> QED BY <1>0, <3>1
  <2> QED BY <2>1, <2>2, <2>3 DEF Stands, Safe
<1>2. CASE x < j - 1
  <2> DEFINE h == j + o
  <2>1. h \in 1..Len(t) /\ h + sz[p] \in 1..Len(t) /\ h = j + o /\ h \in Int
    BY ONLY <1>0, <1>2, SMTT(30)
  <2> HIDE DEF h
  <2>2. ASSUME NEW i \in 1..sz[p] + 1
        PROVE  t[(h - 1) + i] = Coded(p, i, sz)
    <3>0. i \in 1..sz[p] + 1
      OBVIOUS
    <3>1. /\ i \in Int /\ 1 <= i /\ i <= sz[p] + 1 /\ sz[p] \in Int
          /\ j \in Int /\ x \in Int /\ x < j - 1 /\ j + sz[p] <= Len(s)
      BY ONLY <1>0, <1>2, <3>0
    <3>2. (j - 1) + i \in x + 1..Len(s)
      BY ONLY <1>0, <3>1, SMTT(30)
    <3>3. ((j - 1) + i) + o = (h - 1) + i
      BY ONLY <1>0, <2>1, <3>1
    <3> QED BY <1>0, <3>2, <3>3 DEF Stands
  <2>3. t[h - 1] = Delimiter
    <3>1. j - 1 \in x + 1..Len(s) /\ (j - 1) + o = h - 1 /\ j # 1
      BY <1>0, <1>2, <2>1
    <3> QED BY <1>0, <3>1
  <2> QED BY <2>1, <2>2, <2>3 DEF Stands, Safe
<1> QED BY <1>0, <1>1, <1>2

(* Packets that stand on one byte are one packet. *)
LEMMA StandsOne ==
  ASSUME NEW sz \in Seq(Sizes), NEW p \in 1..Len(sz), NEW q \in 1..Len(sz), NEW s \in Seq(Bytes),
         NEW j, Stands(s, p, j, sz), NEW k, Stands(s, q, k, sz),
         NEW x, x \in j..j + sz[p], x \in k..k + sz[q]
  PROVE  p = q
<1>1. /\ sz[p] \in Nat \ {0} /\ j \in Nat
      /\ \A y \in j..j + sz[p] - 1 : s[y] = Place(p, y - (j - 1)) /\ s[y] # Delimiter
      /\ s[j + sz[p]] = Delimiter
  BY StandsIndex, SMTT(30)
<1>2. /\ sz[q] \in Nat \ {0} /\ k \in Nat
      /\ \A y \in k..k + sz[q] - 1 : s[y] = Place(q, y - (k - 1)) /\ s[y] # Delimiter
      /\ s[k + sz[q]] = Delimiter
  BY StandsIndex, SMTT(30)
<1>3. CASE x # j + sz[p]
  <2>1. x \in j..j + sz[p] - 1
    BY <1>1, <1>3, SMTT(30)
  <2>2. s[x] = Place(p, x - (j - 1)) /\ s[x] # Delimiter
    BY <1>1, <2>1
  <2>3. x \in k..k + sz[q] - 1
    BY <1>2, <2>2
  <2>4. s[x] = Place(q, x - (k - 1))
    BY <1>2, <2>3
  <2> QED BY <2>2, <2>4 DEF Place
<1>4. CASE x = j + sz[p]
  <2>1. x = k + sz[q]
    <3>1. s[x] = Delimiter
      BY <1>1, <1>4
    <3>2. ~(x \in k..k + sz[q] - 1)
      BY <1>2, <3>1
    <3>3. x \in k..k + sz[q] /\ sz[q] \in Nat /\ k \in Nat
      BY <1>2
    <3> QED BY ONLY <3>2, <3>3
  <2>2. x - 1 \in j..j + sz[p] - 1 /\ x - 1 \in k..k + sz[q] - 1
    <3> DEFINE y == sz[p]  z == sz[q]
    <3>1. /\ y \in Nat \ {0} /\ z \in Nat \ {0} /\ j \in Nat /\ k \in Nat
          /\ x = j + y /\ x = k + z
      BY <1>1, <1>2, <1>4, <2>1
    <3> HIDE DEF y, z
    <3>2. x - 1 \in j..j + y - 1 /\ x - 1 \in k..k + z - 1
      BY ONLY <3>1
    <3> QED BY <3>2 DEF y, z
  <2>3. s[x - 1] = Place(p, (x - 1) - (j - 1)) /\ s[x - 1] = Place(q, (x - 1) - (k - 1))
    BY <1>1, <1>2, <2>2
  <2> QED BY <2>3 DEF Place
<1> QED BY <1>3, <1>4

LEMMA GoneFinite ==
  ASSUME NEW s, NEW d, NEW sz, Len(sz) \in Nat
  PROVE  IsFiniteSet(Gone(s, d, sz)) /\ Cardinality(Gone(s, d, sz)) \in Nat
<1>1. IsFiniteSet(1..Len(sz)) /\ Gone(s, d, sz) \in SUBSET (1..Len(sz))
  BY FS_Interval DEF Gone
<1> QED BY <1>1, FS_Subset, FS_CardinalityType

LEMMA OneMore ==
  ASSUME NEW A, NEW B, NEW a, IsFiniteSet(B), A \subseteq B \cup {a}
  PROVE  Cardinality(A) <= Cardinality(B) + 1
<1>1. Cardinality(B) \in Nat
  BY FS_CardinalityType
<1>2. /\ IsFiniteSet(B \cup {a})
      /\ Cardinality(B \cup {a}) = Cardinality(B) \/ Cardinality(B \cup {a}) = Cardinality(B) + 1
  BY FS_AddElement
<1>3. IsFiniteSet(A) /\ Cardinality(A) <= Cardinality(B \cup {a})
  BY <1>2, FS_Subset
<1>4. Cardinality(A) \in Nat
  BY <1>3, FS_CardinalityType
<1> QED BY <1>1, <1>2, <1>3, <1>4

LEMMA HitCosts ==
  ASSUME NEW sz \in Seq(Sizes), NEW d, NEW s \in Seq(Bytes), NEW t \in Seq(Bytes),
         NEW x, NEW o, Hit(t, s, x, o)
  PROVE  Cardinality(Gone(t, d, sz)) + Taint(t) <= Cardinality(Gone(s, d, sz)) + Taint(s) + 2
<1> DEFINE On(p) == \E j \in 1..Len(s) : Stands(s, p, j, sz) /\ x \in j..j + sz[p]
           Behind(p) == Stands(s, p, x + 1, sz)
           a == CHOOSE p \in 1..Len(sz) : On(p)
           b == CHOOSE p \in 1..Len(sz) : Behind(p)
           A == Gone(t, d, sz)  B == Gone(s, d, sz)
<1>0. /\ Len(s) \in Nat /\ Len(t) \in Nat /\ Len(sz) \in Nat /\ x \in 1..Len(s)
      /\ o \in {-1, 0, 1} /\ o \in Int /\ Len(t) = Len(s) + o
      /\ \A p \in 1..Len(sz) : sz[p] \in Nat \ {0}
  BY LenProperties, SizesType DEF Hit
<1>1. ASSUME NEW p \in 1..Len(sz), On(p) PROVE p = a
  <2>1. a \in 1..Len(sz) /\ On(a)
    BY <1>1
  <2> HIDE DEF a
  <2>2. PICK j \in 1..Len(s) : Stands(s, p, j, sz) /\ x \in j..j + sz[p]
    BY <1>1
  <2>3. PICK k \in 1..Len(s) : Stands(s, a, k, sz) /\ x \in k..k + sz[a]
    BY <2>1
  <2> QED BY <2>1, <2>2, <2>3, StandsOne
<1>2. ASSUME NEW p \in 1..Len(sz), Behind(p) PROVE p = b
  <2>1. b \in 1..Len(sz) /\ Behind(b)
    BY <1>2
  <2> HIDE DEF b
  <2>2. x + 1 \in x + 1..(x + 1) + sz[p] /\ x + 1 \in x + 1..(x + 1) + sz[b]
    BY <1>0, <2>1
  <2> QED BY <1>2, <2>1, <2>2, StandsOne
<1>3. ASSUME NEW p \in A, p \notin B PROVE On(p) \/ Behind(p)
  <2>1. p \in 1..Len(sz) /\ ~Safe(t, p, sz) /\ Safe(s, p, sz)
    BY <1>3 DEF Gone
  <2>2. PICK j \in 1..Len(s) : Stands(s, p, j, sz)
    BY <2>1 DEF Safe
  <2>3. x \in j - 1..j + sz[p]
    BY <2>1, <2>2, HitStands
  <2>4. x \in j..j + sz[p] \/ x + 1 = j
    <3> DEFINE z == sz[p]
    <3>1. x \in j - 1..j + z /\ z \in Nat /\ x \in Nat /\ j \in Nat
      BY <1>0, <2>1, <2>3
    <3> HIDE DEF z
    <3>2. x \in j..j + z \/ x + 1 = j
      BY ONLY <3>1
    <3> QED BY <3>2 DEF z
  <2> QED BY <2>2, <2>4
<1>4. A \subseteq (B \cup {a}) \cup {b}
  <2> HIDE DEF A, B, a, b, On, Behind
  <2>1. A \subseteq 1..Len(sz)
    BY DEF A, Gone
  <2> QED BY <1>1, <1>2, <1>3, <2>1
<1>5. IsFiniteSet(B) /\ Cardinality(A) \in Nat /\ Cardinality(B) \in Nat
  BY <1>0, GoneFinite
<1>6. Taint(t) \in {0, 1} /\ Taint(s) \in {0, 1}
  BY DEF Taint
<1>7. x # Len(s) => Taint(t) <= Taint(s)
  <2> SUFFICES ASSUME x # Len(s), Len(t) > 0, t[Len(t)] # Delimiter
               PROVE  s[Len(s)] # Delimiter /\ Len(s) > 0
    BY <1>6 DEF Taint
  <2>1. Len(s) \in x + 1..Len(s)
    BY <1>0
  <2>2. t[Len(s) + o] = s[Len(s)]
    BY <2>1 DEF Hit
  <2> QED BY <1>0, <2>2
<1>8. x = Len(s) => A \subseteq B \cup {a}
  <2> SUFFICES ASSUME x = Len(s), NEW p \in A, p \notin B PROVE p = a
    OBVIOUS
  <2>1. ~Behind(p)
    BY <1>0 DEF Stands
  <2>2. p \in 1..Len(sz)
    BY DEF Gone
  <2> HIDE DEF A, B, a, On, Behind
  <2> QED BY <1>1, <1>3, <2>1, <2>2
<1> HIDE DEF A, B, a, b, On, Behind
<1>9. IsFiniteSet(B \cup {a}) /\ Cardinality(B \cup {a}) \in Nat
  BY <1>5, FS_AddElement, FS_CardinalityType
<1>10. Cardinality(A) <= Cardinality(B) + 2
  <2>1. Cardinality(A) <= Cardinality(B \cup {a}) + 1
    BY <1>4, <1>9, OneMore
  <2>2. Cardinality(B \cup {a}) <= Cardinality(B) + 1
    BY <1>5, OneMore
  <2> QED BY <1>5, <1>9, <2>1, <2>2
<1>11. x = Len(s) => Cardinality(A) <= Cardinality(B) + 1
  BY <1>5, <1>8, OneMore
<1>12. Cardinality(A) + Taint(t) <= Cardinality(B) + Taint(s) + 2
  <2> DEFINE m == Cardinality(A)  n == Cardinality(B)  u == Taint(t)  v == Taint(s)
  <2>1. /\ m \in Nat /\ n \in Nat /\ u \in {0, 1} /\ v \in {0, 1}
        /\ m <= n + 2 /\ (u <= v \/ m <= n + 1)
    BY <1>5, <1>6, <1>7, <1>10, <1>11
  <2> HIDE DEF m, n, u, v
  <2>2. m + u <= n + v + 2
    BY ONLY <2>1
  <2> QED BY <2>2 DEF m, n, u, v
<1> QED BY <1>12 DEF A, B

LEMMA GrownCosts ==
  ASSUME NEW sz \in Seq(Sizes), NEW sz2 \in Seq(Sizes), Sent(sz2, sz), NEW d,
         NEW s \in Seq(Bytes), NEW t \in Seq(Bytes), Grown(t, s, Len(sz) + 1, sz2)
  PROVE  Cardinality(Gone(t, d, sz2)) + Taint(t) <= Cardinality(Gone(s, d, sz)) + Taint(s)
<1> DEFINE p == Len(sz) + 1  A == Gone(t, d, sz2)  B == Gone(s, d, sz)
<1>0. /\ Len(s) \in Nat /\ Len(t) \in Nat /\ Len(sz) \in Nat /\ p \in 1..Len(sz2)
      /\ Len(sz2) = p /\ p \notin 1..Len(sz)
      /\ sz2[p] \in Nat \ {0} /\ Len(t) = Len(s) + sz2[p] + 1
      /\ \A k \in 1..Len(s) : t[k] = s[k]
      /\ \A i \in 1..sz2[p] + 1 : t[Len(s) + i] = Coded(p, i, sz2)
  BY LenProperties, SizesType DEF Sent, Grown
<1>1. t[Len(t)] = Delimiter
  <2>1. sz2[p] + 1 \in 1..sz2[p] + 1 /\ Len(s) + (sz2[p] + 1) = Len(t) /\ ~(sz2[p] + 1 <= sz2[p])
    BY <1>0
  <2> QED BY <1>0, <2>1 DEF Coded
<1>2. Taint(t) = 0 /\ Taint(s) \in {0, 1}
  BY <1>1 DEF Taint
<1>3. ASSUME NEW q \in 1..Len(sz), Safe(s, q, sz) PROVE Safe(t, q, sz2)
  <2>1. PICK j \in 1..Len(s) : Stands(s, q, j, sz)
    BY <1>3 DEF Safe
  <2>2. /\ j \in Nat \ {0} /\ j + sz[q] \in 1..Len(s) /\ sz2[q] = sz[q] /\ sz[q] \in Nat
        /\ j = 1 \/ s[j - 1] = Delimiter
    BY <2>1, StandsIndex, SMTT(30) DEF Sent
  <2>3. j \in 1..Len(t) /\ j + sz2[q] \in 1..Len(t)
    BY <1>0, <2>2
  <2>4. ASSUME NEW i \in 1..sz2[q] + 1
        PROVE  t[(j - 1) + i] = Coded(q, i, sz2)
    <3>1. s[(j - 1) + i] = Coded(q, i, sz2)
      BY <2>1, <2>2 DEF Stands, Coded
    <3>2. (j - 1) + i \in 1..Len(s)
      <4> DEFINE z == sz[q]  n == Len(s)
      <4>1. i \in 1..z + 1 /\ z \in Nat /\ n \in Nat /\ j \in Nat \ {0} /\ j + z \in 1..n
        BY <1>0, <2>2
      <4> HIDE DEF z, n
      <4>2. (j - 1) + i \in 1..n
        BY ONLY <4>1
      <4> QED BY <4>2 DEF n
    <3> QED BY <1>0, <3>1, <3>2
  <2>5. j # 1 => j - 1 \in 1..Len(s)
    BY <1>0, <2>2, SMTT(30)
  <2> QED BY <1>0, <2>2, <2>3, <2>4, <2>5 DEF Stands, Safe
<1>4. A \subseteq B \cup {p}
  <2> HIDE DEF p
  <2>1. ASSUME NEW q \in 1..Len(sz2), q # p PROVE q \in 1..Len(sz)
    BY <1>0, <2>1 DEF p
  <2> QED BY <1>3, <2>1 DEF Gone
<1>5. Taint(s) = 0 => A \subseteq B
  <2> SUFFICES ASSUME Taint(s) = 0 PROVE Safe(t, p, sz2)
    BY <1>4 DEF Gone
  <2> DEFINE j == Len(s) + 1
  <2>1. j \in 1..Len(t) /\ j + sz2[p] \in 1..Len(t) /\ j - 1 = Len(s)
    BY <1>0
  <2>2. j = 1 \/ t[j - 1] = Delimiter
    <3>1. Len(s) > 0 => s[Len(s)] = Delimiter /\ Len(s) \in 1..Len(s)
      BY <1>0 DEF Taint
    <3> QED BY <1>0, <2>1, <3>1
  <2>3. ASSUME NEW i \in 1..sz2[p] + 1 PROVE t[(j - 1) + i] = Coded(p, i, sz2)
    BY <1>0, <2>1
  <2> HIDE DEF j
  <2> QED BY <2>1, <2>2, <2>3 DEF Stands, Safe
<1>6. IsFiniteSet(B) /\ Cardinality(B) \in Nat /\ Cardinality(A) \in Nat
  <2>1. Len(sz2) \in Nat
    BY LenProperties
  <2> QED BY <1>0, <2>1, GoneFinite
<1> HIDE DEF A, B, p
<1>7. Cardinality(A) <= Cardinality(B) + 1
  BY <1>4, <1>6, OneMore
<1>8. Taint(s) = 0 => Cardinality(A) <= Cardinality(B)
  BY <1>5, <1>6, FS_Subset
<1>9. Cardinality(A) + Taint(t) <= Cardinality(B) + Taint(s)
  BY <1>2, <1>6, <1>7, <1>8
<1> QED BY <1>9 DEF A, B

LEMMA DroppedCosts ==
  ASSUME NEW sz \in Seq(Sizes), NEW d, NEW e, NEW s \in Seq(Bytes), NEW t \in Seq(Bytes),
         NEW n, Dropped(t, s, n),
         \A p \in 1..Len(sz) : Out(d, p) => Out(e, p),
         \A p \in 1..Len(sz), j \in 1..Len(s) : Stands(s, p, j, sz) => n < j \/ Out(e, p)
  PROVE  Cardinality(Gone(t, e, sz)) + Taint(t) <= Cardinality(Gone(s, d, sz)) + Taint(s)
<1> DEFINE A == Gone(t, e, sz)  B == Gone(s, d, sz)
<1>0. /\ Len(s) \in Nat /\ Len(t) \in Nat /\ Len(sz) \in Nat
      /\ n \in Nat /\ Len(t) = Len(s) - n
  BY LenProperties, SizesType DEF Dropped
<1>1. ASSUME NEW p \in 1..Len(sz), ~Out(e, p), Safe(s, p, sz) PROVE Safe(t, p, sz)
  BY <1>1, DroppedStands DEF Safe
<1>2. A \subseteq B
  BY <1>1 DEF Gone
<1>3. IsFiniteSet(B) /\ Cardinality(B) \in Nat /\ Cardinality(A) \in Nat
  BY <1>0, GoneFinite
<1> HIDE DEF A, B
<1>4. Cardinality(A) <= Cardinality(B)
  BY <1>2, <1>3, FS_Subset
<1>5. Taint(t) \in {0, 1} /\ Taint(s) \in {0, 1}
  BY DEF Taint
<1>6. Taint(t) <= Taint(s)
  <2> SUFFICES ASSUME Len(t) > 0, t[Len(t)] # Delimiter
               PROVE  Len(s) > 0 /\ s[Len(s)] # Delimiter
    BY <1>5 DEF Taint
  <2>1. Len(t) \in 1..Len(t) /\ Len(t) + n = Len(s)
    BY <1>0
  <2>2. t[Len(t)] = s[Len(t) + n]
    BY <2>1 DEF Dropped
  <2> QED BY <1>0, <2>1, <2>2
<1>7. Cardinality(A) + Taint(t) <= Cardinality(B) + Taint(s)
  BY <1>3, <1>4, <1>5, <1>6
<1> QED BY <1>7 DEF A, B

(* A receiver takes nothing off a packet that stands but all of it. *)
LEMMA StandsOrOut ==
  ASSUME NEW p \in 1..Len(sizes), sizes \in Seq(Sizes), stream \in Seq(Bytes),
         delivered \in Seq(1..Len(sizes)),
         NEW j, Stands(stream, p, j, sizes), NEW n \in Nat, Judged(n)
  PROVE  n < j \/ Out(delivered', p)
<1>1. /\ p \in Nat \ {0} /\ sizes[p] \in Nat \ {0} /\ j \in 1..Len(stream) /\ j \in Nat
      /\ \A k \in j..j + sizes[p] - 1 : stream[k] = Place(p, k - (j - 1)) /\ stream[k] # Delimiter
      /\ j = 1 \/ stream[j - 1] = Delimiter
  BY StandsIndex
<1>2. stream[j] = Place(p, 1) /\ stream[j] # Delimiter
  <2>1. j \in j..j + sizes[p] - 1 /\ j - (j - 1) = 1
    BY <1>1
  <2> QED BY <1>1, <2>1
<1>3. CASE n = 0 \/ (n = 1 /\ stream[1] = Delimiter)
  BY <1>1, <1>2, <1>3
<1>4. ASSUME NEW q, n = sizes[q] + 1, Whole(stream, q, sizes), Deliver(q)
      PROVE  n < j \/ Out(delivered', p)
  <2>1. /\ q \in 1..Len(sizes) /\ q \in Nat \ {0} /\ sizes[q] \in Nat \ {0}
        /\ delivered' = Append(delivered, q)
        /\ \A i \in 1..sizes[q] + 1 : stream[i] = Coded(q, i, sizes)
    BY <1>4, SizesType DEF Whole, Deliver
  <2>2. \A i \in 1..sizes[q] : stream[i] = Place(q, i) /\ stream[i] # Delimiter
    BY <2>1, CodedBytes DEF Coded
  <2>3. CASE p = q
    <3>1. /\ Len(delivered) \in Nat /\ Len(delivered') = Len(delivered) + 1
          /\ delivered'[Len(delivered) + 1] = q
      BY <2>1, AppendProperties, LenProperties
    <3> QED BY <2>3, <3>1, SMTT(30) DEF Out
  <2>4. CASE p # q
    <3>1. j # 1
      <4> SUFFICES ASSUME j = 1 PROVE FALSE
        OBVIOUS
      <4>1. 1 \in 1..sizes[q]
        BY <2>1
      <4>2. stream[1] = Place(q, 1)
        BY <2>2, <4>1
      <4>3. stream[1] = Place(p, 1)
        BY <1>2
      <4>4. Place(p, 1).packet = p /\ Place(q, 1).packet = q
        BY DEF Place
      <4> QED BY <2>4, <4>2, <4>3, <4>4
    <3>2. ~(j - 1 \in 1..sizes[q])
      BY <1>1, <2>2, <3>1
    <3> QED BY <1>1, <1>4, <2>1, <3>1, <3>2
  <2> QED BY <2>3, <2>4
<1>5. ASSUME Broken(n) PROVE n < j
  <2>1. /\ n \in Nat \ {0} /\ \A i \in 1..n - 1 : stream[i] # Delimiter
        /\ \A q : ~Whole(stream, q, sizes)
    BY <1>5 DEF Broken
  <2>2. j # 1
    <3> SUFFICES ASSUME j = 1 PROVE FALSE
      OBVIOUS
    <3>1. sizes[p] + 1 \in 1..Len(stream) /\ \A i \in 1..sizes[p] + 1 : (j - 1) + i = i
      BY <1>1 DEF Stands
    <3>2. Whole(stream, p, sizes)
      BY <3>1 DEF Stands, Whole
    <3> QED BY <2>1, <3>2
  <2>3. ~(j - 1 \in 1..n - 1)
    BY <1>1, <2>1, <2>2
  <2> QED BY <1>1, <2>1, <2>2, <2>3
<1> QED BY <1>3, <1>4, <1>5 DEF Judged

LEMMA LocalStep ==
  ASSUME Bounded, Bounded', LocalInv, [FramingNext]_framingVars
  PROVE  LocalInv'
<1>1. /\ stream \in Seq(Bytes) /\ sizes \in Seq(Sizes) /\ Len(sizes) \in Nat
      /\ Len(stream) \in Nat /\ damage \in Nat
      /\ stream' \in Seq(Bytes) /\ sizes' \in Seq(Sizes)
      /\ delivered \in Seq(1..Len(sizes))
  BY BoundedTypes, BoundedTypesAfter
<1> DEFINE m == Cardinality(Gone(stream, delivered, sizes))  u == Taint(stream)
           k == Cardinality(Gone(stream', delivered', sizes'))  v == Taint(stream')
<1>2. m \in Nat /\ k \in Nat /\ u \in Nat /\ v \in Nat
  <2>1. Len(sizes') \in Nat
    BY <1>1, LenProperties
  <2> QED BY <1>1, <2>1, GoneFinite DEF Taint
<1>3. m + u <= 2 * damage
  BY DEF LocalInv
<1>4. CASE Transmitted
  <2>1. Sent(sizes', sizes) /\ delivered' = delivered /\ damage' = damage
    BY <1>1, <1>4 DEF Transmitted, Sent, output
  <2>2. k + v <= m + u
    BY <1>1, <1>4, <2>1, GrownCosts DEF Transmitted
  <2> HIDE DEF m, u, k, v
  <2>3. k + v <= 2 * damage
    BY <1>1, <1>2, <1>3, <2>2
  <2> QED BY <2>1, <2>3 DEF LocalInv, k, v
<1>5. CASE Damaged
  <2>1. /\ sizes' = sizes /\ delivered' = delivered /\ damage' = damage + 1
        /\ \E x, o : Hit(stream', stream, x, o)
    BY <1>5 DEF Damaged, output
  <2>2. k + v <= m + u + 2
    BY <1>1, <2>1, HitCosts
  <2> HIDE DEF m, u, k, v
  <2>3. k + v <= 2 * (damage + 1)
    BY <1>1, <1>2, <1>3, <2>2
  <2> QED BY <2>1, <2>3 DEF LocalInv, k, v
<1>6. ASSUME NEW n, Received(n) PROVE LocalInv'
  <2>1. /\ Dropped(stream', stream, n) /\ Judged(n)
        /\ sizes' = sizes /\ damage' = damage
    BY <1>6 DEF Received
  <2>2. n \in Nat
    BY <1>1, <2>1 DEF Dropped
  <2>3. \A p \in 1..Len(sizes), j \in 1..Len(stream) :
          Stands(stream, p, j, sizes) => n < j \/ Out(delivered', p)
    BY <1>1, <2>1, <2>2, StandsOrOut
  <2>4. \A p \in 1..Len(sizes) : Out(delivered, p) => Out(delivered', p)
    <3>1. CASE UNCHANGED delivered
      BY <3>1
    <3>2. ASSUME NEW q, Whole(stream, q, sizes), Deliver(q)
          PROVE  \A p \in 1..Len(sizes) : Out(delivered, p) => Out(delivered', p)
      <4>1. delivered' = Append(delivered, q) /\ q \in 1..Len(sizes)
        BY <3>2 DEF Deliver, Whole
      <4>2. /\ Len(delivered) \in Nat /\ Len(delivered') = Len(delivered) + 1
            /\ \A i \in 1..Len(delivered) : delivered'[i] = delivered[i]
        BY <1>1, <4>1, AppendProperties, LenProperties
      <4> QED BY <4>2 DEF Out
    <3> QED BY <2>1, <3>1, <3>2 DEF Judged, output, FrameError
  <2>5. k + v <= m + u
    BY <1>1, <2>1, <2>3, <2>4, DroppedCosts
  <2> HIDE DEF m, u, k, v
  <2>6. k + v <= 2 * damage
    BY <1>1, <1>2, <1>3, <2>5
  <2> QED BY <2>1, <2>6 DEF LocalInv, k, v
<1> QED BY <1>4, <1>5, <1>6, StepOnStream

(* When the line is quiet, each of its failures has cost two packets at     *)
(* most, whether frames ran together in the decoder's buffer or the host    *)
(* threw its buffer away in the middle of a frame.                          *)
THEOREM DamageStaysLocal == FramingSpec => []DamageIsLocal
<1>1. FramingInit => LocalInv
  <2> SUFFICES ASSUME FramingInit PROVE LocalInv
    OBVIOUS
  <2>1. stream = <<>> /\ sizes = <<>> /\ damage = 0
    BY DEF FramingInit, Init, LineInit, stream
  <2>2. Gone(stream, delivered, sizes) = {} /\ Taint(stream) = 0
    BY <2>1 DEF Gone, Taint
  <2> QED BY <2>1, <2>2, FS_EmptySet DEF LocalInv
<1>2. Bounded /\ Bounded' /\ LocalInv /\ [FramingNext]_framingVars => LocalInv'
  BY LocalStep
<1>3. Bounded /\ LocalInv => DamageIsLocal
  <2> SUFFICES ASSUME Bounded, LocalInv, Quiet PROVE Lost <= 2 * damage
    BY DEF DamageIsLocal
  <2>1. /\ damage \in Nat /\ Len(sizes) \in Nat
        /\ delivered \in Seq(1..Len(sizes)) /\ Len(delivered) \in Nat
    BY BoundedTypes, LenProperties
  <2>2. stream = <<>>
    BY DEF Quiet, stream
  <2>3. Gone(stream, delivered, sizes) = {p \in 1..Len(sizes) : ~Out(delivered, p)}
    BY <2>2 DEF Gone, Safe
  <2>4. /\ Len(sizes) - Len(delivered) <= Cardinality(Gone(stream, delivered, sizes))
        /\ Cardinality(Gone(stream, delivered, sizes)) \in Nat
    BY <2>1, <2>3, LostIsMissing, GoneFinite
  <2>5. Taint(stream) = 0
    BY <2>2 DEF Taint
  <2> QED BY <2>1, <2>4, <2>5 DEF LocalInv, Lost
<1> QED BY <1>1, <1>2, <1>3, BoundedAlways, PTL DEF FramingSpec

-----------------------------------------------------------------------------
(* The recursions of Walk and Rest come to an end *)

(* Of the places where something fails there is a first one.                *)
LEMMA LeastPlace ==
  ASSUME NEW T, T \subseteq Nat, T # {}
  PROVE  \E x \in T : \A y \in T : ~(y < x)
<1> DEFINE less == OpToRel(<, Nat)
<1>1. PICK x \in T : \A y \in T : ~(<<y, x>> \in less)
  <2> HIDE DEF less
  <2>1. IsWellFoundedOn(less, Nat)
    BY NatLessThanWellFounded DEF less
  <2> QED BY <2>1, WFMin, Zenon
<1> QED BY <1>1 DEF OpToRel

(* The recursion of Walk comes to an end.                                   *)
LEMMA WalkStep ==
  ASSUME NEW data \in Seq(Nat)
  PROVE  /\ Walk(data)[0] = Start
         /\ \A i \in 1..Len(data) : Walk(data)[i] = EncodeByte(Walk(data)[i - 1], data[i])
<1> DEFINE Walked(f, n) == f = [i \in 0..n |-> IF i = 0 THEN Start ELSE EncodeByte(f[i - 1], data[i])]
           Bad == {n \in 0..Len(data) : ~ \E f : Walked(f, n)}
<1>0. Len(data) \in Nat
  BY LenProperties
<1>1. Bad = {}
  <2>1. SUFFICES ASSUME Bad # {} PROVE FALSE
    OBVIOUS
  <2>2. PICK n \in Bad : \A m \in Bad : ~(m < n)
    <3>1. Bad \subseteq Nat
      BY <1>0
    <3> HIDE DEF Bad
    <3> QED BY <2>1, <3>1, LeastPlace
  <2>3. n # 0
    <3>1. Walked([i \in 0..0 |-> Start], 0)
      OBVIOUS
    <3> QED BY <3>1
  <2>4. n \in 1..Len(data) /\ n - 1 \notin Bad
    <3>1. n \in 1..Len(data)
      BY <1>0, <2>3
    <3>2. n - 1 < n
      BY <1>0, <3>1
    <3> HIDE DEF Bad
    <3> QED BY <2>2, <3>1, <3>2
  <2>5. PICK f : Walked(f, n - 1)
    BY <1>0, <2>4
  <2> DEFINE g == [i \in 0..n |-> IF i = n THEN EncodeByte(f[n - 1], data[n]) ELSE f[i]]
  <2>6. \A i \in 0..n : g[i] = IF i = 0 THEN Start ELSE EncodeByte(g[i - 1], data[i])
    <3> TAKE i \in 0..n
    <3>1. CASE i = n
      BY <1>0, <2>4, <3>1
    <3>2. CASE i # n
      BY <1>0, <2>4, <2>5, <3>2
    <3> QED BY <3>1, <3>2
  <2>7. Walked(g, n)
    BY <2>6
  <2> QED
    <3> HIDE DEF g
    <3> QED BY <2>7
<1>2. \E f : Walked(f, Len(data))
  BY <1>0, <1>1
<1>3. Walked(Walk(data), Len(data))
  BY <1>2 DEF Walk
<1> QED BY <1>0, <1>3, SMTT(40)

(* And so does that of Rest: every code takes it further.                   *)
LEMMA RestStep ==
  ASSUME NEW bytes \in Seq(Nat)
  PROVE  /\ Rest(bytes)[Len(bytes) + 1] = <<>>
         /\ \A i \in 1..Len(bytes) : Rest(bytes)[i] = DecodeBlock(bytes, i, Rest(bytes))
<1> DEFINE n == Len(bytes)
           At(f, i) == IF i > n THEN <<>> ELSE DecodeBlock(bytes, i, f)
           Decoded(f, m) == \A i \in n + 1 - m..n + 1 : f[i] = At(f, i)
           Bad == {m \in 0..n : ~ \E f : Decoded(f, m)}
<1>0. n \in Nat /\ \A i \in 1..n : bytes[i] \in Nat
  BY LenProperties, ElementOfSeq
<1> HIDE DEF n
<1>1. ASSUME NEW f, NEW g, NEW i \in 1..n + 1, \A k \in i + 1..n + 1 : f[k] = g[k]
      PROVE  At(f, i) = At(g, i)
  <2>1. CASE i > n
    BY <2>1
  <2>2. CASE i <= n /\ (bytes[i] = 0 \/ i + bytes[i] - 1 > n)
    BY <1>0, <2>2 DEF DecodeBlock, n
  <2>3. CASE i <= n /\ bytes[i] # 0 /\ ~(i + bytes[i] - 1 > n)
    <3>1. f[i + bytes[i]] = g[i + bytes[i]]
      <4>1. bytes[i] \in Nat /\ i \in 1..n
        BY <1>0, <2>3
      <4>2. i + bytes[i] \in i + 1..n + 1
        BY <1>0, <2>3, <4>1, SMTT(40)
      <4> QED BY <1>1, <4>2
    <3> QED BY <1>0, <2>3, <3>1 DEF DecodeBlock
  <2> QED BY <1>0, <2>1, <2>2, <2>3
<1>2. Bad = {}
  <2>1. SUFFICES ASSUME Bad # {} PROVE FALSE
    OBVIOUS
  <2>2. PICK m \in Bad : \A k \in Bad : ~(k < m)
    <3>1. Bad \subseteq Nat
      BY <1>0
    <3> HIDE DEF Bad
    <3> QED BY <2>1, <3>1, LeastPlace
  <2>3. m # 0
    <3> DEFINE e == [i \in {n + 1} |-> <<>>]
    <3>1. Decoded(e, 0)
      BY <1>0
    <3> QED BY <3>1
  <2>4. m \in 1..n /\ m - 1 \notin Bad
    BY <1>0, <2>2, <2>3, SMTT(40)
  <2>5. PICK f : Decoded(f, m - 1)
    BY <1>0, <2>4
  <2> DEFINE p == n + 1 - m
             g == [i \in p..n + 1 |-> IF i = p THEN At(f, p) ELSE f[i]]
  <2>6. p \in 1..n /\ \A i \in p + 1..n + 1 : g[i] = f[i]
    BY <1>0, <2>4
  <2>7. g[p] = At(f, p)
    BY <1>0, <2>4
  <2> HIDE DEF g, p, At
  <2>8. \A i \in p..n + 1 : g[i] = At(g, i)
    <3> TAKE i \in p..n + 1
    <3>1. i \in 1..n + 1 /\ \A k \in i + 1..n + 1 : f[k] = g[k]
      BY <1>0, <2>6
    <3>2. At(f, i) = At(g, i)
      BY <1>1, <3>1
    <3>3. CASE i = p
      BY <2>7, <3>2, <3>3
    <3>4. CASE i # p
      <4>1. i \in n + 1 - (m - 1)..n + 1 /\ i \in p + 1..n + 1
        BY <1>0, <2>4, <3>4 DEF p
      <4> QED BY <2>5, <2>6, <3>2, <4>1
    <3> QED BY <3>3, <3>4
  <2>9. Decoded(g, m)
    BY <2>8 DEF p
  <2> QED BY <2>9
<1>3. \E f : Decoded(f, n)
  <2>1. n \in 0..n
    BY <1>0
  <2> HIDE DEF Decoded
  <2> QED BY <1>2, <2>1
<1>4. \E f : f = [i \in 1..n + 1 |-> At(f, i)]
  <2>1. PICK f : Decoded(f, n)
    BY <1>3
  <2> DEFINE g == [i \in 1..n + 1 |-> f[i]]
  <2>2. \A i \in 1..n + 1 : f[i] = At(f, i)
    BY <1>0, <2>1
  <2>3. \A i \in 1..n + 1 : f[i] = g[i]
    OBVIOUS
  <2> HIDE DEF g, At
  <2>4. \A i \in 1..n + 1 : At(f, i) = At(g, i)
    <3> TAKE i \in 1..n + 1
    <3>1. \A k \in i + 1..n + 1 : f[k] = g[k]
      BY <1>0, <2>3
    <3> QED BY <1>1, <3>1
  <2>5. \A i \in 1..n + 1 : g[i] = At(g, i)
    BY <2>2, <2>3, <2>4
  <2>6. g = [i \in 1..n + 1 |-> At(g, i)]
    BY <2>5 DEF g
  <2> QED BY <2>6
<1>5. Rest(bytes) = CHOOSE f : f = [i \in 1..n + 1 |-> At(f, i)]
  BY DEF Rest, n
<1>6. Rest(bytes) = [i \in 1..n + 1 |-> At(Rest(bytes), i)]
  <2> HIDE DEF At
  <2> QED BY <1>4, <1>5
<1>7. \A i \in 1..n + 1 : Rest(bytes)[i] = At(Rest(bytes), i)
  <2> HIDE DEF At
  <2> QED BY <1>6
<1> QED BY <1>0, <1>7 DEF n

-----------------------------------------------------------------------------
(* One byte of cobs_encode *)

(* What cobs_encode may have written before a byte.                         *)
Writing(s) ==
  /\ s \in [out : Seq(Nat), at : Nat, code : Nat]
  /\ s.at \in 1..Len(s.out)
  /\ s.code \in 1..Block - 1
  /\ Len(s.out) = s.at + s.code - 1

LEMMA WritingParts ==
  ASSUME NEW out \in Seq(Nat), NEW at \in 1..Len(out), NEW code \in 1..Block - 1,
         Len(out) = at + code - 1
  PROVE  Writing([out |-> out, at |-> at, code |-> code])
<1>1. at \in Nat /\ code \in Nat
  BY BlockAssumption, LenProperties
<1> QED BY <1>1 DEF Writing

LEMMA WrittenIndex ==
  ASSUME NEW s, Writing(s)
  PROVE  /\ Written(s) \in Seq(Nat)
         /\ Len(Written(s)) = Len(s.out)
         /\ Written(s)[s.at] = s.code
         /\ \A k \in 1..Len(s.out) : k # s.at => Written(s)[k] = s.out[k]
<1>1. s.out \in Seq(Nat) /\ s.at \in 1..Len(s.out) /\ s.code \in Nat
  BY BlockAssumption DEF Writing
<1> QED BY <1>1, ExceptSeq, LenProperties DEF Written

(* One byte: it is a 0, it fills the block, or neither.                     *)
LEMMA ByteZero ==
  ASSUME NEW s, Writing(s)
  PROVE  LET t == EncodeByte(s, 0)
         IN  /\ Writing(t)
             /\ Len(t.out) = Len(s.out) + 1 /\ t.at = Len(s.out) + 1 /\ t.code = 1
             /\ t.out[s.at] = s.code
             /\ \A k \in 1..Len(s.out) : k # s.at => t.out[k] = s.out[k]
<1> DEFINE w == Written(s)
           t == EncodeByte(s, 0)
<1>1. t = [out |-> Append(w, 0), at |-> Len(w) + 1, code |-> 1]
  BY DEF EncodeByte, OpenBlock
<1>2. /\ w \in Seq(Nat) /\ Len(w) = Len(s.out) /\ w[s.at] = s.code
      /\ \A k \in 1..Len(s.out) : k # s.at => w[k] = s.out[k]
  BY WrittenIndex
<1> HIDE DEF w, t
<1>3. /\ Append(w, 0) \in Seq(Nat) /\ Len(Append(w, 0)) = Len(w) + 1
      /\ \A k \in 1..Len(w) : Append(w, 0)[k] = w[k]
  BY <1>2, AppendProperties
<1>4. Len(s.out) \in Nat /\ s.at \in 1..Len(s.out)
  BY LenProperties DEF Writing
<1>5. Writing(t)
  <2>1. 1 \in 1..Block - 1 /\ Len(w) + 1 \in 1..Len(Append(w, 0))
    BY <1>2, <1>3, <1>4, BlockAssumption
  <2>2. Len(Append(w, 0)) = (Len(w) + 1) + 1 - 1
    BY <1>2, <1>3, <1>4
  <2> QED BY <1>1, <1>3, <2>1, <2>2, WritingParts
<1>6. t.out = Append(w, 0) /\ t.at = Len(s.out) + 1 /\ t.code = 1
  BY <1>1, <1>2
<1> QED BY <1>2, <1>3, <1>4, <1>5, <1>6 DEF t

LEMMA ByteTaken ==
  ASSUME NEW s, Writing(s), NEW byte \in Nat
  PROVE  LET l == Longer(s, byte)
         IN  /\ l = [out |-> l.out, at |-> s.at, code |-> s.code + 1]
             /\ l.out \in Seq(Nat) /\ Len(l.out) = Len(s.out) + 1
             /\ l.out[Len(s.out) + 1] = byte
             /\ \A k \in 1..Len(s.out) : l.out[k] = s.out[k]
<1>1. Longer(s, byte) = [out |-> Append(s.out, byte), at |-> s.at, code |-> s.code + 1]
  BY DEF Longer
<1>2. s.out \in Seq(Nat)
  BY DEF Writing
<1> QED BY <1>1, <1>2, AppendProperties

LEMMA ByteFills ==
  ASSUME NEW s, Writing(s), NEW byte \in Nat, byte # 0, s.code + 1 = Block
  PROVE  LET t == EncodeByte(s, byte)
         IN  /\ Writing(t)
             /\ Len(t.out) = Len(s.out) + 2 /\ t.at = Len(s.out) + 2 /\ t.code = 1
             /\ t.out[s.at] = Block /\ t.out[Len(s.out) + 1] = byte
             /\ \A k \in 1..Len(s.out) : k # s.at => t.out[k] = s.out[k]
<1> DEFINE l == Longer(s, byte)
           w == Written(l)
           t == EncodeByte(s, byte)
<1>1. t = [out |-> Append(w, 0), at |-> Len(w) + 1, code |-> 1]
  BY DEF EncodeByte, OpenBlock
<1>2. /\ l.at = s.at /\ l.code = Block
      /\ l.out \in Seq(Nat) /\ Len(l.out) = Len(s.out) + 1
      /\ l.out[Len(s.out) + 1] = byte
      /\ \A k \in 1..Len(s.out) : l.out[k] = s.out[k]
  BY ByteTaken
<1>3. Len(s.out) \in Nat /\ s.at \in 1..Len(s.out)
  BY LenProperties DEF Writing
<1> HIDE DEF l, t
<1>4. w = [l.out EXCEPT ![s.at] = Block]
  BY <1>2 DEF Written
<1>5. s.at \in 1..Len(l.out) /\ Block \in Nat
  BY <1>2, <1>3, BlockAssumption
<1>6. /\ w \in Seq(Nat) /\ Len(w) = Len(s.out) + 1 /\ w[s.at] = Block
      /\ \A k \in 1..Len(l.out) : k # s.at => w[k] = l.out[k]
  BY <1>2, <1>4, <1>5, ExceptSeq, LenProperties
<1> HIDE DEF w
<1>7. /\ Append(w, 0) \in Seq(Nat) /\ Len(Append(w, 0)) = Len(w) + 1
      /\ \A k \in 1..Len(w) : Append(w, 0)[k] = w[k]
  BY <1>6, AppendProperties
<1>8. Writing(t)
  <2>1. 1 \in 1..Block - 1 /\ Len(w) + 1 \in 1..Len(Append(w, 0))
    BY <1>3, <1>6, <1>7, BlockAssumption
  <2>2. Len(Append(w, 0)) = (Len(w) + 1) + 1 - 1
    BY <1>3, <1>6, <1>7
  <2> QED BY <1>1, <1>7, <2>1, <2>2, WritingParts
<1>9. t.out = Append(w, 0) /\ t.at = Len(s.out) + 2 /\ t.code = 1
  BY <1>1, <1>6, <1>3
<1>10. /\ t.out[s.at] = Block /\ t.out[Len(s.out) + 1] = byte
       /\ \A k \in 1..Len(s.out) : k # s.at => t.out[k] = s.out[k]
  <2> DEFINE u == Append(w, 0)
  <2>1. \A k \in 1..Len(s.out) + 1 : u[k] = w[k]
    BY <1>3, <1>6, <1>7
  <2> HIDE DEF u
  <2>2. /\ s.at \in 1..Len(s.out) + 1 /\ Len(s.out) + 1 \in 1..Len(s.out) + 1
        /\ Len(s.out) + 1 # s.at
    BY <1>3
  <2>3. u[s.at] = Block /\ u[Len(s.out) + 1] = byte
    BY <1>2, <1>6, <2>1, <2>2
  <2>4. ASSUME NEW k \in 1..Len(s.out), k # s.at PROVE u[k] = s.out[k]
    <3>1. k \in 1..Len(s.out) + 1
      BY <1>3
    <3> QED BY <1>2, <1>6, <2>1, <2>4, <3>1
  <2> QED BY <1>9, <2>3, <2>4 DEF u
<1> QED BY <1>3, <1>6, <1>7, <1>8, <1>9, <1>10, SMTT(40) DEF t

LEMMA ByteStays ==
  ASSUME NEW s, Writing(s), NEW byte \in Nat, byte # 0, s.code + 1 # Block
  PROVE  LET t == EncodeByte(s, byte)
         IN  /\ Writing(t)
             /\ Len(t.out) = Len(s.out) + 1 /\ t.at = s.at /\ t.code = s.code + 1
             /\ t.out[Len(s.out) + 1] = byte
             /\ \A k \in 1..Len(s.out) : t.out[k] = s.out[k]
<1> DEFINE t == EncodeByte(s, byte)
<1>1. t = Longer(s, byte)
  BY DEF EncodeByte
<1>2. /\ t = [out |-> t.out, at |-> s.at, code |-> s.code + 1]
      /\ t.out \in Seq(Nat) /\ Len(t.out) = Len(s.out) + 1
      /\ t.out[Len(s.out) + 1] = byte
      /\ \A k \in 1..Len(s.out) : t.out[k] = s.out[k]
  BY <1>1, ByteTaken
<1> HIDE DEF t
<1>3. t.at = s.at /\ t.code = s.code + 1
  BY <1>2
<1>5. Len(t.out) = Len(s.out) + 1
  BY <1>2
<1>4. Writing(t)
  <2>1. /\ Len(s.out) \in Nat /\ s.at \in 1..Len(s.out) /\ s.code \in 1..Block - 1
        /\ Len(s.out) = s.at + s.code - 1
    BY LenProperties DEF Writing
  <2>2. s.code + 1 \in 1..Block - 1 /\ s.at \in 1..Len(t.out) /\ Len(t.out) = s.at + (s.code + 1) - 1
    <3>1. s.code \in Nat /\ s.at \in Nat /\ s.code < Block
      BY <2>1, BlockAssumption
    <3>2. s.code + 1 < Block
      BY <3>1, BlockAssumption
    <3> QED BY <1>5, <2>1, <3>1, <3>2, BlockAssumption, SMTT(40)
  <2>3. Writing([out |-> t.out, at |-> s.at, code |-> s.code + 1])
    BY <1>2, <2>2, WritingParts
  <2> QED BY <1>2, <2>3
<1> QED BY <1>2, <1>3, <1>4 DEF t

-----------------------------------------------------------------------------
(* How far cobs_encode has come *)

(* Where cobs_encode stands after i bytes: the open block holds the last    *)
(* bytes of the data, none of them 0; and there is one code for every full  *)
(* block, one for every 0 and one for the open block.                       *)
EncodedUpTo(data, i, s) ==
  /\ Writing(s)
  /\ s.code <= i + 1
  /\ \A k \in 1..s.code - 1 : s.out[s.at + k] = data[(i + 1 - s.code) + k]
  /\ \A k \in 1..Len(s.out) : k # s.at => s.out[k] # 0
  /\ Len(s.out) >= i + 1
  /\ (Len(s.out) - 1 - i) * (Block - 1) <= i + 1 - s.code

LEMMA EncodedStep ==
  ASSUME NEW data \in Seq(Nat), NEW i \in 0..Len(data) - 1,
         NEW s, EncodedUpTo(data, i, s)
  PROVE  EncodedUpTo(data, i + 1, EncodeByte(s, data[i + 1]))
<1>0. PICK b \in Nat, j \in Nat : b = data[i + 1] /\ j = i + 1 /\ i \in Nat
  <2>1. i + 1 \in 1..Len(data) /\ i \in Nat /\ i + 1 \in Nat
    BY LenProperties
  <2> QED BY <2>1, ElementOfSeq
<1>1. PICK n \in Nat, at \in Nat, c \in Nat, B \in Nat :
        /\ n = Len(s.out) /\ at = s.at /\ c = s.code /\ B = Block - 1
        /\ 1 <= at /\ at <= n /\ 1 <= c /\ c <= B /\ n = at + c - 1
  <2>1. /\ Len(s.out) \in Nat /\ s.at \in 1..Len(s.out) /\ s.code \in 1..Block - 1
        /\ Len(s.out) = s.at + s.code - 1
    BY LenProperties DEF EncodedUpTo, Writing
  <2>2. s.at \in Nat /\ s.code \in Nat /\ Block - 1 \in Nat
    BY <2>1, BlockAssumption, SMTT(40)
  <2> QED BY <2>1, <2>2, SMTT(40)
<1>2. /\ Writing(s)
      /\ c <= i + 1
      /\ \A k \in 1..c - 1 : s.out[at + k] = data[(i + 1 - c) + k]
      /\ \A k \in 1..n : k # at => s.out[k] # 0
      /\ n >= i + 1
      /\ (n - 1 - i) * B <= i + 1 - c
  BY <1>1 DEF EncodedUpTo
<1>n. /\ 1 <= at /\ at <= n /\ 1 <= c /\ c <= B /\ n = at + c - 1
      /\ j = i + 1 /\ i \in Nat /\ c <= i + 1 /\ n >= i + 1
  BY <1>0, <1>1, <1>2
<1>l. Len(s.out) = n /\ s.at = at /\ s.code = c
  BY <1>1
<1>e. Block - 1 = B /\ Block = B + 1
  BY <1>1, BlockAssumption
<1>s. /\ \A k \in 1..c - 1 : s.out[at + k] = data[(i + 1 - c) + k]
      /\ \A k \in 1..n : k # at => s.out[k] # 0
      /\ (n - 1 - i) * B <= i + 1 - c
  BY <1>2
<1> DEFINE t == EncodeByte(s, b)
<1> SUFFICES EncodedUpTo(data, j, t)
  BY <1>0
<1> HIDE DEF t
<1>3. CASE b = 0
  <2>1. /\ Writing(t) /\ Len(t.out) = n + 1 /\ t.at = n + 1 /\ t.code = 1
        /\ \A k \in 1..n : k # at => t.out[k] = s.out[k]
        /\ t.out[at] = c
    <3>1. /\ Writing(t) /\ Len(t.out) = Len(s.out) + 1 /\ t.at = Len(s.out) + 1 /\ t.code = 1
          /\ \A k \in 1..Len(s.out) : k # s.at => t.out[k] = s.out[k]
          /\ t.out[s.at] = s.code
      BY <1>2, <1>3, ByteZero DEF t
    <3> QED BY <1>l, <3>1
  <2>o. t.out[at] = c /\ \A k \in 1..n : k # at => t.out[k] = s.out[k]
    BY <2>1
  <2>2. \A k \in 1..n + 1 : k # n + 1 => t.out[k] # 0
    <3>1. ASSUME NEW k \in 1..n PROVE t.out[k] # 0
      <4>1. CASE k = at
        BY <1>n, <2>o, <4>1
      <4>2. CASE k # at
        BY <1>s, <2>o, <4>2
      <4> QED BY <4>1, <4>2
    <3> QED BY <3>1
  <2>3. (n + 1 - 1 - j) * B <= j + 1 - 1
    <3>1. n + 1 - 1 - j = n - 1 - i /\ i + 1 - c <= j + 1 - 1
      BY <1>n
    <3>2. PICK p \in Int : p = (n - 1 - i) * B
      BY <1>n
    <3> QED BY <1>n, <1>s, <3>1, <3>2
  <2>4. 1 <= j + 1 /\ n + 1 >= j + 1 /\ Block - 1 = B
    BY <1>n, <1>e
  <2>5. \A k \in 1..1 - 1 : t.out[n + 1 + k] = data[(j + 1 - 1) + k]
    OBVIOUS
  <2> QED BY <2>1, <2>2, <2>3, <2>4, <2>5 DEF EncodedUpTo
<1>4. CASE b # 0 /\ c = B
  <2>1. /\ Writing(t) /\ Len(t.out) = n + 2 /\ t.at = n + 2 /\ t.code = 1
        /\ t.out[at] = Block /\ t.out[n + 1] = b
        /\ \A k \in 1..n : k # at => t.out[k] = s.out[k]
    <3>1. s.code + 1 = Block
      BY <1>1, <1>4, <1>e
    <3>2. /\ Writing(t) /\ Len(t.out) = Len(s.out) + 2 /\ t.at = Len(s.out) + 2 /\ t.code = 1
          /\ t.out[s.at] = Block /\ t.out[Len(s.out) + 1] = b
          /\ \A k \in 1..Len(s.out) : k # s.at => t.out[k] = s.out[k]
      BY <1>2, <1>4, <3>1, ByteFills, SMTT(40) DEF t
    <3> QED BY <1>l, <3>2
  <2>o. t.out[at] # 0 /\ t.out[n + 1] # 0 /\ \A k \in 1..n : k # at => t.out[k] = s.out[k]
    BY <2>1, <1>4, BlockAssumption
  <2>2. \A k \in 1..n + 2 : k # n + 2 => t.out[k] # 0
    <3>1. \A k \in 1..n : t.out[k] # 0
      BY <1>n, <1>s, <2>o
    <3>2. \A k \in 1..n + 2 : k # n + 2 => k \in 1..n \/ k = n + 1
      OBVIOUS
    <3> QED BY <2>o, <3>1, <3>2, Zenon
  <2>3. (n + 2 - 1 - j) * B <= j + 1 - 1
    <3>1. PICK f \in Int : f = n - 1 - i
      BY <1>n
    <3>2. f * B <= i + 1 - B /\ n + 2 - 1 - j = f + 1
      <4>1. n + 2 - 1 - j = f + 1
        BY <1>n, <3>1
      <4>2. (n - 1 - i) * B <= i + 1 - B
        BY <1>s, <1>4
      <4> QED BY <3>1, <4>1, <4>2
    <3>3. (f + 1) * B = f * B + B /\ f * B \in Int
      OBVIOUS
    <3> QED BY <1>n, <3>2, <3>3
  <2>4. 1 <= j + 1 /\ n + 2 >= j + 1 /\ Block - 1 = B
    BY <1>n, <1>e
  <2>5. \A k \in 1..1 - 1 : t.out[n + 2 + k] = data[(j + 1 - 1) + k]
    OBVIOUS
  <2> QED BY <2>1, <2>2, <2>3, <2>4, <2>5 DEF EncodedUpTo
<1>5. CASE b # 0 /\ c # B
  <2>1. /\ Writing(t) /\ Len(t.out) = n + 1 /\ t.at = at /\ t.code = c + 1
        /\ t.out[n + 1] = b
        /\ \A k \in 1..n : t.out[k] = s.out[k]
    <3>1. c + 1 # Block
      BY <1>5, <1>e
    <3>2. s.code + 1 # Block
      BY <1>1, <3>1
    <3>3. /\ Writing(t) /\ Len(t.out) = Len(s.out) + 1 /\ t.at = s.at /\ t.code = s.code + 1
          /\ t.out[Len(s.out) + 1] = b
          /\ \A k \in 1..Len(s.out) : t.out[k] = s.out[k]
      BY <1>2, <1>5, <3>2, ByteStays DEF t
    <3> QED BY <1>l, <3>3
  <2>2. \A k \in 1..n + 1 : k # at => t.out[k] # 0
    <3>1. \A k \in 1..n : k # at => t.out[k] # 0
      BY <1>s, <2>1
    <3>2. t.out[n + 1] # 0
      BY <1>5, <2>1
    <3> QED BY <3>1, <3>2
  <2>3. \A k \in 1..c + 1 - 1 : t.out[at + k] = data[(j + 1 - (c + 1)) + k]
    <3> TAKE k \in 1..c + 1 - 1
    <3>1. CASE k = c
      <4>1. at + k = n + 1 /\ (j + 1 - (c + 1)) + k = i + 1
        BY <1>n, <3>1
      <4> QED BY <1>0, <2>1, <4>1
    <3>2. CASE k # c
      <4>1. k \in 1..c - 1 /\ at + k \in 1..n /\ (j + 1 - (c + 1)) + k = (i + 1 - c) + k
        BY <1>n, <3>2
      <4> QED BY <1>s, <2>1, <4>1
    <3> QED BY <3>1, <3>2
  <2>4. (n + 1 - 1 - j) * B <= j + 1 - (c + 1)
    <3>1. n + 1 - 1 - j = n - 1 - i /\ j + 1 - (c + 1) = i + 1 - c
      BY <1>n
    <3> QED BY <1>s, <3>1
  <2>5. c + 1 <= j + 1 /\ n + 1 >= j + 1 /\ Block - 1 = B
    BY <1>n, <1>e
  <2> QED BY <2>1, <2>2, <2>3, <2>4, <2>5 DEF EncodedUpTo
<1> QED BY <1>3, <1>4, <1>5

LEMMA EncodedFar ==
  ASSUME NEW data \in Seq(Nat)
  PROVE  \A i \in 0..Len(data) : EncodedUpTo(data, i, Walk(data)[i])
<1> DEFINE Bad == {i \in 0..Len(data) : ~EncodedUpTo(data, i, Walk(data)[i])}
<1>0. Len(data) \in Nat
  BY LenProperties
<1>1. 0 \notin Bad
  <2>1. Walk(data)[0] = Start
    BY WalkStep
  <2>2. Start.out = <<0>> /\ Start.at = 1 /\ Start.code = 1
    BY DEF Start
  <2>3. <<0>> \in Seq(Nat) /\ Len(<<0>>) = 1
    OBVIOUS
  <2>4. Writing(Start)
    <3>1. 1 \in 1..Len(<<0>>) /\ 1 \in 1..Block - 1 /\ Len(<<0>>) = 1 + 1 - 1
      BY <2>3, BlockAssumption
    <3> QED BY <2>3, <3>1, WritingParts DEF Start
  <2>5. (Len(<<0>>) - 1 - 0) * (Block - 1) <= 0 + 1 - 1
    BY <2>3, BlockAssumption
  <2>6. \A k \in 1..Len(<<0>>) : k # 1 => <<0>>[k] # 0
    BY <2>3
  <2>7. \A k \in 1..1 - 1 : <<0>>[1 + k] = data[(0 + 1 - 1) + k]
    OBVIOUS
  <2>8. 1 <= 0 + 1 /\ Len(<<0>>) >= 0 + 1
    BY <2>3
  <2>9. EncodedUpTo(data, 0, Start)
    BY <2>2, <2>4, <2>5, <2>6, <2>7, <2>8 DEF EncodedUpTo
  <2> QED BY <2>1, <2>9
<1>2. Bad = {}
  <2>1. SUFFICES ASSUME Bad # {} PROVE FALSE
    OBVIOUS
  <2>2. PICK n \in Bad : \A m \in Bad : ~(m < n)
    <3>1. Bad \subseteq Nat
      BY <1>0
    <3> HIDE DEF Bad
    <3> QED BY <2>1, <3>1, LeastPlace
  <2>3. n \in 1..Len(data) /\ n - 1 \in 0..Len(data) - 1
    BY <1>0, <1>1
  <2>4. n - 1 \notin Bad
    <3>1. n - 1 < n
      BY <1>0, <2>3
    <3> HIDE DEF Bad
    <3> QED BY <2>2, <3>1
  <2>5. EncodedUpTo(data, n - 1, Walk(data)[n - 1])
    BY <1>0, <2>3, <2>4
  <2>6. EncodedUpTo(data, (n - 1) + 1, EncodeByte(Walk(data)[n - 1], data[(n - 1) + 1]))
    BY <2>3, <2>5, EncodedStep
  <2>7. (n - 1) + 1 = n
    BY <1>0, <2>3
  <2>8. EncodedUpTo(data, n, Walk(data)[n])
    BY <2>3, <2>6, <2>7, WalkStep
  <2> QED BY <2>8
<1> QED BY <1>2

-----------------------------------------------------------------------------
(* How long the encoding is, and when cobs_encode fails *)

(* How much is written after every byte: one or two more than before it.    *)
LEMMA SizeGrows ==
  ASSUME NEW data \in Seq(Nat)
  PROVE  \E size \in [0..Len(data) -> Nat] :
           /\ \A i \in 0..Len(data) : size[i] = Len(Walk(data)[i].out)
           /\ \A i \in 0..Len(data) : i + 1 <= size[i]
           /\ \A i \in 1..Len(data) : size[i] \in {size[i - 1] + 1, size[i - 1] + 2}
<1> DEFINE n == Len(data)
           size == [i \in 0..n |-> Len(Walk(data)[i].out)]
<1>0. n \in Nat /\ \A i \in 1..n : data[i] \in Nat
  BY LenProperties, ElementOfSeq
<1>1. \A i \in 0..n : EncodedUpTo(data, i, Walk(data)[i])
  BY EncodedFar
<1>2. \A i \in 0..n : /\ Writing(Walk(data)[i])
                      /\ Len(Walk(data)[i].out) \in Nat
                      /\ i + 1 <= Len(Walk(data)[i].out)
  BY <1>1, LenProperties DEF EncodedUpTo, Writing
<1>3. \A i \in 1..n : LET s == Walk(data)[i - 1]
                          t == Walk(data)[i]
                      IN  Len(t.out) = Len(s.out) + 1 \/ Len(t.out) = Len(s.out) + 2
  <2> TAKE i \in 1..n
  <2> DEFINE s == Walk(data)[i - 1]
             t == EncodeByte(s, data[i])
  <2>1. Walk(data)[i] = t
    BY WalkStep
  <2>2. Writing(s) /\ data[i] \in Nat
    BY <1>0, <1>2
  <2>3. Len(t.out) = Len(s.out) + 1 \/ Len(t.out) = Len(s.out) + 2
    <3> HIDE DEF s
    <3>1. CASE data[i] = 0
      BY <2>2, <3>1, ByteZero
    <3>2. CASE data[i] # 0 /\ s.code + 1 = Block
      BY <2>2, <3>2, ByteFills
    <3>3. CASE data[i] # 0 /\ s.code + 1 # Block
      BY <2>2, <3>3, ByteStays
    <3> QED BY <3>1, <3>2, <3>3
  <2> QED BY <2>1, <2>3
<1>4. size \in [0..n -> Nat]
  BY <1>2
<1>5. \A i \in 0..n : size[i] = Len(Walk(data)[i].out) /\ i + 1 <= size[i]
  BY <1>2
<1>6. \A i \in 1..n : size[i] \in {size[i - 1] + 1, size[i - 1] + 2}
  <2> TAKE i \in 1..n
  <2>1. i \in 0..n /\ i - 1 \in 0..n
    BY <1>0
  <2> QED BY <1>3, <2>1
<1> HIDE DEF size
<1> QED BY <1>4, <1>5, <1>6

LEMMA SizeLast ==
  ASSUME NEW n \in Nat, NEW size \in [0..n -> Nat],
         \A i \in 1..n : size[i] \in {size[i - 1] + 1, size[i - 1] + 2}
  PROVE  \A i \in 0..n : size[i] <= size[n]
<1> DEFINE Bad == {m \in 0..n : ~(size[n - m] <= size[n])}
<1>1. Bad = {}
  <2>1. SUFFICES ASSUME Bad # {} PROVE FALSE
    OBVIOUS
  <2>2. PICK m \in Bad : \A k \in Bad : ~(k < m)
    <3> HIDE DEF Bad
    <3>1. Bad \subseteq Nat
      BY DEF Bad
    <3> QED BY <2>1, <3>1, LeastPlace
  <2>3. m \in 0..n /\ ~(size[n - m] <= size[n])
    OBVIOUS
  <2>4. m # 0
    BY <2>3
  <2>5. m - 1 \in 0..n /\ m - 1 < m /\ n - m + 1 \in 1..n /\ n - (m - 1) = n - m + 1 /\ n - m \in 0..n
    BY <2>3, <2>4
  <2>6. m - 1 \notin Bad
    <3> HIDE DEF Bad
    <3> QED BY <2>2, <2>5
  <2>7. size[n - m + 1] <= size[n]
    BY <2>5, <2>6
  <2>8. size[n - m + 1] \in {size[n - m] + 1, size[n - m] + 2}
    <3>1. (n - m + 1) - 1 = n - m
      BY <2>3
    <3> QED BY <2>5, <3>1
  <2>9. size[n - m] \in Nat /\ size[n] \in Nat
    BY <2>5
  <2> QED BY <2>3, <2>7, <2>8, <2>9
<1> TAKE i \in 0..n
<1>2. n - i \in 0..n /\ n - (n - i) = i
  OBVIOUS
<1> QED BY <1>1, <1>2

(* cobs_encode fails only where the whole encoding does not fit.            *)
LEMMA EncodeFits ==
  ASSUME NEW data \in Seq(Nat), NEW capacity \in Nat
  PROVE  LET end == Walk(data)[Len(data)]
         IN  Encode(data, capacity) =
               IF Len(end.out) <= capacity THEN Written(end) ELSE Failure
<1>0. PICK n \in Nat : n = Len(data)
  BY LenProperties
<1> DEFINE walk == Walk(data)
<1>1. PICK size \in [0..n -> Nat] :
        /\ \A i \in 0..n : size[i] = Len(walk[i].out)
        /\ \A i \in 0..n : i + 1 <= size[i]
        /\ \A i \in 1..n : size[i] \in {size[i - 1] + 1, size[i - 1] + 2}
  BY <1>0, SizeGrows
<1> HIDE DEF walk
<1>2. \A i \in 0..n : size[i] <= size[n]
  BY <1>1, SizeLast
<1>3. \A i \in 1..n : StepFits(walk[i - 1], walk[i], capacity) <=> size[i] <= capacity
  <2> TAKE i \in 1..n
  <2>1. i \in 0..n /\ i - 1 \in 0..n
    OBVIOUS
  <2>2. size[i - 1] = Len(walk[i - 1].out) /\ size[i] = Len(walk[i].out)
    BY <1>1, <2>1
  <2>3. PICK a \in Nat, b \in Nat : a = size[i - 1] /\ b = size[i] /\ b \in {a + 1, a + 2}
    BY <1>1, <2>1
  <2>4. StepFits(walk[i - 1], walk[i], capacity) <=> (a < capacity /\ (b > a + 1 => a + 1 < capacity))
    BY <2>2, <2>3 DEF StepFits
  <2>5. b = a + 1 \/ b = a + 2
    BY <2>3
  <2>6. (a < capacity /\ (b > a + 1 => a + 1 < capacity)) <=> b <= capacity
    BY <2>5
  <2> QED BY <2>3, <2>4, <2>6
<1>4. n \in 0..n /\ size[n] \in Nat /\ size[n] >= 1
  BY <1>1
<1>5. (capacity > 0 /\ \A i \in 1..n : StepFits(walk[i - 1], walk[i], capacity))
         <=> size[n] <= capacity
  <2>1. ASSUME size[n] <= capacity
        PROVE  capacity > 0 /\ \A i \in 1..n : StepFits(walk[i - 1], walk[i], capacity)
    <3>1. capacity > 0
      BY <1>4, <2>1
    <3>2. \A i \in 1..n : size[i] <= capacity
      <4> TAKE i \in 1..n
      <4>1. size[i] \in Nat /\ size[i] <= size[n]
        BY <1>2
      <4> QED BY <1>4, <2>1, <4>1
    <3> QED BY <1>3, <3>1, <3>2
  <2>2. ASSUME capacity > 0, \A i \in 1..n : StepFits(walk[i - 1], walk[i], capacity)
        PROVE  size[n] <= capacity
    <3>1. CASE n = 0
      <4>1. size[0] = Len(walk[0].out)
        BY <1>1
      <4>2. Len(walk[0].out) = 1
        <5>1. walk[0] = Start
          BY WalkStep DEF walk
        <5> QED BY <5>1 DEF Start
      <4> QED BY <2>2, <3>1, <4>1, <4>2
    <3>2. CASE n # 0
      BY <1>3, <2>2, <3>2
    <3> QED BY <3>1, <3>2
  <2> QED BY <2>1, <2>2
<1>6. size[n] = Len(walk[n].out)
  BY <1>1, <1>4
<1>7. Encode(data, capacity) =
        IF capacity > 0 /\ \A i \in 1..n : StepFits(walk[i - 1], walk[i], capacity)
        THEN Written(walk[n]) ELSE Failure
  BY <1>0 DEF Encode, walk
<1>8. Encode(data, capacity) = IF Len(walk[n].out) <= capacity THEN Written(walk[n]) ELSE Failure
  BY <1>5, <1>6, <1>7, Zenon
<1> QED BY <1>0, <1>8 DEF walk

-----------------------------------------------------------------------------
(* One block of cobs_decode *)

LEMMA PartIndex ==
  ASSUME NEW s \in Seq(Nat), NEW a \in Nat, NEW b \in Nat, 1 <= a, b <= Len(s), a <= b + 1
  PROVE  /\ SubSeq(s, a, b) \in Seq(Nat)
         /\ Len(SubSeq(s, a, b)) = b + 1 - a
         /\ \A k \in 1..b + 1 - a : SubSeq(s, a, b)[k] = s[(a - 1) + k]
<1>1. Len(s) \in Nat /\ \A i \in a..b : s[i] \in Nat
  <2>1. Len(s) \in Nat
    BY LenProperties
  <2>2. \A i \in a..b : i \in 1..Len(s)
    BY <2>1
  <2> QED BY <2>1, <2>2, ElementOfSeq
<1>2. /\ SubSeq(s, a, b) \in Seq(Nat)
      /\ Len(SubSeq(s, a, b)) = IF a <= b THEN b - a + 1 ELSE 0
      /\ \A i \in 1..b - a + 1 : SubSeq(s, a, b)[i] = s[a + i - 1]
  <2>1. PICK numbers : numbers = Nat
    OBVIOUS
  <2>2. a \in Int /\ b \in Int /\ \A i \in a..b : s[i] \in numbers
    BY <1>1, <2>1
  <2>3. /\ SubSeq(s, a, b) \in Seq(numbers)
        /\ Len(SubSeq(s, a, b)) = IF a <= b THEN b - a + 1 ELSE 0
        /\ \A i \in 1..b - a + 1 : SubSeq(s, a, b)[i] = s[a + i - 1]
    BY ONLY <2>2, SubSeqProperties
  <2> QED BY <2>1, <2>3
<1>3. b - a + 1 = b + 1 - a /\ \A k \in 1..b + 1 - a : a + k - 1 = (a - 1) + k
  OBVIOUS
<1> QED BY <1>2, <1>3

LEMMA ThreeParts ==
  ASSUME NEW u \in Seq(Nat), NEW z \in Seq(Nat), NEW r \in Seq(Nat)
  PROVE  /\ u \o z \o r \in Seq(Nat)
         /\ Len(u \o z \o r) = (Len(u) + Len(z)) + Len(r)
         /\ \A k \in 1..Len(u) : (u \o z \o r)[k] = u[k]
         /\ \A k \in 1..Len(z) : (u \o z \o r)[Len(u) + k] = z[k]
         /\ \A k \in 1..Len(r) : (u \o z \o r)[(Len(u) + Len(z)) + k] = r[k]
<1>0. PICK a \in Nat, b \in Nat, c \in Nat : Len(u) = a /\ Len(z) = b /\ Len(r) = c
  <2>1. Len(u) \in Nat /\ Len(z) \in Nat /\ Len(r) \in Nat
    BY LenProperties
  <2> QED BY <2>1, Zenon
<1>1. /\ u \o z \in Seq(Nat) /\ Len(u \o z) = Len(u) + Len(z)
      /\ \A k \in 1..Len(u) + Len(z) : (u \o z)[k] = IF k <= Len(u) THEN u[k] ELSE z[k - Len(u)]
  BY ConcatProperties
<1> DEFINE v == u \o z
<1>2. /\ v \in Seq(Nat) /\ Len(v) = a + b
      /\ \A k \in 1..a + b : v[k] = IF k <= a THEN u[k] ELSE z[k - a]
  BY <1>0, <1>1
<1> HIDE DEF v
<1>3. /\ v \o r \in Seq(Nat) /\ Len(v \o r) = Len(v) + Len(r)
      /\ \A k \in 1..Len(v) + Len(r) : (v \o r)[k] = IF k <= Len(v) THEN v[k] ELSE r[k - Len(v)]
  <2>1. v \in Seq(Nat)
    BY <1>2
  <2> QED BY <2>1, ConcatProperties
<1> DEFINE w == v \o r
<1>4. /\ w \in Seq(Nat) /\ Len(w) = (a + b) + c
      /\ \A k \in 1..(a + b) + c : w[k] = IF k <= a + b THEN v[k] ELSE r[k - (a + b)]
  BY <1>0, <1>2, <1>3
<1> HIDE DEF w
<1>5. ASSUME NEW k \in 1..a PROVE w[k] = u[k]
  <2>1. k \in 1..(a + b) + c /\ k <= a + b /\ k \in 1..a + b /\ k <= a
    OBVIOUS
  <2> QED BY <1>2, <1>4, <2>1
<1>6. ASSUME NEW k \in 1..b PROVE w[a + k] = z[k]
  <2>1. a + k \in 1..(a + b) + c /\ a + k <= a + b /\ a + k \in 1..a + b /\ ~(a + k <= a) /\ (a + k) - a = k
    OBVIOUS
  <2> QED BY <1>2, <1>4, <2>1
<1>7. ASSUME NEW k \in 1..c PROVE w[(a + b) + k] = r[k]
  <2>1. (a + b) + k \in 1..(a + b) + c /\ ~((a + b) + k <= a + b) /\ ((a + b) + k) - (a + b) = k
    OBVIOUS
  <2> QED BY <1>4, <2>1
<1> QED BY <1>0, <1>4, <1>5, <1>6, <1>7 DEF w, v

(* A block that lies in the frame, and whether a 0 stands for its end.      *)
BlockAt(bytes, i, code, zero) ==
  /\ i \in 1..Len(bytes) /\ bytes[i] = code
  /\ code \in Nat /\ 1 <= code /\ i + code - 1 <= Len(bytes)
  /\ zero \in {0, 1} /\ (zero = 1 <=> (code < Block /\ i + code <= Len(bytes)))

(* What such a block adds to the data that follow it.                       *)
Added(d, bytes, i, code, zero, rest) ==
  /\ d \in Seq(Nat)
  /\ Len(d) = (code - 1 + zero) + Len(rest)
  /\ \A k \in 1..code - 1 : d[k] = bytes[i + k]
  /\ zero = 1 => d[code] = 0
  /\ \A k \in 1..Len(rest) : d[(code - 1 + zero) + k] = rest[k]

LEMMA BlockAdds ==
  ASSUME NEW bytes \in Seq(Nat), NEW from, NEW i \in Nat, NEW code \in Nat, NEW zero \in Nat,
         BlockAt(bytes, i, code, zero), from[i + code] \in Seq(Nat)
  PROVE  Added(DecodeBlock(bytes, i, from), bytes, i, code, zero, from[i + code])
<1> DEFINE rest == from[i + code]
           u == SubSeq(bytes, i + 1, i + code - 1)
           z == ZeroAfter(code, i + code <= Len(bytes))
<1>n. /\ Len(bytes) \in Nat /\ 1 <= i /\ i <= Len(bytes)
      /\ 1 <= code /\ i + code - 1 <= Len(bytes)
  BY LenProperties DEF BlockAt
<1>z. zero \in {0, 1} /\ (zero = 1 <=> (code < Block /\ i + code <= Len(bytes)))
  BY DEF BlockAt
<1>r. rest \in Seq(Nat) /\ Len(rest) \in Nat
  BY LenProperties
<1>1. DecodeBlock(bytes, i, from) = u \o z \o rest
  <2>1. rest # Failure
    BY <1>r, FailureAssumption
  <2>2. bytes[i] = code /\ ~(code = 0 \/ i + code - 1 > Len(bytes))
    BY <1>n DEF BlockAt
  <2> QED BY <2>1, <2>2 DEF DecodeBlock
<1>2. /\ u \in Seq(Nat) /\ Len(u) = code - 1
      /\ \A k \in 1..code - 1 : u[k] = bytes[i + k]
  <2>1. i + 1 \in Nat /\ i + code - 1 \in Nat /\ 1 <= i + 1 /\ i + 1 <= (i + code - 1) + 1
    BY <1>n
  <2>2. /\ u \in Seq(Nat) /\ Len(u) = (i + code - 1) + 1 - (i + 1)
        /\ \A k \in 1..(i + code - 1) + 1 - (i + 1) : u[k] = bytes[((i + 1) - 1) + k]
    BY <1>n, <2>1, PartIndex, SMTT(40)
  <2>3. (i + code - 1) + 1 - (i + 1) = code - 1 /\ (i + 1) - 1 = i
    OBVIOUS
  <2> QED BY <2>2, <2>3
<1>3. z \in Seq(Nat) /\ Len(z) = zero /\ (zero = 1 => z[1] = 0)
  <2>1. CASE zero = 1
    <3>1. z = <<0>>
      BY <1>z, <2>1 DEF ZeroAfter
    <3> HIDE DEF z
    <3> QED BY <2>1, <3>1
  <2>2. CASE zero = 0
    <3>1. z = <<>>
      BY <1>z, <2>2 DEF ZeroAfter
    <3> HIDE DEF z
    <3> QED BY <2>2, <3>1
  <2> QED BY <1>z, <2>1, <2>2
<1> HIDE DEF u, z, rest
<1> DEFINE w == u \o z \o rest
<1>4. code - 1 \in Nat /\ u \in Seq(Nat) /\ z \in Seq(Nat) /\ Len(u) = code - 1 /\ Len(z) = zero
  BY <1>n, <1>2, <1>3
<1>5. /\ w \in Seq(Nat) /\ Len(w) = (code - 1 + zero) + Len(rest)
      /\ \A k \in 1..code - 1 : w[k] = u[k]
      /\ \A k \in 1..zero : w[(code - 1) + k] = z[k]
      /\ \A k \in 1..Len(rest) : w[(code - 1 + zero) + k] = rest[k]
  <2>1. /\ w \in Seq(Nat) /\ Len(w) = (Len(u) + Len(z)) + Len(rest)
        /\ \A k \in 1..Len(u) : w[k] = u[k]
        /\ \A k \in 1..Len(z) : w[Len(u) + k] = z[k]
        /\ \A k \in 1..Len(rest) : w[(Len(u) + Len(z)) + k] = rest[k]
    <3>1. u \in Seq(Nat) /\ z \in Seq(Nat) /\ rest \in Seq(Nat)
      BY <1>r, <1>4
    <3>2. w \in Seq(Nat) /\ Len(w) = (Len(u) + Len(z)) + Len(rest)
      BY <3>1, ThreeParts
    <3>3. \A k \in 1..Len(u) : w[k] = u[k]
      BY <3>1, ThreeParts
    <3>4. \A k \in 1..Len(z) : w[Len(u) + k] = z[k]
      BY <3>1, ThreeParts
    <3>5. \A k \in 1..Len(rest) : w[(Len(u) + Len(z)) + k] = rest[k]
      BY <3>1, ThreeParts
    <3> QED BY <3>2, <3>3, <3>4, <3>5
  <2>2. Len(u) = code - 1 /\ Len(z) = zero
    BY <1>4
  <2> QED BY <2>1, <2>2
<1> HIDE DEF w
<1>6. zero = 1 => w[code] = 0
  <2>1. zero = 1 => 1 \in 1..zero /\ (code - 1) + 1 = code
    OBVIOUS
  <2> QED BY <1>3, <1>5, <2>1
<1>7. \A k \in 1..code - 1 : w[k] = bytes[i + k]
  BY <1>2, <1>5
<1>8. Added(w, bytes, i, code, zero, rest)
  BY <1>5, <1>6, <1>7 DEF Added
<1> QED BY <1>1, <1>8 DEF w, rest

(* These are the data without the first p bytes.                            *)
IsRestOf(d, data, p) ==
  /\ d \in Seq(Nat)
  /\ p \in 0..Len(data)
  /\ Len(d) = Len(data) - p
  /\ \A k \in 1..Len(data) - p : d[k] = data[p + k]

LEMMA BlockOfData ==
  ASSUME NEW data \in Seq(Nat), NEW p \in Nat, NEW bytes \in Seq(Nat),
         NEW i \in Nat, NEW code \in Nat, NEW zero \in Nat, BlockAt(bytes, i, code, zero),
         \A k \in 1..code - 1 : bytes[i + k] = data[p + k],
         zero = 1 => data[p + code] = 0,
         IsRestOf(Rest(bytes)[i + code], data, p + (code - 1 + zero))
  PROVE  IsRestOf(Rest(bytes)[i], data, p)
<1> DEFINE rest == Rest(bytes)[i + code]
           d == Rest(bytes)[i]
<1>0. zero \in {0, 1} /\ 1 <= code /\ i \in 1..Len(bytes)
  BY DEF BlockAt
<1>1. PICK n \in Nat, c \in Nat : n = Len(data) /\ c = code - 1 + zero
  <2>1. Len(data) \in Nat /\ code - 1 + zero \in Nat
    BY <1>0, LenProperties
  <2> QED BY <2>1, Zenon
<1>2. /\ rest \in Seq(Nat) /\ p + c \in 0..n
      /\ Len(rest) = n - (p + c)
      /\ \A k \in 1..n - (p + c) : rest[k] = data[(p + c) + k]
  BY <1>1 DEF IsRestOf
<1>3. Added(d, bytes, i, code, zero, rest)
  <2>1. d = DecodeBlock(bytes, i, Rest(bytes))
    BY <1>0, RestStep
  <2>2. rest \in Seq(Nat)
    BY <1>2
  <2> QED BY <2>1, <2>2, BlockAdds
<1> HIDE DEF rest, d
<1>4. /\ d \in Seq(Nat)
      /\ Len(d) = c + Len(rest)
      /\ \A k \in 1..code - 1 : d[k] = bytes[i + k]
      /\ zero = 1 => d[code] = 0
      /\ \A k \in 1..Len(rest) : d[c + k] = rest[k]
  BY <1>1, <1>3 DEF Added
<1>n. c = code - 1 + zero /\ p + c \in 0..n
  BY <1>1, <1>2
<1>5. Len(d) = n - p /\ p \in 0..n
  BY <1>2, <1>4
<1>6. \A k \in 1..n - (p + c) : d[c + k] = data[(p + c) + k]
  BY <1>2, <1>4
<1>7. c = code - 1 \/ (c = code /\ zero = 1)
  BY <1>0, <1>n
<1>8. \A k \in 1..c : d[k] = data[p + k]
  <2>1. \A k \in 1..code - 1 : d[k] = data[p + k]
    BY <1>4
  <2>2. zero = 1 => d[code] = data[p + code]
    BY <1>4
  <2>3. \A k \in 1..c : k \in 1..code - 1 \/ (k = code /\ zero = 1)
    BY <1>7
  <2> QED BY <2>1, <2>2, <2>3
<1>9. \A k \in 1..n - p : d[k] = data[p + k]
  <2> TAKE k \in 1..n - p
  <2>1. CASE k \in 1..c
    BY <1>8, <2>1
  <2>2. CASE k \notin 1..c
    <3>1. k - c \in 1..n - (p + c) /\ c + (k - c) = k /\ (p + c) + (k - c) = p + k
      BY <1>n, <2>2
    <3> QED BY <1>6, <3>1
  <2> QED BY <2>1, <2>2
<1> QED BY <1>1, <1>4, <1>5, <1>9 DEF IsRestOf, d

-----------------------------------------------------------------------------
(* A byte of cobs_encode in numbers *)

(* Where cobs_encode stands, in numbers.                                    *)
StandsAt(s, len, at, code) ==
  /\ len \in Nat /\ at \in Nat /\ code \in Nat
  /\ Len(s.out) = len /\ s.at = at /\ s.code = code

LEMMA StandsSomewhere ==
  ASSUME NEW s, Writing(s)
  PROVE  \E len \in Nat, at \in Nat, code \in Nat :
           /\ StandsAt(s, len, at, code)
           /\ 1 <= at /\ 1 <= code /\ code < Block /\ len = at + code - 1
<1>1. /\ Len(s.out) \in Nat /\ s.at \in 1..Len(s.out) /\ s.code \in 1..Block - 1
      /\ Len(s.out) = s.at + s.code - 1
  BY LenProperties DEF Writing
<1>2. s.at \in Nat /\ s.code \in Nat /\ 1 <= s.at /\ 1 <= s.code /\ s.code < Block
  BY <1>1, BlockAssumption
<1> QED BY <1>1, <1>2 DEF StandsAt

(* A step of cobs_encode in numbers: what is written stays, but for the     *)
(* code of the open block, which is written when a 0 ends the block or the  *)
(* byte fills it.                                                           *)
BlockEnded(data, i, len, at, code) ==
  /\ data[i] = 0
  /\ StandsAt(Walk(data)[i], len + 1, len + 1, 1)
  /\ Walk(data)[i].out[at] = code
  /\ \A k \in 1..len : k # at => Walk(data)[i].out[k] = Walk(data)[i - 1].out[k]

BlockFilled(data, i, len, at, code) ==
  /\ data[i] # 0 /\ code + 1 = Block
  /\ StandsAt(Walk(data)[i], len + 2, len + 2, 1)
  /\ Walk(data)[i].out[at] = Block /\ Walk(data)[i].out[len + 1] = data[i]
  /\ \A k \in 1..len : k # at => Walk(data)[i].out[k] = Walk(data)[i - 1].out[k]

BlockGrown(data, i, len, at, code) ==
  /\ data[i] # 0 /\ code + 1 # Block
  /\ StandsAt(Walk(data)[i], len + 1, at, code + 1)
  /\ Walk(data)[i].out[len + 1] = data[i]
  /\ \A k \in 1..len : Walk(data)[i].out[k] = Walk(data)[i - 1].out[k]

LEMMA StepInNumbers ==
  ASSUME NEW data \in Seq(Nat), NEW i \in 1..Len(data),
         NEW len \in Nat, NEW at \in Nat, NEW code \in Nat,
         StandsAt(Walk(data)[i - 1], len, at, code)
  PROVE  \/ BlockEnded(data, i, len, at, code)
         \/ BlockFilled(data, i, len, at, code)
         \/ BlockGrown(data, i, len, at, code)
<1> DEFINE s == Walk(data)[i - 1]
           b == data[i]
           t == EncodeByte(s, b)
<1>1. Walk(data)[i] = t
  BY WalkStep
<1>2. Writing(s) /\ b \in Nat
  <2>1. i - 1 \in 0..Len(data)
    BY LenProperties
  <2> QED BY <2>1, EncodedFar, ElementOfSeq DEF EncodedUpTo
<1>3. Len(s.out) = len /\ s.at = at /\ s.code = code
  BY DEF StandsAt
<1>4. len + 1 \in Nat /\ len + 2 \in Nat /\ code + 1 \in Nat /\ 1 \in Nat
  OBVIOUS
<1> HIDE DEF s, b, t
<1>5. CASE b = 0
  <2>1. /\ Len(t.out) = Len(s.out) + 1 /\ t.at = Len(s.out) + 1 /\ t.code = 1
        /\ t.out[s.at] = s.code
        /\ \A k \in 1..Len(s.out) : k # s.at => t.out[k] = s.out[k]
    BY <1>2, <1>5, ByteZero DEF t
  <2>2. /\ StandsAt(t, len + 1, len + 1, 1)
        /\ t.out[at] = code
        /\ \A k \in 1..len : k # at => t.out[k] = s.out[k]
    BY <1>3, <1>4, <2>1 DEF StandsAt
  <2> QED BY <1>1, <1>5, <2>2 DEF BlockEnded, s, b
<1>6. CASE b # 0 /\ code + 1 = Block
  <2>1. /\ Len(t.out) = Len(s.out) + 2 /\ t.at = Len(s.out) + 2 /\ t.code = 1
        /\ t.out[s.at] = Block /\ t.out[Len(s.out) + 1] = b
        /\ \A k \in 1..Len(s.out) : k # s.at => t.out[k] = s.out[k]
    <3>1. s.code + 1 = Block
      BY <1>3, <1>6
    <3> QED BY <1>2, <1>6, <3>1, ByteFills DEF t
  <2>2. /\ StandsAt(t, len + 2, len + 2, 1)
        /\ t.out[at] = Block /\ t.out[len + 1] = b
        /\ \A k \in 1..len : k # at => t.out[k] = s.out[k]
    BY <1>3, <1>4, <2>1 DEF StandsAt
  <2> QED BY <1>1, <1>6, <2>2 DEF BlockFilled, s, b
<1>7. CASE b # 0 /\ code + 1 # Block
  <2>1. /\ Len(t.out) = Len(s.out) + 1 /\ t.at = s.at /\ t.code = s.code + 1
        /\ t.out[Len(s.out) + 1] = b
        /\ \A k \in 1..Len(s.out) : t.out[k] = s.out[k]
    <3>1. s.code + 1 # Block
      BY <1>3, <1>7
    <3> QED BY <1>2, <1>7, <3>1, ByteStays DEF t
  <2>2. /\ StandsAt(t, len + 1, at, code + 1)
        /\ t.out[len + 1] = b
        /\ \A k \in 1..len : t.out[k] = s.out[k]
    BY <1>3, <1>4, <2>1 DEF StandsAt
  <2> QED BY <1>1, <1>7, <2>2 DEF BlockGrown, s, b
<1> QED BY <1>5, <1>6, <1>7

-----------------------------------------------------------------------------
(* The decoder reads back what was written *)

(* The decoder gives back, from the code of this block on, all data from    *)
(* the first byte of the block on.                                          *)
ReadBack(data, bytes, i, s) ==
  /\ Len(s.out) <= Len(bytes)
  /\ \A k \in 1..Len(s.out) : k # s.at => bytes[k] = s.out[k]
  /\ IsRestOf(Rest(bytes)[s.at], data, i + 1 - s.code)

LEMMA ReadBackStep ==
  ASSUME NEW data \in Seq(Nat), NEW bytes \in Seq(Nat), NEW i \in 1..Len(data),
         ReadBack(data, bytes, i, Walk(data)[i])
  PROVE  ReadBack(data, bytes, i - 1, Walk(data)[i - 1])
<1> DEFINE s == Walk(data)[i - 1]
           t == Walk(data)[i]
<1>0. i \in Nat /\ 1 <= i /\ i - 1 \in 0..Len(data)
  BY LenProperties
<1>1. EncodedUpTo(data, i - 1, s)
  BY <1>0, EncodedFar
<1>2. PICK len \in Nat, at \in Nat, code \in Nat :
        /\ StandsAt(s, len, at, code)
        /\ 1 <= at /\ 1 <= code /\ code < Block /\ len = at + code - 1
  BY <1>1, StandsSomewhere DEF EncodedUpTo
<1>3. \/ BlockEnded(data, i, len, at, code)
      \/ BlockFilled(data, i, len, at, code)
      \/ BlockGrown(data, i, len, at, code)
  BY <1>2, StepInNumbers
<1>4. /\ Len(s.out) = len /\ s.at = at /\ s.code = code
  BY <1>2 DEF StandsAt
<1>5. PICK p \in Int : p = i - code
  BY <1>0
<1>6. /\ code <= i
      /\ \A k \in 1..code - 1 : s.out[at + k] = data[p + k]
  <2>1. s.code <= (i - 1) + 1 /\ \A k \in 1..s.code - 1 : s.out[s.at + k] = data[((i - 1) + 1 - s.code) + k]
    BY <1>1 DEF EncodedUpTo
  <2>2. (i - 1) + 1 - code = p /\ (i - 1) + 1 = i
    BY <1>0, <1>5
  <2> QED BY <1>4, <2>1, <2>2
<1>7. /\ Len(t.out) <= Len(bytes)
      /\ \A k \in 1..Len(t.out) : k # t.at => bytes[k] = t.out[k]
      /\ IsRestOf(Rest(bytes)[t.at], data, i + 1 - t.code)
  BY DEF ReadBack
<1>8. PICK N \in Nat : N = Len(bytes)
  BY LenProperties
<1> SUFFICES /\ len <= N
             /\ \A k \in 1..len : k # at => bytes[k] = s.out[k]
             /\ IsRestOf(Rest(bytes)[at], data, p)
  <2>1. (i - 1) + 1 - code = p
    BY <1>0, <1>5
  <2> QED BY <1>4, <1>8, <2>1 DEF ReadBack
<1>n. /\ 1 <= at /\ 1 <= code /\ code < Block /\ len = at + code - 1
      /\ p \in Nat /\ p + code = i /\ Block \in Nat
  BY <1>0, <1>2, <1>5, <1>6, BlockAssumption, SMTT(40)
<1> HIDE DEF s, t
<1>9. CASE BlockEnded(data, i, len, at, code)
  <2>0. /\ data[i] = 0
        /\ StandsAt(t, len + 1, len + 1, 1)
        /\ t.out[at] = code
        /\ \A k \in 1..len : k # at => t.out[k] = s.out[k]
    BY <1>9 DEF BlockEnded, s, t
  <2>1. /\ len + 1 <= N
        /\ \A k \in 1..len + 1 : k # len + 1 => bytes[k] = t.out[k]
        /\ IsRestOf(Rest(bytes)[len + 1], data, i + 1 - 1)
    BY <1>7, <1>8, <2>0 DEF StandsAt
  <2>2. \A k \in 1..len : bytes[k] = t.out[k]
    BY <2>1
  <2>3. bytes[at] = code /\ \A k \in 1..len : k # at => bytes[k] = s.out[k]
    <3>1. at \in 1..len
      BY <1>n
    <3> QED BY <2>0, <2>2, <3>1
  <2>4. BlockAt(bytes, at, code, 1)
    <3>1. /\ at \in 1..N /\ 1 <= code /\ at + code - 1 <= N
          /\ code < Block /\ at + code <= N /\ 1 \in {0, 1}
      BY <1>n, <2>1, SMTT(40)
    <3> QED BY <1>8, <2>3, <3>1 DEF BlockAt
  <2>5. \A k \in 1..code - 1 : bytes[at + k] = data[p + k]
    <3> TAKE k \in 1..code - 1
    <3>1. at + k \in 1..len /\ at + k # at
      BY <1>n
    <3> QED BY <1>6, <2>3, <3>1
  <2>6. IsRestOf(Rest(bytes)[at + code], data, p + (code - 1 + 1))
    <3>1. at + code = len + 1 /\ p + (code - 1 + 1) = i + 1 - 1
      BY <1>n
    <3> QED BY <2>1, <3>1
  <2>7. data[p + code] = 0
    BY <1>n, <2>0
  <2>8. IsRestOf(Rest(bytes)[at], data, p)
    BY <1>n, <2>4, <2>5, <2>6, <2>7, BlockOfData
  <2>9. len <= N
    BY <2>1
  <2> QED BY <2>3, <2>8, <2>9
<1>10. CASE BlockFilled(data, i, len, at, code)
  <2>0. /\ data[i] # 0 /\ code + 1 = Block
        /\ StandsAt(t, len + 2, len + 2, 1)
        /\ t.out[at] = Block /\ t.out[len + 1] = data[i]
        /\ \A k \in 1..len : k # at => t.out[k] = s.out[k]
    BY <1>10 DEF BlockFilled, s, t
  <2>1. /\ len + 2 <= N
        /\ \A k \in 1..len + 2 : k # len + 2 => bytes[k] = t.out[k]
        /\ IsRestOf(Rest(bytes)[len + 2], data, i + 1 - 1)
    BY <1>7, <1>8, <2>0 DEF StandsAt
  <2>2. bytes[len + 1] = t.out[len + 1] /\ \A k \in 1..len : bytes[k] = t.out[k]
    <3>1. /\ len + 1 \in 1..len + 2 /\ len + 1 # len + 2
          /\ \A k \in 1..len : k \in 1..len + 2 /\ k # len + 2
      OBVIOUS
    <3> QED BY <2>1, <3>1
  <2>3. /\ bytes[at] = Block /\ bytes[len + 1] = data[i]
        /\ \A k \in 1..len : k # at => bytes[k] = s.out[k]
    <3>1. at \in 1..len
      BY <1>n
    <3> QED BY <2>0, <2>2, <3>1
  <2>4. BlockAt(bytes, at, code + 1, 0)
    <3>0. len + 2 <= N
      BY <2>1
    <3>1. at \in 1..N /\ at + (code + 1) - 1 <= N
      BY <1>n, <3>0
    <3>2. 1 <= code + 1 /\ code + 1 \in Nat
      BY <1>n
    <3>3. ~(code + 1 < Block)
      BY <1>n, <2>0
    <3>4. bytes[at] = code + 1
      BY <2>0, <2>3
    <3> QED BY <1>8, <3>1, <3>2, <3>3, <3>4 DEF BlockAt
  <2>5. \A k \in 1..code + 1 - 1 : bytes[at + k] = data[p + k]
    <3> TAKE k \in 1..code + 1 - 1
    <3>1. CASE k = code
      <4>1. at + k = len + 1 /\ p + k = i
        BY <1>n, <3>1
      <4> QED BY <2>3, <4>1
    <3>2. CASE k # code
      <4>1. at + k \in 1..len /\ at + k # at /\ k \in 1..code - 1
        BY <1>n, <3>2
      <4> QED BY <1>6, <2>3, <4>1
    <3> QED BY <3>1, <3>2
  <2>6. IsRestOf(Rest(bytes)[at + (code + 1)], data, p + (code + 1 - 1 + 0))
    <3>1. at + (code + 1) = len + 2 /\ p + (code + 1 - 1 + 0) = i + 1 - 1
      BY <1>n
    <3> QED BY <2>1, <3>1
  <2>7. IsRestOf(Rest(bytes)[at], data, p)
    <3>1. code + 1 \in Nat /\ p \in Nat /\ at \in Nat
      BY <1>n
    <3>2. PICK c \in Nat : c = code + 1
      BY <3>1
    <3>3. /\ BlockAt(bytes, at, c, 0)
          /\ \A k \in 1..c - 1 : bytes[at + k] = data[p + k]
          /\ IsRestOf(Rest(bytes)[at + c], data, p + (c - 1 + 0))
      BY <2>4, <2>5, <2>6, <3>2
    <3>4. 0 = 1 => data[p + c] = 0
      OBVIOUS
    <3> QED BY <3>1, <3>3, <3>4, BlockOfData
  <2>8. len <= N
    BY <2>1
  <2> QED BY <2>3, <2>7, <2>8
<1>11. CASE BlockGrown(data, i, len, at, code)
  <2>0. /\ data[i] # 0 /\ code + 1 # Block
        /\ StandsAt(t, len + 1, at, code + 1)
        /\ t.out[len + 1] = data[i]
        /\ \A k \in 1..len : t.out[k] = s.out[k]
    BY <1>11 DEF BlockGrown, s, t
  <2>1. /\ len + 1 <= N
        /\ \A k \in 1..len + 1 : k # at => bytes[k] = t.out[k]
        /\ IsRestOf(Rest(bytes)[at], data, i + 1 - (code + 1))
    BY <1>7, <1>8, <2>0 DEF StandsAt
  <2>2. \A k \in 1..len : k # at => bytes[k] = s.out[k]
    BY <2>0, <2>1
  <2>3. i + 1 - (code + 1) = p /\ len <= N
    BY <1>n, <2>1
  <2> QED BY <2>1, <2>2, <2>3
<1> QED BY <1>3, <1>9, <1>10, <1>11

(* The last block, once its code is written.                                *)
LEMMA ReadBackEnd ==
  ASSUME NEW data \in Seq(Nat)
  PROVE  LET end == Walk(data)[Len(data)]
         IN  ReadBack(data, Written(end), Len(data), end)
<1>0. PICK n \in Nat : n = Len(data)
  BY LenProperties
<1> DEFINE s == Walk(data)[n]
           bytes == Written(s)
<1>1. EncodedUpTo(data, n, s)
  BY <1>0, EncodedFar
<1> HIDE DEF s
<1>2. PICK len \in Nat, at \in Nat, code \in Nat :
        /\ StandsAt(s, len, at, code)
        /\ 1 <= at /\ 1 <= code /\ code < Block /\ len = at + code - 1
  BY <1>1, StandsSomewhere DEF EncodedUpTo
<1>3. Len(s.out) = len /\ s.at = at /\ s.code = code
  BY <1>2 DEF StandsAt
<1>4. /\ bytes \in Seq(Nat) /\ Len(bytes) = len /\ bytes[at] = code
      /\ \A k \in 1..len : k # at => bytes[k] = s.out[k]
  BY <1>1, <1>3, WrittenIndex DEF EncodedUpTo
<1> HIDE DEF bytes
<1>5. code <= n + 1 /\ \A k \in 1..code - 1 : s.out[at + k] = data[(n + 1 - code) + k]
  BY <1>1, <1>3 DEF EncodedUpTo
<1>6. PICK p \in Nat : p = n + 1 - code
  BY <1>5
<1>n. /\ 1 <= at /\ 1 <= code /\ code < Block /\ len = at + code - 1
      /\ p = n + 1 - code
  BY <1>2, <1>6
<1>7. BlockAt(bytes, at, code, 0)
  <2>1. at \in 1..len /\ at + code - 1 <= len /\ ~(at + code <= len)
    BY <1>n
  <2> QED BY <1>4, <1>n, <2>1 DEF BlockAt
<1>8. \A k \in 1..code - 1 : bytes[at + k] = data[p + k]
  <2> TAKE k \in 1..code - 1
  <2>1. at + k \in 1..len /\ at + k # at
    BY <1>n
  <2> QED BY <1>4, <1>5, <1>6, <2>1
<1>9. IsRestOf(Rest(bytes)[at + code], data, p + (code - 1 + 0))
  <2>1. Rest(bytes)[Len(bytes) + 1] = <<>>
    BY <1>4, RestStep
  <2>2. at + code = len + 1 /\ p + (code - 1 + 0) = n
    BY <1>n
  <2>3. Rest(bytes)[at + code] = <<>>
    BY <1>4, <2>1, <2>2
  <2>4. IsRestOf(<<>>, data, n)
    <3>1. <<>> \in Seq(Nat) /\ n \in 0..n /\ Len(<<>>) = n - n /\ \A k \in 1..n - n : FALSE
      OBVIOUS
    <3> QED BY <1>0, <3>1 DEF IsRestOf
  <2> QED BY <2>2, <2>3, <2>4
<1>10. IsRestOf(Rest(bytes)[at], data, p)
  <2>1. 0 = 1 => data[p + code] = 0
    OBVIOUS
  <2> QED BY <1>4, <1>7, <1>8, <1>9, <2>1, BlockOfData
<1>11. ReadBack(data, bytes, n, s)
  BY <1>3, <1>4, <1>6, <1>10 DEF ReadBack
<1> QED BY <1>0, <1>11 DEF bytes, s

LEMMA ReadBackAll ==
  ASSUME NEW data \in Seq(Nat), NEW bytes \in Seq(Nat),
         ReadBack(data, bytes, Len(data), Walk(data)[Len(data)])
  PROVE  ReadBack(data, bytes, 0, Walk(data)[0])
<1>0. PICK n \in Nat : n = Len(data)
  BY LenProperties
<1> DEFINE Read(i) == ReadBack(data, bytes, i, Walk(data)[i])
           Bad == {m \in 0..n : ~Read(n - m)}
<1>1. Read(n)
  BY <1>0
<1>2. ASSUME NEW i \in 1..n, Read(i) PROVE Read(i - 1)
  BY <1>0, <1>2, ReadBackStep
<1> HIDE DEF Read
<1>3. Bad = {}
  <2>1. SUFFICES ASSUME Bad # {} PROVE FALSE
    OBVIOUS
  <2>2. PICK m \in Bad : \A k \in Bad : ~(k < m)
    <3>1. Bad \subseteq Nat
      OBVIOUS
    <3> HIDE DEF Bad
    <3> QED BY <2>1, <3>1, LeastPlace
  <2>3. m \in 0..n /\ ~Read(n - m)
    OBVIOUS
  <2>4. m # 0
    <3>1. n - 0 = n
      OBVIOUS
    <3> QED BY <1>1, <2>3, <3>1
  <2>5. m - 1 \in 0..n /\ m - 1 < m
    BY <2>3, <2>4
  <2>6. Read(n - (m - 1))
    BY <2>2, <2>5
  <2>7. n - (m - 1) \in 1..n /\ (n - (m - 1)) - 1 = n - m
    BY <2>3, <2>4
  <2> QED BY <1>2, <2>3, <2>6, <2>7
<1>4. Read(0)
  <2>1. n \in 0..n /\ n - n = 0
    OBVIOUS
  <2> QED BY <1>3, <2>1
<1> QED BY <1>4 DEF Read

(* What cobs_encode writes for the data, if there is room.                  *)
Stuffed(data) == Written(Walk(data)[Len(data)])

LEMMA StuffedReadBack ==
  ASSUME NEW data \in Seq(Nat)
  PROVE  Stuffed(data) \in Seq(Nat) /\ Rest(Stuffed(data))[1] = data
<1> DEFINE end == Walk(data)[Len(data)]
           bytes == Stuffed(data)
           d == Rest(bytes)[1]
<1>1. bytes = Written(end)
  BY DEF Stuffed
<1>2. Writing(end)
  <2>1. Len(data) \in 0..Len(data)
    BY LenProperties
  <2> QED BY <2>1, EncodedFar DEF EncodedUpTo
<1>3. bytes \in Seq(Nat)
  BY <1>1, <1>2, WrittenIndex
<1>4. ReadBack(data, bytes, Len(data), end)
  BY <1>1, ReadBackEnd
<1>5. ReadBack(data, bytes, 0, Walk(data)[0])
  BY <1>3, <1>4, ReadBackAll
<1>6. Walk(data)[0].at = 1 /\ Walk(data)[0].code = 1
  BY WalkStep DEF Start
<1>7. IsRestOf(d, data, 0)
  <2>1. IsRestOf(Rest(bytes)[Walk(data)[0].at], data, 0 + 1 - Walk(data)[0].code)
    BY <1>5 DEF ReadBack
  <2>2. 0 + 1 - 1 = 0
    OBVIOUS
  <2> QED BY <1>6, <2>1, <2>2
<1> HIDE DEF d, bytes
<1>8. d = data
  <2>1. PICK n \in Nat : n = Len(data)
    BY LenProperties
  <2>2. d \in Seq(Nat) /\ Len(d) = n - 0 /\ \A k \in 1..n - 0 : d[k] = data[0 + k]
    BY <1>7, <2>1 DEF IsRestOf
  <2>3. Len(d) = n /\ \A k \in 1..n : d[k] = data[k]
    BY <2>2
  <2> QED BY <2>1, <2>2, <2>3, SeqEqual
<1> QED BY <1>3, <1>8 DEF d, bytes

LEMMA StuffedNoZero ==
  ASSUME NEW data \in Seq(Nat)
  PROVE  \A k \in DOMAIN Stuffed(data) : Stuffed(data)[k] # 0
<1> DEFINE end == Walk(data)[Len(data)]
           bytes == Written(end)
<1>1. EncodedUpTo(data, Len(data), end)
  <2>1. Len(data) \in 0..Len(data)
    BY LenProperties
  <2> QED BY <2>1, EncodedFar
<1>2. Writing(end) /\ \A k \in 1..Len(end.out) : k # end.at => end.out[k] # 0
  BY <1>1 DEF EncodedUpTo
<1>3. end.code # 0
  BY <1>2, BlockAssumption DEF Writing
<1> HIDE DEF end
<1>4. /\ bytes \in Seq(Nat) /\ Len(bytes) = Len(end.out)
      /\ bytes[end.at] = end.code
      /\ \A k \in 1..Len(end.out) : k # end.at => bytes[k] = end.out[k]
  BY <1>2, WrittenIndex
<1> HIDE DEF bytes
<1>5. DOMAIN bytes = 1..Len(end.out)
  BY <1>4, LenProperties
<1>6. ASSUME NEW k \in 1..Len(end.out) PROVE bytes[k] # 0
  <2>1. CASE k = end.at
    BY <1>3, <1>4, <2>1
  <2>2. CASE k # end.at
    BY <1>2, <1>4, <2>2
  <2> QED BY <2>1, <2>2
<1> QED BY <1>5, <1>6 DEF Stuffed, end, bytes

-----------------------------------------------------------------------------
(* How long the encoding is *)

LEMMA AtMostQuotient ==
  ASSUME NEW n \in Nat, NEW B \in Nat, B >= 1, NEW k \in Nat, k * B <= n
  PROVE  n \div B \in Nat /\ k <= n \div B /\ n \div B <= n
<1>1. PICK q \in Nat, r \in Nat : q = n \div B /\ r = n % B /\ n = B * q + r /\ r < B
  <2>1. n \div B \in Nat /\ n % B \in Nat /\ n = B * (n \div B) + (n % B) /\ n % B < B
    OBVIOUS
  <2> QED BY <2>1, Zenon
<1>2. q <= n
  <2>1. q <= B * q
    OBVIOUS
  <2> QED BY <1>1, <2>1
<1>3. k <= q
  <2>1. SUFFICES ASSUME k >= q + 1 PROVE FALSE
    OBVIOUS
  <2>2. PICK e \in Nat : k = q + 1 + e
    <3>1. k - (q + 1) \in Nat /\ k = q + 1 + (k - (q + 1))
      BY <2>1
    <3> QED BY <3>1, Zenon
  <2>3. k * B = B * q + B + e * B
    BY <2>2
  <2>4. e * B \in Nat
    OBVIOUS
  <2> QED BY <1>1, <2>3, <2>4
<1> QED BY <1>1, <1>2, <1>3

(* One byte more than the data, and one more for every full block.          *)
LEMMA StuffedLength ==
  ASSUME NEW data \in Seq(Nat)
  PROVE  /\ Len(data) \div (Block - 1) \in Nat
         /\ Len(data) \div (Block - 1) <= Len(data)
         /\ Len(Stuffed(data)) <= Len(data) + 1 + Len(data) \div (Block - 1)
         /\ Len(data) < Len(Stuffed(data))
<1> DEFINE end == Walk(data)[Len(data)]
<1>1. PICK n \in Nat : n = Len(data)
  BY LenProperties
<1>2. EncodedUpTo(data, n, end)
  BY <1>1, EncodedFar
<1>3. PICK len \in Nat, B \in Nat, code \in Nat :
        len = Len(Stuffed(data)) /\ B = Block - 1 /\ code = end.code /\ len = Len(end.out)
  <2>1. Len(Stuffed(data)) \in Nat /\ Len(Stuffed(data)) = Len(end.out)
    BY <1>2, WrittenIndex, LenProperties DEF Stuffed, EncodedUpTo
  <2>2. Block - 1 \in Nat
    BY BlockAssumption
  <2>3. end.code \in Nat
    BY <1>2 DEF EncodedUpTo, Writing
  <2> QED BY <2>1, <2>2, <2>3, Zenon
<1>4. /\ len >= n + 1 /\ (len - 1 - n) * B <= n + 1 - code
  BY <1>2, <1>3 DEF EncodedUpTo
<1>5. 1 <= code /\ 1 <= B
  <2>1. end.code \in 1..Block - 1 /\ 1 <= Block - 1
    BY <1>2, BlockAssumption DEF EncodedUpTo, Writing
  <2> QED BY <1>3, <2>1
<1> HIDE DEF end
<1>6. PICK k \in Nat : k = len - 1 - n
  BY <1>4
<1>7. k * B <= n
  <2>1. k * B <= n + 1 - code
    BY <1>4, <1>6
  <2>2. k * B \in Nat
    OBVIOUS
  <2> QED BY <1>5, <2>1, <2>2
<1>8. n \div B \in Nat /\ k <= n \div B /\ n \div B <= n
  BY <1>5, <1>7, AtMostQuotient
<1>9. len <= n + 1 + n \div B /\ n < len
  BY <1>4, <1>6, <1>8
<1> QED BY <1>1, <1>3, <1>8, <1>9

LEMMA EncodeStuffed ==
  ASSUME NEW data \in Seq(Nat), NEW capacity \in Nat
  PROVE  Encode(data, capacity) =
           IF Len(Stuffed(data)) <= capacity THEN Stuffed(data) ELSE Failure
<1> DEFINE end == Walk(data)[Len(data)]
<1>1. EncodedUpTo(data, Len(data), end)
  <2>1. Len(data) \in 0..Len(data)
    BY LenProperties
  <2> QED BY <2>1, EncodedFar
<1>2. Len(Stuffed(data)) = Len(end.out)
  BY <1>1, WrittenIndex DEF Stuffed, EncodedUpTo
<1> QED BY <1>2, EncodeFits DEF Stuffed

-----------------------------------------------------------------------------
(* What the decoder reads it could have been written *)

(* A frame is read as data from a place on only if a block lies there and   *)
(* what follows it is read as data.                                         *)
LEMMA RestBlock ==
  ASSUME NEW bytes \in Seq(Nat), NEW i \in 1..Len(bytes),
         Rest(bytes)[i] # Failure,
         \A k \in i + 1..Len(bytes) + 1 : Rest(bytes)[k] \in Seq(Nat) \cup {Failure}
  PROVE  \E code \in Nat, zero \in Nat :
           /\ BlockAt(bytes, i, code, zero)
           /\ Rest(bytes)[i + code] \in Seq(Nat)
           /\ Added(Rest(bytes)[i], bytes, i, code, zero, Rest(bytes)[i + code])
<1> DEFINE R == Rest(bytes)
<1>0. PICK N \in Nat : N = Len(bytes)
  BY LenProperties
<1>1. PICK code \in Nat : code = bytes[i]
  BY ElementOfSeq
<1>2. R[i] = DecodeBlock(bytes, i, R)
  BY RestStep
<1>3. ~(code = 0 \/ i + code - 1 > Len(bytes)) /\ R[i + code] # Failure
  BY <1>1, <1>2 DEF DecodeBlock
<1>4. i \in Nat /\ 1 <= i /\ i <= N /\ 1 <= code /\ i + code - 1 <= N
  BY <1>0, <1>3
<1>5. R[i + code] \in Seq(Nat)
  <2>1. i + code \in i + 1..N + 1
    BY <1>4
  <2> QED BY <1>0, <1>3, <2>1
<1>6. PICK zero \in Nat : zero \in {0, 1} /\ (zero = 1 <=> (code < Block /\ i + code <= Len(bytes)))
  <2>1. CASE code < Block /\ i + code <= Len(bytes)
    BY <2>1
  <2>2. CASE ~(code < Block /\ i + code <= Len(bytes))
    BY <2>2
  <2> QED BY <2>1, <2>2
<1>7. BlockAt(bytes, i, code, zero)
  <2>1. i + code - 1 <= Len(bytes)
    BY <1>0, <1>4
  <2> QED BY <1>1, <1>4, <1>6, <2>1 DEF BlockAt
<1>8. Added(R[i], bytes, i, code, zero, R[i + code])
  <2>1. i \in Nat
    BY <1>4
  <2>2. Added(DecodeBlock(bytes, i, R), bytes, i, code, zero, R[i + code])
    BY <1>5, <1>7, <2>1, BlockAdds
  <2> QED BY <1>2, <2>2
<1> QED BY <1>5, <1>7, <1>8

LEMMA RestType ==
  ASSUME NEW bytes \in Seq(Nat)
  PROVE  \A i \in 1..Len(bytes) + 1 : Rest(bytes)[i] \in Seq(Nat) \cup {Failure}
<1>0. PICK N \in Nat : N = Len(bytes)
  BY LenProperties
<1> DEFINE Typed(i) == Rest(bytes)[i] \in Seq(Nat) \cup {Failure}
           Bad == {m \in 0..N : ~Typed(N + 1 - m)}
<1>1. Typed(N + 1)
  <2>1. Rest(bytes)[N + 1] = <<>>
    BY <1>0, RestStep
  <2> QED BY <2>1
<1>2. ASSUME NEW i \in 1..N, \A k \in i + 1..N + 1 : Typed(k)
      PROVE  Typed(i)
  <2>1. CASE Rest(bytes)[i] = Failure
    BY <2>1
  <2>2. CASE Rest(bytes)[i] # Failure
    <3>1. PICK code \in Nat, zero \in Nat :
            Added(Rest(bytes)[i], bytes, i, code, zero, Rest(bytes)[i + code])
      BY <1>0, <1>2, <2>2, RestBlock
    <3>2. Rest(bytes)[i] \in Seq(Nat)
      BY <3>1 DEF Added
    <3> QED BY <3>2
  <2> QED BY <2>1, <2>2
<1> HIDE DEF Typed
<1>3. Bad = {}
  <2>1. SUFFICES ASSUME Bad # {} PROVE FALSE
    OBVIOUS
  <2>2. PICK m \in Bad : \A k \in Bad : ~(k < m)
    <3>1. Bad \subseteq Nat
      OBVIOUS
    <3> HIDE DEF Bad
    <3> QED BY <2>1, <3>1, LeastPlace
  <2>3. m \in 0..N /\ ~Typed(N + 1 - m)
    OBVIOUS
  <2>4. m # 0
    <3>1. N + 1 - 0 = N + 1
      OBVIOUS
    <3> QED BY <1>1, <2>3, <3>1
  <2>5. N + 1 - m \in 1..N
    BY <2>3, <2>4
  <2>6. ASSUME NEW k \in (N + 1 - m) + 1..N + 1 PROVE Typed(k)
    <3>1. N + 1 - k \in 0..N /\ N + 1 - k < m /\ N + 1 - (N + 1 - k) = k
      BY <2>3, <2>4
    <3>2. N + 1 - k \notin Bad
      BY <2>2, <3>1
    <3> QED BY <3>1, <3>2
  <2> QED BY <1>2, <2>3, <2>5, <2>6
<1>4. ASSUME NEW i \in 1..N + 1 PROVE Typed(i)
  <2>1. N + 1 - i \in 0..N /\ N + 1 - (N + 1 - i) = i
    OBVIOUS
  <2> QED BY <1>3, <2>1
<1> QED BY <1>0, <1>4 DEF Typed

(* cobs_encode has written what the frame holds before place p, and k bytes *)
(* of the block there.                                                      *)
StandsIn(s, bytes, p, k) ==
  /\ StandsAt(s, p + k, p, k + 1)
  /\ \A q \in 1..p + k : q # p => s.out[q] = bytes[q]

LEMMA StandsOn ==
  ASSUME NEW data \in Seq(Nat), NEW bytes \in Seq(Nat),
         NEW p \in Nat, NEW j \in Nat, NEW c \in Nat,
         j + c <= Len(data), c + 1 < Block,
         \A k \in 1..c : bytes[p + k] = data[j + k] /\ data[j + k] # 0,
         StandsIn(Walk(data)[j], bytes, p, 0)
  PROVE  StandsIn(Walk(data)[j + c], bytes, p, c)
<1> DEFINE Inside(k) == StandsIn(Walk(data)[j + k], bytes, p, k)
           Bad == {k \in 0..c : ~Inside(k)}
<1>0. PICK n \in Nat : n = Len(data) /\ j + c <= n
  BY LenProperties
<1>1. Inside(0)
  <2>1. j + 0 = j
    OBVIOUS
  <2> QED BY <2>1
<1>2. ASSUME NEW k \in 1..c, Inside(k - 1) PROVE Inside(k)
  <2>0. PICK h \in Nat, i \in 1..n : h = k - 1 /\ i = j + k
    <3>1. k - 1 \in Nat /\ j + k \in 1..n
      BY <1>0
    <3> QED BY <3>1, Zenon
  <2> DEFINE s == Walk(data)[i - 1]
             t == Walk(data)[i]
  <2>1. i - 1 = j + h /\ k = h + 1 /\ h + 1 + 1 # Block /\ p + h \in Nat /\ h + 1 \in Nat
    BY <2>0, BlockAssumption
  <2>2. StandsIn(s, bytes, p, h)
    BY <1>2, <2>0, <2>1
  <2>3. StandsAt(s, p + h, p, h + 1) /\ \A q \in 1..p + h : q # p => s.out[q] = bytes[q]
    BY <2>2 DEF StandsIn
  <2>4. data[i] # 0 /\ data[i] = bytes[p + k]
    BY <2>0
  <2>5. /\ StandsAt(t, (p + h) + 1, p, (h + 1) + 1)
        /\ t.out[(p + h) + 1] = data[i]
        /\ \A q \in 1..p + h : t.out[q] = s.out[q]
    <3>1. PICK len \in Nat, code \in Nat : len = p + h /\ code = h + 1
      BY <2>1
    <3>2. StandsAt(s, len, p, code) /\ code + 1 # Block /\ i \in 1..Len(data)
      BY <1>0, <2>1, <2>3, <3>1
    <3>3. /\ StandsAt(t, len + 1, p, code + 1)
          /\ t.out[len + 1] = data[i]
          /\ \A q \in 1..len : t.out[q] = s.out[q]
      <4>1. data[i] # 0 /\ code + 1 # Block
        BY <2>4, <3>2
      <4>2. i \in 1..Len(data) /\ StandsAt(Walk(data)[i - 1], len, p, code)
        BY <3>2
      <4>3. BlockGrown(data, i, len, p, code)
        BY <4>1, <4>2, StepInNumbers DEF BlockEnded, BlockFilled
      <4> QED BY <4>3 DEF BlockGrown
    <3> QED BY <3>1, <3>3
  <2> HIDE DEF s, t
  <2>6. (p + h) + 1 = p + k /\ (h + 1) + 1 = k + 1
    BY <2>1
  <2>7. \A q \in 1..p + k : q # p => t.out[q] = bytes[q]
    <3> SUFFICES ASSUME NEW q \in 1..p + k, q # p PROVE t.out[q] = bytes[q]
      OBVIOUS
    <3>1. CASE q = p + k
      BY <2>4, <2>5, <2>6, <3>1
    <3>2. CASE q # p + k
      <4>1. q \in 1..p + h
        BY <2>1, <3>2
      <4> QED BY <2>3, <2>5, <4>1
    <3> QED BY <3>1, <3>2
  <2>8. StandsIn(t, bytes, p, k)
    BY <2>5, <2>6, <2>7 DEF StandsIn
  <2> QED BY <2>0, <2>8 DEF t
<1> HIDE DEF Inside
<1>3. Bad = {}
  <2>1. SUFFICES ASSUME Bad # {} PROVE FALSE
    OBVIOUS
  <2>2. PICK k \in Bad : \A l \in Bad : ~(l < k)
    <3>1. Bad \subseteq Nat
      OBVIOUS
    <3> HIDE DEF Bad
    <3> QED BY <2>1, <3>1, LeastPlace
  <2>3. k \in 1..c /\ ~Inside(k)
    <3>1. k \in 0..c /\ ~Inside(k)
      OBVIOUS
    <3> QED BY <1>1, <3>1
  <2>4. k - 1 \in 0..c /\ k - 1 < k
    BY <2>3
  <2>5. Inside(k - 1)
    BY <2>2, <2>4
  <2> QED BY <1>2, <2>3, <2>5
<1>4. Inside(c)
  <2>1. c \in 0..c
    OBVIOUS
  <2> QED BY <1>3, <2>1
<1> QED BY <1>4 DEF Inside

(* The block ends: at a 0, or because it is full.                           *)
LEMMA ZeroEndsBlock ==
  ASSUME NEW data \in Seq(Nat), NEW bytes \in Seq(Nat),
         NEW p \in Nat, NEW i \in 1..Len(data), NEW c \in Nat,
         p >= 1, c >= 1, bytes[p] = c, data[i] = 0,
         StandsIn(Walk(data)[i - 1], bytes, p, c - 1)
  PROVE  StandsIn(Walk(data)[i], bytes, p + c, 0)
<1> DEFINE s == Walk(data)[i - 1]
           t == Walk(data)[i]
<1>1. PICK len \in Nat : len = p + (c - 1)
  OBVIOUS
<1>2. StandsAt(s, len, p, c) /\ \A q \in 1..len : q # p => s.out[q] = bytes[q]
  <2>1. (c - 1) + 1 = c
    OBVIOUS
  <2> QED BY <1>1, <2>1 DEF StandsIn
<1>3. /\ StandsAt(t, len + 1, len + 1, 1)
      /\ t.out[p] = c
      /\ \A k \in 1..len : k # p => t.out[k] = s.out[k]
  <2>1. StandsAt(Walk(data)[i - 1], len, p, c)
    BY <1>2
  <2>2. BlockEnded(data, i, len, p, c)
    BY <2>1, StepInNumbers DEF BlockFilled, BlockGrown
  <2> QED BY <2>2 DEF BlockEnded
<1> HIDE DEF s, t
<1>4. \A q \in 1..len : t.out[q] = bytes[q]
  <2> TAKE q \in 1..len
  <2>1. CASE q = p
    BY <1>3, <2>1
  <2>2. CASE q # p
    BY <1>2, <1>3, <2>2
  <2> QED BY <2>1, <2>2
<1>5. StandsAt(t, (p + c) + 0, p + c, 0 + 1)
  <2>1. len + 1 = p + c /\ (p + c) + 0 = p + c /\ 0 + 1 = 1
    BY <1>1
  <2> QED BY <1>3, <2>1
<1>6. \A q \in 1..(p + c) + 0 : q # p + c => t.out[q] = bytes[q]
  <2> SUFFICES ASSUME NEW q \in 1..(p + c) + 0, q # p + c PROVE t.out[q] = bytes[q]
    OBVIOUS
  <2>1. q \in 1..len
    BY <1>1
  <2> QED BY <1>4, <2>1
<1>7. StandsIn(t, bytes, p + c, 0)
  BY <1>5, <1>6 DEF StandsIn
<1> QED BY <1>7 DEF t

LEMMA FullEndsBlock ==
  ASSUME NEW data \in Seq(Nat), NEW bytes \in Seq(Nat),
         NEW p \in Nat, NEW i \in 1..Len(data), NEW c \in Nat,
         p >= 1, c >= 1, c + 1 = Block, bytes[p] = Block, data[i] # 0, bytes[p + c] = data[i],
         StandsIn(Walk(data)[i - 1], bytes, p, c - 1)
  PROVE  StandsIn(Walk(data)[i], bytes, p + Block, 0)
<1> DEFINE s == Walk(data)[i - 1]
           t == Walk(data)[i]
<1>1. PICK len \in Nat : len = p + (c - 1)
  OBVIOUS
<1>2. StandsAt(s, len, p, c) /\ \A q \in 1..len : q # p => s.out[q] = bytes[q]
  <2>1. (c - 1) + 1 = c
    OBVIOUS
  <2> QED BY <1>1, <2>1 DEF StandsIn
<1>3. /\ StandsAt(t, len + 2, len + 2, 1)
      /\ t.out[p] = Block /\ t.out[len + 1] = data[i]
      /\ \A k \in 1..len : k # p => t.out[k] = s.out[k]
  <2>1. StandsAt(Walk(data)[i - 1], len, p, c)
    BY <1>2
  <2>2. BlockFilled(data, i, len, p, c)
    BY <2>1, StepInNumbers DEF BlockEnded, BlockGrown
  <2> QED BY <2>2 DEF BlockFilled
<1> HIDE DEF s, t
<1>n. len + 1 = p + c /\ len + 2 = p + Block
  BY <1>1
<1>4. \A q \in 1..len + 1 : t.out[q] = bytes[q]
  <2> TAKE q \in 1..len + 1
  <2>1. CASE q = p
    BY <1>3, <2>1
  <2>2. CASE q # p /\ q # len + 1
    <3>1. q \in 1..len
      BY <2>2
    <3> QED BY <1>2, <1>3, <2>2, <3>1
  <2>3. CASE q = len + 1
    BY <1>3, <1>n, <2>3
  <2> QED BY <2>1, <2>2, <2>3
<1>5. StandsAt(t, (p + Block) + 0, p + Block, 0 + 1)
  <2>1. (p + Block) + 0 = p + Block /\ 0 + 1 = 1
    BY BlockAssumption
  <2> QED BY <1>3, <1>n, <2>1
<1>6. \A q \in 1..(p + Block) + 0 : q # p + Block => t.out[q] = bytes[q]
  <2> SUFFICES ASSUME NEW q \in 1..(p + Block) + 0, q # p + Block PROVE t.out[q] = bytes[q]
    OBVIOUS
  <2>1. q \in 1..len + 1
    BY <1>n, BlockAssumption
  <2> QED BY <1>4, <2>1
<1>7. StandsIn(t, bytes, p + Block, 0)
  BY <1>5, <1>6 DEF StandsIn
<1> QED BY <1>7 DEF t

LEMMA LastWritten ==
  ASSUME NEW bytes \in Seq(Nat), NEW s, Writing(s), NEW p \in Nat, NEW c \in Nat,
         p >= 1, c >= 1, bytes[p] = c, Len(bytes) = p + c - 1,
         StandsIn(s, bytes, p, c - 1)
  PROVE  Written(s) = bytes
<1> DEFINE w == Written(s)
<1>1. PICK len \in Nat : len = p + (c - 1) /\ len = Len(bytes)
  OBVIOUS
<1>2. StandsAt(s, len, p, (c - 1) + 1) /\ \A q \in 1..len : q # p => s.out[q] = bytes[q]
  BY <1>1 DEF StandsIn
<1>3. Len(s.out) = len /\ s.at = p /\ s.code = c
  <2>1. (c - 1) + 1 = c
    OBVIOUS
  <2> QED BY <1>2, <2>1 DEF StandsAt
<1>4. /\ w \in Seq(Nat) /\ Len(w) = len /\ w[p] = c
      /\ \A q \in 1..len : q # p => w[q] = s.out[q]
  BY <1>3, WrittenIndex
<1> HIDE DEF w
<1>5. \A q \in 1..len : w[q] = bytes[q]
  <2> TAKE q \in 1..len
  <2>1. CASE q = p
    BY <1>4, <2>1
  <2>2. CASE q # p
    BY <1>2, <1>4, <2>2
  <2> QED BY <2>1, <2>2
<1>6. w = bytes
  BY <1>1, <1>4, <1>5, SeqEqual
<1> QED BY <1>6 DEF w

LEMMA EmptyWritten ==
  ASSUME NEW bytes \in Seq(Nat), NEW s, Writing(s),
         StandsIn(s, bytes, Len(bytes) + 1, 0)
  PROVE  Written(s) = Append(bytes, 1)
<1> DEFINE w == Written(s)
           u == Append(bytes, 1)
<1>1. PICK n \in Nat : n = Len(bytes)
  BY LenProperties
<1>2. StandsAt(s, (n + 1) + 0, n + 1, 0 + 1) /\ \A q \in 1..(n + 1) + 0 : q # n + 1 => s.out[q] = bytes[q]
  BY <1>1 DEF StandsIn
<1>3. Len(s.out) = n + 1 /\ s.at = n + 1 /\ s.code = 1
  <2>1. (n + 1) + 0 = n + 1 /\ 0 + 1 = 1
    OBVIOUS
  <2> QED BY <1>2, <2>1 DEF StandsAt
<1>4. \A q \in 1..n : s.out[q] = bytes[q]
  <2>1. \A q \in 1..n : q \in 1..(n + 1) + 0 /\ q # n + 1
    OBVIOUS
  <2> QED BY <1>2, <2>1
<1>5. /\ w \in Seq(Nat) /\ Len(w) = n + 1 /\ w[n + 1] = 1
      /\ \A q \in 1..n + 1 : q # n + 1 => w[q] = s.out[q]
  BY <1>3, WrittenIndex
<1> HIDE DEF w
<1>6. /\ u \in Seq(Nat) /\ Len(u) = n + 1 /\ u[n + 1] = 1
      /\ \A q \in 1..n : u[q] = bytes[q]
  BY <1>1, AppendProperties
<1> HIDE DEF u
<1>7. \A q \in 1..n + 1 : w[q] = u[q]
  <2> TAKE q \in 1..n + 1
  <2>1. CASE q = n + 1
    BY <1>5, <1>6, <2>1
  <2>2. CASE q # n + 1
    <3>1. q \in 1..n
      BY <2>2
    <3> QED BY <1>4, <1>5, <1>6, <2>2, <3>1
  <2> QED BY <2>1, <2>2
<1>8. w = u
  BY <1>5, <1>6, <1>7, SeqEqual
<1> QED BY <1>8 DEF w, u

(* What a block adds to the rest, seen from the data.                       *)
Carries(data, bytes, p, j, c, zero, rest) ==
  /\ j + (c - 1 + zero) <= Len(data)
  /\ \A k \in 1..c - 1 : bytes[p + k] = data[j + k]
  /\ zero = 1 => data[j + c] = 0
  /\ IsRestOf(rest, data, j + (c - 1 + zero))

LEMMA BlockInData ==
  ASSUME NEW data \in Seq(Nat), NEW bytes \in Seq(Nat), NEW d, NEW rest \in Seq(Nat),
         NEW p \in Nat, NEW j \in Nat, NEW c \in Nat, NEW zero \in Nat,
         c >= 1, zero \in {0, 1},
         IsRestOf(d, data, j), Added(d, bytes, p, c, zero, rest)
  PROVE  Carries(data, bytes, p, j, c, zero, rest)
<1>1. PICK n \in Nat, r \in Nat, z \in Nat : n = Len(data) /\ r = Len(rest) /\ z = c - 1 + zero
  <2>1. Len(data) \in Nat /\ Len(rest) \in Nat /\ c - 1 + zero \in Nat
    BY LenProperties
  <2> QED BY <2>1, Zenon
<1>2. j \in 0..n /\ Len(d) = n - j /\ \A k \in 1..n - j : d[k] = data[j + k]
  BY <1>1 DEF IsRestOf
<1>3. /\ Len(d) = z + r
      /\ \A k \in 1..c - 1 : d[k] = bytes[p + k]
      /\ zero = 1 => d[c] = 0
      /\ \A k \in 1..r : d[z + k] = rest[k]
  BY <1>1 DEF Added
<1>4. n - j = z + r
  BY <1>2, <1>3
<1>n. j + z <= n /\ j + z \in 0..n /\ r = n - (j + z)
  BY <1>2, <1>4
<1>5. c - 1 <= z /\ (zero = 1 => z = c)
  BY <1>1
<1>6. \A k \in 1..c - 1 : bytes[p + k] = data[j + k]
  <2> TAKE k \in 1..c - 1
  <2>1. k \in 1..n - j
    BY <1>4, <1>5
  <2> QED BY <1>2, <1>3, <2>1
<1>7. zero = 1 => data[j + c] = 0
  <2>1. zero = 1 => c \in 1..n - j
    BY <1>4, <1>5
  <2> QED BY <1>2, <1>3, <2>1
<1>8. \A k \in 1..n - (j + z) : rest[k] = data[(j + z) + k]
  <2> TAKE k \in 1..n - (j + z)
  <2>1. k \in 1..r /\ z + k \in 1..n - j /\ j + (z + k) = (j + z) + k
    BY <1>4, <1>n
  <2> QED BY <1>2, <1>3, <2>1
<1>9. IsRestOf(rest, data, j + z)
  BY <1>1, <1>n, <1>8 DEF IsRestOf
<1> QED BY <1>1, <1>n, <1>6, <1>7, <1>9 DEF Carries

(* The decoder and cobs_encode stand at the start of the same block: what   *)
(* is read from place p on are the data without the first j bytes, and      *)
(* cobs_encode, j bytes on, has written what the frame holds before p.      *)
Aligned(data, bytes, p, j) ==
  /\ IsRestOf(Rest(bytes)[p], data, j)
  /\ StandsIn(Walk(data)[j], bytes, p, 0)

SameFrame(data, bytes) == Stuffed(data) \in {bytes, Append(bytes, 1)}

(* A block later they do so again, or all is written.                       *)
LEMMA AlignedStep ==
  ASSUME NEW data \in Seq(Nat), NEW bytes \in Seq(Nat),
         \A k \in 1..Len(bytes) : bytes[k] # 0 /\ bytes[k] <= Block,
         NEW p \in 1..Len(bytes) + 1, NEW j \in Nat, Aligned(data, bytes, p, j)
  PROVE  \/ SameFrame(data, bytes)
         \/ \E q \in p + 1..Len(bytes) + 1, l \in Nat : Aligned(data, bytes, q, l)
<1> DEFINE R == Rest(bytes)
<1>0. PICK N \in Nat, n \in Nat, B \in Nat : N = Len(bytes) /\ n = Len(data) /\ B = Block /\ B > 1
  <2>1. Len(data) \in Nat /\ Len(bytes) \in Nat /\ Block \in Nat /\ Block > 1
    BY LenProperties, BlockAssumption
  <2> QED BY <2>1, Zenon
<1>1. IsRestOf(R[p], data, j) /\ StandsIn(Walk(data)[j], bytes, p, 0) /\ R[p] \in Seq(Nat)
  BY DEF Aligned, IsRestOf
<1>2. p \in 1..N + 1 /\ p \in Nat /\ p >= 1
  BY <1>0
<1>3. \A i \in 0..n : Writing(Walk(data)[i])
  BY <1>0, EncodedFar DEF EncodedUpTo
<1>4. Stuffed(data) = Written(Walk(data)[n])
  BY <1>0 DEF Stuffed
<1>5. R[N + 1] = <<>>
  BY <1>0, RestStep
<1> HIDE DEF R
<1>6. CASE p = N + 1
  <2>1. IsRestOf(<<>>, data, j)
    BY <1>1, <1>5, <1>6
  <2>2. j = n
    <3>1. Len(<<>>) = n - j /\ j \in 0..n
      BY <1>0, <2>1 DEF IsRestOf
    <3> QED BY <3>1
  <2>3. Writing(Walk(data)[n]) /\ StandsIn(Walk(data)[n], bytes, Len(bytes) + 1, 0)
    <3>1. n \in 0..n
      OBVIOUS
    <3> QED BY <1>0, <1>1, <1>3, <1>6, <2>2, <3>1
  <2> QED BY <1>4, <2>3, EmptyWritten DEF SameFrame
<1>7. CASE p # N + 1
  <2>1. p \in 1..Len(bytes)
    BY <1>0, <1>2, <1>7
  <2>2. PICK c \in Nat, zero \in Nat :
          /\ BlockAt(bytes, p, c, zero)
          /\ R[p + c] \in Seq(Nat)
          /\ Added(R[p], bytes, p, c, zero, R[p + c])
    <3>1. R[p] # Failure
      BY <1>1, FailureAssumption
    <3>2. \A k \in p + 1..Len(bytes) + 1 : R[k] \in Seq(Nat) \cup {Failure}
      <4>1. \A k \in p + 1..N + 1 : k \in 1..N + 1
        BY <1>2
      <4> QED BY <1>0, <4>1, RestType DEF R
    <3> QED BY <2>1, <3>1, <3>2, RestBlock DEF R
  <2>3. /\ bytes[p] = c /\ 1 <= c /\ c <= B /\ p + c - 1 <= N
        /\ zero \in {0, 1} /\ (zero = 1 <=> (c < B /\ p + c <= N))
    BY <1>0, <2>1, <2>2 DEF BlockAt
  <2>4. PICK after \in Nat : after = c - 1 + zero
    BY <2>3
  <2>5. /\ j + after <= n
        /\ \A k \in 1..c - 1 : bytes[p + k] = data[j + k]
        /\ zero = 1 => data[j + c] = 0
        /\ IsRestOf(R[p + c], data, j + after)
    <3>1. /\ j + (c - 1 + zero) <= Len(data)
          /\ \A k \in 1..c - 1 : bytes[p + k] = data[j + k]
          /\ zero = 1 => data[j + c] = 0
          /\ IsRestOf(R[p + c], data, j + (c - 1 + zero))
      <4>1. /\ c >= 1 /\ zero \in {0, 1}
            /\ IsRestOf(R[p], data, j) /\ Added(R[p], bytes, p, c, zero, R[p + c])
        BY <1>1, <2>2, <2>3
      <4>2. Carries(data, bytes, p, j, c, zero, R[p + c])
        BY <1>2, <2>2, <4>1, BlockInData
      <4> QED BY <4>2 DEF Carries
    <3> QED BY <1>0, <2>4, <3>1
  <2>6. \A k \in 1..c - 1 : bytes[p + k] # 0 /\ data[j + k] # 0
    <3>1. \A k \in 1..c - 1 : p + k \in 1..N
      BY <1>2, <2>3
    <3> QED BY <1>0, <2>5, <3>1
  <2>7. ASSUME NEW h \in Nat, h <= c - 1, h + 1 < B
        PROVE  StandsIn(Walk(data)[j + h], bytes, p, h)
    <3>1. j + h <= Len(data)
      BY <1>0, <2>3, <2>4, <2>5, <2>7
    <3>2. \A k \in 1..h : bytes[p + k] = data[j + k] /\ data[j + k] # 0
      <4>1. \A k \in 1..h : k \in 1..c - 1
        BY <2>7
      <4> QED BY <2>5, <2>6, <4>1
    <3>3. h + 1 < Block
      BY <1>0, <2>7
    <3> QED BY <1>1, <1>2, <3>1, <3>2, <3>3, StandsOn
  <2>8. CASE c = B
    <3>1. PICK h \in Nat, m \in Nat, i \in Nat : h = c - 2 /\ m = c - 1 /\ i = j + m
      <4>1. c - 2 \in Nat /\ c - 1 \in Nat /\ j + (c - 1) \in Nat
        BY <1>0, <2>8
      <4> QED BY <4>1, Zenon
    <3>2. i - 1 = j + h /\ m - 1 = h /\ m >= 1 /\ m + 1 = Block /\ i \in 1..Len(data) /\ after = m
      BY <1>0, <2>3, <2>4, <2>5, <2>8, <3>1
    <3>3. StandsIn(Walk(data)[i - 1], bytes, p, m - 1)
      <4>1. h <= c - 1 /\ h + 1 < B
        BY <2>8, <3>1
      <4> QED BY <2>7, <3>2, <4>1
    <3>4. bytes[p] = Block /\ data[i] # 0 /\ bytes[p + m] = data[i]
      <4>1. m \in 1..c - 1
        BY <3>1, <3>2
      <4> QED BY <1>0, <2>3, <2>5, <2>6, <2>8, <3>1, <4>1
    <3>5. StandsIn(Walk(data)[i], bytes, p + Block, 0)
      BY <1>2, <3>2, <3>3, <3>4, FullEndsBlock
    <3>6. Aligned(data, bytes, p + c, i)
      BY <1>0, <2>5, <2>8, <3>1, <3>2, <3>5 DEF Aligned, R
    <3>7. p + c \in p + 1..N + 1
      BY <1>2, <2>3
    <3> QED BY <1>0, <3>1, <3>6, <3>7
  <2>9. CASE c < B /\ p + c <= N
    <3>1. zero = 1 /\ after = c /\ data[j + c] = 0
      BY <2>3, <2>4, <2>5, <2>9
    <3>2. PICK h \in Nat, i \in Nat : h = c - 1 /\ i = j + c
      <4>1. c - 1 \in Nat /\ j + c \in Nat
        BY <2>3
      <4> QED BY <4>1, Zenon
    <3>3. i - 1 = j + h /\ i \in 1..Len(data)
      BY <1>0, <2>3, <2>5, <3>1, <3>2
    <3>4. StandsIn(Walk(data)[i - 1], bytes, p, c - 1)
      <4>1. h <= c - 1 /\ h + 1 < B
        BY <2>9, <3>2
      <4> QED BY <2>7, <3>2, <3>3, <4>1
    <3>5. StandsIn(Walk(data)[i], bytes, p + c, 0)
      <4>1. data[i] = 0 /\ p >= 1 /\ c >= 1 /\ bytes[p] = c
        BY <1>2, <2>3, <3>1, <3>2
      <4> QED BY <1>2, <3>3, <3>4, <4>1, ZeroEndsBlock
    <3>6. Aligned(data, bytes, p + c, i)
      BY <2>5, <3>1, <3>2, <3>5 DEF Aligned, R
    <3>7. p + c \in p + 1..N + 1
      BY <1>2, <2>3
    <3> QED BY <1>0, <3>6, <3>7
  <2>10. CASE c < B /\ p + c > N
    <3>1. p + c = N + 1 /\ after = c - 1
      BY <2>3, <2>4, <2>10
    <3>2. IsRestOf(<<>>, data, j + after)
      BY <1>5, <2>5, <3>1
    <3>3. j + (c - 1) = n
      <4>1. Len(<<>>) = n - (j + after) /\ j + after \in 0..n
        BY <1>0, <3>2 DEF IsRestOf
      <4> QED BY <3>1, <4>1
    <3>4. StandsIn(Walk(data)[n], bytes, p, c - 1)
      <4>1. c - 1 \in Nat /\ c - 1 <= c - 1 /\ (c - 1) + 1 < B
        BY <2>3, <2>10
      <4> QED BY <2>7, <3>3, <4>1
    <3>5. Writing(Walk(data)[n])
      <4>1. n \in 0..n
        OBVIOUS
      <4> QED BY <1>3, <4>1
    <3>6. Written(Walk(data)[n]) = bytes
      <4>1. Len(bytes) = p + c - 1
        BY <1>0, <3>1
      <4> QED BY <1>2, <2>3, <3>4, <3>5, <4>1, LastWritten
    <3> QED BY <1>4, <3>6 DEF SameFrame
  <2> QED BY <2>3, <2>8, <2>9, <2>10
<1> QED BY <1>6, <1>7

LEMMA AlignedToEnd ==
  ASSUME NEW data \in Seq(Nat), NEW bytes \in Seq(Nat),
         \A k \in 1..Len(bytes) : bytes[k] # 0 /\ bytes[k] <= Block,
         NEW p \in 1..Len(bytes) + 1, NEW j \in Nat, Aligned(data, bytes, p, j)
  PROVE  SameFrame(data, bytes)
<1>0. PICK N \in Nat : N = Len(bytes)
  BY LenProperties
<1> DEFINE Some(q) == \E l \in Nat : Aligned(data, bytes, q, l)
           Bad == {m \in 0..N : Some(N + 1 - m)}
<1>1. Some(p)
  OBVIOUS
<1>2. ASSUME NEW q \in 1..N + 1, Some(q)
      PROVE  SameFrame(data, bytes) \/ \E r \in q + 1..N + 1 : Some(r)
  BY <1>0, <1>2, AlignedStep
<1> HIDE DEF Some
<1>3. Bad # {}
  <2>1. N + 1 - p \in 0..N /\ N + 1 - (N + 1 - p) = p
    BY <1>0
  <2> QED BY <1>1, <2>1
<1>4. PICK m \in Bad : \A k \in Bad : ~(k < m)
  <2>1. Bad \subseteq Nat
    OBVIOUS
  <2> HIDE DEF Bad
  <2> QED BY <1>3, <2>1, LeastPlace
<1>5. m \in 0..N /\ Some(N + 1 - m) /\ N + 1 - m \in 1..N + 1
  <2>1. m \in 0..N /\ Some(N + 1 - m)
    OBVIOUS
  <2> QED BY <2>1
<1>6. ASSUME NEW r \in (N + 1 - m) + 1..N + 1, Some(r) PROVE FALSE
  <2>1. N + 1 - r \in 0..N /\ N + 1 - r < m /\ N + 1 - (N + 1 - r) = r
    BY <1>5
  <2> QED BY <1>4, <1>6, <2>1
<1> QED BY <1>2, <1>5, <1>6

(* A frame that is read as data is their stuffing, or its last, empty block *)
(* is missing.                                                              *)
LEMMA ReadOnlyStuffed ==
  ASSUME NEW bytes \in Seq(Nat),
         \A k \in 1..Len(bytes) : bytes[k] # 0 /\ bytes[k] <= Block,
         Rest(bytes)[1] # Failure
  PROVE  /\ Rest(bytes)[1] \in Seq(Nat)
         /\ Stuffed(Rest(bytes)[1]) \in {bytes, Append(bytes, 1)}
<1> DEFINE data == Rest(bytes)[1]
<1>1. Len(bytes) \in Nat /\ 1 \in 1..Len(bytes) + 1
  BY LenProperties
<1>2. data \in Seq(Nat)
  BY <1>1, RestType
<1>3. IsRestOf(data, data, 0)
  <2> HIDE DEF data
  <2>1. Len(data) \in Nat
    BY <1>2, LenProperties
  <2>2. 0 \in 0..Len(data) /\ Len(data) = Len(data) - 0 /\ \A k \in 1..Len(data) - 0 : 0 + k = k
    BY <2>1
  <2> QED BY <1>2, <2>2 DEF IsRestOf
<1>4. StandsIn(Walk(data)[0], bytes, 1, 0)
  <2> HIDE DEF data
  <2>1. Walk(data)[0] = Start
    BY <1>2, WalkStep
  <2>2. Start.out = <<0>> /\ Start.at = 1 /\ Start.code = 1 /\ Len(<<0>>) = 1
    BY DEF Start
  <2>3. StandsAt(Start, 1, 1, 1)
    BY <2>2 DEF StandsAt
  <2>4. 1 + 0 = 1 /\ 0 + 1 = 1 /\ \A q \in 1..1 : q = 1
    OBVIOUS
  <2> QED BY <2>1, <2>3, <2>4 DEF StandsIn
<1>5. Aligned(data, bytes, 1, 0)
  BY <1>3, <1>4 DEF Aligned
<1>6. SameFrame(data, bytes)
  BY <1>1, <1>2, <1>5, AlignedToEnd
<1> QED BY <1>2, <1>6 DEF SameFrame

-----------------------------------------------------------------------------
(* The theorems *)

LEMMA ByteFrames ==
  ASSUME NEW s \in Seq(0..Block)
  PROVE  /\ s \in Seq(Nat)
         /\ \A k \in 1..Len(s) : s[k] <= Block
<1>1. /\ Len(s) \in Nat /\ s \in [1..Len(s) -> 0..Block]
      /\ \A k \in 1..Len(s) : s[k] \in 0..Block
  BY LenProperties, ElementOfSeq
<1>2. 0..Block \subseteq Nat /\ \A b \in 0..Block : b <= Block
  BY BlockAssumption
<1>3. s \in [1..Len(s) -> Nat]
  BY <1>1, <1>2
<1>4. \A k \in 1..Len(s) : s[k] <= Block
  BY <1>1, <1>2
<1> QED BY <1>1, <1>3, <1>4

(* What cobs_encode wrote, cobs_decode reads back, for data of every length *)
(* and every content, and no 0 is among it that would end the frame.        *)
THEOREM StuffingReadsBack ==
  ASSUME NEW data \in Seq(Nat), NEW capacity \in Nat, NEW room \in Nat,
         Encode(data, capacity) # Failure, Len(data) <= room
  PROVE  /\ Decode(Encode(data, capacity), room) = data
         /\ \A k \in DOMAIN Encode(data, capacity) : Encode(data, capacity)[k] # 0
<1>1. Encode(data, capacity) = Stuffed(data)
  BY EncodeStuffed
<1>2. Rest(Stuffed(data))[1] = data /\ data # Failure
  BY StuffedReadBack, FailureAssumption
<1>3. Decode(Stuffed(data), room) = data
  BY <1>2 DEF Decode
<1> QED BY <1>1, <1>3, StuffedNoZero

(* cobs_encode fails exactly when the encoding does not fit, and the        *)
(* encoding is at most a byte longer than the data and one more for every   *)
(* full block.                                                              *)
THEOREM StuffingFits ==
  ASSUME NEW data \in Seq(Nat), NEW capacity \in Nat
  PROVE  \E length \in Nat :
           /\ length <= Len(data) + 1 + Len(data) \div (Block - 1)
           /\ Encode(data, capacity) # Failure <=> length <= capacity
           /\ length <= capacity => Len(Encode(data, capacity)) = length
<1>1. PICK length \in Nat : length = Len(Stuffed(data))
  BY StuffedReadBack, LenProperties
<1>2. length <= Len(data) + 1 + Len(data) \div (Block - 1)
  BY <1>1, StuffedLength
<1>3. Encode(data, capacity) = IF length <= capacity THEN Stuffed(data) ELSE Failure
  BY <1>1, EncodeStuffed
<1>4. Stuffed(data) # Failure
  BY StuffedReadBack, FailureAssumption
<1> QED BY <1>1, <1>2, <1>3, <1>4

(* cobs_decode takes no frame but an encoding, of which at most an empty    *)
(* last block is missing: no other two frames are read as the same data.    *)
THEOREM StuffingIsUnique ==
  ASSUME NEW encoded \in Seq(0..Block), \A k \in DOMAIN encoded : encoded[k] # 0,
         NEW room \in Nat, Decode(encoded, room) # Failure,
         NEW capacity \in Nat, Len(encoded) < capacity
  PROVE  Encode(Decode(encoded, room), capacity) \in {encoded, Append(encoded, 1)}
<1> DEFINE data == Rest(encoded)[1]
<1>1. Decode(encoded, room) = data /\ data # Failure
  BY DEF Decode
<1>2. /\ encoded \in Seq(Nat) /\ Len(encoded) \in Nat
      /\ \A k \in 1..Len(encoded) : encoded[k] # 0 /\ encoded[k] <= Block
  BY ByteFrames, LenProperties
<1>3. data \in Seq(Nat) /\ Stuffed(data) \in {encoded, Append(encoded, 1)}
  BY <1>1, <1>2, ReadOnlyStuffed
<1> HIDE DEF data
<1>4. Len(Stuffed(data)) <= capacity
  <2>1. Len(Append(encoded, 1)) = Len(encoded) + 1
    BY <1>2, AppendProperties
  <2>2. CASE Stuffed(data) = encoded
    BY <1>2, <2>2
  <2>3. CASE Stuffed(data) = Append(encoded, 1)
    BY <1>2, <2>1, <2>3
  <2> QED BY <1>3, <2>2, <2>3
<1>5. Encode(data, capacity) = Stuffed(data)
  BY <1>3, <1>4, EncodeStuffed
<1> QED BY <1>1, <1>3, <1>5

-----------------------------------------------------------------------------
(* The byte stuffing of the frames that MCFraming puts together *)

(* What is put into the byte stuffing.                                      *)
CodecInv == side = "codec" => frame \in Seq(0..Block) /\ Len(frame) <= MaxLength

LEMMA CodecFaithful ==
  ASSUME frame \in Seq(0..Block), Len(frame) <= MaxLength
  PROVE  RoundTrip /\ FitsOrFails
<1> DEFINE encoded == Stuffed(frame)
           data == Decode(frame, Enough)
<1>1. PICK n \in Nat : n = Len(frame) /\ n <= MaxLength
  BY LenProperties
<1>2. Enough \in Nat /\ Enough = 2 * MaxLength + 2 /\ MaxLength \in Nat
  BY LengthAssumption DEF Enough
<1>3. frame \in Seq(Nat)
  BY ByteFrames
<1>4. PICK length \in Nat, q \in Nat :
        /\ length = Len(encoded) /\ q = Len(frame) \div (Block - 1)
        /\ length <= n + 1 + q /\ q <= n
  <2>1. Len(encoded) \in Nat
    BY <1>3, StuffedReadBack, LenProperties
  <2>2. /\ Len(frame) \div (Block - 1) \in Nat
        /\ Len(frame) \div (Block - 1) <= n
        /\ Len(encoded) <= n + 1 + Len(frame) \div (Block - 1)
    BY <1>1, <1>3, StuffedLength
  <2> QED BY <2>1, <2>2, Zenon
<1>5. length <= Enough
  BY <1>1, <1>2, <1>4
<1>6. Encode(frame, Enough) = encoded /\ encoded # Failure
  BY <1>2, <1>3, <1>4, <1>5, EncodeStuffed, StuffedReadBack, FailureAssumption
<1>7. Decode(encoded, Len(frame)) = frame /\ \A i \in DOMAIN encoded : encoded[i] # 0
  <2>1. Decode(Encode(frame, Enough), n) = frame
    BY <1>1, <1>2, <1>3, <1>6, StuffingReadsBack
  <2>2. \A i \in DOMAIN encoded : encoded[i] # 0
    BY <1>3, StuffedNoZero
  <2> QED BY <1>1, <1>6, <2>1, <2>2
<1>8. ASSUME \A i \in DOMAIN frame : frame[i] # 0, data # Failure
      PROVE  Encode(data, Enough) \in {frame, Append(frame, 1)}
  <2>1. Len(frame) < Enough
    BY <1>1, <1>2
  <2> QED BY <1>2, <1>8, <2>1, StuffingIsUnique
<1>9. RoundTrip
  BY <1>6, <1>7, <1>8 DEF RoundTrip
<1>10. Len(encoded) <= Len(frame) + 1 + Len(frame) \div (Block - 1)
  BY <1>1, <1>4
<1>11. ASSUME NEW capacity \in 0..Enough
       PROVE  Encode(frame, capacity) = IF Len(encoded) <= capacity THEN encoded ELSE Failure
  <2>1. capacity \in Nat
    BY <1>2
  <2> QED BY <1>3, <2>1, EncodeStuffed
<1>12. FitsOrFails
  BY <1>6, <1>10, <1>11 DEF FitsOrFails
<1> QED BY <1>9, <1>12

(* The same for the frames of the run, of every length up to any bound: all *)
(* that StuffingFaithful says of cobs_encode and cobs_decode.               *)
THEOREM StuffingAlwaysFaithful == MCSpec => []StuffingFaithful
<1>1. MCInit => CodecInv
  <2> SUFFICES ASSUME MCInit, side = "codec"
               PROVE  frame \in Seq(0..Block) /\ Len(frame) <= MaxLength
    BY DEF CodecInv
  <2>1. frame = <<>>
    BY DEF MCInit, FramingInit, CodecInit, Init
  <2>2. <<>> \in Seq(0..Block) /\ Len(<<>>) = 0 /\ 0 <= MaxLength
    BY LengthAssumption
  <2> QED BY <2>1, <2>2
<1>2. CodecInv /\ [MCNext]_framingVars => CodecInv'
  <2> SUFFICES ASSUME CodecInv, [MCNext]_framingVars, side' = "codec"
               PROVE  frame' \in Seq(0..Block) /\ Len(frame') <= MaxLength
    BY DEF CodecInv
  <2>1. CASE FramingNext
    <3>1. side \in {"device", "host"} /\ side' = side
      BY <2>1 DEF FramingNext
    <3> QED BY <3>1
  <2>2. CASE AddInput
    <3>1. PICK byte \in 0..Block : frame' = Append(frame, byte)
      BY <2>2 DEF AddInput
    <3>2. frame \in Seq(0..Block) /\ Len(frame) < MaxLength /\ Len(frame) \in Nat
      BY <2>2, LenProperties DEF AddInput, CodecInv
    <3>3. frame' \in Seq(0..Block) /\ Len(frame') = Len(frame) + 1
      BY <3>1, <3>2, AppendProperties
    <3> QED BY <3>2, <3>3, LengthAssumption
  <2>3. CASE UNCHANGED framingVars
    BY <2>3 DEF framingVars, vars, CodecInv
  <2> QED BY <2>1, <2>2, <2>3 DEF MCNext
<1>3. CodecInv => StuffingFaithful
  BY CodecFaithful DEF CodecInv, StuffingFaithful
<1> QED BY <1>1, <1>2, <1>3, PTL DEF MCSpec

=============================================================================
