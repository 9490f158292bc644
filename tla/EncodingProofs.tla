-------------------------- MODULE EncodingProofs --------------------------
(***************************************************************************)
(* What holds of the two encodings for every value of the constants: of    *)
(* Framing, which puts packets into a stream of bytes, that the stream     *)
(* implements Channel; and of AddressSpace, which puts peers and services  *)
(* into addresses, that addresses lead back to what they were made from.   *)
(***************************************************************************)
EXTENDS Framing, AddressSpace, SequenceTheorems, WellFoundedInduction, TLAPS

-----------------------------------------------------------------------------
(* Framing: the bytes that are under way. *)

Digit == 0..(Base - 1)

\* A packet as sendPacket writes it.
Frame(b) == PutUint16(Len(b)) \o b

\* The bytes in ahead are what is left, after c bytes, of the frames of the
\* packets of ps from number k + 1 on; the frame of packet j begins at off[j].
Laid(off, ps, k, ahead, c) ==
    /\ off \in [(k + 1)..(Len(ps) + 1) -> Nat]
    /\ off[k + 1] = 0 /\ off[Len(ps) + 1] = c + Len(ahead)
    /\ \A i, j \in (k + 1)..(Len(ps) + 1) : i <= j => off[i] <= off[j]
    /\ \A j \in (k + 1)..Len(ps) :
         /\ off[j + 1] = off[j] + Len(Frame(ps[j]))
         /\ \A i \in 1..Len(Frame(ps[j])) :
              off[j] + i > c => ahead[off[j] + i - c] = Frame(ps[j])[i]

Carries(ps, k, ahead, c) == \E off : Laid(off, ps, k, ahead, c)

-----------------------------------------------------------------------------
(* Sequences. *)

LEMMA MinOfTwo ==
    ASSUME NEW a \in Nat, NEW b \in Nat
    PROVE  Min({a, b}) = IF a <= b THEN a ELSE b
BY DEF Min

LEMMA ConcatFacts ==
    ASSUME NEW S, NEW s \in Seq(S), NEW t \in Seq(S)
    PROVE  /\ s \o t \in Seq(S)
           /\ Len(s \o t) = Len(s) + Len(t)
           /\ \A i \in 1..Len(s) : (s \o t)[i] = s[i]
           /\ \A i \in 1..Len(t) : (s \o t)[Len(s) + i] = t[i]
OBVIOUS

LEMMA ConcatEnd ==
    ASSUME NEW S, NEW s \in Seq(S), NEW t \in Seq(S), NEW j \in 1..Len(t)
    PROVE  (s \o t)[Len(s) + j] = t[j]
OBVIOUS

\* What is left of a sequence that begins with s when m elements are taken.
LEMMA RestFacts ==
    ASSUME NEW S, NEW s \in Seq(S), NEW m \in 0..Len(s)
    PROVE  /\ SubSeq(s, m + 1, Len(s)) \in Seq(S)
           /\ Len(SubSeq(s, m + 1, Len(s))) = Len(s) - m
           /\ \A i \in 1..(Len(s) - m) : SubSeq(s, m + 1, Len(s))[i] = s[m + i]
           /\ SubSeq(s, 1, m) \in Seq(S)
           /\ Len(SubSeq(s, 1, m)) = m
           /\ \A i \in 1..m : SubSeq(s, 1, m)[i] = s[i]
OBVIOUS

LEMMA Closed ==
    ASSUME NEW x \in Nat, NEW y \in Nat, NEW z \in Nat
    PROVE  x + y * z \in Nat
OBVIOUS

\* u is what follows the first m elements of s.
Shifted(u, s, m, d) ==
    Len(s) = m + d /\ Len(u) = d /\ \A i \in 1..d : u[i] = s[m + i]

LEMMA ShiftedConcat ==
    ASSUME NEW S, NEW s \in Seq(S), NEW t \in Seq(S), NEW u \in Seq(S),
           NEW m \in Nat, NEW d \in Nat, NEW k \in Nat, k = Len(t), Shifted(u, s, m, d)
    PROVE  Shifted(u \o t, s \o t, m, d + k)
<1>0. \A i \in 1..d : u[i] = s[m + i]
  BY DEF Shifted
<1>1. Len(s) = m + d /\ Len(u) = d /\ Len(t) = k
  BY DEF Shifted
<1>2. Len(u \o t) = d + k /\ Len(s \o t) = m + (d + k)
  <2>1. Len(u \o t) = Len(u) + Len(t) /\ Len(s \o t) = Len(s) + Len(t)
    BY ConcatFacts, Zenon
  <2>2. QED
    BY <1>1, <2>1
<1>3. ASSUME NEW i \in 1..(d + k)
      PROVE  (u \o t)[i] = (s \o t)[m + i]
  <2>1. CASE i <= d
    BY <1>0, <1>1, <2>1
  <2>2. CASE i > d
    <3>1. PICK l \in 1..Len(t) : l = i - d
      BY <2>2
    <3>2. (u \o t)[Len(u) + l] = t[l] /\ (s \o t)[Len(s) + l] = t[l]
      BY ConcatEnd, Zenon
    <3>3. Len(u) + l = i /\ Len(s) + l = m + i
      BY <1>1, <3>1
    <3>4. QED
      BY <3>2, <3>3, Zenon
  <2>3. i <= d \/ i > d
    OBVIOUS
  <2>4. QED
    BY <2>1, <2>2, <2>3, Zenon
<1>4. QED
  BY <1>2, <1>3, Zenon DEF Shifted

LEMMA HeaderRead ==
    ASSUME NEW n \in 1..MTU
    PROVE  (n % Base) + Base * ((n \div Base) % Base) = n
BY FramingAssumption

LEMMA FrameFacts ==
    ASSUME NEW b \in Bodies
    PROVE  /\ b \in Seq(Digit) /\ Len(b) \in 1..MTU /\ Frame(b) \in Seq(Digit)
           /\ Len(Frame(b)) = Len(b) + 2
           /\ Frame(b)[1] = Len(b) % Base /\ Frame(b)[2] = (Len(b) \div Base) % Base
           /\ \A i \in 1..Len(b) : Frame(b)[i + 2] = b[i]
BY FramingAssumption DEF Frame, PutUint16, Digit

LEMMA FrameLength ==
    ASSUME NEW b \in Bodies
    PROVE  Len(Frame(b)) \in Nat
BY FrameFacts

\* An index within a string of length a that begins at c.
LEMMA Within ==
    ASSUME NEW o \in Nat, NEW i \in Nat, NEW c \in Nat, NEW a \in Nat, o + i - c \in 1..a
    PROVE  o + i <= c + a
OBVIOUS

-----------------------------------------------------------------------------
(* Frames that are on their way. *)

\* A packet that is sent is put behind the others.
LEMMA CarriesMore ==
    ASSUME NEW ps \in Seq(Bodies), NEW k \in Nat, NEW ahead \in Seq(Digit), NEW c \in Nat,
           k <= Len(ps), Carries(ps, k, ahead, c), NEW b \in Bodies
    PROVE  Carries(Append(ps, b), k, ahead \o Frame(b), c)
<1>1. PICK off : Laid(off, ps, k, ahead, c)
  BY DEF Carries
<1>2. PICK n \in Nat, a \in Nat, f \in Nat :
        n = Len(ps) /\ a = Len(ahead) /\ f = Len(Frame(b))
  BY FrameFacts
<1>n. k <= n
  BY <1>2
<1> DEFINE qs == Append(ps, b)
           more == ahead \o Frame(b)
           on == [j \in (k + 1)..(n + 2) |-> IF j <= n + 1 THEN off[j] ELSE c + a + f]
<1>3. /\ qs \in Seq(Bodies) /\ Len(qs) = n + 1 /\ qs[n + 1] = b
      /\ \A j \in 1..n : qs[j] = ps[j]
  BY <1>2
<1>4. /\ Len(more) = a + f /\ \A i \in 1..a : more[i] = ahead[i]
      /\ \A i \in 1..f : more[a + i] = Frame(b)[i]
  BY <1>2, FrameFacts, ConcatFacts
<1> HIDE DEF qs, more
<1>5. /\ off \in [(k + 1)..(n + 1) -> Nat] /\ off[k + 1] = 0 /\ off[n + 1] = c + a
      /\ \A i, j \in (k + 1)..(n + 1) : i <= j => off[i] <= off[j]
      /\ \A j \in (k + 1)..n :
           /\ off[j + 1] = off[j] + Len(Frame(ps[j]))
           /\ \A i \in 1..Len(Frame(ps[j])) :
                off[j] + i > c => ahead[off[j] + i - c] = Frame(ps[j])[i]
  BY <1>1, <1>2, Zenon DEF Laid
<1>6. /\ on \in [(k + 1)..(n + 2) -> Nat] /\ on[n + 2] = c + a + f
      /\ \A j \in (k + 1)..(n + 1) : on[j] = off[j]
  BY <1>n, <1>5
<1> HIDE DEF on
<1>7. \A i, j \in (k + 1)..(n + 2) : i <= j => on[i] <= on[j]
  <2> SUFFICES ASSUME NEW i \in (k + 1)..(n + 2), NEW j \in (k + 1)..(n + 2), i <= j
               PROVE  on[i] <= on[j]
    OBVIOUS
  <2>1. n + 1 \in (k + 1)..(n + 1)
    BY <1>n
  <2>2. CASE j <= n + 1
    BY <1>n, <1>5, <1>6, <2>2, SMTT(30)
  <2>3. CASE j = n + 2 /\ i <= n + 1
    BY <1>n, <1>5, <1>6, <2>1, <2>3, SMTT(30)
  <2>4. CASE j = n + 2 /\ i = n + 2
    BY <1>6, <2>4
  <2>5. QED
    BY <1>n, <2>2, <2>3, <2>4
<1>8. ASSUME NEW j \in (k + 1)..(n + 1)
      PROVE  /\ on[j + 1] = on[j] + Len(Frame(qs[j]))
             /\ \A i \in 1..Len(Frame(qs[j])) :
                  on[j] + i > c => more[on[j] + i - c] = Frame(qs[j])[i]
  <2>1. CASE j = n + 1
    <3>1. on[j] = c + a /\ on[j + 1] = c + a + f /\ qs[j] = b
      BY <1>n, <1>3, <1>5, <1>6, <2>1
    <3>2. ASSUME NEW i \in 1..f
          PROVE  more[c + a + i - c] = Frame(b)[i]
      <4>1. c + a + i - c = a + i
        OBVIOUS
      <4>2. QED
        BY <1>4, <4>1, ZenonT(30)
    <3>3. QED
      BY <1>2, <3>1, <3>2
  <2>2. CASE j \in (k + 1)..n
    <3>0. ps[j] \in Bodies
      BY <1>2, <2>2
    <3>1. on[j] = off[j] /\ on[j + 1] = off[j + 1] /\ qs[j] = ps[j] /\ ps[j] \in Bodies
      <4>1. j \in (k + 1)..(n + 1) /\ j + 1 \in (k + 1)..(n + 1) /\ j \in 1..n
        BY <1>n, <2>2
      <4>2. QED
        BY <1>3, <1>6, <3>0, <4>1, Zenon
    <3>2. PICK g \in Nat : g = Len(Frame(ps[j]))
      BY <3>0, FrameLength, Zenon
    <3>3. ASSUME NEW i \in 1..g, off[j] + i > c
          PROVE  more[off[j] + i - c] = Frame(ps[j])[i]
      <4>1. PICK o \in Nat : o = off[j] /\ o + g <= c + a
        <5>1. /\ j \in (k + 1)..(n + 1) /\ j + 1 \in (k + 1)..(n + 1)
              /\ n + 1 \in (k + 1)..(n + 1) /\ j + 1 <= n + 1
          BY <1>n, <2>2
        <5>2. off[j] \in Nat /\ off[j + 1] <= off[n + 1] /\ off[n + 1] = c + a
          BY <1>5, <5>1, Zenon
        <5>3. off[j + 1] = off[j] + g
          BY <1>5, <2>2, <3>2, Zenon
        <5>4. off[j] + g <= c + a
          BY <5>2, <5>3, Zenon
        <5>5. QED
          BY <5>2, <5>4, Zenon
      <4>2. o + i - c \in 1..a
        <5>1. o + i > c
          BY <3>3, <4>1
        <5>2. i \in Nat /\ i >= 1 /\ i <= g
          OBVIOUS
        <5>3. o + i <= c + a
          BY <4>1, <5>2, SMTT(30)
        <5>4. QED
          BY <5>1, <5>2, <5>3
      <4>3. ahead[off[j] + i - c] = Frame(ps[j])[i]
        BY <1>5, <2>2, <3>2, <3>3, ZenonT(30)
      <4>4. QED
        BY <1>4, <4>1, <4>2, <4>3, ZenonT(30)
    <3>4. QED
      BY <1>5, <2>2, <3>1, <3>2, <3>3
  <2>3. j = n + 1 \/ j \in (k + 1)..n
    BY <1>n
  <2>4. QED
    BY <2>1, <2>2, <2>3, Zenon
<1>9. Laid(on, qs, k, more, c)
  <2>0. k + 1 \in (k + 1)..(n + 1)
    BY <1>n
  <2>1. on[k + 1] = 0
    BY <1>5, <1>6, <2>0, Zenon
  <2>2. Len(qs) + 1 = n + 2 /\ c + Len(more) = c + a + f
    BY <1>2, <1>3, <1>4
  <2>3. QED
    BY <1>3, <1>6, <1>7, <1>8, <2>1, <2>2, ZenonT(30) DEF Laid
<1>10. QED
  BY <1>9 DEF Carries, qs, more

\* The frame of packet j takes f bytes from o on, and those after c are in ahead.
Place(off, ps, j, ahead, a, c, o, f) ==
    /\ ps[j] \in Bodies /\ f = Len(Frame(ps[j])) /\ off[j] = o /\ off[j + 1] = o + f
    /\ o + f <= c + a
    /\ \A i \in 1..f : o + i > c => /\ o + i - c \in 1..a
                                   /\ ahead[o + i - c] = Frame(ps[j])[i]

LEMMA FramePlace ==
    ASSUME NEW ps \in Seq(Bodies), NEW n \in Nat, n = Len(ps), NEW k \in Nat, k <= n,
           NEW ahead \in Seq(Digit), NEW a \in Nat, a = Len(ahead), NEW c \in Nat,
           NEW off, Laid(off, ps, k, ahead, c), NEW j \in (k + 1)..n
    PROVE  \E o \in Nat, f \in Nat : Place(off, ps, j, ahead, a, c, o, f)
<1>1. ps[j] \in Bodies
  OBVIOUS
<1>2. PICK f \in Nat : f = Len(Frame(ps[j]))
  BY <1>1, FrameLength, Zenon
<1>3. /\ off \in [(k + 1)..(n + 1) -> Nat] /\ off[n + 1] = c + a
      /\ \A i, l \in (k + 1)..(n + 1) : i <= l => off[i] <= off[l]
      /\ off[j + 1] = off[j] + f
      /\ \A i \in 1..f : off[j] + i > c => ahead[off[j] + i - c] = Frame(ps[j])[i]
  BY <1>2, Zenon DEF Laid
<1>4. PICK o \in Nat : o = off[j] /\ o + f <= c + a
  <2>1. j \in (k + 1)..(n + 1) /\ j + 1 \in (k + 1)..(n + 1) /\ n + 1 \in (k + 1)..(n + 1)
        /\ j + 1 <= n + 1
    BY SMTT(30)
  <2>2. off[j] \in Nat /\ off[j + 1] <= off[n + 1]
    BY <1>3, <2>1, ZenonT(30)
  <2>3. QED
    BY <1>3, <2>2
<1>5. ASSUME NEW i \in 1..f, o + i > c
      PROVE  o + i - c \in 1..a
  <2>1. i \in Nat /\ i <= f
    OBVIOUS
  <2>2. o + i <= c + a
    BY <1>4, <2>1, SMTT(30)
  <2>3. QED
    BY <1>5, <2>1, <2>2
<1>6. QED
  BY <1>1, <1>2, <1>3, <1>4, <1>5, ZenonT(30) DEF Place

\* m more bytes are read.
LEMMA CarriesRead ==
    ASSUME NEW ps \in Seq(Bodies), NEW k \in Nat, k <= Len(ps), NEW c \in Nat,
           NEW ahead \in Seq(Digit), NEW rest \in Seq(Digit), NEW m \in Nat, NEW r \in Nat,
           Shifted(rest, ahead, m, r), Carries(ps, k, ahead, c)
    PROVE  Carries(ps, k, rest, c + m)
<1>1. PICK off : Laid(off, ps, k, ahead, c)
  BY DEF Carries
<1>2. PICK n \in Nat, a \in Nat : n = Len(ps) /\ a = Len(ahead)
  OBVIOUS
<1>r. Len(rest) = r /\ Len(ahead) = m + r /\ \A i \in 1..r : rest[i] = ahead[m + i]
  BY DEF Shifted
<1>3. k <= n /\ a = m + r
  BY <1>2, <1>r
<1>4. ASSUME NEW j \in (k + 1)..n
      PROVE  \A i \in 1..Len(Frame(ps[j])) :
               off[j] + i > c + m => rest[off[j] + i - (c + m)] = Frame(ps[j])[i]
  <2>0. PICK o \in Nat, f \in Nat : Place(off, ps, j, ahead, a, c, o, f)
    BY <1>1, <1>2, <1>3, FramePlace, Zenon
  <2>1. /\ f = Len(Frame(ps[j])) /\ off[j] = o
        /\ \A i \in 1..f : o + i > c => /\ o + i - c \in 1..a
                                       /\ ahead[o + i - c] = Frame(ps[j])[i]
    BY <2>0, ZenonT(30) DEF Place
  <2>2. ASSUME NEW i \in 1..f, o + i > c + m
        PROVE  rest[o + i - (c + m)] = Frame(ps[j])[i]
    <3>1. o + i > c /\ i \in Nat
      BY <2>2
    <3>2. o + i - c \in 1..a /\ ahead[o + i - c] = Frame(ps[j])[i]
      BY <2>1, <3>1, ZenonT(30)
    <3>a. o + i <= c + a
      BY <3>1, <3>2, Within, Zenon
    <3>b. o + i - (c + m) \in 1..r
      BY <1>3, <2>2, <3>1, <3>a
    <3>3. PICK l \in 1..r : l = o + i - (c + m)
      BY <3>b, Zenon
    <3>4. o + i - c = m + l
      BY <3>1, <3>3
    <3>5. QED
      BY <1>r, <3>2, <3>3, <3>4, ZenonT(30)
  <2>3. QED
    BY <2>1, <2>2, ZenonT(30)
<1>5. c + m + Len(rest) = c + Len(ahead)
  BY <1>r
<1>6. Laid(off, ps, k, rest, c + m)
  BY <1>1, <1>2, <1>4, <1>5, Zenon DEF Laid
<1>7. QED
  BY <1>6 DEF Carries

\* A frame is read to its end.
LEMMA CarriesNext ==
    ASSUME NEW ps \in Seq(Bodies), NEW k \in Nat, k < Len(ps),
           NEW ahead \in Seq(Digit), NEW c \in Nat, c = Len(Frame(ps[k + 1])),
           Carries(ps, k, ahead, c)
    PROVE  Carries(ps, k + 1, ahead, 0)
<1>1. PICK off : Laid(off, ps, k, ahead, c)
  BY DEF Carries
<1>2. PICK n \in Nat, a \in Nat : n = Len(ps) /\ a = Len(ahead)
  OBVIOUS
<1>3. k < n
  BY <1>2
<1> DEFINE on == [j \in (k + 2)..(n + 1) |-> off[j] - c]
<1>4. /\ off \in [(k + 1)..(n + 1) -> Nat] /\ off[k + 1] = 0 /\ off[n + 1] = c + a
      /\ \A i, j \in (k + 1)..(n + 1) : i <= j => off[i] <= off[j]
      /\ \A j \in (k + 1)..n : off[j + 1] = off[j] + Len(Frame(ps[j]))
  BY <1>1, <1>2, Zenon DEF Laid
<1>5. off[k + 2] = c
  <2>1. k + 1 \in (k + 1)..n /\ (k + 1) + 1 = k + 2
    BY <1>3
  <2>2. off[(k + 1) + 1] = off[k + 1] + Len(Frame(ps[k + 1]))
    BY <1>4, <2>1, Zenon
  <2>3. QED
    BY <1>4, <2>1, <2>2
<1>6. \A j \in (k + 2)..(n + 1) : on[j] = off[j] - c /\ off[j] >= c /\ off[j] \in Nat
  <2> SUFFICES ASSUME NEW j \in (k + 2)..(n + 1)
               PROVE  off[j] >= c /\ off[j] \in Nat
    OBVIOUS
  <2>1. j \in (k + 1)..(n + 1) /\ k + 2 \in (k + 1)..(n + 1) /\ k + 2 <= j
    BY <1>3
  <2>2. QED
    BY <1>4, <1>5, <2>1, ZenonT(30)
<1>7. on \in [(k + 2)..(n + 1) -> Nat]
  BY <1>6
<1> HIDE DEF on
<1>8. \A i, j \in (k + 2)..(n + 1) : i <= j => on[i] <= on[j]
  <2> SUFFICES ASSUME NEW i \in (k + 2)..(n + 1), NEW j \in (k + 2)..(n + 1), i <= j
               PROVE  on[i] <= on[j]
    OBVIOUS
  <2>1. i \in (k + 1)..(n + 1) /\ j \in (k + 1)..(n + 1)
    BY <1>3
  <2>2. off[i] <= off[j]
    BY <1>4, <2>1
  <2>3. QED
    BY <1>6, <2>2
<1>9. ASSUME NEW j \in (k + 2)..n
      PROVE  /\ on[j + 1] = on[j] + Len(Frame(ps[j]))
             /\ \A i \in 1..Len(Frame(ps[j])) : ahead[on[j] + i - 0] = Frame(ps[j])[i]
  <2>1. j \in (k + 1)..n /\ j \in (k + 2)..(n + 1) /\ j + 1 \in (k + 2)..(n + 1)
    BY <1>3
  <2>a. k <= n
    BY <1>3
  <2>b. PICK o \in Nat, f \in Nat : Place(off, ps, j, ahead, a, c, o, f)
    BY <1>1, <1>2, <2>a, <2>1, FramePlace, Zenon
  <2>2. /\ f = Len(Frame(ps[j])) /\ off[j] = o /\ off[j + 1] = o + f
        /\ \A i \in 1..f : o + i > c => /\ o + i - c \in 1..a
                                       /\ ahead[o + i - c] = Frame(ps[j])[i]
    BY <2>b, ZenonT(30) DEF Place
  <2>3. o >= c /\ on[j] = o - c /\ on[j + 1] = o + f - c
    <3>1. on[j] = off[j] - c /\ off[j] >= c /\ on[j + 1] = off[j + 1] - c
      BY <1>6, <2>1, Zenon
    <3>2. QED
      BY <2>2, <3>1
  <2>4. ASSUME NEW i \in 1..f
        PROVE  ahead[(o - c) + i - 0] = Frame(ps[j])[i]
    <3>1. o + i > c /\ (o - c) + i - 0 = o + i - c
      BY <2>3
    <3>2. QED
      BY <2>2, <3>1
  <2>5. QED
    BY <2>2, <2>3, <2>4
<1>10. Laid(on, ps, k + 1, ahead, 0)
  <2>1. (k + 1) + 1 = k + 2 /\ on[k + 2] = 0
    BY <1>3, <1>5, <1>6
  <2>2. on[n + 1] = 0 + a
    <3>1. n + 1 \in (k + 2)..(n + 1)
      BY <1>3
    <3>2. on[n + 1] = off[n + 1] - c
      BY <1>6, <3>1, Zenon
    <3>3. QED
      BY <1>4, <3>2
  <2>3. QED
    BY <1>2, <1>7, <1>8, <1>9, <2>1, <2>2, Zenon DEF Laid
<1>11. QED
  BY <1>10 DEF Carries

\* What lies ahead begins with the rest of the frame that is being read.
LEMMA CarriesFirst ==
    ASSUME NEW ps \in Seq(Bodies), NEW k \in Nat, k <= Len(ps),
           NEW ahead \in Seq(Digit), NEW c \in Nat, c + Len(ahead) > 0,
           Carries(ps, k, ahead, c)
    PROVE  /\ k < Len(ps) /\ ps[k + 1] \in Bodies
           /\ Len(Frame(ps[k + 1])) <= c + Len(ahead)
           /\ \A i \in 1..Len(Frame(ps[k + 1])) : i > c => ahead[i - c] = Frame(ps[k + 1])[i]
<1>1. PICK off : Laid(off, ps, k, ahead, c)
  BY DEF Carries
<1>2. PICK n \in Nat, a \in Nat : n = Len(ps) /\ a = Len(ahead)
  OBVIOUS
<1>3. k <= n /\ c + a > 0
  BY <1>2
<1>4. off[k + 1] = 0 /\ off[n + 1] = c + a
  BY <1>1, <1>2, Zenon DEF Laid
<1>5. k < n
  BY <1>3, <1>4
<1>6. k + 1 \in (k + 1)..n
  BY <1>5
<1>a. PICK o \in Nat, f \in Nat : Place(off, ps, k + 1, ahead, a, c, o, f)
  BY <1>1, <1>2, <1>3, <1>6, FramePlace, Zenon
<1>7. /\ ps[k + 1] \in Bodies /\ f = Len(Frame(ps[k + 1])) /\ off[k + 1] = o
      /\ o + f <= c + a
      /\ \A i \in 1..f : o + i > c => ahead[o + i - c] = Frame(ps[k + 1])[i]
  BY <1>a DEF Place
<1>8. \A i \in 1..f : i > c => ahead[i - c] = Frame(ps[k + 1])[i]
  <2>1. o = 0
    BY <1>4, <1>7, ZenonT(30)
  <2>2. ASSUME NEW i \in 1..f, i > c
        PROVE  ahead[i - c] = Frame(ps[k + 1])[i]
    <3>1. o + i = i
      BY <2>1
    <3>2. o + i > c => ahead[o + i - c] = Frame(ps[k + 1])[i]
      BY <1>7, Zenon
    <3>3. QED
      BY <2>2, <3>1, <3>2
  <2>3. QED
    BY <2>2
<1>9. f <= c + a
  BY <1>7
<1>10. QED
  BY <1>2, <1>5, <1>7, <1>8, <1>9, Zenon

-----------------------------------------------------------------------------
(* The inductive invariant. *)

\* The bytes written or about to be, and how many of the current frame are read.
Ahead == wire \o unwritten
Taken == IF at = "body" THEN 2 + Len(packet) ELSE 0

Typed ==
    /\ sent \in Seq(Bodies) /\ delivered \in Seq(Seq(Digit))
    /\ unwritten \in Seq(Digit) /\ wire \in Seq(Digit) /\ packet \in Seq(Digit)
    /\ packetSize \in Seq(Digit) /\ Len(packetSize) = 2 /\ size \in Nat
    /\ at \in {"size", "body", "stopped", "panic"} /\ split \in BOOLEAN

\* The packet that is being read is the next one to be delivered.
Current ==
    /\ Len(delivered) < Len(sent)
    /\ size = Len(sent[Len(delivered) + 1]) /\ Len(packet) < size
    /\ \A i \in 1..Len(packet) : packet[i] = sent[Len(delivered) + 1][i]

\* The reader is in step with the writer.
InStep ==
    /\ at \in {"size", "body"} /\ Len(delivered) <= Len(sent)
    /\ at = "body" => Current
    /\ Carries(sent, Len(delivered), Ahead, Taken)

FInv ==
    /\ Typed
    /\ ~split => inStep = delivered
    /\ ~split /\ at # "stopped" => InStep

LEMMA FramingInit == Init => FInv
<1> SUFFICES ASSUME Init PROVE FInv
  OBVIOUS
<1>1. Typed
  <2>1. << >> \in Seq(Bodies) /\ << >> \in Seq(Digit) /\ << >> \in Seq(Seq(Digit))
    OBVIOUS
  <2>2. 0 \in Digit
    BY FramingAssumption DEF Digit
  <2>3. <<0, 0>> \in Seq(Digit) /\ Len(<<0, 0>>) = 2
    BY <2>2
  <2>4. QED
    BY <2>1, <2>3, ZenonT(30) DEF Init, Typed
<1>2. Len(sent) = 0 /\ Len(delivered) = 0 /\ Ahead \in Seq(Digit) /\ Len(Ahead) = 0 /\ Taken = 0
  BY DEF Init, Ahead, Taken
<1>3. Laid([j \in {1} |-> 0], sent, 0, Ahead, 0)
  <2>1. 1..0 = {} /\ 1..1 = {1} /\ 0 + 1 = 1 /\ 0 + 0 = 0
    OBVIOUS
  <2>2. QED
    BY <1>2, <2>1 DEF Laid
<1>4. Carries(sent, 0, Ahead, 0)
  BY <1>3 DEF Carries
<1>5. InStep
  BY <1>2, <1>4 DEF Init, InStep
<1>6. QED
  BY <1>1, <1>5 DEF Init, FInv

-----------------------------------------------------------------------------
(* The steps. *)

LEMMA HeaderFacts ==
    ASSUME NEW n \in Nat
    PROVE  /\ PutUint16(n) \in Seq(Digit) /\ Len(PutUint16(n)) = 2
           /\ PutUint16(n)[1] = n % Base /\ PutUint16(n)[2] = (n \div Base) % Base
BY FramingAssumption DEF PutUint16, Digit

LEMMA CountsTyped ==
    ASSUME Typed
    PROVE  Len(delivered) \in Nat /\ Len(sent) \in Nat /\ Len(packet) \in Nat /\ Taken \in Nat
<1>1. Len(delivered) \in Nat /\ Len(sent) \in Nat /\ Len(packet) \in Nat
  BY DEF Typed
<1>2. QED
  BY <1>1 DEF Taken

LEMMA WriteLenStep ==
    ASSUME FInv, NEW b \in Bodies, WriteLen(b)
    PROVE  FInv'
<1> DEFINE h == PutUint16(Len(b))
<1>1. /\ b \in Seq(Digit) /\ h \in Seq(Digit) /\ h \o b \in Seq(Digit) /\ h \o b = Frame(b)
  <2>1. b \in Seq(Digit) /\ Len(b) \in Nat
    BY FrameFacts
  <2>2. h \in Seq(Digit)
    BY <2>1, HeaderFacts, Zenon
  <2>3. QED
    BY <2>1, <2>2, ConcatFacts, Zenon DEF Frame
<1> HIDE DEF h
<1>2. sent \in Seq(Bodies) /\ wire \in Seq(Digit) /\ Typed
  BY DEF FInv, Typed
<1>3. /\ unwritten = << >> /\ at # "stopped" /\ sent' = Append(sent, b) /\ unwritten' = b
      /\ wire' = wire \o h
      /\ UNCHANGED <<packetSize, size, packet, at, delivered, split, inStep>>
  BY DEF WriteLen, history, h
<1>4. Typed'
  <2>1. sent' \in Seq(Bodies) /\ wire' \in Seq(Digit)
    BY <1>1, <1>2, <1>3, ConcatFacts
  <2>2. QED
    BY <1>1, <1>2, <1>3, <2>1 DEF Typed
<1>5. ASSUME ~split
      PROVE  InStep'
  <2>1. InStep
    BY <1>3, <1>5 DEF FInv
  <2>2. Ahead = wire
    BY <1>2, <1>3, ConcatEmptySeq DEF Ahead
  <2>3. Ahead' = wire \o Frame(b)
    <3>1. (wire \o h) \o b = wire \o (h \o b)
      <4>1. wire \in Seq(Digit) /\ h \in Seq(Digit) /\ b \in Seq(Digit)
        BY <1>1, <1>2
      <4>2. QED
        BY <4>1, ConcatAssociative, SMTT(30)
    <3>2. QED
      BY <1>1, <1>3, <3>1, Zenon DEF Ahead
  <2>4. PICK k \in Nat, c \in Nat : k = Len(delivered) /\ c = Taken
    BY <1>2, CountsTyped
  <2>5. k <= Len(sent) /\ Carries(sent, k, wire, c)
    BY <2>1, <2>2, <2>4 DEF InStep
  <2>6. Carries(sent', k, Ahead', c)
    BY <1>2, <1>3, <2>3, <2>5, CarriesMore
  <2>7. Taken' = c /\ delivered' = delivered /\ Len(delivered)' = k
    BY <1>3, <2>4 DEF Taken
  <2>8. Len(sent') = Len(sent) + 1 /\ \A j \in 1..Len(sent) : sent'[j] = sent[j]
    BY <1>2, <1>3
  <2>9. Current => Current'
    <3> SUFFICES ASSUME Current PROVE Current'
      OBVIOUS
    <3>1. PICK n \in Nat : n = Len(sent) /\ k < n
      BY <1>2, <2>4 DEF Current
    <3>2. sent'[k + 1] = sent[k + 1] /\ Len(sent') = n + 1
      BY <2>8, <3>1
    <3>3. QED
      BY <1>3, <2>4, <3>1, <3>2 DEF Current
  <2>10. Len(delivered') <= Len(sent')
    BY <2>4, <2>5, <2>7, <2>8
  <2>11. QED
    BY <1>3, <2>1, <2>4, <2>6, <2>7, <2>9, <2>10, ZenonT(30) DEF InStep
<1>6. QED
  BY <1>3, <1>4, <1>5 DEF FInv

LEMMA WriteBodyStep ==
    ASSUME FInv, WriteBody
    PROVE  FInv'
<1>1. Typed
  BY DEF FInv
<1>2. /\ wire' = Ahead /\ unwritten' = << >>
      /\ UNCHANGED <<sent, packetSize, size, packet, at, delivered, split, inStep>>
  BY DEF WriteBody, history, Ahead
<1>3. Ahead \in Seq(Digit)
  BY <1>1, ConcatFacts DEF Typed, Ahead
<1>4. Ahead' = Ahead
  BY <1>2, <1>3, ConcatEmptySeq DEF Ahead
<1>5. Typed'
  BY <1>1, <1>2, <1>3 DEF Typed
<1>6. InStep => InStep'
  BY <1>2, <1>4 DEF InStep, Current, Taken
<1>7. QED
  BY <1>2, <1>5, <1>6 DEF FInv

LEMMA ReadFailsStep ==
    ASSUME FInv, ReadFails
    PROVE  FInv'
BY DEF FInv, ReadFails, Typed, history

\* What a read of n bytes leaves in the two-byte buffer.
LEMMA SizeRead ==
    ASSUME Typed, NEW n \in 1..2, n <= Len(wire), NEW q,
           q = SubSeq(wire, 1, n) \o SubSeq(packetSize, n + 1, 2)
    PROVE  /\ q \in Seq(Digit) /\ Len(q) = 2 /\ Uint16(q) \in Nat
           /\ n = 2 => q[1] = wire[1] /\ q[2] = wire[2]
<1>1. wire \in Seq(Digit) /\ packetSize \in Seq(Digit) /\ Len(packetSize) = 2
  BY DEF Typed
<1>2. PICK u \in Seq(Digit) :
        u = SubSeq(wire, 1, n) /\ Len(u) = n /\ \A i \in 1..n : u[i] = wire[i]
  <2>1. n \in 0..Len(wire)
    BY <1>1
  <2>2. /\ SubSeq(wire, 1, n) \in Seq(Digit) /\ Len(SubSeq(wire, 1, n)) = n
        /\ \A i \in 1..n : SubSeq(wire, 1, n)[i] = wire[i]
    BY <1>1, <2>1, RestFacts, ZenonT(30)
  <2>3. QED
    BY <2>2, Zenon
<1>3. PICK v \in Seq(Digit) : v = SubSeq(packetSize, n + 1, 2) /\ Len(v) = 2 - n
  <2>1. n \in 0..Len(packetSize)
    BY <1>1
  <2>2. SubSeq(packetSize, n + 1, Len(packetSize)) \in Seq(Digit)
        /\ Len(SubSeq(packetSize, n + 1, Len(packetSize))) = Len(packetSize) - n
    BY <1>1, <2>1, RestFacts, ZenonT(30)
  <2>3. QED
    BY <1>1, <2>2, ZenonT(30)
<1>4. q \in Seq(Digit) /\ Len(q) = Len(u) + Len(v) /\ \A i \in 1..Len(u) : q[i] = u[i]
  BY <1>2, <1>3, ConcatFacts, ZenonT(30)
<1>5. Len(q) = 2 /\ (n = 2 => q[1] = wire[1] /\ q[2] = wire[2])
  <2>1. Len(q) = 2
    BY <1>1, <1>2, <1>3, <1>4
  <2>2. ASSUME n = 2 PROVE q[1] = wire[1] /\ q[2] = wire[2]
    <3>1. 1 \in 1..Len(u) /\ 2 \in 1..Len(u) /\ 1 \in 1..n /\ 2 \in 1..n
      BY <1>2, <2>2
    <3>2. QED
      BY <1>2, <1>4, <3>1, Zenon
  <2>3. QED
    BY <2>1, <2>2
<1>6. q[1] \in Nat /\ q[2] \in Nat /\ Base \in Nat
  BY <1>4, <1>5, FramingAssumption DEF Digit
<1>8. Uint16(q) \in Nat
  BY <1>6, Closed, Zenon DEF Uint16
<1>9. QED
  BY <1>4, <1>5, <1>8, Zenon

\* m bytes are taken from s, which t follows.
LEMMA TakenFrom ==
    ASSUME NEW S, NEW s \in Seq(S), NEW t \in Seq(S), NEW m \in 0..Len(s)
    PROVE  \E u \in Seq(S), r \in Nat :
             /\ u = SubSeq(s, m + 1, Len(s)) /\ u \o t \in Seq(S) /\ s \o t \in Seq(S)
             /\ Shifted(u \o t, s \o t, m, r)
             /\ \A i \in 1..m : (s \o t)[i] = s[i]
<1>1. PICK u : u = SubSeq(s, m + 1, Len(s))
  BY ZenonT(30)
<1>2. u \in Seq(S) /\ Len(u) = Len(s) - m /\ \A i \in 1..(Len(s) - m) : u[i] = s[m + i]
  BY <1>1, RestFacts, ZenonT(30)
<1>3. m \in Nat /\ Len(s) - m \in Nat /\ Len(s) = m + (Len(s) - m) /\ Len(t) \in Nat
  OBVIOUS
<1>4. PICK d \in Nat, k \in Nat : d = Len(s) - m /\ k = Len(t)
  BY <1>3, Zenon
<1>5. Shifted(u, s, m, d)
  BY <1>2, <1>3, <1>4, Zenon DEF Shifted
<1>6. Shifted(u \o t, s \o t, m, d + k)
  BY <1>2, <1>3, <1>4, <1>5, ShiftedConcat, Zenon
<1>7. d + k \in Nat /\ \A i \in 1..m : i \in 1..Len(s)
  OBVIOUS
<1>8. u \o t \in Seq(S) /\ s \o t \in Seq(S) /\ \A i \in 1..Len(s) : (s \o t)[i] = s[i]
  BY <1>2, ConcatFacts, ZenonT(30)
<1>9. \A i \in 1..m : (s \o t)[i] = s[i]
  BY <1>7, <1>8, Zenon
<1>10. u \in Seq(S) /\ d + k \in Nat
  BY <1>2, <1>7, Zenon
<1>11. QED
  BY <1>1, <1>6, <1>8, <1>9, <1>10, Zenon

\* The two bytes of a length.
LEMMA ReadSizeStep ==
    ASSUME FInv, NEW n \in 1..MTU, ReadSize(n)
    PROVE  FInv' /\ (~split' => delivered' = delivered)
<1>1. Typed /\ wire \in Seq(Digit) /\ unwritten \in Seq(Digit) /\ Len(wire) \in Nat
  BY DEF FInv, Typed
<1>2. n \in 1..2 /\ n <= Len(wire)
  <2>1. n <= Min({Len(wire), 2}) /\ n \in Nat /\ n >= 1
    BY FramingAssumption DEF ReadSize
  <2>2. Min({Len(wire), 2}) = IF Len(wire) <= 2 THEN Len(wire) ELSE 2
    BY <1>1, MinOfTwo, Zenon
  <2>3. QED
    BY <1>1, <2>1, <2>2
<1>3. /\ packetSize' \in Seq(Digit) /\ Len(packetSize') = 2 /\ Uint16(packetSize') \in Nat
      /\ n = 2 => packetSize'[1] = wire[1] /\ packetSize'[2] = wire[2]
  <2>1. packetSize' = SubSeq(wire, 1, n) \o SubSeq(packetSize, n + 1, 2)
    BY DEF ReadSize
  <2>2. QED
    BY <1>1, <1>2, <2>1, SizeRead, ZenonT(30)
<1>4. PICK u \in Seq(Digit), r \in Nat :
        /\ u = SubSeq(wire, n + 1, Len(wire))
        /\ u \o unwritten \in Seq(Digit) /\ wire \o unwritten \in Seq(Digit)
        /\ Shifted(u \o unwritten, wire \o unwritten, n, r)
        /\ \A i \in 1..n : (wire \o unwritten)[i] = wire[i]
  <2>1. n \in 0..Len(wire)
    BY <1>1, <1>2
  <2>2. QED
    BY <1>1, <2>1, TakenFrom, Zenon
<1>5. /\ at = "size" /\ wire' = u /\ size' = Uint16(packetSize') /\ packet' = << >>
      /\ at' = IF size' = 0 THEN "size" ELSE IF size' > MTU THEN "panic" ELSE "body"
      /\ delivered' = IF size' = 0 THEN Append(delivered, << >>) ELSE delivered
      /\ split' = (split \/ n = 1)
      /\ inStep' = IF split' THEN inStep ELSE delivered'
      /\ UNCHANGED <<sent, unwritten>>
  BY <1>4, Zenon DEF ReadSize
<1>6. Typed'
  <2>1. /\ sent' \in Seq(Bodies) /\ unwritten' \in Seq(Digit) /\ wire' \in Seq(Digit)
        /\ packetSize' \in Seq(Digit) /\ Len(packetSize') = 2 /\ size' \in Nat
    BY <1>1, <1>3, <1>4, <1>5, ZenonT(30) DEF Typed
  <2>2. packet' \in Seq(Digit) /\ << >> \in Seq(Digit)
    BY <1>5
  <2>3. delivered \in Seq(Seq(Digit))
    BY <1>1 DEF Typed
  <2>4. delivered' \in Seq(Seq(Digit))
    <3>1. Append(delivered, << >>) \in Seq(Seq(Digit))
      BY <2>2, <2>3
    <3>2. QED
      BY <1>5, <2>3, <3>1, Zenon
  <2>5. at' \in {"size", "body", "stopped", "panic"}
    BY <1>5, Zenon
  <2>6. split' \in BOOLEAN
    BY <1>5, Zenon
  <2>7. QED
    BY <2>1, <2>2, <2>4, <2>5, <2>6, ZenonT(30) DEF Typed
<1>7. ASSUME ~split'
      PROVE  InStep' /\ inStep' = delivered' /\ delivered' = delivered
  <2>1. ~split /\ n = 2 /\ InStep /\ Taken = 0
    <3>1. ~split /\ n # 1
      BY <1>5, <1>7, ZenonT(30)
    <3>2. InStep
      BY <1>5, <3>1 DEF FInv
    <3>3. QED
      BY <1>2, <1>5, <3>1, <3>2 DEF Taken
  <2>2. PICK k \in Nat : k = Len(delivered)
    BY <1>1, CountsTyped
  <2>3. PICK ahead \in Seq(Digit), rest \in Seq(Digit) :
          /\ ahead = Ahead /\ rest = Ahead' /\ Shifted(rest, ahead, 2, r)
          /\ ahead[1] = wire[1] /\ ahead[2] = wire[2]
    <3>1. Ahead = wire \o unwritten /\ Ahead' = u \o unwritten
      BY <1>5 DEF Ahead
    <3>2. 1 \in 1..2 /\ 2 \in 1..2
      OBVIOUS
    <3>3. QED
      BY <1>4, <2>1, <3>1, <3>2, Zenon
  <2>4. k <= Len(sent) /\ Carries(sent, k, ahead, 0) /\ sent \in Seq(Bodies)
    BY <1>1, <2>1, <2>2, <2>3, ZenonT(30) DEF InStep, Typed
  <2>5. Len(ahead) > 0 /\ 0 + Len(ahead) > 0
    BY <2>3 DEF Shifted
  <2>6. /\ k < Len(sent) /\ sent[k + 1] \in Bodies
        /\ \A i \in 1..Len(Frame(sent[k + 1])) : i > 0 => ahead[i - 0] = Frame(sent[k + 1])[i]
    BY <2>4, <2>5, CarriesFirst
  <2>7. PICK b \in Bodies : b = sent[k + 1]
    BY <2>6
  <2>8. /\ Len(b) \in 1..MTU /\ Len(Frame(b)) = Len(b) + 2
        /\ Frame(b)[1] = Len(b) % Base /\ Frame(b)[2] = (Len(b) \div Base) % Base
    BY FrameFacts, ZenonT(30)
  <2>9. wire[1] = Frame(b)[1] /\ wire[2] = Frame(b)[2]
    <3>1. 1 \in 1..Len(Frame(b)) /\ 2 \in 1..Len(Frame(b)) /\ 1 > 0 /\ 2 > 0 /\ 1 - 0 = 1 /\ 2 - 0 = 2
      BY <2>8
    <3>2. ahead[1] = Frame(b)[1] /\ ahead[2] = Frame(b)[2]
      BY <2>6, <2>7, <3>1
    <3>3. QED
      BY <2>3, <3>2
  <2>10. size' = Len(b)
    <3>1. size' = (Len(b) % Base) + Base * ((Len(b) \div Base) % Base)
      BY <1>3, <1>5, <2>1, <2>8, <2>9, ZenonT(30) DEF Uint16
    <3>2. QED
      BY <2>8, <3>1, HeaderRead, ZenonT(30)
  <2>11. /\ at' = "body" /\ delivered' = delivered /\ inStep' = delivered'
         /\ size' > 0
    BY <1>5, <1>7, <2>8, <2>10, FramingAssumption, SMTT(30)
  <2>12. Len(packet') = 0 /\ Taken' = 2
    BY <1>5, <2>11 DEF Taken
  <2>13. Carries(sent, k, rest, 0 + 2)
    <3>1. 0 \in Nat /\ 2 \in Nat
      OBVIOUS
    <3>2. QED
      BY <2>3, <2>4, <3>1, CarriesRead, ZenonT(30)
  <2>14. Current'
    <3>1. Len(delivered)' = k /\ sent' = sent
      BY <1>5, <2>2, <2>11
    <3>2. Len(packet)' < size' /\ 1..Len(packet)' = {}
      BY <2>11, <2>12
    <3>3. QED
      BY <2>6, <2>7, <2>10, <3>1, <3>2, ZenonT(30) DEF Current
  <2>15. QED
    <3>1. Carries(sent', Len(delivered'), Ahead', Taken')
      BY <1>5, <2>2, <2>3, <2>11, <2>12, <2>13, SMTT(30)
    <3>2. Len(delivered') <= Len(sent')
      BY <1>5, <2>2, <2>4, <2>11, ZenonT(30)
    <3>3. QED
      BY <2>11, <2>14, <3>1, <3>2, ZenonT(30) DEF InStep
<1>8. QED
  BY <1>6, <1>7, Zenon DEF FInv

\* The next packet is delivered.
Delivers ==
    Len(delivered) < Len(sent) /\ delivered' = Append(delivered, sent[Len(delivered) + 1])

\* Bytes of a packet.
LEMMA ReadBodyStep ==
    ASSUME FInv, NEW n \in 1..MTU, ReadBody(n)
    PROVE  FInv' /\ (~split' => delivered' = delivered \/ Delivers)
<1>1. /\ Typed /\ wire \in Seq(Digit) /\ unwritten \in Seq(Digit) /\ packet \in Seq(Digit)
      /\ Len(wire) \in Nat /\ n \in Nat /\ n >= 1
  BY FramingAssumption DEF FInv, Typed
<1>2. PICK p \in Nat : p = Len(packet)
  BY <1>1
<1>3. n <= Len(wire) /\ n <= size - p
  <2>1. n <= Min({Len(wire), size - p})
    BY <1>2 DEF ReadBody
  <2>2. size \in Nat
    BY <1>1 DEF Typed
  <2>5. PICK m : m = Min({Len(wire), size - p})
    OBVIOUS
  <2>6. m \in {Len(wire), size - p} /\ m <= Len(wire) /\ m <= size - p
    BY <1>1, <2>2, <2>5 DEF Min
  <2>7. QED
    BY <1>1, <2>1, <2>2, <2>5, <2>6
<1>4. PICK u \in Seq(Digit), r \in Nat :
        /\ u = SubSeq(wire, n + 1, Len(wire))
        /\ u \o unwritten \in Seq(Digit) /\ wire \o unwritten \in Seq(Digit)
        /\ Shifted(u \o unwritten, wire \o unwritten, n, r)
        /\ \A i \in 1..n : (wire \o unwritten)[i] = wire[i]
  <2>1. n \in 0..Len(wire)
    BY <1>1, <1>3
  <2>2. QED
    BY <1>1, <2>1, TakenFrom, Zenon
<1>5. PICK v \in Seq(Digit) :
        v = SubSeq(wire, 1, n) /\ Len(v) = n /\ \A i \in 1..n : v[i] = wire[i]
  <2>1. n \in 0..Len(wire)
    BY <1>1, <1>3
  <2>2. /\ SubSeq(wire, 1, n) \in Seq(Digit) /\ Len(SubSeq(wire, 1, n)) = n
        /\ \A i \in 1..n : SubSeq(wire, 1, n)[i] = wire[i]
    BY <1>1, <2>1, RestFacts, ZenonT(30)
  <2>3. QED
    BY <2>2, Zenon
<1>6. /\ at = "body" /\ wire' = u /\ packet' = packet \o v
      /\ IF Len(packet') < size
           THEN UNCHANGED <<at, delivered>>
           ELSE at' = "size" /\ delivered' = Append(delivered, packet')
      /\ inStep' = IF split THEN inStep ELSE delivered'
      /\ UNCHANGED <<sent, unwritten, packetSize, size, split>>
  BY <1>4, <1>5, Zenon DEF ReadBody
<1>7. /\ packet' \in Seq(Digit) /\ Len(packet') = p + n
      /\ \A i \in 1..p : packet'[i] = packet[i]
      /\ \A i \in 1..n : packet'[p + i] = wire[i]
  <2>1. /\ packet' \in Seq(Digit) /\ Len(packet') = p + n
        /\ \A i \in 1..p : packet'[i] = packet[i]
        /\ \A i \in 1..n : packet'[p + i] = v[i]
    BY <1>1, <1>2, <1>5, <1>6, ConcatFacts
  <2>2. QED
    BY <1>5, <2>1, ZenonT(30)
<1>8. Typed'
  <2>1. delivered' \in Seq(Seq(Digit)) /\ at' \in {"size", "body", "stopped", "panic"}
    <3>1. delivered \in Seq(Seq(Digit))
      BY <1>1 DEF Typed
    <3>2. Append(delivered, packet') \in Seq(Seq(Digit))
      BY <1>7, <3>1
    <3>3. QED
      BY <1>6, <3>1, <3>2, Zenon
  <2>2. QED
    BY <1>1, <1>4, <1>6, <1>7, <2>1, Zenon DEF Typed
<1>9. ASSUME ~split'
      PROVE  InStep' /\ inStep' = delivered' /\ (delivered' = delivered \/ Delivers)
  <2>1. ~split /\ InStep /\ Current /\ Taken = 2 + p
    <3>1. ~split
      BY <1>6, <1>9
    <3>2. InStep
      BY <1>6, <3>1 DEF FInv
    <3>3. QED
      BY <1>2, <1>6, <3>1, <3>2, ZenonT(30) DEF Taken, InStep
  <2>2. PICK k \in Nat : k = Len(delivered)
    BY <1>1, CountsTyped
  <2>3. PICK ahead \in Seq(Digit), rest \in Seq(Digit) :
          /\ ahead = Ahead /\ rest = Ahead' /\ Shifted(rest, ahead, n, r)
          /\ \A i \in 1..n : ahead[i] = wire[i]
    <3>1. Ahead = wire \o unwritten /\ Ahead' = u \o unwritten
      BY <1>6, ZenonT(30) DEF Ahead
    <3>2. QED
      BY <1>4, <3>1, Zenon
  <2>4. k <= Len(sent) /\ Carries(sent, k, ahead, 2 + p) /\ sent \in Seq(Bodies)
    BY <1>1, <2>1, <2>2, <2>3, ZenonT(30) DEF InStep, Typed
  <2>5. 2 + p \in Nat /\ (2 + p) + Len(ahead) > 0
    OBVIOUS
  <2>6. /\ k < Len(sent) /\ sent[k + 1] \in Bodies
        /\ \A i \in 1..Len(Frame(sent[k + 1])) :
             i > 2 + p => ahead[i - (2 + p)] = Frame(sent[k + 1])[i]
    BY <2>4, <2>5, CarriesFirst, ZenonT(30)
  <2>7. PICK b \in Bodies : b = sent[k + 1]
    BY <2>6
  <2>8. /\ b \in Seq(Digit) /\ Len(b) \in Nat /\ Len(Frame(b)) = Len(b) + 2
        /\ \A i \in 1..Len(b) : Frame(b)[i + 2] = b[i]
    BY FrameFacts
  <2>9. /\ size = Len(b) /\ p < size /\ p + n <= size
        /\ \A i \in 1..p : packet[i] = b[i]
    <3>1. size = Len(b) /\ p < size /\ \A i \in 1..p : packet[i] = b[i]
      BY <1>2, <2>1, <2>2, <2>7, ZenonT(30) DEF Current
    <3>2. n <= size - p
      BY <1>3, <3>1, ZenonT(30)
    <3>3. p + n <= size
      BY <1>1, <2>8, <3>1, <3>2
    <3>4. QED
      BY <3>1, <3>3
  <2>10. ASSUME NEW i \in 1..n
         PROVE  wire[i] = b[p + i]
    <3>1. /\ p + i \in 1..Len(b) /\ (p + i) + 2 \in 1..Len(Frame(b)) /\ (p + i) + 2 > 2 + p
          /\ ((p + i) + 2) - (2 + p) = i
      <4>1. PICK l \in Nat : l = Len(b) /\ p + n <= l /\ Len(Frame(b)) = l + 2
        BY <2>8, <2>9
      <4>2. p + i \in 1..l /\ (p + i) + 2 \in 1..(l + 2)
        BY <1>1, <4>1, SMTT(30)
      <4>3. QED
        BY <4>1, <4>2
    <3>2. ahead[((p + i) + 2) - (2 + p)] = Frame(b)[(p + i) + 2]
      BY <2>6, <2>7, <3>1, Zenon
    <3>3. Frame(b)[(p + i) + 2] = b[p + i]
      BY <2>8, <3>1, ZenonT(30)
    <3>4. QED
      BY <2>3, <3>1, <3>2, <3>3, ZenonT(30)
  <2>11. \A i \in 1..(p + n) : packet'[i] = b[i]
    <3> SUFFICES ASSUME NEW i \in 1..(p + n) PROVE packet'[i] = b[i]
      OBVIOUS
    <3>1. CASE i <= p
      BY <1>7, <2>9, <3>1, SMTT(30)
    <3>2. CASE i > p
      <4>1. PICK j \in 1..n : i = p + j
        <5>1. i - p \in 1..n /\ i = p + (i - p)
          BY <1>1, <3>2
        <5>2. QED
          BY <5>1
      <4>2. packet'[p + j] = b[p + j]
        BY <1>7, <2>10, Zenon
      <4>3. QED
        BY <4>1, <4>2
    <3>3. QED
      BY <3>1, <3>2
  <2>12. Carries(sent, k, rest, (2 + p) + n)
    BY <1>1, <2>3, <2>4, <2>5, CarriesRead, ZenonT(30)
  <2>13. CASE p + n < size
    <3>1. at' = "body" /\ delivered' = delivered /\ inStep' = delivered'
      BY <1>6, <1>7, <2>1, <2>13, ZenonT(30)
    <3>2. Taken' = (2 + p) + n
      BY <1>1, <1>7, <3>1, SMTT(30) DEF Taken
    <3>3. Current'
      BY <1>6, <1>7, <2>2, <2>6, <2>7, <2>9, <2>11, <2>13, <3>1, ZenonT(30) DEF Current
    <3>4. QED
      BY <1>6, <2>2, <2>3, <2>4, <2>12, <3>1, <3>2, <3>3, ZenonT(30) DEF InStep
  <2>14. CASE p + n = size
    <3>1. packet' = b
      <4>1. Len(packet') = Len(b) /\ packet' \in Seq(Digit) /\ b \in Seq(Digit)
        BY <1>7, <2>8, <2>9, <2>14, ZenonT(30)
      <4>2. \A i \in 1..Len(packet') : packet'[i] = b[i]
        BY <1>7, <2>11, ZenonT(30)
      <4>3. QED
        BY <4>1, <4>2, SeqEqual, Zenon
    <3>2. /\ at' = "size" /\ delivered' = Append(delivered, b) /\ inStep' = delivered'
          /\ delivered \in Seq(Seq(Digit))
      BY <1>1, <1>6, <1>7, <2>1, <2>14, <3>1, SMTT(30) DEF Typed
    <3>3. Len(delivered') = k + 1 /\ Taken' = 0
      BY <2>2, <2>8, <3>2 DEF Taken
    <3>4. (2 + p) + n = Len(Frame(b)) /\ (2 + p) + n \in Nat
      <4>1. p + n = Len(b) /\ Len(Frame(b)) = Len(b) + 2
        BY <2>8, <2>9, <2>14, ZenonT(30)
      <4>2. (2 + p) + n = (p + n) + 2 /\ (2 + p) + n \in Nat
        BY <1>1
      <4>3. QED
        BY <4>1, <4>2, Zenon
    <3>5. Carries(sent, k + 1, rest, 0)
      <4>1. PICK c \in Nat : c = (2 + p) + n
        BY <3>4
      <4>2. c = Len(Frame(sent[k + 1])) /\ Carries(sent, k, rest, c)
        BY <2>7, <2>12, <3>4, <4>1, ZenonT(30)
      <4>3. sent \in Seq(Bodies) /\ k < Len(sent)
        BY <2>4, <2>6, Zenon
      <4>4. QED
        BY <4>2, <4>3, CarriesNext, ZenonT(30)
    <3>6. k + 1 <= Len(sent)
      <4>1. k < Len(sent) /\ Len(sent) \in Nat
        BY <1>1, <2>6, CountsTyped, Zenon
      <4>2. QED
        BY <4>1
    <3>7. Delivers
      BY <2>2, <2>6, <2>7, <3>2, ZenonT(30) DEF Delivers
    <3>8. QED
      BY <1>6, <2>3, <3>2, <3>3, <3>5, <3>6, <3>7, ZenonT(30) DEF InStep
  <2>15. p + n < size \/ p + n = size
    BY <1>1, <2>8, <2>9, SMTT(30)
  <2>16. QED
    BY <2>13, <2>14, <2>15, ZenonT(30)
<1>10. QED
  BY <1>8, <1>9, Zenon DEF FInv

\* Every step keeps the invariant.
LEMMA FramingStep == FInv /\ [Next]_vars => FInv'
<1> SUFFICES ASSUME FInv, [Next]_vars PROVE FInv'
  OBVIOUS
<1>1. CASE \E b \in Bodies : WriteLen(b)
  BY <1>1, WriteLenStep
<1>2. CASE WriteBody
  BY <1>2, WriteBodyStep
<1>3. CASE \E n \in 1..MTU : ReadSize(n)
  BY <1>3, ReadSizeStep
<1>4. CASE \E n \in 1..MTU : ReadBody(n)
  BY <1>4, ReadBodyStep, ZenonT(30)
<1>5. CASE ReadFails
  BY <1>5, ReadFailsStep
<1>6. CASE UNCHANGED vars
  BY <1>6 DEF vars, history, FInv, Typed, InStep, Current, Ahead, Taken
<1>7. QED
  BY <1>1, <1>2, <1>3, <1>4, <1>5, <1>6, SMTT(30) DEF Next, Read

\* The inductive invariant holds: while lengths arrive whole, the bytes that are
\* under way, behind those the handler has consumed, are the rest of the frames of
\* the packets it has not delivered, and it is in step with their boundaries.
THEOREM FramingInvariant == Spec => []FInv
BY FramingInit, FramingStep, PTL DEF Spec

-----------------------------------------------------------------------------
(* The channel. *)

\* The handler never slices past its buffer while lengths arrive whole.
THEOREM NeverPanics == Spec => [](split \/ at # "panic")
<1>1. FInv => (split \/ at # "panic")
  BY DEF FInv, InStep
<1>2. QED
  BY <1>1, FramingInvariant, PTL

\* The initial states are initial states of the channel.
LEMMA ChannelInit == Init => Stream!Init
BY DEF Init, Stream!Init

\* Every step is a step of the channel, or leaves it as it is.
LEMMA ChannelStep == FInv /\ FInv' /\ [Next]_vars => [Stream!Next]_(Stream!vars)
<1> SUFFICES ASSUME FInv, FInv', [Next]_vars PROVE [Stream!Next]_(Stream!vars)
  OBVIOUS
<1>1. ASSUME NEW b \in Bodies, WriteLen(b)
      PROVE  Stream!Next
  BY <1>1 DEF WriteLen, history, Stream!Next, Stream!Send
<1>2. CASE WriteBody
  BY <1>2 DEF WriteBody, history, Stream!vars
<1>3. CASE ReadFails
  <2>1. CASE split
    BY <1>3, <2>1 DEF ReadFails, history, Stream!vars
  <2>2. CASE ~split
    BY <1>3, <2>2 DEF ReadFails, history, Stream!Next, Stream!Break
  <2>3. QED
    BY <2>1, <2>2
<1>4. CASE UNCHANGED vars
  BY <1>4 DEF vars, history, Stream!vars
<1>5. ASSUME NEW n \in 1..MTU, ReadSize(n)
      PROVE  [Stream!Next]_(Stream!vars)
  <2>1. /\ at = "size" /\ sent' = sent /\ split' = (split \/ n = 1)
        /\ inStep' = IF split' THEN inStep ELSE delivered'
        /\ at' # "stopped"
    BY <1>5, Zenon DEF ReadSize
  <2>2. CASE split
    <3>1. split' /\ inStep' = inStep
      BY <2>1, <2>2, Zenon
    <3>2. QED
      BY <2>1, <2>2, <3>1 DEF Stream!vars
  <2>3. CASE ~split /\ split'
    <3>1. inStep' = inStep
      BY <2>1, <2>3, Zenon
    <3>2. QED
      BY <2>1, <2>3, <3>1 DEF Stream!Next, Stream!Break
  <2>4. CASE ~split'
    <3>1. ~split
      BY <2>1, <2>4, Zenon
    <3>2. delivered' = delivered
      BY <1>5, <2>4, ReadSizeStep
    <3>3. inStep = delivered
      BY <3>1 DEF FInv
    <3>4. QED
      BY <2>1, <2>4, <3>1, <3>2, <3>3 DEF Stream!vars
  <2>5. QED
    BY <2>2, <2>3, <2>4, Zenon
<1>6. ASSUME NEW n \in 1..MTU, ReadBody(n)
      PROVE  [Stream!Next]_(Stream!vars)
  <2>1. /\ at = "body" /\ at' # "stopped" /\ sent' = sent /\ split' = split
        /\ inStep' = IF split THEN inStep ELSE delivered'
    BY <1>6, Zenon DEF ReadBody
  <2>2. CASE split \/ inStep' = inStep
    BY <2>1, <2>2 DEF Stream!vars
  <2>3. CASE ~split /\ inStep' # inStep
    <3>1. inStep = delivered /\ inStep' = delivered'
      BY <2>1, <2>3 DEF FInv
    <3>2. Delivers
      BY <1>6, <2>1, <2>3, <3>1, ReadBodyStep
    <3>3. QED
      BY <2>1, <3>1, <3>2 DEF Delivers, Stream!Next, Stream!Deliver
  <2>4. QED
    BY <2>2, <2>3, Zenon
<1>7. QED
  BY <1>1, <1>2, <1>3, <1>4, <1>5, <1>6, ZenonT(30) DEF Next, Read

\* The two byte counts of sendPacket and the read loops of the stream handler
\* implement Channel: however reads cut the stream, and whatever the packets and
\* the size of the buffer, the packets come out whole and in the order they went
\* in, unless a length arrived in two parts.
THEOREM FramingImplementsChannel == Spec => ImplementsChannel

BY ChannelInit, ChannelStep, FramingInvariant, PTL DEF Spec, ImplementsChannel, Stream!Spec
-----------------------------------------------------------------------------
(* AddressSpace: what the loops of config/idhash.go compute, by induction over *)
(* the bytes they read.                                                        *)

\* A set of numbers that is not empty has a least one.
LEMMA LeastNumber ==
    ASSUME NEW T \in SUBSET Nat, T # {}
    PROVE  \E n \in T : \A m \in T : n <= m
<1>1. \E n \in T : \A m \in T : ~ (<<m, n>> \in OpToRel(<, Nat))
  BY NatLessThanWellFounded, WFMin, Zenon
<1>2. \A m, n \in T : <<m, n>> \in OpToRel(<, Nat) <=> m < n
  BY DEF OpToRel
<1>3. \E n \in T : \A m \in T : ~ (m < n)
  BY <1>1, <1>2, Zenon
<1>4. QED
  BY <1>3

\* A set with 0 that has the successors of its numbers has all numbers.
LEMMA SetInduction ==
    ASSUME NEW S, 0 \in S, \A n \in Nat : n \in S => n + 1 \in S
    PROVE  Nat \subseteq S
<1> SUFFICES ASSUME Nat \ S # {} PROVE FALSE
  OBVIOUS
<1>1. PICK n \in Nat \ S : \A m \in Nat \ S : n <= m
  BY LeastNumber, Zenon
<1>2. n # 0 /\ n - 1 \in Nat /\ n - 1 \in S
  BY <1>1
<1>3. QED
  BY <1>1, <1>2


\* A string of n bytes.
Bytes(n) == {s \in Seq(Byte) : Len(s) = n}

\* A bit of an exclusive or is worth nothing, or its weight.
LEMMA XorBitValue ==
    ASSUME NEW a \in Byte, NEW b \in Byte, NEW w \in {1, 2, 4, 8, 16, 32, 64, 128}
    PROVE  XorBit(a, b, w) \in {0, w}
<1>0. a \div w \in Nat /\ b \div w \in Nat
  <2>1. a \in Nat /\ b \in Nat /\ w \in Nat /\ w > 0
    BY DEF Byte
  <2>2. QED
    BY <2>1
<1>1. PICK x \in Nat : x = a \div w + b \div w
  BY <1>0
<1>2. x % 2 \in {0, 1}
  OBVIOUS
<1>3. XorBit(a, b, w) = w * (x % 2)
  BY <1>1, ZenonT(30) DEF XorBit
<1>4. QED
  BY <1>2, <1>3

\* The exclusive or of two bytes is one.
LEMMA XorIsByte ==
    ASSUME NEW a \in Byte, NEW b \in Byte
    PROVE  XorByte(a, b) \in Byte
<1>1. /\ XorBit(a, b, 1) \in {0, 1} /\ XorBit(a, b, 2) \in {0, 2}
      /\ XorBit(a, b, 4) \in {0, 4} /\ XorBit(a, b, 8) \in {0, 8}
      /\ XorBit(a, b, 16) \in {0, 16} /\ XorBit(a, b, 32) \in {0, 32}
      /\ XorBit(a, b, 64) \in {0, 64} /\ XorBit(a, b, 128) \in {0, 128}
  BY XorBitValue
<1>2. XorBit(a, b, 1) + XorBit(a, b, 2) + XorBit(a, b, 4) + XorBit(a, b, 8) \in 0..15
  BY <1>1
<1>3. PICK low \in 0..15 :
        low = XorBit(a, b, 1) + XorBit(a, b, 2) + XorBit(a, b, 4) + XorBit(a, b, 8)
  BY <1>2, ZenonT(30)
<1>4. low + XorBit(a, b, 16) + XorBit(a, b, 32) + XorBit(a, b, 64) + XorBit(a, b, 128) \in Byte
  BY <1>1 DEF Byte
<1>5. QED
  BY <1>3, <1>4 DEF XorByte

\* The string x with byte e in place j.
SetByte(x, j, e) == [x EXCEPT ![j] = e]

LEMMA SetByteType ==
    ASSUME NEW m, NEW x \in Bytes(m), NEW j \in 1..m, NEW e \in Byte
    PROVE  SetByte(x, j, e) \in Bytes(m)
BY DEF SetByte, Bytes

LEMMA LowByte ==
    ASSUME NEW x \in Byte, NEW y \in Nat
    PROVE  (x * y) % 256 \in Byte
<1>1. PICK z \in Nat : z = x * y
  BY DEF Byte
<1>2. z % 256 \in 0..255
  OBVIOUS
<1>3. QED
  BY <1>1, <1>2 DEF Byte

\* The values of the loop over s, from r on.
IsLoop(g, r, s, k) ==
    g = [i \in 0..k |->
           IF i = 0 THEN r
           ELSE [g[i - 1] EXCEPT ![((i - 1) % Len(r)) + 1] = XorByte(@, s[i])]]

\* The loop of config/idhash.go has a value after any number of bytes.
LEMMA LoopExists ==
    ASSUME NEW r, NEW s, NEW n \in Nat
    PROVE  \E g : IsLoop(g, r, s, n)
<1> DEFINE Turn(x, i) == [x EXCEPT ![((i - 1) % Len(r)) + 1] = XorByte(@, s[i])]
           S == {k \in Nat : \E g : IsLoop(g, r, s, k)}
<1>0. \A g, k : IsLoop(g, r, s, k) <=> g = [i \in 0..k |-> IF i = 0 THEN r ELSE Turn(g[i - 1], i)]
  BY Zenon DEF IsLoop
<1> HIDE DEF Turn
<1>1. 0 \in S
  <2>1. [i \in 0..0 |-> r] = [i \in 0..0 |-> IF i = 0 THEN r ELSE Turn([j \in 0..0 |-> r][i - 1], i)]
    OBVIOUS
  <2>2. IsLoop([i \in 0..0 |-> r], r, s, 0)
    BY <1>0, <2>1, Zenon
  <2>3. QED
    BY <2>2
<1>2. ASSUME NEW k \in Nat, k \in S PROVE k + 1 \in S
  <2>1. PICK g : g = [i \in 0..k |-> IF i = 0 THEN r ELSE Turn(g[i - 1], i)]
    BY <1>0, <1>2, Zenon
  <2> DEFINE h == [i \in 0..(k + 1) |-> IF i <= k THEN g[i] ELSE Turn(g[k], k + 1)]
  <2>2. ASSUME NEW i \in 0..(k + 1)
        PROVE  h[i] = IF i = 0 THEN r ELSE Turn(h[i - 1], i)
    <3>1. CASE i <= k
      <4>1. h[i] = g[i] /\ (i # 0 => h[i - 1] = g[i - 1])
        BY <3>1
      <4>2. g[i] = IF i = 0 THEN r ELSE Turn(g[i - 1], i)
        BY <2>1, <3>1
      <4>3. QED
        BY <4>1, <4>2
    <3>2. CASE i = k + 1
      <4>1. h[i] = Turn(g[k], k + 1) /\ h[k] = g[k] /\ i - 1 = k /\ i # 0
        BY <3>2
      <4>2. QED
        BY <3>2, <4>1
    <3>3. QED
      BY <3>1, <3>2
  <2>3. h = [i \in 0..(k + 1) |-> IF i = 0 THEN r ELSE Turn(h[i - 1], i)]
    <3>1. h = [i \in 0..(k + 1) |-> h[i]]
      OBVIOUS
    <3> HIDE DEF h
    <3>2. QED
      BY <2>2, <3>1, Zenon
  <2>4. IsLoop(h, r, s, k + 1)
    <3> HIDE DEF h
    <3>1. QED
      BY <1>0, <2>3, Zenon
  <2>5. QED
    BY <2>4
<1>3. Nat \subseteq S
  <2> HIDE DEF S
  <2>1. QED
    BY <1>1, <1>2, SetInduction, Zenon
<1>4. QED
  BY <1>3

\* XorInto is the last of those values.
LEMMA XorIntoBy ==
    ASSUME NEW r, NEW s, NEW n \in Nat, n = Len(s)
    PROVE  \E g : XorInto(r, s) = g[n] /\ IsLoop(g, r, s, n)
<1> DEFINE h == CHOOSE acc : acc = [i \in 0..Len(s) |->
                  IF i = 0 THEN r
                  ELSE [acc[i - 1] EXCEPT ![((i - 1) % Len(r)) + 1] = XorByte(@, s[i])]]
<1>1. XorInto(r, s) = h[Len(s)]
  BY Zenon DEF XorInto
<1>2. \E g : IsLoop(g, r, s, n)
  BY LoopExists, Zenon
<1>3. \E g : g = [i \in 0..Len(s) |->
                  IF i = 0 THEN r
                  ELSE [g[i - 1] EXCEPT ![((i - 1) % Len(r)) + 1] = XorByte(@, s[i])]]
  BY <1>2, Zenon DEF IsLoop
<1>4. h = [i \in 0..Len(s) |->
                  IF i = 0 THEN r
                  ELSE [h[i - 1] EXCEPT ![((i - 1) % Len(r)) + 1] = XorByte(@, s[i])]]
  BY <1>3, ZenonT(30)
<1> HIDE DEF h
<1>5. IsLoop(h, r, s, n)
  BY <1>4, Zenon DEF IsLoop
<1>6. QED
  BY <1>1, <1>5, Zenon

\* The loop keeps the length and stays with bytes.
LEMMA XorIntoType ==
    ASSUME NEW m \in Nat \ {0}, NEW r \in Bytes(m), NEW s \in Seq(Byte)
    PROVE  XorInto(r, s) \in Bytes(m)
<1>1. PICK n \in Nat : n = Len(s)
  OBVIOUS
<1>2. PICK g : XorInto(r, s) = g[n] /\ IsLoop(g, r, s, n)
  BY <1>1, XorIntoBy, Zenon
<1> DEFINE S == {k \in Nat : k <= n => g[k] \in Bytes(m)}
<1>3. 0 \in S
  BY <1>2 DEF IsLoop
<1>4. ASSUME NEW k \in Nat, k \in S PROVE k + 1 \in S
  <2> SUFFICES ASSUME k + 1 <= n PROVE g[k + 1] \in Bytes(m)
    OBVIOUS
  <2>1. g[k + 1] = [g[k] EXCEPT ![(k % m) + 1] = XorByte(@, s[k + 1])]
    <3>1. k + 1 \in 0..n /\ k + 1 # 0 /\ (k + 1) - 1 = k
      OBVIOUS
    <3>2. Len(r) = m
      BY DEF Bytes
    <3>3. QED
      BY <1>2, <3>1, <3>2, Zenon DEF IsLoop
  <2>2. PICK x \in Seq(Byte), j \in 1..m : x = g[k] /\ Len(x) = m /\ j = (k % m) + 1
    <3>1. (k % m) + 1 \in 1..m
      OBVIOUS
    <3>2. g[k] \in Seq(Byte) /\ Len(g[k]) = m
      BY <1>4 DEF Bytes
    <3>3. QED
      BY <3>1, <3>2, Zenon
  <2>3. s[k + 1] \in Byte /\ x[j] \in Byte
    BY <1>1, <2>2
  <2>4. g[k + 1] = [x EXCEPT ![j] = XorByte(x[j], s[k + 1])]
    BY <2>1, <2>2, Zenon
  <2>5. XorByte(x[j], s[k + 1]) \in Byte
    BY <2>3, XorIsByte, Zenon
  <2>6. g[k + 1] \in Seq(Byte) /\ Len(g[k + 1]) = m
    <3>1. x \in Bytes(m)
      BY <2>2, Zenon DEF Bytes
    <3>2. SetByte(x, j, XorByte(x[j], s[k + 1])) \in Bytes(m)
      BY <2>5, <3>1, SetByteType, Zenon
    <3>3. QED
      BY <2>4, <3>2, Zenon DEF SetByte, Bytes
  <2>7. QED
    BY <2>6, Zenon DEF Bytes
<1>5. n \in S
  <2> HIDE DEF S
  <2>1. QED
    BY <1>3, <1>4, SetInduction, Zenon
<1>6. QED
  BY <1>2, <1>5

\* The two prefixes tell the addresses of nodes from those of services.
LEMMA Prefixes ==
    /\ BuiltinPrefix \in Bytes(12) /\ ServicePrefix \in Bytes(10)
    /\ BuiltinPrefix[9] # ServicePrefix[9]
BY DEF BuiltinPrefix, ServicePrefix, Bytes, Byte

\* The lengths of what config/idhash.go makes.
LEMMA Lengths ==
    ASSUME NEW p \in Seq(Byte)
    PROVE  MkNetID(p) \in Bytes(4) /\ MkServiceID(p) \in Bytes(2) /\ XorInto(<<1, 2>>, p) \in Bytes(2)
<1>1. <<222, 173, 190, 239>> \in Bytes(4) /\ <<255, 254>> \in Bytes(2) /\ <<1, 2>> \in Bytes(2)
  BY DEF Bytes, Byte
<1>2. [i \in DOMAIN p |-> (p[i] * (i - 1)) % 256] \in Seq(Byte)
  <2>1. PICK n \in Nat : n = Len(p) /\ DOMAIN p = 1..n
    OBVIOUS
  <2>2. \A i \in 1..n : (p[i] * (i - 1)) % 256 \in Byte
    <3> SUFFICES ASSUME NEW i \in 1..n PROVE (p[i] * (i - 1)) % 256 \in Byte
      OBVIOUS
    <3>1. p[i] \in Byte
      BY <2>1, ElementOfSeq
    <3>2. i - 1 \in Nat
      OBVIOUS
    <3>3. QED
      BY <3>1, <3>2, LowByte, Zenon
  <2>3. QED
    BY <2>1, <2>2
<1>3. QED
  BY <1>1, <1>2, XorIntoType DEF MkNetID, MkServiceID

\* The parts of a, of m bytes, with b, of n bytes, behind it.
Joined(a, b, m, n) ==
    /\ a \o b \in Bytes(m + n)
    /\ SubSeq(a \o b, 1, m) = a /\ SubSeq(a \o b, m + 1, m + n) = b
    /\ \A i \in 1..m : (a \o b)[i] = a[i]
    /\ \A i, j \in 1..m : SubSeq(a \o b, i, j) = SubSeq(a, i, j)

LEMMA Parts ==
    ASSUME NEW a \in Seq(Byte), NEW b \in Seq(Byte), NEW m \in Nat \ {0}, NEW n \in Nat \ {0},
           m = Len(a), n = Len(b)
    PROVE  Joined(a, b, m, n)
<1>1. a \o b \in Bytes(m + n) /\ \A i \in 1..m : (a \o b)[i] = a[i]
  BY DEF Bytes
<1>2. ASSUME NEW i \in 1..m, NEW j \in 1..m PROVE SubSeq(a \o b, i, j) = SubSeq(a, i, j)
  BY SubSeqOfConcat1
<1>3. SubSeq(a \o b, 1, m) = a
  <2>1. 1 \in 1..m /\ m \in 1..m
    OBVIOUS
  <2>2. QED
    BY <1>2, <2>1, SubSeqFull, Zenon
<1>4. SubSeq(a \o b, m + 1, m + n) = b
  <2>1. SubSeq(a \o b, m + 1, m + n) = SubSeq(b, (m + 1) - m, (m + n) - m)
    BY SubSeqOfConcat2
  <2>2. (m + 1) - m = 1 /\ (m + n) - m = n
    OBVIOUS
  <2>3. QED
    BY <2>1, <2>2, SubSeqFull, Zenon
<1>5. QED
  BY <1>1, <1>2, <1>3, <1>4, Zenon DEF Joined

LEMMA Slices ==
    ASSUME NEW m \in Nat \ {0}, NEW n \in Nat \ {0}, NEW a \in Bytes(m), NEW b \in Bytes(n)
    PROVE  Joined(a, b, m, n)
BY Parts, Zenon DEF Bytes

\* The parts of the addresses.
LEMMA Addr4 ==
    ASSUME NEW p \in Seq(Byte)
    PROVE  mkBuiltinAddr4(p) \in Bytes(4)
<1>1. <<100, 64>> \in Bytes(2) /\ 2 \in Nat \ {0} /\ 2 + 2 = 4
  BY DEF Byte, Bytes
<1>2. XorInto(<<1, 2>>, p) \in Bytes(2)
  BY Lengths, Zenon
<1>3. Joined(<<100, 64>>, XorInto(<<1, 2>>, p), 2, 2)
  BY <1>1, <1>2, Slices, Zenon
<1>4. QED
  BY <1>1, <1>3, Zenon DEF Joined, mkBuiltinAddr4

LEMMA Addr6 ==
    ASSUME NEW p \in Seq(Byte)
    PROVE  /\ mkBuiltinAddr6(p) \in Bytes(16) /\ mkBuiltinAddr6(p)[9] = BuiltinPrefix[9]
           /\ SubSeq(mkBuiltinAddr6(p), 13, 16) = MkNetID(p)
<1>1. {12, 4} \subseteq Nat \ {0} /\ 12 + 4 = 16 /\ 12 + 1 = 13 /\ 9 \in 1..12
  OBVIOUS
<1>2. MkNetID(p) \in Bytes(4)
  BY Lengths, Zenon
<1>3. Joined(BuiltinPrefix, MkNetID(p), 12, 4)
  BY <1>1, <1>2, Prefixes, Slices, Zenon
<1>4. QED
  BY <1>1, <1>3, Prefixes, Zenon DEF Joined, mkBuiltinAddr6

LEMMA ServiceAddr ==
    ASSUME NEW p \in Seq(Byte), NEW name \in Seq(Byte)
    PROVE  /\ MkServiceAddr6(p, name) \in Bytes(16) /\ MkServiceAddr6(p, name)[9] = ServicePrefix[9]
           /\ SubSeq(MkServiceAddr6(p, name), 1, 10) = ServicePrefix
           /\ SubSeq(MkServiceAddr6(p, name), 1, 14) = ServicePrefix \o MkNetID(p)
           /\ SubSeq(MkServiceAddr6(p, name), 11, 14) = MkNetID(p)
           /\ SubSeq(MkServiceAddr6(p, name), 15, 16) = MkServiceID(name)
<1> DEFINE ab == ServicePrefix \o MkNetID(p)
           x  == ab \o MkServiceID(name)
<1>1. /\ {10, 4, 14, 2} \subseteq Nat \ {0} /\ 10 + 4 = 14 /\ 10 + 1 = 11 /\ 14 + 2 = 16
      /\ 14 + 1 = 15 /\ 9 \in 1..10
      /\ 1 \in 1..14 /\ 9 \in 1..14 /\ 10 \in 1..14 /\ 11 \in 1..14 /\ 14 \in 1..14
  OBVIOUS
<1>2. MkNetID(p) \in Bytes(4) /\ MkServiceID(name) \in Bytes(2)
  BY Lengths, Zenon
<1>3. Joined(ServicePrefix, MkNetID(p), 10, 4)
  BY <1>1, <1>2, Prefixes, Slices, Zenon
<1>4. ab \in Bytes(14) /\ ab[9] = ServicePrefix[9] /\ SubSeq(ab, 1, 10) = ServicePrefix /\ SubSeq(ab, 11, 14) = MkNetID(p)
  BY <1>1, <1>3, Prefixes, Zenon DEF Joined
<1>5. x = MkServiceAddr6(p, name)
  BY Zenon DEF MkServiceAddr6
<1> HIDE DEF ab
<1>6. Joined(ab, MkServiceID(name), 14, 2)
  BY <1>1, <1>2, <1>4, Slices, Zenon
<1>7. x \in Bytes(16) /\ SubSeq(x, 1, 14) = ab /\ SubSeq(x, 15, 16) = MkServiceID(name)
  BY <1>1, <1>6, Zenon DEF Joined
<1>8. (\A i \in 1..14 : x[i] = ab[i]) /\ \A i, j \in 1..14 : SubSeq(x, i, j) = SubSeq(ab, i, j)
  BY <1>6, Zenon DEF Joined
<1> HIDE DEF x
<1>9. x[9] = ServicePrefix[9]
  BY <1>1, <1>4, <1>8, Zenon
<1>10. SubSeq(x, 1, 10) = ServicePrefix /\ SubSeq(x, 11, 14) = MkNetID(p)
  BY <1>1, <1>4, <1>8, Zenon
<1>11. QED
  BY <1>5, <1>7, <1>9, <1>10, Zenon DEF ab

-----------------------------------------------------------------------------
(* The tables. *)

\* The listeners are those of the registered services, one for each identifier.
Services ==
    /\ registered \subseteq ServiceNames
    /\ \A id \in DOMAIN listeners : listeners[id] \in registered /\ id = MkServiceID(listeners[id])
    /\ \A name \in registered : MkServiceID(name) \in DOMAIN listeners

\* What the tables hold: one entry for each address of a peer that was read, with
\* a peer that has this address; networks with a listed peer; and the listeners.
Tables ==
    /\ listed \in Seq(PeerIDs)
    /\ DOMAIN byNetID = {MkNetID(p) : p \in Range(listed)}
    /\ \A k \in DOMAIN byNetID : byNetID[k] \in Range(listed) /\ MkNetID(byNetID[k]) = k
    /\ DOMAIN byRoute = {mkBuiltinAddr4(p) : p \in Range(listed)} \cup {mkBuiltinAddr6(p) : p \in Range(listed)}
    /\ \A a \in DOMAIN byRoute :
         byRoute[a] \in Range(listed) /\ a \in {mkBuiltinAddr4(byRoute[a]), mkBuiltinAddr6(byRoute[a])}
    /\ \A p \in Range(listed) : byRoute[mkBuiltinAddr6(p)] = byNetID[MkNetID(p)]
    /\ DOMAIN byNetwork \subseteq Networks /\ \A n \in DOMAIN byNetwork : byNetwork[n] \in Range(listed)
    /\ Services

\* g is f with v for k.
IsPut(g, f, k, v) ==
    /\ DOMAIN g = DOMAIN f \cup {k} /\ g[k] = v
    /\ \A a \in DOMAIN f : a # k => g[a] = f[a]

LEMMA PutValue ==
    ASSUME NEW f, NEW k, NEW v
    PROVE  IsPut(Put(f, k, v), f, k, v)
BY DEF Put, IsPut

\* Two peers have one IPv6 address when they have one network identifier.
LEMMA Identities ==
    ASSUME NEW p \in Seq(Byte), NEW q \in Seq(Byte)
    PROVE  /\ mkBuiltinAddr4(p) # mkBuiltinAddr6(q)
           /\ mkBuiltinAddr6(p) = mkBuiltinAddr6(q) <=> MkNetID(p) = MkNetID(q)
<1>1. mkBuiltinAddr4(p) # mkBuiltinAddr6(q)
  <2>1. Len(mkBuiltinAddr4(p)) = 4 /\ Len(mkBuiltinAddr6(q)) = 16 /\ 4 # 16
    BY Addr4, Addr6 DEF Bytes
  <2>2. QED
    BY <2>1, Zenon
<1>2. mkBuiltinAddr6(p) = mkBuiltinAddr6(q) => MkNetID(p) = MkNetID(q)
  BY Addr6, Zenon
<1>3. MkNetID(p) = MkNetID(q) => mkBuiltinAddr6(p) = mkBuiltinAddr6(q)
  BY Zenon DEF mkBuiltinAddr6
<1>4. QED
  BY <1>1, <1>2, <1>3

LEMMA AppendRange ==
    ASSUME NEW S, NEW s \in Seq(S), NEW e \in S
    PROVE  Append(s, e) \in Seq(S) /\ Range(Append(s, e)) = Range(s) \cup {e}
<1>1. PICK n \in Nat : n = Len(s) /\ DOMAIN s = 1..n
  OBVIOUS
<1>2. Append(s, e) \in Seq(S)
  OBVIOUS
<1>3. /\ DOMAIN Append(s, e) = 1..(n + 1) /\ Append(s, e)[n + 1] = e
      /\ \A i \in 1..n : Append(s, e)[i] = s[i]
  BY <1>1
<1>4. ASSUME NEW y PROVE y \in Range(Append(s, e)) <=> y \in Range(s) \cup {e}
  <2>1. y \in Range(Append(s, e)) <=> \E i \in 1..(n + 1) : Append(s, e)[i] = y
    BY <1>3 DEF Range
  <2>2. y \in Range(s) <=> \E i \in 1..n : s[i] = y
    BY <1>1 DEF Range
  <2>3. (\E i \in 1..(n + 1) : Append(s, e)[i] = y) <=> (\E i \in 1..n : s[i] = y) \/ e = y
    BY <1>3
  <2>4. QED
    BY <2>1, <2>2, <2>3, Zenon
<1>5. QED
  BY <1>2, <1>4, Zenon

\* A round of the loop of Read over the peers keeps the tables right.
LEMMA EnterPeerStep ==
    ASSUME Tables, NEW p \in PeerIDs, NEW routes \in SUBSET Networks, EnterPeer(p, routes)
    PROVE  Tables'
<1> DEFINE a4 == mkBuiltinAddr4(p)
           a6 == mkBuiltinAddr6(p)
           id == MkNetID(p)
<1>0. p \in Seq(Byte) /\ \A q \in Range(listed) : q \in Seq(Byte)
  <2>1. \A q \in Range(listed) : q \in PeerIDs
    BY DEF Tables, Range
  <2>2. QED
    BY <2>1, AddressAssumption, ZenonT(30)
<1>1. listed' \in Seq(PeerIDs) /\ Range(listed') = Range(listed) \cup {p}
  BY AppendRange DEF EnterPeer, Tables
<1>2. byNetID' = Put(byNetID, id, p)
  BY <1>0, Addr6, Zenon DEF EnterPeer
<1>3. PICK half : half = Put(byRoute, a4, p) /\ byRoute' = Put(half, a6, p)
  BY Zenon DEF EnterPeer
<1>4. listeners' = listeners /\ registered' = registered
  BY DEF EnterPeer
<1>5. a4 # a6 /\ \A q \in Range(listed) : mkBuiltinAddr4(q) # a6 /\ a4 # mkBuiltinAddr6(q)
                                        /\ (mkBuiltinAddr6(q) = a6 <=> MkNetID(q) = id)
  BY <1>0, Identities, Zenon
<1>6. /\ DOMAIN byNetID' = DOMAIN byNetID \cup {id} /\ byNetID'[id] = p
      /\ \A k \in DOMAIN byNetID : k # id => byNetID'[k] = byNetID[k]
  <2>1. IsPut(byNetID', byNetID, id, p)
    BY <1>2, PutValue
  <2>2. QED
    BY <2>1, Zenon DEF IsPut
<1>7. /\ DOMAIN half = DOMAIN byRoute \cup {a4} /\ half[a4] = p
      /\ \A a \in DOMAIN byRoute : a # a4 => half[a] = byRoute[a]
  <2>1. IsPut(half, byRoute, a4, p)
    BY <1>3, PutValue
  <2>2. QED
    BY <2>1, Zenon DEF IsPut
<1>8. /\ DOMAIN byRoute' = DOMAIN half \cup {a6} /\ byRoute'[a6] = p
      /\ \A a \in DOMAIN half : a # a6 => byRoute'[a] = half[a]
  <2>1. IsPut(byRoute', half, a6, p)
    BY <1>3, PutValue
  <2>2. QED
    BY <2>1, Zenon DEF IsPut
<1>9. /\ DOMAIN byRoute' = DOMAIN byRoute \cup {a4, a6} /\ byRoute'[a6] = p /\ byRoute'[a4] = p
      /\ \A a \in DOMAIN byRoute : a \notin {a4, a6} => byRoute'[a] = byRoute[a]
  BY <1>5, <1>7, <1>8, Zenon
<1>10. DOMAIN byNetID' = {MkNetID(q) : q \in Range(listed')}
  <2>1. {MkNetID(q) : q \in Range(listed) \cup {p}} = {MkNetID(q) : q \in Range(listed)} \cup {id}
    OBVIOUS
  <2>2. DOMAIN byNetID = {MkNetID(q) : q \in Range(listed)}
    BY Zenon DEF Tables
  <2>3. QED
    BY <1>1, <1>6, <2>1, <2>2, ZenonT(30)
<1>11. \A k \in DOMAIN byNetID' : byNetID'[k] \in Range(listed') /\ MkNetID(byNetID'[k]) = k
  BY <1>1, <1>6, Zenon DEF Tables
<1>12. DOMAIN byRoute' = {mkBuiltinAddr4(q) : q \in Range(listed')} \cup {mkBuiltinAddr6(q) : q \in Range(listed')}
  <2>1. /\ {mkBuiltinAddr4(q) : q \in Range(listed) \cup {p}} = {mkBuiltinAddr4(q) : q \in Range(listed)} \cup {a4}
        /\ {mkBuiltinAddr6(q) : q \in Range(listed) \cup {p}} = {mkBuiltinAddr6(q) : q \in Range(listed)} \cup {a6}
    OBVIOUS
  <2>2. DOMAIN byRoute = {mkBuiltinAddr4(q) : q \in Range(listed)} \cup {mkBuiltinAddr6(q) : q \in Range(listed)}
    BY Zenon DEF Tables
  <2>3. QED
    BY <1>1, <1>9, <2>1, <2>2, ZenonT(30)
<1>13. \A a \in DOMAIN byRoute' :
         byRoute'[a] \in Range(listed') /\ a \in {mkBuiltinAddr4(byRoute'[a]), mkBuiltinAddr6(byRoute'[a])}
  BY <1>1, <1>9, Zenon DEF Tables
<1>14. \A q \in Range(listed') : byRoute'[mkBuiltinAddr6(q)] = byNetID'[MkNetID(q)]
  <2> SUFFICES ASSUME NEW q \in Range(listed') PROVE byRoute'[mkBuiltinAddr6(q)] = byNetID'[MkNetID(q)]
    OBVIOUS
  <2>1. CASE MkNetID(q) = id
    <3>1. mkBuiltinAddr6(q) = a6
      BY <1>1, <1>5, <2>1, Zenon
    <3>2. QED
      BY <1>6, <1>9, <2>1, <3>1, Zenon
  <2>2. CASE MkNetID(q) # id
    <3>1. q \in Range(listed)
      BY <1>1, <2>2, Zenon
    <3>2. mkBuiltinAddr6(q) \notin {a4, a6} /\ mkBuiltinAddr6(q) \in DOMAIN byRoute /\ MkNetID(q) \in DOMAIN byNetID
      BY <1>5, <2>2, <3>1, Zenon DEF Tables
    <3>3. byRoute[mkBuiltinAddr6(q)] = byNetID[MkNetID(q)]
      BY <3>1, Zenon DEF Tables
    <3>4. QED
      BY <1>6, <1>9, <2>2, <3>2, <3>3, Zenon
  <2>3. QED
    BY <2>1, <2>2, ZenonT(30)
<1>15. Services'
  BY <1>4, Zenon DEF Tables, Services
<1>16. DOMAIN byNetwork' \subseteq Networks /\ \A n \in DOMAIN byNetwork' : byNetwork'[n] \in Range(listed')
  <2>1. /\ DOMAIN byNetwork' = DOMAIN byNetwork \cup routes
        /\ \A n \in DOMAIN byNetwork' : byNetwork'[n] = IF n \in routes THEN p ELSE byNetwork[n]
    BY Zenon DEF EnterPeer
  <2>2. DOMAIN byNetwork \subseteq Networks /\ \A n \in DOMAIN byNetwork : byNetwork[n] \in Range(listed)
    BY Zenon DEF Tables
  <2>3. QED
    BY <1>1, <2>1, <2>2, ZenonT(30)
<1>17. QED
  BY <1>1, <1>10, <1>11, <1>12, <1>13, <1>14, <1>15, <1>16, Zenon DEF Tables

\* So does the registration of a service.
LEMMA RegisterStep ==
    ASSUME Tables, NEW name \in ServiceNames, Register(name)
    PROVE  Tables'
<1>1. IsPut(listeners', listeners, MkServiceID(name), name)
  <2>1. listeners' = Put(listeners, MkServiceID(name), name)
    BY Zenon DEF Register
  <2>2. QED
    BY <2>1, PutValue
<1>2. Services'
  <2>1. registered' = registered \cup {name}
    BY DEF Register
  <2>2. QED
    BY <1>1, <2>1, ZenonT(30) DEF IsPut, Tables, Services
<1>3. listed' = listed /\ byNetID' = byNetID /\ byRoute' = byRoute /\ byNetwork' = byNetwork
  BY DEF Register
<1>4. QED
  BY <1>2, <1>3, Zenon DEF Tables

\* The inductive invariant of the tables holds.
LEMMA TablesInvariant == AddressSpec => []Tables
<1>1. AddressInit => Tables
  <2> SUFFICES ASSUME AddressInit PROVE Tables
    OBVIOUS
  <2>1. Range(<<>>) = {} /\ DOMAIN NoEntries = {} /\ <<>> \in Seq(PeerIDs)
    BY DEF Range, NoEntries
  <2>2. QED
    BY <2>1, Zenon DEF AddressInit, Tables, Services
<1>2. Tables /\ [AddressNext]_addressVars => Tables'
  <2> SUFFICES ASSUME Tables, [AddressNext]_addressVars PROVE Tables'
    OBVIOUS
  <2>1. CASE UNCHANGED addressVars
    <3>1. /\ listed' = listed /\ byNetID' = byNetID /\ byRoute' = byRoute /\ byNetwork' = byNetwork
          /\ registered' = registered /\ listeners' = listeners
      BY <2>1 DEF addressVars
    <3>2. QED
      BY <3>1, Zenon DEF Tables, Services
  <2>2. CASE AddressNext
    BY <2>2, EnterPeerStep, RegisterStep, Zenon DEF AddressNext
  <2>3. QED
    BY <2>1, <2>2
<1>3. QED
  BY <1>1, <1>2, PTL DEF AddressSpec

\* Whatever the peer IDs and the names of services are, the keys of the tables are
\* of the sizes the code gives them, and hold bytes; every entry names a peer of
\* the configuration, or a registered service.
THEOREM TablesTyped == AddressSpec => []TypeOK
<1>1. ASSUME NEW S, NEW n, NEW s \in Bytes(n) PROVE Len(s) = n /\ Range(s) \subseteq Byte
  BY <1>1 DEF Bytes, Range
<1>2. Tables => TypeOK
  <2> SUFFICES ASSUME Tables PROVE TypeOK
    OBVIOUS
  <2>1. \A q \in Range(listed) : q \in Seq(Byte)
    <3>1. \A q \in Range(listed) : q \in PeerIDs
      BY DEF Tables, Range
    <3>2. QED
      BY <3>1, AddressAssumption, ZenonT(30)
  <2>2. \A k \in DOMAIN byNetID : Len(k) = 4 /\ Range(k) \subseteq Byte
    <3>1. \A k \in DOMAIN byNetID : k \in Bytes(4)
      BY <2>1, Lengths, Zenon DEF Tables
    <3>2. QED
      BY <1>1, <3>1, Zenon
  <2>3. \A a \in DOMAIN byRoute : Len(a) \in {4, 16} /\ Range(a) \subseteq Byte
    <3>1. \A a \in DOMAIN byRoute : a \in Bytes(4) \/ a \in Bytes(16)
      <4>1. \A q \in Range(listed) : mkBuiltinAddr4(q) \in Bytes(4) /\ mkBuiltinAddr6(q) \in Bytes(16)
        BY <2>1, Addr4, Addr6, Zenon
      <4>2. QED
        BY <4>1, Zenon DEF Tables
    <3>2. QED
      BY <1>1, <3>1, Zenon
  <2>4. Range(byNetID) \cup Range(byRoute) \cup Range(byNetwork) \subseteq Range(listed)
    <3>1. /\ \A n \in DOMAIN byNetwork : byNetwork[n] \in Range(listed)
          /\ \A k \in DOMAIN byNetID : byNetID[k] \in Range(listed)
          /\ \A a \in DOMAIN byRoute : byRoute[a] \in Range(listed)
      BY Zenon DEF Tables
    <3>2. \A R : (\A k \in DOMAIN byNetID : byNetID[k] \in R) => Range(byNetID) \subseteq R
      BY Zenon DEF Range
    <3>3. \A R : (\A a \in DOMAIN byRoute : byRoute[a] \in R) => Range(byRoute) \subseteq R
      BY Zenon DEF Range
    <3>4. \A R : (\A n \in DOMAIN byNetwork : byNetwork[n] \in R) => Range(byNetwork) \subseteq R
      BY Zenon DEF Range
    <3>5. QED
      BY <3>1, <3>2, <3>3, <3>4, Zenon
  <2>5. \A i \in DOMAIN listeners : Len(i) = 2 /\ Range(i) \subseteq Byte
    <3>1. \A i \in DOMAIN listeners : i \in Bytes(2)
      <4>1. \A name \in ServiceNames : MkServiceID(name) \in Bytes(2)
        BY AddressAssumption, Lengths, Zenon
      <4>2. QED
        BY <4>1, Zenon DEF Tables, Services
    <3>2. QED
      BY <1>1, <3>1, Zenon
  <2>6. Range(listeners) \subseteq registered
    BY Zenon DEF Tables, Services, Range
  <2>7. QED
    BY <2>2, <2>3, <2>4, <2>5, <2>6, Zenon DEF Tables, Services, TypeOK
<1>3. QED
  BY <1>2, TablesInvariant, PTL

\* A packet to the built-in addresses of a peer without conflicts.
LEMMA ToBuiltin ==
    ASSUME Tables, NEW p \in Range(listed) \ {OwnID}, NoConflict(p)
    PROVE  Dispatch(mkBuiltinAddr4(p)) = ToPeer(p) /\ Dispatch(mkBuiltinAddr6(p)) = ToPeer(p)
<1>1. OwnID \in Seq(Byte) /\ \A q \in Range(listed) : q \in Seq(Byte)
  <2>1. \A q \in Range(listed) : q \in PeerIDs
    BY DEF Tables, Range
  <2>2. QED
    BY <2>1, AddressAssumption, ZenonT(30)
<1>2. \A q \in Range(listed) \cup {OwnID} :
         q # p => MkNetID(p) # MkNetID(q) /\ mkBuiltinAddr4(p) # mkBuiltinAddr4(q)
  BY Zenon DEF NoConflict
<1>3. \A q \in Range(listed) \cup {OwnID} :
        /\ mkBuiltinAddr4(p) # mkBuiltinAddr6(q) /\ mkBuiltinAddr6(p) # mkBuiltinAddr4(q)
        /\ q # p => mkBuiltinAddr6(p) # mkBuiltinAddr6(q)
  BY <1>1, <1>2, Identities, Zenon
<1>4. Dispatch(mkBuiltinAddr4(p)) = FindRouteForIP(mkBuiltinAddr4(p))
  <2>1. Len(mkBuiltinAddr4(p)) = 4 /\ 4 # 16
    BY <1>1, Addr4 DEF Bytes
  <2>2. mkBuiltinAddr4(p) \notin {mkBuiltinAddr4(OwnID), mkBuiltinAddr6(OwnID)}
    BY <1>2, <1>3, Zenon
  <2>3. QED
    BY <2>1, <2>2, Zenon DEF Dispatch
<1>5. Dispatch(mkBuiltinAddr6(p)) = FindRouteForIP(mkBuiltinAddr6(p))
  <2>1. SubSeq(mkBuiltinAddr6(p), 1, 10) # ServicePrefix
    <3>0. mkBuiltinAddr6(p) \in Seq(Byte) /\ Len(mkBuiltinAddr6(p)) = 16 /\ mkBuiltinAddr6(p)[9] = BuiltinPrefix[9]
      BY <1>1, Addr6 DEF Bytes
    <3>1. PICK x \in Seq(Byte) : x = mkBuiltinAddr6(p) /\ Len(x) = 16 /\ x[9] = BuiltinPrefix[9]
      BY <3>0, Zenon
    <3>2. SubSeq(x, 1, 10)[9] = BuiltinPrefix[9]
      BY <3>1
    <3>3. QED
      BY <3>1, <3>2, Prefixes, Zenon
  <2>2. mkBuiltinAddr6(p) \notin {mkBuiltinAddr4(OwnID), mkBuiltinAddr6(OwnID)}
    BY <1>2, <1>3, Zenon
  <2>3. QED
    BY <2>1, <2>2, Zenon DEF Dispatch
<1>6. ASSUME NEW a \in {mkBuiltinAddr4(p), mkBuiltinAddr6(p)} PROVE FindRouteForIP(a) = ToPeer(p)
  <2>1. a \in DOMAIN byRoute
    BY Zenon DEF Tables
  <2>2. byRoute[a] \in Range(listed) /\ a \in {mkBuiltinAddr4(byRoute[a]), mkBuiltinAddr6(byRoute[a])}
    BY <2>1, Zenon DEF Tables
  <2>3. byRoute[a] = p
    BY <1>2, <1>3, <2>2, Zenon
  <2>4. {n \in DOMAIN byNetwork : Contains(n, a)} = {}
    BY Zenon DEF NoConflict
  <2>5. QED
    BY <2>1, <2>3, <2>4, Zenon DEF FindRouteForIP
<1>7. QED
  BY <1>4, <1>5, <1>6, Zenon

\* A packet to the address of a service goes to the service network, on a route
\* the kernel has.
LEMMA ToServiceNetwork ==
    ASSUME Tables, NEW p \in Range(listed) \cup {OwnID}, NEW name \in ServiceNames
    PROVE  LET a == MkServiceAddr6(p, name) IN
             /\ SubSeq(a, 1, 14) \in ServiceRoutes
             /\ Dispatch(a) =
                  IF MkNetID(p) = MkNetID(OwnID)
                    THEN IF MkServiceID(name) \in DOMAIN listeners THEN ToListener(listeners[MkServiceID(name)]) ELSE Nowhere
                  ELSE IF MkNetID(p) \in DOMAIN byNetID THEN ToService(byNetID[MkNetID(p)], MkServiceID(name))
                  ELSE ToNilHandle
<1> DEFINE a == MkServiceAddr6(p, name)
<1>1. OwnID \in Seq(Byte) /\ name \in Seq(Byte) /\ p \in Seq(Byte)
  <2>1. \A q \in Range(listed) : q \in PeerIDs
    BY DEF Tables, Range
  <2>2. QED
    BY <2>1, AddressAssumption, ZenonT(30)
<1>2. SubSeq(a, 1, 14) \in ServiceRoutes
  <2>1. SubSeq(a, 1, 14) = ServicePrefix \o MkNetID(p)
    BY <1>1, ServiceAddr, Zenon
  <2>2. QED
    BY <2>1, Zenon DEF ServiceRoutes, svcNetIds
<1>3. a \notin {mkBuiltinAddr4(OwnID), mkBuiltinAddr6(OwnID)}
  <2>1. a \in Bytes(16) /\ a[9] = ServicePrefix[9]
    BY <1>1, ServiceAddr, Zenon
  <2>2. Len(mkBuiltinAddr4(OwnID)) = 4 /\ mkBuiltinAddr6(OwnID)[9] = BuiltinPrefix[9]
    BY <1>1, Addr4, Addr6, Zenon DEF Bytes
  <2> HIDE DEF a
  <2>3. Len(a) # Len(mkBuiltinAddr4(OwnID))
    <3>1. Len(a) = 16 /\ 16 # 4
      BY <2>1 DEF Bytes
    <3>2. QED
      BY <2>2, <3>1, Zenon
  <2>4. QED
    BY <2>1, <2>2, <2>3, Prefixes, Zenon
<1>4. Dispatch(a) = EnsureListener(a)
  <2>1. a \in Bytes(16) /\ SubSeq(a, 1, 10) = ServicePrefix
    BY <1>1, ServiceAddr, Zenon
  <2> HIDE DEF a
  <2>2. Len(a) = 16
    BY <2>1 DEF Bytes
  <2>3. QED
    BY <1>3, <2>1, <2>2, Zenon DEF Dispatch
<1>5. /\ SubSeq(a, 11, 14) = MkNetID(p) /\ SubSeq(a, 15, 16) = MkServiceID(name)
      /\ SubSeq(mkBuiltinAddr6(OwnID), 13, 16) = MkNetID(OwnID)
  BY <1>1, ServiceAddr, Addr6, Zenon
<1> HIDE DEF a
<1>6. EnsureListener(a) =
        IF MkNetID(p) = MkNetID(OwnID)
          THEN IF MkServiceID(name) \in DOMAIN listeners THEN ToListener(listeners[MkServiceID(name)]) ELSE Nowhere
        ELSE IF MkNetID(p) \in DOMAIN byNetID THEN ToService(byNetID[MkNetID(p)], MkServiceID(name))
        ELSE ToNilHandle
  BY <1>5, Zenon DEF EnsureListener
<1>7. QED
  BY <1>2, <1>4, <1>6, Zenon DEF a

\* For all peer IDs, networks and names of services, in whatever order they are
\* read, an address leads back to the peer it was made from, as long as the peer's
\* addresses conflict with nothing; to a handler, if it is one of the service
\* network; and to a service registered here that has its identifier.  Where the
\* addresses of peers conflict, both tables still name the same peer.
THEOREM AddressesLeadBack == AddressSpec => []AddressesResolve
<1>1. ASSUME Tables PROVE AddressesResolve
  <2>1. ASSUME NEW p \in Range(listed) \ {OwnID}, NoConflict(p), NEW name \in ServiceNames
        PROVE  Dispatch(MkServiceAddr6(p, name)) = ToService(p, MkServiceID(name))
    <3>1. MkNetID(p) # MkNetID(OwnID)
      BY <2>1, Zenon DEF NoConflict
    <3>2. MkNetID(p) \in DOMAIN byNetID /\ byNetID[MkNetID(p)] \in Range(listed)
          /\ MkNetID(byNetID[MkNetID(p)]) = MkNetID(p)
      BY <1>1, Zenon DEF Tables
    <3>3. byNetID[MkNetID(p)] = p
      BY <2>1, <3>2, Zenon DEF NoConflict
    <3>4. QED
      BY <1>1, <3>1, <3>2, <3>3, ToServiceNetwork, Zenon
  <2>2. ASSUME NEW p \in Range(listed) \cup {OwnID}, NEW name \in ServiceNames
        PROVE  LET a == MkServiceAddr6(p, name)
               IN  SubSeq(a, 1, 14) \in ServiceRoutes /\ Dispatch(a) # ToNilHandle
    <3>1. MkNetID(p) = MkNetID(OwnID) \/ MkNetID(p) \in DOMAIN byNetID
      BY <1>1, Zenon DEF Tables
    <3>2. /\ \A n : ToListener(n) # ToNilHandle
          /\ \A q, id : ToService(q, id) # ToNilHandle
          /\ Nowhere # ToNilHandle
      BY DEF ToListener, ToService, Nowhere, ToNilHandle
    <3>3. QED
      BY <1>1, <3>1, <3>2, ToServiceNetwork, Zenon
  <2>3. ASSUME NEW name \in registered
        PROVE  \E other \in Twins(name) : Dispatch(MkServiceAddr6(OwnID, name)) = ToListener(other)
    <3>1. name \in ServiceNames /\ MkServiceID(name) \in DOMAIN listeners
      BY <1>1, <2>3, Zenon DEF Tables, Services
    <3>2. listeners[MkServiceID(name)] \in Twins(name)
      BY <1>1, <3>1, Zenon DEF Tables, Services, Twins
    <3>3. Dispatch(MkServiceAddr6(OwnID, name)) = ToListener(listeners[MkServiceID(name)])
      BY <1>1, <3>1, ToServiceNetwork, Zenon
    <3>4. QED
      BY <3>2, <3>3, Zenon
  <2>4. \A p \in Range(listed) : byRoute[mkBuiltinAddr6(p)] = byNetID[MkNetID(p)]
    BY <1>1, Zenon DEF Tables
  <2>5. \A p \in Range(listed) \ {OwnID} : NoConflict(p) =>
           Dispatch(mkBuiltinAddr4(p)) = ToPeer(p) /\ Dispatch(mkBuiltinAddr6(p)) = ToPeer(p)
    BY <1>1, ToBuiltin, Zenon
  <2>6. QED
    BY <2>1, <2>2, <2>3, <2>4, <2>5, Zenon DEF AddressesResolve
<1>2. QED
  BY <1>1, TablesInvariant, PTL
=============================================================================
