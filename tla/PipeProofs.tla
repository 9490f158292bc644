----------------------------- MODULE PipeProofs -----------------------------
(***************************************************************************)
(* Proofs about Pipe, for any number of chunks and any buffers: the relay  *)
(* loses nothing while both sides are up, and each direction of it is a    *)
(* Channel.                                                                *)
(***************************************************************************)
EXTENDS Pipe, SequenceTheorems, TLAPS

\* The way to an end: the first G chunks, g, were read by its application, b, of
\* length B, waits for it, w (0 or 1) chunks are in pipe's hands, the chunk m, o,
\* of length O, is still to be read, and n were sent; s is how the end stands and
\* r how the sender does.  The chunks are numbered without a gap, as far as they
\* go.
Count(g, G, b, B, w, m, o, O, n, s, r) ==
    /\ \A i \in 1..G : g[i] = i
    /\ \A i \in 1..B : b[i] = G + i
    /\ G + B <= n
    /\ s # "gone" =>
         /\ w = 1 => m = G + B + 1
         /\ \A i \in 1..O : o[i] = G + B + w + i
         /\ G + B + w + O <= n
         /\ r # "gone" => G + B + w + O = n

Line(g, b, w, m, o, n, s, r) == Count(g, Len(g), b, Len(b), w, m, o, Len(o), n, s, r)

InHand(e) == IF relay = e THEN 1 ELSE 0

Ordered(e) ==
    Line(got[e], buf[e], InHand(e), moving, out[Other(e)], sent[Other(e)], shut[e],
         shut[Other(e)])

\* Where a reader stands tells what it has left to read.
Reads(e) ==
    /\ reader[e] = "send" => Len(out[e]) > 0
    /\ reader[e] = "end" /\ relay # "returned" => Len(out[e]) = 0 /\ shut[e] # "no"
    /\ reader[e] = "done" => relay = "returned"

IInv == TypeOK /\ \A e \in Ends : Ordered(e) /\ Reads(e)

-----------------------------------------------------------------------------
\* There are two ends, each the other of the other.
LEMMA TwoEnds ==
    \A e \in Ends : /\ Other(e) \in Ends /\ Other(e) # e /\ Other(Other(e)) = e
                    /\ Ends = {e, Other(e)} /\ e # "select" /\ e # "returned"
<1>1. PICK a, b \in Ends : a # b /\ Ends = {a, b}
  BY PipeAssumption
<1>2. Other(a) \in Ends /\ Other(a) # a
  <2>1. \E f \in Ends : f # a
    BY <1>1
  <2> QED BY <2>1 DEF Other
<1>3. Other(b) \in Ends /\ Other(b) # b
  <2>1. \E f \in Ends : f # b
    BY <1>1
  <2> QED BY <2>1 DEF Other
<1>4. Other(a) = b /\ Other(b) = a
  BY <1>1, <1>2, <1>3
<1>5. TAKE e \in Ends
<1>6. e # "select" /\ e # "returned"
  BY PipeAssumption
<1>7. e = a \/ e = b
  BY <1>1
<1>8. {a, b} = {b, a}
  OBVIOUS
<1> QED BY <1>1, <1>4, <1>6, <1>7, <1>8

\* The variables have their types.
LEMMA Types ==
    ASSUME TypeOK
    PROVE  /\ sent \in [Ends -> Nat] /\ out \in [Ends -> Seq(Nat)] /\ got \in [Ends -> Seq(Nat)]
           /\ buf \in [Ends -> Seq(Nat)] /\ shut \in [Ends -> {"no", "write", "gone"}]
           /\ reader \in [Ends -> {"read", "send", "end", "done"}]
           /\ Chunks \in [Ends -> Nat]
           /\ relay \in Ends \cup {"select", "returned"} /\ moving \in Nat
BY PipeAssumption DEF TypeOK, ReaderSteps

\* What Append and Tail do to a sequence.
LEMMA AppendFacts ==
    ASSUME NEW s \in Seq(Nat), NEW n \in Nat
    PROVE  /\ Append(s, n) \in Seq(Nat) /\ Append(s, n) # << >>
           /\ Len(Append(s, n)) = Len(s) + 1 /\ Len(s) \in Nat
           /\ \A i \in 1..Len(s) : Append(s, n)[i] = s[i]
           /\ Append(s, n)[Len(s) + 1] = n
<1>1. Len(Append(s, n)) = Len(s) + 1 /\ Len(s) \in Nat
  OBVIOUS
<1> QED BY <1>1

LEMMA TailFacts ==
    ASSUME NEW s \in Seq(Nat), s # << >>
    PROVE  /\ Tail(s) \in Seq(Nat) /\ Head(s) = s[1] /\ Head(s) \in Nat
           /\ Len(Tail(s)) = Len(s) - 1 /\ Len(s) \in Nat \ {0}
           /\ \A i \in 1..(Len(s) - 1) : Tail(s)[i] = s[i + 1]
OBVIOUS

\* Nothing was sent.
LEMMA InitInv == Init => IInv
<1> SUFFICES ASSUME Init PROVE IInv
  OBVIOUS
<1>1. TypeOK
  BY PipeAssumption DEF Init, TypeOK, ReaderSteps
<1>2. ASSUME NEW e \in Ends PROVE Ordered(e) /\ Reads(e)
  <2>1. Other(e) \in Ends /\ e # "select"
    BY TwoEnds
  <2>2. /\ got[e] = << >> /\ buf[e] = << >> /\ out[Other(e)] = << >> /\ out[e] = << >>
        /\ sent[Other(e)] = 0 /\ reader[e] = "read" /\ relay = "select"
    BY <2>1 DEF Init
  <2>3. Reads(e)
    BY <2>2 DEF Reads
  <2>4. InHand(e) = 0
    BY <2>1, <2>2 DEF InHand
  <2>5. Ordered(e)
    BY <2>1, <2>2, <2>4 DEF Ordered, Line, Count
  <2> QED BY <2>3, <2>5
<1> QED BY <1>1, <1>2 DEF IInv

-----------------------------------------------------------------------------
(* What can happen to a line. *)

LEMMA Longer ==
    ASSUME NEW p \in Seq(Nat), NEW q \in Seq(Nat), NEW L \in Nat, NEW k \in Nat,
           \A i \in 1..L : p[i] = k + i, \A i \in 1..L : q[i] = p[i], q[L + 1] = k + L + 1
    PROVE  \A i \in 1..(L + 1) : q[i] = k + i
<1> TAKE i \in 1..(L + 1)
<1>1. CASE i = L + 1
  BY <1>1
<1>2. CASE i \in 1..L
  BY <1>2
<1> QED BY <1>1, <1>2

LEMMA Shorter ==
    ASSUME NEW p \in Seq(Nat), NEW q \in Seq(Nat), NEW L \in Nat, NEW k \in Nat, L > 0,
           \A i \in 1..L : p[i] = k + i, \A i \in 1..(L - 1) : q[i] = p[i + 1]
    PROVE  \A i \in 1..(L - 1) : q[i] = k + 1 + i
<1> TAKE i \in 1..(L - 1)
<1>1. i + 1 \in 1..L
  OBVIOUS
<1> QED BY <1>1

LEMMA LineSends ==
    ASSUME NEW g \in Seq(Nat), NEW b \in Seq(Nat), NEW w \in Nat, NEW m \in Nat,
           NEW o \in Seq(Nat), NEW n \in Nat, NEW s, NEW r, r # "gone",
           Line(g, b, w, m, o, n, s, r)
    PROVE  Line(g, b, w, m, Append(o, n + 1), n + 1, s, r)
<1>1. PICK G \in Nat, B \in Nat, O \in Nat : G = Len(g) /\ B = Len(b) /\ O = Len(o)
  OBVIOUS
<1>0. n + 1 \in Nat
  OBVIOUS
<1>2. PICK p \in Seq(Nat) : p = Append(o, n + 1)
  BY <1>0, AppendFacts, ZenonT(30)
<1>3. /\ Len(p) = O + 1 /\ p[O + 1] = n + 1
      /\ \A i \in 1..O : p[i] = o[i]
  BY <1>0, <1>1, <1>2, AppendFacts
<1>4. Count(g, G, b, B, w, m, o, O, n, s, r)
  BY <1>1 DEF Line
<1>5. Count(g, G, b, B, w, m, p, O + 1, n + 1, s, r)
  <2>1. ASSUME s # "gone" PROVE \A i \in 1..(O + 1) : p[i] = G + B + w + i
    <3>1. G + B + w \in Nat /\ n + 1 = G + B + w + O + 1 /\ \A i \in 1..O : o[i] = G + B + w + i
      BY <1>4, <2>1 DEF Count
    <3> QED BY <1>3, <3>1, Longer, SMTT(30)
  <2> QED BY <1>4, <2>1 DEF Count
<1> QED BY <1>1, <1>2, <1>3, <1>5 DEF Line

LEMMA LineTaken ==
    ASSUME NEW g \in Seq(Nat), NEW b \in Seq(Nat), NEW m \in Nat,
           NEW o \in Seq(Nat), NEW n \in Nat, NEW s, NEW r, o # << >>,
           Line(g, b, 0, m, o, n, s, r)
    PROVE  Line(g, b, 1, Head(o), Tail(o), n, s, r)
<1>1. PICK G \in Nat, B \in Nat, O \in Nat : G = Len(g) /\ B = Len(b) /\ O = Len(o)
  OBVIOUS
<1>2. PICK p \in Seq(Nat), k \in Nat : p = Tail(o) /\ k = Head(o)
  BY TailFacts, ZenonT(30)
<1>3. O > 0 /\ Len(p) = O - 1 /\ O - 1 \in Nat /\ k = o[1] /\ \A i \in 1..(O - 1) : p[i] = o[i + 1]
  BY <1>1, <1>2, TailFacts
<1>4. Count(g, G, b, B, 0, m, o, O, n, s, r)
  BY <1>1 DEF Line
<1>5. Count(g, G, b, B, 1, k, p, O - 1, n, s, r)
  BY <1>3, <1>4, SMTT(30) DEF Count
<1> QED BY <1>1, <1>2, <1>3, <1>5 DEF Line

LEMMA LineWritten ==
    ASSUME NEW g \in Seq(Nat), NEW b \in Seq(Nat), NEW m \in Nat, NEW k \in Nat,
           NEW o \in Seq(Nat), NEW n \in Nat, NEW s, NEW r, s # "gone",
           Line(g, b, 1, m, o, n, s, r)
    PROVE  Line(g, Append(b, m), 0, k, o, n, s, r)
<1>1. PICK G \in Nat, B \in Nat, O \in Nat : G = Len(g) /\ B = Len(b) /\ O = Len(o)
  OBVIOUS
<1>2. PICK c \in Seq(Nat) : c = Append(b, m)
  BY AppendFacts, ZenonT(30)
<1>3. Len(c) = B + 1 /\ c[B + 1] = m /\ \A i \in 1..B : c[i] = b[i]
  BY <1>1, <1>2, AppendFacts
<1>4. Count(g, G, b, B, 1, m, o, O, n, s, r)
  BY <1>1 DEF Line
<1>5. Count(g, G, c, B + 1, 0, k, o, O, n, s, r)
  <2>1. m = G + B + 1 /\ \A i \in 1..B : b[i] = G + i
    BY <1>4 DEF Count
  <2>2. \A i \in 1..(B + 1) : c[i] = G + i
    <3>1. c[B + 1] = G + B + 1
      BY <1>3, <2>1
    <3>2. TAKE i \in 1..(B + 1)
    <3>3. CASE i = B + 1
      BY <3>1, <3>3
    <3>4. CASE i \in 1..B
      BY <1>3, <2>1, <3>4
    <3> QED BY <3>3, <3>4
  <2>3. \A i \in 1..O : o[i] = G + (B + 1) + 0 + i
    BY <1>4 DEF Count
  <2> QED BY <1>4, <2>2, <2>3 DEF Count
<1> QED BY <1>1, <1>2, <1>3, <1>5 DEF Line

LEMMA LineRead ==
    ASSUME NEW g \in Seq(Nat), NEW b \in Seq(Nat), NEW w \in Nat, NEW m \in Nat,
           NEW o \in Seq(Nat), NEW n \in Nat, NEW s, NEW r, b # << >>,
           Line(g, b, w, m, o, n, s, r)
    PROVE  Line(Append(g, Head(b)), Tail(b), w, m, o, n, s, r)
<1>1. PICK G \in Nat, B \in Nat, O \in Nat : G = Len(g) /\ B = Len(b) /\ O = Len(o)
  OBVIOUS
<1>2. PICK h \in Seq(Nat), c \in Seq(Nat) : h = Append(g, Head(b)) /\ c = Tail(b)
  BY TailFacts, AppendFacts, ZenonT(30)
<1>3. /\ Len(c) = B - 1 /\ B - 1 \in Nat /\ Head(b) = b[1] /\ Head(b) \in Nat
      /\ \A i \in 1..(B - 1) : c[i] = b[i + 1]
  BY <1>1, <1>2, TailFacts
<1>4. Len(h) = G + 1 /\ h[G + 1] = b[1] /\ \A i \in 1..G : h[i] = g[i]
  BY <1>1, <1>2, <1>3, AppendFacts
<1>5. Count(g, G, b, B, w, m, o, O, n, s, r)
  BY <1>1 DEF Line
<1>6. Count(h, G + 1, c, B - 1, w, m, o, O, n, s, r)
  <2>1. /\ \A i \in 1..B : b[i] = G + i
        /\ \A i \in 1..G : g[i] = i
        /\ B > 0
    BY <1>3, <1>5 DEF Count
  <2>2. \A i \in 1..(B - 1) : c[i] = G + 1 + i
    BY <1>3, <2>1, Shorter
  <2>3. h[G + 1] = G + 1
    BY <1>4, <2>1
  <2>4. ASSUME NEW i \in 1..(G + 1) PROVE h[i] = i
    <3>1. CASE i = G + 1
      BY <2>3, <3>1
    <3>2. CASE i \in 1..G
      BY <1>4, <2>1, <3>2, ZenonT(30)
    <3> QED BY <3>1, <3>2
  <2>5. G + 1 + (B - 1) = G + B
    BY <1>3
  <2> QED BY <1>5, <2>2, <2>4, <2>5 DEF Count
<1> QED BY <1>1, <1>2, <1>3, <1>4, <1>6 DEF Line

\* The receiving end is gone: what was written stays, and the rest is lost.
LEMMA LineDies ==
    ASSUME NEW g \in Seq(Nat), NEW b \in Seq(Nat), NEW w \in Nat, NEW m \in Nat,
           NEW o \in Seq(Nat), NEW n \in Nat, NEW s, NEW r, Line(g, b, w, m, o, n, s, r),
           NEW v, NEW k, NEW q, NEW l \in Nat, n <= l, NEW t
    PROVE  Line(g, b, v, k, q, l, "gone", t)
BY DEF Line, Count

\* The sending end goes, and what was not read of it may be lost.
LEMMA LineCut ==
    ASSUME NEW g \in Seq(Nat), NEW b \in Seq(Nat), NEW w \in Nat, NEW m \in Nat,
           NEW o \in Seq(Nat), NEW n \in Nat, NEW s, NEW r, Line(g, b, w, m, o, n, s, r),
           NEW q \in Seq(Nat), q \in {o, << >>} \/ (o # << >> /\ q = SubSeq(o, 1, 1))
    PROVE  Line(g, b, w, m, q, n, s, "gone")
<1>1. CASE q = o
  BY <1>1 DEF Line, Count
<1>2. CASE q = << >>
  BY <1>2 DEF Line, Count
<1>3. CASE q = SubSeq(o, 1, 1) /\ o # << >>
  <2>1. Len(q) = 1 /\ q[1] = o[1] /\ Len(o) \in Nat \ {0}
    BY <1>3
  <2>2. PICK G \in Nat, B \in Nat, O \in Nat : G = Len(g) /\ B = Len(b) /\ O = Len(o)
    OBVIOUS
  <2>3. Count(g, G, b, B, w, m, o, O, n, s, r) /\ O >= 1
    BY <2>1, <2>2 DEF Line
  <2>4. Count(g, G, b, B, w, m, q, 1, n, s, "gone")
    <3>1. s # "gone" => \A i \in 1..1 : q[i] = G + B + w + i
      BY <2>1, <2>3 DEF Count
    <3> QED BY <2>3, <3>1 DEF Count
  <2> QED BY <2>1, <2>2, <2>4 DEF Line
<1> QED BY <1>1, <1>2, <1>3

\* A chunk that is in nobody's hands, and how an end is shut, do not count.
LEMMA LineSame ==
    ASSUME NEW g \in Seq(Nat), NEW b \in Seq(Nat), NEW w \in Nat, NEW m, NEW k,
           NEW o \in Seq(Nat), NEW n \in Nat, NEW s, NEW r, NEW t, NEW v,
           s # "gone" \/ t = "gone", r # "gone" \/ v = "gone", w = 0 \/ k = m,
           Line(g, b, w, m, o, n, s, r)
    PROVE  Line(g, b, w, k, o, n, t, v)
BY DEF Line, Count

-----------------------------------------------------------------------------
(* What the steps do to the two lines. *)

\* A line nobody touched.
LEMMA Keep ==
    ASSUME TypeOK, NEW d \in Ends, NEW c \in Ends, c = Other(d), Ordered(d),
           got'[d] = got[d], buf'[d] = buf[d], InHand(d)' = InHand(d),
           InHand(d) = 0 \/ moving' = moving, out'[c] = out[c], sent'[c] = sent[c],
           shut[d] # "gone" \/ shut'[d] = "gone", shut[c] # "gone" \/ shut'[c] = "gone"
    PROVE  Ordered(d)'
<1>1. /\ got[d] \in Seq(Nat) /\ buf[d] \in Seq(Nat) /\ InHand(d) \in Nat
      /\ out[c] \in Seq(Nat) /\ sent[c] \in Nat
  BY Types DEF InHand
<1>2. Line(got[d], buf[d], InHand(d), moving, out[c], sent[c], shut[d], shut[c])
  BY DEF Ordered
<1>3. Line(got[d], buf[d], InHand(d), moving', out[c], sent[c], shut'[d], shut'[c])
  BY <1>1, <1>2, LineSame
<1> QED BY <1>3 DEF Ordered

\* Both ends of the relay, and what is known of them.
Pair(e, f) ==
    /\ f = Other(e) /\ e = Other(f) /\ f # e /\ Ends = {e, f}
    /\ e # "select" /\ e # "returned" /\ f # "select" /\ f # "returned"
    /\ TypeOK /\ Reads(e) /\ Reads(f) /\ Ordered(e) /\ Ordered(f)
    /\ Line(got[e], buf[e], InHand(e), moving, out[f], sent[f], shut[e], shut[f])
    /\ Line(got[f], buf[f], InHand(f), moving, out[e], sent[e], shut[f], shut[e])
    /\ InHand(e) \in Nat /\ InHand(f) \in Nat

LEMMA BothEnds == ASSUME IInv, NEW e \in Ends PROVE \E f \in Ends : Pair(e, f)
<1>1. Other(e) \in Ends
  BY TwoEnds
<1>3. /\ e = Other(Other(e)) /\ Other(e) # e /\ Ends = {e, Other(e)}
      /\ e # "select" /\ e # "returned" /\ Other(e) # "select" /\ Other(e) # "returned"
  BY <1>1, TwoEnds
<1>4. TypeOK /\ Reads(e) /\ Reads(Other(e)) /\ Ordered(e) /\ Ordered(Other(e))
  BY <1>1 DEF IInv
<1>5. InHand(e) \in Nat /\ InHand(Other(e)) \in Nat
  BY DEF InHand
<1>6. Pair(e, Other(e))
  BY <1>3, <1>4, <1>5 DEF Pair, Ordered
<1> QED BY <1>1, <1>6

\* The invariant of the two ends is the invariant.
LEMMA Together ==
    ASSUME NEW e \in Ends, NEW f \in Ends, Ends = {e, f}, TypeOK',
           Reads(e)', Reads(f)', Ordered(e)', Ordered(f)'
    PROVE  IInv'
BY DEF IInv

\* An application sends a chunk.
LEMMA SendStep == ASSUME IInv, NEW e \in Ends, AppSends(e) PROVE IInv'
<1>1. PICK f \in Ends : Pair(e, f)
  BY BothEnds
<1>2. TypeOK /\ f # e /\ f = Other(e) /\ e = Other(f) /\ Ends = {e, f}
  BY <1>1 DEF Pair
<1>3. /\ out'[e] = Append(out[e], sent[e] + 1) /\ out'[f] = out[f]
      /\ sent'[e] = sent[e] + 1 /\ sent'[f] = sent[f]
  BY <1>2, Types DEF AppSends
<1>4. /\ shut' = shut /\ reader' = reader /\ relay' = relay /\ moving' = moving
      /\ buf' = buf /\ got' = got /\ shut[e] = "no"
  BY DEF AppSends
<1>5. InHand(e)' = InHand(e) /\ InHand(f)' = InHand(f)
  BY <1>4 DEF InHand
<1>6. /\ sent[e] \in Nat /\ sent[e] + 1 \in Nat /\ out[e] \in Seq(Nat)
      /\ got[f] \in Seq(Nat) /\ buf[f] \in Seq(Nat) /\ moving \in Nat
  BY <1>2, Types
<1>7. TypeOK'
  <2>1. sent' \in [Ends -> Nat] /\ out' \in [Ends -> Seq(Nat)]
    BY <1>2, Types, SMTT(30) DEF AppSends
  <2>2. sent'[e] <= Chunks[e] /\ sent'[f] <= Chunks[f]
    BY <1>2, <1>3, <1>6, Types, SMTT(30) DEF AppSends, TypeOK
  <2>3. \A d \in Ends : sent'[d] <= Chunks[d]
    BY <1>2, <2>2, ZenonT(30)
  <2> QED BY <1>2, <1>4, <2>1, <2>3 DEF TypeOK
<1>8. Reads(e)' /\ Reads(f)'
  <2>1. Len(out'[e]) = Len(out[e]) + 1 /\ Len(out[e]) \in Nat
    BY <1>3, <1>6, AppendFacts
  <2> QED BY <1>1, <1>3, <1>4, <2>1, SMTT(30) DEF Pair, Reads
<1>9. Ordered(e)'
  BY <1>1, <1>2, <1>3, <1>4, <1>5, Keep, ZenonT(30) DEF Pair
<1>10. Ordered(f)'
  <2>1. Line(got[f], buf[f], InHand(f), moving, out[e], sent[e], shut[f], shut[e])
        /\ InHand(f) \in Nat
    BY <1>1 DEF Pair
  <2>2. Line(got[f], buf[f], InHand(f), moving, Append(out[e], sent[e] + 1), sent[e] + 1,
             shut[f], shut[e])
    BY <1>4, <1>6, <2>1, LineSends, ZenonT(30)
  <2> QED BY <1>2, <1>3, <1>4, <1>5, <2>2, ZenonT(30) DEF Ordered
<1> QED BY <1>2, <1>7, <1>8, <1>9, <1>10, Together

\* An application closes its side for writing.
LEMMA ShutStep == ASSUME IInv, NEW e \in Ends, AppShuts(e) PROVE IInv'
<1>1. PICK f \in Ends : Pair(e, f)
  BY BothEnds
<1>2. TypeOK /\ f # e /\ f = Other(e) /\ e = Other(f) /\ Ends = {e, f}
  BY <1>1 DEF Pair
<1>3. shut[e] = "no" /\ shut'[e] = "write" /\ shut'[f] = shut[f]
  BY <1>2, Types DEF AppShuts
<1>4. /\ sent' = sent /\ out' = out /\ reader' = reader /\ relay' = relay
      /\ moving' = moving /\ buf' = buf /\ got' = got
  BY DEF AppShuts
<1>5. InHand(e)' = InHand(e) /\ InHand(f)' = InHand(f)
  BY <1>4 DEF InHand
<1>6. TypeOK'
  <2>1. shut' \in [Ends -> {"no", "write", "gone"}]
    BY <1>2, Types DEF AppShuts
  <2> QED BY <1>2, <1>4, <2>1 DEF TypeOK
<1>7. Reads(e)' /\ Reads(f)'
  BY <1>1, <1>3, <1>4, ZenonT(30) DEF Pair, Reads
<1>8. Ordered(e)'
  BY <1>1, <1>2, <1>3, <1>4, <1>5, Keep, ZenonT(30) DEF Pair
<1>9. Ordered(f)'
  BY <1>1, <1>2, <1>3, <1>4, <1>5, Keep, ZenonT(30) DEF Pair
<1> QED BY <1>2, <1>6, <1>7, <1>8, <1>9, Together

\* An application reads a chunk.
LEMMA ReadStep == ASSUME IInv, NEW e \in Ends, AppReads(e) PROVE IInv'
<1>1. PICK f \in Ends : Pair(e, f)
  BY BothEnds
<1>2. TypeOK /\ f # e /\ f = Other(e) /\ e = Other(f) /\ Ends = {e, f}
  BY <1>1 DEF Pair
<1>3. /\ got'[e] = Append(got[e], Head(buf[e])) /\ got'[f] = got[f]
      /\ buf'[e] = Tail(buf[e]) /\ buf'[f] = buf[f] /\ buf[e] # << >>
  BY <1>2, Types DEF AppReads
<1>4. /\ sent' = sent /\ out' = out /\ reader' = reader /\ relay' = relay
      /\ moving' = moving /\ shut' = shut
  BY DEF AppReads
<1>5. InHand(e)' = InHand(e) /\ InHand(f)' = InHand(f)
  BY <1>4 DEF InHand
<1>6. /\ sent[f] \in Nat /\ out[f] \in Seq(Nat) /\ got[e] \in Seq(Nat)
      /\ buf[e] \in Seq(Nat) /\ moving \in Nat
  BY <1>2, Types
<1>7. TypeOK'
  <2>1. Head(buf[e]) \in Nat /\ Tail(buf[e]) \in Seq(Nat)
    BY <1>3, <1>6, TailFacts
  <2>2. Append(got[e], Head(buf[e])) \in Seq(Nat)
    BY <1>6, <2>1, AppendFacts
  <2>3. got' \in [Ends -> Seq(Nat)] /\ buf' \in [Ends -> Seq(Nat)]
    BY <1>2, <2>1, <2>2, Types, ZenonT(30) DEF AppReads
  <2> QED BY <1>2, <1>4, <2>3 DEF TypeOK
<1>8. Reads(e)' /\ Reads(f)'
  BY <1>1, <1>4 DEF Pair, Reads
<1>9. Ordered(e)'
  <2>1. Line(got[e], buf[e], InHand(e), moving, out[f], sent[f], shut[e], shut[f])
        /\ InHand(e) \in Nat
    BY <1>1 DEF Pair
  <2>2. Line(Append(got[e], Head(buf[e])), Tail(buf[e]), InHand(e), moving, out[f], sent[f],
             shut[e], shut[f])
    BY <1>3, <1>6, <2>1, LineRead, ZenonT(30)
  <2> QED BY <1>2, <1>3, <1>4, <1>5, <2>2 DEF Ordered
<1>10. Ordered(f)'
  BY <1>1, <1>2, <1>3, <1>4, <1>5, Keep DEF Pair
<1> QED BY <1>2, <1>7, <1>8, <1>9, <1>10, Together

\* The connection of an application is reset.
LEMMA GoStep == ASSUME IInv, NEW e \in Ends, AppGoes(e) PROVE IInv'
<1>1. PICK f \in Ends : Pair(e, f)
  BY BothEnds
<1>2. TypeOK /\ f # e /\ f = Other(e) /\ e = Other(f) /\ Ends = {e, f}
  BY <1>1 DEF Pair
<1>3. shut'[e] = "gone" /\ shut'[f] = shut[f] /\ out'[f] = out[f]
  BY <1>2, Types, ZenonT(30) DEF AppGoes
<1>4. /\ sent' = sent /\ reader' = reader /\ relay' = relay /\ moving' = moving
      /\ buf' = buf /\ got' = got
  BY DEF AppGoes
<1>5. InHand(e)' = InHand(e) /\ InHand(f)' = InHand(f)
  BY <1>4 DEF InHand
<1>6. /\ sent[e] \in Nat /\ out[e] \in Seq(Nat) /\ got[f] \in Seq(Nat) /\ buf[f] \in Seq(Nat)
      /\ sent[f] \in Nat /\ out[f] \in Seq(Nat) /\ got[e] \in Seq(Nat) /\ buf[e] \in Seq(Nat)
      /\ moving \in Nat
  BY <1>2, Types
<1>7. PICK q \in Seq(Nat) :
         /\ out'[e] = q /\ out' = [out EXCEPT ![e] = q]
         /\ q \in {out[e], << >>} \/ (out[e] # << >> /\ q = SubSeq(out[e], 1, 1))
         /\ Len(q) <= Len(out[e])
         /\ reader[e] = "send" => Len(q) > 0
         /\ Len(out[e]) = 0 => Len(q) = 0
  <2>1. reader[e] = "send" => Len(out[e]) > 0
    BY <1>1 DEF Pair, Reads
  <2>2. CASE UNCHANGED out
    BY <1>2, <1>6, <2>1, <2>2, Types
  <2>3. CASE out' = [out EXCEPT ![e] = << >>] /\ reader[e] # "send"
    <3>1. Len(<< >>) <= Len(out[e]) /\ Len(<< >>) = 0 /\ << >> \in Seq(Nat)
      BY <1>6
    <3>2. out'[e] = << >>
      BY <1>2, <2>3, Types
    <3> QED BY <2>3, <3>1, <3>2, ZenonT(30)
  <2>4. CASE out' = [out EXCEPT ![e] = SubSeq(@, 1, 1)] /\ reader[e] = "send"
    <3>1. Len(out[e]) \in Nat /\ Len(out[e]) > 0 /\ out[e] # << >>
      BY <1>6, <2>1, <2>4
    <3>2. SubSeq(out[e], 1, 1) \in Seq(Nat) /\ Len(SubSeq(out[e], 1, 1)) = 1
      BY <1>6, <3>1, SMTT(30)
    <3>3. PICK q \in Seq(Nat) : q = SubSeq(out[e], 1, 1) /\ Len(q) = 1
      BY <3>2, ZenonT(30)
    <3>4. out'[e] = q /\ out' = [out EXCEPT ![e] = q]
      BY <1>2, <2>4, <3>3, Types
    <3>5. Len(q) <= Len(out[e]) /\ Len(q) > 0 /\ Len(out[e]) # 0
      BY <3>1, <3>3
    <3> QED BY <3>1, <3>3, <3>4, <3>5, ZenonT(30)
  <2> QED BY <2>2, <2>3, <2>4 DEF AppGoes
<1>8. TypeOK'
  <2>1. shut' \in [Ends -> {"no", "write", "gone"}] /\ out' \in [Ends -> Seq(Nat)]
    <3>1. shut' = [shut EXCEPT ![e] = "gone"] /\ out' = [out EXCEPT ![e] = q]
      BY <1>7 DEF AppGoes
    <3>2. shut \in [Ends -> {"no", "write", "gone"}] /\ out \in [Ends -> Seq(Nat)]
      BY <1>2, Types
    <3> QED BY <3>1, <3>2
  <2> QED BY <1>2, <1>4, <2>1 DEF TypeOK
<1>9. Reads(e)' /\ Reads(f)'
  BY <1>1, <1>3, <1>4, <1>7, ZenonT(30) DEF Pair, Reads
<1>10. Ordered(e)'
  BY <1>1, <1>2, <1>3, <1>4, <1>5, Keep, ZenonT(30) DEF Pair
<1>11. Ordered(f)'
  <2>1. Line(got[f], buf[f], InHand(f), moving, out[e], sent[e], shut[f], shut[e])
        /\ InHand(f) \in Nat
    BY <1>1 DEF Pair
  <2>2. Line(got[f], buf[f], InHand(f), moving, q, sent[e], shut[f], "gone")
    BY <1>6, <1>7, <2>1, LineCut, ZenonT(30)
  <2> QED BY <1>2, <1>3, <1>4, <1>5, <1>7, <2>2 DEF Ordered
<1> QED BY <1>2, <1>8, <1>9, <1>10, <1>11, Together

\* toChan reads a chunk, or the end.
LEMMA ToChanStep == ASSUME IInv, NEW e \in Ends, toChan(e) PROVE IInv'
<1>1. PICK f \in Ends : Pair(e, f)
  BY BothEnds
<1>2. TypeOK /\ f # e /\ f = Other(e) /\ e = Other(f) /\ Ends = {e, f}
  BY <1>1 DEF Pair
<1>3. /\ sent' = sent /\ out' = out /\ shut' = shut /\ relay' = relay /\ moving' = moving
      /\ buf' = buf /\ got' = got
  BY DEF toChan, ReadChunk, ReadEnd
<1>4. InHand(e)' = InHand(e) /\ InHand(f)' = InHand(f)
  BY <1>3 DEF InHand
<1>5. /\ reader'[f] = reader[f] /\ reader'[e] \in {"send", "end"}
      /\ reader' \in [Ends -> ReaderSteps]
  <2>1. \E p \in {"send", "end"} : reader' = [reader EXCEPT ![e] = p]
    BY DEF toChan, ReadChunk, ReadEnd
  <2>2. reader \in [Ends -> ReaderSteps] /\ {"send", "end"} \subseteq ReaderSteps
    BY <1>2 DEF TypeOK, ReaderSteps
  <2> QED BY <1>2, <2>1, <2>2
<1>6. /\ reader'[e] = "send" => out[e] # << >>
      /\ reader'[e] = "end" => (shut[e] # "no" /\ out[e] = << >>) \/ relay = "returned"
  BY <1>2, Types, ZenonT(30) DEF toChan, ReadChunk, ReadEnd
<1>7. out[e] \in Seq(Nat) /\ (out[e] # << >> => Len(out[e]) > 0) /\ (out[e] = << >> => Len(out[e]) = 0)
  BY <1>2, Types
<1>8. TypeOK'
  BY <1>2, <1>3, <1>5 DEF TypeOK
<1>9. Reads(e)' /\ Reads(f)'
  BY <1>1, <1>3, <1>5, <1>6, <1>7, ZenonT(30) DEF Pair, Reads
<1>10. Ordered(e)'
  BY <1>1, <1>2, <1>3, <1>4, Keep, ZenonT(30) DEF Pair
<1>11. Ordered(f)'
  BY <1>1, <1>2, <1>3, <1>4, Keep DEF Pair
<1> QED BY <1>2, <1>8, <1>9, <1>10, <1>11, Together

\* pipe takes a chunk from the reader of e.
LEMMA ReceiveStep == ASSUME IInv, NEW e \in Ends, Receive(e) PROVE IInv'
<1>1. PICK f \in Ends : Pair(e, f)
  BY BothEnds
<1>2. /\ TypeOK /\ f # e /\ f = Other(e) /\ e = Other(f) /\ Ends = {e, f}
      /\ e # "select" /\ f # "select"
  BY <1>1 DEF Pair
<1>3. /\ out'[e] = Tail(out[e]) /\ out'[f] = out[f] /\ moving' = Head(out[e])
      /\ relay = "select" /\ relay' = f /\ reader'[e] = "read" /\ reader'[f] = reader[f]
      /\ reader[e] = "send"
  BY <1>2, Types DEF Receive
<1>4. sent' = sent /\ shut' = shut /\ buf' = buf /\ got' = got
  BY DEF Receive
<1>5. InHand(e) = 0 /\ InHand(e)' = 0 /\ InHand(f) = 0 /\ InHand(f)' = 1
  BY <1>2, <1>3 DEF InHand
<1>6. /\ sent[e] \in Nat /\ out[e] \in Seq(Nat) /\ got[f] \in Seq(Nat) /\ buf[f] \in Seq(Nat)
      /\ moving \in Nat
  BY <1>2, Types
<1>7. out[e] # << >>
  <2>1. Len(out[e]) > 0
    BY <1>1, <1>3 DEF Pair, Reads
  <2> QED BY <1>6, <2>1
<1>8. TypeOK'
  <2>1. Head(out[e]) \in Nat /\ Tail(out[e]) \in Seq(Nat)
    BY <1>3, <1>6, <1>7, TailFacts
  <2>2. out' \in [Ends -> Seq(Nat)] /\ reader' \in [Ends -> ReaderSteps]
    BY <1>2, <2>1, Types, ZenonT(30) DEF Receive, ReaderSteps
  <2> QED BY <1>2, <1>3, <1>4, <2>1, <2>2 DEF TypeOK
<1>9. Reads(e)' /\ Reads(f)'
  BY <1>1, <1>3, <1>4 DEF Pair, Reads
<1>10. Ordered(e)'
  BY <1>1, <1>2, <1>3, <1>4, <1>5, Keep, ZenonT(30) DEF Pair
<1>11. Ordered(f)'
  <2>1. Line(got[f], buf[f], 0, moving, out[e], sent[e], shut[f], shut[e])
    BY <1>1, <1>5 DEF Pair
  <2>2. Line(got[f], buf[f], 1, Head(out[e]), Tail(out[e]), sent[e], shut[f], shut[e])
    BY <1>6, <1>7, <2>1, LineTaken, ZenonT(30)
  <2> QED BY <1>2, <1>3, <1>4, <1>5, <2>2 DEF Ordered
<1> QED BY <1>2, <1>8, <1>9, <1>10, <1>11, Together

\* pipe takes nil from the reader of e, and returns.
LEMMA NilStep == ASSUME IInv, NEW e \in Ends, ReceiveNil(e) PROVE IInv'
<1>1. PICK f \in Ends : Pair(e, f)
  BY BothEnds
<1>2. /\ TypeOK /\ f # e /\ f = Other(e) /\ e = Other(f) /\ Ends = {e, f}
      /\ e # "select" /\ f # "select" /\ e # "returned" /\ f # "returned"
  BY <1>1 DEF Pair
<1>3. /\ relay = "select" /\ relay' = "returned" /\ reader'[e] = "done"
      /\ reader'[f] = reader[f] /\ reader' \in [Ends -> ReaderSteps]
  BY <1>2, Types DEF ReceiveNil, ReaderSteps
<1>4. sent' = sent /\ shut' = shut /\ buf' = buf /\ got' = got /\ out' = out /\ moving' = moving
  BY DEF ReceiveNil
<1>5. InHand(e) = 0 /\ InHand(e)' = 0 /\ InHand(f) = 0 /\ InHand(f)' = 0
  BY <1>2, <1>3 DEF InHand
<1>6. TypeOK'
  BY <1>2, <1>3, <1>4 DEF TypeOK
<1>7. Reads(e)' /\ Reads(f)'
  BY <1>1, <1>3, <1>4, ZenonT(30) DEF Pair, Reads
<1>8. Ordered(e)'
  BY <1>1, <1>2, <1>3, <1>4, <1>5, Keep, ZenonT(30) DEF Pair
<1>9. Ordered(f)'
  BY <1>1, <1>2, <1>3, <1>4, <1>5, Keep DEF Pair
<1> QED BY <1>2, <1>6, <1>7, <1>8, <1>9, Together

\* pipe writes a chunk to e.
LEMMA WriteStep == ASSUME IInv, NEW e \in Ends, Write(e) PROVE IInv'
<1>1. PICK f \in Ends : Pair(e, f)
  BY BothEnds
<1>2. /\ TypeOK /\ f # e /\ f = Other(e) /\ e = Other(f) /\ Ends = {e, f}
      /\ e # "select" /\ f # "select" /\ e # "returned" /\ f # "returned"
  BY <1>1 DEF Pair
<1>3. relay = e /\ relay' = "select" /\ moving' = 0 /\ buf'[f] = buf[f]
  BY <1>2, Types DEF Write
<1>4. sent' = sent /\ shut' = shut /\ got' = got /\ out' = out /\ reader' = reader
  BY DEF Write
<1>5. InHand(e) = 1 /\ InHand(e)' = 0 /\ InHand(f) = 0 /\ InHand(f)' = 0
  BY <1>2, <1>3 DEF InHand
<1>6. /\ sent[f] \in Nat /\ out[f] \in Seq(Nat) /\ got[e] \in Seq(Nat)
      /\ buf[e] \in Seq(Nat) /\ moving \in Nat
  BY <1>2, Types, ZenonT(30)
<1>7. Reads(e)' /\ Reads(f)'
  BY <1>1, <1>2, <1>3, <1>4, ZenonT(30) DEF Pair, Reads
<1>8. Ordered(f)'
  BY <1>1, <1>2, <1>3, <1>4, <1>5, Keep, ZenonT(30) DEF Pair
<1>9. Line(got[e], buf[e], 1, moving, out[f], sent[f], shut[e], shut[f])
  BY <1>1, <1>5 DEF Pair
<1>10. CASE shut[e] = "gone"
  <2>1. buf' = buf
    BY <1>10 DEF Write
  <2>2. TypeOK'
    BY <1>2, <1>3, <1>4, <2>1, ZenonT(30) DEF TypeOK
  <2>3. Line(got[e], buf[e], 0, 0, out[f], sent[f], "gone", shut[f])
    BY <1>6, <1>9, LineDies, SMTT(30)
  <2>4. Ordered(e)'
    BY <1>2, <1>3, <1>4, <1>5, <1>10, <2>1, <2>3 DEF Ordered
  <2> QED BY <1>2, <1>7, <1>8, <2>2, <2>4, Together
<1>11. CASE shut[e] # "gone"
  <2>1. /\ buf' = [buf EXCEPT ![e] = Append(buf[e], moving)]
        /\ buf'[e] = Append(buf[e], moving)
    BY <1>2, <1>11, Types DEF Write
  <2>2. TypeOK'
    <3>1. Append(buf[e], moving) \in Seq(Nat)
      BY <1>6, <2>1, AppendFacts
    <3>2. buf' \in [Ends -> Seq(Nat)]
      BY <1>2, <2>1, <3>1, Types
    <3> QED BY <1>2, <1>3, <1>4, <3>2 DEF TypeOK
  <2>3. Line(got[e], Append(buf[e], moving), 0, 0, out[f], sent[f], shut[e], shut[f])
    BY <1>6, <1>9, <1>11, LineWritten, ZenonT(30)
  <2>4. Ordered(e)'
    BY <1>2, <1>3, <1>4, <1>5, <2>1, <2>3 DEF Ordered
  <2> QED BY <1>2, <1>7, <1>8, <2>2, <2>4, Together
<1> QED BY <1>10, <1>11

LEMMA NextInv == IInv /\ [Next]_vars => IInv'
<1> SUFFICES ASSUME IInv, [Next]_vars PROVE IInv'
  OBVIOUS
<1>1. CASE UNCHANGED vars
  BY <1>1 DEF vars, IInv, TypeOK, Ordered, Reads, InHand
<1>2. CASE Next
  BY <1>2, SendStep, ShutStep, GoStep, ReadStep, ToChanStep, ReceiveStep, NilStep, WriteStep
     DEF Next, pipe
<1> QED BY <1>1, <1>2

LEMMA Invariance == Spec => []IInv
BY InitInv, NextInv, PTL DEF Spec

-----------------------------------------------------------------------------
(* What the lines say of the sequences. *)

LEMMA UpToFacts ==
    ASSUME NEW n \in Nat
    PROVE  UpTo(n) \in Seq(Nat) /\ Len(UpTo(n)) = n /\ \A i \in 1..n : UpTo(n)[i] = i
BY DEF UpTo

\* Two sequences numbered one after the other are one numbered sequence.
LEMMA Join ==
    ASSUME NEW s \in Seq(Nat), NEW t \in Seq(Nat), NEW G \in Nat, NEW B \in Nat,
           Len(s) = G, Len(t) = B,
           \A i \in 1..G : s[i] = i, \A i \in 1..B : t[i] = G + i
    PROVE  s \o t = UpTo(G + B)
<1>1. PICK u \in Seq(Nat) :
         /\ u = s \o t /\ Len(u) = G + B
         /\ \A i \in 1..(G + B) : u[i] = IF i <= G THEN s[i] ELSE t[i - G]
  <2>1. /\ s \o t \in Seq(Nat) /\ Len(s \o t) = Len(s) + Len(t)
        /\ \A i \in 1..(Len(s) + Len(t)) :
             (s \o t)[i] = IF i <= Len(s) THEN s[i] ELSE t[i - Len(s)]
    BY ConcatProperties, ZenonT(30)
  <2>2. /\ s \o t \in Seq(Nat) /\ Len(s \o t) = G + B
        /\ \A i \in 1..(G + B) : (s \o t)[i] = IF i <= G THEN s[i] ELSE t[i - G]
    BY <2>1, Zenon
  <2> QED BY <2>2, Zenon
<1>2. ASSUME NEW i \in 1..(G + B) PROVE u[i] = i
  <2>1. CASE i <= G
    BY <1>1, <2>1
  <2>2. CASE ~(i <= G)
    <3>1. i - G \in 1..B /\ u[i] = t[i - G]
      BY <1>1, <2>2
    <3>2. t[i - G] = G + (i - G)
      BY <3>1
    <3> QED BY <3>1, <3>2
  <2> QED BY <2>1, <2>2
<1>3. PICK v \in Seq(Nat) : v = UpTo(G + B) /\ Len(v) = G + B /\ \A i \in 1..(G + B) : v[i] = i
  BY UpToFacts
<1>4. u = v
  BY <1>1, <1>2, <1>3, SeqEqual, ZenonT(30)
<1> QED BY <1>1, <1>3, <1>4

LEMMA JoinUpTo ==
    ASSUME NEW k \in Nat, NEW t \in Seq(Nat), NEW B \in Nat, Len(t) = B,
           \A i \in 1..B : t[i] = k + i
    PROVE  UpTo(k) \o t = UpTo(k + B)
<1>1. PICK u \in Seq(Nat) : u = UpTo(k) /\ Len(u) = k /\ \A i \in 1..k : u[i] = i
  BY UpToFacts
<1>2. u \o t = UpTo(k + B)
  BY <1>1, Join, ZenonT(30)
<1> QED BY <1>1, <1>2

\* What was delivered to an end is numbered from the first.
LEMMA DeliveredUpTo ==
    ASSUME IInv, NEW e \in Ends
    PROVE  /\ Delivered(e) = UpTo(Len(got[e]) + Len(buf[e]))
           /\ Len(got[e]) + Len(buf[e]) \in Nat
<1>1. TypeOK /\ Ordered(e)
  BY DEF IInv
<1>2. got[e] \in Seq(Nat) /\ buf[e] \in Seq(Nat)
  BY <1>1, Types
<1>3. PICK G \in Nat, B \in Nat : G = Len(got[e]) /\ B = Len(buf[e])
  BY <1>2
<1>4. (\A i \in 1..G : got[e][i] = i) /\ (\A i \in 1..B : buf[e][i] = G + i)
  BY <1>1, <1>3 DEF Ordered, Line, Count
<1>5. got[e] \o buf[e] = UpTo(G + B)
  BY <1>2, <1>3, <1>4, Join, ZenonT(30)
<1>6. G + B \in Nat
  OBVIOUS
<1> QED BY <1>3, <1>5, <1>6, ZenonT(30) DEF Delivered

\* The relay itself loses nothing, whatever the sizes of the buffers.
THEOREM LosesNothing == Spec => []NothingLost
<1>1. ASSUME IInv PROVE NothingLost
  <2> SUFFICES ASSUME \A d \in Ends : shut[d] # "gone", NEW e \in Ends
               PROVE  Delivered(e) \o InFlight(e) \o out[Other(e)] = UpTo(sent[Other(e)])
    BY ZenonT(30) DEF NothingLost
  <2>1. PICK f \in Ends : Pair(e, f)
    BY <1>1, BothEnds
  <2>2. f = Other(e) /\ TypeOK
        /\ Line(got[e], buf[e], InHand(e), moving, out[f], sent[f], shut[e], shut[f])
    BY <2>1 DEF Pair
  <2>3. /\ got[e] \in Seq(Nat) /\ buf[e] \in Seq(Nat) /\ out[f] \in Seq(Nat) /\ sent[f] \in Nat
        /\ moving \in Nat
    BY <2>2, Types
  <2>4. PICK G \in Nat, B \in Nat, O \in Nat :
           G = Len(got[e]) /\ B = Len(buf[e]) /\ O = Len(out[f])
    BY <2>3
  <2>5. PICK w \in Nat : w = InHand(e) /\ (w = 0 \/ w = 1)
    BY DEF InHand
  <2>6. Count(got[e], G, buf[e], B, w, moving, out[f], O, sent[f], shut[e], shut[f])
    BY <2>2, <2>4, <2>5 DEF Line
  <2>7. /\ w = 1 => moving = G + B + 1
        /\ \A i \in 1..O : out[f][i] = (G + B + w) + i
        /\ G + B + w + O = sent[f]
    BY <2>6 DEF Count
  <2>8. Delivered(e) = UpTo(G + B) /\ G + B \in Nat
    BY <1>1, <2>4, DeliveredUpTo, ZenonT(30)
  <2>9. Delivered(e) \o InFlight(e) = UpTo(G + B + w)
    <3>1. InFlight(e) \in Seq(Nat) /\ Len(InFlight(e)) = w
          /\ \A i \in 1..w : InFlight(e)[i] = (G + B) + i
      <4>1. CASE relay = e
        BY <2>3, <2>5, <2>7, <4>1 DEF InFlight, InHand
      <4>2. CASE relay # e
        BY <2>5, <4>2 DEF InFlight, InHand
      <4> QED BY <4>1, <4>2
    <3>2. PICK k \in Nat : k = G + B
      OBVIOUS
    <3>4. \A i \in 1..w : InFlight(e)[i] = k + i
      BY <3>1, <3>2
    <3>5. UpTo(k) \o InFlight(e) = UpTo(k + w)
      BY <3>1, <3>4, JoinUpTo, ZenonT(30)
    <3> QED BY <2>8, <3>2, <3>5
  <2>10. UpTo(G + B + w) \o out[f] = UpTo(G + B + w + O)
    <3>1. PICK k \in Nat : k = G + B + w
      OBVIOUS
    <3>3. \A i \in 1..O : out[f][i] = k + i
      BY <2>7, <3>1
    <3>4. UpTo(k) \o out[f] = UpTo(k + O)
      BY <2>3, <2>4, <3>3, JoinUpTo, ZenonT(30)
    <3> QED BY <3>1, <3>4, ZenonT(30)
  <2> QED BY <2>2, <2>7, <2>9, <2>10, ZenonT(30)
<1> QED BY <1>1, Invariance, PTL

-----------------------------------------------------------------------------
(* The steps of Channel, for the direction from e to f. *)

LEMMA ChStutter ==
    ASSUME NEW e \in Ends, sent'[e] = sent[e], Delivered(Other(e))' = Delivered(Other(e)),
           LinkOf(e)' = LinkOf(e)
    PROVE  [Direction(e)!Next]_(Direction(e)!vars)
BY DEF Direction!vars

LEMMA ChBreak ==
    ASSUME NEW e \in Ends, sent'[e] = sent[e], Delivered(Other(e))' = Delivered(Other(e)),
           LinkOf(e)' = "broken"
    PROVE  [Direction(e)!Next]_(Direction(e)!vars)
BY DEF Direction!vars, Direction!Next, Direction!Break

LEMMA ChEnd ==
    ASSUME NEW e \in Ends, sent'[e] = sent[e], Delivered(Other(e))' = Delivered(Other(e)),
           Delivered(Other(e)) = UpTo(sent[e]), LinkOf(e) = "up", LinkOf(e)' = "ended"
    PROVE  [Direction(e)!Next]_(Direction(e)!vars)
BY DEF Direction!vars, Direction!Next, Direction!End

\* The first n chunks, and the one after them.
LEMMA UpToNext == ASSUME NEW n \in Nat PROVE UpTo(n + 1) = Append(UpTo(n), n + 1)
<1>1. PICK u \in Seq(Nat) : u = UpTo(n) /\ Len(u) = n /\ \A i \in 1..n : u[i] = i
  BY UpToFacts
<1>2. n + 1 \in Nat
  OBVIOUS
<1>3. PICK v \in Seq(Nat) : v = UpTo(n + 1) /\ Len(v) = n + 1 /\ \A i \in 1..(n + 1) : v[i] = i
  BY <1>2, UpToFacts
<1>4. PICK x \in Seq(Nat) : /\ x = Append(u, n + 1) /\ Len(x) = n + 1 /\ x[n + 1] = n + 1
                            /\ \A i \in 1..n : x[i] = u[i]
  <2>1. PICK x \in Seq(Nat) : x = Append(u, n + 1)
    BY <1>2, AppendFacts, ZenonT(30)
  <2>2. Len(x) = n + 1 /\ x[n + 1] = n + 1 /\ \A i \in 1..n : x[i] = u[i]
    BY <1>1, <1>2, <2>1, AppendFacts
  <2> QED BY <2>1, <2>2, ZenonT(30)
<1>5. \A i \in 1..(n + 1) : x[i] = v[i]
  <2> TAKE i \in 1..(n + 1)
  <2>1. CASE i = n + 1
    BY <1>3, <1>4, <2>1
  <2>2. CASE i \in 1..n
    BY <1>1, <1>3, <1>4, <2>2
  <2> QED BY <2>1, <2>2
<1>6. x = v
  BY <1>3, <1>4, <1>5, SeqEqual, ZenonT(30)
<1> QED BY <1>1, <1>3, <1>4, <1>6

LEMMA ChSend ==
    ASSUME NEW e \in Ends, sent[e] \in Nat, Chunks[e] \in Nat, sent[e] < Chunks[e],
           sent'[e] = sent[e] + 1, Delivered(Other(e))' = Delivered(Other(e)),
           LinkOf(e) # "ended", LinkOf(e)' = LinkOf(e)
    PROVE  [Direction(e)!Next]_(Direction(e)!vars)
<1>1. UpTo(sent'[e]) = Append(UpTo(sent[e]), sent[e] + 1)
  BY UpToNext, ZenonT(30)
<1>2. sent[e] + 1 \in 1..Chunks[e]
  OBVIOUS
<1>3. Direction(e)!Send(sent[e] + 1)
  BY <1>1 DEF Direction!Send
<1> QED BY <1>2, <1>3 DEF Direction!Next

LEMMA ChDeliver ==
    ASSUME NEW e \in Ends, NEW k \in Nat, sent[e] \in Nat, k < sent[e], sent'[e] = sent[e],
           Delivered(Other(e)) = UpTo(k), Delivered(Other(e))' = UpTo(k + 1),
           LinkOf(e)' = LinkOf(e)
    PROVE  [Direction(e)!Next]_(Direction(e)!vars)
<1>0. PICK n \in Nat : n = sent[e] /\ k + 1 \in 1..n
  OBVIOUS
<1>1. Len(UpTo(k)) = k /\ Len(UpTo(n)) = n /\ UpTo(n)[k + 1] = k + 1
  BY <1>0, UpToFacts, ZenonT(30)
<1>2. UpTo(k + 1) = Append(UpTo(k), k + 1)
  BY UpToNext, ZenonT(30)
<1>3. Direction(e)!Deliver
  BY <1>0, <1>1, <1>2 DEF Direction!Deliver
<1> QED BY <1>3 DEF Direction!Next

-----------------------------------------------------------------------------
(* Every step of the relay is a step of Channel, in either direction. *)

\* A numbered line, read or waiting, is the first chunks.
LEMMA LineUpTo ==
    ASSUME NEW g \in Seq(Nat), NEW b \in Seq(Nat), NEW w, NEW m, NEW o, NEW n, NEW s, NEW r,
           Line(g, b, w, m, o, n, s, r)
    PROVE  \E G, B \in Nat : G = Len(g) /\ B = Len(b) /\ g \o b = UpTo(G + B)
<1>1. PICK G \in Nat, B \in Nat : G = Len(g) /\ B = Len(b)
  OBVIOUS
<1>2. (\A i \in 1..G : g[i] = i) /\ (\A i \in 1..B : b[i] = G + i)
  BY <1>1 DEF Line, Count
<1>3. g \o b = UpTo(G + B)
  BY <1>1, <1>2, Join, ZenonT(30)
<1> QED BY <1>1, <1>3, ZenonT(30)

\* What an application reads was already delivered.
LEMMA ReadDelivers ==
    ASSUME IInv, NEW d \in Ends, AppReads(d), NEW c \in Ends
    PROVE  Delivered(c)' = Delivered(c)
<1>1. TypeOK /\ Ordered(c) /\ IInv'
  BY ReadStep DEF IInv
<1>2. TypeOK' /\ Ordered(c)'
  BY <1>1 DEF IInv
<1>3. got[c] \in Seq(Nat) /\ buf[c] \in Seq(Nat) /\ got'[c] \in Seq(Nat) /\ buf'[c] \in Seq(Nat)
  BY <1>1, <1>2 DEF TypeOK
<1>4. CASE c # d
  BY <1>1, <1>4, Types, ZenonT(30) DEF AppReads, Delivered
<1>5. CASE c = d
  <2>1. PICK G \in Nat, B \in Nat : G = Len(got[d]) /\ B = Len(buf[d]) /\ got[d] \o buf[d] = UpTo(G + B)
    BY <1>1, <1>3, <1>5, LineUpTo, ZenonT(30) DEF Ordered
  <2>2. PICK H \in Nat, C \in Nat :
           H = Len(got'[d]) /\ C = Len(buf'[d]) /\ got'[d] \o buf'[d] = UpTo(H + C)
    BY <1>2, <1>3, <1>5, LineUpTo, ZenonT(30) DEF Ordered
  <2>3. got'[d] = Append(got[d], Head(buf[d])) /\ buf'[d] = Tail(buf[d]) /\ buf[d] # << >>
    BY <1>1, Types, ZenonT(30) DEF AppReads
  <2>4. C = B - 1 /\ B > 0 /\ Head(buf[d]) \in Nat
    BY <1>3, <1>5, <2>1, <2>2, <2>3, TailFacts, SMTT(30)
  <2>5. H = G + 1
    BY <1>3, <1>5, <2>1, <2>2, <2>3, <2>4, AppendFacts
  <2>6. H + C = G + B
    BY <2>4, <2>5, SMTT(30)
  <2> QED BY <1>5, <2>1, <2>2, <2>6, ZenonT(30) DEF Delivered
<1> QED BY <1>4, <1>5

\* What pipe writes to a live end is the next chunk for it.
LEMMA WriteDelivers ==
    ASSUME IInv, NEW d \in Ends, Write(d), shut[d] # "gone"
    PROVE  \E k \in Nat : /\ k < sent[Other(d)] /\ Delivered(d) = UpTo(k)
                          /\ Delivered(d)' = UpTo(k + 1)
<1>1. PICK f \in Ends : Pair(d, f)
  BY BothEnds
<1>2. /\ TypeOK /\ f = Other(d)
      /\ Line(got[d], buf[d], InHand(d), moving, out[f], sent[f], shut[d], shut[f])
  BY <1>1 DEF Pair
<1>3. IInv' /\ TypeOK' /\ Ordered(d)'
  BY WriteStep DEF IInv
<1>4. /\ got[d] \in Seq(Nat) /\ buf[d] \in Seq(Nat) /\ got'[d] \in Seq(Nat) /\ buf'[d] \in Seq(Nat)
      /\ out[f] \in Seq(Nat) /\ sent[f] \in Nat /\ moving \in Nat
  BY <1>2, <1>3 DEF TypeOK
<1>5. got' = got /\ buf'[d] = Append(buf[d], moving) /\ InHand(d) = 1
  BY <1>2, Types, ZenonT(30) DEF Write, InHand
<1>6. PICK G \in Nat, B \in Nat : G = Len(got[d]) /\ B = Len(buf[d]) /\ got[d] \o buf[d] = UpTo(G + B)
  BY <1>2, <1>4, LineUpTo, ZenonT(30)
<1>7. PICK H \in Nat, C \in Nat :
         H = Len(got'[d]) /\ C = Len(buf'[d]) /\ got'[d] \o buf'[d] = UpTo(H + C)
  BY <1>3, <1>4, LineUpTo, ZenonT(30) DEF Ordered
<1>8. H = G /\ C = B + 1
  BY <1>4, <1>5, <1>6, <1>7, AppendFacts
<1>9. PICK O \in Nat : O = Len(out[f])
  BY <1>4
<1>10. G + B + 1 + O <= sent[f]
  BY <1>2, <1>5, <1>6, <1>9, ZenonT(30) DEF Line, Count
<1>11. PICK k \in Nat : k = G + B /\ H + C = k + 1 /\ k < sent[f]
  BY <1>4, <1>8, <1>10
<1> QED BY <1>2, <1>6, <1>7, <1>11, ZenonT(30) DEF Delivered

\* A direction is a channel at the start, and in every step.
LEMMA DirectionInit == ASSUME Init, NEW e \in Ends PROVE Direction(e)!Init
<1>1. Other(e) \in Ends
  BY TwoEnds
<1>2. UpTo(0) = << >>
  BY UpToFacts
<1>3. UpTo(sent[e]) = << >>
  BY <1>2 DEF Init
<1>4. Delivered(Other(e)) = << >>
  BY <1>1 DEF Init, Delivered
<1>5. LinkOf(e) = "up"
  BY DEF Init, LinkOf
<1> QED BY <1>3, <1>4, <1>5 DEF Direction!Init

LEMMA AppDirection ==
    ASSUME IInv, NEW e \in Ends, NEW d \in Ends,
           AppSends(d) \/ AppShuts(d) \/ AppGoes(d) \/ AppReads(d) \/ toChan(d)
    PROVE  [Direction(e)!Next]_(Direction(e)!vars)
<1>1. TypeOK /\ Other(e) \in Ends
  BY TwoEnds DEF IInv
<1>2. CASE AppSends(d)
  <2>1. LinkOf(e)' = LinkOf(e) /\ LinkOf(e) # "ended" /\ Delivered(Other(e))' = Delivered(Other(e))
    BY <1>2, ZenonT(30) DEF AppSends, LinkOf, Delivered
  <2>2. CASE d = e
    BY <1>1, <1>2, <2>1, <2>2, Types, ChSend, ZenonT(30) DEF AppSends
  <2>3. CASE d # e
    BY <1>1, <1>2, <2>1, <2>3, Types, ChStutter, ZenonT(30) DEF AppSends
  <2> QED BY <2>2, <2>3, ZenonT(30)
<1>3. CASE AppShuts(d)
  <2>1. \A c \in Ends : shut'[c] = "gone" <=> shut[c] = "gone"
    BY <1>1, <1>3, Types, ZenonT(30) DEF AppShuts
  <2>2. LinkOf(e)' = LinkOf(e)
    BY <1>3, <2>1, ZenonT(30) DEF AppShuts, LinkOf
  <2> QED BY <1>3, <2>2, ChStutter, ZenonT(30) DEF AppShuts, Delivered
<1>4. CASE AppGoes(d)
  <2>1. shut'[d] = "gone"
    BY <1>1, <1>4, Types DEF AppGoes
  <2>2. LinkOf(e)' = "broken"
    BY <2>1 DEF LinkOf
  <2> QED BY <1>4, <2>2, ChBreak, ZenonT(30) DEF AppGoes, Delivered
<1>5. CASE AppReads(d)
  <2>1. LinkOf(e)' = LinkOf(e)
    BY <1>5, ZenonT(30) DEF AppReads, LinkOf
  <2>2. sent' = sent
    BY <1>5 DEF AppReads
  <2> QED BY <1>1, <1>5, <2>1, <2>2, ReadDelivers, ChStutter, ZenonT(30)
<1>6. CASE toChan(d)
  <2>1. reader'[e] = "done" <=> reader[e] = "done"
    BY <1>1, <1>6, Types, ZenonT(30) DEF toChan, ReadChunk, ReadEnd
  <2>2. sent' = sent /\ shut' = shut /\ relay' = relay /\ got' = got /\ buf' = buf
    BY <1>6, ZenonT(30) DEF toChan, ReadChunk, ReadEnd
  <2>3. LinkOf(e)' = LinkOf(e)
    BY <2>1, <2>2 DEF LinkOf
  <2> QED BY <2>2, <2>3, ChStutter DEF Delivered
<1> QED BY <1>2, <1>3, <1>4, <1>5, <1>6

LEMMA PipeDirection ==
    ASSUME IInv, NEW e \in Ends, NEW d \in Ends, Receive(d) \/ ReceiveNil(d) \/ Write(d)
    PROVE  [Direction(e)!Next]_(Direction(e)!vars)
<1>1. PICK f \in Ends : Pair(e, f)
  BY BothEnds
<1>2. /\ TypeOK /\ f = Other(e) /\ e = Other(f) /\ f # e /\ Ends = {e, f} /\ Reads(e)
      /\ e # "select" /\ e # "returned" /\ f # "select" /\ f # "returned"
      /\ Line(got[f], buf[f], InHand(f), moving, out[e], sent[e], shut[f], shut[e])
  BY <1>1 DEF Pair
<1>3. CASE Receive(d)
  <2>1. relay = "select" /\ relay' # "returned" /\ sent' = sent /\ shut' = shut /\ got' = got
        /\ buf' = buf
    BY <1>2, <1>3 DEF Receive
  <2>2. LinkOf(e)' = LinkOf(e)
    BY <2>1 DEF LinkOf
  <2> QED BY <2>1, <2>2, ChStutter, ZenonT(30) DEF Delivered
<1>4. CASE ReceiveNil(d)
  <2>1. /\ relay = "select" /\ relay' = "returned" /\ sent' = sent /\ shut' = shut /\ got' = got
        /\ buf' = buf /\ reader'[d] = "done" /\ reader[d] = "end"
        /\ \A c \in Ends : c # d => reader'[c] = reader[c]
    BY <1>2, <1>4, Types, ZenonT(30) DEF ReceiveNil
  <2>2. Delivered(f)' = Delivered(f)
    BY <2>1, ZenonT(30) DEF Delivered
  <2>3. CASE \E c \in Ends : shut[c] = "gone"
    <3>1. LinkOf(e)' = "broken"
      BY <2>1, <2>3, ZenonT(30) DEF LinkOf
    <3> QED BY <1>2, <2>1, <2>2, <3>1, ChBreak, ZenonT(30)
  <2>4. CASE (\A c \in Ends : shut[c] # "gone") /\ d = f
    <3>1. reader[e] # "done"
      BY <1>2, <2>1 DEF Reads
    <3>2. reader'[e] = reader[e]
      BY <1>2, <2>1, <2>4, ZenonT(30)
    <3>3. LinkOf(e)' = "broken"
      BY <2>1, <3>1, <3>2, ZenonT(30) DEF LinkOf
    <3> QED BY <1>2, <2>1, <2>2, <3>3, ChBreak
  <2>5. CASE (\A c \in Ends : shut[c] # "gone") /\ d = e
    <3>1. LinkOf(e) = "up" /\ LinkOf(e)' = "ended"
      BY <2>1, <2>5 DEF LinkOf
    <3>2. Len(out[e]) = 0 /\ InHand(f) = 0
      BY <1>2, <2>1, <2>5 DEF Reads, InHand
    <3>3. got[f] \in Seq(Nat) /\ buf[f] \in Seq(Nat) /\ sent[e] \in Nat
      BY <1>2, Types, ZenonT(30)
    <3>4. PICK G \in Nat, B \in Nat :
             G = Len(got[f]) /\ B = Len(buf[f]) /\ got[f] \o buf[f] = UpTo(G + B)
      BY <1>2, <3>3, LineUpTo, ZenonT(30)
    <3>5. G + B = sent[e]
      <4>1. G + B + 0 + 0 = sent[e]
        BY <1>2, <2>5, <3>2, <3>4, ZenonT(30) DEF Line, Count
      <4> QED BY <4>1, <3>3, SMTT(30)
    <3>6. Delivered(f) = UpTo(sent[e])
      BY <3>4, <3>5, ZenonT(30) DEF Delivered
    <3> QED BY <1>2, <2>1, <2>2, <3>1, <3>6, ChEnd, ZenonT(30)
  <2> QED BY <1>2, <2>3, <2>4, <2>5, ZenonT(30)
<1>5. CASE Write(d)
  <2>1. relay = d /\ relay' = "select" /\ sent' = sent /\ shut' = shut /\ got' = got
        /\ reader' = reader /\ \A c \in Ends : c # d => buf'[c] = buf[c]
    BY <1>2, <1>5, Types, ZenonT(30) DEF Write
  <2>2. LinkOf(e)' = LinkOf(e)
    <3>1. relay # "returned"
      BY <1>2, <2>1, ZenonT(30)
    <3> QED BY <2>1, <3>1, ZenonT(30) DEF LinkOf
  <2>3. CASE d = e
    BY <1>2, <2>1, <2>2, <2>3, ChStutter, ZenonT(30) DEF Delivered
  <2>4. CASE d = f /\ shut[f] = "gone"
    <3>1. buf' = buf
      BY <1>5, <2>4 DEF Write
    <3> QED BY <1>2, <2>1, <2>2, <3>1, ChStutter DEF Delivered
  <2>5. CASE d = f /\ shut[f] # "gone"
    <3>1. PICK k \in Nat : k < sent[e] /\ Delivered(f) = UpTo(k) /\ Delivered(f)' = UpTo(k + 1)
      BY <1>2, <1>5, <2>5, WriteDelivers, ZenonT(30)
    <3>2. sent[e] \in Nat
      BY <1>2, Types
    <3> QED BY <1>2, <2>1, <2>2, <3>1, <3>2, ChDeliver
  <2> QED BY <1>2, <2>3, <2>4, <2>5
<1> QED BY <1>3, <1>4, <1>5

\* Each direction of a relayed connection is a channel, whatever the buffers and
\* the number of chunks.
THEOREM RelayIsChannel == Spec => ImplementsChannels
<1>1. Init => \A e \in Ends : Direction(e)!Init
  BY DirectionInit, ZenonT(30)
<1>2. IInv /\ [Next]_vars => [\A e \in Ends : [Direction(e)!Next]_(Direction(e)!vars)]_vars
  <2> SUFFICES ASSUME IInv, Next, NEW e \in Ends PROVE [Direction(e)!Next]_(Direction(e)!vars)
    OBVIOUS
  <2> QED BY AppDirection, PipeDirection DEF Next, pipe
<1> QED BY <1>1, <1>2, Invariance, PTL DEF Spec, ImplementsChannels
=============================================================================
