------------------------ MODULE BridgePipe_proofs --------------------------
(***************************************************************************)
(* Lemmas about what is under way in BridgeService: pieces in a row and    *)
(* headers that wait in vain, the age of a request or an answer, counted   *)
(* in requests sent since, and Pipe, which every step keeps: nothing the   *)
(* client would take answers another request than the one it waits for.    *)
(***************************************************************************)
EXTENDS BridgeService, FiniteSetTheorems, SequenceTheorems,
        WellFoundedInduction, TLAPS

-----------------------------------------------------------------------------
(* Pieces in a row *)

\* t is what is left of s without its first d pieces.
Suffix(s, t, d) ==
  /\ d \in 0..Len(s) /\ Len(t) = Len(s) - d
  /\ \A i \in 1..Len(t) : t[i] = s[i + d]

\* t is s with pieces of one frame, whose message is m, behind it.
Grown(s, t, m) ==
  /\ Len(t) >= Len(s)
  /\ \A i \in 1..Len(s) : t[i] = s[i]
  /\ \A i \in (Len(s) + 1)..Len(t) : t[i].msg = m /\ (t[i].part = Width => i = Len(t))

Pieces(M) == [part : Parts, msg : M]

LEMMA WidthType ==
  /\ Width \in Parts /\ Parts \subseteq {1, 2} /\ Width \in {1, 2} /\ 1 \in Parts
  /\ Hid => Width = 1 /\ Parts = {1}
  /\ ~Hid => Width = 2 /\ Parts = {1, 2}
  BY DEF Width, Parts

LEMMA DropSuffix ==
  ASSUME NEW S, NEW s \in Seq(S), NEW d \in 0..Len(s)
  PROVE  /\ SubSeq(s, d + 1, Len(s)) \in Seq(S)
         /\ Suffix(s, SubSeq(s, d + 1, Len(s)), d)
  BY DEF Suffix

LEMMA TailSuffix ==
  ASSUME NEW S, NEW s \in Seq(S), s # <<>>
  PROVE  Tail(s) \in Seq(S) /\ Suffix(s, Tail(s), 1)
  BY DEF Suffix

LEMMA Smallest ==
  ASSUME NEW Q \in SUBSET Nat, Q # {}
  PROVE  \E m \in Q : \A q \in Q : m <= q
  <1> DEFINE R == OpToRel(<, Nat)
  <1>1. IsWellFoundedOn(R, Nat)
    BY NatLessThanWellFounded
  <1>2. \A x, y \in Nat : <<y, x>> \in R <=> y < x
    BY DEF OpToRel
  <1> HIDE DEF R
  <1>3. \E m \in Q : \A q \in Q : ~(<<q, m>> \in R)
    BY <1>1, WFMin
  <1> PICK m \in Q : \A q \in Q : ~(<<q, m>> \in R)
    BY <1>3
  <1>4. ASSUME NEW q \in Q PROVE m <= q
    <2>1. q \in Nat /\ m \in Nat /\ ~(q < m)
      BY <1>2
    <2> QED
      BY <2>1
  <1> QED
    BY <1>4

LEMMA SameSuffix ==
  ASSUME NEW S, NEW s \in Seq(S)
  PROVE  Suffix(s, s, 0)
  BY DEF Suffix

LEMMA SuffixSuffix ==
  ASSUME NEW S, NEW s \in Seq(S), NEW t \in Seq(S), NEW u \in Seq(S), NEW d, NEW e,
         Suffix(s, t, d), Suffix(t, u, e)
  PROVE  Suffix(s, u, d + e)
  <1>1. /\ d \in Nat /\ e \in Nat /\ d <= Len(s) /\ e <= Len(t) /\ Len(t) = Len(s) - d
        /\ Len(u) = Len(t) - e /\ Len(s) \in Nat /\ Len(t) \in Nat /\ Len(u) \in Nat
    BY DEF Suffix
  <1>2. d + e \in 0..Len(s) /\ Len(u) = Len(s) - (d + e)
    BY <1>1
  <1>3. ASSUME NEW i \in 1..Len(u) PROVE u[i] = s[i + (d + e)]
    <2>1. u[i] = t[i + e] /\ i + e \in 1..Len(t)
      BY <1>1 DEF Suffix
    <2>2. t[i + e] = s[(i + e) + d]
      BY <2>1 DEF Suffix
    <2>3. (i + e) + d = i + (d + e)
      BY <1>1
    <2> QED
      BY <2>1, <2>2, <2>3
  <1> QED
    BY <1>2, <1>3 DEF Suffix

\* What TryPop leaves: it starts with a header, if there is one.
LEMMA SyncSuffix ==
  ASSUME NEW S, NEW s \in Seq(S)
  PROVE  /\ Sync(s) \in Seq(S)
         /\ \E d \in 0..Len(s) : Suffix(s, Sync(s), d) /\ \A j \in 1..d : s[j].part # 1
         /\ Sync(s) # <<>> => Sync(s)[1].part = 1
         /\ (\A i \in 1..Len(s) : s[i].part = 1) => Sync(s) = s
  <1> DEFINE First(i) == i \in 1..Len(s) /\ s[i].part = 1 /\ \A j \in 1..(i - 1) : s[j].part # 1
             h == CHOOSE i \in 1..Len(s) : s[i].part = 1 /\ \A j \in 1..(i - 1) : s[j].part # 1
  <1>1. CASE \E i \in 1..Len(s) : s[i].part = 1
    <2>1. \E i \in 1..Len(s) : First(i)
      <3> PICK n \in 1..Len(s) : s[n].part = 1
        BY <1>1
      <3> DEFINE Q == {i \in 1..Len(s) : s[i].part = 1}
      <3>1. Q # {} /\ Q \subseteq Nat
        OBVIOUS
      <3>2. \E m \in Q : \A q \in Q : m <= q
        BY <3>1, Smallest
      <3> PICK m \in Q : \A q \in Q : m <= q
        BY <3>2
      <3>3. First(m)
        OBVIOUS
      <3> QED
        BY <3>3
    <2>2. First(h)
      BY <2>1
    <2> HIDE DEF h
    <2>3. Sync(s) = SubSeq(s, h, Len(s))
      BY <1>1 DEF Sync, h
    <2> DEFINE d == h - 1
    <2>4. d \in 0..Len(s) /\ h = d + 1 /\ h \in 1..Len(s)
      BY <2>2
    <2>5. Sync(s) = SubSeq(s, d + 1, Len(s))
      BY <2>3, <2>4
    <2>6. Sync(s) \in Seq(S) /\ Suffix(s, Sync(s), d)
      BY <2>4, <2>5, DropSuffix
    <2>7. Sync(s)[1].part = 1
      BY <2>2, <2>3
    <2>8. (\A i \in 1..Len(s) : s[i].part = 1) => Sync(s) = s
      <3> SUFFICES ASSUME \A i \in 1..Len(s) : s[i].part = 1 PROVE Sync(s) = s
        OBVIOUS
      <3>1. h = 1
        <4> SUFFICES ASSUME h # 1 PROVE FALSE
          OBVIOUS
        <4>1. 1 \in 1..(h - 1) /\ 1 \in 1..Len(s)
          BY <2>4
        <4> QED
          BY <2>2, <4>1
      <3> QED
        BY <2>3, <3>1
    <2>9. \A j \in 1..d : s[j].part # 1
      BY <2>2
    <2> HIDE DEF d
    <2> QED
      BY <2>4, <2>6, <2>7, <2>8, <2>9
  <1>2. CASE ~(\E i \in 1..Len(s) : s[i].part = 1)
    <2>1. Sync(s) = <<>>
      BY <1>2 DEF Sync
    <2>2. Suffix(s, <<>>, Len(s)) /\ Len(s) \in 0..Len(s)
      BY DEF Suffix
    <2>3. (\A i \in 1..Len(s) : s[i].part = 1) => s = <<>>
      BY <1>2
    <2>4. \A j \in 1..Len(s) : s[j].part # 1
      BY <1>2
    <2>5. <<>> \in Seq(S)
      OBVIOUS
    <2> QED
      BY <2>1, <2>2, <2>3, <2>4, <2>5
  <1> QED
    BY <1>1, <1>2

\* What the parser on either side does with pieces, frame by frame.
LEMMA FrameFacts ==
  ASSUME NEW M, NEW m \in M, NEW parts \in SUBSET Parts
  PROVE  /\ Frame(m, parts) \in Seq(Pieces(M)) /\ Len(Frame(m, parts)) \in 0..Width
         /\ parts = Parts => Len(Frame(m, parts)) = Width
         /\ \A i \in 1..Len(Frame(m, parts)) :
              /\ Frame(m, parts)[i].msg = m
              /\ Frame(m, parts)[i].part = Width => i = Len(Frame(m, parts))
         /\ Len(Frame(m, parts)) = 2 =>
              Frame(m, parts)[1].part = 1 /\ Frame(m, parts)[2] = [part |-> 2, msg |-> m]
  <1> DEFINE p1 == [part |-> 1, msg |-> m]
             p2 == [part |-> 2, msg |-> m]
  <1>1. p1.msg = m /\ p2.msg = m /\ p1.part = 1 /\ p2.part = 2
    OBVIOUS
  <1>2. p1 \in Pieces(M) /\ (~Hid => p2 \in Pieces(M))
    BY WidthType DEF Pieces
  <1>3. Hid => Width = 1 /\ parts \in {{}, {1}} /\ Parts = {1}
    BY WidthType
  <1>4. ~Hid => Width = 2 /\ parts \in {{}, {1}, {2}, {1, 2}} /\ Parts = {1, 2}
    <2> SUFFICES ASSUME ~Hid PROVE parts \in {{}, {1}, {2}, {1, 2}}
      BY WidthType
    <2>1. parts \subseteq {1, 2}
      BY WidthType
    <2> QED
      BY <2>1
  <1> DEFINE f == Frame(m, parts)
             g == IF 1 \in parts THEN <<p1>> ELSE <<>>
             h == IF 2 \in parts THEN <<p2>> ELSE <<>>
  <1>5. f = g \o h
    BY DEF Frame
  <1> HIDE DEF p1, p2
  <1>6. /\ g \in Seq(Pieces(M)) /\ Len(g) = (IF 1 \in parts THEN 1 ELSE 0)
        /\ 1 \in parts => g[1] = p1
    BY <1>2
  <1>7. /\ h \in Seq(Pieces(M)) /\ Len(h) = (IF 2 \in parts THEN 1 ELSE 0)
        /\ 2 \in parts => h[1] = p2
    BY <1>2, <1>3, <1>4
  <1> HIDE DEF f, g, h
  <1>8. /\ f \in Seq(Pieces(M)) /\ Len(f) = Len(g) + Len(h)
        /\ \A i \in 1..Len(f) : f[i] = IF i <= Len(g) THEN g[i] ELSE h[i - Len(g)]
    BY <1>5, <1>6, <1>7, ConcatProperties
  <1>9. ASSUME NEW i \in 1..Len(f) PROVE f[i].msg = m /\ (f[i].part = Width => i = Len(f))
    <2>1. f[i] = IF i <= Len(g) THEN g[i] ELSE h[i - Len(g)]
      BY <1>8
    <2>2. CASE i <= Len(g)
      <3>1. i = 1 /\ 1 \in parts /\ f[i] = p1
        BY <1>6, <2>1, <2>2
      <3> QED
        BY <1>1, <1>3, <1>4, <1>6, <1>7, <1>8, <3>1
    <2>3. CASE ~(i <= Len(g))
      <3>1. i - Len(g) = 1 /\ 2 \in parts /\ f[i] = h[i - Len(g)] /\ i = Len(f)
        BY <1>6, <1>7, <1>8, <2>1, <2>3
      <3> QED
        BY <1>1, <1>7, <3>1
    <2> QED
      BY <2>2, <2>3
  <1>10. Len(f) \in 0..Width /\ (parts = Parts => Len(f) = Width)
    <2>1. CASE Hid
      <3>1. ~(2 \in parts)
        BY <1>3, <2>1
      <3> QED
        BY <1>3, <1>6, <1>7, <1>8, <2>1, <3>1
    <2>2. CASE ~Hid
      BY <1>4, <1>6, <1>7, <1>8, <2>2
    <2> QED
      BY <2>1, <2>2
  <1>11. Len(f) = 2 => f[1].part = 1 /\ f[2] = [part |-> 2, msg |-> m]
    <2> SUFFICES ASSUME Len(f) = 2 PROVE f[1].part = 1 /\ f[2] = p2
      BY DEF p2
    <2>1. 1 \in parts /\ 2 \in parts /\ Len(g) = 1
      <3>1. Len(g) + Len(h) = 2
        BY <1>8
      <3>2. Len(g) = (IF 1 \in parts THEN 1 ELSE 0) /\ Len(h) = (IF 2 \in parts THEN 1 ELSE 0)
        BY <1>6, <1>7
      <3> QED
        BY <3>1, <3>2
    <2>2. f[1] = g[1] /\ f[2] = h[1]
      BY <1>8, <2>1
    <2> QED
      BY <1>1, <1>6, <1>7, <2>1, <2>2
  <1> QED
    BY <1>8, <1>9, <1>10, <1>11 DEF f

LEMMA AppendGrown ==
  ASSUME NEW M, NEW s \in Seq(Pieces(M)), NEW m \in M, NEW parts \in SUBSET Parts
  PROVE  /\ s \o Frame(m, parts) \in Seq(Pieces(M))
         /\ Grown(s, s \o Frame(m, parts), m)
  <1> DEFINE f == Frame(m, parts)
             t == s \o f
  <1>1. f \in Seq(Pieces(M)) /\ \A i \in 1..Len(f) : f[i].msg = m /\ (f[i].part = Width => i = Len(f))
    BY FrameFacts
  <1> HIDE DEF f
  <1>2. t \in Seq(Pieces(M)) /\ Len(t) = Len(s) + Len(f) /\ \A i \in 1..Len(s) : t[i] = s[i]
    BY <1>1
  <1>3. ASSUME NEW i \in (Len(s) + 1)..Len(t)
        PROVE  t[i].msg = m /\ (t[i].part = Width => i = Len(t))
    <2>1. t[i] = f[i - Len(s)] /\ i - Len(s) \in 1..Len(f)
      BY <1>1, <1>2
    <2> QED
      BY <1>1, <1>2, <2>1
  <1> QED
    BY <1>2, <1>3 DEF Grown, f

LEMMA SameGrown ==
  ASSUME NEW M, NEW s \in Seq(Pieces(M)), NEW m
  PROVE  Grown(s, s, m)
  BY DEF Grown

\* The firmware's ring takes a part of a frame, if it is full, and no more than it holds.
LEMMA ReceivedGrown ==
  ASSUME output \in Seq(Pieces(ReqMsg)), Len(output) <= RingSize,
         NEW m \in ReqMsg, NEW parts \in SUBSET Parts
  PROVE  /\ Received(Frame(m, parts)) \in Seq(Pieces(ReqMsg))
         /\ Len(Received(Frame(m, parts))) <= RingSize
         /\ Grown(output, Received(Frame(m, parts)), m)
  <1> DEFINE f == Frame(m, parts)
             t == output \o f
             u == SubSeq(t, 1, RingSize)
  <1>1. /\ t \in Seq(Pieces(ReqMsg)) /\ Grown(output, t, m) /\ f \in Seq(Pieces(ReqMsg))
    BY AppendGrown, FrameFacts
  <1> HIDE DEF f
  <1>2. Len(t) = Len(output) + Len(f)
    BY <1>1
  <1> HIDE DEF t
  <1>3. CASE Overflows(f)
    <2>1. RingSize \in 1..Len(t)
      BY <1>1, <1>2, <1>3, BridgeAssumption DEF Overflows
    <2>2. u \in Seq(Pieces(ReqMsg)) /\ Len(u) = RingSize /\ \A i \in 1..Len(u) : u[i] = t[i]
      BY <1>1, <2>1
    <2> HIDE DEF u
    <2>3. Grown(output, u, m)
      <3>1. Len(u) >= Len(output) /\ \A i \in 1..Len(output) : u[i] = output[i]
        BY <1>1, <2>1, <2>2 DEF Grown
      <3>2. ASSUME NEW i \in (Len(output) + 1)..Len(u)
            PROVE  u[i].msg = m /\ (u[i].part = Width => i = Len(u))
        <4>1. i \in (Len(output) + 1)..Len(t) /\ u[i] = t[i]
          BY <2>1, <2>2
        <4>2. t[i].msg = m /\ (t[i].part = Width => i = Len(t))
          BY <1>1, <4>1 DEF Grown
        <4> QED
          BY <2>1, <2>2, <4>1, <4>2
      <3> QED
        BY <3>1, <3>2 DEF Grown
    <2>4. Received(f) = u
      BY <1>3 DEF Received, u, t
    <2> QED
      BY <2>2, <2>3, <2>4 DEF f
  <1>4. CASE ~Overflows(f)
    <2>1. Received(f) = t
      BY <1>4 DEF Received, t
    <2>2. Len(t) <= RingSize
      BY <1>1, <1>2, <1>4, BridgeAssumption DEF Overflows
    <2> QED
      BY <1>1, <2>1, <2>2 DEF f
  <1> QED
    BY <1>3, <1>4

-----------------------------------------------------------------------------
(* Headers without a payload *)

LEMMA StraysFinite ==
  ASSUME NEW S, NEW s \in Seq(S)
  PROVE  IsFiniteSet(Strays(s)) /\ Cardinality(Strays(s)) \in Nat
  <1>1. IsFiniteSet(1..Len(s))
    BY FS_Interval
  <1>2. Strays(s) \in SUBSET (1..Len(s))
    BY DEF Strays
  <1> QED
    BY <1>1, <1>2, FS_Subset, FS_CardinalityType

\* Strays of what is left were strays before, behind what is gone.
LEMMA StraysLeft ==
  ASSUME NEW S, NEW s \in Seq(S), NEW t \in Seq(S), NEW d, Suffix(s, t, d),
         NEW Q \in SUBSET Strays(s), \A i \in Strays(s) : i > d => i \in Q
  PROVE  Cardinality(Strays(t)) <= Cardinality(Q)
  <1> DEFINE f == [i \in Strays(t) |-> i + d]
  <1>1. d \in Nat /\ Len(s) \in Nat /\ Len(t) = Len(s) - d
    BY DEF Suffix
  <1>2. ASSUME NEW i \in Strays(t) PROVE i + d \in Q
    <2>1. i \in 1..Len(t) /\ i + d \in 1..Len(s) /\ t[i] = s[i + d] /\ i + d > d
      BY <1>1 DEF Strays, Suffix
    <2>2. ~Hid /\ t[i].part = 1 /\ (i < Len(t) => t[i + 1] # [part |-> 2, msg |-> t[i].msg])
      BY DEF Strays
    <2>3. i + d < Len(s) => s[(i + d) + 1] # [part |-> 2, msg |-> s[i + d].msg]
      <3> SUFFICES ASSUME i + d < Len(s) PROVE s[(i + d) + 1] # [part |-> 2, msg |-> s[i + d].msg]
        OBVIOUS
      <3>1. i < Len(t) /\ i + 1 \in 1..Len(t)
        BY <1>1, <2>1
      <3>2. t[i + 1] = s[(i + 1) + d] /\ (i + 1) + d = (i + d) + 1
        BY <1>1, <2>1, <3>1 DEF Suffix
      <3> QED
        BY <2>1, <2>2, <3>1, <3>2
    <2>4. i + d \in Strays(s)
      BY <2>1, <2>2, <2>3 DEF Strays
    <2> QED
      BY <2>1, <2>4
  <1>3. f \in [Strays(t) -> Q] /\ \A i, j \in Strays(t) : f[i] = f[j] => i = j
    <2>1. f \in [Strays(t) -> Q]
      BY <1>2
    <2>2. \A i, j \in Strays(t) : f[i] = f[j] => i = j
      BY <1>1 DEF Strays
    <2> QED
      BY <2>1, <2>2
  <1> HIDE DEF f
  <1>4. f \in Injection(Strays(t), Q)
    BY <1>3 DEF Injection, IsInjective
  <1>5. IsFiniteSet(Q)
    BY StraysFinite, FS_Subset
  <1> QED
    BY <1>4, <1>5, FS_Injection

LEMMA StraysSuffix ==
  ASSUME NEW S, NEW s \in Seq(S), NEW t \in Seq(S), NEW d, Suffix(s, t, d)
  PROVE  Cardinality(Strays(t)) <= Cardinality(Strays(s))
  BY StraysLeft

\* The header that PopNothing drops was one.
LEMMA StraysTail ==
  ASSUME NEW S, NEW s \in Seq(S), NEW t \in Seq(S), NEW d, Suffix(s, t, d),
         NEW i \in 1..d, i \in Strays(s)
  PROVE  Cardinality(Strays(t)) <= Cardinality(Strays(s)) - 1
  <1> DEFINE Q == Strays(s) \ {i}
  <1>1. Q \in SUBSET Strays(s) /\ \A j \in Strays(s) : j > d => j \in Q
    BY DEF Strays, Suffix
  <1>2. Cardinality(Q) = Cardinality(Strays(s)) - 1
    BY StraysFinite, FS_RemoveElement
  <1> HIDE DEF Q
  <1> QED
    BY <1>1, <1>2, StraysLeft

\* A frame leaves no header alone, unless it is cut.
LEMMA StraysAppend ==
  ASSUME NEW M, NEW s \in Seq(Pieces(M)), NEW m \in M, NEW parts \in SUBSET Parts
  PROVE  Cardinality(Strays(s \o Frame(m, parts)))
           <= Cardinality(Strays(s)) + (IF parts = Parts THEN 0 ELSE 1)
  <1> DEFINE f == Frame(m, parts)
             t == s \o f
             n == Len(s) + 1
  <1>1. /\ f \in Seq(Pieces(M)) /\ Len(f) \in 0..Width /\ (parts = Parts => Len(f) = Width)
        /\ Len(f) = 2 => f[1].part = 1 /\ f[2] = [part |-> 2, msg |-> m]
        /\ \A i \in 1..Len(f) : f[i].msg = m
    BY FrameFacts
  <1> HIDE DEF f
  <1>2. t \in Seq(Pieces(M)) /\ Len(t) = Len(s) + Len(f)
    BY <1>1
  <1>3. \A i \in 1..Len(t) : t[i] = IF i <= Len(s) THEN s[i] ELSE f[i - Len(s)]
    BY <1>1, ConcatProperties
  <1> HIDE DEF t
  <1>4. Strays(t) \subseteq Strays(s) \cup {n}
    <2> SUFFICES ASSUME NEW i \in Strays(t), i # n PROVE i \in Strays(s)
      OBVIOUS
    <2>1. /\ i \in 1..Len(t) /\ ~Hid /\ t[i].part = 1
          /\ i < Len(t) => t[i + 1] # [part |-> 2, msg |-> t[i].msg]
      BY DEF Strays
    <2>2. Len(f) \in 0..2 /\ Width = 2
      BY <1>1, <2>1, WidthType
    <2>3. i <= Len(s)
      <3> SUFFICES ASSUME i > Len(s) PROVE FALSE
        BY <2>1
      <3>1. i = Len(s) + 2 /\ Len(f) = 2 /\ t[i] = f[2]
        BY <1>2, <1>3, <2>1, <2>2
      <3> QED
        BY <1>1, <2>1, <3>1
    <2>4. t[i] = s[i] /\ (i < Len(s) => t[i + 1] = s[i + 1])
      BY <1>2, <1>3, <2>1, <2>3
    <2> QED
      BY <1>2, <2>1, <2>3, <2>4 DEF Strays
  <1>5. parts = Parts => n \notin Strays(t)
    <2> SUFFICES ASSUME parts = Parts, n \in Strays(t) PROVE FALSE
      OBVIOUS
    <2>1. /\ ~Hid /\ n < Len(t) => t[n + 1] # [part |-> 2, msg |-> t[n].msg]
      BY DEF Strays
    <2>2. Len(f) = 2 /\ ~Hid
      BY <1>1, WidthType DEF Strays
    <2>3. n < Len(t) /\ t[n + 1] = f[2] /\ t[n] = f[1]
      BY <1>2, <1>3, <2>2
    <2> QED
      BY <1>1, <2>1, <2>2, <2>3
  <1>6. IsFiniteSet(Strays(s)) /\ Cardinality(Strays(s)) \in Nat
    BY StraysFinite
  <1>7. CASE parts = Parts
    <2>1. Strays(t) \in SUBSET Strays(s)
      BY <1>4, <1>5, <1>7
    <2>2. Cardinality(Strays(t)) <= Cardinality(Strays(s))
      BY <1>6, <2>1, FS_Subset
    <2> QED
      BY <1>6, <1>7, <2>2 DEF t, f
  <1>8. CASE parts # Parts
    <2>1. /\ IsFiniteSet(Strays(s) \cup {n}) /\ Cardinality(Strays(s) \cup {n}) \in Nat
          /\ Cardinality(Strays(s) \cup {n}) <= Cardinality(Strays(s)) + 1
      <3>1. /\ IsFiniteSet(Strays(s) \cup {n})
            /\ Cardinality(Strays(s) \cup {n}) =
                 IF n \in Strays(s) THEN Cardinality(Strays(s)) ELSE Cardinality(Strays(s)) + 1
        BY <1>6, FS_AddElement
      <3> QED
        BY <1>6, <3>1
    <2>2. /\ Cardinality(Strays(t)) <= Cardinality(Strays(s) \cup {n})
          /\ Cardinality(Strays(t)) \in Nat
      <3>1. Strays(t) \in SUBSET (Strays(s) \cup {n})
        BY <1>4
      <3> QED
        BY <2>1, <3>1, FS_Subset, FS_CardinalityType
    <2>3. Cardinality(Strays(t)) <= Cardinality(Strays(s)) + 1
      BY <1>6, <2>1, <2>2
    <2> QED
      BY <1>8, <2>3 DEF t, f
  <1> QED
    BY <1>7, <1>8

LEMMA NoStrays ==
  /\ Cardinality(Strays(<<>>)) = 0
  /\ Hid => \A s : Cardinality(Strays(s)) = 0
  <1>1. Strays(<<>>) = {} /\ (Hid => \A s : Strays(s) = {})
    BY DEF Strays
  <1> QED
    BY <1>1, FS_EmptySet

-----------------------------------------------------------------------------
(* Sequence numbers *)

LEMMA ModTwice ==
  ASSUME NEW N \in Nat \ {0}, NEW x \in 0..(2 * N - 1)
  PROVE  x % N = IF x < N THEN x ELSE x - N
  <1>1. CASE x < N
    BY <1>1
  <1>2. CASE ~(x < N)
    <2>1. x = N * (x \div N) + (x % N) /\ x \div N \in Int /\ x % N \in 0..(N - 1)
      OBVIOUS
    <2>2. x \div N = 1
      <3> DEFINE q == x \div N
      <3>1. N * q > 0 /\ N * q < 2 * N /\ q \in Int
        BY <1>2, <2>1
      <3> HIDE DEF q
      <3>2. q > 0
        BY <3>1
      <3>3. q < 2
        BY <3>1
      <3> QED
        BY <3>1, <3>2, <3>3 DEF q
    <2> QED
      BY <1>2, <2>1, <2>2
  <1> QED
    BY <1>1, <1>2

AgeAt(n, q) == (q + SeqMod - 1 - n) % SeqMod
SeqNumbers == 0..(SeqMod - 1)

LEMMA AgeAtFacts ==
  ASSUME NEW n \in SeqNumbers, NEW q \in SeqNumbers
  PROVE  /\ AgeAt(n, q) \in SeqNumbers
         /\ AgeAt(n, q) = 0 <=> (n + 1) % SeqMod = q
         /\ AgeAt(n, (n + 1) % SeqMod) = 0
         /\ (q + 1) % SeqMod \in SeqNumbers
         /\ AgeAt(n, q) + 1 < SeqMod => AgeAt(n, (q + 1) % SeqMod) = AgeAt(n, q) + 1
  <1> DEFINE N == SeqMod
  <1>1. N \in Nat \ {0, 1} /\ n \in 0..(N - 1) /\ q \in 0..(N - 1)
    BY BridgeAssumption DEF SeqNumbers
  <1>2. \A r \in 0..(N - 1) : AgeAt(n, r) = IF r - 1 - n < 0 THEN r + N - 1 - n ELSE r - 1 - n
    <2> TAKE r \in 0..(N - 1)
    <2> DEFINE x == r + N - 1 - n
    <2>1. x \in 0..(2 * N - 1) /\ N \in Nat \ {0}
      BY <1>1
    <2>2. x % N = IF x < N THEN x ELSE x - N
      BY <2>1, ModTwice
    <2>3. AgeAt(n, r) = x % N
      BY DEF AgeAt
    <2> HIDE DEF N
    <2> QED
      BY <1>1, <2>2, <2>3
  <1>3. \A r \in 0..(N - 1) : (r + 1) % N = IF r + 1 < N THEN r + 1 ELSE 0
    <2> TAKE r \in 0..(N - 1)
    <2>1. r + 1 \in 0..(2 * N - 1) /\ N \in Nat \ {0}
      BY <1>1
    <2> DEFINE x == r + 1
    <2>2. x % N = IF x < N THEN x ELSE x - N
      BY <2>1, ModTwice
    <2> HIDE DEF N
    <2> QED
      BY <1>1, <2>2
  <1> DEFINE n1 == (n + 1) % N
             q1 == (q + 1) % N
  <1>4. n1 = (IF n + 1 < N THEN n + 1 ELSE 0) /\ q1 = (IF q + 1 < N THEN q + 1 ELSE 0)
    BY <1>1, <1>3
  <1> HIDE DEF N, n1, q1
  <1>5. n1 \in 0..(N - 1) /\ q1 \in 0..(N - 1)
    BY <1>1, <1>4
  <1>6. /\ AgeAt(n, q) = IF q - 1 - n < 0 THEN q + N - 1 - n ELSE q - 1 - n
        /\ AgeAt(n, n1) = IF n1 - 1 - n < 0 THEN n1 + N - 1 - n ELSE n1 - 1 - n
        /\ AgeAt(n, q1) = IF q1 - 1 - n < 0 THEN q1 + N - 1 - n ELSE q1 - 1 - n
    BY <1>1, <1>2, <1>5
  <1>7. AgeAt(n, q) \in 0..(N - 1)
    BY <1>1, <1>6
  <1>8. AgeAt(n, q) = 0 <=> n1 = q
    BY <1>1, <1>4, <1>6
  <1>9. AgeAt(n, n1) = 0
    BY <1>1, <1>4, <1>6
  <1>10. AgeAt(n, q) + 1 < N => AgeAt(n, q1) = AgeAt(n, q) + 1
    BY <1>1, <1>4, <1>6
  <1> QED
    BY <1>5, <1>7, <1>8, <1>9, <1>10 DEF N, n1, q1, SeqNumbers

\* A message is of age 0 until the next request is sent.
LEMMA AgeFacts ==
  ASSUME seq \in SeqNumbers, NEW m, m.seq \in SeqNumbers
  PROVE  /\ Age(m) \in SeqNumbers /\ Age(m) \in Nat
         /\ Age(m) = AgeAt(m.seq, seq)
         /\ Fits(m) <=> m.cmd = Cmd /\ Age(m) = 0
  <1>1. Age(m) = AgeAt(m.seq, seq)
    BY DEF Age, AgeAt
  <1>2. AgeAt(m.seq, seq) \in SeqNumbers /\ (AgeAt(m.seq, seq) = 0 <=> (m.seq + 1) % SeqMod = seq)
    BY AgeAtFacts
  <1>3. AgeAt(m.seq, seq) \in Nat
    BY <1>2, BridgeAssumption DEF SeqNumbers
  <1> QED
    BY <1>1, <1>2, <1>3 DEF Fits

-----------------------------------------------------------------------------
(* Requests *)

Calls == Transfers \cup {"none", "info", "deinit", "reset"}

\* The request the client is at, without the CASEs of its definition.
LEMMA CmdFacts ==
  ASSUME call \in Calls, step \in 0..(Chunks + 2)
  PROVE  /\ call \notin Transfers => Cmd = call
         /\ call \in Transfers /\ step = 0 => Cmd = "init"
         /\ call \in Transfers /\ step = 1 => Cmd = "clear"
         /\ call = "write" /\ step \in 2..(Chunks + 1) => Cmd = "append"
         /\ call = "write" /\ step = Chunks + 2 => Cmd = "write"
         /\ call = "read" /\ step = 2 => Cmd = "read"
         /\ call = "read" /\ step > 2 => Cmd = "fetch"
         /\ call # "none" => Cmd \in Cmds
         /\ Cmd \in Later => call \in Transfers /\ step >= 2
         /\ Cmd = "append" => call = "write" /\ step \in 2..(Chunks + 1)
         /\ Cmd = "write" => call = "write" /\ step = Chunks + 2
         /\ Cmd = "read" => call = "read" /\ step = 2
         /\ Cmd = "fetch" => call = "read" /\ step > 2
  <1>0. Chunks \in Nat \ {0}
    BY BridgeAssumption
  <1>1. CASE call = "write"
    <2>1. Cmd = WriteStep(step)
      BY <1>1 DEF Cmd
    <2>2. CASE step = 0
      BY <1>0, <1>1, <2>1, <2>2 DEF WriteStep, Transfers, Later, Cmds
    <2>3. CASE step = 1
      BY <1>0, <1>1, <2>1, <2>3 DEF WriteStep, Transfers, Later, Cmds
    <2>4. CASE step = Chunks + 2
      BY <1>0, <1>1, <2>1, <2>4 DEF WriteStep, Transfers, Later, Cmds
    <2>5. CASE step \in 2..(Chunks + 1)
      BY <1>0, <1>1, <2>1, <2>5 DEF WriteStep, Transfers, Later, Cmds
    <2> QED
      BY <1>0, <2>2, <2>3, <2>4, <2>5
  <1>2. CASE call = "read"
    <2>1. Cmd = ReadStep(step)
      BY <1>2 DEF Cmd
    <2>2. CASE step = 0
      BY <1>2, <2>1, <2>2 DEF ReadStep, Transfers, Later, Cmds
    <2>3. CASE step = 1
      BY <1>2, <2>1, <2>3 DEF ReadStep, Transfers, Later, Cmds
    <2>4. CASE step = 2
      BY <1>2, <2>1, <2>4 DEF ReadStep, Transfers, Later, Cmds
    <2>5. CASE step > 2
      BY <1>2, <2>1, <2>5 DEF ReadStep, Transfers, Later, Cmds
    <2> QED
      BY <2>2, <2>3, <2>4, <2>5
  <1>3. CASE call \notin Transfers
    BY <1>3 DEF Cmd, Transfers, Calls, Later, Cmds
  <1> QED
    BY <1>1, <1>2, <1>3 DEF Transfers

\* The number of a request: of the chunk it appends, or of those fetched before.
LEMMA RequestFacts ==
  /\ Request.cmd = Cmd /\ Request.seq = seq /\ Request.op = op
  /\ Request.n = IF Cmd = "append" THEN step - 1 ELSE IF Cmd = "fetch" THEN Len(got) ELSE 0
  /\ Request = [cmd |-> Cmd, seq |-> seq, op |-> op, n |-> Request.n]
  <1>1. CASE Cmd = "append"
    BY <1>1 DEF Request
  <1>2. CASE Cmd = "fetch"
    BY <1>2 DEF Request
  <1>3. CASE Cmd # "append" /\ Cmd # "fetch"
    BY <1>3 DEF Request
  <1> QED
    BY <1>1, <1>2, <1>3

LEMMA RequestType ==
  ASSUME TypeOK, Shape, call # "none"
  PROVE  Request \in ReqMsg
  <1>1. call \in Calls /\ step \in 0..(Chunks + 2) /\ op \in Nat /\ seq \in 0..(SeqMod - 1)
    BY BridgeAssumption DEF TypeOK, Calls
  <1>2. Cmd \in Cmds
    BY <1>1, CmdFacts
  <1>3. Len(got) \in Nat
    BY DEF Shape
  <1>4. Request.n \in Nat
    <2>1. Cmd = "append" => step - 1 \in Nat
      BY <1>1, CmdFacts, BridgeAssumption
    <2> QED
      BY <1>3, <2>1, RequestFacts
  <1> QED
    BY <1>1, <1>2, <1>4, RequestFacts DEF ReqMsg

LEMMA PieceTypes ==
  ASSUME Shape
  PROVE  /\ input \in Seq(Pieces(RespMsg)) /\ output \in Seq(Pieces(ReqMsg))
         /\ \A i \in 1..Len(input) :
              /\ input[i] \in Pieces(RespMsg) /\ input[i].part \in Parts
              /\ input[i].msg \in RespMsg /\ input[i].msg.seq \in SeqNumbers
         /\ \A i \in 1..Len(output) :
              /\ output[i] \in Pieces(ReqMsg) /\ output[i].part \in Parts
              /\ output[i].msg \in ReqMsg /\ output[i].msg.seq \in SeqNumbers
         /\ reply # NoReply => reply \in RespMsg /\ reply.seq \in SeqNumbers
         /\ \A r \in RespMsg : r # NoReply
  <1>1. input \in Seq(Pieces(RespMsg)) /\ output \in Seq(Pieces(ReqMsg))
    BY DEF Shape, Pieces
  <1>2. ASSUME NEW i \in 1..Len(input)
        PROVE  /\ input[i] \in Pieces(RespMsg) /\ input[i].part \in Parts
               /\ input[i].msg \in RespMsg /\ input[i].msg.seq \in SeqNumbers
    <2>1. input[i] \in Pieces(RespMsg)
      BY <1>1
    <2> QED
      BY <2>1 DEF Pieces, RespMsg, SeqNumbers
  <1>3. ASSUME NEW i \in 1..Len(output)
        PROVE  /\ output[i] \in Pieces(ReqMsg) /\ output[i].part \in Parts
               /\ output[i].msg \in ReqMsg /\ output[i].msg.seq \in SeqNumbers
    <2>1. output[i] \in Pieces(ReqMsg)
      BY <1>1
    <2> QED
      BY <2>1 DEF Pieces, ReqMsg, SeqNumbers
  <1>4. reply # NoReply => reply \in RespMsg /\ reply.seq \in SeqNumbers
    BY DEF Shape, RespMsg, SeqNumbers
  <1>5. \A r \in RespMsg : r # NoReply
    <2> SUFFICES ASSUME NoReply \in RespMsg PROVE FALSE
      OBVIOUS
    <2>1. NoReply.cmd \in Cmds
      BY DEF RespMsg
    <2> QED
      BY <2>1 DEF NoReply, Cmds, Later
  <1> QED
    BY <1>1, <1>2, <1>3, <1>4, <1>5

-----------------------------------------------------------------------------
(* The pipe: responses, the endpoint's buffer, requests *)

\* How much of the budget of faults a frame under way may have seen.
Left(k) == faults + 1 - k - Stray
InAge == IF phase = "send" THEN 1 ELSE 0
OutAge == IF phase \in {"send", "last"} THEN 1 ELSE 0

LEMMA YoungParts ==
  ASSUME NEW k
  PROVE  Young(k) <=>
           /\ Stray <= faults
           /\ \A i \in Ours(k) : Age(input[i].msg) + InAge <= Left(k)
           /\ OurReply(k) => Age(reply) + OutAge <= Left(k)
           /\ \A i \in Ends(output) : Age(output[i].msg) + OutAge <= Left(k)
  BY DEF Young, Left, InAge, OutAge

LEMMA StrayType ==
  ASSUME Shape
  PROVE  Stray \in Nat /\ (Hid => Stray = 0)
  BY PieceTypes, StraysFinite, NoStrays DEF Stray

\* Stray after a step.
LEMMA StrayNext ==
  ASSUME transport' = transport
  PROVE  Stray' = Cardinality(Strays(input'))
  BY DEF Stray, Strays, Hid

LEMMA EndsNext ==
  ASSUME transport' = transport
  PROVE  /\ Width' = Width
         /\ Ends(output)' = {i \in 1..Len(output') : output'[i].part = Width}
         /\ Ends(input)' = {i \in 1..Len(input') : input'[i].part = Width}
  BY DEF Ends, Width, Hid

\* What of k is left when d pieces of the input are gone.
Strange(k, d) == IF d = 0 THEN k ELSE 0

\* Frames left in a row that lost its front were in it before, d places further.
LEMMA SuffixOurs ==
  ASSUME Shape, NEW k \in {0, 1}, NEW d, NEW e, transport' = transport, reply' = reply,
         Suffix(input, input', d), Suffix(output, output', e)
  PROVE  /\ \A i \in Ours(Strange(k, d))' : i + d \in Ours(k) /\ input'[i] = input[i + d]
         /\ \A i \in Ends(output)' : i + e \in Ends(output) /\ output'[i] = output[i + e]
         /\ OurReply(Strange(k, d))' => OurReply(k)
         /\ \A i \in Ends(input)' : i + d \in Ends(input) /\ input'[i] = input[i + d]
         /\ d \in Nat /\ e \in Nat /\ Strange(k, d) \in {0, 1}
  <1>1. /\ d \in 0..Len(input) /\ Len(input') = Len(input) - d /\ Len(input) \in Nat
        /\ \A i \in 1..Len(input') : input'[i] = input[i + d]
    BY PieceTypes DEF Suffix
  <1>2. /\ e \in 0..Len(output) /\ Len(output') = Len(output) - e /\ Len(output) \in Nat
        /\ \A i \in 1..Len(output') : output'[i] = output[i + e]
    BY PieceTypes DEF Suffix
  <1>3. ASSUME NEW i \in Ends(output)'
        PROVE  i + e \in Ends(output) /\ output'[i] = output[i + e]
    <2>1. i \in 1..Len(output') /\ output'[i].part = Width
      BY EndsNext
    <2>2. i + e \in 1..Len(output)
      BY <1>2, <2>1
    <2> QED
      BY <1>2, <2>1, <2>2 DEF Ends
  <1>4. ASSUME NEW i \in Ends(input)'
        PROVE  i + d \in Ends(input) /\ input'[i] = input[i + d] /\ i \in 1..Len(input')
    <2>1. i \in 1..Len(input') /\ input'[i].part = Width
      BY EndsNext
    <2>2. i + d \in 1..Len(input)
      BY <1>1, <2>1
    <2> QED
      BY <1>1, <2>1, <2>2 DEF Ends
  <1>5. ASSUME NEW i \in Ours(Strange(k, d))' PROVE i + d \in Ours(k) /\ input'[i] = input[i + d]
    <2>1. i \in Ends(input)' /\ i > Strange(k, d)
      BY DEF Ours, Strange
    <2>2. i + d > k
      BY <1>1, <1>4, <2>1 DEF Strange
    <2> QED
      BY <1>4, <2>1, <2>2 DEF Ours
  <1>6. OurReply(Strange(k, d))' => OurReply(k)
    <2> SUFFICES ASSUME OurReply(Strange(k, d))' PROVE OurReply(k)
      OBVIOUS
    <2>1. reply # NoReply /\ Strange(k, d) <= Len(input')
      BY DEF OurReply, Strange, NoReply
    <2> QED
      BY <1>1, <2>1 DEF OurReply, Strange
  <1> QED
    BY <1>1, <1>2, <1>3, <1>4, <1>5, <1>6 DEF Strange

LEMMA SuffixOrder ==
  ASSUME Shape, NEW k \in {0, 1}, NEW d, NEW e, transport' = transport, reply' = reply,
         seq' = seq, Suffix(input, input', d), Suffix(output, output', e), LatestIsLast(k)
  PROVE  LatestIsLast(Strange(k, d))'
  <1> DEFINE j == Strange(k, d)
  <1>0. /\ \A i \in Ours(j)' : i + d \in Ours(k) /\ input'[i] = input[i + d]
        /\ \A i \in Ends(output)' : i + e \in Ends(output) /\ output'[i] = output[i + e]
        /\ OurReply(j)' => OurReply(k)
        /\ d \in Nat /\ e \in Nat
    BY SuffixOurs
  <1>00. /\ \A i \in Ours(j)' : i \in Nat
         /\ \A i \in Ends(output)' : i \in Nat
    BY EndsNext DEF Ours
  <1> HIDE DEF j
  <1>1. ASSUME NEW i \in Ours(j)', NEW n \in Ours(j)', i < n PROVE Age(input[i].msg)' # 0
    <2>1. i + d \in Ours(k) /\ n + d \in Ours(k) /\ i + d < n + d /\ input'[i] = input[i + d]
      BY <1>0, <1>00, <1>1
    <2>2. Age(input[i + d].msg) # 0
      BY <2>1 DEF LatestIsLast
    <2> QED
      BY <2>1, <2>2 DEF Age
  <1>2. ASSUME NEW i \in Ours(j)', reply' # NoReply \/ Ends(output)' # {}
        PROVE  Age(input[i].msg)' # 0
    <2>1. i + d \in Ours(k) /\ (reply # NoReply \/ Ends(output) # {}) /\ input'[i] = input[i + d]
      BY <1>0, <1>2
    <2>2. Age(input[i + d].msg) # 0
      BY <2>1 DEF LatestIsLast
    <2> QED
      BY <2>1, <2>2 DEF Age
  <1>3. ASSUME OurReply(j)', Ends(output)' # {} PROVE Age(reply)' # 0
    <2>1. OurReply(k) /\ Ends(output) # {}
      BY <1>0, <1>3
    <2>2. Age(reply) # 0
      BY <2>1 DEF LatestIsLast
    <2> QED
      BY <2>2 DEF Age
  <1>4. ASSUME NEW i \in Ends(output)', NEW n \in Ends(output)', i < n
        PROVE  Age(output[i].msg)' # 0
    <2>1. i + e \in Ends(output) /\ n + e \in Ends(output) /\ i + e < n + e
          /\ output'[i] = output[i + e]
      BY <1>0, <1>00, <1>4
    <2>2. Age(output[i + e].msg) # 0
      BY <2>1 DEF LatestIsLast
    <2> QED
      BY <2>1, <2>2 DEF Age
  <1>5. NoReply' = NoReply
    BY DEF NoReply
  <1> QED
    BY <1>1, <1>2, <1>3, <1>4, <1>5 DEF LatestIsLast, j, Strange

LEMMA SuffixYoung ==
  ASSUME Shape, Shape', TypeOK, NEW k \in {0, 1}, NEW d, NEW e, transport' = transport, reply' = reply,
         seq' = seq, Suffix(input, input', d), Suffix(output, output', e), Young(k),
         faults' = faults, InAge' <= InAge, OutAge' <= OutAge
  PROVE  Young(Strange(k, d))'
  <1> DEFINE j == Strange(k, d)
  <1>0. /\ \A i \in Ours(j)' : i + d \in Ours(k) /\ input'[i] = input[i + d]
        /\ \A i \in Ends(output)' : i + e \in Ends(output) /\ output'[i] = output[i + e]
        /\ OurReply(j)' => OurReply(k)
        /\ j \in {0, 1}
    BY SuffixOurs
  <1>1. Stray' <= Stray /\ Stray \in Nat /\ Stray' \in Nat
    <2>1. input \in Seq(Pieces(RespMsg)) /\ input' \in Seq(Pieces(RespMsg))
      BY PieceTypes DEF Shape, Pieces, Parts, Hid
    <2>2. Cardinality(Strays(input')) <= Cardinality(Strays(input))
      BY <2>1, StraysSuffix
    <2>3. Cardinality(Strays(input')) \in Nat /\ Cardinality(Strays(input)) \in Nat
      BY <2>1, StraysFinite
    <2> QED
      BY <2>2, <2>3, StrayNext DEF Stray
  <1>2. j <= k /\ k \in Nat /\ faults \in Nat
    BY BridgeAssumption DEF Strange, Shape
  <1>3. Left(k) <= Left(j)' /\ Left(k) \in Int /\ Left(j)' \in Int
    <2>1. Left(j)' = faults' + 1 - j - Stray'
      BY DEF Left, Strange
    <2> QED
      BY <1>0, <1>1, <1>2, <2>1 DEF Left
  <1>4. /\ InAge \in {0, 1} /\ OutAge \in {0, 1} /\ InAge' \in {0, 1} /\ OutAge' \in {0, 1}
    BY DEF InAge, OutAge
  <1>5. Stray <= faults /\ Stray' <= faults'
    <2>1. Stray <= faults
      BY YoungParts
    <2> QED
      BY <1>1, <1>2, <2>1
  <1>6. seq \in SeqNumbers
    BY DEF TypeOK, SeqNumbers
  <1> HIDE DEF j
  <1>7. ASSUME NEW i \in Ours(j)' PROVE Age(input[i].msg)' + InAge' <= Left(j)'
    <2>1. i + d \in Ours(k) /\ Age(input[i].msg)' = Age(input[i + d].msg)
      BY <1>0 DEF Age
    <2>2. Age(input[i + d].msg) + InAge <= Left(k)
      BY <2>1, YoungParts
    <2>3. Age(input[i + d].msg) \in Nat
      BY <1>6, <2>1, AgeFacts, PieceTypes DEF Ours, Ends
    <2> QED
      BY <1>3, <1>4, <2>1, <2>2, <2>3
  <1>8. ASSUME OurReply(j)' PROVE Age(reply)' + OutAge' <= Left(j)'
    <2>1. OurReply(k) /\ Age(reply)' = Age(reply)
      BY <1>0, <1>8 DEF Age
    <2>2. Age(reply) + OutAge <= Left(k)
      BY <2>1, YoungParts
    <2>3. Age(reply) \in Nat
      BY <1>6, <2>1, AgeFacts, PieceTypes DEF OurReply
    <2> QED
      BY <1>3, <1>4, <2>1, <2>2, <2>3
  <1>9. ASSUME NEW i \in Ends(output)' PROVE Age(output[i].msg)' + OutAge' <= Left(j)'
    <2>1. i + e \in Ends(output) /\ Age(output[i].msg)' = Age(output[i + e].msg)
      BY <1>0 DEF Age
    <2>2. Age(output[i + e].msg) + OutAge <= Left(k)
      BY <2>1, YoungParts
    <2>3. Age(output[i + e].msg) \in Nat
      BY <1>6, <2>1, AgeFacts, PieceTypes DEF Ends
    <2> QED
      BY <1>3, <1>4, <2>1, <2>2, <2>3
  <1> QED
    BY <1>5, <1>7, <1>8, <1>9 DEF Young, Left, InAge, OutAge, j, Strange

\* The call and the buffers it relies on are as they were.
callVars == <<call, step, got, op, seq, ready, stageTx, stageRx, wire>>

LEMMA CallSame ==
  ASSUME UNCHANGED callVars
  PROVE  /\ Cmd' = Cmd /\ Request' = Request
         /\ Prepared(step + 1)' <=> Prepared(step + 1)
  <1>0. UNCHANGED <<call, step, got, op, seq, ready, stageTx, stageRx, wire>>
    BY DEF callVars
  <1>1. Cmd' = Cmd
    BY <1>0 DEF Cmd, WriteStep, ReadStep
  <1>2. Request' = Request
    BY <1>0, <1>1 DEF Request
  <1>3. Prepared(step + 1)' <=> Prepared(step + 1)
    BY <1>0 DEF Prepared, Executed, Upto, TransferOf
  <1> QED
    BY <1>1, <1>2, <1>3

LEMMA SuffixAnswers ==
  ASSUME Shape, NEW k \in {0, 1}, NEW d, NEW e, transport' = transport, reply' = reply,
         Suffix(input, input', d), Suffix(output, output', e), UNCHANGED callVars,
         AnswerInv(k), phase # "send" \/ phase' = "send"
  PROVE  AnswerInv(Strange(k, d))'
  <1> DEFINE j == Strange(k, d)
  <1>0. /\ \A i \in Ours(j)' : i + d \in Ours(k) /\ input'[i] = input[i + d]
        /\ \A i \in Ends(output)' : i + e \in Ends(output) /\ output'[i] = output[i + e]
        /\ OurReply(j)' => OurReply(k)
    BY SuffixOurs
  <1> HIDE DEF j
  <1> SUFFICES ASSUME phase' # "send" PROVE AnswerInv(j)'
    BY DEF AnswerInv, j, Strange
  <1>1. /\ Cmd' = Cmd /\ Request' = Request
        /\ Prepared(step + 1)' <=> Prepared(step + 1)
        /\ UNCHANGED <<call, step, got, op, seq>>
    BY CallSame DEF callVars
  <1>2. /\ \A i \in Ends(output) :
             Age(output[i].msg) = 0 => output[i].msg = [Request EXCEPT !.seq = output[i].msg.seq]
        /\ \A i \in Ours(k) : Right(input[i].msg)
        /\ OurReply(k) => Right(reply)
    BY DEF AnswerInv
  <1>3. ASSUME NEW i \in Ends(output)', Age(output[i].msg)' = 0
        PROVE  output'[i].msg = [Request' EXCEPT !.seq = output'[i].msg.seq]
    <2>1. i + e \in Ends(output) /\ output'[i] = output[i + e] /\ Age(output[i + e].msg) = 0
      BY <1>0, <1>1, <1>3 DEF Age
    <2> QED
      BY <1>1, <1>2, <2>1
  <1>4. ASSUME NEW i \in Ours(j)' PROVE Right(input[i].msg)'
    <2>1. Right(input[i + d].msg) /\ input'[i] = input[i + d]
      BY <1>0, <1>2
    <2> QED
      BY <1>1, <2>1 DEF Right, Fits, Refused
  <1>5. ASSUME OurReply(j)' PROVE Right(reply)'
    <2>1. Right(reply)
      BY <1>0, <1>2, <1>5
    <2> QED
      BY <1>1, <2>1 DEF Right, Fits, Refused
  <1> QED
    BY <1>3, <1>4, <1>5 DEF AnswerInv

\* The pipe loses frames at its front, or at the front of the requests, and
\* the client does not ask for more.
LEMMA PipeShrinks ==
  ASSUME Shape, Shape', TypeOK, NEW k \in {0, 1}, NEW d, NEW e,
         UNCHANGED <<transport, reply, faults, enabled>>, UNCHANGED callVars,
         phase' = phase \/ (phase = "pop" /\ phase' = "read"),
         Suffix(input, input', d), Suffix(output, output', e), PipeInv(k)
  PROVE  PipeInv(Strange(k, d))'
  <1>0. LatestIsLast(k) /\ Young(k) /\ AnswerInv(k)
    BY DEF PipeInv
  <1>1. seq' = seq /\ call' = call /\ step' = step /\ enabled' = enabled
    BY DEF callVars
  <1>2. InAge' <= InAge /\ OutAge' <= OutAge
    BY DEF InAge, OutAge
  <1>3. LatestIsLast(Strange(k, d))'
    BY <1>0, <1>1, SuffixOrder
  <1>4. Young(Strange(k, d))'
    BY <1>0, <1>1, <1>2, SuffixYoung
  <1>5. AnswerInv(Strange(k, d))'
    BY <1>0, SuffixAnswers
  <1>6. Strange(k, d) = 1 =>
          /\ Hid' /\ ~enabled' /\ (call' \in Transfers => step' = 0)
          /\ input' # <<>> \/ reply' # NoReply
    <2> SUFFICES ASSUME Strange(k, d) = 1
                 PROVE  /\ Hid' /\ ~enabled' /\ (call' \in Transfers => step' = 0)
                        /\ input' # <<>> \/ reply' # NoReply
      OBVIOUS
    <2>1. k = 1 /\ d = 0
      BY DEF Strange
    <2>2. Hid /\ ~enabled /\ (call \in Transfers => step = 0) /\ (input # <<>> \/ reply # NoReply)
      BY <2>1 DEF PipeInv
    <2>3. input # <<>> => input' # <<>>
      BY <2>1, PieceTypes DEF Suffix
    <2> QED
      BY <1>1, <2>2, <2>3 DEF Hid
  <1> QED
    <2> DEFINE j == Strange(k, d)
    <2>1. j = 1 => Hid' /\ ~enabled' /\ (call' \in Transfers => step' = 0) /\ (input' # <<>> \/ reply' # NoReply)
      BY <1>6
    <2>2. LatestIsLast(j)' /\ Young(j)' /\ AnswerInv(j)'
      BY <1>3, <1>4, <1>5
    <2>3. NoReply' = NoReply /\ Transfers' = Transfers
      BY DEF NoReply, Transfers
    <2> QED
      BY <2>1, <2>2, <2>3 DEF PipeInv, Strange

-----------------------------------------------------------------------------
(* What the firmware does with a request: it answers, and with which state *)

\* m was in front of the ring, and r leaves as its answer.
Answered(m, r, parts) ==
  /\ m \in ReqMsg /\ r \in RespMsg /\ parts \in SUBSET Parts
  /\ output # <<>> /\ m = output[1].msg /\ 1 \in Ends(output)
  /\ output' = Tail(output) /\ held' = NoPiece
  /\ r.cmd = m.cmd /\ r.seq = m.seq /\ (r.cmd # "fetch" => r.data = <<>>)
  /\ Leaves(r, parts)
  /\ faults' \in {faults, faults + 1} /\ faults' <= MaxFaults
  /\ parts # Parts => faults' = faults + 1
  /\ IF faults' = faults THEN UNCHANGED <<clean, lost>> ELSE clean' = FALSE /\ lost' = 0
  /\ HostRest

\* What the firmware refuses without anything going wrong.
Denied(m) ==
  \/ m.cmd = "append" /\ Len(stageTx) >= StageSize
  \/ m.cmd \in Transfers /\ ~ready
  \/ m.cmd = "fetch" /\ m.n > Len(stageRx)

\* The buffers, the bus and the answer, by command.
Done(m, r) ==
  /\ m.cmd \notin {"clear", "init", "deinit"} => ready' = ready
  /\ m.cmd \in {"info", "reset"} => UNCHANGED <<stageTx, stageRx>>
  /\ m.cmd \in {"clear", "init", "deinit"} => stageTx' = <<>> /\ stageRx' = <<>>
  /\ m.cmd = "clear" => ready' = ready
  /\ m.cmd \notin Transfers => wire' = wire
  /\ m.cmd = "append" => /\ stageRx' = stageRx
                         /\ \/ stageTx' = Append(stageTx, <<m.op, m.n>>)
                            \/ stageTx' = stageTx /\ ~r.ok
  /\ m.cmd = "write" =>
       /\ stageTx' = stageTx /\ stageRx' \in {stageRx, <<>>}
       /\ wire' = wire \/ (ready /\ wire' = wire \o Staged)
       /\ r.ok => ready /\ wire' = wire \o Staged
  /\ m.cmd = "read" =>
       /\ stageTx' = stageTx
       /\ stageRx' = stageRx \/ \E n \in 0..Chunks : stageRx' = SubSeq(ReadBytes(m), 1, n)
       /\ wire' \in {wire, wire \o Staged, wire \o Staged \o <<ReadBytes(m)>>}
       /\ r.ok => /\ ready /\ stageRx' = ReadBytes(m)
                  /\ wire' = wire \o Staged \o <<ReadBytes(m)>>
  /\ m.cmd = "fetch" =>
       /\ UNCHANGED <<stageTx, stageRx>>
       /\ r.ok => /\ m.n <= Len(stageRx) /\ r.total = Len(stageRx)
                  /\ m.n < Len(stageRx) => r.data = <<stageRx[m.n + 1]>>
                  /\ m.n = Len(stageRx) => r.data = <<>>
  /\ m.cmd \notin Later => r.ok
  /\ r.ok \/ faults' # faults \/ Denied(m)

\* The answer of a handler, before it is known which it is.
Answer(m, ok, total, data) ==
  [cmd |-> m.cmd, seq |-> m.seq, ok |-> ok, total |-> total, data |-> data]

LEMMA ArrivedFacts ==
  ASSUME Shape, Arrived
  PROVE  /\ Arriving \in ReqMsg /\ output # <<>>
         /\ Arriving = output[1].msg /\ 1 \in Ends(output)
  <1>1. output # <<>> /\ Len(output) \in Nat /\ 1 \in 1..Len(output) /\ Head(output) = output[1]
    BY PieceTypes DEF Arrived
  <1>2. output[1].msg \in ReqMsg /\ output[1].part \in Parts
    BY <1>1, PieceTypes
  <1>3. CASE Hid
    BY <1>1, <1>2, <1>3, WidthType DEF Arriving, Ends
  <1>4. CASE ~Hid
    <2>1. output[1] = [part |-> 2, msg |-> held.msg]
      BY <1>1, <1>4 DEF Arrived
    <2>2. output[1].msg = held.msg /\ output[1].part = 2
      BY <2>1
    <2> QED
      BY <1>1, <1>2, <1>4, <2>2, WidthType DEF Arriving, Ends
  <1> QED
    BY <1>3, <1>4

LEMMA AnswerFacts ==
  ASSUME NEW m \in ReqMsg, NEW ok \in BOOLEAN, NEW total \in Nat, NEW data \in Seq(Nat \X Nat)
  PROVE  /\ Answer(m, ok, total, data) \in RespMsg
         /\ Answer(m, ok, total, data).cmd = m.cmd /\ Answer(m, ok, total, data).seq = m.seq
         /\ Answer(m, ok, total, data).ok = ok /\ Answer(m, ok, total, data).total = total
         /\ Answer(m, ok, total, data).data = data
  BY DEF Answer, ReqMsg, RespMsg

\* A handler that accepts m and responds has answered it.
LEMMA RespondAnswers ==
  ASSUME Shape, NEW m, NEW c, Accepts(m, c), HostRest, NEW ok \in BOOLEAN, NEW total \in Nat,
         NEW data \in Seq(Nat \X Nat), c # "fetch" => data = <<>>,
         Respond(m, ok, total, data) \/ (Fails(m) /\ ~ok /\ total = 0 /\ data = <<>>)
  PROVE  \E parts : Answered(m, Answer(m, ok, total, data), parts)
  <1> DEFINE r == Answer(m, ok, total, data)
  <1>1. /\ m \in ReqMsg /\ m.cmd = c /\ output # <<>> /\ m = output[1].msg /\ 1 \in Ends(output)
        /\ output' = Tail(output) /\ held' = NoPiece
    BY ArrivedFacts DEF Accepts
  <1>2. r \in RespMsg /\ r.cmd = m.cmd /\ r.seq = m.seq /\ r.data = data
    BY <1>1, AnswerFacts
  <1>3. faults \in 0..MaxFaults
    BY DEF Shape
  <1>4. \E parts \in SUBSET Parts :
          /\ Leaves(r, parts)
          /\ faults' \in {faults, faults + 1} /\ faults' <= MaxFaults
          /\ parts # Parts => faults' = faults + 1
          /\ IF faults' = faults THEN UNCHANGED <<clean, lost>> ELSE clean' = FALSE /\ lost' = 0
    <2>1. CASE Respond(m, ok, total, data)
      <3> PICK parts \in SUBSET Parts :
            /\ IF parts = Parts THEN NoFault ELSE Fault
            /\ Leaves(r, parts)
        BY <2>1 DEF Respond, Answer
      <3> HIDE DEF r
      <3>1. /\ faults' \in {faults, faults + 1} /\ faults' <= MaxFaults
            /\ parts # Parts => faults' = faults + 1
            /\ IF faults' = faults THEN UNCHANGED <<clean, lost>> ELSE clean' = FALSE /\ lost' = 0
        BY <1>3, BridgeAssumption DEF NoFault, Fault, budget
      <3> QED
        BY <3>1
    <2>2. CASE Fails(m) /\ ~ok /\ total = 0 /\ data = <<>>
      <3>1. ok = FALSE
        BY <2>2
      <3>2. Fault /\ Leaves(r, Parts)
        BY <2>2, <3>1 DEF Fails, Answer
      <3> HIDE DEF r
      <3>3. /\ faults' = faults + 1 /\ faults' <= MaxFaults /\ Parts \in SUBSET Parts
            /\ clean' = FALSE /\ lost' = 0 /\ faults' # faults
        BY <1>3, <3>2, BridgeAssumption DEF Fault
      <3> QED
        BY <3>2, <3>3
    <2> QED
      BY <2>1, <2>2
  <1> HIDE DEF r
  <1>5. \E parts : Answered(m, r, parts)
    BY <1>1, <1>2, <1>4 DEF Answered
  <1> QED
    BY <1>5 DEF r

\* Every handler answers and does what its command says.
LEMMA DispatchDone ==
  ASSUME Shape, Arrived, Dispatch(Arriving)
  PROVE  \E r, parts : Answered(Arriving, r, parts) /\ Done(Arriving, r)
  <1> DEFINE m == Arriving
  <1>0. m \in ReqMsg /\ m.n \in Nat /\ m.op \in Nat
    BY ArrivedFacts DEF ReqMsg
  <1>00. /\ stageTx \in Seq(Nat \X Nat) /\ stageRx \in Seq(Nat \X Nat)
         /\ Len(stageTx) \in Nat /\ Len(stageRx) \in Nat /\ <<>> \in Seq(Nat \X Nat) /\ 0 \in Nat
         /\ Chunks \in Nat \ {0}
    BY BridgeAssumption DEF Shape
  <1>01. \A total, data : Answer(m, TRUE, total, data).ok /\ ~Answer(m, FALSE, total, data).ok
    BY DEF Answer
  <1>02. Fails(m) => faults' # faults
    <2>1. faults \in Int
      BY BridgeAssumption DEF Shape
    <2> QED
      BY <2>1 DEF Fails, Fault
  <1>d. Dispatch(m)
    OBVIOUS
  <1> HIDE DEF m
  <1>1. CASE HandleInfo(m)
    <2>1. m.cmd = "info" /\ Accepts(m, "info") /\ HostRest /\ Respond(m, TRUE, 0, <<>>)
          /\ UNCHANGED <<ready, stageTx, stageRx, wire>>
      BY <1>1 DEF HandleInfo, Accepts, firmware
    <2>2. \E parts : Answered(m, Answer(m, TRUE, 0, <<>>), parts)
      BY <1>00, <2>1, RespondAnswers
    <2>3. Done(m, Answer(m, TRUE, 0, <<>>))
      BY <1>01, <1>02, <2>1 DEF Done, Denied, Later, Transfers
    <2> QED
      BY <2>2, <2>3 DEF m
  <1>2. CASE HandleReset(m)
    <2>1. m.cmd = "reset" /\ Accepts(m, "reset") /\ HostRest /\ Respond(m, TRUE, 0, <<>>)
          /\ UNCHANGED <<ready, stageTx, stageRx, wire>>
      BY <1>2 DEF HandleReset, Accepts
    <2>2. \E parts : Answered(m, Answer(m, TRUE, 0, <<>>), parts)
      BY <1>00, <2>1, RespondAnswers
    <2>3. Done(m, Answer(m, TRUE, 0, <<>>))
      BY <1>01, <1>02, <2>1 DEF Done, Denied, Later, Transfers
    <2> QED
      BY <2>2, <2>3 DEF m
  <1>3. ASSUME NEW c \in {"clear", "init", "deinit"}, HandleClear(m, c)
        PROVE  \E r, parts : Answered(Arriving, r, parts) /\ Done(Arriving, r)
    <2>1. /\ m.cmd = c /\ Accepts(m, c) /\ HostRest /\ Respond(m, TRUE, 0, <<>>)
          /\ stageTx' = <<>> /\ stageRx' = <<>> /\ (c = "clear" => ready' = ready) /\ wire' = wire
      BY <1>3 DEF HandleClear, Accepts
    <2>2. \E parts : Answered(m, Answer(m, TRUE, 0, <<>>), parts)
      BY <1>00, <2>1, RespondAnswers
    <2>3. Done(m, Answer(m, TRUE, 0, <<>>))
      BY <1>01, <1>02, <2>1 DEF Done, Denied, Later, Transfers
    <2> QED
      BY <2>2, <2>3 DEF m
  <1>4. CASE HandleAppend(m)
    <2>1. m.cmd = "append" /\ Accepts(m, "append") /\ HostRest
          /\ UNCHANGED <<ready, stageRx, wire>>
      BY <1>4 DEF HandleAppend, Accepts
    <2>2. CASE stageTx' = Append(stageTx, <<m.op, m.n>>) /\ Respond(m, TRUE, 0, <<>>)
      <3>1. \E parts : Answered(m, Answer(m, TRUE, 0, <<>>), parts)
        BY <1>00, <2>1, <2>2, RespondAnswers
      <3>2. Done(m, Answer(m, TRUE, 0, <<>>))
        BY <1>01, <1>02, <2>1, <2>2 DEF Done, Denied, Later, Transfers
      <3> QED
        BY <3>1, <3>2 DEF m
    <2>3. CASE /\ ~(Len(stageTx) < StageSize)
               /\ stageTx' = stageTx /\ Respond(m, FALSE, 0, <<>>)
      <3>0. Len(stageTx) >= StageSize
        BY <1>00, <2>3, BridgeAssumption
      <3>1. \E parts : Answered(m, Answer(m, FALSE, 0, <<>>), parts)
        BY <1>00, <2>1, <2>3, RespondAnswers
      <3>2. ~Answer(m, FALSE, 0, <<>>).ok
        BY DEF Answer
      <3>3. Done(m, Answer(m, FALSE, 0, <<>>))
        BY <1>01, <1>02, <2>1, <2>3, <3>0, <3>2 DEF Done, Denied, Later, Transfers
      <3> QED
        BY <3>1, <3>3 DEF m
    <2> QED
      BY <1>4, <2>2, <2>3 DEF HandleAppend
  <1>5. CASE HandleWrite(m)
    <2>1. m.cmd = "write" /\ Accepts(m, "write") /\ HostRest /\ ready /\ stageRx' = <<>>
          /\ UNCHANGED <<ready, stageTx>>
      BY <1>5 DEF HandleWrite, Accepts
    <2>2. CASE wire' = wire \o Staged /\ Respond(m, TRUE, Len(stageTx), <<>>)
      <3>1. \E parts : Answered(m, Answer(m, TRUE, Len(stageTx), <<>>), parts)
        BY <1>00, <2>1, <2>2, RespondAnswers
      <3>2. Done(m, Answer(m, TRUE, Len(stageTx), <<>>))
        BY <1>01, <1>02, <2>1, <2>2 DEF Done, Denied, Later, Transfers
      <3> QED
        BY <3>1, <3>2 DEF m
    <2>3. CASE wire' \in {wire, wire \o Staged} /\ Fails(m)
      <3>1. \E parts : Answered(m, Answer(m, FALSE, 0, <<>>), parts)
        BY <1>00, <2>1, <2>3, RespondAnswers
      <3>2. ~Answer(m, FALSE, 0, <<>>).ok
        BY DEF Answer
      <3>3. Done(m, Answer(m, FALSE, 0, <<>>))
        BY <1>01, <1>02, <2>1, <2>3, <3>2 DEF Done, Denied, Later, Transfers
      <3> QED
        BY <3>1, <3>3 DEF m
    <2> QED
      BY <1>5, <2>2, <2>3 DEF HandleWrite
  <1>6. CASE HandleRead(m)
    <2>1. m.cmd = "read" /\ Accepts(m, "read") /\ HostRest /\ ready
          /\ UNCHANGED <<ready, stageTx>>
      BY <1>6 DEF HandleRead, Accepts
    <2>2. CASE /\ stageRx' = ReadBytes(m) /\ wire' = wire \o Staged \o <<ReadBytes(m)>>
               /\ Respond(m, TRUE, Chunks, <<>>)
      <3>1. \E parts : Answered(m, Answer(m, TRUE, Chunks, <<>>), parts)
        BY <1>00, <2>1, <2>2, RespondAnswers
      <3>2. ReadBytes(m) = SubSeq(ReadBytes(m), 1, Chunks) /\ Chunks \in 0..Chunks
        <4>1. ReadBytes(m) \in Seq(Nat \X Nat) /\ Len(ReadBytes(m)) = Chunks
          BY <1>0, <1>00 DEF ReadBytes
        <4> HIDE DEF ReadBytes
        <4> QED
          BY <1>00, <4>1
      <3>3. Done(m, Answer(m, TRUE, Chunks, <<>>))
        BY <1>01, <1>02, <2>1, <2>2, <3>2 DEF Done, Denied, Later, Transfers
      <3> QED
        BY <3>1, <3>3 DEF m
    <2>3. CASE /\ \E n \in 0..Chunks : stageRx' = SubSeq(ReadBytes(m), 1, n)
               /\ wire' \in {wire, wire \o Staged, wire \o Staged \o <<ReadBytes(m)>>}
               /\ Fails(m)
      <3>1. \E parts : Answered(m, Answer(m, FALSE, 0, <<>>), parts)
        BY <1>00, <2>1, <2>3, RespondAnswers
      <3>2. ~Answer(m, FALSE, 0, <<>>).ok
        BY DEF Answer
      <3>3. Done(m, Answer(m, FALSE, 0, <<>>))
        BY <1>01, <1>02, <2>1, <2>3, <3>2 DEF Done, Denied, Later, Transfers
      <3> QED
        BY <3>1, <3>3 DEF m
    <2> QED
      BY <1>6, <2>2, <2>3 DEF HandleRead
  <1>7. CASE HandleFetch(m)
    <2>1. m.cmd = "fetch" /\ Accepts(m, "fetch") /\ HostRest
          /\ UNCHANGED <<ready, stageTx, stageRx, wire>>
      BY <1>7 DEF HandleFetch, Accepts, firmware
    <2>2. CASE m.n > Len(stageRx) /\ Respond(m, FALSE, 0, <<>>)
      <3>1. \E parts : Answered(m, Answer(m, FALSE, 0, <<>>), parts)
        BY <1>00, <2>1, <2>2, RespondAnswers
      <3>2. ~Answer(m, FALSE, 0, <<>>).ok
        BY DEF Answer
      <3>3. Done(m, Answer(m, FALSE, 0, <<>>))
        BY <1>01, <1>02, <2>1, <2>2, <3>2 DEF Done, Denied, Later, Transfers
      <3> QED
        BY <3>1, <3>3 DEF m
    <2>3. CASE /\ ~(m.n > Len(stageRx))
               /\ Respond(m, TRUE, Len(stageRx), IF m.n = Len(stageRx) THEN <<>> ELSE <<stageRx[m.n + 1]>>)
      <3> DEFINE data == IF m.n = Len(stageRx) THEN <<>> ELSE <<stageRx[m.n + 1]>>
      <3>1. data \in Seq(Nat \X Nat)
        <4>1. CASE m.n = Len(stageRx)
          BY <4>1
        <4>2. CASE m.n # Len(stageRx)
          <5>1. m.n + 1 \in 1..Len(stageRx)
            BY <1>0, <1>00, <2>3, <4>2
          <5>2. stageRx[m.n + 1] \in Nat \X Nat
            BY <1>00, <5>1
          <5> QED
            BY <4>2, <5>2
        <4> QED
          BY <4>1, <4>2
      <3>2. (m.n < Len(stageRx) => data = <<stageRx[m.n + 1]>>) /\ (m.n = Len(stageRx) => data = <<>>)
        BY <1>0, <1>00
      <3> HIDE DEF data
      <3>3. \E parts : Answered(m, Answer(m, TRUE, Len(stageRx), data), parts)
        BY <1>00, <2>1, <2>3, <3>1, RespondAnswers DEF data
      <3>4. Answer(m, TRUE, Len(stageRx), data).total = Len(stageRx) /\ Answer(m, TRUE, Len(stageRx), data).data = data
        BY DEF Answer
      <3>5. Done(m, Answer(m, TRUE, Len(stageRx), data))
        <4> DEFINE r == Answer(m, TRUE, Len(stageRx), data)
        <4>1. r.total = Len(stageRx) /\ r.data = data /\ r.ok
          BY <1>01, <3>4
        <4>2. m.n <= Len(stageRx)
          BY <1>0, <1>00, <2>3
        <4> HIDE DEF r
        <4>3. Done(m, r)
          BY <1>01, <1>02, <2>1, <3>2, <4>1, <4>2 DEF Done, Denied, Later, Transfers
        <4> QED
          BY <4>3 DEF r
      <3> QED
        BY <3>3, <3>5 DEF m
    <2> QED
      BY <1>7, <2>2, <2>3 DEF HandleFetch
  <1>8. ASSUME NEW c \in Transfers, NotReady(m, c)
        PROVE  \E r, parts : Answered(Arriving, r, parts) /\ Done(Arriving, r)
    <2>1. m.cmd = c /\ Accepts(m, c) /\ HostRest /\ Respond(m, FALSE, 0, <<>>)
          /\ UNCHANGED <<ready, stageTx, stageRx, wire>> /\ c # "fetch" /\ ~ready
      BY <1>8 DEF NotReady, Accepts, firmware, Transfers
    <2>2. \E parts : Answered(m, Answer(m, FALSE, 0, <<>>), parts)
      BY <1>00, <2>1, RespondAnswers
    <2>3. ~Answer(m, FALSE, 0, <<>>).ok
      BY DEF Answer
    <2>4. Done(m, Answer(m, FALSE, 0, <<>>))
      BY <1>01, <1>02, <2>1, <2>3 DEF Done, Denied, Later, Transfers
    <2> QED
      BY <2>2, <2>4 DEF m
  <1> QED
    BY <1>d, <1>1, <1>2, <1>3, <1>4, <1>5, <1>6, <1>7, <1>8 DEF Dispatch

-----------------------------------------------------------------------------
(* The pipe, step by step *)

\* What is in the pipe when m has been answered with r: what was in it before,
\* with r in the place of a frame k that was left in the endpoint's buffer.
Instead(k, parts) == IF input = <<>> /\ parts # {} THEN 0 ELSE k

LEMMA AnsweredPipe ==
  ASSUME Shape, Shape', TypeOK, handle = "open", NEW m, NEW r, NEW parts,
         Answered(m, r, parts), NEW k \in {0, 1}, PipeInv(k),
         NEW j, j = Instead(k, parts)
  PROVE  /\ \A i \in Ours(j)' :
              \/ i \in Ours(k) /\ input'[i] = input[i]
              \/ ~Hid /\ input'[i].msg = r /\ i = Len(input')
         /\ OurReply(j)' => (OurReply(k) /\ reply' = reply) \/ reply' = r
         /\ \A i \in Ends(output)' : i + 1 \in Ends(output) /\ output'[i] = output[i + 1]
         /\ Hid => input' = input /\ phase' = phase
         /\ ~Hid => reply' = NoReply /\ reply = NoReply
         /\ reply' # reply => reply' = r /\ reply' # NoReply
         /\ phase' = phase \/ (phase = "read" /\ phase' = "pop")
         /\ Cardinality(Strays(input')) <= Cardinality(Strays(input)) + (faults' - faults)
         /\ Hid' = Hid
  <1>0. /\ r \in RespMsg /\ parts \in SUBSET Parts /\ Leaves(r, parts)
        /\ output # <<>> /\ output' = Tail(output) /\ UNCHANGED <<transport, handle>>
        /\ faults' \in {faults, faults + 1} /\ (parts # Parts => faults' = faults + 1)
    BY DEF Answered, HostRest
  <1>1. Hid' = Hid
    BY <1>0 DEF Hid
  <1>2. input \in Seq(Pieces(RespMsg)) /\ output \in Seq(Pieces(ReqMsg)) /\ r # NoReply
    BY <1>0, PieceTypes
  <1>3. \A i \in Ends(output)' : i + 1 \in Ends(output) /\ output'[i] = output[i + 1]
    <2> SUFFICES ASSUME NEW i \in Ends(output)'
                 PROVE  i + 1 \in Ends(output) /\ output'[i] = output[i + 1]
      OBVIOUS
    <2>1. i \in 1..Len(output') /\ output'[i].part = Width
      BY <1>0, EndsNext
    <2>2. i + 1 \in 1..Len(output) /\ output'[i] = output[i + 1]
      BY <1>0, <1>2, <2>1
    <2> QED
      BY <2>1, <2>2 DEF Ends
  <1>4. faults \in Nat /\ Cardinality(Strays(input)) \in Nat
    BY <1>2, BridgeAssumption, StraysFinite DEF Shape
  <1>5. CASE Hid
    <2>1. input' = input /\ phase' = phase /\ reply' = IF parts = {} THEN reply ELSE r
      BY <1>0, <1>5 DEF Leaves
    <2>2. \A i \in Ours(j)' : i \in Ours(k) /\ input'[i] = input[i]
      <3> SUFFICES ASSUME NEW i \in Ours(j)' PROVE i \in Ours(k)
        BY <2>1
      <3>1. i \in Ends(input)' /\ i > j
        BY DEF Ours
      <3>2. i \in Ends(input) /\ input # <<>>
        BY <1>0, <1>2, <2>1, <3>1, EndsNext DEF Ends
      <3> QED
        BY <3>1, <3>2 DEF Ours, Instead
    <2>3. OurReply(j)' => (OurReply(k) /\ reply' = reply) \/ reply' = r
      <3> SUFFICES ASSUME OurReply(j)', parts = {} PROVE OurReply(k)
        BY <2>1
      <3>1. reply # NoReply /\ j <= Len(input) /\ reply' = reply
        BY <2>1 DEF OurReply, NoReply
      <3> QED
        BY <3>1 DEF OurReply, Instead
    <2>4. Cardinality(Strays(input')) <= Cardinality(Strays(input)) + (faults' - faults)
      BY <1>0, <1>4, <2>1
    <2> QED
      BY <1>1, <1>2, <1>3, <1>5, <2>1, <2>2, <2>3, <2>4
  <1>6. CASE ~Hid
    <2>1. /\ reply' = reply /\ reply = NoReply
          /\ input' = input \o Frame(r, parts)
          /\ phase' = phase \/ (phase = "read" /\ phase' = "pop")
      BY <1>0, <1>6 DEF Leaves, Shape
    <2>2. input' \in Seq(Pieces(RespMsg)) /\ Grown(input, input', r)
      BY <1>0, <1>2, <2>1, AppendGrown
    <2>3. k = 0
      BY <1>6 DEF PipeInv
    <2>4. ASSUME NEW i \in Ours(j)'
          PROVE  \/ i \in Ours(k) /\ input'[i] = input[i]
                 \/ ~Hid /\ input'[i].msg = r /\ i = Len(input')
      <3>1. i \in 1..Len(input') /\ input'[i].part = Width /\ i > 0
        BY <1>0, EndsNext DEF Ours
      <3>2. CASE i <= Len(input)
        <4>1. i \in 1..Len(input) /\ input'[i] = input[i]
          BY <1>2, <2>2, <3>1, <3>2 DEF Grown
        <4> QED
          BY <2>3, <3>1, <4>1 DEF Ours, Ends
      <3>3. CASE ~(i <= Len(input))
        <4>1. i \in (Len(input) + 1)..Len(input')
          BY <1>2, <2>2, <3>1, <3>3
        <4> QED
          BY <1>6, <2>2, <3>1, <4>1 DEF Grown
      <3> QED
        BY <3>2, <3>3
    <2>5. ~(OurReply(j)')
      BY <2>1 DEF OurReply, Instead, NoReply
    <2>6. /\ Cardinality(Strays(input')) \in Nat
          /\ Cardinality(Strays(input')) <= Cardinality(Strays(input)) + (IF parts = Parts THEN 0 ELSE 1)
      BY <1>0, <1>2, <2>1, <2>2, StraysAppend, StraysFinite
    <2>7. Cardinality(Strays(input')) <= Cardinality(Strays(input)) + (faults' - faults)
      BY <1>0, <1>4, <2>6
    <2> QED
      BY <1>1, <1>3, <1>6, <2>1, <2>4, <2>5, <2>7
  <1> QED
    BY <1>5, <1>6

\* A frame is in the pipe when the firmware comes to it: nobody asked later
\* than that without a fault, and its answer is the right one.
LEMMA PipeDispatch ==
  ASSUME Shape, Shape', TypeOK, handle = "open", NEW m, NEW r, NEW parts,
         Answered(m, r, parts), NEW k \in {0, 1}, PipeInv(k),
         phase # "send" => Right(r)',
         NEW j, j = Instead(k, parts)
  PROVE  PipeInv(j)'
  <1>0. LatestIsLast(k) /\ Young(k) /\ AnswerInv(k)
    BY DEF PipeInv
  <1>1. /\ \A i \in Ours(j)' :
             \/ i \in Ours(k) /\ input'[i] = input[i]
             \/ ~Hid /\ input'[i].msg = r /\ i = Len(input')
        /\ OurReply(j)' => (OurReply(k) /\ reply' = reply) \/ reply' = r
        /\ \A i \in Ends(output)' : i + 1 \in Ends(output) /\ output'[i] = output[i + 1]
        /\ Hid => input' = input /\ phase' = phase
        /\ ~Hid => reply' = NoReply /\ reply = NoReply
        /\ reply' # reply => reply' = r /\ reply' # NoReply
        /\ phase' = phase \/ (phase = "read" /\ phase' = "pop")
        /\ Cardinality(Strays(input')) <= Cardinality(Strays(input)) + (faults' - faults)
        /\ Hid' = Hid
    BY AnsweredPipe
  <1>2. /\ m = output[1].msg /\ 1 \in Ends(output) /\ r.seq = m.seq /\ r \in RespMsg
        /\ UNCHANGED <<transport, seq, call, step, got, op, enabled>>
        /\ faults' \in {faults, faults + 1}
    BY DEF Answered, HostRest
  <1>3. seq \in SeqNumbers /\ r.seq \in SeqNumbers
    BY <1>2 DEF TypeOK, RespMsg, SeqNumbers
  <1>4. Age(r) = Age(output[1].msg) /\ Age(r) \in Nat
    BY <1>2, <1>3, AgeFacts DEF Age
  <1>5. \A x : Age(x)' = (seq + SeqMod - 1 - x'.seq) % SeqMod
    BY <1>2 DEF Age
  <1>6. /\ \A i \in Ours(k) : Age(input[i].msg) # 0
        /\ OurReply(k) => Age(reply) # 0
    BY <1>0, <1>2 DEF LatestIsLast
  <1>7. Ends(output)' # {} => Age(r) # 0
    <2> SUFFICES ASSUME NEW i \in Ends(output)' PROVE Age(r) # 0
      OBVIOUS
    <2>1. i + 1 \in Ends(output) /\ 1 < i + 1
      BY <1>1, <1>2, EndsNext
    <2>2. Age(output[1].msg) # 0
      BY <1>0, <1>2, <2>1 DEF LatestIsLast
    <2> QED
      BY <1>4, <2>2
  <1>8. /\ \A i \in Ours(j)' : i \in 1..Len(input')
        /\ \A i \in Ends(output)' : i \in 1..Len(output')
    BY <1>2, EndsNext DEF Ours
  <1>9. Len(input') \in Nat /\ Len(output') \in Nat
    BY DEF Shape
  <1>10. NoReply' = NoReply /\ Transfers' = Transfers
    BY DEF NoReply, Transfers
  <1>11. LatestIsLast(j)'
    <2>1. ASSUME NEW i \in Ours(j)', NEW n \in Ours(j)', i < n PROVE Age(input[i].msg)' # 0
      <3>1. i \in Ours(k) /\ input'[i] = input[i]
        BY <1>1, <1>8, <1>9, <2>1
      <3> QED
        BY <1>2, <1>6, <3>1 DEF Age
    <2>2. ASSUME NEW i \in Ours(j)', reply' # NoReply \/ Ends(output)' # {}
          PROVE  Age(input[i].msg)' # 0
      <3>1. CASE i \in Ours(k) /\ input'[i] = input[i]
        BY <1>2, <1>6, <3>1 DEF Age
      <3>2. CASE ~Hid /\ input'[i].msg = r
        <4>1. Ends(output)' # {}
          BY <1>1, <2>2, <3>2
        <4> QED
          BY <1>2, <1>7, <3>2, <4>1 DEF Age
      <3> QED
        BY <1>1, <3>1, <3>2
    <2>3. ASSUME OurReply(j)', Ends(output)' # {} PROVE Age(reply)' # 0
      <3>1. CASE OurReply(k) /\ reply' = reply
        BY <1>2, <1>6, <3>1 DEF Age
      <3>2. CASE reply' = r
        BY <1>2, <1>7, <2>3, <3>2 DEF Age
      <3> QED
        BY <1>1, <2>3, <3>1, <3>2
    <2>4. ASSUME NEW i \in Ends(output)', NEW n \in Ends(output)', i < n
          PROVE  Age(output[i].msg)' # 0
      <3>1. i + 1 \in Ends(output) /\ n + 1 \in Ends(output) /\ i + 1 < n + 1
            /\ output'[i] = output[i + 1]
        BY <1>1, <1>8, <1>9, <2>4
      <3>2. Age(output[i + 1].msg) # 0
        BY <1>0, <3>1 DEF LatestIsLast
      <3> QED
        BY <1>2, <3>1, <3>2 DEF Age
    <2> QED
      BY <1>10, <2>1, <2>2, <2>3, <2>4 DEF LatestIsLast
  <1>12. Young(j)'
    <2>1. j <= k /\ j \in Nat /\ k \in Nat /\ faults \in Nat /\ faults' \in Nat
      BY <1>2, BridgeAssumption DEF Instead, Shape
    <2>2. Stray \in Nat /\ Stray' \in Nat /\ Stray' <= Stray + (faults' - faults)
      <3>1. Stray' = Cardinality(Strays(input'))
        BY <1>2, StrayNext
      <3>2. input \in Seq(Pieces(RespMsg)) /\ input' \in Seq([part : Parts', msg : RespMsg'])
        BY PieceTypes DEF Shape
      <3>3. Cardinality(Strays(input)) \in Nat /\ Cardinality(Strays(input')) \in Nat
        BY <3>2, StraysFinite
      <3> QED
        BY <1>1, <3>1, <3>3 DEF Stray
    <2>3. Left(k) <= Left(j)' /\ Left(k) \in Int /\ Left(j)' \in Int
      <3>1. Left(j)' = faults' + 1 - j - Stray'
        BY DEF Left
      <3> QED
        <4>1. Left(k) = faults + 1 - k - Stray
          BY DEF Left
        <4> DEFINE f == faults
                   g == faults'
                   s == Stray
                   t == Stray'
        <4>2. f \in Nat /\ g \in Nat /\ s \in Nat /\ t \in Nat /\ t <= s + (g - f)
          BY <2>1, <2>2
        <4> HIDE DEF f, g, s, t
        <4>3. /\ f + 1 - k - s <= g + 1 - j - t
              /\ f + 1 - k - s \in Int /\ g + 1 - j - t \in Int
          BY <2>1, <4>2
        <4> QED
          BY <3>1, <4>1, <4>3 DEF f, g, s, t
    <2>4. InAge' <= OutAge /\ InAge' <= InAge /\ OutAge' <= OutAge
      BY <1>1 DEF InAge, OutAge
    <2>5. InAge \in {0, 1} /\ OutAge \in {0, 1} /\ InAge' \in {0, 1} /\ OutAge' \in {0, 1}
      BY DEF InAge, OutAge
    <2>6. Stray' <= faults'
      BY <1>0, <2>1, <2>2, YoungParts
    <2>7. Age(r) + OutAge <= Left(k)
      BY <1>0, <1>2, <1>4, YoungParts
    <2>8. ASSUME NEW i \in Ours(j)' PROVE Age(input[i].msg)' + InAge' <= Left(j)'
      <3>1. CASE i \in Ours(k) /\ input'[i] = input[i]
        <4>1. Age(input[i].msg)' = Age(input[i].msg)
          BY <1>2, <3>1 DEF Age
        <4>2. Age(input[i].msg) + InAge <= Left(k)
          BY <1>0, <3>1, YoungParts
        <4>3. Age(input[i].msg) \in Nat
          BY <1>3, <3>1, AgeFacts, PieceTypes DEF Ours, Ends
        <4> QED
          BY <2>3, <2>4, <2>5, <4>1, <4>2, <4>3
      <3>2. CASE input'[i].msg = r
        <4>1. Age(input[i].msg)' = Age(r)
          BY <1>2, <3>2 DEF Age
        <4> QED
          BY <1>4, <2>3, <2>4, <2>5, <2>7, <4>1
      <3> QED
        BY <1>1, <3>1, <3>2
    <2>9. ASSUME OurReply(j)' PROVE Age(reply)' + OutAge' <= Left(j)'
      <3>1. CASE OurReply(k) /\ reply' = reply
        <4>1. Age(reply)' = Age(reply)
          BY <1>2, <3>1 DEF Age
        <4>2. Age(reply) + OutAge <= Left(k)
          BY <1>0, <3>1, YoungParts
        <4>3. Age(reply) \in Nat
          BY <1>3, <3>1, AgeFacts, PieceTypes DEF OurReply
        <4> QED
          BY <2>3, <2>4, <2>5, <4>1, <4>2, <4>3
      <3>2. CASE reply' = r
        <4>1. Age(reply)' = Age(r)
          BY <1>2, <3>2 DEF Age
        <4> QED
          BY <1>4, <2>3, <2>4, <2>5, <2>7, <4>1
      <3> QED
        BY <1>1, <2>9, <3>1, <3>2
    <2>10. ASSUME NEW i \in Ends(output)' PROVE Age(output[i].msg)' + OutAge' <= Left(j)'
      <3>1. i + 1 \in Ends(output) /\ Age(output[i].msg)' = Age(output[i + 1].msg)
        BY <1>1, <1>2 DEF Age
      <3>2. Age(output[i + 1].msg) + OutAge <= Left(k)
        BY <1>0, <3>1, YoungParts
      <3>3. Age(output[i + 1].msg) \in Nat
        BY <1>3, <3>1, AgeFacts, PieceTypes DEF Ends
      <3> QED
        BY <2>3, <2>4, <2>5, <3>1, <3>2, <3>3
    <2> QED
      BY <2>6, <2>8, <2>9, <2>10 DEF Young, Left, InAge, OutAge
  <1>13. AnswerInv(j)'
    <2> SUFFICES ASSUME phase' # "send" PROVE AnswerInv(j)'
      BY DEF AnswerInv
    <2>1. phase # "send"
      BY <1>1
    <2>2. Cmd' = Cmd /\ Request' = Request
      <3>1. Cmd' = Cmd
        BY <1>2 DEF Cmd, WriteStep, ReadStep
      <3> QED
        BY <1>2, <3>1 DEF Request
    <2>3. ASSUME NEW i \in Ends(output)', Age(output[i].msg)' = 0
          PROVE  output'[i].msg = [Request' EXCEPT !.seq = output'[i].msg.seq]
      <3>1. i + 1 \in Ends(output) /\ output'[i] = output[i + 1] /\ Age(output[i + 1].msg) = 0
        BY <1>1, <1>2, <2>3 DEF Age
      <3> QED
        BY <1>0, <2>1, <2>2, <3>1 DEF AnswerInv
    <2>4. ASSUME NEW i \in Ours(j)' PROVE Right(input[i].msg)'
      <3>1. CASE i \in Ours(k) /\ input'[i] = input[i]
        <4>1. Age(input[i].msg) # 0 /\ input[i].msg.seq \in SeqNumbers
          BY <1>6, <3>1, PieceTypes DEF Ours, Ends
        <4>2. ~Fits(input[i].msg)
          BY <1>3, <4>1, AgeFacts
        <4>3. ~Fits(input[i].msg)'
          BY <1>2, <2>2, <3>1, <4>2 DEF Fits
        <4> QED
          BY <4>3 DEF Right
      <3>2. CASE input'[i].msg = r
        BY <2>1, <3>2 DEF Right, Fits, Refused
      <3> QED
        BY <1>1, <3>1, <3>2
    <2>5. ASSUME OurReply(j)' PROVE Right(reply)'
      <3>1. CASE OurReply(k) /\ reply' = reply
        <4>1. Age(reply) # 0 /\ reply.seq \in SeqNumbers
          BY <1>6, <3>1, PieceTypes DEF OurReply
        <4>2. ~Fits(reply)
          BY <1>3, <4>1, AgeFacts
        <4>3. ~Fits(reply)'
          BY <1>2, <2>2, <3>1, <4>2 DEF Fits
        <4> QED
          BY <4>3 DEF Right
      <3>2. CASE reply' = r
        BY <2>1, <3>2 DEF Right, Fits, Refused
      <3> QED
        BY <1>1, <2>5, <3>1, <3>2
    <2> QED
      BY <2>3, <2>4, <2>5 DEF AnswerInv
  <1>14. j = 1 => /\ Hid' /\ ~enabled' /\ (call' \in Transfers => step' = 0)
                  /\ input' # <<>> \/ reply' # NoReply
    <2> SUFFICES ASSUME j = 1
                 PROVE  /\ Hid' /\ ~enabled' /\ (call' \in Transfers => step' = 0)
                        /\ input' # <<>> \/ reply' # NoReply
      OBVIOUS
    <2>1. k = 1 /\ ~(input = <<>> /\ parts # {})
      BY DEF Instead
    <2>2. Hid /\ ~enabled /\ (call \in Transfers => step = 0) /\ (input # <<>> \/ reply # NoReply)
      BY <2>1 DEF PipeInv
    <2>3. reply' # NoReply \/ reply' = reply
      BY <1>1
    <2> QED
      BY <1>1, <1>2, <2>2, <2>3
  <1> QED
    BY <1>10, <1>11, <1>12, <1>13, <1>14 DEF PipeInv

\* The reply comes out of the endpoint's buffer, behind what is there.
LEMMA PipePoll ==
  ASSUME Shape, TypeOK, Poll, NEW k \in {0, 1}, PipeInv(k)
  PROVE  PipeInv(k)'
  <1>0. LatestIsLast(k) /\ Young(k) /\ AnswerInv(k)
    BY DEF PipeInv
  <1>1. /\ Hid /\ reply # NoReply /\ input' = input \o Frame(reply, Parts) /\ reply' = NoReply
        /\ UNCHANGED <<transport, enabled, faults, output>> /\ UNCHANGED callVars
        /\ phase' = phase \/ (phase = "read" /\ phase' = "pop")
        /\ seq' = seq
    BY DEF Poll, callVars, firmware, budget
  <1>2. /\ input \in Seq(Pieces(RespMsg)) /\ reply \in RespMsg /\ reply.seq \in SeqNumbers
        /\ Len(input) \in Nat
    BY <1>1, PieceTypes
  <1>3. /\ input' \in Seq(Pieces(RespMsg)) /\ Grown(input, input', reply)
        /\ Len(input') = Len(input) + 1
    <2> DEFINE f == Frame(reply, Parts)
    <2>1. f \in Seq(Pieces(RespMsg)) /\ Len(f) = 1 /\ input' = input \o f
      BY <1>1, <1>2, FrameFacts, WidthType
    <2> HIDE DEF f
    <2>2. Len(input') = Len(input) + 1
      BY <1>2, <2>1, ConcatProperties
    <2> QED
      BY <1>1, <1>2, <2>2, AppendGrown
  <1>4. seq \in SeqNumbers
    BY DEF TypeOK, SeqNumbers
  <1>5. Ends(output)' = Ends(output) /\ Hid' = Hid
    BY <1>1 DEF Ends, Width, Hid
  <1>6. k <= Len(input) => OurReply(k)
    BY <1>1 DEF OurReply
  <1>7. ASSUME NEW i \in Ours(k)'
        PROVE  \/ i \in Ours(k) /\ input'[i] = input[i] /\ i \in 1..Len(input)
               \/ input'[i].msg = reply /\ i = Len(input') /\ OurReply(k)
    <2>1. i \in 1..Len(input') /\ input'[i].part = Width /\ i > k
      BY <1>1, EndsNext DEF Ours
    <2>2. CASE i <= Len(input)
      <3>1. i \in 1..Len(input) /\ input'[i] = input[i]
        BY <1>2, <1>3, <2>1, <2>2 DEF Grown
      <3> QED
        BY <2>1, <3>1 DEF Ours, Ends
    <2>3. CASE ~(i <= Len(input))
      <3>1. i \in (Len(input) + 1)..Len(input') /\ i = Len(input')
        BY <1>2, <1>3, <2>1, <2>3
      <3>2. k <= Len(input)
        BY <1>2, <1>3, <2>1, <3>1
      <3> QED
        BY <1>3, <1>6, <3>1, <3>2 DEF Grown
    <2> QED
      BY <2>2, <2>3
  <1>8. ~(OurReply(k)') /\ NoReply' = NoReply /\ Transfers' = Transfers
    BY <1>1 DEF OurReply, NoReply, Transfers
  <1>9. \A i \in Ours(k)' : i \in 1..Len(input')
    BY <1>1, EndsNext DEF Ours
  <1>10. \A i \in Ours(k) : Age(input[i].msg) # 0
    BY <1>0, <1>1 DEF LatestIsLast
  <1>11. LatestIsLast(k)'
    <2>1. ASSUME NEW i \in Ours(k)', NEW n \in Ours(k)', i < n PROVE Age(input[i].msg)' # 0
      <3>1. i \in Ours(k) /\ input'[i] = input[i]
        BY <1>3, <1>2, <1>7, <1>9, <2>1
      <3> QED
        BY <1>1, <1>10, <3>1 DEF Age
    <2>2. ASSUME NEW i \in Ours(k)', Ends(output)' # {} PROVE Age(input[i].msg)' # 0
      <3>1. CASE i \in Ours(k) /\ input'[i] = input[i]
        BY <1>1, <1>10, <3>1 DEF Age
      <3>2. CASE input'[i].msg = reply /\ OurReply(k)
        <4>1. Age(reply) # 0
          BY <1>0, <1>5, <2>2, <3>2 DEF LatestIsLast
        <4> QED
          BY <1>1, <3>2, <4>1 DEF Age
      <3> QED
        BY <1>7, <3>1, <3>2
    <2>3. ASSUME NEW i \in Ends(output)', NEW n \in Ends(output)', i < n
          PROVE  Age(output[i].msg)' # 0
      <3>1. Age(output[i].msg) # 0
        BY <1>0, <1>5, <2>3 DEF LatestIsLast
      <3> QED
        BY <1>1, <3>1 DEF Age
    <2> QED
      BY <1>1, <1>8, <2>1, <2>2, <2>3 DEF LatestIsLast
  <1>12. Young(k)'
    <2>1. Stray' = Stray
      <3>1. Cardinality(Strays(input')) = 0 /\ Cardinality(Strays(input)) = 0
        BY <1>1, NoStrays
      <3> QED
        BY <1>1, <3>1, StrayNext DEF Stray
    <2>2. Left(k)' = Left(k) /\ Left(k) \in Int
      <3>1. Stray \in Nat /\ faults \in Nat
        BY StrayType, BridgeAssumption DEF Shape
      <3> QED
        BY <1>1, <2>1, <3>1 DEF Left
    <2>3. InAge' <= OutAge /\ InAge' <= InAge /\ OutAge' <= OutAge
      BY <1>1 DEF InAge, OutAge
    <2>4. InAge \in {0, 1} /\ OutAge \in {0, 1} /\ InAge' \in {0, 1} /\ OutAge' \in {0, 1}
      BY DEF InAge, OutAge
    <2>5. ASSUME NEW i \in Ours(k)' PROVE Age(input[i].msg)' + InAge' <= Left(k)'
      <3>1. CASE i \in Ours(k) /\ input'[i] = input[i] /\ i \in 1..Len(input)
        <4>1. Age(input[i].msg)' = Age(input[i].msg)
          BY <1>1, <3>1 DEF Age
        <4>2. Age(input[i].msg) + InAge <= Left(k)
          BY <1>0, <3>1, YoungParts
        <4>3. Age(input[i].msg) \in Nat
          BY <1>4, <3>1, AgeFacts, PieceTypes
        <4> QED
          BY <2>2, <2>3, <2>4, <4>1, <4>2, <4>3
      <3>2. CASE input'[i].msg = reply /\ OurReply(k)
        <4>1. Age(input[i].msg)' = Age(reply)
          BY <1>1, <3>2 DEF Age
        <4>2. Age(reply) + OutAge <= Left(k)
          BY <1>0, <3>2, YoungParts
        <4>3. Age(reply) \in Nat
          BY <1>2, <1>4, AgeFacts
        <4> QED
          BY <2>2, <2>3, <2>4, <4>1, <4>2, <4>3
      <3> QED
        BY <1>7, <3>1, <3>2
    <2>6. ASSUME NEW i \in Ends(output)' PROVE Age(output[i].msg)' + OutAge' <= Left(k)'
      <3>1. i \in Ends(output) /\ Age(output[i].msg)' = Age(output[i].msg)
        BY <1>1, <1>5 DEF Age
      <3>2. Age(output[i].msg) + OutAge <= Left(k)
        BY <1>0, <3>1, YoungParts
      <3>3. Age(output[i].msg) \in Nat
        BY <1>4, <3>1, AgeFacts, PieceTypes DEF Ends
      <3> QED
        BY <2>2, <2>3, <2>4, <3>1, <3>2, <3>3
    <2>7. Stray' <= faults'
      BY <1>0, <1>1, <2>1, YoungParts
    <2> QED
      BY <1>8, <2>5, <2>6, <2>7 DEF Young, Left, InAge, OutAge
  <1>13. AnswerInv(k)'
    <2> SUFFICES ASSUME phase' # "send" PROVE AnswerInv(k)'
      BY DEF AnswerInv
    <2>1. /\ Cmd' = Cmd /\ Request' = Request
          /\ Prepared(step + 1)' <=> Prepared(step + 1)
          /\ UNCHANGED <<call, step, got, op, seq>> /\ phase # "send"
      BY <1>1, CallSame DEF callVars
    <2>2. ASSUME NEW i \in Ends(output)', Age(output[i].msg)' = 0
          PROVE  output'[i].msg = [Request' EXCEPT !.seq = output'[i].msg.seq]
      <3>1. i \in Ends(output) /\ output'[i] = output[i] /\ Age(output[i].msg) = 0
        BY <1>1, <1>5, <2>2 DEF Age
      <3> QED
        BY <1>0, <2>1, <3>1 DEF AnswerInv
    <2>3. ASSUME NEW i \in Ours(k)' PROVE Right(input[i].msg)'
      <3>1. CASE i \in Ours(k) /\ input'[i] = input[i]
        <4>1. Right(input[i].msg)
          BY <1>0, <2>1, <3>1 DEF AnswerInv
        <4> QED
          BY <2>1, <3>1, <4>1 DEF Right, Fits, Refused
      <3>2. CASE input'[i].msg = reply /\ OurReply(k)
        <4>1. Right(reply)
          BY <1>0, <2>1, <3>2 DEF AnswerInv
        <4> QED
          BY <2>1, <3>2, <4>1 DEF Right, Fits, Refused
      <3> QED
        BY <1>7, <3>1, <3>2
    <2> QED
      BY <1>8, <2>2, <2>3 DEF AnswerInv
  <1>14. k = 1 => /\ Hid' /\ ~enabled' /\ (call' \in Transfers => step' = 0)
                  /\ input' # <<>> \/ reply' # NoReply
    BY <1>1, <1>2, <1>3, <1>5 DEF PipeInv, callVars
  <1> QED
    BY <1>8, <1>11, <1>12, <1>13, <1>14 DEF PipeInv

\* The client sends its request, and what is under way is one request older;
\* the sequence numbers do not come round to it.
LEMMA PipeAsks ==
  ASSUME MaxFaults + 1 < SeqMod, Shape, Shape', TypeOK, NEW k \in {0, 1}, PipeInv(k),
         call # "none", phase = "send", seq' = (seq + 1) % SeqMod,
         UNCHANGED <<transport, input, reply, step, got, op>>,
         Grown(output, output', Request),
         \/ /\ phase' = "pop" /\ call' = call /\ enabled' = enabled
            /\ faults' \in {faults, faults + 1}
         \/ /\ phase' = "send" /\ call' = "none" /\ enabled' \in {enabled, FALSE}
            /\ faults' = faults + 1
  PROVE  PipeInv(k)'
  <1>0. LatestIsLast(k) /\ Young(k) /\ AnswerInv(k)
    BY DEF PipeInv
  <1>1. seq \in SeqNumbers /\ seq' \in SeqNumbers /\ Request.seq = seq
    <2>1. seq \in SeqNumbers
      BY DEF TypeOK, SeqNumbers
    <2> QED
      BY <2>1, AgeAtFacts, RequestFacts
  <1>2. /\ faults \in Nat /\ faults' \in Nat /\ faults <= MaxFaults
        /\ MaxFaults \in Nat /\ SeqMod \in Nat /\ Len(output) \in Nat /\ Len(output') \in Nat
    BY BridgeAssumption DEF Shape
  <1>3. Stray' = Stray /\ Stray \in Nat /\ Stray <= faults
    BY <1>0, StrayNext, StrayType, YoungParts DEF Stray
  <1>4. InAge = 1 /\ OutAge = 1
    BY DEF InAge, OutAge
  <1>5. Left(k) = faults + 1 - k - Stray /\ Left(k)' = faults' + 1 - k - Stray
    BY <1>3 DEF Left
  <1>6. /\ Left(k) \in Nat /\ Left(k)' \in Nat /\ Left(k) <= MaxFaults + 1
        /\ Left(k)' = Left(k) + (faults' - faults) /\ Stray' <= faults'
    <2> DEFINE f == faults
               g == faults'
               s == Stray
    <2>1. /\ f \in Nat /\ g \in {f, f + 1} /\ s \in Nat /\ s <= f /\ f <= MaxFaults
          /\ MaxFaults \in Nat
      BY <1>2, <1>3
    <2> HIDE DEF f, g, s
    <2>2. /\ f + 1 - k - s \in Nat /\ g + 1 - k - s \in Nat /\ f + 1 - k - s <= MaxFaults + 1
          /\ g + 1 - k - s = (f + 1 - k - s) + (g - f) /\ s <= g
      BY <2>1
    <2> QED
      BY <1>3, <1>5, <2>2 DEF f, g, s
  <1>7. ASSUME NEW m, m.seq \in SeqNumbers, Age(m) + 1 <= Left(k)
        PROVE  (seq' + SeqMod - 1 - m.seq) % SeqMod = Age(m) + 1 /\ Age(m) \in Nat
    <2>1. Age(m) \in Nat /\ Age(m) = AgeAt(m.seq, seq)
      BY <1>1, <1>7, AgeFacts
    <2>2. Age(m) + 1 < SeqMod
      BY <1>2, <1>6, <1>7, <2>1
    <2>3. AgeAt(m.seq, (seq + 1) % SeqMod) = Age(m) + 1
      <3>1. AgeAt(m.seq, seq) + 1 < SeqMod
        BY <2>1, <2>2
      <3>2. AgeAt(m.seq, (seq + 1) % SeqMod) = AgeAt(m.seq, seq) + 1
        BY <1>1, <1>7, <3>1, AgeAtFacts
      <3> QED
        BY <2>1, <3>2
    <2> QED
      BY <2>1, <2>3 DEF AgeAt
  <1>8. (seq' + SeqMod - 1 - Request.seq) % SeqMod = 0
    BY <1>1, AgeAtFacts DEF AgeAt
  <1>9. Ends(input)' = Ends(input) /\ Ours(k)' = Ours(k) /\ NoReply' = NoReply /\ Transfers' = Transfers
    BY DEF Ends, Ours, Width, Hid, NoReply, Transfers
  <1>10. OurReply(k)' <=> OurReply(k)
    BY DEF OurReply, NoReply
  <1>11. ASSUME NEW i \in Ours(k)
         PROVE  /\ Age(input[i].msg)' = Age(input[i].msg) + 1
                /\ Age(input[i].msg) + 1 <= Left(k) /\ Age(input[i].msg) \in Nat
    <2>1. input[i].msg.seq \in SeqNumbers /\ Age(input[i].msg) + 1 <= Left(k)
      BY <1>0, <1>4, PieceTypes, YoungParts DEF Ours, Ends
    <2> QED
      BY <1>7, <2>1 DEF Age
  <1>12. ASSUME OurReply(k)
         PROVE  Age(reply)' = Age(reply) + 1 /\ Age(reply) + 1 <= Left(k) /\ Age(reply) \in Nat
    <2>1. reply.seq \in SeqNumbers /\ Age(reply) + 1 <= Left(k)
      BY <1>0, <1>4, <1>12, PieceTypes, YoungParts DEF OurReply
    <2> QED
      BY <1>7, <2>1 DEF Age
  <1>13. ASSUME NEW i \in Ends(output)'
         PROVE  \/ /\ i \in 1..Len(output) /\ output'[i] = output[i]
                   /\ Age(output[i].msg)' = Age(output[i].msg) + 1
                   /\ Age(output[i].msg) + 1 <= Left(k) /\ Age(output[i].msg) \in Nat
                \/ output'[i].msg = Request /\ i = Len(output') /\ Age(output[i].msg)' = 0
    <2>1. i \in 1..Len(output') /\ output'[i].part = Width
      BY EndsNext
    <2>2. CASE i <= Len(output)
      <3>1. i \in 1..Len(output) /\ output'[i] = output[i]
        BY <1>2, <2>1, <2>2 DEF Grown
      <3>2. i \in Ends(output)
        BY <2>1, <3>1 DEF Ends
      <3>3. output[i].msg.seq \in SeqNumbers /\ Age(output[i].msg) + 1 <= Left(k)
        BY <1>0, <1>4, <3>1, <3>2, PieceTypes, YoungParts
      <3> QED
        BY <1>7, <3>1, <3>3 DEF Age
    <2>3. CASE ~(i <= Len(output))
      <3>1. i \in (Len(output) + 1)..Len(output')
        BY <1>2, <2>1, <2>3
      <3>2. output'[i].msg = Request /\ i = Len(output')
        BY <2>1, <3>1 DEF Grown
      <3> QED
        BY <1>8, <3>2 DEF Age
    <2> QED
      BY <2>2, <2>3
  <1>14. \A i \in Ends(output)' : i \in 1..Len(output')
    BY EndsNext
  <1>15. LatestIsLast(k)'
    <2>1. ASSUME NEW i \in Ours(k)' PROVE Age(input[i].msg)' # 0
      BY <1>9, <1>11
    <2>2. ASSUME OurReply(k)' PROVE Age(reply)' # 0
      BY <1>10, <1>12, <2>2
    <2>3. ASSUME NEW i \in Ends(output)', NEW n \in Ends(output)', i < n
          PROVE  Age(output[i].msg)' # 0
      BY <1>2, <1>13, <1>14, <2>3
    <2> QED
      BY <2>1, <2>2, <2>3 DEF LatestIsLast
  <1>16. Left(k) + InAge' <= Left(k)' /\ Left(k) + OutAge' <= Left(k)' /\ OutAge' <= Left(k)'
         /\ InAge' \in {0, 1} /\ OutAge' \in {0, 1}
    <2>1. CASE phase' = "pop" /\ faults' \in {faults, faults + 1}
      <3>1. InAge' = 0 /\ OutAge' = 0
        BY <2>1 DEF InAge, OutAge
      <3>2. Left(k)' = Left(k) \/ Left(k)' = Left(k) + 1
        BY <1>2, <1>6, <2>1
      <3> QED
        BY <1>6, <3>1, <3>2
    <2>2. CASE phase' = "send" /\ faults' = faults + 1
      <3>1. InAge' = 1 /\ OutAge' = 1
        BY <2>2 DEF InAge, OutAge
      <3>2. Left(k)' = Left(k) + 1
        BY <1>2, <1>6, <2>2
      <3> QED
        BY <1>6, <3>1, <3>2
    <2> QED
      BY <2>1, <2>2
  <1>17. Young(k)'
    <2>1. ASSUME NEW i \in Ours(k)' PROVE Age(input[i].msg)' + InAge' <= Left(k)'
      BY <1>6, <1>9, <1>11, <1>16
    <2>2. ASSUME OurReply(k)' PROVE Age(reply)' + OutAge' <= Left(k)'
      BY <1>6, <1>10, <1>12, <1>16, <2>2
    <2>3. ASSUME NEW i \in Ends(output)' PROVE Age(output[i].msg)' + OutAge' <= Left(k)'
      BY <1>6, <1>13, <1>16
    <2>4. Stray' <= faults'
      BY <1>6
    <2> QED
      BY <2>1, <2>2, <2>3, <2>4 DEF Young, Left, InAge, OutAge
  <1>18. AnswerInv(k)'
    <2> SUFFICES ASSUME phase' # "send" PROVE AnswerInv(k)'
      BY DEF AnswerInv
    <2>1. Cmd' = Cmd /\ Request' = [Request EXCEPT !.seq = seq']
      <3>1. Cmd' = Cmd
        BY DEF Cmd, WriteStep, ReadStep
      <3> QED
        BY <3>1 DEF Request
    <2>2. ASSUME NEW i \in Ends(output)', Age(output[i].msg)' = 0
          PROVE  output'[i].msg = [Request' EXCEPT !.seq = output'[i].msg.seq]
      <3>1. output'[i].msg = Request
        BY <1>13, <2>2
      <3>2. Request = [Request EXCEPT !.seq = Request.seq]
        BY RequestFacts
      <3> QED
        BY <2>1, <3>1, <3>2 DEF Request
    <2>3. ASSUME NEW m, (seq' + SeqMod - 1 - m.seq) % SeqMod # 0, m.seq \in SeqNumbers
          PROVE  (m.seq + 1) % SeqMod # seq'
      <3>1. AgeAt(m.seq, seq') # 0
        BY <2>3 DEF AgeAt
      <3> QED
        BY <1>1, <2>3, <3>1, AgeAtFacts
    <2>4. ASSUME NEW i \in Ours(k)' PROVE Right(input[i].msg)'
      <3>1. input[i].msg.seq \in SeqNumbers /\ Age(input[i].msg)' # 0
        BY <1>9, <1>11, PieceTypes DEF Ours, Ends
      <3>2. (input[i].msg.seq + 1) % SeqMod # seq'
        BY <2>3, <3>1 DEF Age
      <3> QED
        BY <3>2 DEF Right, Fits
    <2>5. ASSUME OurReply(k)' PROVE Right(reply)'
      <3>1. reply.seq \in SeqNumbers /\ Age(reply)' # 0
        BY <1>10, <1>12, <2>5, PieceTypes DEF OurReply
      <3>2. (reply.seq + 1) % SeqMod # seq'
        BY <2>3, <3>1 DEF Age
      <3> QED
        BY <3>2 DEF Right, Fits
    <2> QED
      BY <2>2, <2>4, <2>5 DEF AnswerInv
  <1>19. k = 1 => /\ Hid' /\ ~enabled' /\ (call' \in Transfers => step' = 0)
                  /\ input' # <<>> \/ reply' # NoReply
    BY DEF PipeInv, Transfers, Hid
  <1> QED
    BY <1>9, <1>15, <1>17, <1>18, <1>19 DEF PipeInv

\* The client stops waiting: what is still under way has cost one more fault,
\* unless nothing is.
LEMMA PipeStops ==
  ASSUME Shape, Shape', TypeOK, NEW k \in {0, 1}, NEW d, PipeInv(k), NEW j, j = Strange(k, d),
         UNCHANGED <<transport, reply, output, seq>>, Suffix(input, input', d),
         AnswerInv(j)', Stray' <= faults',
         j = 1 => ~enabled' /\ (call' \in Transfers => step' = 0),
         Left(j)' >= Left(k),
         \/ Left(j)' >= Left(k) + 1
         \/ /\ InAge' <= InAge \/ Ours(j)' = {}
            /\ OutAge' <= OutAge \/ (Ends(output)' = {} /\ ~(OurReply(j)'))
  PROVE  PipeInv(j)'
  <1>0. LatestIsLast(k) /\ Young(k) /\ AnswerInv(k)
    BY DEF PipeInv
  <1>1. output \in Seq(Pieces(ReqMsg)) /\ input \in Seq(Pieces(RespMsg))
    BY PieceTypes
  <1>2. Suffix(output, output', 0)
    BY <1>1, SameSuffix
  <1>3. /\ \A i \in Ours(j)' : i + d \in Ours(k) /\ input'[i] = input[i + d]
        /\ \A i \in Ends(output)' : i + 0 \in Ends(output) /\ output'[i] = output[i + 0]
        /\ OurReply(j)' => OurReply(k)
        /\ d \in Nat /\ j \in {0, 1}
    BY <1>2, SuffixOurs
  <1>4. LatestIsLast(j)'
    BY <1>0, <1>2, SuffixOrder
  <1>5. seq \in SeqNumbers
    BY DEF TypeOK, SeqNumbers
  <1>6. InAge \in {0, 1} /\ OutAge \in {0, 1} /\ InAge' \in {0, 1} /\ OutAge' \in {0, 1}
    BY DEF InAge, OutAge
  <1>7. Left(k) \in Int /\ Left(j)' \in Int
    <2>1. faults \in Nat /\ faults' \in Nat /\ Stray \in Nat /\ Stray' \in Nat
      <3>1. Stray \in Nat /\ faults \in Nat
        BY StrayType, BridgeAssumption DEF Shape
      <3>2. input' \in Seq([part : Parts', msg : RespMsg']) /\ faults' \in Nat
        BY BridgeAssumption DEF Shape
      <3>3. Stray' \in Nat
        BY <3>2, StraysFinite, StrayNext
      <3> QED
        BY <3>1, <3>2, <3>3
    <2>2. Left(j)' = faults' + 1 - j - Stray' /\ Left(k) = faults + 1 - k - Stray
      BY DEF Left
    <2> QED
      BY <1>3, <2>1, <2>2
  <1>8. ASSUME NEW i \in Ours(j)' PROVE Age(input[i].msg)' + InAge' <= Left(j)'
    <2>1. i + d \in Ours(k) /\ Age(input[i].msg)' = Age(input[i + d].msg)
      BY <1>3 DEF Age
    <2>2. Age(input[i + d].msg) + InAge <= Left(k)
      BY <1>0, <2>1, YoungParts
    <2>3. Age(input[i + d].msg) \in Nat
      BY <1>5, <2>1, AgeFacts, PieceTypes DEF Ours, Ends
    <2>4. Left(j)' >= Left(k) + 1 \/ InAge' <= InAge
      OBVIOUS
    <2> QED
      BY <1>6, <1>7, <2>1, <2>2, <2>3, <2>4
  <1>9. ASSUME OurReply(j)' PROVE Age(reply)' + OutAge' <= Left(j)'
    <2>1. OurReply(k) /\ Age(reply)' = Age(reply)
      BY <1>3, <1>9 DEF Age
    <2>2. Age(reply) + OutAge <= Left(k)
      BY <1>0, <2>1, YoungParts
    <2>3. Age(reply) \in Nat
      BY <1>5, <2>1, AgeFacts, PieceTypes DEF OurReply
    <2>4. Left(j)' >= Left(k) + 1 \/ OutAge' <= OutAge
      BY <1>9
    <2> QED
      BY <1>6, <1>7, <2>1, <2>2, <2>3, <2>4
  <1>10. ASSUME NEW i \in Ends(output)' PROVE Age(output[i].msg)' + OutAge' <= Left(j)'
    <2>1. i + 0 \in Ends(output) /\ Age(output[i].msg)' = Age(output[i + 0].msg)
      BY <1>3 DEF Age
    <2>2. Age(output[i + 0].msg) + OutAge <= Left(k)
      BY <1>0, <2>1, YoungParts
    <2>3. Age(output[i + 0].msg) \in Nat
      BY <1>5, <2>1, AgeFacts, PieceTypes DEF Ends
    <2>4. Left(j)' >= Left(k) + 1 \/ OutAge' <= OutAge
      OBVIOUS
    <2> QED
      BY <1>6, <1>7, <2>1, <2>2, <2>3, <2>4
  <1>11. Young(j)'
    BY <1>8, <1>9, <1>10 DEF Young, Left, InAge, OutAge
  <1>12. j = 1 => Hid' /\ (input' # <<>> \/ reply' # NoReply)
    <2> SUFFICES ASSUME j = 1 PROVE Hid' /\ (input' # <<>> \/ reply' # NoReply)
      OBVIOUS
    <2>1. k = 1 /\ d = 0
      BY DEF Strange
    <2>2. Hid /\ (input # <<>> \/ reply # NoReply)
      BY <2>1 DEF PipeInv
    <2>3. input # <<>> => input' # <<>>
      BY <1>1, <2>1 DEF Suffix
    <2> QED
      BY <2>2, <2>3 DEF Hid
  <1>13. NoReply' = NoReply /\ Transfers' = Transfers
    BY DEF NoReply, Transfers
  <1> QED
    BY <1>4, <1>11, <1>12, <1>13 DEF PipeInv

\* The frame that is taken is the last there is, or one that was left from
\* before the user connected.
LEMMA Taken ==
  ASSUME Shape, TypeOK, NEW k \in {0, 1}, PipeInv(k), phase # "send",
         Whole(Sync(input)), Fits(Sync(input)[1].msg)
  PROVE  \E d \in 1..Len(input) :
           /\ Suffix(input, SubSeq(Sync(input), Width + 1, Len(Sync(input))), d)
           /\ Sync(input)[1].msg \in RespMsg
           /\ Sync(input)[1].msg.cmd # "fetch" => Sync(input)[1].msg.data = <<>>
           /\ d \in Ends(input) /\ input[d].msg = Sync(input)[1].msg
           /\ \/ k = 1
              \/ /\ \A i \in Ends(input) : i <= d
                 /\ reply = NoReply /\ Ends(output) = {}
                 /\ Right(Sync(input)[1].msg)
  <1> DEFINE s == Sync(input)
             t == SubSeq(s, Width + 1, Len(s))
  <1>0. LatestIsLast(k) /\ AnswerInv(k) /\ seq \in SeqNumbers
    BY DEF PipeInv, TypeOK, SeqNumbers
  <1>1. input \in Seq(Pieces(RespMsg))
    BY PieceTypes
  <1>2. s \in Seq(Pieces(RespMsg)) /\ \E e \in 0..Len(input) : Suffix(input, s, e)
    BY <1>1, SyncSuffix
  <1> PICK e \in 0..Len(input) : Suffix(input, s, e)
    BY <1>2
  <1>3. Width \in 1..Len(s) /\ Len(s) \in Nat /\ Width \in Nat
    BY <1>2, WidthType DEF Whole
  <1>4. s[Width].part = Width /\ s[Width].msg = s[1].msg
    <2>1. CASE Hid
      <3>1. Width = 1 /\ Parts = {1} /\ s[1] \in Pieces(RespMsg)
        BY <1>2, <1>3, <2>1, WidthType
      <3> QED
        BY <3>1 DEF Pieces
    <2>2. CASE ~Hid
      BY <2>2, WidthType DEF Whole
    <2> QED
      BY <2>1, <2>2
  <1>5. t \in Seq(Pieces(RespMsg)) /\ Suffix(s, t, Width)
    BY <1>2, <1>3, DropSuffix
  <1> DEFINE d == e + Width
  <1>6. Suffix(input, t, d)
    BY <1>1, <1>2, <1>5, SuffixSuffix
  <1>7. d \in 1..Len(input) /\ input[d] = s[Width] /\ Len(input) \in Nat
    <2>1. Len(s) = Len(input) - e /\ s[Width] = input[Width + e] /\ Len(input) \in Nat
      BY <1>1, <1>3 DEF Suffix
    <2> QED
      BY <1>3, <2>1
  <1> HIDE DEF s, t, d
  <1>8. s[1].msg \in RespMsg /\ d \in Ends(input) /\ input[d].msg = s[1].msg
    BY <1>4, <1>7, PieceTypes DEF Ends
  <1>9. Age(input[d].msg) = 0
    <2>1. Fits(s[1].msg) /\ s[1].msg.seq \in SeqNumbers
      BY <1>8 DEF s, RespMsg, SeqNumbers
    <2> QED
      BY <1>0, <1>8, <2>1, AgeFacts
  <1>10. s[1].msg.cmd # "fetch" => s[1].msg.data = <<>>
    <2>1. input[d].msg.cmd # "fetch" => input[d].msg.data = <<>>
      BY <1>7 DEF Shape
    <2> QED
      BY <1>8, <2>1
  <1>11. CASE k = 0
    <2>1. d \in Ours(k)
      BY <1>7, <1>8, <1>11 DEF Ours
    <2>2. ASSUME NEW i \in Ends(input) PROVE i <= d
      <3>1. i \in 1..Len(input) /\ (i > d => i \in Ours(k))
        BY <1>7, <1>11 DEF Ends, Ours
      <3>2. ~(d < i)
        BY <1>0, <1>9, <2>1, <3>1, <1>7 DEF LatestIsLast
      <3> QED
        BY <1>7, <3>1, <3>2
    <2>3. reply = NoReply /\ Ends(output) = {}
      BY <1>0, <1>9, <2>1 DEF LatestIsLast
    <2>4. Right(s[1].msg)
      BY <1>0, <1>8, <2>1 DEF AnswerInv
    <2> QED
      BY <1>6, <1>7, <1>8, <1>10, <2>2, <2>3, <2>4 DEF s, t
  <1>12. CASE k = 1
    BY <1>6, <1>7, <1>8, <1>10, <1>12 DEF s, t
  <1> QED
    BY <1>11, <1>12

LEMMA StopFacts ==
  ASSUME Shape, Shape', TypeOK, NEW k \in {0, 1}, Young(k), transport' = transport,
         NEW d, Suffix(input, input', d), NEW j, j = Strange(k, d),
         faults' \in {faults, faults + 1}
  PROVE  /\ Stray' <= Stray /\ Stray' <= faults' /\ Left(j)' >= Left(k)
         /\ faults' = faults + 1 \/ (k = 1 /\ j = 0) \/ Stray' < Stray => Left(j)' >= Left(k) + 1
  <1>1. Stray \in Nat /\ faults \in Nat /\ Stray <= faults
    BY StrayType, BridgeAssumption, YoungParts DEF Shape
  <1>2. Stray' \in Nat /\ Stray' <= Stray
    <2>1. input \in Seq(Pieces(RespMsg)) /\ input' \in Seq([part : Parts', msg : RespMsg'])
      BY PieceTypes DEF Shape
    <2>2. Pieces(RespMsg) = [part : Parts, msg : RespMsg] /\ Parts' = Parts /\ RespMsg' = RespMsg
      BY DEF Pieces, Parts, Hid, RespMsg, Cmds, Later
    <2>3. input' \in Seq(Pieces(RespMsg))
      BY <2>1, <2>2
    <2> QED
      BY <2>1, <2>3, StraysSuffix, StraysFinite, StrayNext DEF Stray
  <1>3. j \in {0, 1} /\ j <= k
    BY DEF Strange
  <1>4. Left(j)' = faults' + 1 - j - Stray' /\ Left(k) = faults + 1 - k - Stray
    BY DEF Left
  <1> DEFINE f == faults
             g == faults'
             s == Stray
             t == Stray'
  <1>5. f \in Nat /\ g \in {f, f + 1} /\ s \in Nat /\ t \in Nat /\ t <= s /\ s <= f
    BY <1>1, <1>2
  <1> HIDE DEF f, g, s, t
  <1>6. /\ t <= g /\ g + 1 - j - t >= f + 1 - k - s
        /\ g = f + 1 \/ (k = 1 /\ j = 0) \/ t < s => g + 1 - j - t >= (f + 1 - k - s) + 1
    BY <1>3, <1>5
  <1> QED
    BY <1>2, <1>4, <1>6 DEF f, g, s, t

LEMMA PipeTake ==
  ASSUME Shape, Shape', TypeOK, CallInv, Take, Pipe
  PROVE  Pipe'
  <1> DEFINE s == Sync(input)
             r == s[1].msg
  <1>1. /\ phase # "send" /\ handle = "open" /\ Whole(s) /\ Fits(r)
        /\ input' = SubSeq(s, Width + 1, Len(s))
        /\ UNCHANGED <<transport, seq, output, reply>> /\ faults' = faults
        /\ phase' = "send"
    BY DEF Take, InCall, End, Count, NoFault, budget
  <1>2. call' = "none" \/ (call' = call /\ step' = step + 1)
    BY DEF Take, End
  <1> PICK k \in {0, 1} : PipeInv(k)
    BY <1>1 DEF Pipe
  <1> PICK d \in 1..Len(input) :
           /\ Suffix(input, input', d)
           /\ \/ k = 1
              \/ (\A i \in Ends(input) : i <= d) /\ reply = NoReply /\ Ends(output) = {}
    BY <1>1, Taken
  <1> DEFINE j == Strange(k, d)
  <1>3. j = 0 /\ d \in Nat
    BY PieceTypes DEF Strange
  <1>4. AnswerInv(j)'
    BY <1>1 DEF AnswerInv
  <1>5. Young(k)
    BY DEF PipeInv
  <1>6. /\ Stray' <= faults' /\ Left(j)' >= Left(k)
        /\ k = 1 => Left(j)' >= Left(k) + 1
    BY <1>1, <1>3, <1>5, StopFacts
  <1>7. ASSUME \A i \in Ends(input) : i <= d, reply = NoReply, Ends(output) = {}
        PROVE  Ours(j)' = {} /\ Ends(output)' = {} /\ ~(OurReply(j)')
    <2>1. Ends(input)' = {}
      <3> SUFFICES ASSUME NEW i \in Ends(input)' PROVE FALSE
        OBVIOUS
      <3>1. i + d \in Ends(input) /\ i \in 1..Len(input')
        <4>1. Suffix(output, output', 0)
          BY <1>1, PieceTypes, SameSuffix
        <4> QED
          BY <1>1, <4>1, SuffixOurs, EndsNext
      <3> QED
        BY <1>3, <1>7, <3>1
    <2>2. Ends(output)' = {}
      BY <1>1, <1>7, EndsNext DEF Ends
    <2>3. NoReply' = NoReply
      BY DEF NoReply
    <2> QED
      BY <1>1, <1>7, <2>1, <2>2, <2>3 DEF Ours, OurReply
  <1> HIDE DEF j
  <1>8. PipeInv(j)'
    BY <1>1, <1>3, <1>4, <1>6, <1>7, PipeStops DEF j
  <1> QED
    BY <1>3, <1>8 DEF Pipe

LEMMA PipeTimeUp ==
  ASSUME Shape, Shape', TypeOK, CallInv, TimeUp, Pipe
  PROVE  Pipe'
  <1> SUFFICES ASSUME handle' = "open" PROVE \E k \in {0, 1} : PipeInv(k)'
    BY DEF Pipe
  <1>1. /\ phase = "read" /\ handle = "open" /\ call # "none"
        /\ UNCHANGED <<transport, seq, output, reply, input, step, got, op>>
        /\ UNCHANGED <<ready, stageTx, stageRx, wire>>
    BY DEF TimeUp, InCall, firmware
  <1>2. /\ Hid => phase' = "send" /\ call' = "none" /\ enabled' \in {enabled, FALSE}
        /\ ~Hid => phase' = "last" /\ UNCHANGED <<handle, enabled, call>>
        /\ Silent => faults' = faults
        /\ ~Silent => faults' = faults + 1
    BY DEF TimeUp, End, Count, Fault, NoFault, budget
  <1> PICK k \in {0, 1} : PipeInv(k)
    BY <1>1 DEF Pipe
  <1>3. input \in Seq(Pieces(RespMsg)) /\ Suffix(input, input', 0) /\ Strange(k, 0) = k
    BY <1>1, PieceTypes, SameSuffix DEF Strange
  <1>4. Young(k) /\ AnswerInv(k)
    BY DEF PipeInv
  <1>5. /\ Stray' <= faults' /\ Left(k)' >= Left(k)
        /\ ~Silent => Left(k)' >= Left(k) + 1
    BY <1>1, <1>2, <1>3, <1>4, StopFacts
  <1>6. AnswerInv(k)'
    <2>1. CASE phase' = "send"
      BY <2>1 DEF AnswerInv
    <2>2. CASE phase' = "last"
      <3>1. UNCHANGED callVars /\ Suffix(output, output', 0)
        BY <1>1, <1>2, <2>2, PieceTypes, SameSuffix DEF callVars
      <3>2. AnswerInv(Strange(k, 0))'
        BY <1>1, <1>3, <1>4, <3>1, SuffixAnswers
      <3> QED
        BY <1>3, <3>2
    <2> QED
      BY <1>2, <2>1, <2>2
  <1>7. k = 1 => ~enabled' /\ (call' \in Transfers => step' = 0)
    BY <1>1, <1>2 DEF PipeInv, Transfers
  <1>8. Silent => /\ InAge' <= InAge \/ Ours(k)' = {}
                  /\ Ends(output)' = {} /\ ~(OurReply(k)')
    <2> SUFFICES ASSUME Silent
                 PROVE  /\ InAge' <= InAge \/ Ours(k)' = {}
                        /\ Ends(output)' = {} /\ ~(OurReply(k)')
      OBVIOUS
    <2>1. output' = <<>> /\ reply' = NoReply' /\ NoReply' = NoReply
      BY <1>1 DEF Silent, NoReply
    <2>2. Ends(output)' = {} /\ ~(OurReply(k)')
      BY <2>1 DEF Ends, OurReply
    <2>3. CASE Hid
      <3>1. input' = <<>>
        BY <1>1, <2>3 DEF CallInv
      <3> QED
        BY <2>2, <3>1 DEF Ours, Ends
    <2>4. CASE ~Hid
      <3>1. InAge' = 0 /\ InAge = 0
        BY <1>1, <1>2, <2>4 DEF InAge
      <3> QED
        BY <2>2, <3>1
    <2> QED
      BY <2>3, <2>4
  <1>9. PipeInv(k)'
    BY <1>1, <1>3, <1>5, <1>6, <1>7, <1>8, PipeStops
  <1> QED
    BY <1>9

\* What PopNothing leaves: the start of a frame, or it has met a header without
\* its payload.
LEMMA PoppedNothing ==
  ASSUME Shape, ~Whole(Sync(input)), transport' = transport,
         input' = IF Len(Sync(input)) < Width THEN Sync(input) ELSE Tail(Sync(input))
  PROVE  \E d \in 0..Len(input) :
           /\ Suffix(input, input', d)
           /\ \/ Ends(input)' = {} /\ Len(input') < Width
              \/ ~Hid /\ \E i \in 1..d : i \in Strays(input)
           /\ Hid => input' = <<>>
  <1> DEFINE s == Sync(input)
  <1>1. input \in Seq(Pieces(RespMsg)) /\ Len(input) \in Nat
    BY PieceTypes
  <1>2. /\ s \in Seq(Pieces(RespMsg)) /\ \E e \in 0..Len(input) : Suffix(input, s, e)
        /\ s # <<>> => s[1].part = 1
    BY <1>1, SyncSuffix
  <1> PICK e \in 0..Len(input) : Suffix(input, s, e)
    BY <1>2
  <1>3. ~Whole(s) /\ input' = (IF Len(s) < Width THEN s ELSE Tail(s)) /\ Len(s) \in Nat
    BY <1>2
  <1> HIDE DEF s
  <1>4. CASE Len(s) < Width
    <2>1. input' = s
      BY <1>3, <1>4
    <2>2. Ends(input)' = {}
      <3> SUFFICES ASSUME NEW i \in Ends(input)' PROVE FALSE
        OBVIOUS
      <3>1. i \in 1..Len(s) /\ s[i].part = Width
        BY <2>1, EndsNext
      <3>2. i = 1 /\ s # <<>> /\ Width = 2
        BY <1>2, <1>3, <1>4, <3>1, WidthType
      <3> QED
        BY <1>2, <3>1, <3>2
    <2>3. Hid => input' = <<>>
      BY <1>2, <1>3, <1>4, <2>1, WidthType
    <2>4. Len(input') < Width
      BY <1>4, <2>1
    <2> QED
      BY <2>1, <2>2, <2>3, <2>4
  <1>5. CASE ~(Len(s) < Width)
    <2>1. ~Hid /\ Width = 2 /\ Len(s) >= 2 /\ s[2] # [part |-> 2, msg |-> s[1].msg]
      BY <1>3, <1>5, WidthType DEF Whole
    <2>2. s # <<>> /\ input' = Tail(s)
      BY <1>2, <1>3, <1>5, <2>1
    <2>3. Tail(s) \in Seq(Pieces(RespMsg)) /\ Suffix(s, Tail(s), 1)
      BY <1>2, <2>2, TailSuffix
    <2>4. Suffix(input, input', e + 1)
      BY <1>1, <1>2, <2>2, <2>3, SuffixSuffix
    <2>5. /\ Len(s) = Len(input) - e /\ s[1] = input[1 + e] /\ s[2] = input[2 + e]
      BY <1>3, <2>1 DEF Suffix
    <2>6. e + 1 \in 1..Len(input) /\ e + 1 < Len(input) /\ 1 + e = e + 1 /\ 2 + e = (e + 1) + 1
          /\ e + 1 \in 1..(e + 1) /\ e + 1 \in 0..Len(input)
      BY <1>1, <1>3, <2>1, <2>5
    <2>7. e + 1 \in Strays(input)
      <3>1. input[e + 1].part = 1 /\ input[(e + 1) + 1] # [part |-> 2, msg |-> input[e + 1].msg]
        BY <1>2, <2>1, <2>2, <2>5, <2>6
      <3> QED
        BY <2>1, <2>6, <3>1 DEF Strays
    <2> QED
      BY <2>1, <2>4, <2>6, <2>7
  <1> QED
    BY <1>4, <1>5

LEMMA PipePopNothing ==
  ASSUME Shape, Shape', TypeOK, PopNothing, Pipe
  PROVE  Pipe'
  <1> SUFFICES ASSUME handle' = "open" PROVE \E k \in {0, 1} : PipeInv(k)'
    BY DEF Pipe
  <1>1. /\ handle = "open" /\ ~Whole(Sync(input))
        /\ input' = IF Len(Sync(input)) < Width THEN Sync(input) ELSE Tail(Sync(input))
        /\ UNCHANGED <<transport, seq, step, got, output, reply, op>>
        /\ UNCHANGED <<ready, stageTx, stageRx, wire>> /\ faults' = faults
    BY DEF PopNothing, firmware, End, Count, NoFault, budget
  <1>2. \/ phase = "pop" /\ phase' = "read" /\ UNCHANGED <<enabled, call>>
        \/ phase = "last" /\ phase' = "send" /\ call' = "none" /\ enabled' \in {enabled, FALSE}
    BY DEF PopNothing, InCall, End
  <1> PICK k \in {0, 1} : PipeInv(k)
    BY <1>1 DEF Pipe
  <1> PICK d \in 0..Len(input) :
           /\ Suffix(input, input', d)
           /\ Ends(input)' = {} \/ (~Hid /\ \E i \in 1..d : i \in Strays(input))
    BY <1>1, PoppedNothing
  <1>3. output \in Seq(Pieces(ReqMsg)) /\ Suffix(output, output', 0) /\ input \in Seq(Pieces(RespMsg))
    BY <1>1, PieceTypes, SameSuffix
  <1> DEFINE j == Strange(k, d)
  <1>4. j \in {0, 1}
    BY DEF Strange
  <1>5. CASE phase = "pop" /\ phase' = "read" /\ UNCHANGED <<enabled, call>>
    <2>1. UNCHANGED callVars /\ UNCHANGED <<transport, reply, faults, enabled>>
      BY <1>1, <1>5 DEF callVars
    <2>2. PipeInv(Strange(k, d))'
      BY <1>3, <1>5, <2>1, PipeShrinks
    <2> QED
      BY <1>4, <2>2
  <1>6. CASE phase = "last" /\ phase' = "send" /\ call' = "none" /\ enabled' \in {enabled, FALSE}
    <2>1. AnswerInv(j)'
      BY <1>6 DEF AnswerInv
    <2>2. Young(k)
      BY DEF PipeInv
    <2>3. /\ Stray' <= faults' /\ Left(j)' >= Left(k)
          /\ Stray' < Stray => Left(j)' >= Left(k) + 1
      BY <1>1, <2>2, StopFacts
    <2>4. (\E i \in 1..d : i \in Strays(input)) => Stray' < Stray
      <3> SUFFICES ASSUME NEW i \in 1..d, i \in Strays(input) PROVE Stray' < Stray
        OBVIOUS
      <3>1. input' \in Seq(Pieces(RespMsg))
        <4>1. input' \in Seq([part : Parts', msg : RespMsg'])
          BY DEF Shape
        <4>2. Pieces(RespMsg) = [part : Parts, msg : RespMsg] /\ Parts' = Parts /\ RespMsg' = RespMsg
          BY <1>1 DEF Pieces, Parts, Hid, RespMsg, Cmds, Later
        <4> QED
          BY <4>1, <4>2
      <3>2. Cardinality(Strays(input')) <= Cardinality(Strays(input)) - 1
        BY <1>3, <3>1, StraysTail
      <3>3. Cardinality(Strays(input)) \in Nat /\ Cardinality(Strays(input')) \in Nat
        BY <1>3, <3>1, StraysFinite
      <3> QED
        BY <1>1, <3>2, <3>3, StrayNext DEF Stray
    <2>5. Ends(input)' = {} => Ours(j)' = {}
      BY DEF Ours
    <2>6. OutAge' = 1 /\ OutAge = 1
      BY <1>6 DEF OutAge
    <2>7. j = 1 => ~enabled' /\ (call' \in Transfers => step' = 0)
      <3>1. j = 1 => k = 1
        BY DEF Strange
      <3> QED
        BY <1>6, <3>1 DEF PipeInv, Transfers
    <2> HIDE DEF j
    <2>8. PipeInv(j)'
      BY <1>1, <2>1, <2>3, <2>4, <2>5, <2>6, <2>7, PipeStops DEF j
    <2> QED
      BY <1>4, <2>8
  <1> QED
    BY <1>2, <1>5, <1>6

LEMMA PipeSkip ==
  ASSUME Shape, Shape', TypeOK, Skip, Pipe
  PROVE  Pipe'
  <1> DEFINE s == Sync(input)
             t == SubSeq(s, Width + 1, Len(s))
  <1>1. /\ handle = "open" /\ Whole(s) /\ input' = t
        /\ UNCHANGED <<transport, reply, faults, enabled, phase, output>> /\ UNCHANGED callVars
    BY DEF Skip, client, firmware, budget, callVars
  <1> PICK k \in {0, 1} : PipeInv(k)
    BY <1>1 DEF Pipe
  <1>2. input \in Seq(Pieces(RespMsg)) /\ output \in Seq(Pieces(ReqMsg)) /\ Suffix(output, output', 0)
    BY <1>1, PieceTypes, SameSuffix
  <1>3. s \in Seq(Pieces(RespMsg)) /\ \E e \in 0..Len(input) : Suffix(input, s, e)
    BY <1>2, SyncSuffix
  <1> PICK e \in 0..Len(input) : Suffix(input, s, e)
    BY <1>3
  <1>4. Width \in 0..Len(s)
    BY <1>1, <1>3, WidthType DEF Whole
  <1>5. t \in Seq(Pieces(RespMsg)) /\ Suffix(s, t, Width)
    BY <1>3, <1>4, DropSuffix
  <1>6. Suffix(input, t, e + Width)
    BY <1>2, <1>3, <1>5, SuffixSuffix
  <1> HIDE DEF s, t
  <1> PICK d : Suffix(input, input', d)
    BY <1>1, <1>6
  <1>7. PipeInv(Strange(k, d))'
    BY <1>1, <1>2, PipeShrinks
  <1>8. Strange(k, d) \in {0, 1}
    BY DEF Strange
  <1> QED
    BY <1>7, <1>8 DEF Pipe

LEMMA PipeParse ==
  ASSUME Shape, Shape', TypeOK, ParseByte, Pipe
  PROVE  Pipe'
  <1> SUFFICES ASSUME handle' = "open" PROVE \E k \in {0, 1} : PipeInv(k)'
    BY DEF Pipe
  <1>1. /\ handle = "open" /\ output # <<>> /\ output' = Tail(output)
        /\ UNCHANGED <<transport, reply, faults, enabled, phase, input>> /\ UNCHANGED callVars
    BY DEF ParseByte, client, firmware, budget, callVars
  <1> PICK k \in {0, 1} : PipeInv(k)
    BY <1>1 DEF Pipe
  <1>2. Suffix(input, input', 0) /\ Suffix(output, output', 1)
    BY <1>1, PieceTypes, SameSuffix, TailSuffix
  <1>3. PipeInv(Strange(k, 0))'
    BY <1>1, <1>2, PipeShrinks
  <1>4. Strange(k, 0) = k
    BY DEF Strange
  <1> QED
    BY <1>3, <1>4

LEMMA PipeSend ==
  ASSUME MaxFaults + 1 < SeqMod, Shape, Shape', TypeOK, Send, Pipe
  PROVE  Pipe'
  <1>1. /\ call # "none" /\ phase = "send" /\ handle = "open" /\ seq' = (seq + 1) % SeqMod
        /\ phase' = "pop"
        /\ UNCHANGED <<transport, handle, enabled, call, input, reply, step, got, op>>
    BY DEF Send, InCall
  <1> PICK k \in {0, 1} : PipeInv(k)
    BY <1>1 DEF Pipe
  <1>2. faults' \in {faults, faults + 1}
    BY DEF Send, Fault, NoFault, budget
  <1>3. Request \in ReqMsg /\ output \in Seq(Pieces(ReqMsg)) /\ Len(output) <= RingSize
    BY <1>1, RequestType, PieceTypes DEF TypeOK
  <1>4. Grown(output, output', Request)
    <2>1. \E parts \in SUBSET Parts : output' = Received(Frame(Request, parts))
      BY DEF Send
    <2> QED
      BY <1>3, <2>1, ReceivedGrown
  <1>5. PipeInv(k)'
    BY <1>1, <1>2, <1>4, PipeAsks
  <1> QED
    BY <1>5 DEF Pipe

LEMMA PipeSendThrows ==
  ASSUME MaxFaults + 1 < SeqMod, Shape, Shape', TypeOK, SendThrows, Pipe
  PROVE  Pipe'
  <1>1. /\ call # "none" /\ phase = "send" /\ handle = "open" /\ seq' = (seq + 1) % SeqMod
        /\ phase' = "send" /\ call' = "none" /\ faults' = faults + 1
        /\ UNCHANGED <<transport, input, reply, step, got, op>>
        /\ enabled' \in {enabled, FALSE}
    BY DEF SendThrows, InCall, End, Fault
  <1> PICK k \in {0, 1} : PipeInv(k)
    BY <1>1 DEF Pipe
  <1>2. Request \in ReqMsg /\ output \in Seq(Pieces(ReqMsg)) /\ Len(output) <= RingSize
    BY <1>1, RequestType, PieceTypes DEF TypeOK
  <1>3. Grown(output, output', Request)
    <2>1. output' = output \/ output' = Received(Frame(Request, Parts))
      BY DEF SendThrows
    <2>2. Parts \in SUBSET Parts
      OBVIOUS
    <2> QED
      BY <1>2, <2>1, <2>2, ReceivedGrown, SameGrown
  <1>4. PipeInv(k)'
    BY <1>1, <1>3, PipeAsks
  <1> QED
    BY <1>4 DEF Pipe

\* A reset leaves nothing of what the firmware had, nor of what it had sent.
LEMMA PreparedRestart ==
  ASSUME Restart, TypeOK, Shape, NEW n \in Nat, Prepared(n)
  PROVE  Prepared(n)'
  <1>1. /\ ready' = FALSE /\ stageTx' = <<>> /\ stageRx' = <<>>
        /\ UNCHANGED <<call, op, wire>>
    BY DEF Restart
  <1>2. Executed' <=> Executed
    BY <1>1 DEF Executed, TransferOf
  <1>3. n \in 2..(Chunks + 2) => Len(stageTx') <= n - 2
    BY <1>1
  <1> QED
    BY <1>1, <1>2, <1>3 DEF Prepared

LEMMA PipeRestart ==
  ASSUME Shape, Shape', TypeOK, Restart, faults' \in {faults, faults + 1}, Pipe
  PROVE  Pipe'
  <1> SUFFICES ASSUME handle' = "open" PROVE \E k \in {0, 1} : PipeInv(k)'
    BY DEF Pipe
  <1>1. /\ handle = "open" /\ ~Hid /\ output' = <<>> /\ reply' = NoReply
        /\ UNCHANGED <<transport, enabled, call, seq, step, phase, got, input, op, wire>>
    BY DEF Restart, client
  <1> PICK k \in {0, 1} : PipeInv(k)
    BY <1>1 DEF Pipe
  <1>2. k = 0 /\ Strange(k, 0) = 0 /\ LatestIsLast(k) /\ Young(k) /\ AnswerInv(k)
    BY <1>1 DEF PipeInv, Strange
  <1>3. input \in Seq(Pieces(RespMsg)) /\ Suffix(input, input', 0) /\ step \in Nat
    BY <1>1, PieceTypes, SameSuffix DEF TypeOK
  <1>4. Stray' <= faults' /\ Left(0)' >= Left(0)
    BY <1>1, <1>2, <1>3, StopFacts
  <1>5. /\ Ends(output)' = {} /\ ~(OurReply(0)') /\ Ours(0)' = Ours(0) /\ NoReply' = NoReply
        /\ reply = NoReply /\ \A i \in Ours(0) : Age(input[i].msg)' = Age(input[i].msg)
    BY <1>1 DEF Ends, OurReply, Ours, Width, Hid, NoReply, Age, Shape
  <1>6. LatestIsLast(0)'
    BY <1>1, <1>2, <1>5 DEF LatestIsLast
  <1>7. seq \in SeqNumbers
    BY DEF TypeOK, SeqNumbers
  <1>8. Young(0)'
    <2>1. InAge' = InAge /\ InAge \in {0, 1}
      BY <1>1 DEF InAge
    <2>2. Left(0) \in Int /\ Left(0)' \in Int
      <3>1. Stray \in Nat /\ faults \in Nat /\ Left(0) = faults + 1 - 0 - Stray
        BY StrayType, BridgeAssumption DEF Shape, Left
      <3>2. Stray' = Stray /\ Left(0)' = faults' + 1 - 0 - Stray'
        BY <1>1, StrayNext DEF Left, Stray
      <3> QED
        BY <3>1, <3>2
    <2>3. ASSUME NEW i \in Ours(0)' PROVE Age(input[i].msg)' + InAge' <= Left(0)'
      <3>1. Age(input[i].msg) + InAge <= Left(0)
        BY <1>2, <1>5, YoungParts
      <3>2. Age(input[i].msg) \in Nat
        BY <1>5, <1>7, AgeFacts, PieceTypes DEF Ours, Ends
      <3> QED
        BY <1>4, <1>5, <2>1, <2>2, <3>1, <3>2
    <2> QED
      BY <1>4, <1>5, <2>3 DEF Young, Left, InAge, OutAge
  <1>9. AnswerInv(0)'
    <2> SUFFICES ASSUME phase' # "send", NEW i \in Ours(0)' PROVE Right(input[i].msg)'
      BY <1>5 DEF AnswerInv
    <2>1. Right(input[i].msg)
      BY <1>1, <1>2, <1>5 DEF AnswerInv
    <2>2. Cmd' = Cmd
      BY <1>1 DEF Cmd, WriteStep, ReadStep
    <2>3. Prepared(step + 1) => Prepared(step + 1)'
      <3> SUFFICES ASSUME Prepared(step + 1) PROVE Prepared(step + 1)'
        OBVIOUS
      <3> PICK n \in Nat : n = step + 1
        BY <1>3
      <3>1. Prepared(n)'
        BY PreparedRestart
      <3> QED
        BY <1>1, <3>1 DEF Prepared
    <2> QED
      BY <1>1, <2>1, <2>2, <2>3 DEF Right, Fits, Refused
  <1>10. PipeInv(0)'
    BY <1>6, <1>8, <1>9 DEF PipeInv
  <1> QED
    BY <1>10

\* When the user connects the firmware has nothing more to answer, but one
\* answer may wait in the endpoint's buffer.
LEMMA PipeConnect ==
  ASSUME Shape, Shape', TypeOK, Connect, output = <<>>
  PROVE  Pipe'
  <1>1. /\ phase' = "send" /\ input' = <<>> /\ output' = <<>> /\ ~enabled' /\ call' = "info"
        /\ UNCHANGED <<transport, reply, faults>>
    BY DEF Connect, Begin, budget
  <1> DEFINE k == IF reply = NoReply THEN 0 ELSE 1
  <1> PICK j \in {0, 1} : j = k
    OBVIOUS
  <1>2. NoReply' = NoReply /\ Transfers' = Transfers /\ Hid' = Hid
    BY <1>1 DEF NoReply, Transfers, Hid
  <1>3. Ours(j)' = {} /\ Ends(output)' = {} /\ ~(OurReply(j)')
    BY <1>1, <1>2 DEF Ours, Ends, OurReply
  <1>4. Stray' = 0 /\ faults' \in Nat
    BY <1>1, StrayNext, NoStrays, BridgeAssumption DEF Shape
  <1>5. Young(j)'
    BY <1>3, <1>4 DEF Young
  <1>6. j = 1 => Hid /\ reply # NoReply
    BY DEF Shape
  <1>7. LatestIsLast(j)' /\ AnswerInv(j)'
    BY <1>1, <1>3 DEF LatestIsLast, AnswerInv
  <1>8. PipeInv(j)'
    BY <1>1, <1>2, <1>5, <1>6, <1>7 DEF PipeInv, Transfers
  <1> QED
    BY <1>8 DEF Pipe

\* A call begins and has sent nothing yet.
LEMMA PipeBegin ==
  ASSUME Shape, Shape', TypeOK, phase = "send", phase' = "send",
         UNCHANGED <<transport, handle, seq, enabled, input, output, reply, faults>>,
         enabled \/ (call' \in Transfers => step' = 0), Pipe
  PROVE  Pipe'
  <1> SUFFICES ASSUME handle' = "open" PROVE \E k \in {0, 1} : PipeInv(k)'
    BY DEF Pipe
  <1> PICK k \in {0, 1} : PipeInv(k)
    BY DEF Pipe
  <1>1. Suffix(input, input', 0) /\ Strange(k, 0) = k
    BY PieceTypes, SameSuffix DEF Strange
  <1>2. AnswerInv(k)'
    BY DEF AnswerInv
  <1>3. Young(k)
    BY DEF PipeInv
  <1>4. Stray' <= faults' /\ Left(k)' >= Left(k)
    BY <1>1, <1>3, StopFacts
  <1>5. InAge' <= InAge /\ OutAge' <= OutAge
    BY DEF InAge, OutAge
  <1>6. k = 1 => ~enabled' /\ (call' \in Transfers => step' = 0)
    BY DEF PipeInv, Transfers
  <1>7. PipeInv(k)'
    BY <1>1, <1>2, <1>4, <1>5, <1>6, PipeStops
  <1> QED
    BY <1>7

=============================================================================
