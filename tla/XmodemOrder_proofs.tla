------------------------- MODULE XmodemOrder_proofs -------------------------
(***************************************************************************)
(* XmodemSender with late answers and queued prompts: the receiver stores  *)
(* the blocks in order as long as fewer transmissions are lost than a turn *)
(* of the packet number takes.                                             *)
(***************************************************************************)
EXTENDS XmodemSender_proofs, FiniteSetTheorems

-----------------------------------------------------------------------------
(* Packet numbers *)

LEMMA DivMod ==
  ASSUME NEW a \in Nat
  PROVE  /\ a \div NumberSpace \in Nat /\ a % NumberSpace \in 0..(NumberSpace - 1)
         /\ a = NumberSpace * (a \div NumberSpace) + (a % NumberSpace)
BY XmodemAssumption

LEMMA DivModUnique ==
  ASSUME NEW q \in Int, NEW p \in Int,
         NEW r \in 0..(NumberSpace - 1), NEW s \in 0..(NumberSpace - 1),
         NumberSpace * q + r = NumberSpace * p + s
  PROVE  r = s
<1>1. NumberSpace * (q - p) = s - r
  BY XmodemAssumption
<1>2. q - p <= -1 => NumberSpace * (q - p) <= -NumberSpace
  BY XmodemAssumption
<1>3. q - p >= 1 => NumberSpace * (q - p) >= NumberSpace
  BY XmodemAssumption
<1>4. q - p \in Int /\ s - r < NumberSpace /\ s - r > -NumberSpace
  BY XmodemAssumption
<1>5. q - p = 0
  BY <1>1, <1>2, <1>3, <1>4, XmodemAssumption
<1>6. q = p
  BY <1>5
<1> QED BY <1>6, XmodemAssumption

LEMMA NextResidue ==
  ASSUME NEW n \in Nat
  PROVE  ((n % NumberSpace) + 1) % NumberSpace = (n + 1) % NumberSpace
<1> DEFINE q == n \div NumberSpace
           r == n % NumberSpace
           p == (n + 1) \div NumberSpace
           s == (n + 1) % NumberSpace
<1>1. q \in Nat /\ r \in 0..(NumberSpace - 1) /\ n = NumberSpace * q + r
  BY DivMod
<1>2. p \in Nat /\ s \in 0..(NumberSpace - 1) /\ n + 1 = NumberSpace * p + s
  BY DivMod
<1>3. CASE r + 1 < NumberSpace
  <2>1. n + 1 = NumberSpace * q + (r + 1) /\ r + 1 \in 0..(NumberSpace - 1)
    BY <1>1, <1>3, XmodemAssumption
  <2>2. (r + 1) % NumberSpace = r + 1
    BY <2>1, XmodemAssumption
  <2> HIDE DEF q, r, p, s
  <2>3. s = r + 1
    BY <1>1, <1>2, <2>1, DivModUnique
  <2> QED BY <2>2, <2>3 DEF r, s
<1>4. CASE r + 1 = NumberSpace
  <2>1. n + 1 = NumberSpace * (q + 1) + 0 /\ 0 \in 0..(NumberSpace - 1) /\ q + 1 \in Nat
    BY <1>1, <1>4, XmodemAssumption
  <2>2. (r + 1) % NumberSpace = 0
    BY <1>4, XmodemAssumption
  <2> HIDE DEF q, r, p, s
  <2>3. s = 0
    BY <1>1, <1>2, <2>1, DivModUnique
  <2> QED BY <2>2, <2>3 DEF r, s
<1> QED BY <1>1, <1>3, <1>4, XmodemAssumption

\* Within one turn of the number two blocks differ in it.
LEMMA SameResidue ==
  ASSUME NEW a \in Nat, NEW b \in Nat, a <= b, b - a < NumberSpace,
         a % NumberSpace = b % NumberSpace
  PROVE  a = b
<1> DEFINE q == a \div NumberSpace
           p == b \div NumberSpace
           r == a % NumberSpace
<1>1. q \in Nat /\ p \in Nat /\ r \in 0..(NumberSpace - 1)
      /\ a = NumberSpace * q + r /\ b = NumberSpace * p + r
  BY DivMod
<1> HIDE DEF q, p, r
<1>2. b - a = NumberSpace * (p - q)
  BY <1>1, XmodemAssumption
<1>3. p - q >= 1 => NumberSpace * (p - q) >= NumberSpace
  BY <1>1, XmodemAssumption
<1>4. p - q <= -1 => NumberSpace * (p - q) <= -NumberSpace
  BY <1>1, XmodemAssumption
<1>5. p - q = 0
  BY <1>1, <1>2, <1>3, <1>4, XmodemAssumption
<1> QED BY <1>1, <1>5, XmodemAssumption

-----------------------------------------------------------------------------
(* The line *)

LEMMA CountTypes ==
  ASSUME TypeOK
  PROVE  /\ Len(stored) \in Nat /\ next \in Nat \ {0} /\ Sent \in Nat
         /\ next - 1 <= Sent /\ Sent <= next /\ noise \in Nat /\ no \in Nat
         /\ IsFiniteSet(Lost) /\ Cardinality(Lost) \in Nat
         /\ Len(toTarget) \in Nat /\ \A i \in 1..Len(toTarget) : toTarget[i] \in Items
<1>1. /\ Len(stored) \in Nat /\ next \in Nat \ {0} /\ noise \in Nat /\ no \in Nat
      /\ Len(toTarget) \in Nat /\ \A i \in 1..Len(toTarget) : toTarget[i] \in Items
  BY XmodemAssumption DEF TypeOK
<1>2. Sent \in Nat /\ next - 1 <= Sent /\ Sent <= next
  BY <1>1 DEF Sent
<1>3. IsFiniteSet((Len(stored) + 1)..Sent)
  BY <1>1, <1>2, FS_Interval
<1>4. IsFiniteSet(Lost) /\ Cardinality(Lost) \in Nat
  BY <1>3, FS_Subset, FS_CardinalityType DEF Lost
<1> QED BY <1>1, <1>2, <1>4

\* What a write leaves on the line.
LEMMA AddItem ==
  ASSUME TypeOK, LineInOrder, NEW item \in Items, toTarget' = Append(toTarget, item),
         Len(stored') = Len(stored), next <= next', next' \in Nat,
         item.what = "SOH" => /\ item.no = item.block % NumberSpace
                              /\ Len(stored) <= item.block /\ item.block = next
  PROVE  /\ LineInOrder' /\ BlocksOnLine \subseteq BlocksOnLine'
         /\ item.what = "SOH" => item.block \in BlocksOnLine'
<1> DEFINE n == Len(toTarget)
<1>1. n \in Nat /\ next \in Nat /\ \A i \in 1..n : toTarget[i] \in Items
  BY CountTypes
<1>2. Len(toTarget') = n + 1 /\ toTarget'[n + 1] = item
      /\ \A i \in 1..n : toTarget'[i] = toTarget[i]
  BY DEF TypeOK
<1> HIDE DEF n
<1>3. \A i \in 1..(n + 1) : i = n + 1 \/ i \in 1..n
  BY <1>1
<1>4. 1..n \subseteq 1..(n + 1) /\ n + 1 \in 1..(n + 1)
  BY <1>1
<1>5. \A i \in 1..n : toTarget[i].what = "SOH" =>
        /\ toTarget[i].no = toTarget[i].block % NumberSpace
        /\ Len(stored) <= toTarget[i].block /\ toTarget[i].block <= next
        /\ toTarget[i].block \in Nat
  BY <1>1, BlockField, XmodemAssumption DEF LineInOrder, n
<1>6. \A i \in 1..(n + 1) : toTarget'[i].what = "SOH" =>
        /\ toTarget'[i].no = toTarget'[i].block % NumberSpace
        /\ Len(stored') <= toTarget'[i].block /\ toTarget'[i].block <= next'
  BY <1>1, <1>2, <1>3, <1>5
<1>7. ASSUME NEW i \in 1..(n + 1), NEW j \in 1..(n + 1), i < j,
             toTarget'[i].what = "SOH", toTarget'[j].what = "SOH"
      PROVE  toTarget'[i].block <= toTarget'[j].block
  <2>1. i \in 1..n
    BY <1>1, <1>7
  <2>2. CASE j = n + 1
    BY <1>2, <1>5, <1>7, <2>1, <2>2
  <2>3. CASE j \in 1..n
    BY <1>2, <1>7, <2>1, <2>3 DEF LineInOrder, n
  <2> QED BY <1>3, <2>2, <2>3
<1>8. LineInOrder'
  BY <1>2, <1>6, <1>7 DEF LineInOrder
<1>9. BlocksOnLine \subseteq BlocksOnLine'
  BY <1>2, <1>4 DEF BlocksOnLine, n
<1>10. item.what = "SOH" => item.block \in BlocksOnLine'
  BY <1>2, <1>4 DEF BlocksOnLine
<1> QED BY <1>8, <1>9, <1>10

\* What the receiver leaves on the line when it takes the first item.
LEMMA TakeItem ==
  ASSUME TypeOK, LineInOrder, NEW item, Take(item)
  PROVE  /\ item \in Items
         /\ \A i \in 1..Len(toTarget') : toTarget'[i].what = "SOH" =>
              /\ toTarget'[i].no = toTarget'[i].block % NumberSpace
              /\ Len(stored) <= toTarget'[i].block /\ toTarget'[i].block <= next
              /\ item.what = "SOH" => item.block <= toTarget'[i].block
         /\ \A i, j \in 1..Len(toTarget') :
              i < j /\ toTarget'[i].what = "SOH" /\ toTarget'[j].what = "SOH" =>
                toTarget'[i].block <= toTarget'[j].block
         /\ item.what = "SOH" => BlocksOnLine \subseteq BlocksOnLine' \cup {item.block}
         /\ item.what # "SOH" => BlocksOnLine \subseteq BlocksOnLine'
         /\ item.what = "SOH" =>
              /\ item.no = item.block % NumberSpace /\ item.block \in Nat
              /\ Len(stored) <= item.block /\ item.block <= next
              /\ \A b \in BlocksOnLine : item.block <= b
<1> DEFINE n == Len(toTarget)
<1>1. n \in Nat \ {0} /\ Len(toTarget') = n - 1 /\ item = toTarget[1]
      /\ \A i \in 1..(n - 1) : toTarget'[i] = toTarget[i + 1]
  BY DEF TypeOK, Take
<1>2. /\ \A i \in 1..n : toTarget[i].what = "SOH" =>
           /\ toTarget[i].no = toTarget[i].block % NumberSpace
           /\ Len(stored) <= toTarget[i].block /\ toTarget[i].block <= next
      /\ \A i, j \in 1..n :
           i < j /\ toTarget[i].what = "SOH" /\ toTarget[j].what = "SOH" =>
             toTarget[i].block <= toTarget[j].block
  BY DEF LineInOrder
<1>3. item \in Items
  BY <1>1 DEF TypeOK
<1>n. BlocksOnLine = {toTarget[i].block : i \in {j \in 1..n : toTarget[j].what = "SOH"}}
      /\ BlocksOnLine' = {toTarget'[i].block : i \in {j \in 1..(n - 1) : toTarget'[j].what = "SOH"}}
  BY <1>1 DEF BlocksOnLine
<1> HIDE DEF n
<1>4. 1 \in 1..n /\ \A i \in 1..(n - 1) : i + 1 \in 1..n /\ 1 < i + 1
  BY <1>1
<1>5. \A i, j \in 1..(n - 1) : i < j => i + 1 < j + 1
  BY <1>1
<1>6. \A i \in 1..n : i = 1 \/ (i - 1 \in 1..(n - 1) /\ (i - 1) + 1 = i)
  BY <1>1
<1>7. \A i \in 1..Len(toTarget') : toTarget'[i].what = "SOH" =>
        /\ toTarget'[i].no = toTarget'[i].block % NumberSpace
        /\ Len(stored) <= toTarget'[i].block /\ toTarget'[i].block <= next
        /\ item.what = "SOH" => item.block <= toTarget'[i].block
  BY <1>1, <1>2, <1>4
<1>8. \A i, j \in 1..Len(toTarget') :
        i < j /\ toTarget'[i].what = "SOH" /\ toTarget'[j].what = "SOH" =>
          toTarget'[i].block <= toTarget'[j].block
  BY <1>1, <1>2, <1>4, <1>5
<1>9. ASSUME NEW b \in BlocksOnLine
      PROVE  \/ item.what = "SOH" /\ b = item.block
             \/ b \in BlocksOnLine' /\ (item.what = "SOH" => item.block <= b)
  <2>1. PICK i \in 1..n : toTarget[i].what = "SOH" /\ b = toTarget[i].block
    BY <1>n
  <2>2. CASE i = 1
    BY <1>1, <2>1, <2>2
  <2>3. CASE i # 1
    <3>1. i - 1 \in 1..(n - 1) /\ toTarget'[i - 1] = toTarget[i] /\ 1 < i
      BY <1>1, <1>6, <2>3
    <3>2. b \in BlocksOnLine'
      BY <1>n, <2>1, <3>1
    <3> QED BY <1>1, <1>2, <1>4, <2>1, <3>1, <3>2
  <2> QED BY <2>2, <2>3
<1>10. item.what = "SOH" =>
         /\ item.no = item.block % NumberSpace /\ item.block \in Nat
         /\ Len(stored) <= item.block /\ item.block <= next
         /\ \A b \in BlocksOnLine : item.block <= b
  <2>1. item.what = "SOH" => item.block \in Nat
    BY <1>3, BlockField
  <2> QED BY <1>1, <1>2, <1>4, <1>9, <2>1
<1> QED BY <1>3, <1>7, <1>8, <1>9, <1>10

-----------------------------------------------------------------------------
(* What is lost *)

\* Nothing more is lost.
LEMMA NoneLost ==
  ASSUME TypeOK, TypeOK', Cardinality(Lost) <= noise, Lost' \subseteq Lost, noise <= noise'
  PROVE  Cardinality(Lost') <= noise'
<1>1. Cardinality(Lost') <= Cardinality(Lost) /\ IsFiniteSet(Lost')
  BY CountTypes, FS_Subset
<1>2. Cardinality(Lost') \in Nat
  BY <1>1, FS_CardinalityType
<1>3. Cardinality(Lost) \in Nat /\ noise \in Nat
  BY CountTypes
<1>4. noise' \in Nat
  BY XmodemAssumption DEF TypeOK
<1> QED BY <1>1, <1>2, <1>3, <1>4

\* One more transmission is lost.
LEMMA OneLost ==
  ASSUME TypeOK, Cardinality(Lost) <= noise, NEW b, Lost' \subseteq Lost \cup {b},
         noise' = noise + 1
  PROVE  Cardinality(Lost') <= noise'
<1>0. IsFiniteSet(Lost) /\ Cardinality(Lost) \in Nat
  BY CountTypes
<1>1. IsFiniteSet(Lost \cup {b}) /\ Cardinality(Lost \cup {b}) <= Cardinality(Lost) + 1
  <2>1. /\ IsFiniteSet(Lost \cup {b})
        /\ Cardinality(Lost \cup {b}) = IF b \in Lost THEN Cardinality(Lost) ELSE Cardinality(Lost) + 1
    BY <1>0, FS_AddElement
  <2> QED BY <1>0, <2>1
<1>2. Cardinality(Lost') <= Cardinality(Lost \cup {b}) /\ IsFiniteSet(Lost')
  BY <1>1, FS_Subset
<1>3. Cardinality(Lost') \in Nat /\ Cardinality(Lost \cup {b}) \in Nat
  BY <1>1, <1>2, FS_CardinalityType
<1> QED BY <1>1, <1>2, <1>3, CountTypes

\* The first block on the line is at most as far ahead as blocks were lost.
LEMMA FirstIsNear ==
  ASSUME OrderInv, Listening, NEW item, Take(item), item.what = "SOH"
  PROVE  item.block - (Len(stored) + 1) <= noise /\ noise <= MaxNoise
<1>0. TypeOK /\ LineInOrder /\ Cardinality(Lost) <= noise
  BY DEF OrderInv
<1>1. /\ item.block \in Nat /\ Len(stored) <= item.block /\ item.block <= next
      /\ \A b \in BlocksOnLine : item.block <= b
  BY <1>0, TakeItem
<1>2. noise \in Nat /\ noise <= MaxNoise
  BY <1>0, XmodemAssumption DEF TypeOK
<1>3. /\ Len(stored) \in Nat /\ next \in Nat /\ Sent \in Nat /\ next - 1 <= Sent
      /\ IsFiniteSet(Lost) /\ Cardinality(Lost) \in Nat
  BY <1>0, CountTypes
<1> DEFINE m == Len(stored) + 1
           gap == m..(item.block - 1)
<1>4. gap \subseteq Lost
  <2> SUFFICES ASSUME NEW b \in gap PROVE b \in Lost
    OBVIOUS
  <2>1. b \in m..Sent /\ b \in Nat /\ ~(item.block <= b)
    BY <1>1, <1>3
  <2> QED BY <1>1, <2>1 DEF Lost
<1>5. m \in Int /\ item.block - 1 \in Int
  BY <1>1, <1>3
<1>6. Cardinality(gap) = (IF m > item.block - 1 THEN 0 ELSE (item.block - 1) - m + 1)
  BY <1>5, FS_Interval
<1>7. Cardinality(gap) <= Cardinality(Lost)
  BY <1>3, <1>4, FS_Subset
<1> HIDE DEF gap, m
<1>8. Cardinality(gap) <= noise
  <2>1. Cardinality(gap) \in Int
    BY <1>1, <1>5, <1>6
  <2> QED BY <1>0, <1>2, <1>3, <1>7, <2>1
<1>9. item.block - m <= noise
  BY <1>1, <1>2, <1>5, <1>6, <1>8
<1> QED BY <1>2, <1>9 DEF m

-----------------------------------------------------------------------------
(* The sender *)

LEMMA SameLine ==
  ASSUME TypeOK, LineInOrder, toTarget' = toTarget, stored' = stored, next' \in Nat, next <= next'
  PROVE  LineInOrder' /\ BlocksOnLine' = BlocksOnLine
<1>1. /\ next \in Nat
      /\ \A i \in 1..Len(toTarget) : toTarget[i].what = "SOH" => toTarget[i].block \in Nat
  BY CountTypes, BlockField, XmodemAssumption
<1> QED BY <1>1 DEF LineInOrder, BlocksOnLine

\* An item that is no block, written or lost.
LEMMA ControlLine ==
  ASSUME TypeOK, LineInOrder, NEW c \in {"ACK", "CAN", "EOT"}, Put(Control(c)),
         UNCHANGED <<stored, next>>
  PROVE  LineInOrder' /\ BlocksOnLine \subseteq BlocksOnLine' /\ noise <= noise'
<1>1. Control(c) \in Items /\ Control(c).what # "SOH"
  BY DEF Items, Control
<1>2. next \in Nat /\ noise \in Nat
  BY CountTypes
<1>3. toTarget' = toTarget \/ toTarget' = Append(toTarget, Control(c))
  BY <1>1 DEF Put
<1>4. noise <= noise'
  BY <1>2 DEF Put
<1> QED BY <1>1, <1>2, <1>3, <1>4, SameLine, AddItem

\* A step of the sender that puts no block at risk.
LEMMA SenderKeeps ==
  ASSUME OrderInv, TypeOK', UNCHANGED receiver, LineInOrder', noise <= noise',
         Sent' = 0 \/ (Sent' <= Sent /\ BlocksOnLine \subseteq BlocksOnLine'),
         next <= next', Starting' => next' = 1,
         Starting' \/ Sending' => no' = next' % NumberSpace
  PROVE  OrderInv'
<1>0. TypeOK /\ InOrder /\ Len(stored) <= next
  BY DEF OrderInv
<1>1. UNCHANGED <<phase, expected, stored>>
  BY DEF receiver
<1>2. Len(stored) \in Nat /\ next \in Nat /\ Sent \in Nat
  BY <1>0, CountTypes
<1>3. next' \in Nat /\ Sent' \in Int
  <2>1. next' \in Nat
    BY XmodemAssumption DEF TypeOK
  <2> QED BY <2>1 DEF Sent
<1>4. Lost' \subseteq Lost
  <2>1. CASE Sent' = 0
    BY <1>1, <1>2, <2>1 DEF Lost
  <2>2. CASE Sent' <= Sent /\ BlocksOnLine \subseteq BlocksOnLine'
    <3>1. (Len(stored) + 1)..Sent' \subseteq (Len(stored) + 1)..Sent
      BY <1>2, <1>3, <2>2
    <3> QED BY <1>1, <2>2, <3>1 DEF Lost
  <2> QED BY <2>1, <2>2
<1>5. Listening => Cardinality(Lost') <= noise'
  BY <1>0, <1>4, NoneLost DEF OrderInv
<1>6. Listening' = Listening /\ InOrder' /\ Len(stored') <= next'
  BY <1>0, <1>1, <1>2, <1>3 DEF Listening, InOrder
<1> QED BY <1>1, <1>5, <1>6 DEF OrderInv

LEMMA SenderOrder ==
  ASSUME OrderInv, TypeInv, TypeInv', Send \/ Sender \/ Cancel \/ PortFails
  PROVE  OrderInv'
<1>0. TypeOK /\ TypeOK' /\ LineInOrder /\ Len(stored) <= next
      /\ (Starting => next = 1) /\ (Starting \/ Sending => no = next % NumberSpace)
  BY DEF OrderInv, TypeInv
<1>1. Len(stored) \in Nat /\ next \in Nat \ {0} /\ Sent \in Nat /\ noise \in Nat
  BY <1>0, CountTypes
<1>2. CASE Send
  <2>1. Starting /\ toTarget' = <<>> /\ pc' = "sync" /\ UNCHANGED <<no, next, receiver, noise>>
    BY <1>2 DEF Send, Starting
  <2>2. LineInOrder' /\ Sent' = 0
    BY <1>0, <2>1 DEF LineInOrder, Sent
  <2> QED BY <1>0, <1>1, <2>1, <2>2, SenderKeeps
<1>3. CASE Transmit
  <2>1. /\ pc = "send" /\ pc' = "answer" /\ Put(Block(next, no))
        /\ UNCHANGED <<no, next, outcome, phase, expected, stored>>
    BY <1>3 DEF Transmit, receiver
  <2>2. /\ no = next % NumberSpace /\ Sent = next - 1 /\ Sent' = next
        /\ (Starting' => next' = 1) /\ (Starting' \/ Sending' => no' = next' % NumberSpace)
    BY <1>0, <2>1 DEF Starting, Sending, Sent
  <2> DEFINE item == Block(next, no)
  <2>3. item \in Items /\ item.what = "SOH" /\ item.block = next /\ item.no = no
    BY <1>0, ItemTypes DEF Block
  <2>4. (Len(stored) + 1)..next \subseteq ((Len(stored) + 1)..(next - 1)) \cup {next}
    BY <1>1
  <2>5. LineInOrder' /\ (Listening => Cardinality(Lost') <= noise')
    <3>1. CASE toTarget' = Append(toTarget, item) /\ UNCHANGED noise
      <4>1. LineInOrder' /\ BlocksOnLine \subseteq BlocksOnLine' /\ next \in BlocksOnLine'
        BY <1>0, <1>1, <2>1, <2>2, <2>3, <3>1, AddItem
      <4>2. Lost' \subseteq Lost
        BY <2>1, <2>2, <2>4, <4>1 DEF Lost
      <4> QED BY <1>0, <1>1, <3>1, <4>1, <4>2, NoneLost DEF OrderInv
    <3>2. CASE noise' = noise + 1 /\ toTarget' \in {toTarget, Append(toTarget, Garbage)}
      <4>1. Garbage \in Items /\ Garbage.what # "SOH"
        BY ItemTypes DEF Garbage, Control
      <4>2. LineInOrder' /\ BlocksOnLine \subseteq BlocksOnLine'
        BY <1>0, <1>1, <2>1, <3>2, <4>1, SameLine, AddItem
      <4>3. Lost' \subseteq Lost \cup {next}
        BY <2>1, <2>2, <2>4, <4>2 DEF Lost
      <4> QED BY <1>0, <3>2, <4>2, <4>3, OneLost DEF OrderInv
    <3> QED BY <2>1, <3>1, <3>2 DEF Put
  <2>6. Listening' = Listening /\ InOrder'
    BY <2>1 DEF Listening, InOrder, OrderInv
  <2> QED BY <1>0, <2>1, <2>2, <2>5, <2>6 DEF OrderInv
<1>4. CASE Acked
  <2>1. /\ pc = "answer" /\ UNCHANGED <<toTarget, outcome, receiver, noise>>
        /\ no' = (no + 1) % NumberSpace
        /\ \/ pc' = "send" /\ next' = next + 1
           \/ pc' = "eot" /\ next' = next
    BY <1>4 DEF Acked
  <2>2. outcome # "none"
    BY <2>1 DEF TypeInv
  <2>3. Sent' = Sent /\ ~Starting' /\ next' \in Nat /\ next <= next'
    BY <1>1, <2>1, <2>2 DEF Sent, Starting
  <2>4. Sending' => no' = next' % NumberSpace
    BY <1>0, <1>1, <2>1, NextResidue DEF Sending
  <2>5. LineInOrder' /\ BlocksOnLine' = BlocksOnLine
    BY <1>0, <2>1, <2>3, SameLine DEF receiver
  <2> QED BY <1>0, <1>1, <2>1, <2>3, <2>4, <2>5, SenderKeeps
<1>5. CASE \/ \E b \in Bytes : SyncByte(b) \/ SyncOther(b) \/ SyncCanOther(b)
           \/ HandshakeTimeout \/ CanRead \/ Resend \/ EotAcked \/ EotAgain \/ EotGiveUp
           \/ PortFails
  <2>1. /\ UNCHANGED <<toTarget, no, next, receiver, noise>>
        /\ \/ pc' \in {"sync", "synccan", "send"} /\ pc \in {"sync", "synccan"} /\ outcome' = outcome
           \/ pc' \in {"send", "answercan"} /\ pc \in {"answer", "answercan"} /\ outcome' = outcome
           \/ pc' = "eot" /\ pc = "eotanswer" /\ outcome' = outcome
           \/ pc' = "idle" /\ outcome' \in {"complete", "failed"}
    BY <1>5 DEF SyncByte, SyncOther, SyncCanOther, HandshakeTimeout, CanRead, Resend, NotAcked,
       EotAcked, EotAgain, EotGiveUp, EotNotAcked, PortFails, Finish
  <2>2. pc' # "idle" => outcome' = "busy"
    BY DEF TypeInv
  <2>3. /\ Sent' <= Sent /\ (Starting' => next' = 1)
        /\ (Starting' \/ Sending' => no' = next' % NumberSpace)
    BY <1>0, <1>1, <2>1, <2>2 DEF Sent, Starting, Sending
  <2>4. LineInOrder' /\ BlocksOnLine' = BlocksOnLine
    BY <1>0, <1>1, <2>1, SameLine DEF receiver
  <2> QED BY <1>0, <1>1, <2>1, <2>3, <2>4, SenderKeeps
<1>6. CASE TargetCancels \/ GiveUp \/ SendEot \/ Cancel
  <2>1. /\ \E c \in {"ACK", "CAN", "EOT"} : Put(Control(c))
        /\ UNCHANGED <<no, next, receiver>>
        /\ \/ pc' = "eotanswer" /\ pc = "eot"
           \/ pc' = "idle" /\ outcome' \in {"failed", "stopped"}
    BY <1>6 DEF TargetCancels, GiveUp, SendEot, Cancel, Finish
  <2>2. pc' # "idle" => outcome' = "busy"
    BY DEF TypeInv
  <2>3. Sent' <= Sent /\ ~Starting' /\ ~Sending'
    BY <1>1, <2>1, <2>2 DEF Sent, Starting, Sending
  <2>4. LineInOrder' /\ BlocksOnLine \subseteq BlocksOnLine' /\ noise <= noise'
    BY <1>0, <2>1, ControlLine DEF receiver
  <2> QED BY <1>0, <1>1, <2>1, <2>3, <2>4, SenderKeeps
<1> QED BY <1>2, <1>3, <1>4, <1>5, <1>6 DEF Sender

-----------------------------------------------------------------------------
(* The receiver *)

LEMMA ReplyNoise ==
  ASSUME TypeOK, NEW b, Reply(b)
  PROVE  noise <= noise'
<1>1. noise \in Nat
  BY CountTypes
<1> QED BY <1>1 DEF Reply

LEMMA PromptOrder ==
  ASSUME OrderInv, TypeOK', Prompt \/ ReceiverCancels
  PROVE  OrderInv'
<1>0. TypeOK /\ LineInOrder
  BY DEF OrderInv
<1>1. /\ UNCHANGED <<pc, no, next, outcome, toTarget, expected, stored>>
      /\ phase' \in {phase, "aborted"} /\ noise <= noise'
  <2>1. noise \in Nat
    BY <1>0, CountTypes
  <2> QED BY <1>0, <2>1, ReplyNoise DEF Prompt, ReceiverCancels, Unasked, sender, receiver
<1>2. LineInOrder' /\ BlocksOnLine' = BlocksOnLine
  BY <1>0, <1>1, SameLine, CountTypes
<1>3. Lost' = Lost
  BY <1>1, <1>2 DEF Lost, Sent
<1>4. Listening' => Listening /\ Cardinality(Lost') <= noise'
  BY <1>0, <1>1, <1>3, NoneLost DEF Listening, OrderInv
<1>5. (Starting' = Starting) /\ (Sending' = Sending)
  BY <1>1 DEF Starting, Sending
<1> QED BY <1>1, <1>2, <1>4, <1>5 DEF OrderInv, InOrder

\* A block that is stored is the next one, and one that is taken for a
\* repetition is the last one: another would be a turn of the number ahead.
LEMMA NumberTells ==
  ASSUME MaxNoise < NumberSpace - 1, OrderInv, Listening, NEW item, Take(item), item.what = "SOH"
  PROVE  /\ item.no = expected => item.block = Len(stored) + 1
         /\ Repetition(item) => item.block = Len(stored)
<1>0. TypeOK /\ LineInOrder /\ expected = (Len(stored) + 1) % NumberSpace
  BY DEF OrderInv
<1>1. item.block \in Nat /\ Len(stored) <= item.block /\ item.no = item.block % NumberSpace
  BY <1>0, TakeItem
<1>2. Len(stored) \in Nat /\ noise \in Nat
  BY <1>0, CountTypes
<1>3. item.block - (Len(stored) + 1) <= noise /\ noise <= MaxNoise
  BY FirstIsNear
<1> DEFINE k == Len(stored)
           b == item.block
<1> HIDE DEF k, b
<1>4. k \in Nat /\ b \in Nat /\ k <= b /\ b - (k + 1) < NumberSpace - 1
  BY <1>1, <1>2, <1>3, XmodemAssumption DEF k, b
<1>5. ASSUME item.no = expected PROVE b = k + 1
  <2>1. b % NumberSpace = (k + 1) % NumberSpace
    BY <1>0, <1>1, <1>5 DEF k, b
  <2>2. CASE b = k
    <3>1. k + 1 \in Nat /\ k <= k + 1 /\ (k + 1) - k < NumberSpace
      BY <1>4, XmodemAssumption
    <3> QED BY <1>4, <2>1, <2>2, <3>1, SameResidue
  <2>3. CASE b # k
    <3>1. k + 1 \in Nat /\ k + 1 <= b /\ b - (k + 1) < NumberSpace
      BY <1>4, <2>3, XmodemAssumption
    <3> QED BY <1>4, <2>1, <3>1, SameResidue
  <2> QED BY <2>2, <2>3
<1>6. ASSUME Repetition(item) PROVE b = k
  <2>1. ((b % NumberSpace) + 1) % NumberSpace = (k + 1) % NumberSpace
    BY <1>0, <1>1, <1>6 DEF k, b, Repetition
  <2>2. (k + 1) % NumberSpace = (b + 1) % NumberSpace
    BY <1>4, <2>1, NextResidue
  <2>3. k + 1 \in Nat /\ b + 1 \in Nat /\ k + 1 <= b + 1 /\ (b + 1) - (k + 1) < NumberSpace
    BY <1>4, XmodemAssumption
  <2>4. k + 1 = b + 1
    BY <2>2, <2>3, SameResidue
  <2> QED BY <1>4, <2>4
<1> QED BY <1>5, <1>6 DEF k, b

LEMMA ReceiverOrder ==
  ASSUME MaxNoise < NumberSpace - 1, OrderInv, TypeOK', Receiver
  PROVE  OrderInv'
<1> DEFINE item == Head(toTarget)
<1>1. Receive(item) /\ Take(item)
  BY DEF Receiver, Receive, StoreBlock, RepeatAck, OutOfStep, BadBlock, TakeEot, TakeCancel,
     Ignore
<1> HIDE DEF item
<1>2. UNCHANGED <<pc, no, next, outcome>> /\ Sent' = Sent
  BY <1>1 DEF Take, sender, Sent
<1>3. TypeOK /\ LineInOrder /\ InOrder /\ Len(stored) <= next
      /\ (Listening => /\ expected = (Len(stored) + 1) % NumberSpace
                       /\ Cardinality(Lost) <= noise)
  BY DEF OrderInv
<1>4. Len(stored) \in Nat /\ next \in Nat /\ Sent \in Nat /\ noise \in Nat
  BY <1>3, CountTypes
<1>5. noise <= noise'
  BY <1>1, <1>3, <1>4, ReplyNoise
  DEF Receive, StoreBlock, RepeatAck, OutOfStep, BadBlock, TakeEot, TakeCancel, Ignore
<1>6. /\ (Starting' => next' = 1) /\ (Starting' \/ Sending' => no' = next' % NumberSpace)
  BY <1>2 DEF OrderInv, Starting, Sending
<1>7. CASE StoreBlock(item)
  <2>1. /\ Listening /\ item.what = "SOH" /\ item.no = expected
        /\ stored' = Append(stored, item.block) /\ expected' = (expected + 1) % NumberSpace
    BY <1>7 DEF StoreBlock
  <2>2. item.block = Len(stored) + 1 /\ item.block <= next
    BY <1>1, <1>3, <2>1, NumberTells, TakeItem
  <2>3. Len(stored') = Len(stored) + 1
    BY <1>3, <2>1 DEF TypeOK
  <2>4. InOrder'
    <3>1. stored = Upto(Len(stored)) /\ stored' = Append(stored, Len(stored) + 1)
      BY <1>3, <2>1, <2>2 DEF InOrder
    <3>2. stored' = Upto(Len(stored) + 1)
      BY <1>4, <3>1, UptoStep
    <3> QED BY <2>3, <3>2 DEF InOrder
  <2>5. LineInOrder'
    <3>1. \A i \in 1..Len(toTarget') : toTarget'[i].what = "SOH" =>
            /\ toTarget'[i].no = toTarget'[i].block % NumberSpace
            /\ item.block <= toTarget'[i].block /\ toTarget'[i].block <= next
      BY <1>1, <1>3, <2>1, TakeItem
    <3>2. \A i, j \in 1..Len(toTarget') :
            i < j /\ toTarget'[i].what = "SOH" /\ toTarget'[j].what = "SOH" =>
              toTarget'[i].block <= toTarget'[j].block
      BY <1>1, <1>3, TakeItem
    <3>3. Len(stored') = item.block /\ next' = next
      BY <1>2, <2>2, <2>3
    <3> QED BY <3>1, <3>2, <3>3 DEF LineInOrder
  <2>6. Lost' \subseteq Lost
    <3>1. \A b \in (Len(stored) + 2)..Sent : b \in (Len(stored) + 1)..Sent /\ b # item.block
      BY <1>4, <2>2
    <3>2. (Len(stored) + 1) + 1 = Len(stored) + 2
      BY <1>4
    <3>3. BlocksOnLine \subseteq BlocksOnLine' \cup {item.block}
      BY <1>1, <1>3, <2>1, TakeItem
    <3> QED BY <1>2, <2>3, <3>1, <3>2, <3>3 DEF Lost
  <2>7. expected' = (Len(stored') + 1) % NumberSpace
    BY <1>3, <1>4, <2>1, <2>3, NextResidue
  <2>8. Cardinality(Lost') <= noise' /\ Len(stored') <= next'
    BY <1>2, <1>3, <1>5, <2>1, <2>2, <2>3, <2>6, NoneLost
  <2> QED BY <1>6, <2>4, <2>5, <2>7, <2>8 DEF OrderInv
<1>8. CASE UNCHANGED <<stored, expected>>
  <2>1. LineInOrder'
    BY <1>1, <1>2, <1>3, <1>8, TakeItem DEF LineInOrder
  <2>2. ASSUME Listening' PROVE Listening /\ Cardinality(Lost') <= noise'
    <3>1. Listening
      BY <1>1, <2>2
      DEF Receive, StoreBlock, RepeatAck, OutOfStep, BadBlock, TakeEot, TakeCancel, Ignore,
          Listening, receiver
    <3>2. item.what # "SOH" \/ RepeatAck(item) \/ StoreBlock(item)
      BY <1>1, <2>2, <3>1
      DEF Receive, OutOfStep, BadBlock, TakeEot, TakeCancel, Ignore, Listening
    <3>3. CASE item.what # "SOH"
      <4>1. BlocksOnLine \subseteq BlocksOnLine'
        BY <1>1, <1>3, <3>3, TakeItem
      <4>2. Lost' \subseteq Lost
        BY <1>2, <1>8, <4>1 DEF Lost
      <4> QED BY <1>3, <1>5, <3>1, <4>2, NoneLost
    <3>4. CASE RepeatAck(item)
      <4>1. item.what = "SOH" /\ item.block = Len(stored)
        BY <1>1, <3>1, <3>4, NumberTells DEF RepeatAck
      <4>2. BlocksOnLine \subseteq BlocksOnLine' \cup {Len(stored)}
        BY <1>1, <1>3, <4>1, TakeItem
      <4>3. \A b \in (Len(stored) + 1)..Sent : b # Len(stored)
        BY <1>4
      <4>4. Lost' \subseteq Lost
        BY <1>2, <1>8, <4>2, <4>3 DEF Lost
      <4> QED BY <1>3, <1>5, <3>1, <4>4, NoneLost
    <3>5. ~StoreBlock(item)
      <4>1. Len(Append(stored, item.block)) # Len(stored)
        BY <1>3, <1>4 DEF TypeOK
      <4> QED BY <1>8, <4>1 DEF StoreBlock
    <3> QED BY <3>1, <3>2, <3>3, <3>4, <3>5
  <2> QED BY <1>2, <1>3, <1>6, <1>8, <2>1, <2>2 DEF OrderInv, InOrder
<1> QED BY <1>1, <1>7, <1>8
        DEF Receive, RepeatAck, OutOfStep, BadBlock, TakeEot, TakeCancel, Ignore, receiver

-----------------------------------------------------------------------------
(* The theorems *)

LEMMA InitOrder == Init => OrderInv
<1> SUFFICES ASSUME Init PROVE OrderInv
  OBVIOUS
<1>1. TypeOK
  BY XmodemAssumption DEF Init, TypeOK, Stages, Silence, kRequiredSyncCount
<1>2. stored = <<>> /\ toTarget = <<>> /\ next = 1 /\ no = 1 /\ expected = 1 /\ noise = 0
      /\ pc = "idle" /\ Len(stored) = 0
  BY DEF Init
<1>3. InOrder /\ LineInOrder
  BY <1>2, UptoEmpty DEF InOrder, LineInOrder
<1>4. 1 % NumberSpace = 1
  BY XmodemAssumption
<1>5. Lost = {} /\ Cardinality({}) = 0
  <2>1. Sent = 0
    BY <1>2 DEF Sent
  <2> QED BY <1>2, <2>1, FS_EmptySet DEF Lost
<1>6. expected = (Len(stored) + 1) % NumberSpace /\ Cardinality(Lost) <= noise
  BY <1>2, <1>4, <1>5
<1> QED BY <1>1, <1>2, <1>3, <1>4, <1>6 DEF OrderInv

\* The invariant of a sender that may be ahead of the receiver, for every image, number space
\* and number of prompts, late answers included.
THEOREM OrderInvariant ==
  ASSUME MaxNoise < NumberSpace - 1
  PROVE  Spec => []OrderInv
<1>1. Init => TypeInv /\ OrderInv
  BY InitOrder, XmodemAssumption DEF Init, TypeInv, OrderInv, kRequiredSyncCount
<1>2. TypeInv /\ OrderInv /\ [Next]_vars => (TypeInv /\ OrderInv)'
  <2> SUFFICES ASSUME TypeInv, OrderInv, [Next]_vars
               PROVE  TypeInv' /\ OrderInv'
    OBVIOUS
  <2>1. CASE Next
    <3>1. TypeInv'
      BY <2>1, SenderTypes, ReceiverTypes DEF Next
    <3>2. TypeOK'
      BY <3>1 DEF TypeInv
    <3> QED BY <2>1, <3>1, <3>2, SenderOrder, PromptOrder, ReceiverOrder DEF Next
  <2>2. CASE UNCHANGED vars
    BY <2>2 DEF vars, sender, receiver, TypeInv, TypeOK, OrderInv, InOrder, LineInOrder, Starting,
       Sending, Listening, Lost, Sent, BlocksOnLine
  <2> QED BY <2>1, <2>2
<1> QED BY <1>1, <1>2, PTL DEF Spec

\* InOrder: whatever is late, repeated or asked for twice, the receiver stores no block twice or
\* behind a gap while fewer than NumberSpace - 1 transmissions are lost or damaged.
THEOREM BlocksInOrder ==
  ASSUME MaxNoise < NumberSpace - 1
  PROVE  Spec => []InOrder
<1>1. OrderInv => InOrder
  BY DEF OrderInv
<1> QED BY <1>1, OrderInvariant, PTL
=============================================================================
