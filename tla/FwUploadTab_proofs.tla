------------------------ MODULE FwUploadTab_proofs ------------------------
(***************************************************************************)
(* Theorems about FwUploadTab for every set of images, every number of     *)
(* clicks, polls and handshakes, and operations nested to any depth.       *)
(***************************************************************************)
EXTENDS FwUploadTab, SequenceTheorems, TLAPS

-----------------------------------------------------------------------------
(* Images and packets *)

LEMMA ImageType ==
  ASSUME NEW i \in Images
  PROVE  i \in Seq(Blocks) /\ i # <<>> /\ Len(i) \in Nat \ {0} /\ i # NoImage
  <1>1. i # <<>> /\ i \in Seq({i[k] : k \in DOMAIN i})
    BY TabAssumption
  <1>2. {i[k] : k \in DOMAIN i} \subseteq Blocks
    BY DEF Blocks
  <1> QED
    BY <1>1, <1>2 DEF NoImage

LEMMA PayloadType ==
  /\ Beyond \in Blocks
  /\ \A i \in Images \cup {NoImage} : i \in Seq(Blocks) /\ \A k \in 1..Len(i) : i[k] \in Blocks
  <1>1. Beyond \in Blocks
    BY DEF Blocks
  <1>2. NoImage \in Seq(Blocks)
    BY DEF NoImage
  <1> QED
    BY <1>1, <1>2, ImageType

LEMMA TotalType == \A f \in Frames : f.total \in Nat
  BY ImageType DEF Frames

\* What an operation sends, and how much of it.
LEMMA PacketsType ==
  ASSUME NEW f \in Frames
  PROVE  /\ Len(Packets(f)) = IF f.op = "connect" THEN 4
                                ELSE IF f.op = "program" THEN 3 + f.total ELSE 3
         /\ Len(Packets(f)) \in Nat /\ Len(Packets(f)) >= 3
         /\ \A k \in 1..Len(Packets(f)) :
              /\ Packets(f)[k] = "run" <=> f.op = "run" /\ k = 3
              /\ Packets(f)[k] = "block" <=> f.op = "program" /\ k >= FirstBlock
  <1>1. f.total \in Nat /\ f.op \in Operations
    BY TotalType DEF Frames
  <1>2. CASE f.op = "connect"
    BY <1>2 DEF Packets
  <1>3. CASE f.op = "run"
    BY <1>3 DEF Packets
  <1>4. CASE f.op = "program"
    <2> DEFINE data == [i \in 1..f.total |-> "block"]
    <2>1. data \in Seq({"block"}) /\ Len(data) = f.total /\ \A i \in 1..f.total : data[i] = "block"
      BY <1>1
    <2>2. Packets(f) = <<"connect", "sync">> \o (<<"sync">> \o data)
      BY <1>4 DEF Packets
    <2> HIDE DEF data
    <2> QED
      BY <1>1, <1>4, <2>1, <2>2 DEF FirstBlock
  <1> QED
    BY <1>1, <1>2, <1>3, <1>4 DEF Operations

-----------------------------------------------------------------------------
(* The stack of operations *)

LEMMA TopType ==
  ASSUME stack \in Seq(Frames), stack # <<>>
  PROVE  /\ Len(stack) \in Nat \ {0} /\ Len(stack) \in DOMAIN stack
         /\ Top = stack[Len(stack)] /\ Top \in Frames
  BY DEF Top, Last

LEMMA FrontType ==
  ASSUME stack \in Seq(Frames), stack # <<>>
  PROVE  /\ Front(stack) \in Seq(Frames) /\ Len(Front(stack)) = Len(stack) - 1
         /\ \A i \in 1..(Len(stack) - 1) : Front(stack)[i] = stack[i]
  <1>1. Len(stack) \in Nat \ {0}
    BY TopType
  <1>2. \A i \in 1..(Len(stack) - 1) : stack[i] \in Frames /\ 1 + i - 1 = i
    BY <1>1
  <1>3. (Len(stack) - 1) - 1 + 1 = Len(stack) - 1
    BY <1>1
  <1>4. /\ Front(stack) \in Seq(Frames)
        /\ Len(Front(stack)) = IF 1 <= Len(stack) - 1 THEN (Len(stack) - 1) - 1 + 1 ELSE 0
        /\ \A i \in 1..((Len(stack) - 1) - 1 + 1) : Front(stack)[i] = stack[1 + i - 1]
    BY <1>1, <1>2, SubSeqProperties DEF Front
  <1>5. Len(Front(stack)) = Len(stack) - 1
    <2> DEFINE n == Len(Front(stack))
               m == Len(stack)
    <2>1. m \in Nat \ {0} /\ n = IF 1 <= m - 1 THEN (m - 1) - 1 + 1 ELSE 0
      BY <1>1, <1>4
    <2> HIDE DEF n, m
    <2>2. n = m - 1
      BY <2>1
    <2> QED
      BY <2>2 DEF n, m
  <1>6. ASSUME NEW i \in 1..(Len(stack) - 1) PROVE Front(stack)[i] = stack[i]
    BY <1>2, <1>3, <1>4
  <1> QED
    BY <1>4, <1>5, <1>6

LEMMA Changed ==
  ASSUME stack \in Seq(Frames), stack # <<>>, NEW f \in Frames, stack' = WithTop(f)
  PROVE  /\ stack' \in Seq(Frames) /\ stack' # <<>> /\ Len(stack') = Len(stack)
         /\ \A i \in 1..(Len(stack) - 1) : stack'[i] = stack[i]
         /\ stack'[Len(stack)] = f /\ Top' = f
  <1>1. Len(stack) \in Nat \ {0}
    BY TopType
  <1> QED
    BY <1>1, FrontType DEF WithTop, Top, Last

LEMMA Popped ==
  ASSUME stack \in Seq(Frames), stack # <<>>, stack' = Front(stack)
  PROVE  /\ stack' \in Seq(Frames) /\ Len(stack') = Len(stack) - 1
         /\ \A i \in 1..(Len(stack) - 1) : stack'[i] = stack[i]
         /\ stack' # <<>> => Top' = stack[Len(stack) - 1] /\ Len(stack) - 1 \in 1..(Len(stack) - 1)
  <1>1. Len(stack) \in Nat \ {0}
    BY TopType
  <1>2. /\ stack' \in Seq(Frames) /\ Len(stack') = Len(stack) - 1
        /\ \A i \in 1..(Len(stack) - 1) : stack'[i] = stack[i]
    BY FrontType
  <1>3. stack' # <<>> => Len(stack) - 1 \in 1..(Len(stack) - 1)
    BY <1>1, <1>2
  <1> QED
    BY <1>1, <1>2, <1>3 DEF Top, Last

LEMMA Pushed ==
  ASSUME NEW s \in Seq(Frames), NEW f \in Frames, stack' = Append(s, f)
  PROVE  /\ stack' \in Seq(Frames) /\ stack' # <<>> /\ Len(stack') = Len(s) + 1
         /\ \A i \in 1..Len(s) : stack'[i] = s[i]
         /\ stack'[Len(s) + 1] = f /\ Top' = f
  BY DEF Top, Last

\* What a click does to every operation under way.
LEMMA EachType ==
  ASSUME stack \in Seq(Frames)
  PROVE  /\ Each(AsStopped) \in Seq(Frames) /\ Each(AsOverruled) \in Seq(Frames)
         /\ Each(AsSwapped) \in Seq(Frames)
         /\ Len(Each(AsStopped)) = Len(stack) /\ Len(Each(AsOverruled)) = Len(stack)
         /\ Len(Each(AsSwapped)) = Len(stack)
         /\ \A i \in DOMAIN stack : /\ Each(AsStopped)[i] = AsStopped(stack[i])
                                    /\ Each(AsOverruled)[i] = AsOverruled(stack[i])
                                    /\ Each(AsSwapped)[i] = AsSwapped(stack[i])
  <1>1. \A f \in Frames : AsStopped(f) \in Frames /\ AsOverruled(f) \in Frames /\ AsSwapped(f) \in Frames
    BY DEF Frames, AsStopped, AsOverruled, AsSwapped
  <1>2. DOMAIN stack = 1..Len(stack) /\ \A i \in DOMAIN stack : stack[i] \in Frames
    OBVIOUS
  <1> QED
    BY <1>1, <1>2 DEF Each

\* Marking an operation changes neither what it sends nor how far it is.
LEMMA MarkType ==
  ASSUME NEW f \in Frames, NEW g \in {AsStopped(f), AsOverruled(f), AsSwapped(f)}
  PROVE  /\ InRange(f) => InRange(g)
         /\ g.op = f.op /\ g.step = f.step /\ g.sent = f.sent /\ g.took = f.took
         /\ g.total = f.total /\ g.image = f.image
  <1>1. /\ g.op = f.op /\ g.step = f.step /\ g.sent = f.sent /\ g.took = f.took
        /\ g.total = f.total /\ g.image = f.image
    BY DEF Frames, AsStopped, AsOverruled, AsSwapped
  <1>2. Packets(g) = Packets(f)
    BY <1>1 DEF Packets
  <1> QED
    BY <1>1, <1>2 DEF InRange

-----------------------------------------------------------------------------
(* The steps of an operation *)

LEMMA InitInv == Init => IInv
  <1> SUFFICES ASSUME Init PROVE IInv
    OBVIOUS
  <1>1. TypeOK
    <2>1. stack \in Seq(Frames) /\ flash \in Seq(Blocks) /\ DOMAIN stack = {}
      BY DEF Init
    <2>2. report \in [op : Operations \cup {"none"}, overruled : BOOLEAN, whole : BOOLEAN,
                      result : {"none", "stopped", "sent", "failed", "complete"}]
      BY DEF Init
    <2>3. {service, connected, hostEnabled, busy, cancel, ready, pumping, heard} \subseteq BOOLEAN
      BY DEF Init
    <2>4. clicks \in 0..MaxClicks
      BY TabAssumption DEF Init
    <2> QED
      BY <2>1, <2>2, <2>3, <2>4 DEF Init, TypeOK
  <1> QED
    BY <1>1 DEF Init, IInv, Told, Nested, ReadyEarned, CompleteIsImage

\* The running operation goes on to f.
LEMMA Advance ==
  ASSUME IInv, stack # <<>>, NEW f \in Frames, stack' = WithTop(f), InRange(f),
         f.stopped = Top.stopped, f.overruled = Top.overruled,
         UNCHANGED <<bridge, busy, cancel, image, report, clicks>>,
         pumping' \in BOOLEAN, heard' \in BOOLEAN, ready' \in BOOLEAN, ready' => service,
         flash' \in Seq(Blocks),
         f.step = 1 \/ f.sent \/ heard' \/ f.stopped \/ f.overruled,
         f.op = "program" /\ Untouched(f) => Programmed(f)'
  PROVE  IInv'
  <1>0. TypeOK /\ Told /\ Nested /\ Leading(Top) /\ (busy => hostEnabled) /\ CompleteIsImage
        /\ stack \in Seq(Frames)
    BY DEF IInv, TypeOK
  <1>1. /\ stack' \in Seq(Frames) /\ stack' # <<>> /\ Len(stack') = Len(stack)
        /\ \A i \in 1..(Len(stack) - 1) : stack'[i] = stack[i]
        /\ stack'[Len(stack)] = f /\ Top' = f
    BY <1>0, Changed
  <1>2. Len(stack) \in Nat \ {0} /\ Top = stack[Len(stack)] /\ Top \in Frames
    BY <1>0, TopType
  <1>3. \A i \in 1..Len(stack) : i = Len(stack) \/ i \in 1..(Len(stack) - 1)
    BY <1>2
  <1>4. DOMAIN stack = 1..Len(stack) /\ DOMAIN stack' = 1..Len(stack)
    BY <1>0, <1>1
  <1>5. \A i \in DOMAIN stack' : InRange(stack'[i])
    <2>1. \A i \in DOMAIN stack : InRange(stack[i])
      BY <1>0 DEF TypeOK
    <2> QED
      BY <1>1, <1>3, <1>4, <2>1
  <1>6. TypeOK'
    BY <1>0, <1>1, <1>5 DEF TypeOK, bridge, InRange, Packets
  <1>7. Told' /\ Nested'
    BY <1>0, <1>1, <1>2, <1>3, <1>4 DEF Told, Nested
  <1>8. Leading(f)'
    BY <1>0, <1>2 DEF Leading, bridge, Untouched
  <1> QED
    BY <1>0, <1>1, <1>6, <1>7, <1>8 DEF IInv, ReadyEarned, CompleteIsImage, bridge, Leading

\* The running operation ends, and the one below it goes on, if there is one.
LEMMA Ended ==
  ASSUME IInv, Running, NEW result \in {"stopped", "sent", "failed", "complete"},
         NEW isReady \in BOOLEAN, End(result, isReady), UNCHANGED flash, heard' \in BOOLEAN,
         isReady => ~cancel /\ (heard' \/ Top.overruled),
         result = "complete" /\ Top.op = "program" =>
           flash = Top.image \/ Top.swapped \/ Top.overruled
  PROVE  IInv'
  <1>0. TypeOK /\ Told /\ Nested /\ Leading(Top) /\ (busy => hostEnabled)
        /\ stack \in Seq(Frames) /\ stack # <<>>
    BY DEF IInv, TypeOK, Running
  <1>1. Len(stack) \in Nat \ {0} /\ Top = stack[Len(stack)] /\ Top \in Frames
    BY <1>0, TopType
  <1>2. /\ stack' = Front(stack) /\ pumping' = (Len(stack) > 1)
        /\ busy' = FALSE /\ ready' = isReady
        /\ report' = [op |-> Top.op, result |-> result, overruled |-> Top.overruled,
                      whole |-> flash = Top.image \/ Top.swapped \/ Top.overruled]
        /\ UNCHANGED <<service, connected, hostEnabled, cancel, image, clicks>>
    BY DEF End, bridge
  <1>3. /\ stack' \in Seq(Frames) /\ Len(stack') = Len(stack) - 1
        /\ \A i \in 1..(Len(stack) - 1) : stack'[i] = stack[i]
        /\ stack' # <<>> => /\ Top' = stack[Len(stack) - 1]
                            /\ Len(stack) - 1 \in 1..(Len(stack) - 1)
    BY <1>0, <1>2, Popped
  <1>4. DOMAIN stack' = 1..(Len(stack) - 1) /\ DOMAIN stack = 1..Len(stack)
        /\ 1..(Len(stack) - 1) \subseteq 1..Len(stack)
    BY <1>0, <1>1, <1>3
  <1>5. TypeOK'
    <2>1. \A i \in DOMAIN stack' : InRange(stack'[i])
      BY <1>0, <1>3, <1>4 DEF TypeOK
    <2>2. report' \in [op : Operations \cup {"none"}, overruled : BOOLEAN, whole : BOOLEAN,
                       result : {"none", "stopped", "sent", "failed", "complete"}]
      BY <1>1, <1>2 DEF Frames
    <2>3. busy' \/ pumping' => stack' # <<>>
      <3>1. Len(stack) > 1 => stack' # <<>>
        BY <1>1, <1>3
      <3> QED
        BY <1>2, <3>1
    <2>4. pumping' \in BOOLEAN
      BY <1>2
    <2> QED
      BY <1>0, <1>2, <1>3, <2>1, <2>2, <2>3, <2>4 DEF TypeOK, InRange, Packets
  <1>6. Told' /\ Nested'
    <2>1. Told'
      BY <1>0, <1>2, <1>3, <1>4 DEF Told
    <2>2. \A i \in 1..(Len(stack') - 1) : i \in 1..(Len(stack) - 1)
      BY <1>1, <1>3
    <2> QED
      BY <1>0, <1>3, <2>1, <2>2 DEF Nested
  <1>7. stack' # <<>> => Leading(Top)'
    <2> SUFFICES ASSUME stack' # <<>> PROVE Leading(Top)'
      OBVIOUS
    <2>1. Top'.stopped \/ Top'.overruled
      BY <1>0, <1>3 DEF Nested
    <2>2. Top'.stopped => cancel \/ Top'.overruled
      BY <1>0, <1>3, <1>4 DEF Told
    <2>3. cancel \/ service
      BY <1>0 DEF Leading
    <2> QED
      BY <1>2, <2>1, <2>2, <2>3 DEF Leading, Untouched
  <1>8. ReadyEarned'
    <2> SUFFICES ASSUME isReady PROVE service /\ ((hostEnabled /\ heard') \/ Top.overruled)
      BY <1>2 DEF ReadyEarned
    <2> QED
      BY <1>0 DEF Leading
  <1>9. CompleteIsImage'
    BY <1>2 DEF CompleteIsImage
  <1> QED
    BY <1>2, <1>5, <1>6, <1>7, <1>8, <1>9 DEF IInv

LEMMA SamePackets ==
  ASSUME NEW f, NEW g, f.op = g.op, f.total = g.total
  PROVE  Packets(f) = Packets(g)
  BY DEF Packets

\* What every step of the running operation may assume.
LEMMA RunningType ==
  ASSUME IInv, Running
  PROVE  /\ stack # <<>> /\ stack \in Seq(Frames) /\ Top \in Frames /\ Top.total \in Nat
         /\ Top.step \in Nat \ {0} /\ Top.sent \in BOOLEAN /\ Top.op \in Operations
         /\ InRange(Top) /\ Leading(Top)
         /\ Top.stopped => cancel \/ Top.overruled
         /\ flash \in Seq(Blocks) /\ image \in Images \cup {NoImage}
         /\ heard \in BOOLEAN /\ ready \in BOOLEAN /\ (ready => service)
  <1>1. stack # <<>> /\ stack \in Seq(Frames)
    BY DEF IInv, TypeOK, Running
  <1>2. Len(stack) \in DOMAIN stack /\ Top = stack[Len(stack)] /\ Top \in Frames
    BY <1>1, TopType
  <1>3. Top.total \in Nat
    BY <1>2, TotalType
  <1>4. InRange(Top) /\ (Top.stopped => cancel \/ Top.overruled)
    BY <1>2 DEF IInv, TypeOK, Told
  <1> QED
    BY <1>1, <1>2, <1>3, <1>4 DEF IInv, TypeOK, ReadyEarned, Frames

\* The four ways in which an operation goes on.
SentOn(f, b) == [f EXCEPT !.sent = TRUE, !.took = b, !.polls = 0]
AnsweredOn(f, n) == [f EXCEPT !.step = @ + 1, !.sent = FALSE, !.total = n]
PolledOn(f) == [f EXCEPT !.polls = @ + 1]
RestartedOn(f) == [f EXCEPT !.step = 1, !.sent = FALSE, !.tries = @ + 1]

LEMMA SentFrame ==
  ASSUME NEW f \in Frames, NEW b \in BOOLEAN
  PROVE  LET g == SentOn(f, b)
         IN /\ g \in Frames /\ g.op = f.op /\ g.step = f.step /\ g.sent = TRUE /\ g.took = b
            /\ g.total = f.total /\ g.image = f.image
            /\ g.stopped = f.stopped /\ g.overruled = f.overruled /\ g.swapped = f.swapped
  <1> DEFINE g == SentOn(f, b)
  <1>1. 0 \in 0..MaxPolls
    BY TabAssumption
  <1>2. g \in Frames
    BY <1>1 DEF Frames, SentOn
  <1> QED
    BY <1>2 DEF Frames, SentOn

LEMMA AnsweredFrame ==
  ASSUME NEW f \in Frames, NEW n \in {0} \cup {Len(i) : i \in Images}
  PROVE  LET g == AnsweredOn(f, n)
         IN /\ g \in Frames /\ g.op = f.op /\ g.step = f.step + 1 /\ g.sent = FALSE
            /\ g.took = f.took /\ g.total = n /\ g.image = f.image
            /\ g.stopped = f.stopped /\ g.overruled = f.overruled /\ g.swapped = f.swapped
  <1> DEFINE g == AnsweredOn(f, n)
  <1>1. f.step + 1 \in Nat \ {0}
    BY DEF Frames
  <1>2. g \in Frames
    BY <1>1 DEF Frames, AnsweredOn
  <1> QED
    BY <1>2 DEF Frames, AnsweredOn

LEMMA PolledFrame ==
  ASSUME NEW f \in Frames, f.polls < MaxPolls
  PROVE  LET g == PolledOn(f)
         IN /\ g \in Frames /\ g.op = f.op /\ g.step = f.step /\ g.sent = f.sent
            /\ g.took = f.took /\ g.total = f.total /\ g.image = f.image
            /\ g.stopped = f.stopped /\ g.overruled = f.overruled /\ g.swapped = f.swapped
  <1> DEFINE g == PolledOn(f)
  <1>1. f.polls \in 0..MaxPolls
    BY DEF Frames, PolledOn
  <1>2. f.polls + 1 \in 0..MaxPolls
    BY <1>1, TabAssumption
  <1>3. g \in Frames
    BY <1>2 DEF Frames, PolledOn
  <1> QED
    BY <1>3 DEF Frames, PolledOn

LEMMA RestartedFrame ==
  ASSUME NEW f \in Frames, f.tries < ConnectTries
  PROVE  LET g == RestartedOn(f)
         IN /\ g \in Frames /\ g.op = f.op /\ g.step = 1 /\ g.sent = FALSE
            /\ g.total = f.total /\ g.image = f.image
            /\ g.stopped = f.stopped /\ g.overruled = f.overruled /\ g.swapped = f.swapped
  <1> DEFINE g == RestartedOn(f)
  <1>1. f.tries \in 0..ConnectTries
    BY DEF Frames, RestartedOn
  <1>2. f.tries + 1 \in 0..ConnectTries /\ 1 \in Nat \ {0}
    BY <1>1, TabAssumption
  <1> DEFINE n == f.tries + 1
  <1>3. g = [f EXCEPT !.step = 1, !.sent = FALSE, !.tries = n] /\ n \in 0..ConnectTries
    BY <1>2 DEF Frames, RestartedOn
  <1> HIDE DEF n
  <1>4. g \in Frames
    BY <1>2, <1>3 DEF Frames, RestartedOn
  <1> QED
    BY <1>3, <1>4 DEF Frames, RestartedOn

LEMMA SendInv ==
  ASSUME IInv, Send
  PROVE  IInv'
  <1>0. Running /\ ~cancel /\ ~Top.sent /\ ~Sent
    BY DEF Send, Continues
  <1>1. /\ stack # <<>> /\ stack \in Seq(Frames) /\ Top \in Frames /\ Top.total \in Nat
        /\ Top.step \in Nat \ {0} /\ Leading(Top)
        /\ flash \in Seq(Blocks) /\ image \in Images \cup {NoImage}
        /\ ready \in BOOLEAN /\ (ready => service)
    BY <1>0, RunningType
  <1>2. PICK took \in BOOLEAN, f \in Frames :
          /\ stack' = WithTop(f)
          /\ (~took \/ Packet # "block" => flash' = flash)
          /\ took /\ Packet = "block" /\ Top.step = FirstBlock => flash' = <<Payload>>
          /\ took /\ Packet = "block" /\ Top.step # FirstBlock => flash' = Append(flash, Payload)
          /\ f.op = Top.op /\ f.total = Top.total /\ f.step = Top.step
          /\ f.sent = TRUE /\ f.took = took /\ f.image = Top.image
          /\ f.stopped = Top.stopped /\ f.overruled = Top.overruled /\ f.swapped = Top.swapped
    <2>1. PICK took \in BOOLEAN :
            /\ stack' = WithTop([Top EXCEPT !.sent = TRUE, !.took = took, !.polls = 0])
            /\ flash' = IF ~took \/ Packet # "block" THEN flash
                        ELSE IF Top.step = FirstBlock THEN <<Payload>> ELSE Append(flash, Payload)
      BY DEF Send
    <2> DEFINE f == SentOn(Top, took)
    <2>2. stack' = WithTop(f)
      BY <2>1 DEF SentOn
    <2>3. /\ f \in Frames /\ f.op = Top.op /\ f.total = Top.total /\ f.step = Top.step
          /\ f.sent = TRUE /\ f.took = took /\ f.image = Top.image
          /\ f.stopped = Top.stopped /\ f.overruled = Top.overruled /\ f.swapped = Top.swapped
      BY <1>1, SentFrame
    <2> HIDE DEF f
    <2>4. /\ (~took \/ Packet # "block" => flash' = flash)
          /\ took /\ Packet = "block" /\ Top.step = FirstBlock => flash' = <<Payload>>
          /\ took /\ Packet = "block" /\ Top.step # FirstBlock => flash' = Append(flash, Payload)
      BY <2>1
    <2> QED
      BY <2>2, <2>3, <2>4
  <1>4. Packets(f) = Packets(Top)
    BY <1>2, SamePackets
  <1>5. Len(Packets(Top)) \in Nat /\ Top.step <= Len(Packets(Top)) /\ Top.step \in 1..Len(Packets(Top))
    BY <1>0, <1>1, PacketsType DEF Sent
  <1>6. InRange(f)
    BY <1>2, <1>4, <1>5 DEF InRange
  <1>7. Packet = "block" <=> Top.op = "program" /\ Top.step >= FirstBlock
    BY <1>1, <1>5, PacketsType DEF Packet
  <1>8. Packet = "block" => Top.step - FirstBlock + 1 \in Nat \ {0} /\ Top.step - FirstBlock + 1 <= Top.total
    <2> SUFFICES ASSUME Packet = "block"
                 PROVE Top.step - FirstBlock + 1 \in Nat \ {0} /\ Top.step - FirstBlock + 1 <= Top.total
      OBVIOUS
    <2>1. Len(Packets(Top)) = 3 + Top.total
      BY <1>1, <1>7, PacketsType
    <2> QED
      BY <1>1, <1>5, <1>7, <2>1 DEF FirstBlock
  <1>9. Packet = "block" => Payload \in Blocks
    <2>1. Beyond \in Blocks /\ \A k \in 1..Len(image) : image[k] \in Blocks
      BY <1>1, PayloadType
    <2> QED
      BY <1>8, <2>1 DEF Payload
  <1>10. flash' \in Seq(Blocks)
    <2>1. CASE ~took \/ Packet # "block"
      BY <1>1, <1>2, <2>1
    <2>2. CASE took /\ Packet = "block"
      <3>1. <<Payload>> \in Seq(Blocks) /\ Append(flash, Payload) \in Seq(Blocks)
        BY <1>1, <1>9, <2>2
      <3> QED
        BY <1>2, <2>2, <3>1
    <2> QED
      BY <2>1, <2>2
  <1>11. ASSUME f.op = "program", Untouched(f) PROVE Programmed(f)'
    <2>1. Top.op = "program" /\ Untouched(Top)
      BY <1>2, <1>11 DEF Untouched
    <2> DEFINE done == Top.step - FirstBlock
    <2>2. /\ image = Top.image /\ image # NoImage
          /\ Top.total = (IF Top.step > Handshake THEN Len(image) ELSE 0)
          /\ done > 0 => flash = SubSeq(image, 1, done)
      <3>1. Programmed(Top)
        BY <1>0, <1>1, <2>1 DEF Leading
      <3> QED
        <4>1. Top.step - FirstBlock + (IF Top.sent /\ Top.took THEN 1 ELSE 0) = done
          BY <1>0, <1>1 DEF FirstBlock
        <4> HIDE DEF done
        <4> QED
          BY <3>1, <4>1 DEF Programmed
    <2>3. image \in Seq(Blocks) /\ Len(image) \in Nat \ {0} /\ image' = image
      BY <1>1, <2>2, ImageType DEF Send, Keep
    <2>4. CASE ~took \/ Packet # "block"
      <3>1. flash' = flash
        BY <1>2, <2>4
      <3>2. (done + IF f.sent /\ f.took THEN 1 ELSE 0) > 0 => done > 0 /\ ~f.took
        BY <1>1, <1>2, <1>7, <2>1, <2>4 DEF FirstBlock
      <3> QED
        BY <1>1, <1>2, <2>2, <2>3, <3>1, <3>2 DEF Programmed, FirstBlock
    <2>5. CASE took /\ Packet = "block"
      <3>1. done \in Nat /\ done + 1 \in 1..Len(image) /\ Top.step > Handshake
        BY <1>1, <1>7, <1>8, <2>2, <2>5 DEF FirstBlock, Handshake
      <3>2. Payload = image[done + 1]
        BY <3>1 DEF Payload
      <3>3. flash' = SubSeq(image, 1, done + 1)
        <4>1. SubSeq(image, 1, done + 1) = SubSeq(image, 1, done) \o <<image[done + 1]>>
          <5>1. 1 \in 1..Len(image) /\ done + 1 \in 1..Len(image) /\ (done + 1) - 1 = done
            BY <2>3, <3>1
          <5> QED
            BY <2>3, <5>1, SubSeqRecursiveSecond
        <4>2. CASE Top.step = FirstBlock
          <5>1. done = 0
            BY <4>2 DEF FirstBlock
          <5>2. SubSeq(image, 1, done) = <<>>
            BY <5>1, SubSeqEmpty
          <5>3. flash' = <<image[done + 1]>>
            BY <1>2, <2>5, <3>2, <4>2
          <5>4. <<>> \o <<image[done + 1]>> = <<image[done + 1]>>
            OBVIOUS
          <5> QED
            BY <4>1, <5>2, <5>3, <5>4
        <4>3. CASE Top.step # FirstBlock
          <5>1. done > 0
            BY <1>1, <3>1, <4>3 DEF FirstBlock
          <5>2. flash = SubSeq(image, 1, done) /\ flash' = Append(flash, image[done + 1])
            BY <1>2, <2>2, <2>5, <3>2, <4>3, <5>1
          <5>3. Append(flash, image[done + 1]) = flash \o <<image[done + 1]>>
            BY <1>1
          <5> QED
            BY <4>1, <5>2, <5>3
        <4> QED
          BY <4>2, <4>3
      <3> QED
        BY <1>2, <2>2, <2>3, <2>5, <3>1, <3>3 DEF Programmed
    <2> QED
      BY <2>4, <2>5
  <1>12. /\ UNCHANGED <<bridge, busy, cancel, image, report, clicks>>
         /\ pumping' = pumping /\ heard' = FALSE /\ ready' = ready
    BY DEF Send, Keep
  <1>13. pumping' \in BOOLEAN /\ heard' \in BOOLEAN
    BY <1>12 DEF IInv, TypeOK
  <1> QED
    BY <1>1, <1>2, <1>6, <1>10, <1>11, <1>12, <1>13, Advance

LEMMA AnswerInv ==
  ASSUME IInv, Answer
  PROVE  IInv'
  <1>0. Running /\ ~cancel /\ Top.sent /\ Top.took
    BY DEF Answer, Continues
  <1> DEFINE begins == Top.op = "program" /\ Top.step = Handshake
  <1>1. /\ stack # <<>> /\ stack \in Seq(Frames) /\ Top \in Frames /\ Top.total \in Nat
        /\ Top.step \in Nat \ {0} /\ Leading(Top) /\ InRange(Top)
        /\ flash \in Seq(Blocks) /\ image \in Images \cup {NoImage}
        /\ ready \in BOOLEAN /\ (ready => service)
    BY <1>0, RunningType
  <1>2. /\ ready' = (IF begins THEN TRUE ELSE ready)
        /\ pumping' = (Packet = "block") /\ heard' = TRUE /\ flash' = flash
        /\ UNCHANGED <<bridge, busy, cancel, image, report, clicks>>
    BY DEF Answer, Keep
  <1>3. PICK f \in Frames :
          /\ stack' = WithTop(f) /\ f.op = Top.op /\ f.step = Top.step + 1
          /\ f.total = (IF begins THEN Len(image) ELSE Top.total)
          /\ f.sent = FALSE /\ f.took = Top.took /\ f.image = Top.image
          /\ f.stopped = Top.stopped /\ f.overruled = Top.overruled /\ f.swapped = Top.swapped
    <2> DEFINE n == IF begins THEN Len(image) ELSE Top.total
    <2>1. stack' = WithTop([Top EXCEPT !.step = @ + 1, !.sent = FALSE, !.total = n])
      BY DEF Answer
    <2>2. Len(image) \in {0} \cup {Len(i) : i \in Images}
      BY <1>1 DEF NoImage
    <2>3. Top.total \in {0} \cup {Len(i) : i \in Images}
      BY <1>1 DEF Frames
    <2>4. n \in {0} \cup {Len(i) : i \in Images}
      BY <2>2, <2>3
    <2> HIDE DEF n
    <2> DEFINE f == AnsweredOn(Top, n)
    <2>5. stack' = WithTop(f)
      BY <2>1 DEF AnsweredOn
    <2>6. /\ f \in Frames /\ f.op = Top.op /\ f.step = Top.step + 1 /\ f.total = n
          /\ f.sent = FALSE /\ f.took = Top.took /\ f.image = Top.image
          /\ f.stopped = Top.stopped /\ f.overruled = Top.overruled /\ f.swapped = Top.swapped
      BY <1>1, <2>4, AnsweredFrame
    <2> HIDE DEF f
    <2> QED
      BY <2>5, <2>6 DEF n
  <1>4. InRange(f)
    <2>1. Top.step <= Len(Packets(Top)) /\ Len(Packets(Top)) \in Nat
      BY <1>0, <1>1, PacketsType DEF InRange
    <2>2. CASE begins
      <3>1. Len(Packets(f)) \in Nat /\ Len(Packets(f)) >= 3
        BY <1>3, PacketsType
      <3> QED
        BY <1>3, <2>2, <3>1 DEF InRange, Handshake
    <2>3. CASE ~begins
      <3>1. Packets(f) = Packets(Top)
        BY <1>3, <2>3, SamePackets
      <3> QED
        BY <1>1, <1>3, <2>1, <3>1 DEF InRange
    <2> QED
      BY <2>2, <2>3
  <1>5. ASSUME f.op = "program", Untouched(f) PROVE Programmed(f)'
    <2>1. Top.op = "program" /\ Untouched(Top)
      BY <1>3, <1>5 DEF Untouched
    <2> DEFINE done == Top.step - FirstBlock + 1
    <2>2. /\ image = Top.image /\ image # NoImage
          /\ Top.total = (IF Top.step > Handshake THEN Len(image) ELSE 0)
          /\ done > 0 => flash = SubSeq(image, 1, done)
      <3>1. Programmed(Top)
        BY <1>0, <1>1, <2>1 DEF Leading
      <3> QED
        <4>1. Top.step - FirstBlock + (IF Top.sent /\ Top.took THEN 1 ELSE 0) = done
          BY <1>0, <1>1 DEF FirstBlock
        <4> HIDE DEF done
        <4> QED
          BY <3>1, <4>1 DEF Programmed
    <2>3. f.total = (IF f.step > Handshake THEN Len(image) ELSE 0)
      BY <1>1, <1>3, <2>1, <2>2 DEF Handshake
    <2>4. f.step - FirstBlock + (IF f.sent /\ f.took THEN 1 ELSE 0) = done
      BY <1>1, <1>3 DEF FirstBlock
    <2> HIDE DEF done
    <2>5. image' = image /\ f.image = image
      BY <1>2, <1>3, <2>2
    <2> QED
      BY <1>2, <2>2, <2>3, <2>4, <2>5 DEF Programmed
  <1>6. ready' \in BOOLEAN /\ (ready' => service)
    BY <1>0, <1>1, <1>2 DEF Leading
  <1>7. pumping' \in BOOLEAN /\ heard' \in BOOLEAN /\ flash' \in Seq(Blocks)
    BY <1>1, <1>2
  <1> QED
    BY <1>1, <1>2, <1>3, <1>4, <1>5, <1>6, <1>7, Advance

\* A poll, or a handshake that starts again, changes no flash.
LEMMA PumpInv ==
  ASSUME IInv, Poll \/ HandshakeFails
  PROVE  IInv'
  <1>0. Running /\ ~cancel /\ Top.tries < ConnectTries
    BY DEF Poll, HandshakeFails, Continues
  <1>1. /\ stack # <<>> /\ stack \in Seq(Frames) /\ Top \in Frames /\ Top.total \in Nat
        /\ Top.step \in Nat \ {0} /\ Leading(Top) /\ InRange(Top)
        /\ flash \in Seq(Blocks) /\ heard \in BOOLEAN
        /\ ready \in BOOLEAN /\ (ready => service)
    BY <1>0, RunningType
  <1>2. /\ pumping' = TRUE /\ heard' = heard /\ flash' = flash /\ ready' = ready
        /\ UNCHANGED <<bridge, busy, cancel, image, report, clicks>>
    BY DEF Poll, HandshakeFails, Keep
  <1>3. PICK f \in Frames :
          /\ stack' = WithTop(f) /\ f.op = Top.op /\ f.total = Top.total /\ f.image = Top.image
          /\ f.stopped = Top.stopped /\ f.overruled = Top.overruled /\ f.swapped = Top.swapped
          /\ \/ f.step = Top.step /\ f.sent = Top.sent /\ f.took = Top.took
             \/ f.step = 1 /\ f.sent = FALSE /\ Top.step <= Handshake
    <2>1. CASE Poll
      <3>1. stack' = WithTop(PolledOn(Top)) /\ Top.polls < MaxPolls
        BY <2>1 DEF Poll, PolledOn
      <3> QED
        BY <1>1, <3>1, PolledFrame
    <2>2. CASE HandshakeFails
      <3>1. stack' = WithTop(RestartedOn(Top)) /\ Top.step <= Handshake
        BY <2>2 DEF HandshakeFails, RestartedOn
      <3> QED
        BY <1>0, <1>1, <3>1, RestartedFrame
    <2> QED
      BY <2>1, <2>2
  <1>4. InRange(f)
    <2>1. Packets(f) = Packets(Top) /\ Len(Packets(f)) \in Nat /\ Len(Packets(f)) >= 3
      BY <1>3, SamePackets, PacketsType
    <2> QED
      BY <1>1, <1>3, <2>1 DEF InRange
  <1>5. ASSUME f.op = "program", Untouched(f) PROVE Programmed(f)'
    <2>1. Top.op = "program" /\ Untouched(Top) /\ Programmed(Top)
      BY <1>1, <1>3, <1>5 DEF Untouched, Leading
    <2>2. image' = image /\ flash' = flash
      BY <1>2
    <2> QED
      BY <1>1, <1>3, <2>1, <2>2 DEF Programmed, Handshake, FirstBlock
  <1>6. f.step = 1 \/ f.sent \/ heard' \/ f.stopped \/ f.overruled
    BY <1>1, <1>2, <1>3 DEF Leading
  <1> QED
    BY <1>1, <1>2, <1>3, <1>4, <1>5, <1>6, Advance

LEMMA EndInv ==
  ASSUME IInv, Stopped \/ SendNoResponse \/ Fails \/ Completes
  PROVE  IInv'
  <1>0. Running
    BY DEF Stopped, SendNoResponse, Fails, Completes, Continues
  <1>1. /\ Top \in Frames /\ Top.total \in Nat /\ Top.step \in Nat \ {0} /\ Leading(Top) /\ InRange(Top)
        /\ Top.stopped => cancel \/ Top.overruled
        /\ heard \in BOOLEAN /\ image \in Images \cup {NoImage}
    BY <1>0, RunningType
  <1>2. CASE Stopped \/ SendNoResponse \/ Fails
    <2>1. /\ End("stopped", FALSE) \/ End("sent", FALSE) \/ End("failed", FALSE)
          /\ flash' = flash /\ heard' \in BOOLEAN
      BY <1>1, <1>2 DEF Stopped, SendNoResponse, Fails
    <2> QED
      BY <1>0, <2>1, Ended
  <1>3. CASE Completes
    <2>1. End("complete", TRUE) /\ flash' = flash /\ heard' = heard /\ ~cancel /\ Sent
      BY <1>3 DEF Completes, Continues
    <2>2. Len(Packets(Top)) \in Nat /\ Len(Packets(Top)) >= 3 /\ Top.step > Len(Packets(Top))
      BY <1>1, <2>1, PacketsType DEF Sent
    <2>3. ~Top.sent /\ Top.step = Len(Packets(Top)) + 1 /\ Top.step # 1
      BY <1>1, <2>2 DEF InRange
    <2>4. heard \/ Top.overruled
      BY <1>1, <2>1, <2>3 DEF Leading
    <2>5. ASSUME Top.op = "program", ~Top.swapped, ~Top.overruled PROVE flash = Top.image
      <3>1. Programmed(Top)
        BY <1>1, <2>1, <2>5 DEF Leading, Untouched
      <3>2. Len(Packets(Top)) = 3 + Top.total
        BY <1>1, <2>5, PacketsType
      <3>3. image = Top.image /\ image \in Images /\ Top.total = Len(image)
        BY <1>1, <2>2, <2>3, <3>1 DEF Programmed, Handshake
      <3>4. Len(image) \in Nat \ {0} /\ image \in Seq(Blocks)
        BY <3>3, ImageType
      <3>5. flash = SubSeq(image, 1, Len(image))
        BY <2>3, <3>1, <3>2, <3>3, <3>4 DEF Programmed, FirstBlock
      <3> QED
        BY <3>3, <3>4, <3>5, SubSeqFull
    <2> QED
      BY <1>0, <1>1, <2>1, <2>4, <2>5, Ended
  <1> QED
    BY <1>2, <1>3

LEMMA OperationInv ==
  ASSUME IInv, Operation
  PROVE  IInv'
  <1>1. CASE PumpEnds
    <2>1. /\ pumping' = FALSE
          /\ UNCHANGED <<service, connected, hostEnabled, busy, cancel, ready, image, stack, flash,
                         heard, report, clicks>>
      BY <1>1 DEF PumpEnds, Keep, bridge
    <2>2. TypeOK'
      BY <2>1 DEF IInv, TypeOK, InRange, Packets
    <2>3. Told' /\ Nested' /\ ReadyEarned' /\ CompleteIsImage' /\ (busy' => hostEnabled')
      BY <2>1 DEF IInv, Told, Nested, ReadyEarned, CompleteIsImage
    <2>4. (stack # <<>> => Leading(Top))' = (stack # <<>> => Leading(Top))
      BY <2>1 DEF Leading, Programmed, Top
    <2> QED
      BY <2>2, <2>3, <2>4 DEF IInv
  <1> QED
    BY <1>1, SendInv, AnswerInv, PumpInv, EndInv DEF Operation

-----------------------------------------------------------------------------
(* The user's clicks *)

LEMMA ClickType ==
  ASSUME TypeOK, Click
  PROVE  clicks' \in 0..MaxClicks
  BY TabAssumption DEF TypeOK, Click

LEMMA Marked ==
  ASSUME TypeOK, stack' \in {Each(AsStopped), Each(AsSwapped)}
  PROVE  /\ stack' \in Seq(Frames) /\ Len(stack') = Len(stack) /\ (stack' = <<>>) = (stack = <<>>)
         /\ DOMAIN stack' = DOMAIN stack /\ DOMAIN stack = 1..Len(stack) /\ Len(stack) \in Nat
         /\ \A i \in DOMAIN stack' : InRange(stack'[i])
         /\ stack # <<>> => Len(stack) \in DOMAIN stack /\ Top = stack[Len(stack)] /\ Top' = stack'[Len(stack)]
  <1>0. stack \in Seq(Frames) /\ \A i \in DOMAIN stack : InRange(stack[i]) /\ stack[i] \in Frames
    BY DEF TypeOK
  <1>1. stack' \in Seq(Frames) /\ Len(stack') = Len(stack)
    BY <1>0, EachType
  <1>2. DOMAIN stack' = DOMAIN stack /\ DOMAIN stack = 1..Len(stack) /\ Len(stack) \in Nat
        /\ (stack' = <<>>) = (stack = <<>>)
    BY <1>0, <1>1
  <1>3. \A i \in DOMAIN stack' : stack'[i] \in {AsStopped(stack[i]), AsSwapped(stack[i])}
    BY <1>0, <1>2, EachType
  <1>4. \A i \in DOMAIN stack' : InRange(stack'[i])
    BY <1>0, <1>2, <1>3, MarkType
  <1>5. stack # <<>> => Len(stack) \in DOMAIN stack /\ Top = stack[Len(stack)] /\ Top' = stack'[Len(stack)]
    BY <1>0, <1>1, <1>2 DEF Top, Last
  <1> QED
    BY <1>1, <1>2, <1>4, <1>5

\* Stop, a disconnect, or a connection that fails.
LEMMA StopInv ==
  ASSUME IInv, stack' = Each(AsStopped), cancel' = TRUE, ready' = FALSE,
         UNCHANGED <<image, pumping, flash, heard, report>>, clicks' \in 0..MaxClicks,
         \/ busy /\ UNCHANGED <<bridge, busy>>
         \/ service' = FALSE /\ connected' = FALSE /\ hostEnabled' = FALSE /\ busy' = FALSE
  PROVE  IInv'
  <1>0. TypeOK
    BY DEF IInv
  <1>1. /\ stack' \in Seq(Frames) /\ Len(stack') = Len(stack) /\ (stack' = <<>>) = (stack = <<>>)
        /\ DOMAIN stack' = DOMAIN stack /\ DOMAIN stack = 1..Len(stack) /\ Len(stack) \in Nat
        /\ \A i \in DOMAIN stack' : InRange(stack'[i])
        /\ stack # <<>> => Len(stack) \in DOMAIN stack /\ Top' = stack'[Len(stack)]
    BY <1>0, Marked
  <1>2. \A i \in DOMAIN stack' : stack'[i].stopped
    <2>0. stack \in Seq(Frames) /\ \A i \in DOMAIN stack : stack[i] \in Frames
      BY <1>0 DEF TypeOK
    <2>1. \A i \in DOMAIN stack : Each(AsStopped)[i] = AsStopped(stack[i])
      BY <2>0, EachType
    <2>2. \A f \in Frames : AsStopped(f).stopped
      BY DEF Frames, AsStopped
    <2>3. \A i \in DOMAIN stack : stack'[i] = AsStopped(stack[i])
      BY <2>1
    <2>4. \A i \in DOMAIN stack : stack'[i].stopped
      BY <2>0, <2>2, <2>3
    <2> QED
      BY <1>1, <2>4
  <1>3. TypeOK'
    BY <1>0, <1>1 DEF TypeOK, bridge, InRange, Packets
  <1>4. Told' /\ Nested'
    <2>1. 1..(Len(stack) - 1) \subseteq 1..Len(stack)
      BY <1>1
    <2> QED
      BY <1>1, <1>2, <2>1 DEF Told, Nested
  <1>5. stack' # <<>> => Leading(Top)'
    BY <1>1, <1>2 DEF Leading, Untouched
  <1> QED
    BY <1>3, <1>4, <1>5 DEF IInv, ReadyEarned, CompleteIsImage, bridge

LEMMA LoadInv ==
  ASSUME IInv, LoadImage
  PROVE  IInv'
  <1>0. TypeOK /\ stack' = Each(AsSwapped)
    BY DEF IInv, LoadImage
  <1>1. /\ stack' \in Seq(Frames) /\ Len(stack') = Len(stack) /\ (stack' = <<>>) = (stack = <<>>)
        /\ DOMAIN stack' = DOMAIN stack /\ DOMAIN stack = 1..Len(stack) /\ Len(stack) \in Nat
        /\ \A i \in DOMAIN stack' : InRange(stack'[i])
        /\ stack # <<>> => /\ Len(stack) \in DOMAIN stack
                           /\ Top = stack[Len(stack)] /\ Top' = stack'[Len(stack)]
    BY <1>0, Marked
  <1>2. \A i \in DOMAIN stack :
          /\ stack'[i].stopped = stack[i].stopped /\ stack'[i].overruled = stack[i].overruled
          /\ stack'[i].step = stack[i].step /\ stack'[i].sent = stack[i].sent /\ stack'[i].swapped
    <2>0. stack \in Seq(Frames) /\ \A i \in DOMAIN stack : stack[i] \in Frames
      BY <1>0 DEF TypeOK
    <2>1. \A i \in DOMAIN stack : Each(AsSwapped)[i] = AsSwapped(stack[i])
      BY <2>0, EachType
    <2>2. \A f \in Frames :
            LET g == AsSwapped(f)
            IN /\ g.stopped = f.stopped /\ g.overruled = f.overruled
               /\ g.step = f.step /\ g.sent = f.sent /\ g.swapped
      BY DEF Frames, AsSwapped
    <2>3. \A i \in DOMAIN stack : stack'[i] = AsSwapped(stack[i])
      BY <1>0, <2>1
    <2> QED
      BY <2>0, <2>2, <2>3
  <1>3. /\ UNCHANGED <<service, connected, hostEnabled, busy, cancel, ready, pumping, flash, heard, report>>
        /\ image' \in Images \cup {NoImage} /\ clicks' \in 0..MaxClicks
    BY <1>0, ClickType DEF LoadImage, bridge
  <1>4. TypeOK'
    BY <1>0, <1>1, <1>3 DEF TypeOK, InRange, Packets
  <1>5. Told' /\ Nested'
    <2>1. 1..(Len(stack) - 1) \subseteq 1..Len(stack)
      BY <1>1
    <2> QED
      BY <1>1, <1>2, <1>3, <2>1 DEF IInv, Told, Nested
  <1>6. stack' # <<>> => Leading(Top)'
    BY <1>1, <1>2, <1>3 DEF IInv, Leading, Untouched
  <1> QED
    BY <1>1, <1>3, <1>4, <1>5, <1>6 DEF IInv, ReadyEarned, CompleteIsImage

\* A new operation overrules the ones under way.
LEMMA StartInv ==
  ASSUME IInv, NEW o \in Operations, Start(o)
  PROVE  IInv'
  <1> DEFINE s == Each(AsOverruled)
  <1> PICK f : f = NewOperation(o)
    OBVIOUS
  <1>0. TypeOK /\ stack \in Seq(Frames) /\ image \in Images \cup {NoImage}
        /\ \A i \in DOMAIN stack : InRange(stack[i]) /\ stack[i] \in Frames
    BY DEF IInv, TypeOK
  <1>1. /\ stack' = Append(s, f) /\ hostEnabled' = TRUE /\ cancel' = FALSE /\ busy' = TRUE
        /\ ready' = FALSE /\ pumping' = FALSE /\ connected
        /\ UNCHANGED <<service, connected, image, flash, heard, report>>
        /\ o = "program" => image # NoImage
    BY DEF Start, CanStart
  <1>2. /\ f \in Frames /\ f.op = o /\ f.step = 1 /\ f.sent = FALSE /\ f.total = 0
        /\ f.image = (IF o = "program" THEN image ELSE NoImage)
        /\ ~f.stopped /\ ~f.overruled /\ ~f.swapped
    <2>1. 0 \in 0..MaxPolls /\ 0 \in 0..ConnectTries /\ 1 \in Nat \ {0}
      BY TabAssumption
    <2> QED
      BY <1>0, <2>1 DEF NewOperation, Frames
  <1>3. InRange(f)
    <2>1. Len(Packets(f)) \in Nat /\ Len(Packets(f)) >= 3
      BY <1>2, PacketsType
    <2> QED
      BY <1>2, <2>1 DEF InRange
  <1>4. /\ s \in Seq(Frames) /\ Len(s) = Len(stack) /\ Len(stack) \in Nat
        /\ DOMAIN stack = 1..Len(stack)
        /\ \A i \in DOMAIN stack : InRange(s[i]) /\ s[i].overruled
    <2>1. /\ s \in Seq(Frames) /\ Len(s) = Len(stack)
          /\ \A i \in DOMAIN stack : s[i] = AsOverruled(stack[i])
      BY <1>0, EachType
    <2>2. \A g \in Frames : AsOverruled(g).overruled
      BY DEF Frames, AsOverruled
    <2>3. \A g \in Frames : InRange(g) => InRange(AsOverruled(g))
      BY MarkType
    <2> HIDE DEF s
    <2>4. Len(stack) \in Nat /\ DOMAIN stack = 1..Len(stack)
      BY <1>0
    <2> QED
      BY <1>0, <2>1, <2>2, <2>3, <2>4
  <1> HIDE DEF s
  <1>5. /\ stack' \in Seq(Frames) /\ stack' # <<>> /\ Len(stack') = Len(stack) + 1
        /\ \A i \in 1..Len(stack) : stack'[i] = s[i]
        /\ stack'[Len(stack) + 1] = f /\ Top' = f
    BY <1>1, <1>2, <1>4, Pushed
  <1>6. DOMAIN stack' = 1..(Len(stack) + 1)
        /\ (\A i \in 1..(Len(stack) + 1) : i = Len(stack) + 1 \/ i \in 1..Len(stack))
        /\ Len(stack') - 1 = Len(stack)
    BY <1>4, <1>5
  <1>7. \A i \in DOMAIN stack' : InRange(stack'[i]) /\ (stack'[i].stopped => stack'[i].overruled)
    BY <1>2, <1>3, <1>4, <1>5, <1>6
  <1>8. clicks' \in 0..MaxClicks
    BY <1>0, ClickType DEF Start
  <1>9. TypeOK'
    BY <1>0, <1>1, <1>5, <1>7, <1>8 DEF TypeOK, InRange, Packets
  <1>10. Told' /\ Nested'
    BY <1>4, <1>5, <1>6, <1>7 DEF Told, Nested
  <1>11. Leading(f)'
    <2>1. service
      BY <1>0, <1>1 DEF TypeOK
    <2>2. f.op = "program" => Programmed(f)'
      <3>1. f.step - FirstBlock + (IF f.sent /\ f.took THEN 1 ELSE 0) = -3
        BY <1>2 DEF FirstBlock
      <3>2. f.total = IF f.step > Handshake THEN Len(image') ELSE 0
        BY <1>2 DEF Handshake
      <3> SUFFICES ASSUME f.op = "program" PROVE Programmed(f)'
        OBVIOUS
      <3>3. image' = f.image /\ image' # NoImage
        BY <1>1, <1>2
      <3> QED
        BY <3>1, <3>2, <3>3 DEF Programmed
    <2>3. busy' \/ cancel' \/ f.overruled
      BY <1>1
    <2>4. cancel' \/ service'
      BY <1>1, <2>1
    <2> QED
      BY <1>2, <2>2, <2>3, <2>4 DEF Leading
  <1>12. (busy' => hostEnabled') /\ ReadyEarned'
    BY <1>1 DEF ReadyEarned
  <1>13. CompleteIsImage'
    BY <1>1 DEF IInv, CompleteIsImage
  <1>14. (stack # <<>> => Leading(Top))'
    BY <1>5, <1>11 DEF Leading, Programmed
  <1> QED
    BY <1>9, <1>10, <1>12, <1>13, <1>14 DEF IInv

\* Clicks that leave the operations alone.
LEMMA OtherClicks ==
  ASSUME IInv, EnableHost \/ DisableHost \/ (\E o \in Operations : StartFails(o))
               \/ (Connect /\ stack' = stack)
  PROVE  IInv'
  <1>0. TypeOK /\ Told /\ Nested /\ (busy => hostEnabled) /\ (stack # <<>> => Leading(Top))
        /\ ReadyEarned /\ CompleteIsImage
    BY DEF IInv
  <1>1. Click /\ clicks' \in 0..MaxClicks
    BY <1>0, ClickType DEF EnableHost, DisableHost, StartFails, Connect
  <1>2. CASE Connect /\ OnDisconnected
    BY <1>1, <1>2, StopInv DEF Connect, OnDisconnected
  <1>3. CASE ~(Connect /\ OnDisconnected)
    <2>1. /\ UNCHANGED <<busy, cancel, image, stack, pumping, flash, heard>>
          /\ service => service'
      BY <1>3 DEF EnableHost, DisableHost, StartFails, Connect, bridge
    <2>2. /\ service' \in BOOLEAN /\ hostEnabled' \in BOOLEAN /\ ready' \in BOOLEAN
          /\ connected' = service' /\ (hostEnabled' => connected') /\ (busy => hostEnabled')
          /\ (ready' => ready /\ service /\ (hostEnabled => hostEnabled') /\ report' = report)
      <3>0. /\ {service, connected, hostEnabled, busy, ready} \subseteq BOOLEAN
            /\ connected = service /\ (hostEnabled => connected) /\ (ready => service)
            /\ (busy => hostEnabled)
        BY <1>0 DEF TypeOK, ReadyEarned
      <3>1. CASE EnableHost
        BY <3>0, <3>1 DEF EnableHost
      <3>2. CASE DisableHost
        BY <3>0, <3>2 DEF DisableHost
      <3>3. CASE \E o \in Operations : StartFails(o)
        <4>1. UNCHANGED <<service, connected, hostEnabled, busy>> /\ ready' = FALSE
          BY <3>3, Zenon DEF StartFails, bridge
        <4> QED
          BY <3>0, <4>1
      <3>4. CASE Connect
        <4>1. service' = TRUE /\ connected' = TRUE /\ ~service
              /\ UNCHANGED <<hostEnabled, busy, ready, report>>
          BY <1>3, <3>4 DEF Connect
        <4> QED
          BY <3>0, <4>1
      <3> QED
        BY <3>1, <3>2, <3>3, <3>4
    <2>3. /\ report' \in [op : Operations \cup {"none"}, overruled : BOOLEAN, whole : BOOLEAN,
                         result : {"none", "stopped", "sent", "failed", "complete"}]
          /\ CompleteIsImage'
      <3>1. CASE report' = report
        BY <1>0, <3>1 DEF TypeOK, CompleteIsImage
      <3>2. CASE \E o \in Operations : StartFails(o)
        <4> PICK o \in Operations : StartFails(o)
          BY <3>2
        <4>1. PICK r \in {"stopped", "failed"} :
                report' = [op |-> o, result |-> r, overruled |-> FALSE, whole |-> TRUE]
          BY Zenon DEF StartFails
        <4>2. report' \in [op : Operations \cup {"none"}, overruled : BOOLEAN, whole : BOOLEAN,
                           result : {"none", "stopped", "sent", "failed", "complete"}]
          BY <4>1
        <4> QED
          BY <4>1, <4>2 DEF CompleteIsImage
      <3> QED
        BY <1>3, <3>1, <3>2 DEF EnableHost, DisableHost, Connect
    <2>4. TypeOK'
      BY <1>0, <1>1, <2>1, <2>2, <2>3 DEF TypeOK, InRange, Packets
    <2>5. Told' /\ Nested' /\ ReadyEarned'
      BY <1>0, <2>1, <2>2 DEF Told, Nested, ReadyEarned
    <2>6. (stack # <<>> => Leading(Top))'
      BY <1>0, <2>1 DEF Leading, Programmed, Top
    <2> QED
      BY <2>1, <2>2, <2>3, <2>4, <2>5, <2>6 DEF IInv
  <1> QED
    BY <1>2, <1>3

LEMMA UserInv ==
  ASSUME IInv, User
  PROVE  IInv'
  <1>0. TypeOK
    BY DEF IInv
  <1>1. CASE Stop \/ Disconnect \/ (Connect /\ OnDisconnected)
    <2>1. Click /\ clicks' \in 0..MaxClicks
      BY <1>0, <1>1, ClickType DEF Stop, Disconnect, Connect
    <2> QED
      BY <1>1, <2>1, StopInv DEF Stop, Disconnect, Connect, OnDisconnected
  <1>2. CASE Connect /\ stack' = stack
    BY <1>2, OtherClicks
  <1>3. Connect => OnDisconnected \/ stack' = stack
    BY DEF Connect
  <1> QED
    BY <1>1, <1>2, <1>3, StartInv, LoadInv, OtherClicks DEF User

-----------------------------------------------------------------------------
(* The theorems *)

LEMMA StepInv ==
  ASSUME IInv, [Next]_vars
  PROVE  IInv'
  <1>1. CASE UNCHANGED vars
    <2>1. UNCHANGED <<service, connected, hostEnabled, busy, cancel, ready, image, stack, pumping,
                      flash, heard, report, clicks>>
      BY <1>1 DEF vars, bridge
    <2>2. TypeOK'
      BY <2>1 DEF IInv, TypeOK, InRange, Packets
    <2>3. Told' /\ Nested' /\ ReadyEarned' /\ CompleteIsImage' /\ (busy' => hostEnabled')
      BY <2>1 DEF IInv, Told, Nested, ReadyEarned, CompleteIsImage
    <2>4. (stack # <<>> => Leading(Top))' = (stack # <<>> => Leading(Top))
      BY <2>1 DEF Leading, Programmed, Top
    <2> QED
      BY <2>2, <2>3, <2>4 DEF IInv
  <1> QED
    BY <1>1, OperationInv, UserInv DEF Next

\* The inductive invariant of nested operations.
THEOREM InductiveInvariant == Spec => []IInv
  BY InitInv, StepInv, PTL DEF Spec

\* TypeOK: the members of the tab agree, however the operations nest.
THEOREM TypeInvariant == Spec => []TypeOK
  <1>1. IInv => TypeOK
    BY DEF IInv
  <1> QED
    BY <1>1, InductiveInvariant, PTL

\* StopReachable: no operation goes on that cannot be stopped.
THEOREM CanBeStopped == Spec => []StopReachable
  <1>1. ASSUME IInv PROVE StopReachable
    <2> SUFFICES ASSUME NEW i \in DOMAIN stack PROVE busy \/ cancel \/ stack[i].overruled
      BY DEF StopReachable
    <2>0. stack \in Seq(Frames) /\ stack # <<>>
      BY <1>1 DEF IInv, TypeOK
    <2>1. i = Len(stack) \/ i \in 1..(Len(stack) - 1)
      BY <2>0
    <2>2. Top = stack[Len(stack)]
      BY DEF Top, Last
    <2> QED
      BY <1>1, <2>0, <2>1, <2>2 DEF IInv, Told, Nested, Leading
  <1> QED
    BY <1>1, InductiveInvariant, PTL

\* ReadyEarned: "Target Ready" is never shown of a target that was not heard.
THEOREM ReadyIsEarned == Spec => []ReadyEarned
  <1>1. IInv => ReadyEarned
    BY DEF IInv
  <1> QED
    BY <1>1, InductiveInvariant, PTL

\* CompleteIsImage: an undisturbed success has programmed the loaded image.
THEOREM CompleteIsWhole == Spec => []CompleteIsImage
  <1>1. IInv => CompleteIsImage
    BY DEF IInv
  <1> QED
    BY <1>1, InductiveInvariant, PTL

\* StoppedIsSilent: an operation told to end sends nothing more.
THEOREM StoppedSendsNothing == Spec => StoppedIsSilent
  <1>1. ASSUME IInv, Send \/ SendNoResponse PROVE Top.stopped => Top.overruled
    BY <1>1, RunningType DEF Send, SendNoResponse, Continues
  <1>2. IInv /\ [Next]_vars => [(Send \/ SendNoResponse) => (Top.stopped => Top.overruled)]_vars
    BY <1>1
  <1> QED
    BY <1>2, InductiveInvariant, PTL DEF Spec, StoppedIsSilent
=============================================================================
