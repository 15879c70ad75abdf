------------------------ MODULE XmodemSender_proofs ------------------------
(* Proofs about XmodemSender: what it promises when answers come in time.  *)
EXTENDS XmodemSender, TLAPS

LEMMA NextNo ==
  ASSUME NEW n \in 0..(NumberSpace - 1)
  PROVE  /\ (n + 1) % NumberSpace \in 0..(NumberSpace - 1)
         /\ (n + 1) % NumberSpace # n
BY XmodemAssumption

LEMMA UptoStep ==
  ASSUME NEW n \in Nat
  PROVE  /\ Upto(n) \in Seq(Nat) /\ Len(Upto(n)) = n
         /\ Append(Upto(n), n + 1) = Upto(n + 1)
BY DEF Upto

LEMMA UptoEmpty == Upto(0) = <<>>
BY DEF Upto

LEMMA BlockField ==
  ASSUME NEW item \in Items
  PROVE  /\ item.what = "SOH" => item.block \in 1..Blocks /\ item.no \in 0..(NumberSpace - 1)
         /\ item.what \in {"SOH", "ACK", "CAN", "EOT", "garbage"}
BY DEF Items, Block, Control

-----------------------------------------------------------------------------
(* Types: they hold whenever the answers come. *)

TypeInv ==
  /\ TypeOK
  /\ pc \in {"sync", "synccan"} \/ outcome = "none" => count < kRequiredSyncCount
  /\ pc # "idle" => outcome = "busy"

LEMMA ItemTypes ==
  /\ Garbage \in Items
  /\ Control("ACK") \in Items /\ Control("CAN") \in Items /\ Control("EOT") \in Items
  /\ TypeOK => Block(next, no) \in Items
BY DEF Items, Garbage, TypeOK

LEMMA SeqTypes ==
  ASSUME NEW S
  PROVE  /\ <<>> \in Seq(S)
         /\ \A s \in Seq(S), x \in S : Append(s, x) \in Seq(S)
         /\ \A s \in Seq(S), x \in S, y \in S : s \o <<x, y>> \in Seq(S)
OBVIOUS

LEMMA PutType ==
  ASSUME TypeOK, NEW item \in Items, Put(item)
  PROVE  toTarget' \in Seq(Items) /\ noise' \in 0..MaxNoise
<1>1. toTarget' \in {toTarget, Append(toTarget, item), Append(toTarget, Garbage)}
  BY DEF Put
<1>2. noise' \in 0..MaxNoise
  BY XmodemAssumption DEF TypeOK, Put
<1> QED BY <1>1, <1>2, ItemTypes, SeqTypes DEF TypeOK

LEMMA ReplyType ==
  ASSUME TypeOK, NEW byte \in Bytes, Reply(byte)
  PROVE  toHost' \in Seq(Bytes) /\ noise' \in 0..MaxNoise
<1>1. "garbage" \in Bytes
  BY DEF Bytes
<1>2. toHost' \in {toHost, Append(toHost, byte), Append(toHost, "garbage")}
  BY DEF Reply
<1>3. noise' \in 0..MaxNoise
  BY XmodemAssumption DEF TypeOK, Reply
<1> QED BY <1>1, <1>2, <1>3, SeqTypes DEF TypeOK

LEMMA ReadType ==
  ASSUME TypeOK, NEW b, ReadByte(b)
  PROVE  b \in Bytes /\ toHost' \in Seq(Bytes)
BY DEF TypeOK, ReadByte

LEMMA NoByteType ==
  ASSUME TypeOK, NoByte
  PROVE  toHost' \in Seq(Bytes)
BY DEF TypeOK, NoByte

\* The sender and the button.
LEMMA SenderTypes ==
  ASSUME TypeInv, Send \/ Sender \/ Cancel \/ PortFails
  PROVE  TypeInv'
<1> USE DEF TypeInv
<1>0. \A b : ReadByte(b) => b \in Bytes /\ toHost' \in Seq(Bytes)
  BY ReadType
<1>00. NoByte => toHost' \in Seq(Bytes)
  BY NoByteType
<1>p. \A item \in Items : Put(item) => toTarget' \in Seq(Items) /\ noise' \in 0..MaxNoise
  BY PutType
<1>1. CASE Send
  BY <1>1 DEF Send, TypeOK, Stages, receiver
<1>2. CASE \E b \in Bytes : SyncByte(b)
  BY <1>0, <1>2 DEF SyncByte, TypeOK, Stages, kRequiredSyncCount, receiver
<1>3. CASE \E b \in Bytes : SyncOther(b)
  BY <1>0, <1>3 DEF SyncOther, TypeOK, Stages, kRequiredSyncCount, receiver
<1>4. CASE \E b \in Bytes : SyncCanOther(b)
  <2>1. toHost' \in Seq(Bytes)
    BY <1>0, <1>00, <1>4 DEF SyncCanOther
  <2> QED BY <2>1, <1>4 DEF SyncCanOther, TypeOK, Stages, receiver
<1>5. CASE HandshakeTimeout
  BY <1>5 DEF HandshakeTimeout, Finish, TypeOK, Stages, receiver
<1>6. CASE TargetCancels
  BY <1>0, <1>6, <1>p, ItemTypes DEF TargetCancels, Finish, TypeOK, Stages, receiver
<1>7. CASE Transmit
  BY <1>7, <1>p, ItemTypes DEF Transmit, TypeOK, Stages, receiver
<1>8. CASE Acked
  <2>1. toHost' \in Seq(Bytes) /\ no' \in 0..(NumberSpace - 1)
    BY <1>0, <1>8, NextNo DEF Acked, TypeOK
  <2>2. next' \in 1..Blocks /\ pc' \in {"send", "eot"}
    BY <1>8, XmodemAssumption DEF Acked, TypeOK
  <2> QED BY <2>1, <1>8, XmodemAssumption DEF Acked, TypeOK, Stages, receiver
<1>9. CASE CanRead
  BY <1>0, <1>9 DEF CanRead, TypeOK, Stages, receiver
<1>10. CASE Resend
  BY <1>0, <1>10, <1>00, XmodemAssumption DEF Resend, NotAcked, TypeOK, Stages, receiver
<1>11. CASE GiveUp
  BY <1>0, <1>11, <1>00, <1>p, ItemTypes DEF GiveUp, Finish, NotAcked, TypeOK, Stages, receiver
<1>12. CASE SendEot
  BY <1>12, <1>p, ItemTypes DEF SendEot, TypeOK, Stages, receiver
<1>13. CASE EotAcked
  BY <1>0, <1>13 DEF EotAcked, Finish, TypeOK, Stages, receiver
<1>14. CASE EotAgain
  BY <1>0, <1>14, <1>00, XmodemAssumption DEF EotAgain, EotNotAcked, TypeOK, Stages, receiver
<1>15. CASE EotGiveUp
  BY <1>0, <1>15, <1>00 DEF EotGiveUp, EotNotAcked, Finish, TypeOK, Stages, receiver
<1>16. CASE Cancel
  BY <1>16, <1>p, ItemTypes DEF Cancel, Finish, TypeOK, Stages, receiver
<1>17. CASE PortFails
  BY <1>17 DEF PortFails, Finish, TypeOK, Stages, receiver
<1> QED BY <1>1, <1>2, <1>3, <1>4, <1>5, <1>6, <1>7, <1>8, <1>9, <1>10, <1>11, <1>12, <1>13, <1>14, <1>15, <1>16, <1>17
        DEF Sender

LEMMA ReceiverTypes ==
  ASSUME TypeInv, Prompt \/ ReceiverCancels \/ Receiver
  PROVE  TypeInv'
<1> USE DEF TypeInv
<1>r. \A byte \in Bytes : Reply(byte) => toHost' \in Seq(Bytes) /\ noise' \in 0..MaxNoise
  BY ReplyType
<1>1. CASE Prompt
  BY <1>1, <1>r, XmodemAssumption DEF Prompt, Unasked, TypeOK, Bytes, receiver, sender
<1>2. CASE ReceiverCancels
  <2>1. toHost' \in Seq(Bytes)
    BY <1>2, SeqTypes DEF ReceiverCancels, TypeOK, Bytes
  <2> QED BY <2>1, <1>2, XmodemAssumption DEF ReceiverCancels, Unasked, TypeOK, sender
<1>3. ASSUME NEW item, item = Head(toTarget), Take(item), Receive(item)
      PROVE  TypeInv'
  <2>1. item \in Items /\ toTarget' \in Seq(Items)
    BY <1>3 DEF TypeOK, Take
  <2>2. {"ACK", "NAK", "CAN"} \subseteq Bytes
    BY DEF Bytes
  <2>3. CASE StoreBlock(item)
    <3>1. stored' \in Seq(1..Blocks) /\ expected' \in 0..(NumberSpace - 1)
      BY <2>1, <2>3, BlockField, NextNo, SeqTypes DEF StoreBlock, TypeOK
    <3> QED BY <1>r, <2>2, <2>3, <3>1 DEF StoreBlock, Take, sender, TypeOK
  <2>4. CASE RepeatAck(item) \/ BadBlock(item)
    BY <1>r, <2>1, <2>2, <2>4 DEF RepeatAck, BadBlock, Take, sender, receiver, TypeOK
  <2>5. CASE OutOfStep(item)
    BY <2>2, <2>5 DEF OutOfStep, Take, sender, TypeOK
  <2>6. CASE TakeEot(item)
    BY <1>r, <2>2, <2>6 DEF TakeEot, Take, sender, TypeOK
  <2>7. CASE TakeCancel(item) \/ Ignore(item)
    BY <2>1, <2>7 DEF TakeCancel, Ignore, Take, sender, receiver, TypeOK
  <2> QED BY <1>3, <2>3, <2>4, <2>5, <2>6, <2>7 DEF Receive
<1>4. CASE Receiver
  BY <1>3, <1>4
  DEF Receiver, Receive, StoreBlock, RepeatAck, OutOfStep, BadBlock, TakeEot, TakeCancel,
      Ignore
<1> QED BY <1>1, <1>2, <1>4

\* The numbers stay in their byte and every counter below its limit, for every image,
\* every limit and every order of late, lost and damaged bytes.
THEOREM TypeInvariant == Spec => []TypeOK
<1>1. Init => TypeInv
  BY XmodemAssumption DEF Init, TypeInv, TypeOK, Stages, Silence, kRequiredSyncCount
<1>2. TypeInv /\ [Next]_vars => TypeInv'
  <2> SUFFICES ASSUME TypeInv, [Next]_vars PROVE TypeInv'
    OBVIOUS
  <2>1. CASE Next
    BY <2>1, SenderTypes, ReceiverTypes DEF Next
  <2>2. CASE UNCHANGED vars
    BY <2>2 DEF vars, sender, receiver, TypeInv, TypeOK
  <2> QED BY <2>1, <2>2
<1> QED BY <1>1, <1>2, PTL DEF Spec, TypeInv

-----------------------------------------------------------------------------
(* The invariant of a sender that gets its answers in time. *)

InTime == ~LateAnswers /\ ~QueuedPrompts

\* What a read leaves of one answer.
LEMMA ReadOne ==
  ASSUME NEW b, OneAnswer, ReadByte(b)
  PROVE  \/ b # "CAN" /\ toHost = <<b>> /\ toHost' = <<>>
         \/ b = "CAN" /\ phase = "aborted" /\ toHost' \in {<<>>, <<"CAN">>}
<1>1. CASE \E c \in Bytes \ {"CAN"} : toHost = <<c>>
  BY <1>1 DEF ReadByte
<1>2. CASE phase = "aborted" /\ toHost = <<"CAN">>
  BY <1>2 DEF ReadByte
<1>3. CASE phase = "aborted" /\ toHost = <<"CAN", "CAN">>
  BY <1>3 DEF ReadByte
<1> QED BY <1>1, <1>2, <1>3 DEF OneAnswer, ReadByte

\* The part of IInv that is not about types.
Shape ==
  /\ (outcome = "busy") = (pc # "idle")
  /\ phase # "outofstep"
  /\ pc \in {"sync", "answer"} => OneAnswer
Lockstep == Shape /\ StartInv /\ CanInv /\ SendInv /\ EndInv

\* What is on the line when Send ends, wherever it was.
LEMMA OnTheLine ==
  ASSUME TypeOK, Lockstep, pc # "idle"
  PROVE  (stored = Image /\ NoBlock) \/ ((Behind \/ Ahead) /\ FirstBlock)
<1>1. CASE Ending
  BY <1>1 DEF Lockstep, Shape, EndInv
<1>2. CASE toTarget = <<>> /\ ~Ending
  BY <1>2 DEF Lockstep, StartInv, SendInv, Starting, Sending, Ending, FirstBlock, TypeOK, Stages
<1>3. CASE toTarget # <<>> /\ pc = "answer"
  BY <1>3 DEF Lockstep, SendInv, Sending, FirstBlock, Garbage, Control
<1> QED BY <1>1, <1>2, <1>3
        DEF Lockstep, StartInv, CanInv, SendInv, Starting, Ending, TypeOK, Stages

\* Control bytes add no block.
LEMMA AddControl ==
  ASSUME TypeOK, NEW c, c # "SOH", toTarget' \in {toTarget, Append(toTarget, Control(c))},
         UNCHANGED <<next, no>>
  PROVE  (NoBlock => NoBlock') /\ (FirstBlock => FirstBlock')
<1>1. CASE UNCHANGED toTarget
  BY <1>1 DEF NoBlock, FirstBlock, OnlyBlock
<1>2. CASE toTarget' = Append(toTarget, Control(c))
  <2>1. /\ Len(toTarget') = Len(toTarget) + 1 /\ Len(toTarget) \in Nat
        /\ \A i \in 1..Len(toTarget) : toTarget'[i] = toTarget[i]
        /\ toTarget'[Len(toTarget) + 1] = Control(c)
    BY <1>2 DEF TypeOK
  <2>2. toTarget'[Len(toTarget) + 1].what # "SOH"
    BY <2>1 DEF Control
  <2> QED BY <2>1, <2>2 DEF NoBlock, FirstBlock, OnlyBlock
<1> QED BY <1>1, <1>2

LEMMA SenderLockstep ==
  ASSUME InTime, TypeOK, Lockstep, Send \/ Sender \/ PortFails
  PROVE  Lockstep'
<1>1. CASE Send
  <2>1. Shape'
    BY <1>1 DEF Lockstep, Shape, Send, receiver, OneAnswer
  <2>2. StartInv' /\ CanInv'
    BY <1>1 DEF Lockstep, Send, StartInv, CanInv, Starting, Behind, receiver
  <2>3. SendInv'
    BY <1>1 DEF Send, SendInv, Sending
  <2>4. EndInv'
    BY <1>1 DEF Send, EndInv, Ending, Ended
  <2> QED BY <2>1, <2>2, <2>3, <2>4 DEF Lockstep, Shape
<1>2. CASE \E b \in Bytes : SyncByte(b)
  <2>1. Shape'
    BY <1>2 DEF Lockstep, Shape, SyncByte, ReadByte, receiver, OneAnswer
  <2>2. StartInv' /\ CanInv'
    BY <1>2 DEF Lockstep, SyncByte, StartInv, CanInv, Starting, Behind, receiver
  <2>3. SendInv'
    BY <1>2, ReadOne
    DEF Lockstep, Shape, SyncByte, StartInv, SendInv, Starting, Behind, receiver
  <2>4. EndInv'
    BY <1>2 DEF SyncByte, EndInv, Ending, Ended
  <2> QED BY <2>1, <2>2, <2>3, <2>4 DEF Lockstep, Shape
<1>3. CASE \E b \in Bytes : SyncOther(b)
  <2>1. Shape'
    BY <1>3, ReadOne DEF Lockstep, Shape, SyncOther, receiver, OneAnswer
  <2>2. StartInv' /\ CanInv'
    BY <1>3, ReadOne
    DEF Lockstep, Shape, SyncOther, StartInv, CanInv, Starting, Behind, receiver
  <2>3. SendInv'
    BY <1>3 DEF SyncOther, SendInv, Sending
  <2>4. EndInv'
    BY <1>3 DEF SyncOther, EndInv, Ending, Ended
  <2> QED BY <2>1, <2>2, <2>3, <2>4 DEF Lockstep, Shape
<1>4. CASE \E b \in Bytes : SyncCanOther(b)
  <2>1. Shape'
    BY <1>4 DEF Lockstep, Shape, SyncCanOther, ReadByte, NoByte, receiver, OneAnswer, CanInv
  <2>2. StartInv' /\ CanInv'
    BY <1>4 DEF Lockstep, SyncCanOther, StartInv, CanInv, Starting, Behind, receiver
  <2>3. SendInv'
    BY <1>4 DEF SyncCanOther, SendInv, Sending
  <2>4. EndInv'
    BY <1>4 DEF SyncCanOther, EndInv, Ending, Ended
  <2> QED BY <2>1, <2>2, <2>3, <2>4 DEF Lockstep, Shape
<1>5. CASE HandshakeTimeout
  <2>1. Shape'
    BY <1>5 DEF Lockstep, Shape, HandshakeTimeout, Finish, receiver
  <2>2. StartInv' /\ CanInv'
    BY <1>5 DEF HandshakeTimeout, Finish, StartInv, CanInv, Starting
  <2>3. SendInv'
    BY <1>5 DEF HandshakeTimeout, Finish, SendInv, Sending
  <2>4. EndInv'
    BY <1>5
    DEF Lockstep, HandshakeTimeout, Finish, StartInv, EndInv, Starting, Ending, Behind,
        FirstBlock, receiver
  <2> QED BY <2>1, <2>2, <2>3, <2>4 DEF Lockstep, Shape
<1>6. CASE TargetCancels
  <2>1. Shape'
    BY <1>6 DEF Lockstep, Shape, TargetCancels, Finish, receiver
  <2>2. StartInv' /\ CanInv'
    BY <1>6 DEF TargetCancels, Finish, StartInv, CanInv, Starting
  <2>3. SendInv'
    BY <1>6 DEF TargetCancels, Finish, SendInv, Sending
  <2>4. EndInv'
    BY <1>6
    DEF Lockstep, TargetCancels, Finish, Put, Control, StartInv, SendInv, CanInv, EndInv,
        Starting, Sending, Ending, Behind, Ahead, FirstBlock, receiver
  <2> QED BY <2>1, <2>2, <2>3, <2>4 DEF Lockstep, Shape
<1>7. CASE Transmit
  <2>1. Shape'
    BY <1>7 DEF Lockstep, Shape, Transmit, receiver, OneAnswer, SendInv
  <2>2. StartInv' /\ CanInv'
    BY <1>7 DEF Lockstep, Shape, Transmit, StartInv, CanInv, Starting
  <2>3. SendInv'
    BY <1>7 DEF Lockstep, Transmit, Put, SendInv, Sending, Behind, Ahead, OnlyBlock, receiver
  <2>4. EndInv'
    BY <1>7 DEF Transmit, EndInv, Ending, Ended
  <2> QED BY <2>1, <2>2, <2>3, <2>4 DEF Lockstep, Shape
<1>8. CASE Acked
  <2>1. Shape'
    BY <1>8 DEF Lockstep, Shape, Acked, receiver
  <2>2. StartInv' /\ CanInv'
    BY <1>8 DEF Lockstep, Shape, Acked, StartInv, CanInv, Starting
  <2>3. SendInv'
    BY <1>8, ReadOne, XmodemAssumption
    DEF Lockstep, Shape, Acked, ReadByte, Image, TypeOK, SendInv, CanInv, Sending, Behind,
        Ahead, receiver
  <2>4. EndInv'
    <3>1. toHost = <<"ACK">> /\ Ahead /\ toTarget' = <<>>
      BY <1>8, ReadOne DEF Lockstep, Shape, Acked, SendInv
    <3> QED BY <1>8, <3>1, XmodemAssumption
            DEF Acked, EndInv, Ending, Ended, Ahead, NoBlock, Image, receiver, TypeOK
  <2> QED BY <2>1, <2>2, <2>3, <2>4 DEF Lockstep, Shape
<1>9. CASE CanRead
  <2>1. Shape'
    BY <1>9 DEF Lockstep, Shape, CanRead, receiver
  <2>2. StartInv' /\ CanInv'
    BY <1>9, ReadOne
    DEF Lockstep, Shape, CanRead, ReadByte, StartInv, CanInv, Starting, receiver, SendInv
  <2>3. SendInv'
    BY <1>9 DEF Lockstep, CanRead, SendInv, Sending, Behind, Ahead, receiver
  <2>4. EndInv'
    BY <1>9 DEF CanRead, EndInv, Ending, Ended
  <2> QED BY <2>1, <2>2, <2>3, <2>4 DEF Lockstep, Shape
<1>10. CASE Resend
  <2>1. Shape'
    BY <1>10 DEF Lockstep, Shape, Resend, NotAcked, receiver
  <2>2. StartInv' /\ CanInv'
    BY <1>10 DEF Lockstep, Resend, StartInv, CanInv, Starting, Behind, receiver
  <2>3. SendInv'
    BY <1>10, ReadOne
    DEF Lockstep, Shape, Resend, NotAcked, ReadByte, NoByte, InTime, SendInv, CanInv, Sending,
        Behind, Ahead, receiver
  <2>4. EndInv'
    BY <1>10 DEF Resend, EndInv, Ending, Ended
  <2> QED BY <2>1, <2>2, <2>3, <2>4 DEF Lockstep, Shape
<1>11. CASE GiveUp
  <2>1. Shape'
    BY <1>11 DEF Lockstep, Shape, GiveUp, Finish, receiver
  <2>2. StartInv' /\ CanInv'
    BY <1>11 DEF GiveUp, Finish, StartInv, CanInv, Starting
  <2>3. SendInv'
    BY <1>11 DEF GiveUp, Finish, SendInv, Sending
  <2>4. EndInv'
    BY <1>11, ReadOne
    DEF Lockstep, Shape, GiveUp, NotAcked, Finish, Put, NoByte, InTime, Control, SendInv,
        CanInv, EndInv, Sending, Ending, Behind, Ahead, FirstBlock, receiver
  <2> QED BY <2>1, <2>2, <2>3, <2>4 DEF Lockstep, Shape
<1>12. CASE SendEot
  <2>1. Shape'
    BY <1>12 DEF Lockstep, Shape, SendEot, receiver
  <2>2. StartInv' /\ CanInv'
    BY <1>12 DEF Lockstep, Shape, SendEot, StartInv, CanInv, Starting
  <2>3. SendInv'
    BY <1>12 DEF SendEot, SendInv, Sending
  <2>4. EndInv'
    BY <1>12, AddControl DEF Lockstep, SendEot, Put, Control, EndInv, Ending, receiver
  <2> QED BY <2>1, <2>2, <2>3, <2>4 DEF Lockstep, Shape
<1>13. CASE EotAcked
  <2>1. Shape'
    BY <1>13 DEF Lockstep, Shape, EotAcked, Finish, receiver
  <2>2. StartInv' /\ CanInv'
    BY <1>13 DEF EotAcked, Finish, StartInv, CanInv, Starting
  <2>3. SendInv'
    BY <1>13 DEF EotAcked, Finish, SendInv, Sending
  <2>4. EndInv'
    BY <1>13 DEF Lockstep, EotAcked, Finish, EndInv, Ending, NoBlock, receiver
  <2> QED BY <2>1, <2>2, <2>3, <2>4 DEF Lockstep, Shape
<1>14. CASE EotAgain
  <2>1. Shape'
    BY <1>14 DEF Lockstep, Shape, EotAgain, EotNotAcked, receiver
  <2>2. StartInv' /\ CanInv'
    BY <1>14 DEF Lockstep, EotAgain, StartInv, CanInv, Starting, Behind, receiver
  <2>3. SendInv'
    BY <1>14 DEF EotAgain, SendInv, Sending
  <2>4. EndInv'
    BY <1>14 DEF Lockstep, EotAgain, EotNotAcked, EndInv, Ending, NoBlock, receiver
  <2> QED BY <2>1, <2>2, <2>3, <2>4 DEF Lockstep, Shape
<1>15. CASE EotGiveUp
  <2>1. Shape'
    BY <1>15 DEF Lockstep, Shape, EotGiveUp, Finish, receiver
  <2>2. StartInv' /\ CanInv'
    BY <1>15 DEF EotGiveUp, Finish, StartInv, CanInv, Starting
  <2>3. SendInv'
    BY <1>15 DEF EotGiveUp, Finish, SendInv, Sending
  <2>4. EndInv'
    BY <1>15 DEF Lockstep, EotGiveUp, EotNotAcked, Finish, EndInv, Ending, NoBlock, receiver
  <2> QED BY <2>1, <2>2, <2>3, <2>4 DEF Lockstep, Shape
<1>16. CASE PortFails
  <2>1. Shape'
    BY <1>16 DEF Lockstep, Shape, PortFails, Finish, receiver
  <2>2. StartInv' /\ CanInv'
    BY <1>16 DEF PortFails, Finish, StartInv, CanInv, Starting
  <2>3. SendInv'
    BY <1>16 DEF PortFails, Finish, SendInv, Sending
  <2>4. EndInv'
    BY <1>16, OnTheLine
    DEF PortFails, Finish, EndInv, Ending, Behind, Ahead, NoBlock, FirstBlock, OnlyBlock,
        receiver
  <2> QED BY <2>1, <2>2, <2>3, <2>4 DEF Lockstep, Shape
<1> QED BY <1>1, <1>2, <1>3, <1>4, <1>5, <1>6, <1>7, <1>8, <1>9, <1>10, <1>11, <1>12, <1>13, <1>14, <1>15, <1>16
        DEF Sender

LEMMA CancelLockstep ==
  ASSUME TypeOK, Lockstep, Cancel
  PROVE  Lockstep'
<1>1. pc # "idle" /\ toTarget' \in {toTarget, Append(toTarget, Control("CAN"))}
  BY DEF Cancel, Put, Control, Polls, Reading
<1>2. UNCHANGED <<next, no, stored, expected, phase>> /\ pc' = "idle" /\ outcome' = "stopped"
  BY DEF Cancel, Finish, receiver
<1>3. EndInv'
  BY <1>1, <1>2, OnTheLine, AddControl DEF EndInv, Ending, Behind, Ahead
<1> QED BY <1>2, <1>3 DEF Lockstep, Shape, StartInv, CanInv, SendInv, Starting, Sending

LEMMA PromptLockstep ==
  ASSUME InTime, TypeOK, Lockstep, Prompt \/ ReceiverCancels
  PROVE  Lockstep'
<1>1. /\ toTarget = <<>> /\ toHost = <<>> /\ pc \in Reading /\ phase \in {"ready", "data"}
      /\ UNCHANGED <<pc, no, next, outcome, toTarget, expected, stored>>
      /\ phase' \in {phase, "aborted"}
  BY DEF InTime, Prompt, ReceiverCancels, Quiet, Unasked, Listening, sender, receiver
<1>2. \/ toHost' = <<>> \/ \E b \in {"C", "NAK", "garbage"} : toHost' = <<b>>
      \/ phase' = "aborted" /\ toHost' \in {<<"CAN">>, <<"CAN", "CAN">>}
  <2>1. CASE Prompt
    BY <1>1, <2>1 DEF Prompt, Reply
  <2>2. CASE ReceiverCancels
    BY <1>1, <2>2 DEF ReceiverCancels
  <2> QED BY <2>1, <2>2
<1>3. OneAnswer' /\ toHost' # <<"ACK">>
  BY <1>2 DEF OneAnswer, Bytes
<1>4. pc \in {"sync", "answer", "eotanswer"}
  BY <1>1 DEF Lockstep, Shape, CanInv, Reading
<1>5. StartInv' /\ CanInv'
  BY <1>1 DEF Lockstep, StartInv, CanInv, Starting, Behind
<1>6. SendInv'
  BY <1>1, <1>3, <1>4 DEF Lockstep, SendInv, Sending, Behind, Ahead
<1>7. EndInv'
  BY <1>1, <1>4 DEF Lockstep, EndInv, Ending, Ended, NoBlock
<1> QED BY <1>1, <1>3, <1>5, <1>6, <1>7 DEF Lockstep, Shape

\* Taking the first item leaves no block behind it.
LEMMA TakeLine ==
  ASSUME TypeOK, NEW item, Take(item)
  PROVE  /\ NoBlock \/ FirstBlock => NoBlock'
         /\ FirstBlock /\ item.what = "SOH" => item = OnlyBlock
         /\ NoBlock => item.what # "SOH"
<1>1. /\ Len(toTarget) \in Nat \ {0} /\ Len(toTarget') = Len(toTarget) - 1
      /\ \A i \in 1..Len(toTarget') : toTarget'[i] = toTarget[i + 1]
      /\ item = toTarget[1]
  BY DEF TypeOK, Take
<1>2. ASSUME NEW i \in 1..Len(toTarget')
      PROVE  i + 1 \in 1..Len(toTarget) /\ i + 1 # 1
  BY <1>1
<1>3. NoBlock \/ FirstBlock => NoBlock'
  BY <1>1, <1>2 DEF NoBlock, FirstBlock
<1>4. 1 \in 1..Len(toTarget)
  BY <1>1
<1> QED BY <1>1, <1>3, <1>4 DEF NoBlock, FirstBlock

\* The receiver meets the block being sent: it stores it once, and is never out of step.
LEMMA MeetBlock ==
  ASSUME TypeOK, Behind \/ Ahead, NEW item, item = OnlyBlock, Receive(item)
  PROVE  /\ ~OutOfStep(item)
         /\ StoreBlock(item) => Behind /\ Ahead' /\ stored' = Append(stored, next)
         /\ ~StoreBlock(item) => UNCHANGED <<stored, expected>>
         /\ toHost' # toHost /\ toHost = <<>> => toHost' # <<"ACK">> \/ Ahead'
<1>1. item.what = "SOH" /\ item.no = no /\ item.block = next
  BY DEF OnlyBlock, Block
<1>2. (no + 1) % NumberSpace # no
  BY NextNo DEF TypeOK
<1>3. UNCHANGED <<no, next>>
  BY DEF Receive, StoreBlock, RepeatAck, OutOfStep, BadBlock, TakeEot, TakeCancel, Ignore, Take,
      sender
<1>4. CASE StoreBlock(item)
  <2>1. Behind /\ stored' = Append(stored, next) /\ phase' = "data"
    BY <1>1, <1>2, <1>4 DEF StoreBlock, Behind, Ahead
  <2>2. Append(Upto(next - 1), next) = Upto(next)
    <3>1. next - 1 \in Nat /\ next - 1 + 1 = next
      BY XmodemAssumption DEF TypeOK
    <3> QED BY <3>1, UptoStep
  <2>3. Ahead'
    BY <1>3, <1>4, <2>1, <2>2 DEF StoreBlock, Behind, Ahead
  <2>4. ~OutOfStep(item)
    BY <1>4 DEF StoreBlock, OutOfStep
  <2> QED BY <1>4, <2>1, <2>3, <2>4
<1>5. CASE RepeatAck(item)
  <2>1. Ahead /\ UNCHANGED <<stored, expected, phase>>
    BY <1>1, <1>2, <1>5 DEF RepeatAck, Repetition, Behind, receiver
  <2> QED BY <1>3, <1>5, <2>1 DEF RepeatAck, OutOfStep, StoreBlock, Ahead
<1>6. ~OutOfStep(item)
  BY <1>1 DEF OutOfStep, Listening, Repetition, Behind, Ahead
<1>7. CASE Ignore(item)
  BY <1>1, <1>6, <1>7 DEF Ignore, StoreBlock, Listening, receiver
<1> QED BY <1>1, <1>4, <1>5, <1>6, <1>7 DEF Receive, BadBlock, TakeEot, TakeCancel

LEMMA ReplyOne ==
  ASSUME toHost = <<>>, NEW b, Reply(b)
  PROVE  toHost' \in {<<>>, <<b>>, <<"garbage">>}
BY DEF Reply

LEMMA ReceiverLockstep ==
  ASSUME TypeOK, Lockstep, Receiver
  PROVE  Lockstep'
<1> DEFINE item == Head(toTarget)
<1>1. Receive(item) /\ Take(item)
  BY DEF Receiver, Receive, StoreBlock, RepeatAck, OutOfStep, BadBlock, TakeEot, TakeCancel,
      Ignore
<1>2. UNCHANGED <<pc, no, next, outcome>>
  BY <1>1 DEF Take, sender
<1>3. toTarget # <<>> /\ ~Starting /\ pc \notin {"send", "synccan", "answercan"}
  BY <1>1 DEF Take, Lockstep, Shape, StartInv, CanInv, SendInv
<1>4. CASE pc = "answer"
  <2>1. /\ toHost = <<>> /\ toTarget' = <<>> /\ (Behind \/ Ahead)
        /\ item \in {OnlyBlock, Garbage}
    <3>1. toHost = <<>> /\ (Behind \/ Ahead) /\ toTarget \in {<<OnlyBlock>>, <<Garbage>>}
      BY <1>3, <1>4 DEF Lockstep, Shape, SendInv, Sending
    <3>2. toTarget' = Tail(toTarget)
      BY <1>1 DEF Take
    <3> QED BY <3>1, <3>2
  <2>2. /\ phase' # "outofstep" /\ (Behind' \/ Ahead')
        /\ toHost' = <<>> \/ \E b \in Bytes \ {"CAN"} : toHost' = <<b>>
        /\ toHost' = <<"ACK">> => Ahead'
    <3>1. CASE item = OnlyBlock
      <4>1. item.what = "SOH"
        BY <3>1 DEF OnlyBlock, Block
      <4>2. ~OutOfStep(item) /\ (toHost' = <<"ACK">> => Ahead') /\ (Behind' \/ Ahead')
        BY <1>1, <1>2, <2>1, <3>1, MeetBlock
        DEF Receive, RepeatAck, BadBlock, TakeEot, TakeCancel, Ignore, Behind, Ahead, receiver
      <4>3. StoreBlock(item) \/ RepeatAck(item) \/ Ignore(item)
        BY <1>1, <4>1, <4>2 DEF Receive, BadBlock, TakeEot, TakeCancel
      <4>4. toHost' \in {<<>>, <<"ACK">>, <<"garbage">>} /\ phase' # "outofstep"
        BY <2>1, <4>3, ReplyOne DEF StoreBlock, RepeatAck, Ignore, receiver, Lockstep, Shape
      <4> QED BY <4>2, <4>4 DEF Bytes
    <3>2. CASE item = Garbage
      <4>1. item.what = "garbage"
        BY <3>2 DEF Garbage, Control
      <4>2. BadBlock(item) \/ Ignore(item)
        BY <1>1, <4>1 DEF Receive, StoreBlock, RepeatAck, OutOfStep, TakeEot, TakeCancel
      <4>3. toHost' \in {<<>>, <<"NAK">>, <<"garbage">>} /\ UNCHANGED receiver
        BY <2>1, <4>2, ReplyOne DEF BadBlock, Ignore
      <4>4. <<"NAK">> # <<"ACK">> /\ <<"garbage">> # <<"ACK">> /\ <<>> # <<"ACK">>
        OBVIOUS
      <4>5. (toHost' = <<>> \/ \E b \in Bytes \ {"CAN"} : toHost' = <<b>>) /\ toHost' # <<"ACK">>
        BY <4>3, <4>4 DEF Bytes
      <4>6. phase' # "outofstep" /\ (Behind' \/ Ahead')
        BY <1>2, <2>1, <4>3 DEF receiver, Lockstep, Shape, Behind, Ahead
      <4> QED BY <4>5, <4>6
    <3> QED BY <2>1, <3>1, <3>2
  <2>3. OneAnswer'
    BY <2>2 DEF OneAnswer
  <2>4. StartInv' /\ CanInv' /\ EndInv'
    BY <1>2, <1>3, <1>4 DEF StartInv, CanInv, EndInv, Starting, Ending, Ended
  <2>5. SendInv'
    BY <1>2, <1>4, <2>1, <2>2 DEF SendInv, Sending
  <2> QED BY <1>2, <2>2, <2>3, <2>4, <2>5 DEF Lockstep, Shape
<1>5. CASE pc # "answer" /\ stored = Image /\ NoBlock
  <2>1. item.what # "SOH" /\ NoBlock'
    BY <1>1, <1>5, TakeLine
  <2>2. UNCHANGED stored /\ phase' # "outofstep"
    BY <1>1, <2>1
    DEF Receive, StoreBlock, RepeatAck, OutOfStep, BadBlock, TakeEot, TakeCancel, Ignore,
        receiver, Lockstep, Shape
  <2> QED BY <1>2, <1>3, <1>5, <2>1, <2>2
          DEF Lockstep, Shape, StartInv, CanInv, SendInv, EndInv, Starting, Sending, Ending
<1>6. CASE pc # "answer" /\ (Behind \/ Ahead) /\ FirstBlock /\ Ended /\ outcome # "complete"
  <2>1. NoBlock' /\ (item.what = "SOH" => item = OnlyBlock)
    BY <1>1, <1>6, TakeLine
  <2>2. (Behind' \/ Ahead') /\ phase' # "outofstep"
    <3>1. CASE item = OnlyBlock
      BY <1>1, <1>2, <1>6, <3>1, MeetBlock
      DEF Receive, StoreBlock, RepeatAck, BadBlock, TakeEot, TakeCancel, Ignore, Behind, Ahead,
          receiver, Lockstep, Shape
    <3>2. CASE item.what # "SOH"
      BY <1>1, <1>2, <1>6, <3>2
      DEF Receive, StoreBlock, RepeatAck, OutOfStep, BadBlock, TakeEot, TakeCancel, Ignore,
          Behind, Ahead, receiver, Lockstep, Shape
    <3> QED BY <2>1, <3>1, <3>2
  <2>3. FirstBlock'
    BY <2>1 DEF NoBlock, FirstBlock
  <2> QED BY <1>2, <1>6, <2>2, <2>3
          DEF Lockstep, Shape, StartInv, CanInv, SendInv, EndInv, Starting, Ending, Ended
<1> QED BY <1>3, <1>4, <1>5, <1>6 DEF Lockstep, EndInv, Starting, Ending, Ended, TypeOK, Stages

\* The invariant the run checks, for every image, every number space and every limit.
THEOREM InductiveInvariant ==
  ASSUME InTime
  PROVE  Spec => []IInv
<1>1. Init => TypeInv /\ Lockstep
  BY XmodemAssumption, UptoEmpty
  DEF Init, TypeInv, TypeOK, Stages, kRequiredSyncCount, Lockstep, Shape, StartInv, CanInv,
      SendInv, EndInv, Ending, Ended, Behind
<1>2. TypeInv /\ Lockstep /\ [Next]_vars => (TypeInv /\ Lockstep)'
  <2> SUFFICES ASSUME TypeInv, Lockstep, [Next]_vars
               PROVE  TypeInv' /\ Lockstep'
    OBVIOUS
  <2>1. CASE Next
    BY <2>1, SenderTypes, ReceiverTypes, SenderLockstep, CancelLockstep, PromptLockstep, ReceiverLockstep
    DEF Next, TypeInv
  <2>2. CASE UNCHANGED vars
    BY <2>2
    DEF vars, sender, receiver, TypeInv, TypeOK, Lockstep, Shape, StartInv, CanInv, SendInv,
        EndInv, Starting, Sending, Ending, Ended, Behind, Ahead, OneAnswer, NoBlock,
        FirstBlock, OnlyBlock
  <2> QED BY <2>1, <2>2
<1>3. TypeInv /\ Lockstep => IInv
  BY DEF TypeInv, Lockstep, Shape, IInv
<1> QED BY <1>1, <1>2, <1>3, PTL DEF Spec

\* A transfer reported complete is complete, when the answers come in time.
THEOREM Verified ==
  ASSUME InTime
  PROVE  Spec => []Complete
<1>1. IInv => Complete
  BY DEF IInv, EndInv, Ended, Complete
<1> QED BY <1>1, InductiveInvariant, PTL

\* Sender and receiver implement the abstract file transfer.
THEOREM Refinement ==
  ASSUME InTime
  PROVE  Spec => ImplementsTransfer
<1>1. Init => Transfer!Init
  BY DEF Init, Transfer!Init
<1>2. IInv /\ IInv' /\ [Next]_vars => [Transfer!Next]_Transfer!vars
  <2> SUFFICES ASSUME IInv, IInv', [Next]_vars
               PROVE  [Transfer!Next]_Transfer!vars
    OBVIOUS
  <2> USE DEF Transfer!vars
  <2>1. CASE Send
    BY <2>1 DEF Send, receiver, Transfer!Next, Transfer!Begin
  <2>2. CASE EotAcked
    <3>1. stored = Image /\ Len(stored) = Blocks
      BY <2>2, UptoStep, XmodemAssumption DEF IInv, EndInv, Ending, EotAcked, Image
    <3> QED BY <2>2, <3>1 DEF EotAcked, Finish, IInv, receiver, Transfer!Next, Transfer!Complete
  <2>3. CASE HandshakeTimeout \/ TargetCancels \/ GiveUp \/ EotGiveUp \/ Cancel \/ PortFails
    BY <2>3
    DEF HandshakeTimeout, TargetCancels, GiveUp, NotAcked, EotGiveUp, EotNotAcked, Cancel,
        Polls, Reading, PortFails, Finish, IInv, receiver, Transfer!Next, Transfer!Fail
  <2>4. CASE \/ \E b \in Bytes : SyncByte(b) \/ SyncOther(b) \/ SyncCanOther(b)
             \/ Transmit \/ Acked \/ CanRead \/ Resend \/ SendEot \/ EotAgain
             \/ Prompt \/ ReceiverCancels
    BY <2>4
    DEF SyncByte, SyncOther, SyncCanOther, Transmit, Acked, CanRead, Resend, SendEot, EotAgain,
        Prompt, ReceiverCancels, Unasked, sender, receiver
  <2>5. CASE Receiver
    <3> DEFINE item == Head(toTarget)
    <3>1. Receive(item) /\ Take(item) /\ UNCHANGED outcome
      BY <2>5
      DEF Receiver, Receive, StoreBlock, RepeatAck, OutOfStep, BadBlock, TakeEot, TakeCancel,
          Ignore, Take, sender
    <3>2. CASE ~StoreBlock(item)
      BY <3>1, <3>2
      DEF Receive, RepeatAck, OutOfStep, BadBlock, TakeEot, TakeCancel, Ignore, receiver
    <3>3. CASE StoreBlock(item)
      <4>1. item.what = "SOH" /\ TypeOK /\ Lockstep
        BY <3>3 DEF StoreBlock, IInv, Lockstep, Shape
      <4>2. /\ (stored = Image /\ NoBlock) \/ ((Behind \/ Ahead) /\ FirstBlock)
            /\ outcome \in {"busy", "failed", "stopped"}
        <5>1. CASE pc # "idle"
          BY <4>1, <5>1, OnTheLine DEF Lockstep, Shape
        <5>2. CASE pc = "idle"
          <6>1. Ended
            BY <3>1, <4>1, <5>2 DEF Ended, Take, Lockstep, StartInv, Starting
          <6> QED BY <3>1, <4>1, <6>1, TakeLine DEF Ended, Lockstep, EndInv, TypeOK
        <5> QED BY <5>1, <5>2
      <4>3. item = OnlyBlock /\ (Behind \/ Ahead)
        BY <3>1, <4>1, <4>2, TakeLine
      <4>4. Behind /\ stored' = Append(stored, next)
        BY <3>1, <3>3, <4>1, <4>3, MeetBlock
      <4>5. next - 1 \in Nat /\ Len(stored) = next - 1 /\ next <= Blocks
        BY <4>1, <4>4, UptoStep, XmodemAssumption DEF Behind, TypeOK
      <4>6. Len(stored) < Blocks /\ stored' = Append(stored, Len(stored) + 1)
        <5>1. next \in Nat /\ Blocks \in Nat
        BY <4>1, XmodemAssumption DEF TypeOK
      <5> QED BY <4>4, <4>5, <5>1
      <4> QED BY <3>1, <4>2, <4>6 DEF Transfer!Next, Transfer!Accept
    <3> QED BY <3>2, <3>3
  <2>6. CASE UNCHANGED vars
    BY <2>6 DEF vars, sender, receiver
  <2> QED BY <2>1, <2>2, <2>3, <2>4, <2>5, <2>6 DEF Next, Sender
<1> QED BY <1>1, <1>2, InductiveInvariant, PTL DEF Spec, ImplementsTransfer, Transfer!Spec
=============================================================================
