------------------------ MODULE BridgeService_proofs ------------------------
(***************************************************************************)
(* Theorems about BridgeService for every packet, every size of the ring,  *)
(* every number of transfers and of connections, and any faults that are   *)
(* fewer than the sequence numbers: what reaches the bus is one packet at  *)
(* a time, whole, the service implements BusTransfer, and of transfers in  *)
(* a row in which nothing goes wrong at most one is lost.                  *)
(***************************************************************************)
EXTENDS BridgePipe_proofs

-----------------------------------------------------------------------------
(* Packets and the bus *)

LEMMA UptoFacts ==
  ASSUME NEW o \in Nat, NEW n \in Nat
  PROVE  /\ Upto(o, n) \in Seq(Nat \X Nat) /\ Len(Upto(o, n)) = n
         /\ \A i \in 1..n : Upto(o, n)[i] = <<o, i>>
         /\ Upto(o, 0) = <<>>
         /\ Append(Upto(o, n), <<o, n + 1>>) = Upto(o, n + 1)
         /\ n >= 1 => Upto(o, n) # <<>> /\ Upto(o, n)[1][1] = o
  <1>1. Upto(o, n) \in Seq(Nat \X Nat) /\ Len(Upto(o, n)) = n
    BY DEF Upto
  <1>2. \A i \in 1..n : Upto(o, n)[i] = <<o, i>>
    BY DEF Upto
  <1>3. Upto(o, n + 1) \in Seq(Nat \X Nat) /\ Len(Upto(o, n + 1)) = n + 1
        /\ \A i \in 1..(n + 1) : Upto(o, n + 1)[i] = <<o, i>>
    BY DEF Upto
  <1>4. Upto(o, 0) = <<>>
    BY DEF Upto
  <1> DEFINE a == Append(Upto(o, n), <<o, n + 1>>)
  <1>5. a \in Seq(Nat \X Nat) /\ Len(a) = n + 1 /\ \A i \in 1..(n + 1) : a[i] = <<o, i>>
    <2>1. <<o, n + 1>> \in Nat \X Nat
      OBVIOUS
    <2>2. /\ a \in Seq(Nat \X Nat) /\ Len(a) = n + 1
          /\ \A i \in 1..n : a[i] = Upto(o, n)[i]
          /\ a[n + 1] = <<o, n + 1>>
      BY <1>1, <2>1
    <2> HIDE DEF a
    <2>3. ASSUME NEW i \in 1..(n + 1) PROVE a[i] = <<o, i>>
      <3>1. CASE i <= n
        BY <1>2, <2>2, <3>1
      <3>2. CASE i = n + 1
        BY <2>2, <3>2
      <3> QED
        BY <3>1, <3>2
    <2> QED
      BY <2>2, <2>3
  <1> DEFINE b == Upto(o, n + 1)
  <1> HIDE DEF a
  <1>6. a = b
    <2>1. b \in Seq(Nat \X Nat) /\ Len(b) = n + 1 /\ \A i \in 1..(n + 1) : b[i] = <<o, i>>
      BY <1>3
    <2> HIDE DEF b
    <2>2. Len(a) = Len(b) /\ \A i \in 1..Len(a) : a[i] = b[i]
      BY <1>5, <2>1
    <2> QED
      BY <1>5, <2>1, <2>2, SeqEqual
  <1> QED
    BY <1>1, <1>2, <1>4, <1>6 DEF a

LEMMA TransferUpto ==
  ASSUME NEW o \in Nat
  PROVE  TransferOf(Upto(o, Chunks)) = o
  <1>1. Chunks \in Nat /\ Chunks >= 1
    BY BridgeAssumption
  <1>2. Upto(o, Chunks)[1][1] = o
    BY <1>1, UptoFacts
  <1>3. Upto(o, Chunks) = [i \in 1..Chunks |-> <<Upto(o, Chunks)[1][1], i>>]
    BY <1>2 DEF Upto
  <1> QED
    BY <1>2, <1>3 DEF TransferOf

\* The bus takes one more packet.
LEMMA BusAppend ==
  ASSUME Shape, NEW o \in Nat, wire' = Append(wire, Upto(o, Chunks))
  PROVE  /\ wire' # <<>> /\ Len(wire') = Len(wire) + 1 /\ Len(wire) \in Nat
         /\ \A i \in 1..Len(wire) : TransferOf(wire'[i]) = TransferOf(wire[i])
         /\ TransferOf(wire'[Len(wire')]) = o
         /\ wire' \in Seq(Seq(Nat \X Nat))
  <1> DEFINE p == Upto(o, Chunks)
  <1>1. p \in Seq(Nat \X Nat) /\ TransferOf(p) = o
    BY UptoFacts, TransferUpto, BridgeAssumption
  <1> HIDE DEF p
  <1>2. wire \in Seq(Seq(Nat \X Nat)) /\ wire' = Append(wire, p)
    BY DEF Shape, p
  <1>3. /\ wire' # <<>> /\ Len(wire') = Len(wire) + 1 /\ Len(wire) \in Nat
        /\ \A i \in 1..Len(wire) : wire'[i] = wire[i]
        /\ wire'[Len(wire')] = p
        /\ wire' \in Seq(Seq(Nat \X Nat))
    <2> DEFINE S == Seq(Nat \X Nat)
    <2>1. wire \in Seq(S) /\ p \in S /\ wire' = Append(wire, p)
      BY <1>1, <1>2
    <2> HIDE DEF S
    <2>2. /\ Len(wire') = Len(wire) + 1 /\ Len(wire) \in Nat /\ wire' \in Seq(S)
          /\ \A i \in 1..Len(wire) : wire'[i] = wire[i]
          /\ wire'[Len(wire) + 1] = p
      BY <2>1
    <2> QED
      BY <2>2 DEF S
  <1> QED
    BY <1>1, <1>3

\* The transfer m belongs to takes place, if one does.
TakesPlace(m) ==
  /\ m.cmd \in Transfers /\ wire' = Append(wire, Upto(m.op, Chunks))
  /\ m.op \in 1..op /\ Below(m.op) /\ (BeforeExecute => m.op < op)

LEMMA BusStep ==
  ASSUME TypeOK, Shape, RequestInv, NEW m, NEW r, NEW parts, Answered(m, r, parts), Done(m, r)
  PROVE  /\ wire' = wire \/ TakesPlace(m)
         /\ r.ok /\ m.cmd \in Transfers => TakesPlace(m)
  <1>1. /\ m = output[1].msg /\ 1 \in Ends(output) /\ m.op \in Nat
        /\ m.cmd \in Transfers => m.cmd \in Later
    BY DEF Answered, ReqMsg, Transfers, Later
  <1>2. m.cmd \in Transfers =>
          StageFits(m) /\ m.op \in 1..op /\ Below(m.op) /\ (BeforeExecute => m.op < op)
    BY <1>1 DEF RequestInv
  <1>3. /\ wire \in Seq(Seq(Nat \X Nat))
        /\ Upto(m.op, Chunks) \in Seq(Nat \X Nat) /\ Upto(m.op, Chunks) # <<>>
    <2>1. wire \in Seq(Seq(Nat \X Nat)) /\ Chunks \in Nat /\ Chunks >= 1
      BY BridgeAssumption DEF Shape
    <2> QED
      BY <1>1, <2>1, UptoFacts
  <1>4. CASE m.cmd \notin Transfers
    BY <1>4 DEF Done
  <1>5. CASE m.cmd = "write"
    <2>1. ready => Staged = <<Upto(m.op, Chunks)>>
      BY <1>2, <1>3, <1>5 DEF StageFits, Staged, Transfers
    <2>2. wire \o <<Upto(m.op, Chunks)>> = Append(wire, Upto(m.op, Chunks))
      BY <1>3
    <2>3. /\ wire' = wire \/ (ready /\ wire' = wire \o Staged)
          /\ r.ok => ready /\ wire' = wire \o Staged
      BY <1>5 DEF Done
    <2> QED
      BY <1>2, <1>5, <2>1, <2>2, <2>3 DEF TakesPlace, Transfers
  <1>6. CASE m.cmd = "read"
    <2>1. Staged = <<>> /\ ReadBytes(m) = Upto(m.op, Chunks)
      BY <1>2, <1>6 DEF StageFits, Staged, Transfers, ReadBytes, Upto
    <2>2. /\ wire \o <<>> = wire
          /\ wire \o <<Upto(m.op, Chunks)>> = Append(wire, Upto(m.op, Chunks))
      BY <1>3
    <2>3. /\ wire' \in {wire, wire \o Staged, wire \o Staged \o <<ReadBytes(m)>>}
          /\ r.ok => wire' = wire \o Staged \o <<ReadBytes(m)>>
      BY <1>6 DEF Done
    <2>4. wire' = wire \/ wire' = Append(wire, Upto(m.op, Chunks))
      BY <2>1, <2>2, <2>3
    <2>5. r.ok => wire' = Append(wire, Upto(m.op, Chunks))
      BY <2>1, <2>2, <2>3
    <2> QED
      BY <1>2, <1>6, <2>4, <2>5 DEF TakesPlace, Transfers
  <1> QED
    BY <1>4, <1>5, <1>6 DEF Transfers

LEMMA BusTakes ==
  ASSUME TypeOK, Shape, BusInv, NEW m, TakesPlace(m), UNCHANGED op
  PROVE  BusInv' /\ Executed' = (m.op = op)
  <1>1. m.op \in 1..op /\ Below(m.op) /\ wire' = Append(wire, Upto(m.op, Chunks)) /\ m.op \in Nat
        /\ op \in Nat
    BY BridgeAssumption DEF TakesPlace, TypeOK
  <1>2. /\ wire' # <<>> /\ Len(wire') = Len(wire) + 1 /\ Len(wire) \in Nat
        /\ \A i \in 1..Len(wire) : TransferOf(wire'[i]) = TransferOf(wire[i])
        /\ TransferOf(wire'[Len(wire')]) = m.op
    BY <1>1, BusAppend
  <1>3. \A i \in 1..Len(wire) : TransferOf(wire[i]) \in 1..op /\ TransferOf(wire[i]) < m.op
    BY <1>1 DEF BusInv, Below
  <1>4. \A i \in 1..Len(wire') : i \in 1..Len(wire) \/ i = Len(wire')
    BY <1>2
  <1>5. ASSUME NEW i \in 1..Len(wire') PROVE TransferOf(wire'[i]) \in 1..op
    BY <1>1, <1>2, <1>3, <1>4
  <1>6. ASSUME NEW i \in 1..Len(wire'), NEW j \in 1..Len(wire'), i < j
        PROVE  TransferOf(wire'[i]) < TransferOf(wire'[j])
    <2>1. i \in 1..Len(wire)
      BY <1>2, <1>6
    <2>2. CASE j \in 1..Len(wire)
      BY <1>2, <1>6, <2>1, <2>2 DEF BusInv
    <2>3. CASE j = Len(wire')
      BY <1>2, <1>3, <2>1, <2>3
    <2> QED
      BY <1>4, <2>2, <2>3
  <1>7. BusInv'
    BY <1>5, <1>6 DEF BusInv, TransferOf
  <1>8. Executed' = (m.op = op)
    BY <1>1, <1>2 DEF Executed, TransferOf
  <1> QED
    BY <1>7, <1>8

-----------------------------------------------------------------------------
(* The answer to the latest request *)

\* What the firmware answers to what the client has asked is right.
LEMMA AnswerRight ==
  ASSUME TypeOK, Shape, BusInv, CallInv, RequestInv, NEW m, NEW r, NEW parts,
         Answered(m, r, parts), Done(m, r), NEW k \in {0, 1}, PipeInv(k), phase # "send"
  PROVE  Right(r)'
  <1>0. /\ m \in ReqMsg /\ m = output[1].msg /\ 1 \in Ends(output) /\ r.cmd = m.cmd
        /\ r.seq = m.seq /\ r \in RespMsg
        /\ UNCHANGED <<seq, call, step, got, op>>
    BY DEF Answered, HostRest
  <1>1. Cmd' = Cmd
    BY <1>0 DEF Cmd, WriteStep, ReadStep
  <1>2. /\ seq \in SeqNumbers /\ step \in 0..(Chunks + 2) /\ call \in Calls /\ op \in Nat
        /\ Chunks \in Nat /\ Chunks >= 1
    BY BridgeAssumption DEF TypeOK, SeqNumbers, Calls
  <1> SUFFICES ASSUME Fits(r), ~Refused(r), call \in Transfers
               PROVE  /\ Prepared(step + 1)'
                      /\ r.cmd = "fetch" => r.data = <<<<op, Len(got) + 1>>>>
    BY <1>0, <1>1 DEF Right, Fits, Refused, Transfers
  <1>3. Age(m) = 0 /\ m.cmd = Cmd
    <2>1. r.seq \in SeqNumbers
      BY <1>0 DEF RespMsg, SeqNumbers
    <2>2. Age(r) = 0 /\ r.cmd = Cmd
      BY <1>2, <2>1, AgeFacts
    <2> QED
      BY <1>0, <2>2 DEF Age
  <1>4. m.op = op /\ m.n = IF Cmd = "append" THEN step - 1 ELSE IF Cmd = "fetch" THEN Len(got) ELSE 0
    <2>1. m = [Request EXCEPT !.seq = m.seq]
      BY <1>0, <1>3 DEF PipeInv, AnswerInv
    <2>2. m.op = Request.op /\ m.n = Request.n
      BY <2>1 DEF Request
    <2> QED
      BY <2>2, RequestFacts
  <1>5. Cmd \in Later => StageFits(m)
    BY <1>0, <1>3 DEF RequestInv
  <1>6. op > 0 /\ r.ok /\ (r.cmd = "fetch" => r.total = Chunks /\ r.data # <<>>)
    BY <1>2 DEF CallInv, Refused
  <1>7. \A n : Prepared(n)' <=>
          /\ call = "write" /\ n \in 2..(Chunks + 2) =>
               Len(stageTx') <= n - 2 /\ (ready' => stageTx' = Upto(op, n - 2))
          /\ call = "write" /\ n = Chunks + 3 => Executed'
          /\ call = "read" /\ n = 2 => stageTx' = <<>>
          /\ call = "read" /\ n >= 3 => Executed' /\ stageRx' \in {<<>>, Upto(op, Chunks)}
    BY <1>0 DEF Prepared, Upto
  <1>8. CASE step = 0
    <2>1. Prepared(step + 1)' /\ Cmd = "init"
      BY <1>0, <1>2, <1>8, CmdFacts DEF Prepared
    <2> QED
      BY <1>0, <1>3, <2>1
  <1>9. CASE step = 1
    <2>1. Cmd = "clear"
      BY <1>2, <1>9, CmdFacts
    <2>2. stageTx' = <<>> /\ stageTx' = Upto(op, 0)
      BY <1>2, <1>3, <2>1, UptoFacts DEF Done
    <2>3. Prepared(2)'
      BY <1>2, <1>7, <2>2
    <2>4. Prepared(step + 1)'
      BY <1>0, <1>9, <2>3 DEF Prepared
    <2> QED
      BY <1>0, <1>3, <2>1, <2>4
  <1>10. CASE call = "write" /\ step \in 2..(Chunks + 1)
    <2>1. Cmd = "append" /\ Cmd \in Later
      BY <1>2, <1>10, CmdFacts DEF Later
    <2>2. m.n = step - 1 /\ step - 1 \in Nat /\ step - 2 \in Nat
      BY <1>4, <1>10, <2>1
    <2>3. /\ Len(stageTx) <= (step - 1) - 1 /\ (ready => stageTx = Upto(op, (step - 1) - 1))
          /\ ready' = ready /\ stageTx' = Append(stageTx, <<op, step - 1>>)
      BY <1>3, <1>4, <1>5, <1>6, <2>1, <2>2 DEF StageFits, Done
    <2>4. (step - 1) - 1 = step - 2 /\ (step - 2) + 1 = step - 1 /\ (step + 1) - 2 = step - 1
          /\ step + 1 \in 2..(Chunks + 2)
      BY <1>2, <1>10
    <2>5. Len(stageTx') <= step - 1
      <3>1. stageTx \in Seq(Nat \X Nat) /\ <<op, step - 1>> \in Nat \X Nat
        BY <1>2, <2>2 DEF Shape
      <3>2. Len(stageTx') = Len(stageTx) + 1 /\ Len(stageTx) \in Nat
        BY <2>3, <3>1
      <3> QED
        BY <1>2, <2>3, <3>2
    <2>6. ready' => stageTx' = Upto(op, step - 1)
      <3>1. Append(Upto(op, step - 2), <<op, (step - 2) + 1>>) = Upto(op, (step - 2) + 1)
        BY <1>2, <2>2, UptoFacts
      <3>2. Append(Upto(op, step - 2), <<op, step - 1>>) = Upto(op, step - 1)
        BY <2>4, <3>1
      <3>3. ready' => stageTx = Upto(op, step - 2)
        BY <2>3, <2>4
      <3> QED
        BY <2>3, <3>2, <3>3
    <2>7. Prepared(step + 1)'
      <3> PICK n : n = step + 1
        OBVIOUS
      <3>1. Len(stageTx') <= n - 2 /\ (ready' => stageTx' = Upto(op, n - 2)) /\ n # Chunks + 3
        BY <1>2, <1>10, <2>4, <2>5, <2>6
      <3>2. Prepared(n)'
        BY <1>7, <1>10, <3>1
      <3> QED
        BY <1>0, <3>2 DEF Prepared
    <2> QED
      BY <1>0, <1>3, <2>1, <2>7
  <1>11. CASE call = "write" /\ step = Chunks + 2
    <2>1. Cmd = "write"
      BY <1>2, <1>11, CmdFacts
    <2>2. Executed'
      BY <1>0, <1>3, <1>4, <1>6, <2>1, BusStep, BusTakes DEF Transfers
    <2>3. Prepared(Chunks + 3)'
      BY <1>2, <1>7, <1>11, <2>2
    <2>4. Prepared(step + 1)'
      BY <1>0, <1>2, <1>11, <2>2 DEF Prepared
    <2> QED
      BY <1>0, <1>3, <2>1, <2>4
  <1>12. CASE call = "read" /\ step = 2
    <2>1. Cmd = "read"
      BY <1>2, <1>12, CmdFacts
    <2>2. Executed'
      BY <1>0, <1>3, <1>4, <1>6, <2>1, BusStep, BusTakes DEF Transfers
    <2>3. stageRx' = Upto(op, Chunks)
      BY <1>3, <1>4, <1>6, <2>1 DEF Done, ReadBytes, Upto
    <2>4. Prepared(3)'
      BY <1>7, <1>12, <2>2, <2>3
    <2>5. Prepared(step + 1)'
      BY <1>0, <1>12, <2>4 DEF Prepared
    <2> QED
      BY <1>0, <1>3, <2>1, <2>5
  <1>13. CASE call = "read" /\ step > 2
    <2>1. Cmd = "fetch" /\ Cmd \in Later /\ m.n = Len(got)
      BY <1>2, <1>4, <1>13, CmdFacts DEF Later
    <2>2. stageRx' = stageRx /\ wire' = wire /\ stageRx \in {<<>>, Upto(op, Chunks)}
      BY <1>3, <1>4, <1>5, <2>1 DEF Done, StageFits, Transfers
    <2>3. Executed'
      <3>1. Executed
        BY <1>2, <1>13 DEF CallInv
      <3> QED
        BY <1>0, <2>2, <3>1 DEF Executed, TransferOf
    <2>4. Prepared(step + 1)'
      <3> PICK n : n = step + 1
        OBVIOUS
      <3>1. n >= 3 /\ n # 2
        BY <1>2, <1>13
      <3>2. Prepared(n)'
        BY <1>7, <1>13, <2>2, <2>3, <3>1
      <3> QED
        BY <1>0, <3>2 DEF Prepared
    <2>5. r.data = <<<<op, Len(got) + 1>>>>
      <3>1. /\ m.n <= Len(stageRx) /\ r.total = Len(stageRx)
            /\ m.n < Len(stageRx) => r.data = <<stageRx[m.n + 1]>>
            /\ m.n = Len(stageRx) => r.data = <<>>
        BY <1>3, <1>6, <2>1 DEF Done
      <3>2. Len(got) \in Nat /\ Len(stageRx) \in Nat
        BY DEF Shape
      <3>3. stageRx = Upto(op, Chunks)
        <4>1. Len(stageRx) # 0
          BY <1>0, <1>2, <1>3, <1>6, <2>1, <3>1
        <4> QED
          BY <2>2, <4>1
      <3>4. Len(got) + 1 \in 1..Chunks
        BY <1>0, <1>3, <1>6, <2>1, <3>1, <3>2
      <3>5. stageRx[Len(got) + 1] = <<op, Len(got) + 1>>
        BY <1>2, <3>3, <3>4, UptoFacts
      <3>6. Len(got) < Len(stageRx)
        BY <1>0, <1>2, <1>3, <1>6, <2>1, <3>1, <3>2
      <3> QED
        BY <2>1, <3>1, <3>5, <3>6
    <2> QED
      BY <2>4, <2>5
  <1> QED
    BY <1>2, <1>8, <1>9, <1>10, <1>11, <1>12, <1>13 DEF Transfers

LEMMA PipeAnswers ==
  ASSUME TypeOK, Shape, Shape', BusInv, CallInv, RequestInv, Pipe, NEW m, NEW r, NEW parts,
         Answered(m, r, parts), Done(m, r)
  PROVE  Pipe'
  <1> SUFFICES ASSUME handle' = "open" PROVE \E k \in {0, 1} : PipeInv(k)'
    BY DEF Pipe
  <1>1. handle = "open"
    BY DEF Answered, HostRest
  <1> PICK k \in {0, 1} : PipeInv(k)
    BY <1>1 DEF Pipe
  <1>2. phase # "send" => Right(r)'
    BY AnswerRight
  <1> PICK j : j = Instead(k, parts)
    OBVIOUS
  <1>3. j \in {0, 1}
    BY DEF Instead
  <1>4. PipeInv(j)'
    BY <1>1, <1>2, PipeDispatch
  <1> QED
    BY <1>3, <1>4

\* The pipe keeps its order, whatever is done.
LEMMA PipeStep ==
  ASSUME MaxFaults + 1 < SeqMod, IInv, Shape', Next, Connect => output = <<>>
  PROVE  Pipe'
  <1>0. TypeOK /\ Shape /\ BusInv /\ CallInv /\ RequestInv /\ Pipe
    BY DEF IInv
  <1>1. CASE Connect
    BY <1>0, <1>1, PipeConnect
  <1>2. CASE Disconnect
    BY <1>2 DEF Disconnect, Pipe
  <1>3. ASSUME NEW c \in Transfers, Ask(c) PROVE Pipe'
    <2>1. /\ phase = "send" /\ phase' = "send"
          /\ UNCHANGED <<transport, handle, seq, enabled, input, output, reply, faults>>
          /\ enabled \/ step' = 0
      BY <1>0, <1>3 DEF Ask, Begin, CallInv
    <2> QED
      BY <1>0, <2>1, PipeBegin
  <1>4. ASSUME NEW c \in {"deinit", "reset"}, Command(c) PROVE Pipe'
    <2>1. /\ phase = "send" /\ phase' = "send"
          /\ UNCHANGED <<transport, handle, seq, enabled, input, output, reply, faults>>
          /\ call' \notin Transfers
      BY <1>0, <1>4 DEF Command, Begin, CallInv, budget, Transfers
    <2> QED
      BY <1>0, <2>1, PipeBegin
  <1>5. CASE Send
    BY <1>0, <1>5, PipeSend
  <1>6. CASE SendThrows
    BY <1>0, <1>6, PipeSendThrows
  <1>7. CASE StaleThrows
    BY <1>7 DEF StaleThrows, End, Pipe
  <1>8. CASE Skip
    BY <1>0, <1>8, PipeSkip
  <1>9. CASE PopNothing
    BY <1>0, <1>9, PipePopNothing
  <1>10. CASE TimeUp
    BY <1>0, <1>10, PipeTimeUp
  <1>11. CASE Take
    BY <1>0, <1>11, PipeTake
  <1>12. CASE Arrived /\ Dispatch(Arriving)
    BY <1>0, <1>12, DispatchDone, PipeAnswers
  <1>13. CASE ParseByte
    BY <1>0, <1>13, PipeParse
  <1>14. CASE Poll
    <2> SUFFICES ASSUME handle' = "open" PROVE \E k \in {0, 1} : PipeInv(k)'
      BY DEF Pipe
    <2> PICK k \in {0, 1} : PipeInv(k)
      BY <1>0, <1>14 DEF Poll, Pipe
    <2>1. PipeInv(k)'
      BY <1>0, <1>14, PipePoll
    <2> QED
      BY <2>1
  <1>15. CASE CountdownEnds
    <2>1. Restart /\ faults' \in {faults, faults + 1}
      BY <1>15 DEF CountdownEnds
    <2> QED
      BY <1>0, <2>1, PipeRestart
  <1>16. CASE PowerCycle
    <2>1. Restart /\ faults' \in {faults, faults + 1}
      BY <1>16 DEF PowerCycle, Fault
    <2> QED
      BY <1>0, <2>1, PipeRestart
  <1> QED
    BY <1>1, <1>2, <1>3, <1>4, <1>5, <1>6, <1>7, <1>8, <1>9, <1>10, <1>11, <1>12, <1>13, <1>14,
       <1>15, <1>16 DEF Next, User, Client, Firmware

-----------------------------------------------------------------------------
(* The bus and the requests *)

\* No step but the firmware's answer to a write or a read touches the bus, and
\* no transfer but the latest is new.
LEMMA BusKept ==
  ASSUME Shape, BusInv, wire' = wire, op' \in {op, op + 1}, op \in Nat
  PROVE  BusInv'
  <1>1. \A i \in 1..Len(wire) : TransferOf(wire[i]) \in 1..op'
    <2>1. 1..op \subseteq 1..op'
      OBVIOUS
    <2> QED
      BY <2>1 DEF BusInv
  <1>2. \A i, j \in 1..Len(wire) : i < j => TransferOf(wire[i]) < TransferOf(wire[j])
    BY DEF BusInv
  <1> QED
    BY <1>1, <1>2 DEF BusInv, TransferOf

LEMMA OtherSteps ==
  ASSUME Next, ~(Arrived /\ Dispatch(Arriving))
  PROVE  /\ wire' = wire
         /\ op' = op \/ \E c \in Transfers : Ask(c) /\ op' = op + 1
  <1>1. CASE User
    BY <1>1 DEF User, Connect, Disconnect, Ask, Command
  <1>2. CASE Client
    BY <1>2 DEF Client, Send, SendThrows, StaleThrows, Skip, PopNothing, TimeUp, Take
  <1>3. CASE ParseByte \/ Poll
    BY <1>3 DEF ParseByte, Poll
  <1>4. CASE CountdownEnds \/ PowerCycle
    BY <1>4 DEF CountdownEnds, PowerCycle, Restart
  <1> QED
    BY <1>1, <1>2, <1>3, <1>4 DEF Next, Firmware

LEMMA BusInvStep ==
  ASSUME IInv, Next
  PROVE  BusInv'
  <1>0. TypeOK /\ Shape /\ BusInv /\ RequestInv /\ op \in Nat
    BY BridgeAssumption DEF IInv, TypeOK
  <1>1. CASE Arrived /\ Dispatch(Arriving)
    <2> PICK r, parts : Answered(Arriving, r, parts) /\ Done(Arriving, r)
      BY <1>0, <1>1, DispatchDone
    <2>1. op' = op
      BY DEF Answered, HostRest
    <2>2. wire' = wire \/ TakesPlace(Arriving)
      BY <1>0, BusStep
    <2> QED
      BY <1>0, <2>1, <2>2, BusKept, BusTakes
  <1>2. CASE ~(Arrived /\ Dispatch(Arriving))
    BY <1>0, <1>2, OtherSteps, BusKept
  <1> QED
    BY <1>1, <1>2

LEMMA RequestLeft ==
  ASSUME Shape, RequestInv, transport' = transport, NEW e, Suffix(output, output', e),
         UNCHANGED <<ready, stageTx, stageRx, wire>>, op \in Nat,
         \/ op' = op /\ (BeforeExecute' => BeforeExecute)
         \/ op' = op + 1
  PROVE  RequestInv'
  <1>1. \A i \in Ends(output)' : i + e \in Ends(output) /\ output'[i] = output[i + e] /\ i \in Nat
    <2> SUFFICES ASSUME NEW i \in Ends(output)'
                 PROVE  i + e \in Ends(output) /\ output'[i] = output[i + e] /\ i \in Nat
      OBVIOUS
    <2>1. i \in 1..Len(output') /\ output'[i].part = Width
      BY EndsNext
    <2>2. Len(output') = Len(output) - e /\ e \in 0..Len(output) /\ output'[i] = output[i + e]
      BY <2>1 DEF Suffix
    <2>3. i + e \in 1..Len(output)
      BY <2>1, <2>2, PieceTypes
    <2> QED
      BY <2>1, <2>2, <2>3 DEF Ends
  <1>2. e \in Nat
    BY DEF Suffix
  <1> SUFFICES ASSUME NEW i \in Ends(output)'
               PROVE  /\ output'[i].msg.cmd \in Later =>
                           (\A j \in Ends(output)' : i <= j) /\ StageFits(output[i].msg)'
                      /\ output'[i].msg.cmd \in Transfers =>
                           /\ output'[i].msg.op \in 1..op' /\ Below(output[i].msg.op)'
                           /\ BeforeExecute' => output'[i].msg.op < op'
    BY DEF RequestInv, Later, Transfers
  <1> DEFINE m == output[i + e].msg
  <1>3. output'[i].msg = m /\ i + e \in Ends(output)
    BY <1>1
  <1>4. /\ m.cmd \in Later => (\A j \in Ends(output) : i + e <= j) /\ StageFits(m)
        /\ m.cmd \in Transfers => m.op \in 1..op /\ Below(m.op) /\ (BeforeExecute => m.op < op)
    BY <1>3 DEF RequestInv
  <1> HIDE DEF m
  <1>5. m.cmd \in Later => (\A j \in Ends(output)' : i <= j) /\ StageFits(output[i].msg)'
    <2> SUFFICES ASSUME m.cmd \in Later
                 PROVE  (\A j \in Ends(output)' : i <= j) /\ StageFits(output[i].msg)'
      OBVIOUS
    <2>1. ASSUME NEW j \in Ends(output)' PROVE i <= j
      <3>1. i + e <= j + e /\ j \in Nat /\ i \in Nat
        BY <1>1, <1>4
      <3> QED
        BY <1>2, <3>1
    <2>2. StageFits(output[i].msg)'
      BY <1>3, <1>4 DEF StageFits, Upto
    <2> QED
      BY <2>1, <2>2
  <1>6. m.cmd \in Transfers => /\ m.op \in 1..op' /\ Below(output[i].msg.op)'
                               /\ BeforeExecute' => m.op < op'
    <2> SUFFICES ASSUME m.cmd \in Transfers
                 PROVE  /\ m.op \in 1..op' /\ Below(output[i].msg.op)'
                        /\ BeforeExecute' => m.op < op'
      OBVIOUS
    <2>1. m.op \in 1..op /\ Below(m.op) /\ (BeforeExecute => m.op < op)
      BY <1>4
    <2>2. Below(output[i].msg.op)'
      BY <1>3, <2>1 DEF Below, TransferOf
    <2>3. m.op \in 1..op' /\ (BeforeExecute' => m.op < op')
      BY <2>1
    <2> QED
      BY <2>2, <2>3
  <1> QED
    BY <1>3, <1>5, <1>6

LEMMA RequestAnswered ==
  ASSUME TypeOK, Shape, RequestInv, NEW m, NEW r, NEW parts, Answered(m, r, parts)
  PROVE  RequestInv'
  <1>1. /\ 1 \in Ends(output) /\ output # <<>> /\ output' = Tail(output) /\ transport' = transport
        /\ output \in Seq(Pieces(ReqMsg))
    BY PieceTypes DEF Answered, HostRest
  <1>2. ASSUME NEW i \in Ends(output)' PROVE output'[i].msg.cmd \notin Later
    <2>1. i \in 1..Len(output') /\ output'[i].part = Width
      BY <1>1, EndsNext
    <2>2. i + 1 \in 1..Len(output) /\ output'[i] = output[i + 1] /\ ~(i + 1 <= 1)
      BY <1>1, <2>1
    <2>3. i + 1 \in Ends(output)
      BY <2>1, <2>2 DEF Ends
    <2> QED
      BY <1>1, <2>2, <2>3 DEF RequestInv
  <1>3. Later' = Later /\ Transfers' = Transfers /\ Transfers \subseteq Later
    BY DEF Later, Transfers
  <1> QED
    BY <1>2, <1>3 DEF RequestInv

\* A request that relies on what is staged is sent when nothing is under way.
LEMMA RequestSent ==
  ASSUME TypeOK, Shape, CallInv, RequestInv, transport' = transport, phase = "send",
         call # "none", Grown(output, output', Request),
         UNCHANGED <<ready, stageTx, stageRx, wire, op>>,
         BeforeExecute' => BeforeExecute /\ step < ExecuteStep
  PROVE  RequestInv'
  <1>1. /\ output \in Seq(Pieces(ReqMsg)) /\ Len(output) \in Nat /\ op \in Nat
        /\ call \in Calls /\ step \in 0..(Chunks + 2)
        /\ Chunks \in Nat /\ Chunks >= 1
    BY PieceTypes, BridgeAssumption DEF TypeOK, Calls
  <1>2. ASSUME NEW i \in Ends(output)'
        PROVE  \/ i \in Ends(output) /\ output'[i] = output[i] /\ i \in 1..Len(output)
               \/ output'[i].msg = Request /\ i > Len(output) /\ i = Len(output')
    <2>1. i \in 1..Len(output') /\ output'[i].part = Width
      BY EndsNext
    <2>2. CASE i <= Len(output)
      <3>1. i \in 1..Len(output) /\ output'[i] = output[i]
        BY <1>1, <2>1, <2>2 DEF Grown
      <3> QED
        BY <2>1, <3>1 DEF Ends
    <2>3. CASE ~(i <= Len(output))
      <3>1. i \in (Len(output) + 1)..Len(output')
        BY <1>1, <2>1, <2>3
      <3> QED
        BY <1>1, <2>1, <3>1 DEF Grown
    <2> QED
      BY <2>2, <2>3
  <1>3. \A i \in Ends(output)' : i \in 1..Len(output')
    BY EndsNext
  <1> SUFFICES ASSUME NEW i \in Ends(output)'
               PROVE  /\ output'[i].msg.cmd \in Later =>
                           (\A j \in Ends(output)' : i <= j) /\ StageFits(output[i].msg)'
                      /\ output'[i].msg.cmd \in Transfers =>
                           /\ output'[i].msg.op \in 1..op' /\ Below(output[i].msg.op)'
                           /\ BeforeExecute' => output'[i].msg.op < op'
    BY DEF RequestInv, Later, Transfers
  <1>4. CASE i \in Ends(output) /\ output'[i] = output[i] /\ i \in 1..Len(output)
    <2> DEFINE m == output[i].msg
    <2>1. /\ m.cmd \in Later => (\A j \in Ends(output) : i <= j) /\ StageFits(m)
          /\ m.cmd \in Transfers => m.op \in 1..op /\ Below(m.op) /\ (BeforeExecute => m.op < op)
      BY <1>4 DEF RequestInv
    <2>2. output'[i].msg = m
      BY <1>4
    <2> HIDE DEF m
    <2>3. m.cmd \in Later => \A j \in Ends(output)' : i <= j
      BY <1>1, <1>2, <1>4, <2>1
    <2>4. m.cmd \in Later => StageFits(output[i].msg)'
      BY <2>1, <2>2 DEF StageFits, Upto
    <2>5. m.cmd \in Transfers => Below(output[i].msg.op)'
      BY <2>1, <2>2 DEF Below, TransferOf
    <2> QED
      BY <2>1, <2>2, <2>3, <2>4, <2>5
  <1>5. CASE output'[i].msg = Request /\ i > Len(output) /\ i = Len(output')
    <2>1. /\ Request.cmd = Cmd /\ Request.op = op
          /\ Request.n = IF Cmd = "append" THEN step - 1 ELSE IF Cmd = "fetch" THEN Len(got) ELSE 0
      BY RequestFacts
    <2>2. CASE Cmd \notin Later
      BY <1>5, <2>1, <2>2 DEF Later, Transfers
    <2>3. CASE Cmd \in Later
      <3>1. call \in Transfers /\ step >= 2
        BY <1>1, <2>3, CmdFacts
      <3>2. NothingUnderWay /\ Prepared(step) /\ op > 0
        BY <1>1, <3>1 DEF CallInv
      <3>3. \A j \in Ends(output)' : i <= j
        BY <1>1, <1>2, <1>5, <3>2 DEF NothingUnderWay
      <3>4. StageFits(Request)
        <4>1. CASE Cmd = "append"
          <5>1. call = "write" /\ step \in 2..(Chunks + 1) /\ step \in 2..(Chunks + 2)
            BY <1>1, <4>1, CmdFacts
          <5>2. Len(stageTx) <= step - 2 /\ (ready => stageTx = Upto(op, step - 2))
            BY <3>2, <5>1 DEF Prepared
          <5>3. step - 1 \in 1..Chunks /\ (step - 1) - 1 = step - 2
            BY <1>1, <5>1
          <5> QED
            BY <2>1, <4>1, <5>2, <5>3 DEF StageFits
        <4>2. CASE Cmd = "write"
          <5>1. call = "write" /\ step = Chunks + 2 /\ step \in 2..(Chunks + 2) /\ step - 2 = Chunks
            BY <1>1, <4>2, CmdFacts
          <5>2. ready => stageTx = Upto(op, Chunks)
            BY <3>2, <5>1 DEF Prepared
          <5> QED
            BY <2>1, <4>2, <5>2 DEF StageFits
        <4>3. CASE Cmd = "read"
          BY <1>1, <2>1, <3>2, <4>3, CmdFacts DEF StageFits, Prepared
        <4>4. CASE Cmd = "fetch"
          <5>1. call = "read" /\ step >= 3
            BY <1>1, <4>4, CmdFacts
          <5> QED
            BY <2>1, <3>2, <4>4, <5>1 DEF StageFits, Prepared
        <4> QED
          BY <2>3, <4>1, <4>2, <4>3, <4>4 DEF Later
      <3>5. StageFits(output[i].msg)'
        BY <1>5, <3>4 DEF StageFits, Upto
      <3>6. Cmd \in Transfers =>
              /\ op \in 1..op /\ Below(op) /\ ~BeforeExecute'
        <4> SUFFICES ASSUME Cmd \in Transfers PROVE op \in 1..op /\ Below(op) /\ ~BeforeExecute'
          OBVIOUS
        <4>1. step = ExecuteStep
          BY <1>1, CmdFacts DEF ExecuteStep, Transfers
        <4>2. BeforeExecute
          BY <3>1, <4>1 DEF BeforeExecute
        <4>3. ~(step < ExecuteStep)
          BY <1>1, <4>1
        <4> QED
          BY <1>1, <3>2, <4>2, <4>3 DEF CallInv
      <3>7. Cmd \in Transfers => Below(output[i].msg.op)'
        BY <1>5, <2>1, <3>6 DEF Below, TransferOf
      <3> QED
        BY <1>5, <2>1, <3>3, <3>5, <3>6, <3>7
    <2> QED
      BY <2>2, <2>3
  <1> QED
    BY <1>2, <1>4, <1>5

LEMMA RequestInvStep ==
  ASSUME IInv, Next, Connect => output = <<>>
  PROVE  RequestInv'
  <1>0. /\ TypeOK /\ Shape /\ CallInv /\ RequestInv /\ op \in Nat
        /\ step \in Nat /\ Chunks \in Nat /\ ExecuteStep \in Nat
    BY BridgeAssumption DEF IInv, TypeOK, ExecuteStep
  <1>1. output \in Seq(Pieces(ReqMsg)) /\ (output' = output => Suffix(output, output', 0))
    BY <1>0, PieceTypes, SameSuffix
  \* Steps of the client that send nothing.
  <1>2. ASSUME UNCHANGED <<transport, output, ready, stageTx, stageRx, wire, op>>,
               BeforeExecute' => BeforeExecute
        PROVE  RequestInv'
    BY <1>0, <1>1, <1>2, RequestLeft
  <1>3. ASSUME call' = "none" PROVE ~BeforeExecute'
    BY <1>3 DEF BeforeExecute, Transfers
  <1>4. CASE Connect
    <2>1. Ends(output)' = {}
      BY <1>4 DEF Connect, Ends
    <2> QED
      BY <2>1 DEF RequestInv
  <1>5. CASE Disconnect
    <2>1. UNCHANGED <<transport, output, ready, stageTx, stageRx, wire, op>>
          /\ UNCHANGED <<call, step, phase>>
      BY <1>5 DEF Disconnect, client, firmware
    <2> QED
      BY <1>2, <2>1 DEF BeforeExecute, ExecuteStep, Transfers
  <1>6. ASSUME NEW c \in Transfers, Ask(c) PROVE RequestInv'
    <2>1. /\ UNCHANGED <<transport, output, ready, stageTx, stageRx, wire>> /\ op' = op + 1
      BY <1>6 DEF Ask, firmware
    <2> QED
      BY <1>0, <1>1, <2>1, RequestLeft
  <1>7. ASSUME NEW c \in {"deinit", "reset"}, Command(c) PROVE RequestInv'
    <2>1. UNCHANGED <<transport, output, ready, stageTx, stageRx, wire, op>> /\ call' = c
      BY <1>7 DEF Command, Begin, firmware
    <2> QED
      BY <1>2, <2>1 DEF BeforeExecute, Transfers
  <1>8. CASE Send
    <2>1. /\ transport' = transport /\ phase = "send" /\ call # "none"
          /\ UNCHANGED <<ready, stageTx, stageRx, wire, op, call, step>> /\ phase' = "pop"
      BY <1>8 DEF Send, InCall, firmware
    <2>2. Request \in ReqMsg /\ Len(output) <= RingSize
      BY <1>0, <2>1, RequestType DEF TypeOK
    <2>3. \E parts \in SUBSET Parts : output' = Received(Frame(Request, parts))
      BY <1>8 DEF Send
    <2>4. Grown(output, output', Request)
      BY <1>1, <2>2, <2>3, ReceivedGrown
    <2>5. BeforeExecute' => BeforeExecute /\ step < ExecuteStep
      BY <2>1 DEF BeforeExecute, ExecuteStep, Transfers
    <2> QED
      BY <1>0, <2>1, <2>4, <2>5, RequestSent
  <1>9. CASE SendThrows
    <2>1. /\ transport' = transport /\ phase = "send" /\ call # "none"
          /\ UNCHANGED <<ready, stageTx, stageRx, wire, op>> /\ call' = "none"
      BY <1>9 DEF SendThrows, End, InCall, firmware
    <2>2. Request \in ReqMsg /\ Len(output) <= RingSize
      BY <1>0, <2>1, RequestType DEF TypeOK
    <2>3. output' = output \/ output' = Received(Frame(Request, Parts))
      BY <1>9 DEF SendThrows
    <2>4. Grown(output, output', Request)
      <3>1. Parts \in SUBSET Parts
        OBVIOUS
      <3> QED
        BY <1>1, <2>2, <2>3, <3>1, ReceivedGrown, SameGrown
    <2> QED
      BY <1>0, <1>3, <2>1, <2>4, RequestSent
  <1>10. CASE StaleThrows
    <2>1. UNCHANGED <<transport, output, ready, stageTx, stageRx, wire, op>> /\ call' = "none"
      BY <1>10 DEF StaleThrows, End, firmware
    <2> QED
      BY <1>2, <1>3, <2>1
  <1>11. CASE Skip
    <2>1. UNCHANGED <<transport, output, ready, stageTx, stageRx, wire, op>>
          /\ UNCHANGED <<call, step, phase>>
      BY <1>11 DEF Skip, client, firmware
    <2> QED
      BY <1>2, <2>1 DEF BeforeExecute, ExecuteStep, Transfers
  <1>12. CASE PopNothing
    <2>1. UNCHANGED <<transport, output, ready, stageTx, stageRx, wire, op>>
          /\ (call' = "none" \/ (UNCHANGED <<call, step>> /\ phase' = "read"))
      BY <1>12 DEF PopNothing, End, firmware
    <2>2. BeforeExecute' => BeforeExecute
      BY <1>3, <2>1 DEF BeforeExecute, ExecuteStep, Transfers
    <2> QED
      BY <1>2, <2>1, <2>2
  <1>13. CASE TimeUp
    <2>1. UNCHANGED <<transport, output, ready, stageTx, stageRx, wire, op>>
          /\ (call' = "none" \/ (UNCHANGED <<call, step>> /\ phase' = "last"))
      BY <1>13 DEF TimeUp, End, firmware
    <2>2. BeforeExecute' => BeforeExecute
      BY <1>3, <2>1 DEF BeforeExecute, ExecuteStep, Transfers
    <2> QED
      BY <1>2, <2>1, <2>2
  <1>14. CASE Take
    <2>1. UNCHANGED <<transport, output, ready, stageTx, stageRx, wire, op>>
          /\ (call' = "none" \/ (call' = call /\ step' = step + 1))
      BY <1>14 DEF Take, End, firmware
    <2>2. BeforeExecute' => BeforeExecute
      <3> SUFFICES ASSUME BeforeExecute' PROVE BeforeExecute
        OBVIOUS
      <3>1. call' = call /\ step' = step + 1 /\ call \in Transfers /\ ExecuteStep' = ExecuteStep
        BY <1>3, <2>1 DEF BeforeExecute, ExecuteStep, Transfers
      <3>2. step + 1 < ExecuteStep \/ step + 1 = ExecuteStep
        BY <3>1 DEF BeforeExecute
      <3>3. step < ExecuteStep
        BY <1>0, <3>2
      <3> QED
        BY <3>1, <3>3 DEF BeforeExecute
    <2> QED
      BY <1>2, <2>1, <2>2
  <1>15. CASE Arrived /\ Dispatch(Arriving)
    BY <1>0, <1>15, DispatchDone, RequestAnswered
  <1>16. CASE ParseByte
    <2>1. /\ UNCHANGED <<transport, ready, stageTx, stageRx, wire, op>>
          /\ UNCHANGED <<call, step, phase>> /\ output # <<>> /\ output' = Tail(output)
      BY <1>16 DEF ParseByte, client, firmware
    <2>2. Suffix(output, output', 1) /\ (BeforeExecute' => BeforeExecute)
      BY <1>1, <2>1, TailSuffix DEF BeforeExecute, ExecuteStep, Transfers
    <2> QED
      BY <1>0, <2>1, <2>2, RequestLeft
  <1>17. CASE Poll
    <2>1. UNCHANGED <<transport, output, ready, stageTx, stageRx, wire, op>>
          /\ UNCHANGED <<call, step>> /\ (phase' = "send" => phase = "send")
      BY <1>17 DEF Poll, firmware
    <2> QED
      BY <1>2, <2>1 DEF BeforeExecute, ExecuteStep, Transfers
  <1>18. CASE CountdownEnds \/ PowerCycle
    <2>1. output' = <<>>
      BY <1>18 DEF CountdownEnds, PowerCycle, Restart
    <2>2. Ends(output)' = {}
      BY <2>1 DEF Ends
    <2> QED
      BY <2>2 DEF RequestInv
  <1> QED
    BY <1>4, <1>5, <1>6, <1>7, <1>8, <1>9, <1>10, <1>11, <1>12, <1>13, <1>14, <1>15, <1>16, <1>17,
       <1>18 DEF Next, User, Client, Firmware

-----------------------------------------------------------------------------
(* The call *)

LEMMA CallEnds ==
  ASSUME TypeOK, CallInv, NEW ok, End(ok)
  PROVE  CallInv'
  <1>1. call' = "none" /\ phase' = "send" /\ "none" \notin Transfers /\ Transfers' = Transfers
    BY DEF End, Transfers
  <1>2. result' # "pending"
    BY DEF End, CallInv
  <1> QED
    BY <1>1, <1>2 DEF CallInv, BeforeExecute

\* The call stays where it is.
LEMMA CallStays ==
  ASSUME CallInv, UNCHANGED <<call, step, got, op, result, wire>>,
         call = "none" => phase' = "send",
         BeforeExecute' => BeforeExecute,
         call \in Transfers /\ step >= 2 /\ phase' = "send" =>
           NothingUnderWay' /\ Prepared(step)',
         Hid' /\ phase' = "read" /\ handle' = "open" => input' = <<>>
  PROVE  CallInv'
  <1>1. Transfers' = Transfers
    BY DEF Transfers
  <1>2. Executed => Executed'
    BY DEF Executed, TransferOf
  <1>3. Below(op) => Below(op)'
    BY DEF Below, TransferOf
  <1> QED
    BY <1>1, <1>2, <1>3 DEF CallInv, Upto

LEMMA CallBegins ==
  ASSUME TypeOK, Shape, BusInv, CallInv, NEW c \in Calls \ {"none"}, NEW first \in {0, 1},
         Begin(c, first), wire' = wire, c \notin Transfers => first = 1,
         IF c \in Transfers THEN op' = op + 1 /\ result' = "pending"
                            ELSE op' = op /\ result' = result
  PROVE  CallInv'
  <1>1. /\ call = "none" /\ call' = c /\ c # "none" /\ step' = first /\ phase' = "send" /\ op \in Nat
        /\ Transfers' = Transfers /\ "none" \notin Transfers
        /\ c \in Transfers => got' = <<>>
    BY BridgeAssumption DEF Begin, TypeOK, Transfers
  <1>2. call' \in Transfers <=> result' = "pending"
    BY <1>1 DEF CallInv
  <1>3. BeforeExecute' => Below(op)'
    <2> SUFFICES ASSUME BeforeExecute' PROVE Below(op)'
      OBVIOUS
    <2>1. op' = op + 1
      BY <1>1 DEF BeforeExecute, Transfers
    <2>2. \A i \in 1..Len(wire) : TransferOf(wire[i]) < op'
      BY <1>1, <2>1 DEF BusInv
    <2> QED
      BY <2>2 DEF Below, TransferOf
  <1>4. c = "read" => got' = Upto(op', IF step' > 3 THEN step' - 3 ELSE 0)
    <2> SUFFICES ASSUME c = "read" PROVE got' = Upto(op', 0)
      BY <1>1
    <2>1. op' \in Nat
      BY <1>1 DEF Transfers
    <2> QED
      BY <1>1, <2>1, UptoFacts DEF Transfers
  <1>5. c \in Transfers => op' > 0 /\ got' = <<>>
    BY <1>1
  <1>6. step' < 2 /\ step' < 3
    BY <1>1
  <1> QED
    BY <1>1, <1>2, <1>3, <1>4, <1>5, <1>6 DEF CallInv, Upto, Transfers

\* A transfer has gone on to its next request.
LEMMA CallTakes ==
  ASSUME TypeOK, Shape, CallInv, Pipe, Take, call' # "none"
  PROVE  CallInv'
  <1> DEFINE s == Sync(input)
             r == s[1].msg
  <1>1. /\ phase # "send" /\ handle = "open" /\ Whole(s) /\ Fits(r) /\ ~Refused(r)
        /\ input' = SubSeq(s, Width + 1, Len(s)) /\ got' = got \o r.data
        /\ step # Steps /\ step' = step + 1 /\ phase' = "send"
        /\ UNCHANGED <<call, result, transport, op, output, reply, wire>>
        /\ UNCHANGED <<ready, stageTx, stageRx>>
    BY DEF Take, InCall, End, firmware
  <1>2. /\ call \in Calls /\ step \in 0..(Chunks + 2) /\ Chunks \in Nat /\ Chunks >= 1 /\ op \in Nat
        /\ call # "none"
    BY <1>1, BridgeAssumption DEF TypeOK, Calls
  <1>3. call \in Transfers
    BY <1>1, <1>2 DEF CallInv, Steps
  <1> PICK k \in {0, 1} : PipeInv(k)
    BY <1>1 DEF Pipe
  <1>4. \E d \in 1..Len(input) :
           /\ Suffix(input, input', d)
           /\ r \in RespMsg /\ (r.cmd # "fetch" => r.data = <<>>)
           /\ \/ k = 1
              \/ /\ \A i \in Ends(input) : i <= d
                 /\ reply = NoReply /\ Ends(output) = {}
                 /\ Right(r)
    BY <1>1, Taken
  <1> PICK d \in 1..Len(input) :
           /\ Suffix(input, input', d)
           /\ r \in RespMsg /\ (r.cmd # "fetch" => r.data = <<>>)
           /\ \/ k = 1
              \/ /\ \A i \in Ends(input) : i <= d
                 /\ reply = NoReply /\ Ends(output) = {}
                 /\ Right(r)
    BY <1>4
  <1> HIDE DEF s, r
  <1>5. step > 0 =>
          /\ \A i \in Ends(input) : i <= d
          /\ reply = NoReply /\ Ends(output) = {}
          /\ Prepared(step + 1) /\ (r.cmd = "fetch" => r.data = <<<<op, Len(got) + 1>>>>)
    BY <1>1, <1>2, <1>3 DEF PipeInv, Right
  <1>6. r.cmd = Cmd
    BY <1>1 DEF Fits
  <1>7. Transfers' = Transfers /\ NoReply' = NoReply
    BY DEF Transfers, NoReply
  <1>8. BeforeExecute' => Below(op)'
    <2> SUFFICES ASSUME BeforeExecute' PROVE Below(op)'
      OBVIOUS
    <2>1. ExecuteStep' = ExecuteStep /\ ExecuteStep \in Nat /\ step + 1 <= ExecuteStep
      BY <1>1, <1>2 DEF BeforeExecute, ExecuteStep
    <2>2. BeforeExecute
      BY <1>2, <1>3, <2>1 DEF BeforeExecute
    <2> QED
      BY <1>1, <2>2 DEF CallInv, Below, TransferOf
  <1>9. call = "write" => got' = <<>>
    <2> SUFFICES ASSUME call = "write" PROVE got' = <<>>
      OBVIOUS
    <2>1. Cmd # "fetch"
      BY <1>2, CmdFacts
    <2>2. got = <<>> /\ r.data = <<>>
      BY <1>6, <2>1 DEF CallInv
    <2> QED
      BY <1>1, <2>2
  <1>10. call = "read" => got' = Upto(op, IF step + 1 > 3 THEN step + 1 - 3 ELSE 0)
    <2> SUFFICES ASSUME call = "read"
                 PROVE  got' = Upto(op, IF step + 1 > 3 THEN step + 1 - 3 ELSE 0)
      OBVIOUS
    <2>1. got = Upto(op, IF step > 3 THEN step - 3 ELSE 0) /\ got \in Seq(Nat \X Nat)
      BY DEF CallInv, Shape
    <2>2. CASE step < 3
      <3>1. Cmd # "fetch"
        BY <1>2, <2>2, CmdFacts
      <3>2. r.data = <<>> /\ got \o <<>> = got
        BY <1>6, <2>1, <3>1
      <3>3. (IF step + 1 > 3 THEN step + 1 - 3 ELSE 0) = 0 /\ (IF step > 3 THEN step - 3 ELSE 0) = 0
        BY <1>2, <2>2
      <3> QED
        BY <1>1, <2>1, <3>2, <3>3
    <2>3. CASE step >= 3
      <3>1. Cmd = "fetch"
        BY <1>2, <2>3, CmdFacts
      <3> PICK n \in Nat : n = step - 3
        BY <1>2, <2>3
      <3>2. /\ (IF step + 1 > 3 THEN step + 1 - 3 ELSE 0) = n + 1
            /\ (IF step > 3 THEN step - 3 ELSE 0) = n
        BY <1>2, <2>3
      <3>3. got = Upto(op, n) /\ Len(got) = n
        BY <1>2, <2>1, <3>2, UptoFacts
      <3>4. r.data = <<<<op, n + 1>>>>
        BY <1>2, <1>5, <1>6, <2>3, <3>1, <3>3
      <3>5. got \o <<<<op, n + 1>>>> = Append(got, <<op, n + 1>>)
        <4>1. <<op, n + 1>> \in Nat \X Nat
          BY <1>2
        <4> QED
          BY <2>1, <4>1
      <3>6. Append(Upto(op, n), <<op, n + 1>>) = Upto(op, n + 1)
        BY <1>2, UptoFacts
      <3>7. got' = Upto(op, n + 1)
        BY <1>1, <3>3, <3>4, <3>5, <3>6
      <3> QED
        BY <3>2, <3>7
    <2> QED
      BY <1>2, <2>2, <2>3
  <1>11. step + 1 >= 2 => Prepared(step + 1)
    BY <1>2, <1>5
  <1>12. call = "read" /\ step + 1 >= 3 => Executed'
    <2> SUFFICES ASSUME call = "read", step + 1 >= 3 PROVE Executed'
      OBVIOUS
    <2>1. Executed
      BY <1>2, <1>11 DEF Prepared
    <2> QED
      BY <1>1, <2>1 DEF Executed, TransferOf
  <1>13. step + 1 >= 2 => NothingUnderWay' /\ Prepared(step)'
    <2> SUFFICES ASSUME step + 1 >= 2 PROVE NothingUnderWay' /\ Prepared(step)'
      OBVIOUS
    <2>1. \A i \in Ends(input) : i <= d
      BY <1>2, <1>5
    <2>2. Ends(input)' = {}
      <3> SUFFICES ASSUME NEW i \in Ends(input)' PROVE FALSE
        OBVIOUS
      <3>1. Suffix(output, output', 0)
        BY <1>1, PieceTypes, SameSuffix
      <3>2. i + d \in Ends(input) /\ i \in 1..Len(input')
        BY <1>1, <3>1, SuffixOurs, EndsNext
      <3> QED
        BY <2>1, <3>2
    <2>3. Ends(output)' = {} /\ reply' = NoReply
      BY <1>1, <1>2, <1>5 DEF Ends, Width, Hid
    <2>4. Prepared(step)'
      BY <1>1, <1>2, <1>11 DEF Prepared, Executed, Upto, TransferOf
    <2> QED
      BY <1>7, <2>2, <2>3, <2>4 DEF NothingUnderWay
  <1>14. /\ call' = "none" => phase' = "send"
         /\ call' \in Transfers <=> result' = "pending"
         /\ call' \in Transfers => op' > 0
         /\ call' \notin Transfers \cup {"none"} => step' = 1
         /\ call' = "write" => got' = <<>>
         /\ Hid' /\ phase' = "read" /\ handle' = "open" => input' = <<>>
    BY <1>1, <1>3, <1>9 DEF CallInv
  <1>15. call' = "read" => got' = Upto(op', IF step' > 3 THEN step' - 3 ELSE 0)
    <2> DEFINE n == IF step + 1 > 3 THEN step + 1 - 3 ELSE 0
    <2>1. (IF step' > 3 THEN step' - 3 ELSE 0) = n
      <3> PICK x : x = step'
        OBVIOUS
      <3>1. x = step + 1 /\ step \in Nat
        BY <1>1, <1>2
      <3>2. (IF x > 3 THEN x - 3 ELSE 0) = n
        BY <3>1
      <3> QED
        BY <3>2
    <2>2. call = "read" => got' = Upto(op, n)
      BY <1>10
    <2> HIDE DEF n
    <2> QED
      BY <1>1, <2>1, <2>2
  <1>16. call' = "read" /\ step' >= 3 => Executed'
    BY <1>1, <1>12
  <1>17. call' \in Transfers /\ step' >= 2 /\ phase' = "send" => NothingUnderWay' /\ Prepared(step)'
    BY <1>1, <1>13
  <1> QED
    BY <1>7, <1>8, <1>14, <1>15, <1>16, <1>17 DEF CallInv, Upto

\* A transfer that has taken place does not again, and one that is about to
\* comes after all that have.
LEMMA CallAnswered ==
  ASSUME TypeOK, Shape, BusInv, CallInv, RequestInv, NEW m, NEW r, NEW parts,
         Answered(m, r, parts), Done(m, r)
  PROVE  CallInv'
  <1>1. /\ 1 \in Ends(output) /\ Leaves(r, parts)
        /\ UNCHANGED <<transport, handle, call, step, got, op, result>> /\ op \in Nat
    BY BridgeAssumption DEF Answered, HostRest, TypeOK
  <1>2. /\ phase' = phase \/ (phase = "read" /\ phase' = "pop")
        /\ Hid => phase' = phase /\ input' = input
    BY <1>1 DEF Leaves
  <1>3. wire' = wire \/ TakesPlace(m)
    BY BusStep
  <1>4. Transfers' = Transfers /\ Hid' = Hid
    BY <1>1 DEF Transfers, Hid
  <1>5. BeforeExecute' => BeforeExecute
    BY <1>1, <1>2 DEF BeforeExecute, ExecuteStep, Transfers
  <1>6. BeforeExecute' => Below(op)'
    <2> SUFFICES ASSUME BeforeExecute' PROVE Below(op)'
      OBVIOUS
    <2>1. BeforeExecute /\ Below(op)
      BY <1>5 DEF CallInv
    <2>2. CASE wire' = wire
      BY <1>1, <2>1, <2>2 DEF Below, TransferOf
    <2>3. CASE TakesPlace(m)
      <3>1. m.op < op /\ m.op \in Nat /\ wire' = Append(wire, Upto(m.op, Chunks))
        BY <2>1, <2>3 DEF TakesPlace
      <3>2. /\ Len(wire') = Len(wire) + 1 /\ Len(wire) \in Nat
            /\ \A i \in 1..Len(wire) : TransferOf(wire'[i]) = TransferOf(wire[i])
            /\ TransferOf(wire'[Len(wire')]) = m.op
        BY <3>1, BusAppend
      <3>3. ASSUME NEW i \in 1..Len(wire') PROVE TransferOf(wire'[i]) < op
        <4>1. i \in 1..Len(wire) \/ i = Len(wire')
          BY <3>2
        <4> QED
          BY <2>1, <3>1, <3>2, <4>1 DEF Below
      <3> QED
        BY <1>1, <3>3 DEF Below, TransferOf
    <2> QED
      BY <1>3, <2>2, <2>3
  <1>7. Executed => wire' = wire
    <2> SUFFICES ASSUME Executed, TakesPlace(m) PROVE FALSE
      BY <1>3
    <2>1. wire # <<>> /\ Len(wire) \in 1..Len(wire)
      BY DEF Executed, Shape
    <2>2. op < m.op /\ m.op <= op /\ m.op \in Nat
      BY <2>1 DEF TakesPlace, Below, Executed
    <2> QED
      BY <1>1, <2>2
  <1>8. call' = "read" /\ step' >= 3 => Executed'
    <2> SUFFICES ASSUME call = "read", step >= 3 PROVE Executed'
      BY <1>1
    <2>1. Executed
      BY DEF CallInv
    <2> QED
      BY <1>1, <1>7, <2>1 DEF Executed, TransferOf
  <1>9. ~(call \in Transfers /\ step >= 2 /\ phase' = "send")
    BY <1>1, <1>2 DEF CallInv, NothingUnderWay
  <1> QED
    BY <1>1, <1>2, <1>4, <1>6, <1>8, <1>9 DEF CallInv, Upto

LEMMA CallInvStep ==
  ASSUME IInv, Next
  PROVE  CallInv'
  <1>0. TypeOK /\ Shape /\ BusInv /\ CallInv /\ RequestInv /\ Pipe
    BY DEF IInv
  <1>1. CASE Connect
    <2>1. Begin("info", 1) /\ UNCHANGED <<wire, op, result>>
      BY <1>1 DEF Connect
    <2> QED
      BY <1>0, <2>1, CallBegins DEF Calls, Transfers
  <1>2. CASE Disconnect
    <2>1. /\ UNCHANGED <<call, step, phase, got, op, result, wire>> /\ call = "none" /\ phase = "send"
      BY <1>0, <1>2 DEF Disconnect, client, CallInv
    <2>2. "none" \notin Transfers /\ Transfers' = Transfers
      BY DEF Transfers
    <2> QED
      BY <1>0, <2>1, <2>2, CallStays DEF BeforeExecute
  <1>3. ASSUME NEW c \in Transfers, Ask(c) PROVE CallInv'
    <2>1. \E first \in {0, 1} : Begin(c, first)
      BY <1>3 DEF Ask
    <2>2. wire' = wire /\ op' = op + 1 /\ result' = "pending" /\ c \in Calls \ {"none"}
      BY <1>3 DEF Ask, Calls, Transfers
    <2> QED
      BY <1>0, <2>1, <2>2, CallBegins
  <1>4. ASSUME NEW c \in {"deinit", "reset"}, Command(c) PROVE CallInv'
    <2>1. Begin(c, 1) /\ UNCHANGED <<wire, op, result>> /\ c \in Calls \ {"none"} /\ c \notin Transfers
      BY <1>4 DEF Command, Calls, Transfers
    <2> QED
      BY <1>0, <2>1, CallBegins
  <1>5. CASE Send
    <2>1. /\ UNCHANGED <<call, step, got, op, result, wire>> /\ call # "none"
          /\ phase = "send" /\ phase' = "pop"
      BY <1>5 DEF Send, InCall
    <2> QED
      BY <1>0, <2>1, CallStays DEF BeforeExecute, ExecuteStep, Transfers
  <1>6. CASE SendThrows
    BY <1>0, <1>6, CallEnds DEF SendThrows
  <1>7. CASE StaleThrows
    BY <1>0, <1>7, CallEnds DEF StaleThrows
  <1>8. CASE Skip
    <2>1. /\ UNCHANGED <<call, step, phase, got, op, result, wire>> /\ call # "none"
          /\ phase \in {"pop", "last"}
      BY <1>8 DEF Skip, InCall, client
    <2> QED
      BY <1>0, <2>1, CallStays DEF BeforeExecute, ExecuteStep, Transfers
  <1>9. CASE PopNothing
    <2>1. CASE \E ok : End(ok)
      BY <1>0, <2>1, CallEnds
    <2>2. CASE phase' = "read" /\ UNCHANGED <<handle, call, result>>
      <3>1. /\ UNCHANGED <<call, step, got, op, result, wire>> /\ call # "none" /\ phase' = "read"
            /\ transport' = transport
        BY <1>9, <2>2 DEF PopNothing, InCall, End
      <3>2. Hid => input' = <<>>
        BY <1>0, <1>9, PoppedNothing DEF PopNothing
      <3> QED
        BY <1>0, <3>1, <3>2, CallStays DEF BeforeExecute, ExecuteStep, Transfers, Hid
    <2> QED
      BY <1>9, <2>1, <2>2 DEF PopNothing
  <1>10. CASE TimeUp
    <2>1. CASE Hid
      BY <1>0, <1>10, <2>1, CallEnds DEF TimeUp
    <2>2. CASE ~Hid
      <3>1. /\ UNCHANGED <<call, step, got, op, result, wire>> /\ call # "none" /\ phase' = "last"
        BY <1>10, <2>2 DEF TimeUp, InCall
      <3> QED
        BY <1>0, <3>1, CallStays DEF BeforeExecute, ExecuteStep, Transfers
    <2> QED
      BY <2>1, <2>2
  <1>11. CASE Take
    <2>1. CASE \E ok : End(ok)
      BY <1>0, <2>1, CallEnds
    <2>2. CASE ~(\E ok : End(ok))
      <3>1. call' # "none"
        BY <1>11, <2>2 DEF Take, InCall
      <3> QED
        BY <1>0, <1>11, <3>1, CallTakes
    <2> QED
      BY <2>1, <2>2
  <1>12. CASE Arrived /\ Dispatch(Arriving)
    BY <1>0, <1>12, DispatchDone, CallAnswered
  <1>13. CASE ParseByte
    <2>1. /\ UNCHANGED <<call, step, phase, got, op, result, wire>>
          /\ UNCHANGED <<transport, handle, input, reply, ready, stageTx, stageRx>>
          /\ output # <<>> /\ output' = Tail(output)
      BY <1>13 DEF ParseByte, client, firmware
    <2>2. NothingUnderWay => NothingUnderWay'
      <3> SUFFICES ASSUME NothingUnderWay PROVE NothingUnderWay'
        OBVIOUS
      <3>1. Suffix(input, input', 0) /\ Suffix(output, output', 1)
        BY <1>0, <2>1, PieceTypes, SameSuffix, TailSuffix
      <3>2. \A i \in Ends(output)' : i + 1 \in Ends(output)
        BY <1>0, <2>1, <3>1, SuffixOurs
      <3>3. Ends(input)' = Ends(input) /\ NoReply' = NoReply
        BY <2>1 DEF Ends, Width, Hid, NoReply
      <3> QED
        BY <2>1, <3>2, <3>3 DEF NothingUnderWay
    <2>3. \A n : Prepared(n) => Prepared(n)'
      BY <2>1 DEF Prepared, Executed, Upto, TransferOf
    <2>4. Prepared(step) => Prepared(step)'
      BY <2>1 DEF Prepared, Executed, Upto, TransferOf
    <2>5. Hid' = Hid /\ (BeforeExecute' => BeforeExecute)
      BY <2>1 DEF Hid, BeforeExecute, ExecuteStep, Transfers
    <2>6. /\ call = "none" => phase = "send"
          /\ call \in Transfers /\ step >= 2 /\ phase = "send" => NothingUnderWay /\ Prepared(step)
          /\ Hid /\ phase = "read" /\ handle = "open" => input = <<>>
      BY <1>0 DEF CallInv
    <2> QED
      BY <1>0, <2>1, <2>2, <2>4, <2>5, <2>6, CallStays
  <1>14. CASE Poll
    <2>1. /\ UNCHANGED <<call, step, got, op, result, wire>> /\ reply # NoReply
          /\ phase' = IF phase = "read" THEN "pop" ELSE phase
      BY <1>14 DEF Poll
    <2>2. /\ call = "none" => phase' = "send"
          /\ BeforeExecute' => BeforeExecute
          /\ ~(call \in Transfers /\ step >= 2 /\ phase' = "send")
          /\ phase' # "read"
      BY <1>0, <2>1 DEF CallInv, NothingUnderWay, BeforeExecute, ExecuteStep, Transfers
    <2> QED
      BY <1>0, <2>1, <2>2, CallStays
  <1>15. CASE CountdownEnds \/ PowerCycle
    <2>1. /\ Restart /\ UNCHANGED <<transport, call, step, phase, got, input, op, result, wire>>
          /\ output' = <<>> /\ reply' = NoReply
          /\ Hid /\ handle = "open" => handle' = "stale"
          /\ ~(Hid /\ handle = "open") => handle' = handle
      BY <1>15 DEF CountdownEnds, PowerCycle, Restart, client
    <2>2. NothingUnderWay => NothingUnderWay'
      BY <2>1 DEF NothingUnderWay, Ends, Width, Hid, NoReply
    <2>3. step \in Nat
      BY <1>0 DEF TypeOK
    <2>4. Prepared(step) => Prepared(step)'
      <3> SUFFICES ASSUME Prepared(step) PROVE Prepared(step)'
        OBVIOUS
      <3> PICK n \in Nat : n = step
        BY <2>3
      <3>1. Prepared(n)'
        BY <1>0, <2>1, PreparedRestart
      <3> QED
        BY <2>1, <3>1 DEF Prepared
    <2>5. /\ call = "none" => phase = "send"
          /\ call \in Transfers /\ step >= 2 /\ phase = "send" => NothingUnderWay /\ Prepared(step)
          /\ BeforeExecute' => BeforeExecute
          /\ ~(Hid' /\ handle' = "open")
      BY <1>0, <2>1 DEF CallInv, BeforeExecute, ExecuteStep, Transfers, Hid
    <2> QED
      BY <1>0, <2>1, <2>2, <2>4, <2>5, CallStays
  <1> QED
    BY <1>1, <1>2, <1>3, <1>4, <1>5, <1>6, <1>7, <1>8, <1>9, <1>10, <1>11, <1>12, <1>13, <1>14,
       <1>15 DEF Next, User, Client, Firmware

-----------------------------------------------------------------------------
(* Types *)

Results == {"none", "pending", "written", "fetched", "failed"}

\* The choices of the host and of the user, and the counters.
SmallTypes ==
  /\ transport \in {"hid", "vcom"} /\ handle \in {"closed", "open", "stale"}
  /\ enabled \in BOOLEAN /\ clean \in BOOLEAN /\ ready \in BOOLEAN /\ resetting \in BOOLEAN
  /\ call \in Calls /\ phase \in {"send", "pop", "read", "last"} /\ result \in Results
  /\ seq \in SeqNumbers /\ op \in 0..MaxOps
  /\ faults \in 0..MaxFaults /\ connects \in 0..MaxConnects /\ lost \in Nat

LEMMA OneMore ==
  ASSUME NEW n \in Nat, NEW x \in 0..n, x < n
  PROVE  x + 1 \in 0..n
  OBVIOUS

\* What goes wrong, and what is counted of it.
LEMMA BudgetTypes ==
  ASSUME faults \in 0..MaxFaults, lost \in Nat, clean \in BOOLEAN,
         NoFault \/ Fault \/ (\E ok : Count(ok)) \/ (Fault /\ clean' = FALSE)
           \/ (lost' = 0 /\ clean' = FALSE /\ UNCHANGED faults)
           \/ (clean' \in BOOLEAN /\ UNCHANGED <<faults, lost>>)
  PROVE  faults' \in 0..MaxFaults /\ lost' \in Nat /\ clean' \in BOOLEAN
  <1>1. ASSUME NEW ok, Count(ok) PROVE faults' = faults /\ lost' \in Nat /\ clean' = clean
    BY <1>1 DEF Count
  <1>2. CASE NoFault \/ (clean' \in BOOLEAN /\ UNCHANGED <<faults, lost>>)
    BY <1>2 DEF NoFault, budget
  <1>3. CASE Fault \/ (Fault /\ clean' = FALSE)
    <2>1. /\ faults < MaxFaults /\ faults' = faults + 1 /\ clean' = FALSE /\ lost' = 0
          /\ MaxFaults \in Nat
      BY <1>3, BridgeAssumption DEF Fault
    <2>2. faults' \in 0..MaxFaults
      BY <2>1, OneMore
    <2> QED
      BY <2>1, <2>2
  <1>4. CASE lost' = 0 /\ clean' = FALSE /\ UNCHANGED faults
    BY <1>4
  <1> QED
    BY <1>1, <1>2, <1>3, <1>4

LEMMA EndTypes ==
  ASSUME SmallTypes, NEW ok, End(ok)
  PROVE  /\ call' = "none" /\ phase' = "send" /\ result' \in Results
         /\ handle' \in {"closed", "open", "stale"} /\ enabled' \in BOOLEAN
  BY DEF SmallTypes, End, Results

LEMMA DispatchTypes ==
  ASSUME SmallTypes, NEW m, Dispatch(m)
  PROVE  SmallTypes'
  <1>1. /\ HostRest /\ ready' \in BOOLEAN /\ resetting' \in BOOLEAN
        /\ \E r, parts : Leaves(r, parts)
        /\ NoFault \/ Fault
    <2>1. CASE HandleInfo(m) \/ HandleReset(m) \/ HandleFetch(m)
      BY <2>1 DEF HandleInfo, HandleReset, HandleFetch, Respond, SmallTypes, firmware
    <2>2. CASE HandleAppend(m) \/ (\E c \in Transfers : NotReady(m, c))
      BY <2>2 DEF HandleAppend, NotReady, Respond, SmallTypes, firmware
    <2>3. CASE HandleWrite(m) \/ HandleRead(m)
      BY <2>3 DEF HandleWrite, HandleRead, Respond, Fails, SmallTypes
    <2>4. ASSUME NEW c, HandleClear(m, c)
          PROVE  /\ HostRest /\ ready' \in BOOLEAN /\ resetting' \in BOOLEAN
                 /\ \E r, parts : Leaves(r, parts)
                 /\ NoFault \/ Fault
      BY <2>4 DEF HandleClear, Respond, SmallTypes
    <2> QED
      BY <2>1, <2>2, <2>3, <2>4 DEF Dispatch
  <1>2. phase' \in {"send", "pop", "read", "last"}
    BY <1>1 DEF Leaves, SmallTypes
  <1>3. faults' \in 0..MaxFaults /\ lost' \in Nat /\ clean' \in BOOLEAN
    BY <1>1, BudgetTypes DEF SmallTypes
  <1> QED
    BY <1>1, <1>2, <1>3 DEF SmallTypes, HostRest, Results, Calls, Transfers, SeqNumbers

LEMMA SmallStep ==
  ASSUME SmallTypes, Next
  PROVE  SmallTypes'
  <1> USE DEF SmallTypes, Results, Calls, Transfers, SeqNumbers
  <1>0. SeqMod \in Nat \ {0} /\ (seq + 1) % SeqMod \in SeqNumbers /\ MaxOps \in Nat /\ MaxConnects \in Nat
    BY BridgeAssumption
  <1>1. CASE Connect
    <2>1. /\ UNCHANGED <<transport, ready, resetting, clean, op, result, faults, lost>>
          /\ call' = "info" /\ phase' = "send" /\ handle' = "open" /\ seq' = 1 /\ enabled' = FALSE
          /\ connects < MaxConnects /\ connects' = connects + 1
      BY <1>1 DEF Connect, Begin, firmware, budget
    <2>2. 1 \in SeqNumbers
      BY BridgeAssumption
    <2>3. connects' \in 0..MaxConnects
      BY <1>0, <2>1, OneMore
    <2> QED
      BY <2>1, <2>2, <2>3
  <1>2. CASE Disconnect
    BY <1>2 DEF Disconnect, client, firmware, budget
  <1>3. ASSUME NEW c \in Transfers, Ask(c) PROVE SmallTypes'
    BY <1>0, <1>3 DEF Ask, Begin, firmware
  <1>4. ASSUME NEW c \in {"deinit", "reset"}, Command(c) PROVE SmallTypes'
    BY <1>4 DEF Command, Begin, firmware, budget
  <1>5. CASE Send
    <2>1. faults' \in 0..MaxFaults /\ lost' \in Nat /\ clean' \in BOOLEAN
      BY <1>5, BudgetTypes DEF Send
    <2> QED
      BY <1>0, <1>5, <2>1 DEF Send, firmware
  <1>6. CASE SendThrows
    <2>1. faults' \in 0..MaxFaults /\ lost' \in Nat /\ clean' \in BOOLEAN
      BY <1>6, BudgetTypes DEF SendThrows
    <2> QED
      BY <1>0, <1>6, <2>1, EndTypes DEF SendThrows, firmware
  <1>7. CASE StaleThrows
    <2>1. faults' \in 0..MaxFaults /\ lost' \in Nat /\ clean' \in BOOLEAN
      BY <1>7, BudgetTypes DEF StaleThrows
    <2> QED
      BY <1>7, <2>1, EndTypes DEF StaleThrows, firmware
  <1>8. CASE Skip
    BY <1>8 DEF Skip, client, firmware, budget
  <1>9. CASE PopNothing
    <2>1. faults' \in 0..MaxFaults /\ lost' \in Nat /\ clean' \in BOOLEAN
      BY <1>9, BudgetTypes DEF PopNothing
    <2>2. /\ phase' \in {"send", "read"} /\ result' \in Results /\ call' \in {call, "none"}
          /\ handle' \in {"closed", "open", "stale"} /\ enabled' \in BOOLEAN
      BY <1>9, EndTypes DEF PopNothing
    <2> QED
      BY <1>9, <2>1, <2>2 DEF PopNothing, firmware
  <1>10. CASE TimeUp
    <2>1. faults' \in 0..MaxFaults /\ lost' \in Nat /\ clean' \in BOOLEAN
      BY <1>10, BudgetTypes DEF TimeUp
    <2>2. /\ phase' \in {"send", "last"} /\ result' \in Results /\ call' \in {call, "none"}
          /\ handle' \in {"closed", "open", "stale"} /\ enabled' \in BOOLEAN
      BY <1>10, EndTypes DEF TimeUp
    <2> QED
      BY <1>10, <2>1, <2>2 DEF TimeUp, firmware
  <1>11. CASE Take
    <2>1. faults' \in 0..MaxFaults /\ lost' \in Nat /\ clean' \in BOOLEAN
      BY <1>11, BudgetTypes DEF Take
    <2>2. /\ phase' = "send" /\ result' \in Results /\ call' \in {call, "none"}
          /\ handle' \in {"closed", "open", "stale"} /\ enabled' \in BOOLEAN
      <3>1. CASE \E ok : End(ok)
        BY <3>1, EndTypes
      <3>2. CASE phase' = "send" /\ UNCHANGED <<handle, call, result>>
                 /\ \E r : enabled' = (enabled \/ r.cmd = "init")
        BY <3>2
      <3> QED
        BY <1>11, <3>1, <3>2 DEF Take
    <2> QED
      BY <1>11, <2>1, <2>2 DEF Take, firmware
  <1>12. CASE Arrived /\ Dispatch(Arriving)
    BY <1>12, DispatchTypes
  <1>13. CASE ParseByte
    BY <1>13 DEF ParseByte, client, firmware, budget
  <1>14. CASE Poll
    BY <1>14 DEF Poll, firmware, budget
  <1>15. CASE CountdownEnds \/ PowerCycle
    <2>1. faults' \in 0..MaxFaults /\ lost' \in Nat /\ clean' \in BOOLEAN
      BY <1>15, BudgetTypes DEF CountdownEnds, PowerCycle
    <2>2. /\ UNCHANGED <<transport, enabled, call, phase, seq, op, result, connects>>
          /\ ready' = FALSE /\ resetting' = FALSE /\ handle' \in {"stale", handle}
      BY <1>15 DEF CountdownEnds, PowerCycle, Restart, client
    <2> QED
      BY <2>1, <2>2
  <1> QED
    BY <1>1, <1>2, <1>3, <1>4, <1>5, <1>6, <1>7, <1>8, <1>9, <1>10, <1>11, <1>12, <1>13, <1>14,
       <1>15 DEF Next, User, Client, Firmware

\* Requests: what the firmware's ring holds, and its frame parser.
LEMMA OutputStep ==
  ASSUME TypeOK, Shape, Next
  PROVE  /\ output' \in Seq(Pieces(ReqMsg)) /\ Len(output') <= RingSize
         /\ held' \in {NoPiece} \cup [part : {1}, msg : ReqMsg] /\ (Hid => held' = NoPiece)
  <1>1. /\ output \in Seq(Pieces(ReqMsg)) /\ Len(output) <= RingSize /\ RingSize \in Nat
        /\ held \in {NoPiece} \cup [part : {1}, msg : ReqMsg] /\ (Hid => held = NoPiece)
    BY PieceTypes, BridgeAssumption DEF TypeOK, Shape
  <1>2. CASE output' = output /\ held' = held
    BY <1>1, <1>2
  <1>3. CASE output' = <<>> /\ held' = NoPiece
    BY <1>1, <1>3
  <1>4. CASE Send \/ SendThrows
    <2>1. call # "none" /\ held' = held
      BY <1>4 DEF Send, SendThrows, InCall
    <2>2. Request \in ReqMsg
      BY <2>1, RequestType
    <2>3. output' = output \/ \E parts \in SUBSET Parts : output' = Received(Frame(Request, parts))
      BY <1>4 DEF Send, SendThrows
    <2> QED
      BY <1>1, <2>1, <2>2, <2>3, ReceivedGrown
  <1>5. ASSUME output # <<>>, output' = Tail(output)
        PROVE  output' \in Seq(Pieces(ReqMsg)) /\ Len(output') <= RingSize
    BY <1>1, <1>5
  <1>6. CASE Arrived /\ Dispatch(Arriving)
    <2>1. output # <<>> /\ output' = Tail(output) /\ held' = NoPiece
      BY <1>6, DispatchDone DEF Answered
    <2> QED
      BY <1>5, <2>1
  <1>7. CASE ParseByte
    <2>1. output # <<>> /\ output' = Tail(output)
      BY <1>7 DEF ParseByte
    <2>2. CASE Hid
      BY <1>7, <2>1, <2>2 DEF ParseByte, Arrived
    <2>3. CASE ~Hid
      <3>1. output[1] \in [part : Parts, msg : ReqMsg] /\ Head(output) = output[1]
        BY <1>1, <2>1, PieceTypes DEF Pieces
      <3>2. output[1].part = 1 => output[1] \in [part : {1}, msg : ReqMsg]
        BY <3>1
      <3> QED
        BY <1>5, <1>7, <2>1, <2>3, <3>1, <3>2 DEF ParseByte
    <2> QED
      BY <1>5, <2>1, <2>2, <2>3
  <1> QED
    BY <1>2, <1>3, <1>4, <1>6, <1>7
    DEF Next, User, Client, Firmware, Connect, Disconnect, Ask, Command, StaleThrows, Skip,
        PopNothing, TimeUp, Take, Poll, CountdownEnds, PowerCycle, Restart

\* Only answers in Q are in s.
From(s, Q) == \A i \in 1..Len(s) : s[i].msg \in Q

\* Answers: what the host has received, and what the device's endpoint holds.
LEMMA AnswersFrom ==
  ASSUME TypeOK, Shape, Next, NEW Q \in SUBSET RespMsg,
         From(input, Q), reply # NoReply => reply \in Q,
         \A r, parts : Arrived /\ Answered(Arriving, r, parts) /\ Done(Arriving, r) => r \in Q
  PROVE  /\ input' \in Seq(Pieces(RespMsg)) /\ From(input', Q)
         /\ reply' \in {NoReply} \cup Q /\ (~Hid => reply' = NoReply)
  <1>1. /\ input \in Seq(Pieces(RespMsg)) /\ From(input, Q)
        /\ reply \in {NoReply} \cup Q /\ (~Hid => reply = NoReply)
    BY PieceTypes DEF Shape
  <1>2. ASSUME NEW d, input' \in Seq(Pieces(RespMsg)), Suffix(input, input', d)
        PROVE  From(input', Q)
    <2>1. d \in 0..Len(input) /\ Len(input) \in Nat /\ Len(input') \in Nat
      BY <1>1, <1>2 DEF Suffix
    <2>2. \A i \in 1..Len(input') : i + d \in 1..Len(input) /\ input'[i] = input[i + d]
      BY <1>2, <2>1 DEF Suffix
    <2> QED
      BY <1>1, <2>2 DEF From
  <1>3. ASSUME NEW r \in Q, NEW parts \in SUBSET Parts, input' = input \o Frame(r, parts)
        PROVE  input' \in Seq(Pieces(RespMsg)) /\ From(input', Q)
    <2>1. input' \in Seq(Pieces(RespMsg)) /\ Grown(input, input', r)
      BY <1>1, <1>3, AppendGrown
    <2>2. Len(input) \in Nat /\ Len(input') \in Nat
      BY <1>1, <2>1
    <2>3. \A i \in 1..Len(input') : input'[i].msg = r \/ (i \in 1..Len(input) /\ input'[i] = input[i])
      BY <2>1, <2>2 DEF Grown
    <2> QED
      BY <1>1, <1>3, <2>1, <2>3 DEF From
  <1>4. CASE input' = input /\ reply' = reply
    BY <1>1, <1>4
  <1>5. CASE input' = <<>> /\ reply' \in {reply, NoReply}
    BY <1>1, <1>5 DEF From
  <1>6. CASE input' = input /\ reply' = NoReply
    BY <1>1, <1>6
  <1>7. CASE Skip \/ Take \/ PopNothing
    <2> DEFINE s == Sync(input)
    <2>1. reply' = reply
      BY <1>7 DEF Skip, Take, PopNothing
    <2>2. s \in Seq(Pieces(RespMsg)) /\ Len(s) \in Nat
      BY <1>1, SyncSuffix
    <2> PICK e \in 0..Len(input) : Suffix(input, s, e)
      BY <1>1, SyncSuffix
    <2>3. input' \in {s, SubSeq(s, Width + 1, Len(s)), Tail(s)}
      BY <1>7 DEF Skip, Take, PopNothing
    <2>4. (input' # s => s # <<>> /\ Width \in 0..Len(s)) /\ Width \in {1, 2}
      <3>1. Width \in {1, 2}
        BY WidthType
      <3>2. s # <<>> <=> Len(s) # 0
        BY <2>2
      <3>3. Width \in Nat /\ (Whole(s) => Len(s) >= Width)
        BY <3>1 DEF Whole
      <3>4. input' = s \/ Whole(s) \/ ~(Len(s) < Width)
        BY <1>7 DEF Skip, Take, PopNothing
      <3> HIDE DEF s
      <3>5. input' # s => Len(s) >= Width /\ Width \in 0..Len(s) /\ Len(s) # 0
        BY <2>2, <3>1, <3>3, <3>4
      <3> QED
        BY <3>1, <3>2, <3>5
    <2> HIDE DEF s
    <2>5. \E d : input' \in Seq(Pieces(RespMsg)) /\ Suffix(s, input', d)
      BY <2>2, <2>3, <2>4, SameSuffix, TailSuffix, DropSuffix
    <2>6. \E d : input' \in Seq(Pieces(RespMsg)) /\ Suffix(input, input', d)
      BY <1>1, <2>2, <2>5, SuffixSuffix
    <2> QED
      BY <1>1, <1>2, <2>1, <2>6
  <1>8. CASE Arrived /\ Dispatch(Arriving)
    <2> PICK r, parts : Answered(Arriving, r, parts) /\ Done(Arriving, r)
      BY <1>8, DispatchDone
    <2>1. r \in Q /\ parts \in SUBSET Parts /\ Leaves(r, parts)
      BY <1>8 DEF Answered
    <2>2. CASE Hid
      BY <1>1, <2>1, <2>2 DEF Leaves
    <2>3. CASE ~Hid
      <3>1. reply' = reply /\ (input' = input \/ input' = input \o Frame(r, parts))
        BY <2>1, <2>3 DEF Leaves
      <3> QED
        BY <1>1, <1>3, <2>1, <3>1
    <2> QED
      BY <2>2, <2>3
  <1>9. CASE Poll
    <2>1. reply \in Q /\ input' = input \o Frame(reply, Parts) /\ reply' = NoReply
      BY <1>1, <1>9 DEF Poll
    <2>2. input' \in Seq(Pieces(RespMsg)) /\ From(input', Q)
      BY <1>3, <2>1
    <2> QED
      BY <1>1, <2>1, <2>2
  <1> QED
    BY <1>4, <1>5, <1>6, <1>7, <1>8, <1>9
    DEF Next, User, Client, Firmware, Connect, Disconnect, Ask, Command, Send, SendThrows,
        StaleThrows, TimeUp, ParseByte, CountdownEnds, PowerCycle, Restart

NoBytes(s) == \A i \in 1..Len(s) : s[i].msg.cmd # "fetch" => s[i].msg.data = <<>>

\* Only fetches return bytes.
LEMMA InputStep ==
  ASSUME TypeOK, Shape, Next
  PROVE  /\ input' \in Seq(Pieces(RespMsg)) /\ NoBytes(input')
         /\ reply' \in {NoReply} \cup RespMsg /\ (~Hid => reply' = NoReply)
         /\ reply' # NoReply /\ reply'.cmd # "fetch" => reply'.data = <<>>
  <1> DEFINE Q == {r \in RespMsg : r.cmd # "fetch" => r.data = <<>>}
  <1>1. From(input, Q) /\ (reply # NoReply => reply \in Q)
    BY PieceTypes DEF Shape, From
  <1>2. \A r, parts : Arrived /\ Answered(Arriving, r, parts) /\ Done(Arriving, r) => r \in Q
    BY DEF Answered
  <1>3. Q \in SUBSET RespMsg
    OBVIOUS
  <1>4. /\ input' \in Seq(Pieces(RespMsg)) /\ From(input', Q)
        /\ reply' \in {NoReply} \cup Q /\ (~Hid => reply' = NoReply)
    <2> HIDE DEF Q
    <2> QED
      BY <1>1, <1>2, <1>3, AnswersFrom
  <1> QED
    BY <1>4 DEF From, NoBytes

Bytes == Seq(Nat \X Nat)

\* A fetch adds the next chunk of the read, anything else adds nothing.
LEMMA TakeBytes ==
  ASSUME TypeOK, Shape, CallInv, Pipe, Take
  PROVE  got' \in Bytes /\ Len(got') <= Chunks /\ step' \in 0..(Chunks + 2)
  <1> DEFINE r == Sync(input)[1].msg
  <1>1. /\ handle = "open" /\ phase \in {"pop", "last"} /\ call # "none"
        /\ Whole(Sync(input)) /\ Fits(r)
        /\ \/ step' = step /\ got' = got
           \/ got' = got \o r.data /\ ~Refused(r) /\ step' = (IF step = Steps THEN step ELSE step + 1)
    BY DEF Take, InCall
  <1>2. /\ step \in 0..(Chunks + 2) /\ Chunks \in Nat /\ Chunks >= 1 /\ op \in Nat /\ call \in Calls
        /\ got \in Bytes /\ Len(got) <= Chunks /\ got \o <<>> = got
    <2>1. got \in Bytes
      BY DEF Shape, Bytes
    <2>2. got \o <<>> = got
      BY <2>1, ConcatEmptySeq DEF Bytes
    <2> QED
      BY <2>1, <2>2, BridgeAssumption DEF TypeOK, Calls
  <1>3. step' \in 0..(Chunks + 2)
    <2>1. step # Steps => step <= Chunks + 1
      BY <1>1, <1>2 DEF CallInv, Steps
    <2> QED
      BY <1>1, <1>2, <2>1
  <1> PICK k \in {0, 1} : PipeInv(k)
    BY <1>1 DEF Pipe
  <1>4. /\ r.cmd # "fetch" => r.data = <<>>
        /\ k = 1 \/ Right(r)
    BY <1>1, Taken
  <1>5. r.cmd = Cmd
    BY <1>1 DEF Fits
  <1> HIDE DEF r
  <1>6. CASE got' = got
    BY <1>2, <1>3, <1>6
  <1>7. CASE got' = got \o r.data /\ ~Refused(r) /\ Cmd = "fetch"
    <2>1. call = "read" /\ step > 2 /\ call \in Transfers
      BY <1>2, <1>7, CmdFacts DEF Transfers
    <2>2. Right(r)
      BY <1>2, <1>4, <2>1 DEF PipeInv
    <2>3. r.data = <<<<op, Len(got) + 1>>>>
      BY <1>1, <1>5, <1>7, <2>1, <2>2 DEF Right
    <2>4. step - 3 \in Nat /\ (IF step > 3 THEN step - 3 ELSE 0) = step - 3
      BY <1>2, <2>1
    <2>5. Len(got) = step - 3
      <3> PICK n \in Nat : n = step - 3
        BY <2>4
      <3>1. got = Upto(op, n)
        BY <2>1, <2>4 DEF CallInv
      <3> QED
        BY <1>2, <3>1, UptoFacts
    <2> PICK w \in Nat \X Nat : w = <<op, Len(got) + 1>>
      <3>1. Len(got) + 1 \in Nat
        BY <1>2 DEF Bytes
      <3> QED
        BY <1>2, <3>1
    <2>6. got' = Append(got, w)
      BY <1>2, <1>7, <2>3 DEF Bytes
    <2>7. Append(got, w) \in Bytes /\ Len(Append(got, w)) = Len(got) + 1
      BY <1>2 DEF Bytes
    <2> QED
      BY <1>2, <1>3, <2>5, <2>6, <2>7
  <1>8. CASE got' = got \o r.data /\ Cmd # "fetch"
    BY <1>2, <1>3, <1>4, <1>5, <1>8
  <1> QED
    BY <1>1, <1>6, <1>7, <1>8

\* What the handler of m leaves in the staging buffers and on the bus.
LEMMA DoneBytes ==
  ASSUME TypeOK, Shape, RequestInv, NEW m, NEW r, NEW parts, Answered(m, r, parts), Done(m, r)
  PROVE  /\ stageTx' \in Bytes /\ Len(stageTx') <= Chunks
         /\ stageRx' \in Bytes /\ Len(stageRx') <= Chunks
         /\ wire' \in Seq(Bytes)
  <1>1. /\ m \in ReqMsg /\ m.op \in Nat /\ m.n \in Nat /\ m.cmd \in Cmds
        /\ 1 \in Ends(output) /\ m = output[1].msg
    BY DEF Answered, ReqMsg
  <1>2. /\ stageTx \in Bytes /\ Len(stageTx) <= Chunks /\ stageRx \in Bytes /\ Len(stageRx) <= Chunks
        /\ wire \in Seq(Bytes) /\ Chunks \in Nat /\ <<>> \in Bytes /\ Len(<<>>) = 0
    BY BridgeAssumption DEF TypeOK, Shape, Bytes
  <1>3. stageTx' \in Bytes /\ Len(stageTx') <= Chunks
    <2>1. CASE stageTx' = Append(stageTx, <<m.op, m.n>>) /\ m.cmd = "append"
      <3>1. m.n \in 1..Chunks /\ Len(stageTx) <= m.n - 1
        BY <1>1, <2>1 DEF RequestInv, StageFits, Later
      <3>2. Len(stageTx') = Len(stageTx) + 1 /\ stageTx' \in Bytes /\ Len(stageTx) \in Nat
        BY <1>1, <1>2, <2>1 DEF Bytes
      <3> QED
        BY <1>1, <1>2, <3>1, <3>2
    <2>2. CASE stageTx' \in {stageTx, <<>>}
      BY <1>2, <2>2
    <2> QED
      BY <1>1, <2>1, <2>2 DEF Done, Cmds, Later, Transfers
  <1>4. stageRx' \in Bytes /\ Len(stageRx') <= Chunks
    <2>1. ASSUME NEW n \in 0..Chunks, stageRx' = SubSeq(ReadBytes(m), 1, n)
          PROVE  stageRx' \in Bytes /\ Len(stageRx') <= Chunks
      <3>1. ReadBytes(m) \in Bytes /\ Len(ReadBytes(m)) = Chunks
        BY <1>1, <1>2, UptoFacts DEF ReadBytes, Upto, Bytes
      <3> QED
        BY <1>2, <2>1, <3>1 DEF Bytes
    <2>2. CASE stageRx' \in {stageRx, <<>>}
      BY <1>2, <2>2
    <2> QED
      BY <1>1, <2>1, <2>2 DEF Done, Cmds, Later, Transfers
  <1>5. wire' \in Seq(Bytes)
    <2>1. CASE wire' = wire
      BY <1>2, <2>1
    <2>2. CASE TakesPlace(m)
      BY <1>1, <2>2, BusAppend DEF TakesPlace, Bytes
    <2> QED
      BY <2>1, <2>2, BusStep
  <1> QED
    BY <1>3, <1>4, <1>5

LEMMA BufferStep ==
  ASSUME IInv, Next
  PROVE  /\ got' \in Bytes /\ Len(got') <= Chunks /\ step' \in 0..(Chunks + 2)
         /\ stageTx' \in Bytes /\ Len(stageTx') <= Chunks
         /\ stageRx' \in Bytes /\ Len(stageRx') <= Chunks
         /\ wire' \in Seq(Bytes)
  <1>1. TypeOK /\ Shape /\ BusInv /\ CallInv /\ RequestInv /\ Pipe
    BY DEF IInv
  <1>2. /\ got \in Bytes /\ Len(got) <= Chunks /\ step \in 0..(Chunks + 2)
        /\ stageTx \in Bytes /\ Len(stageTx) <= Chunks
        /\ stageRx \in Bytes /\ Len(stageRx) <= Chunks
        /\ wire \in Seq(Bytes) /\ Chunks \in Nat /\ <<>> \in Bytes /\ Len(<<>>) = 0
    BY <1>1, BridgeAssumption DEF TypeOK, Shape, Bytes
  <1>3. CASE Arrived /\ Dispatch(Arriving)
    <2>1. UNCHANGED <<got, step>>
      BY <1>1, <1>3, DispatchDone DEF Answered, HostRest
    <2> QED
      BY <1>1, <1>2, <1>3, <2>1, DispatchDone, DoneBytes
  <1>4. CASE Take
    <2>1. UNCHANGED <<stageTx, stageRx, wire>>
      BY <1>4 DEF Take, firmware
    <2> QED
      BY <1>1, <1>2, <1>4, <2>1, TakeBytes
  <1>5. CASE /\ got' \in {got, <<>>} /\ step' \in {step, 0, 1} /\ wire' = wire
             /\ stageTx' \in {stageTx, <<>>} /\ stageRx' \in {stageRx, <<>>}
    BY <1>2, <1>5
  <1>6. CASE User
    BY <1>5, <1>6 DEF User, Connect, Disconnect, Ask, Command, Begin, firmware, client
  <1>7. CASE CountdownEnds \/ PowerCycle
    BY <1>5, <1>7 DEF CountdownEnds, PowerCycle, Restart, client
  <1>8. CASE Send \/ SendThrows \/ StaleThrows \/ Skip \/ PopNothing \/ TimeUp
    BY <1>5, <1>8 DEF Send, SendThrows, StaleThrows, Skip, PopNothing, TimeUp, firmware, client
  <1>9. CASE ParseByte \/ Poll
    BY <1>5, <1>9 DEF ParseByte, Poll, firmware, client
  <1> QED
    BY <1>3, <1>4, <1>6, <1>7, <1>8, <1>9 DEF Next, Client, Firmware

LEMMA TypeStep ==
  ASSUME IInv, Next
  PROVE  TypeOK' /\ Shape'
  <1>1. TypeOK /\ Shape
    BY DEF IInv
  <1>2. SmallTypes
    BY <1>1 DEF TypeOK, Shape, SmallTypes, Calls, Transfers, Results, SeqNumbers
  <1>3. SmallTypes'
    BY <1>2, SmallStep
  <1>4. transport' = transport
    BY <1>1, DispatchDone DEF Answered, HostRest, Next, User, Client, Firmware, Connect, Disconnect,
      Ask, Command, Send, SendThrows, StaleThrows, Skip, PopNothing, TimeUp, Take, ParseByte, Poll,
      CountdownEnds, PowerCycle, Restart
  <1>5. TypeOK'
    BY <1>1, <1>3, OutputStep, BufferStep DEF SmallTypes, TypeOK, Calls, Transfers, Results, SeqNumbers
  <1>6. Parts' = Parts /\ NoPiece' = NoPiece /\ NoReply' = NoReply /\ Hid' = Hid
    BY <1>4 DEF Parts, NoPiece, NoReply, Hid
  <1>7. /\ output' \in Seq([part : Parts, msg : ReqMsg])
        /\ input' \in Seq([part : Parts, msg : RespMsg])
        /\ held' \in {NoPiece} \cup [part : {1}, msg : ReqMsg] /\ (Hid => held' = NoPiece)
        /\ reply' \in {NoReply} \cup RespMsg /\ (~Hid => reply' = NoReply)
    BY <1>1, OutputStep, InputStep DEF Pieces
  <1>8. {got', stageTx', stageRx'} \subseteq Seq(Nat \X Nat) /\ wire' \in Seq(Seq(Nat \X Nat))
    BY BufferStep DEF Bytes
  <1>9. /\ \A i \in 1..Len(input') : input'[i].msg.cmd # "fetch" => input'[i].msg.data = <<>>
        /\ reply' # NoReply /\ reply'.cmd # "fetch" => reply'.data = <<>>
    BY <1>1, InputStep DEF NoBytes
  <1>10. faults' \in 0..MaxFaults /\ connects' \in 0..MaxConnects /\ lost' \in Nat
    BY <1>3 DEF SmallTypes
  <1>11. Shape'
    BY <1>6, <1>7, <1>8, <1>9, <1>10 DEF Shape
  <1> QED
    BY <1>5, <1>11

-----------------------------------------------------------------------------
(* The inductive invariant *)

LEMMA IInvInit ==
  ASSUME Init
  PROVE  IInv
  <1> USE DEF Init
  <1>1. TypeOK
    <2>1. /\ 1 \in 0..(SeqMod - 1) /\ 0 \in 0..(Chunks + 2) /\ 0 \in 0..MaxOps
          /\ 0 <= Chunks /\ 0 <= RingSize
      BY BridgeAssumption
    <2>2. Len(got) = 0 /\ Len(output) = 0 /\ Len(stageTx) = 0 /\ Len(stageRx) = 0
      OBVIOUS
    <2> QED
      BY <2>1, <2>2 DEF TypeOK, Transfers
  <1>2. Shape
    BY BridgeAssumption DEF Shape
  <1>3. BusInv /\ CallInv /\ RequestInv
    BY DEF BusInv, CallInv, RequestInv, Transfers, BeforeExecute, Ends
  <1>4. Pipe
    BY DEF Pipe
  <1> QED
    BY <1>1, <1>2, <1>3, <1>4 DEF IInv

LEMMA IInvStutters ==
  ASSUME IInv, UNCHANGED vars
  PROVE  IInv'
  <1> USE DEF IInv, vars
  <1>1. TypeOK' /\ Shape'
    BY DEF TypeOK, Shape, Transfers, Parts, Hid, NoPiece, NoReply, ReqMsg, RespMsg, Cmds, Later
  <1>2. BusInv' /\ CallInv'
    <2>1. BusInv'
      BY DEF BusInv, TransferOf
    <2>2. BeforeExecute' => BeforeExecute
      BY DEF BeforeExecute, ExecuteStep, Transfers
    <2>3. NothingUnderWay' <=> NothingUnderWay
      BY DEF NothingUnderWay, Ends, Width, Hid, NoReply
    <2>4. Prepared(step)' <=> Prepared(step)
      BY DEF Prepared, Executed, Upto, TransferOf
    <2> QED
      BY <2>1, <2>2, <2>3, <2>4, CallStays DEF CallInv, Hid
  <1>3. RequestInv'
    <2>1. Suffix(output, output', 0)
      BY PieceTypes, SameSuffix
    <2> QED
      BY <2>1, RequestLeft, BridgeAssumption DEF BeforeExecute, ExecuteStep, Transfers, TypeOK
  <1>4. Pipe'
    <2> SUFFICES ASSUME NEW k \in {0, 1}, PipeInv(k), handle = "open" PROVE Pipe'
      BY DEF Pipe
    <2>1. Suffix(output, output', 0) /\ Suffix(input, input', 0)
      BY PieceTypes, SameSuffix
    <2>2. PipeInv(Strange(k, 0))'
      BY <1>1, <2>1, PipeShrinks DEF callVars
    <2>3. Strange(k, 0) \in {0, 1}
      BY DEF Strange
    <2> QED
      BY <2>2, <2>3 DEF Pipe, Strange
  <1> QED
    BY <1>1, <1>2, <1>3, <1>4

\* The next step, when no request waits at the firmware while the user connects.
LEMMA IInvStep ==
  ASSUME MaxFaults + 1 < SeqMod, IInv, [Next]_vars, [Connect => output = <<>>]_vars
  PROVE  IInv'
  <1>1. CASE UNCHANGED vars
    BY <1>1, IInvStutters
  <1>2. CASE Next /\ (Connect => output = <<>>)
    <2>1. TypeOK' /\ Shape'
      BY <1>2, TypeStep
    <2> QED
      BY <1>2, <2>1, PipeStep, BusInvStep, CallInvStep, RequestInvStep DEF IInv
  <1> QED
    BY <1>1, <1>2

LEMMA Inductive ==
  ASSUME MaxFaults + 1 < SeqMod
  PROVE  Spec /\ QuietConnect => []IInv
  <1>1. Init => IInv
    BY IInvInit
  <1>2. IInv /\ [Next]_vars /\ [Connect => output = <<>>]_vars => IInv'
    BY IInvStep
  <1> QED
    BY <1>1, <1>2, PTL DEF Spec, QuietConnect

\* The variables keep their ranges, and no buffer of the firmware or of the
\* service grows past what is meant for it: neither the staging buffers, one
\* packet each, nor the receive ring, nor the bytes a read returns.
THEOREM BridgeTypeInvariant ==
  ASSUME MaxFaults + 1 < SeqMod
  PROVE  Spec /\ QuietConnect => []TypeOK
  <1>1. IInv => TypeOK
    BY DEF IInv
  <1> QED
    BY <1>1, Inductive, PTL

\* What the firmware puts on the bus is always one packet, whole, however many
\* requests and responses were lost, late or left over (bridge_service.cpp).
THEOREM BridgeWholeOnBus ==
  ASSUME MaxFaults + 1 < SeqMod
  PROVE  Spec /\ QuietConnect => []WholeOnBus
  <1>1. IInv => WholeOnBus
    BY DEF IInv, BusInv, WholeOnBus
  <1> QED
    BY <1>1, Inductive, PTL

-----------------------------------------------------------------------------
(* The bridge implements BusTransfer *)

\* What BusTransfer sees of the result and of the bus.
SeenResult ==
  IF result = "written" \/ (result = "fetched" /\ got = [i \in 1..Chunks |-> <<op, i>>])
  THEN "ok" ELSE result
SeenBus == [i \in 1..Len(wire) |-> TransferOf(wire[i])]

LEMMA SeenBusFacts ==
  ASSUME Shape
  PROVE  /\ SeenBus' = [i \in 1..Len(wire') |-> TransferOf(wire'[i])]
         /\ Len(wire) \in Nat
         /\ Len(SeenBus) = Len(wire)
         /\ \A i \in 1..Len(wire) : SeenBus[i] = TransferOf(wire[i])
         /\ SeenBus = <<>> <=> wire = <<>>
         /\ Executed <=> SeenBus # <<>> /\ SeenBus[Len(SeenBus)] = op
  <1>1. Len(wire) \in Nat /\ (wire = <<>> <=> Len(wire) = 0)
    BY DEF Shape
  <1>2. Len(SeenBus) = Len(wire) /\ \A i \in 1..Len(wire) : SeenBus[i] = TransferOf(wire[i])
    BY <1>1 DEF SeenBus
  <1>3. SeenBus = <<>> <=> wire = <<>>
    BY <1>1, <1>2 DEF SeenBus
  <1>4. Executed <=> SeenBus # <<>> /\ SeenBus[Len(SeenBus)] = op
    BY <1>1, <1>2, <1>3 DEF Executed
  <1> QED
    BY <1>1, <1>2, <1>3, <1>4 DEF SeenBus, TransferOf

\* A handler that puts a packet on the bus is a transfer that takes place.
LEMMA SeenDispatch ==
  ASSUME IInv, Arrived, Dispatch(Arriving)
  PROVE  /\ op' = op /\ SeenResult' = SeenResult
         /\ \/ SeenBus' = SeenBus
            \/ \E o \in 1..op : /\ \A i \in 1..Len(SeenBus) : SeenBus[i] < o
                                /\ SeenBus' = Append(SeenBus, o)
  <1>1. TypeOK /\ Shape /\ RequestInv /\ op \in Nat
    BY BridgeAssumption DEF IInv, TypeOK
  <1> DEFINE m == Arriving
  <1> PICK r, parts : Answered(m, r, parts) /\ Done(m, r)
    BY <1>1, DispatchDone
  <1> HIDE DEF m
  <1>2. UNCHANGED <<op, result, got>>
    BY DEF Answered, HostRest
  <1>3. CASE wire' = wire
    BY <1>2, <1>3 DEF SeenResult, SeenBus, TransferOf
  <1>4. CASE TakesPlace(m)
    <2>1. m.op \in 1..op /\ Below(m.op) /\ wire' = Append(wire, Upto(m.op, Chunks)) /\ m.op \in Nat
      BY <1>1, <1>4 DEF TakesPlace
    <2>2. /\ Len(wire') = Len(wire) + 1
          /\ \A i \in 1..Len(wire) : TransferOf(wire'[i]) = TransferOf(wire[i])
          /\ TransferOf(wire'[Len(wire')]) = m.op
      BY <1>1, <2>1, BusAppend
    <2>3. /\ SeenBus' = [i \in 1..Len(wire') |-> TransferOf(wire'[i])]
          /\ Len(wire) \in Nat /\ Len(SeenBus) = Len(wire)
          /\ \A i \in 1..Len(wire) : SeenBus[i] = TransferOf(wire[i])
      BY <1>1, SeenBusFacts
    <2>4. SeenBus' = Append(SeenBus, m.op)
      <3> DEFINE s == SeenBus
                 t == [i \in 1..(Len(wire) + 1) |-> IF i = Len(wire) + 1 THEN m.op ELSE s[i]]
      <3>1. SeenBus' = t
        BY <2>2, <2>3
      <3>2. \A i \in 1..Len(wire) : s[i] \in Nat
        BY <1>1, <2>3 DEF IInv, BusInv
      <3>3. s \in Seq(Nat)
        BY <2>3, <3>2 DEF SeenBus
      <3>4. Len(s) = Len(wire)
        BY <2>3
      <3> HIDE DEF s
      <3>5. t = Append(s, m.op)
        BY <2>1, <2>3, <3>3, <3>4
      <3> QED
        BY <3>1, <3>5 DEF s
    <2>5. \A i \in 1..Len(SeenBus) : SeenBus[i] < m.op
      BY <2>1, <2>3 DEF Below
    <2> QED
      BY <1>2, <2>1, <2>4, <2>5 DEF SeenResult
  <1> QED
    BY <1>1, <1>3, <1>4, BusStep

\* A transfer succeeds when it has taken place, and a read with what it read.
LEMMA SeenTake ==
  ASSUME IInv, Take
  PROVE  /\ op' = op /\ wire' = wire
         /\ \/ SeenResult' = SeenResult
            \/ result = "pending" /\ SeenResult' = "failed"
            \/ result = "pending" /\ SeenResult' = "ok" /\ Executed
  <1> DEFINE r == Sync(input)[1].msg
  <1>1. /\ handle = "open" /\ phase \in {"pop", "last"} /\ call # "none" /\ UNCHANGED <<op, wire>>
        /\ Whole(Sync(input)) /\ Fits(r) /\ TypeOK /\ Shape /\ CallInv
        /\ \/ got' = got /\ End(FALSE)
           \/ got' = got \o r.data /\ ~Refused(r) /\ step = Steps /\ End(TRUE)
           \/ got' = got \o r.data /\ step # Steps /\ result' = result
    BY DEF Take, InCall, IInv
  <1>2. /\ step \in 0..(Chunks + 2) /\ Chunks \in Nat /\ Chunks >= 1 /\ op \in Nat /\ call \in Calls
        /\ got \in Bytes
    BY <1>1, BridgeAssumption DEF TypeOK, Calls, Shape, Bytes
  <1> PICK k \in {0, 1} : PipeInv(k)
    BY <1>1 DEF Pipe, IInv
  <1>3. /\ r.cmd # "fetch" => r.data = <<>>
        /\ k = 1 \/ Right(r)
    BY <1>1, Taken
  <1>4. r.cmd = Cmd
    BY <1>1 DEF Fits
  <1> HIDE DEF r
  <1>5. CASE call \notin Transfers
    <2>1. step = Steps /\ Cmd # "fetch"
      BY <1>1, <1>2, <1>5, CmdFacts DEF CallInv, Steps, Calls, Transfers
    <2>2. got' = got
      BY <1>1, <1>2, <1>3, <1>4, <2>1, ConcatEmptySeq DEF Bytes
    <2>3. result' = result
      BY <1>1, <1>5 DEF End
    <2> QED
      BY <1>1, <2>2, <2>3 DEF SeenResult
  <1>6. CASE call \in Transfers /\ End(FALSE)
    BY <1>1, <1>6 DEF CallInv, End, SeenResult
  <1>7. CASE call \in Transfers /\ result' = result
    BY <1>1, <1>7 DEF CallInv, SeenResult
  <1>8. CASE call \in Transfers /\ got' = got \o r.data /\ ~Refused(r) /\ step = Steps /\ End(TRUE)
    <2>1. step = Chunks + 2 /\ result = "pending"
      BY <1>1, <1>8 DEF Steps, CallInv
    <2>2. Right(r)
      BY <1>2, <1>3, <1>8, <2>1 DEF PipeInv
    <2>3. Prepared(step + 1) /\ (r.cmd = "fetch" => r.data = <<<<op, Len(got) + 1>>>>)
      BY <1>1, <1>8, <2>2 DEF Right
    <2>4. Executed
      BY <1>2, <1>8, <2>1, <2>3 DEF Prepared, Transfers
    <2>5. CASE call = "write"
      BY <1>1, <1>8, <2>1, <2>4, <2>5 DEF End, SeenResult
    <2>6. CASE call = "read"
      <3>1. Cmd = "fetch"
        BY <1>2, <2>1, <2>6, CmdFacts
      <3>2. (IF step > 3 THEN step - 3 ELSE 0) = Chunks - 1 /\ Chunks - 1 \in Nat
        BY <1>2, <2>1
      <3>3. got = Upto(op, Chunks - 1)
        BY <1>1, <2>6, <3>2 DEF CallInv
      <3> PICK n \in Nat : n = Chunks - 1
        BY <3>2
      <3>4. got = Upto(op, n) /\ n + 1 = Chunks
        BY <1>2, <3>3
      <3>5. Len(got) = n
        BY <1>2, <3>4, UptoFacts
      <3>6. r.data = <<<<op, n + 1>>>>
        BY <1>4, <2>3, <3>1, <3>5
      <3>7. got \o <<<<op, n + 1>>>> = Append(got, <<op, n + 1>>)
        <4>1. <<op, n + 1>> \in Nat \X Nat
          BY <1>2
        <4> QED
          BY <1>2, <4>1 DEF Bytes
      <3>8. Append(Upto(op, n), <<op, n + 1>>) = Upto(op, n + 1)
        BY <1>2, UptoFacts
      <3>9. got' = Upto(op, Chunks)
        BY <1>8, <3>4, <3>6, <3>7, <3>8
      <3>10. result' = "fetched"
        BY <1>8, <2>6 DEF End, Transfers
      <3> QED
        BY <1>1, <2>1, <2>4, <3>9, <3>10 DEF SeenResult, Upto
    <2> QED
      BY <1>8, <2>5, <2>6 DEF Transfers
  <1> QED
    BY <1>1, <1>5, <1>6, <1>7, <1>8

\* The other steps: a transfer is asked for, fails, or nothing is seen.
LEMMA SeenOther ==
  ASSUME IInv, Next, ~Take, ~(Arrived /\ Dispatch(Arriving))
  PROVE  /\ wire' = wire
         /\ \/ op' = op /\ SeenResult' = SeenResult
            \/ op' = op /\ result = "pending" /\ SeenResult' = "failed"
            \/ op' = op + 1 /\ SeenResult # "pending" /\ SeenResult' = "pending"
  <1>1. TypeOK /\ CallInv
    BY DEF IInv
  <1>2. wire' = wire
    BY OtherSteps
  <1>3. ASSUME NEW c \in Transfers, Ask(c)
        PROVE  op' = op + 1 /\ SeenResult # "pending" /\ SeenResult' = "pending"
    <2>1. call = "none" /\ op' = op + 1 /\ result' = "pending"
      BY <1>3 DEF Ask, Begin
    <2> QED
      BY <1>1, <2>1 DEF SeenResult, CallInv, Transfers
  <1>4. UNCHANGED <<op, result, got>> => op' = op /\ SeenResult' = SeenResult
    BY DEF SeenResult
  <1>5. End(FALSE) /\ UNCHANGED <<op, got>> =>
          op' = op /\ (SeenResult' = SeenResult \/ (result = "pending" /\ SeenResult' = "failed"))
    BY <1>1 DEF End, SeenResult, CallInv
  <1>6. CASE Connect \/ Disconnect \/ \E c \in {"deinit", "reset"} : Command(c)
    BY <1>4, <1>6 DEF Connect, Disconnect, Command, Begin, client, Transfers
  <1>7. CASE Send \/ Skip \/ ParseByte \/ Poll \/ CountdownEnds \/ PowerCycle
    BY <1>4, <1>7 DEF Send, Skip, ParseByte, Poll, CountdownEnds, PowerCycle, Restart, client
  <1>8. CASE SendThrows \/ StaleThrows \/ PopNothing \/ TimeUp
    BY <1>4, <1>5, <1>8 DEF SendThrows, StaleThrows, PopNothing, TimeUp, client
  <1> QED
    BY <1>2, <1>3, <1>6, <1>7, <1>8 DEF Next, User, Client, Firmware

LEMMA TransferStep ==
  ASSUME IInv, [Next]_vars
  PROVE  [Transfer!Next]_(Transfer!vars)
  <1> USE DEF Transfer!Next, Transfer!vars
  <1>1. Shape
    BY DEF IInv
  <1>2. wire' = wire => SeenBus' = SeenBus
    BY DEF SeenBus, TransferOf
  <1>3. CASE UNCHANGED vars
    <2>1. SeenResult' = SeenResult /\ SeenBus' = SeenBus /\ op' = op
      BY <1>2, <1>3 DEF vars, SeenResult
    <2> QED
      BY <2>1 DEF SeenResult, SeenBus
  <1>4. CASE Arrived /\ Dispatch(Arriving)
    BY <1>4, SeenDispatch DEF SeenResult, SeenBus, Transfer!TakePlace
  <1>5. CASE Take
    <2>1. op' = op /\ SeenBus' = SeenBus
      BY <1>2, <1>5, SeenTake
    <2>2. CASE SeenResult' = SeenResult
      BY <2>1, <2>2 DEF SeenResult, SeenBus
    <2>3. CASE result = "pending" /\ SeenResult' = "failed"
      BY <2>1, <2>3 DEF SeenResult, SeenBus, Transfer!Fail
    <2>4. CASE result = "pending" /\ SeenResult' = "ok" /\ Executed
      <3>1. SeenBus # <<>> /\ SeenBus[Len(SeenBus)] = op
        BY <1>1, <2>4, SeenBusFacts
      <3> QED
        BY <2>1, <2>4, <3>1 DEF SeenResult, SeenBus, Transfer!Succeed
    <2> QED
      BY <1>5, <2>2, <2>3, <2>4, SeenTake
  <1>6. CASE Next /\ ~Take /\ ~(Arrived /\ Dispatch(Arriving))
    <2>1. SeenBus' = SeenBus
      BY <1>2, <1>6, SeenOther
    <2>2. CASE op' = op /\ SeenResult' = SeenResult
      BY <2>1, <2>2 DEF SeenResult, SeenBus
    <2>3. CASE op' = op /\ result = "pending" /\ SeenResult' = "failed"
      BY <2>1, <2>3 DEF SeenResult, SeenBus, Transfer!Fail
    <2>4. CASE op' = op + 1 /\ SeenResult # "pending" /\ SeenResult' = "pending"
      BY <2>1, <2>4 DEF SeenResult, SeenBus, Transfer!Ask
    <2> QED
      BY <1>6, <2>2, <2>3, <2>4, SeenOther
  <1> QED
    BY <1>3, <1>4, <1>5, <1>6

\* A transfer that is reported to have succeeded took place, whole, and a read
\* returns what was read; none takes place twice, and never after a later one.
THEOREM BridgeImplementsTransfer ==
  ASSUME MaxFaults + 1 < SeqMod
  PROVE  Spec /\ QuietConnect => ImplementsTransfer
  <1>1. Init => Transfer!Init
    BY DEF Init, Transfer!Init
  <1>2. IInv /\ [Next]_vars => [Transfer!Next]_(Transfer!vars)
    BY TransferStep
  <1> QED
    BY <1>1, <1>2, Inductive, PTL DEF Spec, ImplementsTransfer, Transfer!Spec

-----------------------------------------------------------------------------
(* The first connection *)

\* Before it there is nothing anywhere.
BeforeConnect ==
  /\ connects \in Nat
  /\ connects = 0 => /\ handle = "closed" /\ call = "none"
                     /\ output = <<>> /\ reply = NoReply

LEMMA DispatchConnects ==
  ASSUME NEW m, Dispatch(m)
  PROVE  connects' = connects
  BY DEF Dispatch, HandleInfo, HandleReset, HandleAppend, HandleWrite, HandleRead, HandleFetch,
     HandleClear, NotReady, HostRest

LEMMA BeforeConnectStep ==
  ASSUME BeforeConnect, [Next]_vars
  PROVE  /\ BeforeConnect' /\ connects' \in {connects, connects + 1}
         /\ connects' # connects => Connect /\ connects' = connects + 1
  <1> USE DEF BeforeConnect
  <1>1. CASE UNCHANGED vars
    BY <1>1 DEF vars, NoReply
  <1>2. CASE Connect
    BY <1>2 DEF Connect
  <1>3. CASE Next /\ ~Connect /\ connects' = connects
    <2>1. CASE connects # 0
      BY <1>3, <2>1
    <2>2. CASE connects = 0
      <3>1. handle = "closed" /\ call = "none" /\ output = <<>> /\ reply = NoReply
        BY <2>2
      <3>2. ~Disconnect /\ ~Client /\ ~Firmware
        BY <3>1 DEF Disconnect, Client, Firmware, Send, SendThrows, StaleThrows, Skip, PopNothing,
          TimeUp, Take, InCall, Arrived, ParseByte, Poll
      <3>3. \A c : ~Ask(c) /\ ~Command(c)
        BY <3>1 DEF Ask, Command
      <3>4. CountdownEnds \/ PowerCycle
        BY <1>3, <3>2, <3>3 DEF Next, User
      <3>5. handle' = "closed" /\ call' = "none" /\ output' = <<>> /\ reply' = NoReply
        BY <3>1, <3>4 DEF CountdownEnds, PowerCycle, Restart
      <3> QED
        BY <1>3, <3>5 DEF NoReply
    <2> QED
      BY <2>1, <2>2
  <1>4. Next /\ ~Connect => connects' = connects
    BY DispatchConnects DEF Next, User, Client, Firmware, Disconnect, Ask, Command, Send, SendThrows,
      StaleThrows, Skip, PopNothing, TimeUp, Take, ParseByte, Poll, CountdownEnds, PowerCycle, Restart
  <1> QED
    BY <1>1, <1>2, <1>3, <1>4 DEF Connect, vars

\* Until the user connects a second time, whatever is lost, late or repeated and
\* however often the bridge restarts: an answer that the client would take answers
\* the request it waits for (the sequence numbers of hid_bridge_client.cpp and
\* vcom_bridge_client.cpp), and the bytes staged are those of its transfer.
THEOREM BridgeInStep ==
  ASSUME MaxFaults + 1 < SeqMod
  PROVE  Spec => []InStep
  <1>1. Init => InStep /\ BeforeConnect
    <2>1. Init => IInv
      BY IInvInit
    <2>2. Init => BeforeConnect
      BY DEF Init, BeforeConnect
    <2> QED
      BY <2>1, <2>2 DEF InStep
  <1>2. InStep /\ BeforeConnect /\ [Next]_vars => (InStep /\ BeforeConnect)'
    <2> SUFFICES ASSUME InStep, BeforeConnect, [Next]_vars, connects' <= 1
                 PROVE  IInv'
      BY BeforeConnectStep DEF InStep
    <2>1. connects <= 1 /\ (Connect => connects = 0)
      <3>1. connects \in Nat /\ connects' \in {connects, connects + 1}
        BY BeforeConnectStep DEF BeforeConnect
      <3>2. Connect => connects' = connects + 1
        BY DEF Connect
      <3> QED
        BY <3>1, <3>2
    <2>2. IInv /\ (Connect => output = <<>>)
      BY <2>1 DEF InStep, BeforeConnect
    <2> QED
      BY <2>2, IInvStep
  <1> QED
    BY <1>1, <1>2, PTL DEF Spec

-----------------------------------------------------------------------------
(* Transfers that are lost: what AtMostOneLost rests on *)

\* Four headers that wait without their payload would outlast a call.
FewStrays == [](Stray <= 3)

\* Only what touches the staging buffers or the bus can be refused.
NeverRefused(r) == r.cmd \notin Later => r.ok
AnswersOk ==
  /\ \A i \in 1..Len(input) : NeverRefused(input[i].msg)
  /\ reply # NoReply => NeverRefused(reply)

\* What only one of the transports does.
ByTransport == (handle = "stale" => Hid) /\ (phase = "last" => ~Hid)
EnabledInv == call \in Transfers => (enabled <=> step >= 1)

\* No request waits ahead of the one the client has sent.
OnlyOurs ==
  (Hid /\ phase # "send") \/ (call \in Transfers /\ step >= 2) =>
    \A i \in Ends(output) : Age(output[i].msg) = 0

\* What was read is there to be fetched, and no answer refuses.
Fetchable == stageRx = Upto(op, Chunks)
Grants(r) == Fits(r) => ~Refused(r) /\ (r.cmd = "read" => Fetchable)
Willing ==
  clean /\ ready /\ handle = "open" /\ call \in Transfers =>
    /\ call = "read" /\ step >= 3 => Fetchable
    /\ phase # "send" => /\ \A i \in Ends(input) : Grants(input[i].msg)
                         /\ reply # NoReply => Grants(reply)

\* The firmware's parser is in step once it has got a whole frame, and the
\* client's has met a header that waited in vain by the time it waits for more.
ParserInStep ==
  clean /\ ~Hid /\ phase # "send" =>
    /\ output = <<>> => held = NoPiece
    /\ output # <<>> => output[Len(output)].part = 2
    /\ phase = "last" => output = <<>>
    /\ phase \in {"read", "last"} => Stray <= 2

\* At most one frame is on its way to the firmware.
OneFrame ==
  \/ output = <<>> /\ held = NoPiece
  \/ /\ phase \notin {"send", "last"}
     /\ \/ held = NoPiece /\ Len(output) = 2 /\ output[1].part = 1
           /\ output[2] = [part |-> 2, msg |-> output[1].msg]
        \/ held # NoPiece /\ output = <<[part |-> 2, msg |-> held.msg]>>

\* The answer will be there before the client gives up.
WholeAt(i) ==
  i \in Ends(input) /\ (~Hid => i > 1 /\ input[i - 1] = [part |-> 1, msg |-> input[i].msg])
Coming ==
  \/ \E i \in Ends(output) : Age(output[i].msg) = 0
  \/ reply # NoReply /\ Fits(reply)
  \/ /\ \E i \in 1..Len(input) : WholeAt(i) /\ Fits(input[i].msg)
     /\ phase \in {"read", "last"} => Stray = 0

\* Over HID none is lost; over VCOM one, which takes what is left with it.
LostInv ==
  /\ lost \in {0, 1} /\ (Hid => lost = 0)
  /\ lost = 1 => OneFrame /\ Stray <= 1
  /\ clean /\ handle = "open" /\ phase # "send" /\ (Hid \/ lost = 1) => Coming

OInv == AnswersOk /\ ByTransport /\ EnabledInv /\ OnlyOurs /\ Willing /\ ParserInStep /\ LostInv

-----------------------------------------------------------------------------
(* The transport, the answers and the requests under way *)

LEMMA TransportKept ==
  ASSUME Shape, Next
  PROVE  /\ transport' = transport /\ Hid' = Hid /\ Width' = Width /\ Parts' = Parts
         /\ NoPiece' = NoPiece /\ NoReply' = NoReply
  <1>1. transport' = transport
    BY DispatchDone DEF Answered, HostRest, Next, User, Client, Firmware, Connect, Disconnect,
      Ask, Command, Send, SendThrows, StaleThrows, Skip, PopNothing, TimeUp, Take, ParseByte, Poll,
      CountdownEnds, PowerCycle, Restart
  <1> QED
    BY <1>1 DEF Hid, Width, Parts, NoPiece, NoReply

LEMMA AnswersOkStep ==
  ASSUME TypeOK, Shape, Next, AnswersOk
  PROVE  AnswersOk'
  <1> DEFINE Q == {r \in RespMsg : NeverRefused(r)}
  <1>1. From(input, Q) /\ (reply # NoReply => reply \in Q)
    BY PieceTypes DEF Shape, From, AnswersOk
  <1>2. \A r, parts : Arrived /\ Answered(Arriving, r, parts) /\ Done(Arriving, r) => r \in Q
    BY DEF Answered, Done, NeverRefused
  <1>3. Q \in SUBSET RespMsg
    OBVIOUS
  <1>4. From(input', Q) /\ reply' \in {NoReply} \cup Q
    <2> HIDE DEF Q
    <2> QED
      BY <1>1, <1>2, <1>3, AnswersFrom
  <1>5. NoReply' = NoReply
    BY DEF NoReply
  <1> QED
    BY <1>4, <1>5 DEF From, AnswersOk, NeverRefused

LEMMA ByTransportStep ==
  ASSUME Shape, Next, ByTransport
  PROVE  ByTransport'
  <1>1. Hid' = Hid
    BY TransportKept
  <1>2. handle' \in {handle, "open", "closed"} \/ Hid
    BY DispatchDone DEF Answered, HostRest, Next, User, Client, Firmware, Connect, Disconnect,
      Ask, Command, Send, SendThrows, StaleThrows, Skip, PopNothing, TimeUp, Take, ParseByte, Poll,
      CountdownEnds, PowerCycle, Restart, End
  <1>3. phase' \in {phase, "send", "pop", "read"} \/ ~Hid
    BY DispatchDone DEF Answered, Leaves, Next, User, Client, Firmware, Connect, Disconnect,
      Ask, Command, Begin, Send, SendThrows, StaleThrows, Skip, PopNothing, TimeUp, Take, ParseByte, Poll,
      CountdownEnds, PowerCycle, Restart, End, client
  <1> QED
    BY <1>1, <1>2, <1>3 DEF ByTransport

LEMMA EnabledStep ==
  ASSUME TypeOK, Shape, CallInv, Next, EnabledInv
  PROVE  EnabledInv'
  <1>1. CASE Take /\ call' # "none"
    <2> DEFINE r == Sync(input)[1].msg
    <2>1. /\ call' = call /\ step' = step + 1 /\ enabled' = (enabled \/ r.cmd = "init")
          /\ r.cmd = Cmd
      BY <1>1 DEF Take, End, Fits
    <2>2. step \in Nat /\ step \in 0..(Chunks + 2) /\ call \in Calls /\ enabled \in BOOLEAN
      BY BridgeAssumption DEF TypeOK, Calls
    <2>3. call \in Transfers /\ step = 0 => Cmd = "init"
      BY <2>2, CmdFacts
    <2> HIDE DEF r
    <2>4. step = 0 \/ step >= 1
      BY <2>2
    <2>5. call \in Transfers => enabled'
      BY <2>1, <2>3, <2>4 DEF EnabledInv
    <2> QED
      BY <2>1, <2>2, <2>5 DEF EnabledInv
  <1>2. CASE call' = "none"
    BY <1>2 DEF EnabledInv, Transfers
  <1>3. CASE UNCHANGED <<call, step, enabled>>
    BY <1>3 DEF EnabledInv, Transfers
  <1>4. CASE User
    BY <1>4 DEF User, Connect, Disconnect, Ask, Command, Begin, EnabledInv, Transfers
  <1> QED
    BY <1>1, <1>2, <1>3, <1>4, DispatchDone
    DEF Next, Client, Firmware, Answered, HostRest, Send, SendThrows, StaleThrows, Skip, PopNothing,
        TimeUp, Take, ParseByte, Poll, CountdownEnds, PowerCycle, Restart, End, client

\* Steps that leave the client waiting for the answer to the same request.
Waits ==
  /\ phase # "send" /\ phase' # "send" /\ call # "none"
  /\ UNCHANGED <<transport, seq, enabled, call, step, got, op>>
  /\ clean' \in {clean, FALSE}

WaitSteps ==
  \/ Skip \/ (PopNothing /\ phase = "pop" /\ phase' = "read") \/ (TimeUp /\ ~Hid)
  \/ (Arrived /\ Dispatch(Arriving)) \/ ParseByte \/ Poll
  \/ CountdownEnds \/ PowerCycle

LEMMA StillWaits ==
  ASSUME TypeOK, Shape, CallInv, Next, phase' # "send", ~Send
  PROVE  Waits /\ WaitSteps
  <1>1. call = "none" => phase = "send"
    BY DEF CallInv
  <1>2. CASE User
    BY <1>1, <1>2 DEF User, Connect, Disconnect, Ask, Command, Begin, client
  <1>3. CASE SendThrows \/ StaleThrows \/ Take
    BY <1>3 DEF SendThrows, StaleThrows, Take, End
  <1>4. CASE Skip \/ PopNothing \/ TimeUp
    BY <1>1, <1>4 DEF Skip, PopNothing, TimeUp, End, Waits, WaitSteps, client, budget, NoFault, Fault, InCall
  <1>5. CASE Arrived /\ Dispatch(Arriving)
    <2> PICK r, parts : Answered(Arriving, r, parts)
      BY <1>5, DispatchDone
    <2>1. phase' \in {phase, "pop"} /\ (phase' = phase \/ phase = "read")
      BY DEF Answered, Leaves
    <2>2. phase # "send"
      BY <2>1
    <2> QED
      BY <1>1, <1>5, <2>1, <2>2 DEF Answered, HostRest, Waits, WaitSteps
  <1>6. CASE ParseByte \/ Poll \/ CountdownEnds \/ PowerCycle
    <2>1. /\ UNCHANGED <<transport, seq, enabled, call, step, got, op>>
          /\ phase' = phase \/ phase = "read"
          /\ clean' \in {clean, FALSE}
      BY <1>6 DEF ParseByte, Poll, CountdownEnds, PowerCycle, Restart, client, budget, NoFault, Fault
    <2> QED
      BY <1>1, <1>6, <2>1 DEF Waits, WaitSteps
  <1> QED
    BY <1>2, <1>3, <1>4, <1>5, <1>6 DEF Next, Client, Firmware

LEMMA WaitingRing ==
  ASSUME Shape, WaitSteps
  PROVE  \E e : Suffix(output, output', e)
  <1>1. output \in Seq(Pieces(ReqMsg)) /\ Len(output) \in Nat
    BY PieceTypes
  <1>2. CASE output' = output
    BY <1>1, <1>2, SameSuffix
  <1>3. CASE output # <<>> /\ output' = Tail(output)
    BY <1>1, <1>3, TailSuffix
  <1>4. CASE output' = <<>>
    BY <1>1, <1>4 DEF Suffix
  <1> QED
    BY <1>2, <1>3, <1>4, DispatchDone DEF Answered, WaitSteps, Skip, PopNothing, TimeUp, ParseByte, Poll,
      CountdownEnds, PowerCycle, Restart

LEMMA EndsLeft ==
  ASSUME Shape, transport' = transport, NEW e, Suffix(output, output', e)
  PROVE  /\ \A i \in Ends(output)' : i + e \in Ends(output) /\ output'[i] = output[i + e]
         /\ Ends(output) = {} => Ends(output)' = {}
  <1>1. output \in Seq(Pieces(ReqMsg)) /\ Len(output) \in Nat
    BY PieceTypes
  <1>2. Ends(output)' = {i \in 1..Len(output') : output'[i].part = Width}
    BY EndsNext
  <1>3. e \in Nat /\ Len(output') \in Nat /\ Len(output') = Len(output) - e
    BY <1>1 DEF Suffix
  <1>4. ASSUME NEW i \in Ends(output)' PROVE i + e \in Ends(output) /\ output'[i] = output[i + e]
    <2>1. i \in 1..Len(output') /\ output'[i].part = Width
      BY <1>2
    <2>2. output'[i] = output[i + e] /\ i + e \in 1..Len(output)
      BY <1>1, <1>3, <2>1 DEF Suffix
    <2> QED
      BY <2>1, <2>2 DEF Ends
  <1> QED
    BY <1>4

LEMMA OnlyOursStep ==
  ASSUME IInv, OnlyOurs, Next, TypeOK', Shape', CallInv'
  PROVE  OnlyOurs'
  <1>1. TypeOK /\ Shape /\ CallInv /\ transport' = transport /\ Hid' = Hid
    BY TransportKept DEF IInv
  <1> SUFFICES ASSUME (Hid' /\ phase' # "send") \/ (call' \in Transfers /\ step' >= 2)
               PROVE  \A i \in Ends(output)' : Age(output[i].msg)' = 0
    BY DEF OnlyOurs, Transfers
  <1>2. CASE phase' = "send"
    <2>1. Ends(output)' = {}
      BY <1>2 DEF CallInv, NothingUnderWay, Transfers
    <2> QED
      BY <2>1
  <1>3. CASE phase' # "send" /\ Send
    <2>1. /\ call # "none" /\ phase = "send" /\ call' = call /\ step' = step
          /\ seq' = (seq + 1) % SeqMod /\ (Hid => output = <<>>)
      BY <1>3 DEF Send, InCall
    <2>2. Ends(output) = {}
      <3>1. CASE Hid
        BY <2>1, <3>1 DEF Ends
      <3>2. CASE ~Hid
        BY <1>1, <2>1, <3>2 DEF CallInv, NothingUnderWay
      <3> QED
        BY <3>1, <3>2
    <2>3. Request \in ReqMsg /\ Request.seq = seq /\ seq \in SeqNumbers
      BY <1>1, <2>1, RequestType, RequestFacts DEF TypeOK, SeqNumbers
    <2>4. /\ output \in Seq(Pieces(ReqMsg)) /\ Len(output) <= RingSize /\ Len(output) \in Nat
          /\ output' \in Seq(Pieces(ReqMsg)) /\ Len(output') \in Nat
      <3>1. output' \in Seq([part : Parts', msg : ReqMsg]) /\ Parts' = Parts
        BY <1>1, TransportKept DEF Shape
      <3>2. output' \in Seq(Pieces(ReqMsg))
        BY <3>1 DEF Pieces
      <3>3. output \in Seq(Pieces(ReqMsg)) /\ Len(output) <= RingSize
        BY <1>1, PieceTypes DEF TypeOK
      <3> QED
        BY <3>2, <3>3
    <2>5. Grown(output, output', Request)
      <3> PICK parts \in SUBSET Parts : output' = Received(Frame(Request, parts))
        BY <1>3 DEF Send
      <3> QED
        BY <2>3, <2>4, ReceivedGrown
    <2> SUFFICES ASSUME NEW i \in Ends(output)' PROVE Age(output[i].msg)' = 0
      OBVIOUS
    <2>6. i \in 1..Len(output') /\ output'[i].part = Width
      BY <1>1, EndsNext
    <2>7. i \notin 1..Len(output)
      <3> SUFFICES ASSUME i \in 1..Len(output) PROVE FALSE
        OBVIOUS
      <3>1. i \in Ends(output)
        BY <2>5, <2>6 DEF Grown, Ends
      <3> QED
        BY <2>2, <3>1
    <2>8. output'[i].msg = Request
      BY <2>4, <2>5, <2>6, <2>7 DEF Grown
    <2>9. AgeAt(seq, (seq + 1) % SeqMod) = 0
      BY <2>3, AgeAtFacts
    <2>10. Age(output[i].msg)' = AgeAt(output'[i].msg.seq, seq')
      BY DEF Age, AgeAt
    <2> QED
      BY <2>1, <2>3, <2>8, <2>9, <2>10
  <1>4. CASE phase' # "send" /\ ~Send
    <2>1. Waits /\ WaitSteps
      BY <1>1, <1>4, StillWaits
    <2> PICK e : Suffix(output, output', e)
      BY <1>1, <2>1, WaitingRing
    <2>2. \A i \in Ends(output)' : i + e \in Ends(output) /\ output'[i] = output[i + e]
      BY <1>1, EndsLeft
    <2>3. \A i \in Ends(output) : Age(output[i].msg) = 0
      BY <1>1, <2>1 DEF OnlyOurs, Waits
    <2> SUFFICES ASSUME NEW i \in Ends(output)' PROVE Age(output[i].msg)' = 0
      OBVIOUS
    <2>4. Age(output[i].msg)' = AgeAt(output'[i].msg.seq, seq') /\ seq' = seq
      BY <2>1 DEF Age, AgeAt, Waits
    <2>5. Age(output[i + e].msg) = AgeAt(output[i + e].msg.seq, seq)
      BY DEF Age, AgeAt
    <2> QED
      BY <2>2, <2>3, <2>4, <2>5
  <1> QED
    BY <1>2, <1>3, <1>4

-----------------------------------------------------------------------------
(* What the client drops of its input *)

\* No whole frame starts before the one the client finds in front.
LEMMA FrontFrame ==
  ASSUME Shape
  PROVE  \E h \in 0..Len(input) :
           /\ Suffix(input, Sync(input), h) /\ Sync(input) \in Seq(Pieces(RespMsg))
           /\ \A i : WholeAt(i) =>
                /\ i \in 1..Len(input) /\ h + Width <= i
                /\ i = h + Width => Whole(Sync(input)) /\ Sync(input)[1].msg = input[i].msg
  <1> DEFINE s == Sync(input)
  <1>1. input \in Seq(Pieces(RespMsg)) /\ Len(input) \in Nat
    BY PieceTypes
  <1>2. /\ s \in Seq(Pieces(RespMsg)) /\ Len(s) \in Nat
        /\ \E h \in 0..Len(input) : Suffix(input, s, h) /\ \A j \in 1..h : input[j].part # 1
    BY <1>1, SyncSuffix
  <1> PICK h \in 0..Len(input) : Suffix(input, s, h) /\ \A j \in 1..h : input[j].part # 1
    BY <1>2
  <1> HIDE DEF s
  <1>3. ASSUME NEW i, WholeAt(i)
        PROVE  /\ i \in 1..Len(input) /\ h + Width <= i
               /\ i = h + Width => Whole(s) /\ s[1].msg = input[i].msg
    <2>1. i \in 1..Len(input) /\ input[i].part = Width
      BY <1>3 DEF WholeAt, Ends
    <2>2. CASE Hid
      <3>1. Width = 1
        BY <2>2, WidthType
      <3>2. ~(i \in 1..h)
        BY <2>1, <3>1
      <3>3. h + 1 <= i
        BY <1>1, <2>1, <3>2
      <3>4. Len(s) = Len(input) - h /\ (1 \in 1..Len(s) => s[1] = input[1 + h])
        BY DEF Suffix
      <3>5. Len(s) >= 1 /\ s[1] = input[1 + h]
        BY <1>1, <1>2, <2>1, <3>3, <3>4
      <3> QED
        BY <2>1, <2>2, <3>1, <3>3, <3>5 DEF Whole
    <2>3. CASE ~Hid
      <3>1. Width = 2 /\ i > 1 /\ input[i - 1] = [part |-> 1, msg |-> input[i].msg]
        BY <1>3, <2>3, WidthType DEF WholeAt
      <3>2. ~(i - 1 \in 1..h)
        BY <3>1
      <3>3. h + 2 <= i
        BY <1>1, <2>1, <3>1, <3>2
      <3>4. Len(s) = Len(input) - h /\ (\A j \in 1..Len(s) : s[j] = input[j + h])
        BY DEF Suffix
      <3>5. Len(s) >= 2 /\ s[1] = input[1 + h] /\ s[2] = input[2 + h]
        BY <1>1, <1>2, <2>1, <3>3, <3>4
      <3>6. input[i] = [part |-> 2, msg |-> input[i].msg]
        <4>1. input[i] \in Pieces(RespMsg)
          BY <2>1, PieceTypes
        <4> QED
          BY <2>1, <3>1, <4>1 DEF Pieces
      <3>7. ASSUME i = h + Width PROVE Whole(s) /\ s[1].msg = input[i].msg
        <4>1. s[1] = input[i - 1] /\ s[2] = input[i]
          BY <1>1, <2>1, <3>1, <3>5, <3>7
        <4>2. s[1].msg = input[i].msg
          BY <3>1, <4>1
        <4>3. s[2] = [part |-> 2, msg |-> s[1].msg]
          BY <3>6, <4>1, <4>2
        <4> QED
          BY <3>1, <3>5, <4>2, <4>3 DEF Whole
      <3> QED
        BY <2>1, <3>1, <3>3, <3>7
    <2> QED
      BY <2>2, <2>3
  <1> QED
    BY <1>2, <1>3 DEF s

LEMMA FrameShift ==
  ASSUME Shape, transport' = transport, NEW d, Suffix(input, input', d), NEW i, WholeAt(i),
         d + Width <= i
  PROVE  WholeAt(i - d)' /\ input'[i - d] = input[i]
  <1>1. input \in Seq(Pieces(RespMsg)) /\ Len(input) \in Nat /\ Width' = Width /\ Hid' = Hid
    BY PieceTypes, EndsNext DEF Hid
  <1>2. i \in 1..Len(input) /\ input[i].part = Width
    BY DEF WholeAt, Ends
  <1>3. d \in Nat /\ Len(input') \in Nat /\ Len(input') = Len(input) - d /\ Width \in {1, 2}
    BY <1>1, WidthType DEF Suffix
  <1>4. i - d \in 1..Len(input') /\ (i - d) + d = i
    BY <1>1, <1>2, <1>3
  <1>5. input'[i - d] = input[i]
    BY <1>4 DEF Suffix
  <1>6. i - d \in Ends(input)'
    BY <1>1, <1>2, <1>4, <1>5, EndsNext
  <1>7. ASSUME ~Hid PROVE i - d > 1 /\ input'[(i - d) - 1] = [part |-> 1, msg |-> input[i].msg]
    <2>1. Width = 2
      BY <1>7, WidthType
    <2>2. i - d > 1 /\ (i - d) - 1 \in 1..Len(input') /\ ((i - d) - 1) + d = i - 1
      BY <1>1, <1>2, <1>3, <1>4, <2>1
    <2>3. input'[(i - d) - 1] = input[i - 1]
      BY <2>2 DEF Suffix
    <2> QED
      BY <1>7, <2>2, <2>3 DEF WholeAt
  <1> QED
    BY <1>1, <1>5, <1>6, <1>7 DEF WholeAt

LEMMA SkipKeeps ==
  ASSUME Shape, Skip
  PROVE  /\ \E d : Suffix(input, input', d)
         /\ Stray' <= Stray
         /\ \A i : WholeAt(i) /\ Fits(input[i].msg) => \E j : WholeAt(j)' /\ input'[j] = input[i]
  <1> DEFINE s == Sync(input)
  <1>1. /\ transport' = transport /\ Whole(s) /\ ~Fits(s[1].msg)
        /\ input' = SubSeq(s, Width + 1, Len(s))
    BY DEF Skip
  <1> PICK h \in 0..Len(input) :
         /\ Suffix(input, s, h) /\ s \in Seq(Pieces(RespMsg))
         /\ \A i : WholeAt(i) => /\ i \in 1..Len(input) /\ h + Width <= i
                                 /\ i = h + Width => Whole(s) /\ s[1].msg = input[i].msg
    BY FrontFrame
  <1>2. input \in Seq(Pieces(RespMsg)) /\ Len(input) \in Nat /\ Len(s) \in Nat
    BY PieceTypes
  <1>3. Width \in {1, 2} /\ Width \in 0..Len(s)
    BY <1>1, <1>2, WidthType DEF Whole
  <1> HIDE DEF s
  <1>4. input' \in Seq(Pieces(RespMsg)) /\ Suffix(s, input', Width)
    BY <1>1, <1>3, DropSuffix
  <1>5. Suffix(input, input', h + Width)
    BY <1>2, <1>4, SuffixSuffix
  <1>6. Stray' <= Stray
    BY <1>1, <1>2, <1>4, <1>5, StraysSuffix, StrayNext DEF Stray
  <1>7. ASSUME NEW i, WholeAt(i), Fits(input[i].msg)
        PROVE  \E j : WholeAt(j)' /\ input'[j] = input[i]
    <2>1. i \in 1..Len(input) /\ h + Width <= i /\ i # h + Width
      BY <1>1, <1>7
    <2>2. (h + Width) + Width <= i
      <3>1. CASE Hid
        BY <1>2, <2>1, <3>1, WidthType
      <3>2. CASE ~Hid
        <4>1. Width = 2 /\ s[2].part = 2 /\ i > 1 /\ input[i - 1].part = 1
          BY <1>1, <1>7, <3>2, WidthType DEF Whole, WholeAt
        <4>2. s[2] = input[2 + h]
          BY <1>2, <1>3, <4>1 DEF Suffix
        <4>3. i - 1 # 2 + h
          BY <4>1, <4>2
        <4> QED
          BY <1>2, <2>1, <4>1, <4>3
      <3> QED
        BY <3>1, <3>2
    <2> PICK d : d = h + Width
      OBVIOUS
    <2>3. WholeAt(i - d)' /\ input'[i - d] = input[i]
      BY <1>1, <1>5, <1>7, <2>2, FrameShift
    <2> QED
      BY <2>3
  <1> QED
    BY <1>5, <1>6, <1>7

LEMMA PopKeeps ==
  ASSUME Shape, PopNothing
  PROVE  /\ \E d : Suffix(input, input', d)
         /\ Stray' <= Stray /\ (Stray' <= 1 \/ Stray' <= Stray - 1)
         /\ \A i : WholeAt(i) => /\ ~Hid /\ Stray' <= Stray - 1
                                 /\ \E j : WholeAt(j)' /\ input'[j] = input[i]
  <1> DEFINE s == Sync(input)
  <1>1. /\ transport' = transport /\ ~Whole(s)
        /\ input' = IF Len(s) < Width THEN s ELSE Tail(s)
    BY DEF PopNothing
  <1> PICK h \in 0..Len(input) :
         /\ Suffix(input, s, h) /\ s \in Seq(Pieces(RespMsg))
         /\ \A i : WholeAt(i) => /\ i \in 1..Len(input) /\ h + Width <= i
                                 /\ i = h + Width => Whole(s) /\ s[1].msg = input[i].msg
    BY FrontFrame
  <1> PICK d \in 0..Len(input) :
         /\ Suffix(input, input', d)
         /\ \/ Ends(input)' = {} /\ Len(input') < Width
            \/ ~Hid /\ \E i \in 1..d : i \in Strays(input)
    BY <1>1, PoppedNothing
  <1>2. input \in Seq(Pieces(RespMsg)) /\ Len(input) \in Nat /\ Len(s) \in Nat
    BY PieceTypes
  <1>3. Len(s) = Len(input) - h /\ Width \in {1, 2} /\ (Hid => Width = 1)
    BY WidthType DEF Suffix
  <1> HIDE DEF s
  <1>4. input' \in Seq(Pieces(RespMsg)) /\ Len(input') \in Nat
    <2>1. CASE Len(s) < Width
      BY <1>1, <2>1
    <2>2. CASE ~(Len(s) < Width)
      <3>1. s # <<>> /\ input' = Tail(s)
        BY <1>1, <1>2, <1>3, <2>2
      <3> QED
        BY <3>1, TailSuffix
    <2> QED
      BY <2>1, <2>2
  <1>5. Stray \in Nat /\ Stray' \in Nat /\ Stray' = Cardinality(Strays(input'))
    BY <1>1, <1>2, <1>4, StraysFinite, StrayNext DEF Stray
  <1>6. Stray' <= Stray
    BY <1>2, <1>4, <1>5, StraysSuffix DEF Stray
  <1>7. ASSUME ~Hid, NEW i \in 1..d, i \in Strays(input) PROVE Stray' <= Stray - 1
    BY <1>2, <1>4, <1>5, <1>7, StraysTail DEF Stray
  <1>8. ASSUME Len(input') < Width PROVE Stray' <= 1
    <2>1. Strays(input') \subseteq {1}
      BY <1>3, <1>4, <1>8 DEF Strays
    <2>2. IsFiniteSet({1}) /\ Cardinality({1}) = 1
      BY FS_Singleton
    <2>3. Cardinality(Strays(input')) <= 1
      BY <2>1, <2>2, FS_Subset
    <2> QED
      BY <1>5, <2>3
  <1>9. ASSUME NEW i, WholeAt(i)
        PROVE  ~Hid /\ Stray' <= Stray - 1 /\ \E j : WholeAt(j)' /\ input'[j] = input[i]
    <2>1. i \in 1..Len(input) /\ h + Width <= i /\ i # h + Width
      BY <1>1, <1>9
    <2>2. Len(s) > Width /\ h + Width < i
      BY <1>2, <1>3, <2>1
    <2>3. ~Hid /\ Width = 2
      BY <1>1, <1>3, <2>2, WidthType DEF Whole
    <2>4. s # <<>> /\ input' = Tail(s)
      BY <1>1, <1>2, <1>3, <2>2
    <2>5. Suffix(s, input', 1)
      BY <2>4, TailSuffix
    <2>6. Suffix(input, input', h + 1)
      BY <1>2, <1>4, <2>5, SuffixSuffix
    <2>7. (h + 1) + Width <= i
      BY <1>2, <2>1, <2>2, <2>3
    <2>8. WholeAt(i - (h + 1))' /\ input'[i - (h + 1)] = input[i]
      BY <1>1, <1>9, <2>6, <2>7, FrameShift
    <2>9. Ends(input)' # {}
      BY <2>8 DEF WholeAt
    <2> QED
      BY <1>7, <2>3, <2>8, <2>9
  <1> QED
    BY <1>5, <1>6, <1>7, <1>8, <1>9

-----------------------------------------------------------------------------
(* What the firmware answers when nothing goes wrong *)

\* In the middle of a transfer only the request of the client can arrive.
LEMMA OursArrives ==
  ASSUME TypeOK, Shape, CallInv, RequestInv, Pipe, OnlyOurs, handle = "open",
         call \in Transfers, step >= 2, NEW m, NEW r, NEW parts, Answered(m, r, parts)
  PROVE  /\ phase # "send" /\ PipeInv(0)
         /\ m.cmd = Cmd /\ m.op = op /\ m.n = Request.n
         /\ m.cmd \in Later => StageFits(m)
  <1>1. 1 \in Ends(output) /\ m = output[1].msg
    BY DEF Answered
  <1>2. phase # "send"
    BY <1>1 DEF CallInv, NothingUnderWay
  <1>3. PipeInv(0)
    <2> PICK k \in {0, 1} : PipeInv(k)
      BY DEF Pipe
    <2>1. step \in Nat
      BY BridgeAssumption DEF TypeOK
    <2>2. k # 1
      BY <2>1 DEF PipeInv
    <2> QED
      BY <2>2
  <1>4. Age(m) = 0
    BY <1>1 DEF OnlyOurs
  <1>5. m = [Request EXCEPT !.seq = m.seq]
    BY <1>1, <1>2, <1>3, <1>4 DEF PipeInv, AnswerInv
  <1>6. m.cmd = Cmd /\ m.op = op /\ m.n = Request.n
    BY <1>5, RequestFacts
  <1>7. m.cmd \in Later => StageFits(m)
    BY <1>1 DEF RequestInv
  <1> QED
    BY <1>2, <1>3, <1>6, <1>7

LEMMA FetchableStep ==
  ASSUME IInv, OnlyOurs, Willing, Next,
         clean', ready', handle' = "open", call' = "read", step' >= 3
  PROVE  Fetchable'
  <1>1. TypeOK /\ Shape /\ CallInv /\ RequestInv /\ Pipe
    BY DEF IInv
  <1>2. step \in Nat /\ step \in 0..(Chunks + 2) /\ call \in Calls /\ "read" \in Transfers
    BY <1>1, BridgeAssumption DEF TypeOK, Calls, Transfers
  <1>3. ASSUME clean, ready, handle = "open", call = "read", step >= 3,
               UNCHANGED <<op, stageRx>>
        PROVE  Fetchable'
    <2>1. Fetchable
      BY <1>2, <1>3 DEF Willing
    <2> QED
      BY <1>3, <2>1 DEF Fetchable, Upto
  <1>4. CASE User
    BY <1>4 DEF User, Connect, Disconnect, Ask, Command, Begin, Transfers, client, firmware
  <1>5. CASE Take
    <2> DEFINE r == Sync(input)[1].msg
    <2>1. /\ call' = call /\ step' = step + 1 /\ UNCHANGED <<op, stageRx, ready, handle, clean>>
          /\ Whole(Sync(input)) /\ Fits(r) /\ phase # "send" /\ r.cmd = Cmd
      BY <1>5 DEF Take, End, Fits, InCall, NoFault, budget, firmware
    <2>2. step = 2 \/ step >= 3
      BY <1>2, <2>1
    <2>3. CASE step = 2
      <3> PICK k \in {0, 1} : PipeInv(k)
        BY <1>1, <2>1 DEF Pipe
      <3> PICK d \in 1..Len(input) : d \in Ends(input) /\ input[d].msg = r
        BY <1>1, <2>1, Taken
      <3>1. Grants(r)
        BY <1>2, <2>1 DEF Willing
      <3>2. Cmd = "read"
        BY <1>2, <2>1, <2>3, CmdFacts
      <3>3. Fetchable
        BY <2>1, <3>1, <3>2 DEF Grants
      <3> QED
        BY <2>1, <3>3 DEF Fetchable, Upto
    <2> QED
      BY <1>3, <2>1, <2>2, <2>3
  <1>6. CASE Arrived /\ Dispatch(Arriving)
    <2> PICK r, parts : Answered(Arriving, r, parts) /\ Done(Arriving, r)
      BY <1>1, <1>6, DispatchDone
    <2>1. UNCHANGED <<handle, call, step, op>>
      BY DEF Answered, HostRest
    <2>2. clean
      BY DEF Answered
    <2>3. Arriving.cmd = Cmd
      BY <1>1, <1>2, <2>1, OursArrives
    <2>4. Cmd = "fetch"
      BY <1>2, <2>1, CmdFacts
    <2>5. UNCHANGED <<stageRx, ready>>
      BY <2>3, <2>4 DEF Done
    <2> QED
      BY <1>3, <2>1, <2>2, <2>5
  <1>7. CASE Send \/ SendThrows \/ StaleThrows \/ Skip \/ PopNothing \/ TimeUp
    <2>1. /\ UNCHANGED <<handle, call, step, op, stageRx, ready>> /\ clean
      BY <1>7 DEF Send, SendThrows, StaleThrows, Skip, PopNothing, TimeUp, End, Count, client, firmware,
        budget, NoFault, Fault
    <2> QED
      BY <1>3, <2>1
  <1>8. CASE ParseByte \/ Poll \/ CountdownEnds \/ PowerCycle
    <2>1. /\ UNCHANGED <<handle, call, step, op, stageRx, ready>> /\ clean
      BY <1>8 DEF ParseByte, Poll, CountdownEnds, PowerCycle, client, firmware, budget, Fault
    <2> QED
      BY <1>3, <2>1
  <1> QED
    BY <1>4, <1>5, <1>6, <1>7, <1>8 DEF Next, Client, Firmware

\* When nothing goes wrong, the firmware does what it is asked.
LEMMA OursGranted ==
  ASSUME Chunks <= StageSize, IInv, OnlyOurs, Willing, clean, ready', handle = "open",
         call \in Transfers, step >= 2, NEW m, NEW r, NEW parts,
         Answered(m, r, parts), Done(m, r), faults' = faults
  PROVE  ~Refused(r) /\ (r.cmd = "read" => Fetchable') /\ ready
  <1>1. TypeOK /\ Shape /\ CallInv /\ RequestInv /\ Pipe
    BY DEF IInv
  <1>2. /\ step \in Nat /\ step \in 0..(Chunks + 2) /\ call \in Calls /\ op \in Nat
        /\ Chunks \in Nat /\ StageSize \in Nat /\ Chunks > 0
    BY <1>1, BridgeAssumption DEF TypeOK, Calls
  <1>3. /\ phase # "send" /\ PipeInv(0)
        /\ m.cmd = Cmd /\ m.op = op /\ m.n = Request.n
        /\ m.cmd \in Later => StageFits(m)
    BY <1>1, OursArrives
  <1>4. Cmd \in {"append", "write", "read", "fetch"}
    <2>1. call = "write" \/ call = "read"
      BY DEF Transfers
    <2>2. call = "write" => step \in 2..(Chunks + 1) \/ step = Chunks + 2
      BY <1>2
    <2>3. call = "read" => step = 2 \/ step > 2
      BY <1>2
    <2> QED
      BY <1>2, <2>1, <2>2, <2>3, CmdFacts
  <1>5. r.cmd = Cmd /\ ready /\ StageFits(m) /\ UNCHANGED op /\ (r.ok \/ Denied(m))
    BY <1>3, <1>4 DEF Answered, Done, Later, HostRest
  <1>6. CASE Cmd = "append"
    <2>1. m.n \in 1..Chunks /\ Len(stageTx) <= m.n - 1 /\ Len(stageTx) \in Nat
      BY <1>1, <1>3, <1>5, <1>6 DEF StageFits, Shape
    <2>2. ~(Len(stageTx) >= StageSize)
      BY <1>2, <2>1
    <2>3. ~Denied(m)
      BY <1>3, <1>6, <2>2 DEF Denied, Transfers
    <2> QED
      BY <1>5, <1>6, <2>3 DEF Refused
  <1>7. CASE Cmd \in Transfers
    <2>1. ~Denied(m)
      BY <1>3, <1>5, <1>7 DEF Denied, Transfers
    <2>2. r.ok
      BY <1>5, <2>1
    <2>3. r.cmd = "read" => stageRx' = ReadBytes(m)
      BY <1>3, <1>5, <2>2 DEF Done
    <2>4. ReadBytes(m) = Upto(op, Chunks)
      BY <1>3 DEF ReadBytes, Upto
    <2>5. Fetchable' <=> stageRx' = Upto(op, Chunks)
      BY <1>5 DEF Fetchable, Upto
    <2>6. ~Refused(r)
      BY <1>5, <1>7, <2>2 DEF Refused, Transfers
    <2> QED
      BY <1>5, <2>3, <2>4, <2>5, <2>6
  <1>8. CASE Cmd = "fetch"
    <2>1. call = "read" /\ step > 2 /\ step >= 3
      BY <1>2, <1>8, CmdFacts
    <2>2. stageRx = Upto(op, Chunks)
      BY <1>5, <2>1 DEF Willing, Fetchable
    <2>3. Len(stageRx) = Chunks
      BY <1>2, <2>2, UptoFacts
    <2>4. m.n = Len(got)
      BY <1>3, <1>8, RequestFacts
    <2>5. PICK n \in Nat : n = (IF step > 3 THEN step - 3 ELSE 0) /\ n < Chunks
      BY <1>2, <2>1
    <2>6. got = Upto(op, n)
      BY <1>1, <2>1, <2>5 DEF CallInv
    <2>7. Len(got) = n
      BY <1>2, <2>5, <2>6, UptoFacts
    <2>8. m.n < Len(stageRx)
      BY <2>3, <2>4, <2>5, <2>7
    <2>9. ~Denied(m)
      BY <1>2, <1>3, <1>8, <2>8, <2>3, <2>4, <2>7, <2>5 DEF Denied, Transfers
    <2>10. r.ok
      BY <1>5, <2>9
    <2>11. r.total = Chunks /\ r.data = <<stageRx[m.n + 1]>>
      BY <1>3, <1>8, <2>3, <2>8, <2>10 DEF Done
    <2>12. r.data # <<>>
      BY <2>11
    <2>13. ~Refused(r)
      BY <2>10, <2>11, <2>12 DEF Refused
    <2> QED
      BY <1>5, <1>8, <2>13
  <1> QED
    BY <1>4, <1>6, <1>7, <1>8 DEF Transfers

LEMMA GrantsStep ==
  ASSUME Chunks <= StageSize, IInv, TypeOK', Shape', OnlyOurs, AnswersOk', Willing, Next,
         clean', ready', handle' = "open", call' \in Transfers, phase' # "send"
  PROVE  /\ \A i \in Ends(input)' : Grants(input[i].msg)'
         /\ reply' # NoReply => Grants(reply)'
  <1>1. /\ TypeOK /\ Shape /\ CallInv /\ RequestInv /\ Pipe
        /\ transport' = transport /\ NoReply' = NoReply
    BY TransportKept DEF IInv
  <1>2. /\ step \in Nat /\ step \in 0..(Chunks + 2) /\ call \in Calls
        /\ step' \in 0..(Chunks + 2) /\ call' \in Calls
    BY <1>1, BridgeAssumption DEF TypeOK, Calls, Transfers
  <1>3. CASE Cmd' \notin Later
    <2>1. ASSUME NEW q, NeverRefused(q) PROVE Fits(q)' => ~Refused(q)' /\ q.cmd # "read"
      BY <1>3, <2>1 DEF NeverRefused, Fits, Refused, Later
    <2>2. /\ \A i \in 1..Len(input') : NeverRefused(input'[i].msg)
          /\ reply' # NoReply => NeverRefused(reply')
      BY <1>1 DEF AnswersOk, NeverRefused
    <2>3. \A i \in Ends(input)' : i \in 1..Len(input')
      BY <1>1, EndsNext
    <2>4. \A q : NeverRefused(q) => (Fits(q)' => ~Refused(q)' /\ q.cmd # "read")
      BY <2>1
    <2> HIDE DEF NeverRefused
    <2>5. ASSUME NEW i \in Ends(input)' PROVE Grants(input[i].msg)'
      <3>1. NeverRefused(input'[i].msg)
        BY <2>2, <2>3
      <3> QED
        BY <2>4, <3>1 DEF Grants, Fits, Refused
    <2>6. reply' # NoReply => Grants(reply)'
      BY <2>2, <2>4 DEF Grants, Fits, Refused
    <2> QED
      BY <2>5, <2>6
  <1>4. CASE Cmd' \in Later /\ Send
    <2>1. /\ phase = "send" /\ UNCHANGED <<call, step, input, reply>>
      BY <1>4 DEF Send, InCall
    <2>2. Cmd' = Cmd
      BY <2>1 DEF Cmd, WriteStep, ReadStep
    <2>3. call \in Transfers /\ step >= 2
      BY <1>2, <1>4, <2>2, CmdFacts
    <2>4. Ends(input) = {} /\ reply = NoReply
      BY <1>1, <2>1, <2>3 DEF CallInv, NothingUnderWay
    <2>5. Ends(input)' = {}
      BY <1>1, <2>1, <2>4, EndsNext DEF Ends
    <2> QED
      BY <1>1, <2>1, <2>4, <2>5
  <1>5. CASE Cmd' \in Later /\ ~Send
    <2>1. Waits /\ WaitSteps
      BY <1>1, <1>5, StillWaits
    <2>2. /\ UNCHANGED <<seq, call, step, op, got>> /\ clean /\ phase # "send"
      BY <2>1 DEF Waits
    <2>3. Cmd' = Cmd
      BY <2>2 DEF Cmd, WriteStep, ReadStep
    <2>4. call \in Transfers /\ step >= 2
      BY <1>2, <1>5, <2>3, CmdFacts
    <2>5. \A q : Fits(q)' <=> Fits(q)
      BY <2>2, <2>3 DEF Fits
    <2>6. ASSUME UNCHANGED <<stageRx, ready, handle>>
          PROVE  /\ \A q : Grants(q) => (Fits(q)' => ~Refused(q)' /\ (q.cmd = "read" => Fetchable'))
                 /\ \A i \in Ends(input) : Grants(input[i].msg)
                 /\ reply # NoReply => Grants(reply)
      BY <2>2, <2>4, <2>5, <2>6 DEF Willing, Grants, Refused, Fetchable, Upto
    <2>7. CASE Arrived /\ Dispatch(Arriving)
      <3> DEFINE m == Arriving
      <3> PICK r, parts : Answered(m, r, parts) /\ Done(m, r)
        BY <1>1, <2>7, DispatchDone
      <3> HIDE DEF m
      <3>1. faults' = faults /\ handle = "open" /\ 1 \in Ends(output) /\ m \in ReqMsg
        BY DEF Answered, HostRest
      <3>2. ~Refused(r) /\ (r.cmd = "read" => Fetchable') /\ PipeInv(0)
        BY <1>1, <2>2, <2>4, <3>1, OursGranted, OursArrives
      <3>3. /\ \A i \in Ours(0)' :
                 \/ i \in Ours(0) /\ input'[i] = input[i]
                 \/ input'[i].msg = r
            /\ OurReply(0)' => (OurReply(0) /\ reply' = reply) \/ reply' = r
        <4> PICK j : j = Instead(0, parts)
          OBVIOUS
        <4>1. j = 0
          BY DEF Instead
        <4>2. /\ \A i \in Ours(j)' :
                   \/ i \in Ours(0) /\ input'[i] = input[i]
                   \/ ~Hid /\ input'[i].msg = r /\ i = Len(input')
              /\ OurReply(j)' => (OurReply(0) /\ reply' = reply) \/ reply' = r
          BY <1>1, <3>1, <3>2, AnsweredPipe
        <4> QED
          BY <4>1, <4>2
      <3>4. LatestIsLast(0) /\ seq \in SeqNumbers
        BY <1>1, <3>2 DEF PipeInv, TypeOK, SeqNumbers
      <3>5. /\ \A i \in Ours(0) : ~Fits(input[i].msg)
            /\ OurReply(0) => ~Fits(reply)
        <4>1. \A i \in Ours(0) : input[i].msg.seq \in SeqNumbers /\ Age(input[i].msg) # 0
          BY <1>1, <3>1, <3>4, PieceTypes DEF LatestIsLast, Ours, Ends
        <4>2. OurReply(0) => reply.seq \in SeqNumbers /\ Age(reply) # 0
          BY <1>1, <3>1, <3>4, PieceTypes DEF LatestIsLast, OurReply
        <4> QED
          BY <3>4, <4>1, <4>2, AgeFacts
      <3>6. \A i \in Ends(input)' : i \in Ours(0)'
        <4>1. \A i \in Ends(input)' : i \in 1..Len(input') /\ i > 0
          BY <1>1, EndsNext
        <4> QED
          BY <4>1 DEF Ours
      <3>7. reply' # NoReply => OurReply(0)'
        <4>1. Len(input') \in Nat
          BY DEF Shape
        <4> QED
          BY <1>1, <4>1 DEF OurReply
      <3>8. ASSUME NEW i \in Ends(input)' PROVE Grants(input[i].msg)'
        <4>1. input'[i].msg = r \/ ~Fits(input'[i].msg)
          BY <3>3, <3>5, <3>6
        <4> QED
          BY <2>5, <3>2, <4>1 DEF Grants, Refused, Fits
      <3>9. reply' # NoReply => Grants(reply)'
        <4>1. reply' # NoReply => reply' = r \/ ~Fits(reply')
          BY <3>3, <3>5, <3>7
        <4> QED
          BY <2>5, <3>2, <4>1 DEF Grants, Refused, Fits
      <3> QED
        BY <3>8, <3>9
    <2>8. CASE Skip \/ PopNothing
      <3>1. UNCHANGED <<stageRx, ready, reply>> /\ UNCHANGED handle
        BY <2>2, <2>4, <2>8 DEF Skip, PopNothing, firmware, End, Transfers
      <3> PICK d : Suffix(input, input', d)
        BY <1>1, <2>8, SkipKeeps, PopKeeps
      <3>2. \A i \in Ends(input)' : i + d \in Ends(input) /\ input'[i] = input[i + d]
        <4>1. Suffix(output, output', 0)
          BY <1>1, <2>8, PieceTypes, SameSuffix DEF Skip, PopNothing
        <4> QED
          BY <1>1, <3>1, <4>1, SuffixOurs
      <3>3. ASSUME NEW i \in Ends(input)' PROVE Grants(input[i].msg)'
        <4>1. Grants(input'[i].msg)
          BY <2>6, <3>1, <3>2
        <4> QED
          BY <2>6, <3>1, <4>1 DEF Grants, Refused, Fits
      <3> QED
        BY <1>1, <2>6, <3>1, <3>3 DEF Grants, Refused, Fits
    <2>9. CASE Poll
      <3>1. /\ UNCHANGED <<stageRx, ready, handle>> /\ reply # NoReply /\ reply' = NoReply
            /\ input' = input \o Frame(reply, Parts)
        BY <2>9 DEF Poll, firmware
      <3>2. input \in Seq(Pieces(RespMsg)) /\ reply \in RespMsg /\ Parts \in SUBSET Parts
        BY <1>1, <3>1, PieceTypes
      <3>3. Grown(input, input', reply) /\ Len(input') \in Nat /\ Len(input) \in Nat
        BY <3>1, <3>2, AppendGrown
      <3>4. ASSUME NEW i \in Ends(input)' PROVE Grants(input[i].msg)'
        <4>1. i \in 1..Len(input') /\ input'[i].part = Width
          BY <1>1, EndsNext
        <4>2. input'[i].msg = reply \/ (i \in Ends(input) /\ input'[i] = input[i])
          BY <3>3, <4>1 DEF Grown, Ends
        <4>3. Grants(input'[i].msg)
          BY <2>6, <3>1, <4>2
        <4> QED
          BY <2>6, <3>1, <4>3 DEF Grants, Refused, Fits
      <3> QED
        BY <1>1, <3>1, <3>4
    <2>10. CASE TimeUp \/ ParseByte
      <3>1. UNCHANGED <<stageRx, ready, handle, input, reply>>
        BY <2>2, <2>4, <2>10 DEF TimeUp, ParseByte, firmware, End, Transfers
      <3>2. Ends(input)' = Ends(input)
        BY <1>1, <3>1, EndsNext DEF Ends
      <3> QED
        BY <1>1, <2>6, <3>1, <3>2 DEF Grants, Refused, Fits
    <2>11. CASE CountdownEnds \/ PowerCycle
      BY <2>11 DEF CountdownEnds, PowerCycle, Restart
    <2> QED
      BY <2>1, <2>7, <2>8, <2>9, <2>10, <2>11 DEF WaitSteps
  <1> QED
    BY <1>3, <1>4, <1>5

LEMMA WillingStep ==
  ASSUME Chunks <= StageSize, IInv, TypeOK', Shape', OnlyOurs, AnswersOk', Willing, Next
  PROVE  Willing'
  <1>1. "read" \in Transfers /\ Transfers' = Transfers
    BY DEF Transfers
  <1> SUFFICES ASSUME clean', ready', handle' = "open", call' \in Transfers
               PROVE  /\ call' = "read" /\ step' >= 3 => Fetchable'
                      /\ phase' # "send" => /\ \A i \in Ends(input)' : Grants(input[i].msg)'
                                            /\ reply' # NoReply' => Grants(reply)'
    BY <1>1 DEF Willing
  <1>2. NoReply' = NoReply
    BY DEF NoReply
  <1> QED
    BY <1>2, FetchableStep, GrantsStep

-----------------------------------------------------------------------------
(* The parsers are in step *)

LEMMA TailShort ==
  ASSUME NEW S, NEW s \in Seq(S), s # <<>>, Tail(s) = <<>>
  PROVE  Len(s) = 1
  <1> PICK t : t = Tail(s)
    OBVIOUS
  <1>1. Len(t) = Len(s) - 1 /\ Len(s) \in Nat /\ t \in Seq(S)
    BY TailSuffix DEF Suffix
  <1>3. Len(t) = 0
    BY <1>1, EmptySeq
  <1> QED
    BY <1>1, <1>3

LEMMA Behind ==
  ASSUME NEW S, NEW s \in Seq(S), NEW t \in Seq(S), NEW u, u = s \o t
  PROVE  /\ u \in Seq(S) /\ Len(u) = Len(s) + Len(t)
         /\ \A i \in 1..Len(s) : u[i] = s[i]
         /\ \A i \in 1..Len(t) : u[Len(s) + i] = t[i]
  OBVIOUS

LEMMA ParserStep ==
  ASSUME IInv, TypeOK', Shape', Next, ParserInStep, Stray <= 3
  PROVE  ParserInStep'
  <1>1. /\ TypeOK /\ Shape /\ CallInv /\ transport' = transport /\ Hid' = Hid
        /\ Parts' = Parts /\ NoPiece' = NoPiece
    BY TransportKept DEF IInv
  <1> SUFFICES ASSUME clean', ~Hid, phase' # "send"
               PROVE  /\ output' = <<>> => held' = NoPiece
                      /\ output' # <<>> => output'[Len(output')].part = 2
                      /\ phase' = "last" => output' = <<>>
                      /\ phase' \in {"read", "last"} => Stray' <= 2
    BY <1>1 DEF ParserInStep
  <1>2. /\ Stray \in Nat /\ Stray' \in Nat /\ Stray' = Cardinality(Strays(input'))
        /\ output \in Seq(Pieces(ReqMsg)) /\ Len(output) \in Nat
        /\ input \in Seq(Pieces(RespMsg)) /\ faults \in Nat
    <2>1. input' \in Seq([part : Parts, msg : RespMsg])
      BY <1>1 DEF Shape
    <2>2. Stray' = Cardinality(Strays(input')) /\ Cardinality(Strays(input')) \in Nat
      BY <1>1, <2>1, StraysFinite, StrayNext
    <2> QED
      BY <1>1, <2>2, StrayType, PieceTypes, BridgeAssumption DEF Shape
  <1>3. CASE Send
    <2>1. /\ phase' = "pop" /\ call # "none"
          /\ output' = output \o Frame(Request, Parts)
      BY <1>3 DEF Send, InCall, Received, Fault
    <2>2. Request \in ReqMsg
      BY <1>1, <2>1, RequestType
    <2> DEFINE f == Frame(Request, Parts)
    <2>3. /\ f \in Seq(Pieces(ReqMsg)) /\ Len(f) = 2 /\ f[2] = [part |-> 2, msg |-> Request]
          /\ output' = output \o f
      BY <2>1, <2>2, FrameFacts, WidthType
    <2> HIDE DEF f
    <2>4. Len(output') = Len(output) + 2 /\ output'[Len(output) + 2] = f[2]
      <3>1. output \in Seq(Pieces(ReqMsg)) /\ f \in Seq(Pieces(ReqMsg)) /\ output' = output \o f
        BY <1>2, <2>3
      <3>2. /\ Len(output') = Len(output) + Len(f)
            /\ \A i \in 1..Len(f) : output'[Len(output) + i] = f[i]
        BY <3>1, Behind
      <3>3. Len(f) = 2 /\ 2 \in 1..2
        BY <2>3
      <3> QED
        BY <3>2, <3>3
    <2>5. output' # <<>>
      BY <1>2, <2>4
    <2>6. output'[Len(output')].part = 2
      BY <2>3, <2>4
    <2> QED
      BY <2>1, <2>5, <2>6
  <1>4. CASE ~Send
    <2>1. Waits /\ WaitSteps
      BY <1>1, <1>4, StillWaits
    <2>2. clean /\ phase # "send"
      BY <2>1 DEF Waits
    <2>3. /\ output = <<>> => held = NoPiece
          /\ output # <<>> => output[Len(output)].part = 2
          /\ phase = "last" => output = <<>>
          /\ phase \in {"read", "last"} => Stray <= 2
      BY <2>2 DEF ParserInStep
    <2>4. ASSUME output # <<>>, output' = Tail(output)
          PROVE  output' # <<>> => output'[Len(output')].part = 2
      BY <1>2, <2>3, <2>4
    <2>5. CASE Skip
      <3>1. Stray' <= Stray
        BY <1>1, <2>5, SkipKeeps
      <3>2. UNCHANGED <<phase, output, held>>
        BY <2>5 DEF Skip, client
      <3> QED
        BY <1>2, <2>3, <3>1, <3>2
    <2>6. CASE PopNothing /\ phase = "pop" /\ phase' = "read"
      <3>1. Stray' <= 1 \/ Stray' <= Stray - 1
        BY <1>1, <2>6, PopKeeps
      <3>2. UNCHANGED <<output, held>>
        BY <2>6 DEF PopNothing
      <3> QED
        BY <1>2, <2>3, <2>6, <3>1, <3>2
    <2>7. CASE TimeUp
      <3>1. /\ phase = "read" /\ phase' = "last" /\ UNCHANGED <<input, output, held>>
            /\ output = <<>>
        BY <2>7 DEF TimeUp, InCall, Silent, Fault
      <3> QED
        BY <1>2, <2>3, <3>1 DEF Stray
    <2>8. CASE Arrived /\ Dispatch(Arriving)
      <3> PICK r, parts : Answered(Arriving, r, parts)
        BY <1>1, <2>8, DispatchDone
      <3>1. /\ output # <<>> /\ output' = Tail(output) /\ held' = NoPiece
            /\ r \in RespMsg /\ parts \in SUBSET Parts /\ Leaves(r, parts)
        BY DEF Answered
      <3>6. parts = Parts
        <4>1. faults' = faults
          BY DEF Answered
        <4> QED
          BY <1>2, <4>1 DEF Answered
      <3>2. /\ input' = input \/ input' = input \o Frame(r, Parts)
            /\ phase' = phase \/ phase' = "pop"
        BY <3>1, <3>6 DEF Leaves
      <3>3. Cardinality(Strays(input \o Frame(r, Parts))) <= Cardinality(Strays(input)) + 0
        BY <1>2, <3>1, StraysAppend
      <3>4. Cardinality(Strays(input)) = Stray
        BY DEF Stray
      <3>5. Stray' <= Stray
        <4>1. CASE input' = input
          BY <1>2, <3>4, <4>1
        <4>2. CASE input' = input \o Frame(r, Parts)
          BY <1>2, <3>3, <3>4, <4>2
        <4> QED
          BY <3>2, <4>1, <4>2
      <3> QED
        BY <1>2, <2>3, <2>4, <3>1, <3>2, <3>5
    <2>9. CASE ParseByte
      <3>1. /\ output # <<>> /\ output' = Tail(output) /\ UNCHANGED <<phase, input>>
            /\ held' = IF held = NoPiece /\ Head(output).part = 1 THEN Head(output) ELSE NoPiece
        BY <2>9 DEF ParseByte, client
      <3>2. output' = <<>> => Head(output).part = 2
        <4>1. output' = <<>> => Len(output) = 1
          <5>1. output \in Seq(Pieces(ReqMsg)) /\ output # <<>> /\ output' = Tail(output)
            BY <1>2, <3>1
          <5> QED
            BY <5>1, TailShort
        <4> QED
          BY <1>2, <2>3, <3>1, <4>1
      <3> QED
        BY <1>2, <2>3, <2>4, <3>1, <3>2 DEF Stray
    <2>10. CASE Poll \/ CountdownEnds \/ PowerCycle
      BY <2>10 DEF Poll, CountdownEnds, PowerCycle, Fault
    <2> QED
      BY <2>1, <2>5, <2>6, <2>7, <2>8, <2>9, <2>10 DEF WaitSteps
  <1> QED
    BY <1>3, <1>4

-----------------------------------------------------------------------------
(* When a transfer is lost *)

\* A transfer is not lost to a refusal when the devices are in order ...
LEMMA NoneRefused ==
  ASSUME IInv, OInv, Take, clean, handle = "open", enabled => ready, call \in Transfers,
         Refused(Sync(input)[1].msg)
  PROVE  FALSE
  <1> DEFINE r == Sync(input)[1].msg
  <1>1. /\ TypeOK /\ Shape /\ Pipe /\ AnswersOk /\ EnabledInv /\ Willing
        /\ step \in Nat /\ step \in 0..(Chunks + 2) /\ call \in Calls
    BY BridgeAssumption DEF IInv, OInv, TypeOK, Calls
  <1>2. Whole(Sync(input)) /\ Fits(r) /\ phase # "send"
    BY DEF Take, InCall
  <1> PICK k \in {0, 1} : PipeInv(k)
    BY <1>1 DEF Pipe
  <1> PICK d \in 1..Len(input) : d \in Ends(input) /\ input[d].msg = r
    BY <1>1, <1>2, Taken
  <1> HIDE DEF r
  <1>3. CASE ready
    <2>1. Grants(r)
      BY <1>1, <1>2, <1>3 DEF Willing
    <2> QED
      BY <1>2, <2>1 DEF Grants, r
  <1>4. CASE ~ready
    <2>1. step = 0
      BY <1>1, <1>4 DEF EnabledInv
    <2>2. r.cmd = "init"
      BY <1>1, <1>2, <2>1, CmdFacts DEF Fits
    <2>3. r.ok
      BY <1>1, <2>2 DEF AnswersOk, NeverRefused, Later
    <2> QED
      BY <2>2, <2>3 DEF Refused, r
  <1> QED
    BY <1>3, <1>4

\* ... nor, over HID, to a time-out.
LEMMA NoneLate ==
  ASSUME IInv, OInv, TimeUp, Hid, Silent, clean, handle = "open"
  PROVE  FALSE
  <1>1. /\ phase = "read" /\ output = <<>> /\ reply = NoReply
    BY DEF TimeUp, InCall, Silent
  <1>2. Coming
    BY <1>1 DEF OInv, LostInv
  <1>3. input = <<>>
    BY <1>1 DEF IInv, CallInv
  <1>4. Len(output) = 0 /\ Len(input) = 0
    BY <1>1, <1>3
  <1> QED
    BY <1>1, <1>2, <1>4 DEF Coming, Ends

\* Over VCOM the client gives up when it has met one stray header too many,
\* and it meets no other one in the next transfer.
LEMMA LastPop ==
  ASSUME IInv, OInv, PopNothing, phase = "last", clean, handle = "open", Stray' \in Nat
  PROVE  lost = 0 /\ ~Hid /\ output = <<>> /\ held = NoPiece /\ Stray' <= 1
  <1>1. /\ TypeOK /\ Shape /\ ParserInStep /\ LostInv /\ ~Hid
        /\ lost \in {0, 1} /\ Stray \in Nat
    BY StrayType DEF IInv, OInv, ByTransport, LostInv
  <1>2. output = <<>> /\ held = NoPiece /\ Stray <= 2
    BY <1>1 DEF ParserInStep
  <1>3. Stray' <= 1
    <2>1. Stray' <= 1 \/ Stray' <= Stray - 1
      BY <1>1, PopKeeps
    <2> QED
      BY <1>1, <1>2, <2>1
  <1>4. ASSUME lost = 1 PROVE FALSE
    <2>1. Coming
      BY <1>1, <1>4 DEF LostInv
    <2>2. Len(output) = 0 /\ reply = NoReply
      BY <1>1, <1>2 DEF Shape
    <2>3. Stray = 0 /\ \E i : WholeAt(i)
      BY <2>1, <2>2 DEF Coming, Ends
    <2>4. Stray' <= Stray - 1
      BY <1>1, <2>3, PopKeeps
    <2> QED
      BY <2>3, <2>4
  <1> QED
    BY <1>1, <1>2, <1>3, <1>4

LEMMA LostCounts ==
  ASSUME IInv, OInv, Next
  PROVE  \/ lost' \in {0, lost}
         \/ /\ PopNothing /\ phase = "last" /\ clean /\ handle = "open"
            /\ lost' = lost + 1 /\ UNCHANGED <<output, held>>
  <1>1. CASE PopNothing
    BY <1>1 DEF PopNothing, InCall, Count, NoFault, budget
  <1>2. CASE Take
    BY <1>2, NoneRefused DEF Take, Count, NoFault, budget
  <1>3. CASE TimeUp
    BY <1>3, NoneLate DEF TimeUp, Count, NoFault, budget, Fault
  <1>4. CASE StaleThrows
    BY <1>4 DEF StaleThrows, Count
  <1>5. CASE Arrived /\ Dispatch(Arriving)
    <2>1. Shape
      BY DEF IInv
    <2> QED
      BY <1>5, <2>1, DispatchDone DEF Answered
  <1>6. CASE User \/ Send \/ SendThrows \/ Skip \/ ParseByte \/ Poll \/ CountdownEnds \/ PowerCycle
    BY <1>6 DEF User, Connect, Disconnect, Ask, Command, Send, SendThrows, Skip, ParseByte, Poll,
      CountdownEnds, PowerCycle, NoFault, Fault, budget
  <1> QED
    BY <1>1, <1>2, <1>3, <1>4, <1>5, <1>6 DEF Next, Client, Firmware

-----------------------------------------------------------------------------
(* Headers without their payload *)

LEMMA StrayTypeNext ==
  ASSUME Shape, Shape', Next
  PROVE  /\ Stray' \in Nat /\ Stray' = Cardinality(Strays(input'))
         /\ input' \in Seq(Pieces(RespMsg)) /\ (Hid => Stray' = 0)
  <1>1. transport' = transport /\ Parts' = Parts
    BY TransportKept
  <1>2. input' \in Seq([part : Parts, msg : RespMsg])
    BY <1>1 DEF Shape
  <1>3. Stray' = Cardinality(Strays(input')) /\ Cardinality(Strays(input')) \in Nat
    BY <1>1, <1>2, StraysFinite, StrayNext
  <1> QED
    BY <1>2, <1>3, NoStrays DEF Pieces

\* A header is left without its payload only by a fault.
LEMMA StrayCounts ==
  ASSUME IInv, TypeOK', Shape', Next, ~Hid
  PROVE  \/ Stray' <= Stray
         \/ Stray' <= Stray + 1 /\ faults' = faults + 1 /\ lost' = 0
  <1>1. /\ TypeOK /\ Shape /\ CallInv /\ Pipe /\ transport' = transport /\ Parts' = Parts
        /\ input \in Seq(Pieces(RespMsg)) /\ faults \in Nat
    <2>1. TypeOK /\ Shape /\ CallInv /\ Pipe
      BY DEF IInv
    <2>2. faults \in Nat
      BY <2>1, BridgeAssumption DEF Shape
    <2> QED
      BY <2>1, <2>2, TransportKept, PieceTypes
  <1>2. /\ input' \in Seq(Pieces(RespMsg))
        /\ Stray' = Cardinality(Strays(input')) /\ Stray' \in Nat /\ Stray \in Nat
        /\ Stray = Cardinality(Strays(input))
    <2>1. input' \in Seq([part : Parts, msg : RespMsg])
      BY <1>1 DEF Shape
    <2>2. Stray' = Cardinality(Strays(input')) /\ Cardinality(Strays(input')) \in Nat
      BY <1>1, <2>1, StraysFinite, StrayNext
    <2> QED
      BY <1>1, <2>1, <2>2, StrayType DEF Pieces, Stray
  <1>3. CASE input' = input
    BY <1>2, <1>3
  <1>4. CASE input' = <<>>
    BY <1>2, <1>4, NoStrays
  <1>5. CASE Skip \/ PopNothing
    BY <1>1, <1>5, SkipKeeps, PopKeeps
  <1>6. CASE Take
    <2>1. /\ handle = "open" /\ Whole(Sync(input)) /\ Fits(Sync(input)[1].msg) /\ phase # "send"
          /\ input' = SubSeq(Sync(input), Width + 1, Len(Sync(input)))
      BY <1>6 DEF Take, InCall
    <2> PICK k \in {0, 1} : PipeInv(k)
      BY <1>1, <2>1 DEF Pipe
    <2> PICK d \in 1..Len(input) : Suffix(input, input', d)
      BY <1>1, <2>1, Taken
    <2> QED
      BY <1>1, <1>2, StraysSuffix
  <1>7. CASE Arrived /\ Dispatch(Arriving)
    <2> PICK r, parts : Answered(Arriving, r, parts)
      BY <1>1, <1>7, DispatchDone
    <2>1. r \in RespMsg /\ parts \in SUBSET Parts /\ Leaves(r, parts)
      BY DEF Answered
    <2>2. CASE input' = input
      BY <1>3, <2>2
    <2>3. CASE input' = input \o Frame(r, parts)
      <3>1. Stray' <= Stray + (IF parts = Parts THEN 0 ELSE 1)
        BY <1>1, <1>2, <2>1, <2>3, StraysAppend
      <3>2. CASE parts = Parts
        BY <1>2, <3>1, <3>2
      <3>3. CASE parts # Parts
        <4>1. faults' = faults + 1
          BY <3>3 DEF Answered
        <4>2. faults' # faults
          BY <1>1, <4>1
        <4>3. lost' = 0
          BY <4>2 DEF Answered
        <4> QED
          BY <3>1, <3>3, <4>1, <4>3
      <3> QED
        BY <3>2, <3>3
    <2> QED
      BY <2>1, <2>2, <2>3 DEF Leaves
  <1> QED
    BY <1>3, <1>4, <1>5, <1>6, <1>7
    DEF Next, User, Client, Firmware, Connect, Disconnect, Ask, Command, Send, SendThrows,
        StaleThrows, TimeUp, ParseByte, Poll, CountdownEnds, PowerCycle, Restart

LEMMA StrayStep ==
  ASSUME IInv, TypeOK', Shape', Next, ~Hid, lost' = 1
  PROVE  Stray' <= Stray
  BY StrayCounts

\* So there are no more of them than faults.
LEMMA StraysFaults ==
  ASSUME IInv, TypeOK', Shape', Next, Stray <= faults
  PROVE  Stray' <= faults'
  <1>1. TypeOK /\ Shape /\ Stray \in Nat /\ faults \in Nat
    <2>1. TypeOK /\ Shape
      BY DEF IInv
    <2>2. faults \in Nat
      BY <2>1, BridgeAssumption DEF Shape
    <2>3. Stray \in Nat
      BY <2>1, StrayType
    <2> QED
      BY <2>1, <2>2, <2>3
  <1>2. Stray' \in Nat /\ (Hid => Stray' = 0)
    BY <1>1, StrayTypeNext
  <1>3. faults' \in {faults, faults + 1}
    <2>1. Arrived /\ Dispatch(Arriving) => faults' \in {faults, faults + 1}
      BY <1>1, DispatchDone DEF Answered
    <2> QED
      BY <2>1 DEF Next, User, Client, Firmware, Connect, Disconnect, Ask, Command, Send, SendThrows,
        StaleThrows, Skip, PopNothing, TimeUp, Take, ParseByte, Poll, CountdownEnds, PowerCycle,
        Count, NoFault, Fault, budget
  <1>4. CASE Hid
    BY <1>1, <1>2, <1>3, <1>4
  <1>5. CASE ~Hid
    <2>1. \/ Stray' <= Stray
          \/ Stray' <= Stray + 1 /\ faults' = faults + 1
      BY <1>5, StrayCounts
    <2> QED
      BY <1>1, <1>2, <1>3, <2>1
  <1> QED
    BY <1>4, <1>5

-----------------------------------------------------------------------------
(* The frame under way, and the answer to it *)

LEMMA One ==
  ASSUME NEW S, NEW t \in Seq(S)
  PROVE  (Len(t) = 1 => t = <<t[1]>>) /\ (Len(t) = 2 => t = <<t[1], t[2]>>)
  OBVIOUS

LEMMA Two ==
  /\ \A a, b : <<>> \o (<<a>> \o <<b>>) = <<a, b>>
  /\ \A S : \A s \in Seq(S) : Len(s) = 2 => Tail(s) = <<s[2]>>
  <1>1. ASSUME NEW S, NEW s \in Seq(S), Len(s) = 2 PROVE Tail(s) = <<s[2]>>
    <2> PICK t : t = Tail(s)
      OBVIOUS
    <2>1. t \in Seq(S) /\ Len(t) = 1 /\ t[1] = s[2]
      <3>1. s # <<>>
        BY <1>1, EmptySeq
      <3>2. t \in Seq(S) /\ Suffix(s, t, 1)
        BY <3>1, TailSuffix
      <3> QED
        BY <1>1, <3>2 DEF Suffix
    <2> QED
      BY <2>1, One
  <1>2. ASSUME NEW a, NEW b PROVE <<>> \o (<<a>> \o <<b>>) = <<a, b>>
    <2> DEFINE S == {a, b}
    <2>1. <<a>> \in Seq(S) /\ <<b>> \in Seq(S) /\ Len(<<a>>) = 1 /\ Len(<<b>>) = 1
      OBVIOUS
    <2> PICK u : u = <<a>> \o <<b>>
      OBVIOUS
    <2>2. u \in Seq(S) /\ Len(u) = 2
      BY <2>1, Behind
    <2>3. u[1] = a /\ u[2] = b
      OBVIOUS
    <2>4. u = <<a, b>>
      <3>1. u = <<u[1], u[2]>>
        BY <2>2, One
      <3> QED
        BY <2>3, <3>1
    <2>5. <<>> \o u = u
      BY <2>2, ConcatEmptySeq
    <2> QED
      BY <2>4, <2>5
  <1> QED
    BY <1>1, <1>2

\* The frame a request leaves as is parsed before the client gives up.
LEMMA OneFrameStep ==
  ASSUME IInv, OInv, TypeOK', Shape', Next, lost = 1, lost' = 1
  PROVE  OneFrame'
  <1>1. /\ TypeOK /\ Shape /\ CallInv /\ Pipe /\ ~Hid /\ OneFrame /\ ByTransport
        /\ transport' = transport /\ Hid' = Hid /\ Parts' = Parts /\ NoPiece' = NoPiece
        /\ Width = 2 /\ Parts = {1, 2}
    BY TransportKept, WidthType DEF IInv, OInv, LostInv
  <1>2. output \in Seq(Pieces(ReqMsg)) /\ Len(output) \in Nat
    BY <1>1, PieceTypes
  <1>3. ASSUME output' = <<>>, held' = NoPiece PROVE OneFrame'
    BY <1>1, <1>3 DEF OneFrame
  <1>4. ASSUME phase \in {"send", "last"} \/ Ends(output) = {}
        PROVE  output = <<>> /\ held = NoPiece
    <2> SUFFICES ASSUME ~(output = <<>> /\ held = NoPiece) PROVE FALSE
      OBVIOUS
    <2>1. phase \notin {"send", "last"} /\ \E i \in 1..Len(output) : output[i].part = 2
      BY <1>1 DEF OneFrame
    <2> QED
      BY <1>1, <1>4, <2>1 DEF Ends
  <1>5. CASE UNCHANGED <<output, held>> /\ (phase' = phase \/ phase' \in {"pop", "read"})
    BY <1>1, <1>5 DEF OneFrame
  <1>6. CASE UNCHANGED <<output, held>> /\ output = <<>> /\ held = NoPiece
    BY <1>3, <1>6
  <1>7. CASE Send
    <2>1. /\ phase = "send" /\ phase' = "pop" /\ call # "none" /\ held' = held
          /\ output' = output \o Frame(Request, Parts)
      BY <1>7 DEF Send, InCall, Received, Fault
    <2>2. output = <<>> /\ held = NoPiece
      BY <1>4, <2>1
    <2>3. Frame(Request, Parts) = <<[part |-> 1, msg |-> Request]>> \o <<[part |-> 2, msg |-> Request]>>
      BY <1>1 DEF Frame
    <2>4. output' = <<[part |-> 1, msg |-> Request], [part |-> 2, msg |-> Request]>>
      BY <2>1, <2>2, <2>3, Two
    <2> QED
      BY <1>1, <2>1, <2>2, <2>4 DEF OneFrame
  <1>8. CASE TimeUp
    <2>1. UNCHANGED <<output, held>> /\ output = <<>>
      BY <1>1, <1>8 DEF TimeUp, Silent, Fault
    <2>2. Ends(output) = {}
      BY <2>1 DEF Ends
    <2> QED
      BY <1>4, <1>6, <2>1, <2>2
  <1>9. CASE Take
    <2>1. /\ handle = "open" /\ Whole(Sync(input)) /\ Fits(Sync(input)[1].msg) /\ phase # "send"
          /\ UNCHANGED <<output, held>>
      BY <1>9 DEF Take, InCall
    <2> PICK k \in {0, 1} : PipeInv(k)
      BY <1>1, <2>1 DEF Pipe
    <2>2. k = 0
      BY <1>1 DEF PipeInv
    <2>3. Ends(output) = {}
      BY <1>1, <2>1, <2>2, Taken
    <2> QED
      BY <1>4, <1>6, <2>1, <2>3
  <1>10. CASE Arrived /\ Dispatch(Arriving)
    <2> PICK r, parts : Answered(Arriving, r, parts)
      BY <1>1, <1>10, DispatchDone
    <2>1. output # <<>> /\ output' = Tail(output) /\ held' = NoPiece /\ held # NoPiece
      BY <1>1, <1>10 DEF Answered, Arrived
    <2>2. output = <<[part |-> 2, msg |-> held.msg]>>
      BY <1>1, <2>1 DEF OneFrame
    <2>3. output' = <<>>
      BY <2>1, <2>2
    <2> QED
      BY <1>3, <2>1, <2>3
  <1>11. CASE ParseByte
    <2>1. /\ output # <<>> /\ ~Arrived /\ output' = Tail(output) /\ phase' = phase
          /\ held' = IF held = NoPiece /\ Head(output).part = 1 THEN Head(output) ELSE NoPiece
      BY <1>11 DEF ParseByte, client
    <2>2. held = NoPiece
      <3> SUFFICES ASSUME held # NoPiece PROVE FALSE
        OBVIOUS
      <3>1. output = <<[part |-> 2, msg |-> held.msg]>>
        BY <1>1, <2>1 DEF OneFrame
      <3>2. Head(output) = [part |-> 2, msg |-> held.msg]
        BY <3>1
      <3> QED
        BY <1>1, <2>1, <3>2 DEF Arrived
    <2>3. /\ phase \notin {"send", "last"} /\ Len(output) = 2 /\ output[1].part = 1
          /\ output[2] = [part |-> 2, msg |-> output[1].msg]
      BY <1>1, <2>1, <2>2 DEF OneFrame
    <2>4. Head(output) = output[1] /\ held' = output[1]
      BY <1>2, <2>1, <2>2, <2>3
    <2>5. output' = <<output[2]>>
      BY <1>2, <2>1, <2>3, Two
    <2>6. held' # NoPiece
      BY <2>3, <2>4 DEF NoPiece
    <2>7. output' = <<[part |-> 2, msg |-> held'.msg]>>
      BY <2>3, <2>4, <2>5
    <2> QED
      BY <1>1, <2>1, <2>3, <2>6, <2>7 DEF OneFrame
  <1>12. CASE User \/ SendThrows \/ StaleThrows
    <2>1. call = "none" => phase = "send"
      BY <1>1 DEF CallInv
    <2>2. User
      <3>1. ~SendThrows
        BY DEF SendThrows, Fault
      <3>2. ~StaleThrows
        BY <1>1 DEF StaleThrows, ByTransport
      <3> QED
        BY <1>12, <3>1, <3>2
    <2>3. UNCHANGED <<output, held>> /\ phase = "send"
      BY <2>1, <2>2 DEF User, Connect, Disconnect, Ask, Command, Begin
    <2> QED
      BY <1>4, <1>6, <2>3
  <1>13. CASE Skip \/ PopNothing
    <2>1. /\ UNCHANGED <<output, held>> /\ phase \in {"pop", "last"}
          /\ phase' = phase \/ phase' = "read" \/ phase = "last"
      BY <1>13 DEF Skip, PopNothing, InCall, client
    <2> QED
      BY <1>4, <1>5, <1>6, <2>1
  <1>14. CASE CountdownEnds \/ PowerCycle \/ Poll
    BY <1>1, <1>3, <1>14 DEF CountdownEnds, PowerCycle, Restart, Poll
  <1> QED
    BY <1>7, <1>8, <1>9, <1>10, <1>11, <1>12, <1>13, <1>14 DEF Next, Client, Firmware

\* A whole frame that is put behind what has arrived leaves it as it is.
LEMMA FrameArrives ==
  ASSUME Shape, transport' = transport, NEW r \in RespMsg, input' = input \o Frame(r, Parts)
  PROVE  /\ \E n : WholeAt(n)' /\ input'[n].msg = r
         /\ \A i : WholeAt(i) => WholeAt(i)' /\ input'[i] = input[i]
  <1> DEFINE f == Frame(r, Parts)
  <1>1. /\ input \in Seq(Pieces(RespMsg)) /\ Len(input) \in Nat /\ Width' = Width /\ Hid' = Hid
        /\ Width \in {1, 2} /\ (Hid => Width = 1) /\ (~Hid => Width = 2)
    BY PieceTypes, EndsNext, WidthType DEF Hid
  <1>2. /\ f \in Seq(Pieces(RespMsg)) /\ Len(f) = Width
        /\ \A i \in 1..Len(f) : f[i].msg = r
        /\ Len(f) = 2 => f[1].part = 1 /\ f[2] = [part |-> 2, msg |-> r]
    BY FrameFacts
  <1>3. input' = input \o f
    OBVIOUS
  <1> HIDE DEF f
  <1>4. /\ Len(input') = Len(input) + Width /\ Len(input') \in Nat
        /\ \A i \in 1..Len(input) : input'[i] = input[i]
        /\ \A i \in 1..Width : input'[Len(input) + i] = f[i]
    BY <1>1, <1>2, <1>3, Behind
  <1> PICK n : n = Len(input')
    OBVIOUS
  <1>5. n \in 1..Len(input') /\ input'[n] = f[Width] /\ n = Len(input) + Width
    BY <1>1, <1>4
  <1>6. f[Width].part = Width /\ f[Width].msg = r
    <2>1. f[Width] \in Pieces(RespMsg) /\ f[Width].msg = r
      BY <1>1, <1>2
    <2>2. Hid => Parts = {1}
      BY WidthType
    <2> QED
      BY <1>1, <1>2, <2>1, <2>2 DEF Pieces
  <1>7. n \in Ends(input)'
    BY <1>1, <1>5, <1>6, EndsNext
  <1>8. ASSUME ~Hid PROVE n > 1 /\ input'[n - 1] = [part |-> 1, msg |-> r]
    <2>1. Width = 2 /\ n = Len(input) + 2
      BY <1>1, <1>5, <1>8
    <2>2. n > 1 /\ n - 1 = Len(input) + 1
      BY <1>1, <2>1
    <2>3. input'[n - 1] = f[1]
      BY <1>4, <2>1, <2>2
    <2>4. f[1] \in Pieces(RespMsg) /\ f[1].part = 1 /\ f[1].msg = r
      <3>1. Len(f) = 2 /\ 1 \in 1..Len(f)
        BY <1>2, <2>1
      <3>2. f[1].part = 1 /\ f[1].msg = r
        BY <1>2, <3>1
      <3>3. f \in Seq(Pieces(RespMsg))
        BY <1>2
      <3>4. f[1] \in Pieces(RespMsg)
        BY <3>1, <3>3, ElementOfSeq
      <3> QED
        BY <3>2, <3>4
    <2> QED
      BY <2>2, <2>3, <2>4 DEF Pieces
  <1>9. WholeAt(n)' /\ input'[n].msg = r
    BY <1>1, <1>5, <1>6, <1>7, <1>8 DEF WholeAt
  <1>10. ASSUME NEW i, WholeAt(i) PROVE WholeAt(i)' /\ input'[i] = input[i]
    <2>1. i \in 1..Len(input) /\ input[i].part = Width
      BY <1>10 DEF WholeAt, Ends
    <2>2. input'[i] = input[i] /\ i \in 1..Len(input')
      BY <1>1, <1>4, <2>1
    <2>3. i \in Ends(input)'
      BY <1>1, <2>1, <2>2, EndsNext
    <2>4. ~Hid => i > 1 /\ input'[i - 1] = [part |-> 1, msg |-> input'[i].msg]
      BY <1>1, <1>4, <1>10, <2>1, <2>2 DEF WholeAt
    <2> QED
      BY <1>1, <2>2, <2>3, <2>4 DEF WholeAt
  <1> QED
    BY <1>9, <1>10

LEMMA TailEnds ==
  ASSUME Shape, transport' = transport, output # <<>>, output' = Tail(output),
         seq' = seq, NEW i \in Ends(output), i # 1, Age(output[i].msg) = 0
  PROVE  Coming'
  <1>1. output \in Seq(Pieces(ReqMsg)) /\ Len(output) \in Nat
    BY PieceTypes
  <1>2. Suffix(output, output', 1) /\ output' \in Seq(Pieces(ReqMsg))
    BY <1>1, TailSuffix
  <1>3. i \in 1..Len(output) /\ output[i].part = Width
    BY DEF Ends
  <1> PICK j \in Nat : j = i - 1 /\ j \in 1..Len(output')
    <2>1. Len(output') = Len(output) - 1
      BY <1>2 DEF Suffix
    <2> QED
      BY <1>1, <1>3, <2>1
  <1>4. output'[j] = output[j + 1] /\ j + 1 = i
    BY <1>2, <1>3 DEF Suffix
  <1>5. j \in Ends(output)'
    BY <1>3, <1>4, EndsNext
  <1>6. Age(output[j].msg)' = 0
    BY <1>4 DEF Age
  <1> QED
    BY <1>5, <1>6 DEF Coming

LEMMA ComingStep ==
  ASSUME IInv, OInv, TypeOK', Shape', Next, clean', handle' = "open", phase' # "send",
         Hid \/ (lost = 1 /\ lost' = 1)
  PROVE  Coming'
  <1>1. /\ TypeOK /\ Shape /\ CallInv /\ Pipe /\ OnlyOurs /\ ParserInStep /\ LostInv /\ ByTransport
        /\ transport' = transport /\ Hid' = Hid /\ NoReply' = NoReply
        /\ seq \in SeqNumbers /\ Stray \in Nat /\ (Hid => Stray = 0)
    BY TransportKept, StrayType DEF IInv, OInv, TypeOK, SeqNumbers
  <1>2. /\ output \in Seq(Pieces(ReqMsg)) /\ Len(output) \in Nat
        /\ input \in Seq(Pieces(RespMsg)) /\ Len(input) \in Nat
    BY <1>1, PieceTypes
  <1>3. CASE Send
    <2>1. /\ call # "none" /\ seq' = (seq + 1) % SeqMod
          /\ output' = output \o Frame(Request, Parts)
      BY <1>3 DEF Send, InCall, Received, Fault
    <2>2. Request \in ReqMsg /\ Request.seq = seq
      BY <1>1, <2>1, RequestType, RequestFacts
    <2> DEFINE f == Frame(Request, Parts)
    <2>3. /\ f \in Seq(Pieces(ReqMsg)) /\ Len(f) = Width
          /\ \A i \in 1..Len(f) : f[i].msg = Request
          /\ Len(f) = 2 => f[2] = [part |-> 2, msg |-> Request]
          /\ output' = output \o f
      BY <2>1, <2>2, FrameFacts
    <2> HIDE DEF f
    <2>4. Width \in {1, 2} /\ (Hid => Width = 1) /\ (~Hid => Width = 2) /\ (Hid => Parts = {1})
      BY WidthType
    <2>5. f[Width].part = Width /\ f[Width].msg = Request
      <3>1. f[Width] \in Pieces(ReqMsg) /\ f[Width].msg = Request
        BY <2>3, <2>4
      <3> QED
        BY <2>3, <2>4, <3>1 DEF Pieces
    <2> PICK n : n = Len(output) + Width
      OBVIOUS
    <2>6. n \in 1..Len(output') /\ output'[n] = f[Width]
      BY <1>2, <2>3, <2>4, Behind
    <2>7. n \in Ends(output)'
      BY <1>1, <2>5, <2>6, EndsNext
    <2>8. Age(output[n].msg)' = AgeAt(seq, (seq + 1) % SeqMod)
      <3>1. Age(output[n].msg)' = AgeAt(output'[n].msg.seq, seq')
        BY DEF Age, AgeAt
      <3> QED
        BY <2>1, <2>2, <2>5, <2>6, <3>1
    <2>9. Age(output[n].msg)' = 0
      BY <1>1, <2>8, AgeAtFacts
    <2> QED
      BY <2>7, <2>9 DEF Coming
  <1>4. CASE ~Send
    <2>1. Waits /\ WaitSteps
      BY <1>1, <1>4, StillWaits
    <2>2. /\ clean /\ phase # "send" /\ UNCHANGED <<seq, call, step>>
      BY <2>1 DEF Waits
    <2>3. handle = "open"
      <3>1. handle' = handle \/ handle' = "stale" \/ handle' \notin {"open"}
        BY <1>1, <2>1, DispatchDone DEF WaitSteps, Answered, HostRest, Skip, PopNothing, TimeUp,
          ParseByte, Poll, CountdownEnds, PowerCycle, Restart, End
      <3> QED
        BY <3>1
    <2>4. Coming
      BY <1>1, <2>2, <2>3 DEF LostInv
    <2>5. Cmd' = Cmd
      BY <2>2 DEF Cmd, WriteStep, ReadStep
    <2>6. /\ \A q : Fits(q)' <=> Fits(q)
          /\ \A q : Age(q)' = Age(q)
      BY <2>2, <2>5 DEF Fits, Age
    <2>7. ASSUME UNCHANGED <<output, reply>>,
                 \A i : WholeAt(i) /\ Fits(input[i].msg) => \E j : WholeAt(j)' /\ input'[j] = input[i],
                 phase' \in {"read", "last"} /\ (phase \in {"read", "last"} => Stray = 0)
                   /\ (\E i : WholeAt(i)) => Stray' = 0
          PROVE  Coming'
      <3>1. CASE \E i \in Ends(output) : Age(output[i].msg) = 0
        <4> PICK i \in Ends(output) : Age(output[i].msg) = 0
          BY <3>1
        <4>1. i \in Ends(output)'
          BY <1>1, <2>7, EndsNext DEF Ends
        <4>2. Age(output[i].msg)' = 0
          BY <2>2, <2>7 DEF Age
        <4> QED
          BY <4>1, <4>2 DEF Coming
      <3>2. CASE reply # NoReply /\ Fits(reply)
        BY <1>1, <2>5, <2>7, <3>2, <2>2 DEF Coming, Fits
      <3>3. CASE /\ \E i \in 1..Len(input) : WholeAt(i) /\ Fits(input[i].msg)
                 /\ phase \in {"read", "last"} => Stray = 0
        <4> PICK j : WholeAt(j)' /\ Fits(input'[j].msg)
          BY <2>7, <3>3
        <4>1. Fits(input[j].msg)'
          BY <2>2, <2>5 DEF Fits
        <4>2. j \in 1..Len(input')
          BY <1>1, EndsNext DEF WholeAt
        <4>3. phase' \in {"read", "last"} => Stray' = 0
          BY <2>7, <3>3
        <4> QED
          BY <4>1, <4>2, <4>3 DEF Coming
      <3> QED
        BY <2>4, <3>1, <3>2, <3>3 DEF Coming
    <2>8. CASE Skip
      <3>1. UNCHANGED <<output, reply, phase>> /\ Stray' <= Stray
        BY <1>1, <2>8, SkipKeeps DEF Skip, client
      <3>2. Stray' \in Nat
        BY <1>1, StrayTypeNext
      <3>3. \A i : WholeAt(i) /\ Fits(input[i].msg) => \E j : WholeAt(j)' /\ input'[j] = input[i]
        BY <1>1, <2>8, SkipKeeps
      <3> QED
        BY <1>1, <2>7, <3>1, <3>2, <3>3
    <2>9. CASE PopNothing /\ phase = "pop" /\ phase' = "read"
      <3>1. UNCHANGED <<output, reply>>
        BY <2>9 DEF PopNothing
      <3>2. Stray' \in Nat
        BY <1>1, StrayTypeNext
      <3>3. \A i : WholeAt(i) => /\ ~Hid /\ Stray' <= Stray - 1
                                 /\ \E j : WholeAt(j)' /\ input'[j] = input[i]
        BY <1>1, <2>9, PopKeeps
      <3>4. ~Hid => Stray <= 1
        BY <1>1 DEF LostInv
      <3>5. (\E i : WholeAt(i)) => Stray' = 0
        BY <1>1, <3>2, <3>3, <3>4
      <3> QED
        BY <2>7, <3>1, <3>3, <3>5
    <2>10. CASE TimeUp /\ ~Hid
      <3>1. UNCHANGED <<input, output, reply>> /\ phase = "read"
        BY <2>10 DEF TimeUp, InCall
      <3>2. \A i : WholeAt(i) => WholeAt(i)' /\ input'[i] = input[i]
        BY <1>1, <3>1, EndsNext DEF WholeAt, Ends
      <3>3. Stray' = Stray
        BY <1>1, <3>1, StrayNext DEF Stray
      <3> QED
        BY <2>7, <3>1, <3>2, <3>3
    <2>11. CASE CountdownEnds \/ PowerCycle
      BY <2>11 DEF CountdownEnds, PowerCycle, Fault
    <2>12. CASE Arrived /\ Dispatch(Arriving)
      <3> DEFINE m == Arriving
      <3> PICK r, parts : Answered(m, r, parts)
        BY <1>1, <2>12, DispatchDone
      <3> HIDE DEF m
      <3> PICK k \in {0, 1} : PipeInv(k)
        BY <1>1, <2>3 DEF Pipe
      <3>1. /\ faults \in Nat /\ 1 \in Ends(output) /\ m = output[1].msg /\ m \in ReqMsg
            /\ output # <<>> /\ output' = Tail(output)
            /\ r.cmd = m.cmd /\ r.seq = m.seq /\ r \in RespMsg /\ Leaves(r, parts)
        BY <1>1, BridgeAssumption DEF Answered, Shape
      <3>2. parts = Parts /\ parts # {}
        <4>1. faults' = faults
          BY DEF Answered
        <4>2. parts = Parts
          BY <3>1, <4>1 DEF Answered
        <4> QED
          BY <4>2, WidthType
      <3>3. ASSUME Age(m) = 0 PROVE Fits(r) /\ Fits(r)'
        <4>1. m = [Request EXCEPT !.seq = m.seq]
          BY <2>2, <3>1, <3>3 DEF PipeInv, AnswerInv
        <4>2. m.cmd = Cmd
          BY <4>1, RequestFacts
        <4>3. r.seq \in SeqNumbers
          BY <3>1 DEF RespMsg, SeqNumbers
        <4>4. Age(r) = Age(m)
          BY <3>1 DEF Age
        <4>5. Fits(r)
          BY <1>1, <3>1, <3>3, <4>2, <4>3, <4>4, AgeFacts
        <4> QED
          BY <2>6, <4>5
      <3>4. CASE Hid
        <4>1. Age(m) = 0
          BY <1>1, <2>2, <3>1, <3>4 DEF OnlyOurs
        <4>2. reply' = r
          BY <3>1, <3>2, <3>4 DEF Leaves
        <4>3. r # NoReply /\ Fits(r)'
          BY <1>1, <3>1, <3>3, <4>1, PieceTypes
        <4> QED
          BY <1>1, <4>2, <4>3 DEF Coming, Fits
      <3>5. CASE ~Hid
        <4>1. k = 0 /\ reply = NoReply
          BY <1>1, <3>5 DEF PipeInv, Shape
        <4>2. ~(\E i \in Ends(input) : Fits(input[i].msg))
          <5> SUFFICES ASSUME NEW i \in Ends(input), Fits(input[i].msg) PROVE FALSE
            OBVIOUS
          <5>1. i \in Ours(0) /\ input[i].msg.seq \in SeqNumbers
            BY <1>1, PieceTypes DEF Ends, Ours
          <5>2. Age(input[i].msg) # 0
            BY <3>1, <4>1, <5>1 DEF PipeInv, LatestIsLast
          <5> QED
            BY <1>1, <5>1, <5>2, AgeFacts
        <4> PICK i \in Ends(output) : Age(output[i].msg) = 0
          BY <2>4, <4>1, <4>2 DEF Coming, WholeAt
        <4>3. CASE i = 1
          <5>1. Fits(r)'
            BY <3>1, <3>3, <4>3
          <5>2. /\ input' = input \o Frame(r, Parts)
                /\ phase' = IF phase = "read" THEN "pop" ELSE phase
            BY <2>3, <3>1, <3>2, <3>5 DEF Leaves
          <5>3. phase' \notin {"read", "last"}
            BY <1>1, <2>2, <3>1, <3>5, <5>2 DEF ParserInStep
          <5> PICK n : WholeAt(n)' /\ input'[n].msg = r
            BY <1>1, <3>1, <5>2, FrameArrives
          <5>4. n \in 1..Len(input')
            BY <1>1, EndsNext DEF WholeAt
          <5>5. Fits(input[n].msg)'
            BY <5>1 DEF Fits
          <5> QED
            BY <5>3, <5>4, <5>5 DEF Coming
        <4>4. CASE i # 1
          BY <1>1, <1>2, <2>2, <3>1, <4>4, TailEnds DEF Coming, Age
        <4> QED
          BY <4>3, <4>4
      <3> QED
        BY <3>4, <3>5
    <2>13. CASE ParseByte
      <3>1. /\ output # <<>> /\ ~Arrived /\ output' = Tail(output) /\ UNCHANGED <<phase, input, reply>>
        BY <2>13 DEF ParseByte, client
      <3>2. ~Hid /\ lost = 1
        BY <3>1 DEF Arrived
      <3>3. OneFrame /\ Width = 2 /\ reply = NoReply
        BY <1>1, <3>2, WidthType DEF LostInv, Shape
      <3>4. 1 \notin Ends(output)
        <4> SUFFICES ASSUME output[1].part = 2 PROVE FALSE
          BY <3>3 DEF Ends
        <4>1. held # NoPiece /\ output = <<[part |-> 2, msg |-> held.msg]>>
          BY <3>1, <3>3 DEF OneFrame
        <4>2. Head(output) = [part |-> 2, msg |-> held.msg]
          BY <4>1
        <4> QED
          BY <3>1, <3>2, <4>1, <4>2 DEF Arrived
      <3>5. CASE \E i \in Ends(output) : Age(output[i].msg) = 0
        <4> PICK i \in Ends(output) : Age(output[i].msg) = 0
          BY <3>5
        <4>1. i # 1
          BY <3>4
        <4> QED
          BY <1>1, <1>2, <2>2, <3>1, <4>1, TailEnds DEF Coming, Age
      <3>6. CASE ~(\E i \in Ends(output) : Age(output[i].msg) = 0)
        <4>1. /\ \E i \in 1..Len(input) : WholeAt(i) /\ Fits(input[i].msg)
              /\ phase \in {"read", "last"} => Stray = 0
          BY <2>4, <3>3, <3>6 DEF Coming
        <4>2. Stray' = Stray
          BY <1>1, <3>1, StrayNext DEF Stray
        <4> PICK i \in 1..Len(input) : WholeAt(i) /\ Fits(input[i].msg)
          BY <4>1
        <4>3. WholeAt(i)' /\ i \in 1..Len(input')
          BY <1>1, <3>1, EndsNext DEF WholeAt, Ends
        <4>4. Fits(input[i].msg)'
          BY <2>2, <2>5, <3>1 DEF Fits
        <4> QED
          BY <3>1, <4>1, <4>2, <4>3, <4>4 DEF Coming
      <3> QED
        BY <3>5, <3>6
    <2>14. CASE Poll
      <3>1. /\ Hid /\ reply # NoReply /\ UNCHANGED output /\ input' = input \o Frame(reply, Parts)
        BY <2>14 DEF Poll
      <3>2. reply \in RespMsg /\ Stray' = 0
        BY <1>1, <3>1, PieceTypes, StrayTypeNext
      <3>3. /\ \E n : WholeAt(n)' /\ input'[n].msg = reply
            /\ \A i : WholeAt(i) => WholeAt(i)' /\ input'[i] = input[i]
        BY <1>1, <3>1, <3>2, FrameArrives
      <3>4. CASE \E i \in Ends(output) : Age(output[i].msg) = 0
        <4> PICK i \in Ends(output) : Age(output[i].msg) = 0
          BY <3>4
        <4>1. i \in Ends(output)'
          BY <1>1, <3>1, EndsNext DEF Ends
        <4>2. Age(output[i].msg)' = 0
          BY <2>2, <3>1 DEF Age
        <4> QED
          BY <4>1, <4>2 DEF Coming
      <3>5. CASE \E j : WholeAt(j)' /\ Fits(input'[j].msg)
        <4> PICK j : WholeAt(j)' /\ Fits(input'[j].msg)
          BY <3>5
        <4>1. Fits(input[j].msg)'
          BY <2>2, <2>5 DEF Fits
        <4>2. j \in 1..Len(input')
          BY <1>1, EndsNext DEF WholeAt
        <4> QED
          BY <3>2, <4>1, <4>2 DEF Coming
      <3> QED
        BY <2>4, <3>3, <3>4, <3>5 DEF Coming
    <2> QED
      BY <2>1, <2>8, <2>9, <2>10, <2>11, <2>12, <2>13, <2>14 DEF WaitSteps
  <1> QED
    BY <1>3, <1>4

-----------------------------------------------------------------------------
(* The theorems *)

LEMMA LostInvStep ==
  ASSUME IInv, OInv, TypeOK', Shape', Next
  PROVE  LostInv'
  <1>1. Shape /\ Hid' = Hid /\ LostInv /\ lost \in {0, 1} /\ (Hid => lost = 0)
    <2>1. Shape /\ LostInv
      BY DEF IInv, OInv
    <2> QED
      BY <2>1, TransportKept DEF LostInv
  <1>2. Stray' \in Nat /\ (Hid => Stray' = 0)
    BY <1>1, StrayTypeNext
  <1>3. CASE PopNothing /\ phase = "last" /\ clean /\ handle = "open"
             /\ lost' = lost + 1 /\ UNCHANGED <<output, held>>
    <2>1. lost = 0 /\ ~Hid /\ output = <<>> /\ held = NoPiece /\ Stray' <= 1
      BY <1>2, <1>3, LastPop
    <2>2. phase' = "send"
      BY <1>3 DEF PopNothing, InCall, End
    <2>3. NoPiece' = NoPiece
      BY DEF NoPiece
    <2>4. OneFrame'
      BY <1>3, <2>1, <2>3 DEF OneFrame
    <2> QED
      BY <1>1, <1>3, <2>1, <2>2, <2>4 DEF LostInv
  <1>4. CASE lost' \in {0, lost}
    <2>1. lost' = 0 \/ (lost = 1 /\ lost' = 1)
      BY <1>1, <1>4
    <2>2. (lost' = 0 \/ (lost = 1 /\ lost' = 1)) /\ (Hid => lost' = 0)
      BY <1>1, <2>1
    <2>3. ASSUME lost' = 1 PROVE OneFrame' /\ Stray' <= 1
      <3>1. lost = 1 /\ ~Hid
        BY <2>2, <2>3
      <3>2. OneFrame'
        BY <2>3, <3>1, OneFrameStep
      <3>3. Stray' <= Stray
        BY <2>3, <3>1, StrayStep
      <3>4. Stray <= 1 /\ Stray \in Nat
        BY <1>1, <3>1, StrayType DEF LostInv
      <3> QED
        BY <1>2, <3>2, <3>3, <3>4
    <2>4. ASSUME clean', handle' = "open", phase' # "send", Hid \/ lost' = 1
          PROVE  Coming'
      BY <2>2, <2>4, ComingStep
    <2> QED
      BY <1>1, <2>2, <2>3, <2>4 DEF LostInv
  <1> QED
    BY <1>3, <1>4, LostCounts

\* The next step, while few headers are left over at the host.
LEMMA OInvStep ==
  ASSUME MaxFaults + 1 < SeqMod, Chunks <= StageSize, IInv, OInv, Next, Connect => output = <<>>,
         Stray <= 3
  PROVE  OInv'
  <1> USE DEF OInv
  <1>1. TypeOK /\ Shape /\ CallInv /\ TypeOK' /\ Shape' /\ CallInv'
    <2>1. IInv'
      BY IInvStep
    <2> QED
      BY <2>1 DEF IInv
  <1>2. AnswersOk' /\ ByTransport' /\ EnabledInv'
    BY <1>1, AnswersOkStep, ByTransportStep, EnabledStep
  <1>3. OnlyOurs'
    BY <1>1, OnlyOursStep
  <1>4. Willing'
    BY <1>1, <1>2, WillingStep
  <1>5. ParserInStep'
    BY <1>1, ParserStep
  <1>6. LostInv'
    BY <1>1, LostInvStep
  <1> QED
    BY <1>2, <1>3, <1>4, <1>5, <1>6

LEMMA OInvInit ==
  ASSUME Init
  PROVE  OInv
  <1> USE DEF Init
  <1>1. AnswersOk /\ ByTransport /\ EnabledInv
    BY DEF AnswersOk, ByTransport, EnabledInv, Transfers
  <1>2. OnlyOurs /\ Willing
    BY DEF OnlyOurs, Willing, Transfers
  <1>3. ParserInStep /\ LostInv
    <2>1. Stray = 0
      BY IInvInit, NoStrays DEF Stray
    <2> QED
      BY <2>1 DEF ParserInStep, LostInv, OneFrame
  <1> QED
    BY <1>1, <1>2, <1>3 DEF OInv

LEMMA OInvStutters ==
  ASSUME IInv, OInv, UNCHANGED vars
  PROVE  OInv'
  <1> USE DEF vars
  <1>1. /\ Hid' = Hid /\ Width' = Width /\ NoPiece' = NoPiece /\ NoReply' = NoReply
        /\ Transfers' = Transfers
    BY DEF Hid, Width, NoPiece, NoReply, Transfers
  <1>11. Cmd' = Cmd
    BY DEF Cmd, WriteStep, ReadStep
  <1>2. Stray' = Stray
    BY <1>1 DEF Stray, Strays
  <1>3. AnswersOk' /\ ByTransport' /\ EnabledInv'
    BY <1>1 DEF OInv, AnswersOk, NeverRefused, ByTransport, EnabledInv
  <1>4. Ends(output)' = Ends(output) /\ Ends(input)' = Ends(input)
    BY <1>1 DEF Ends
  <1>5. OnlyOurs'
    BY <1>1, <1>4 DEF OInv, OnlyOurs, Age
  <1>6. Willing'
    <2>1. Fetchable' <=> Fetchable
      BY DEF Fetchable, Upto
    <2>2. \A i : Grants(input[i].msg)' <=> Grants(input[i].msg)
      BY <1>11, <2>1 DEF Grants, Fits, Refused
    <2>3. Grants(reply)' <=> Grants(reply)
      BY <1>11, <2>1 DEF Grants, Fits, Refused
    <2> QED
      BY <1>1, <1>4, <2>1, <2>2, <2>3 DEF OInv, Willing
  <1>7. ParserInStep'
    BY <1>1, <1>2 DEF OInv, ParserInStep
  <1>8. OneFrame' <=> OneFrame
    BY <1>1 DEF OneFrame
  <1>9. Coming' <=> Coming
    <2>1. \A i : WholeAt(i)' <=> WholeAt(i)
      BY <1>1, <1>4 DEF WholeAt
    <2>2. \A i : Fits(input[i].msg)' <=> Fits(input[i].msg)
      BY <1>11 DEF Fits
    <2>3. Fits(reply)' <=> Fits(reply)
      BY <1>11 DEF Fits
    <2>4. \A i : Age(output[i].msg)' = Age(output[i].msg)
      BY DEF Age
    <2> QED
      BY <1>1, <1>2, <1>4, <2>1, <2>2, <2>3, <2>4 DEF Coming
  <1>10. LostInv'
    BY <1>1, <1>2, <1>8, <1>9 DEF OInv, LostInv
  <1> QED
    BY <1>3, <1>5, <1>6, <1>7, <1>10 DEF OInv

LEMMA OInvKept ==
  ASSUME MaxFaults + 1 < SeqMod, Chunks <= StageSize, IInv, OInv, Stray <= 3, [Next]_vars,
         [Connect => output = <<>>]_vars
  PROVE  OInv'
  BY OInvStep, OInvStutters

LEMMA FaultsKept ==
  ASSUME MaxFaults + 1 < SeqMod, IInv, Stray <= faults, [Next]_vars,
         [Connect => output = <<>>]_vars
  PROVE  (Stray <= faults)'
  <1>1. CASE Next /\ (Connect => output = <<>>)
    <2>1. TypeOK' /\ Shape'
      BY <1>1, IInvStep DEF IInv
    <2> QED
      BY <1>1, <2>1, StraysFaults
  <1>2. CASE UNCHANGED vars
    BY <1>2 DEF vars, Stray, Strays, Width, Hid
  <1> QED
    BY <1>1, <1>2

\* Of transfers in which nothing goes wrong at most one in a row fails, whatever
\* went wrong before (bridge_service.cpp, bridge_vcom_client.cpp), while no more
\* than three headers are left over at the host; four outlast a call, which may
\* leave as many again. A packet the bridge cannot stage is no such transfer.
THEOREM BridgeLosesOneAtATime ==
  ASSUME MaxFaults + 1 < SeqMod, Chunks <= StageSize
  PROVE  Spec /\ QuietConnect /\ FewStrays => []AtMostOneLost
  <1>1. Init => OInv
    BY OInvInit
  <1>2. IInv /\ OInv /\ Stray <= 3 /\ [Next]_vars /\ [Connect => output = <<>>]_vars => OInv'
    BY OInvKept
  <1>3. OInv => AtMostOneLost
    BY DEF OInv, LostInv, AtMostOneLost
  <1> QED
    BY <1>1, <1>2, <1>3, Inductive, PTL DEF Spec, QuietConnect, FewStrays

\* A header is left over only when its payload was lost: at most three things
\* that go wrong never make two such transfers in a row fail, whatever they are.
THEOREM BridgeLosesOne ==
  ASSUME MaxFaults + 1 < SeqMod, Chunks <= StageSize, MaxFaults <= 3
  PROVE  Spec /\ QuietConnect => []AtMostOneLost
  <1>1. Init => Stray <= faults
    <2>1. ASSUME Init PROVE Stray = 0 /\ faults = 0
      BY <2>1, NoStrays DEF Init, Stray
    <2> QED
      BY <2>1
  <1>2. IInv /\ Stray <= faults /\ [Next]_vars /\ [Connect => output = <<>>]_vars
          => (Stray <= faults)'
    BY FaultsKept
  <1>3. IInv /\ Stray <= faults => Stray <= 3
    <2>1. ASSUME IInv, Stray <= faults PROVE Stray <= 3
      <3>1. faults \in 0..MaxFaults /\ Shape
        BY <2>1 DEF IInv, TypeOK, Shape
      <3>2. Stray \in Nat
        BY <3>1, StrayType
      <3> QED
        BY <2>1, <3>1, <3>2, BridgeAssumption
    <2> QED
      BY <2>1
  <1>4. Spec /\ QuietConnect => FewStrays
    BY <1>1, <1>2, <1>3, Inductive, PTL DEF Spec, QuietConnect, FewStrays
  <1> QED
    BY <1>4, BridgeLosesOneAtATime, PTL

\* Over HID, where a report arrives whole or not at all, no such transfer fails
\* (bridge_hid_client.cpp): what may be left over there is answers, which go by.
THEOREM BridgeLosesNoneOverHid ==
  ASSUME MaxFaults + 1 < SeqMod, Chunks <= StageSize
  PROVE  Spec /\ QuietConnect => [](Hid => lost = 0)
  <1>1. Init => (Hid => OInv)
    BY OInvInit
  <1>2. IInv /\ (Hid => OInv) /\ [Next]_vars /\ [Connect => output = <<>>]_vars => (Hid => OInv)'
    <2>1. ASSUME IInv, Hid => OInv, Next, Connect => output = <<>>, Hid' PROVE OInv'
      <3>1. Shape
        BY <2>1 DEF IInv
      <3>2. Hid
        BY <2>1, <3>1, TransportKept
      <3>3. Stray <= 3
        BY <3>1, <3>2, StrayType
      <3> QED
        BY <2>1, <3>2, <3>3, OInvStep
    <2>2. ASSUME IInv, Hid => OInv, UNCHANGED vars, Hid' PROVE OInv'
      <3>1. Hid
        BY <2>2 DEF vars, Hid
      <3> QED
        BY <2>2, <3>1, OInvStutters
    <2> QED
      BY <2>1, <2>2
  <1>3. (Hid => OInv) => (Hid => lost = 0)
    BY DEF OInv, LostInv
  <1> QED
    BY <1>1, <1>2, <1>3, Inductive, PTL DEF Spec, QuietConnect
=============================================================================
