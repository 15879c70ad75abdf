----------------------------- MODULE IspTarget -----------------------------
(***************************************************************************)
(* The target's LDROM: the command interpreter ParseCmd of isp_user.c, the *)
(* flash it programs, and the boot decision of main.c.  One module for     *)
(* both samples; CONSTANT TwoK selects the 2 KB variant, which compiles    *)
(* CMD_RESEND_PACKET and App_IsValid out.                                  *)
(*                                                                         *)
(* The unit of an address is a flash word.  A word is the set of its bits  *)
(* that read as one, so erasing makes it Bits and programming, which can   *)
(* only clear bits, intersects.  The commands modelled are those a client  *)
(* of this repository sends, and a code nobody knows.                      *)
(***************************************************************************)
EXTENDS Integers

CONSTANTS
  Bits,          \* the bits of a flash word
  PageSize,      \* FMC_FLASH_PAGE_SIZE in words
  FlashSize,     \* words of on-chip flash: APROM, then the data flash
  DataFlashAddr, \* g_dataFlashAddr: the first word of the data flash
  FirstLen,      \* data words of an UPDATE_APROM packet (12 of 16)
  DataLen,       \* data words of a continuation packet (14 of 16)
  DataSum(_),    \* the sum of the bytes of a payload
  AppIsValid(_), \* App_IsValid: vectors and CRC word of the application
  TwoK           \* the 2 KB LDROM sample

Word == SUBSET Bits
Erased == Bits
Zero == {}
Addr == 0..(FlashSize - 1)
Payload == [1..DataLen -> Word]
NoData == [i \in 1..DataLen |-> Zero]

\* The command codes of isp_user.h; Continue is the 0 of a data packet.
Continue == 0
UpdateAprom == 160
ReadConfig == 162
SyncPackno == 164
GetFwVer == 166
RunAprom == 171
Reset == 173
Connect == 174
GetDeviceId == 177
ResendPacket == 255
Unknown == 1

Commands == {Continue, UpdateAprom, ReadConfig, SyncPackno, GetFwVer, RunAprom,
             Reset, Connect, GetDeviceId, ResendPacket, Unknown}

(***************************************************************************)
(* A packet is its command, its index, its argument (the number of         *)
(* CMD_SYNC_PACKNO, the total length of CMD_UPDATE_APROM) and its data.    *)
(***************************************************************************)
ByteSum(n) == (n % 256) + ((n \div 256) % 256)
                + ((n \div 65536) % 256) + ((n \div 16777216) % 256)
Packet == [cmd : Commands, idx : Nat, arg : Nat, data : Payload]
Checksum(p) == ByteSum(p.cmd) + ByteSum(p.idx) + ByteSum(p.arg) + DataSum(p.data)

NoPacket == [cmd |-> Continue, idx |-> 0, arg |-> 0, data |-> <<>>]
NoResponse == [ck |-> 0, idx |-> 0]
Response == [ck : Nat, idx : Nat]

ASSUME GeometryAssumption ==
  /\ PageSize \in Nat \ {0} /\ FlashSize \in Nat /\ DataFlashAddr \in Nat
  /\ FirstLen \in Nat \ {0} /\ DataLen \in Nat
  /\ FirstLen <= DataLen /\ DataLen <= PageSize
  /\ DataFlashAddr <= FlashSize
  /\ DataFlashAddr % PageSize = 0
  /\ TwoK \in BOOLEAN

\* The sum of the data notices a change of one word.
ASSUME DataSumAssumption ==
  \A d \in Payload :
    /\ DataSum(d) \in Nat
    /\ \A i \in 1..DataLen, w \in Word : w # d[i] => DataSum([d EXCEPT ![i] = w]) # DataSum(d)

VARIABLES
  flash,         \* the content of the flash
  mode,          \* "boot": LDROM waiting, "isp": serving, "app": left for APROM
  gcmd, startAddr, totalLen, lastLen, packno, \* the statics of ParseCmd
  inbox,         \* i2c_rcvbuf when bI2cDataReady, else NoPacket
  outbox         \* response_buff when bISPDataReady, else NoResponse

cursor == <<startAddr, totalLen, lastLen>>
targetVars == <<flash, mode, gcmd, startAddr, totalLen, lastLen, packno, inbox, outbox>>

-----------------------------------------------------------------------------
(* Flash operations (fmc_user.c).  An access outside the flash sets ISPFF, *)
(* stops the loop and is ignored by ParseCmd.                              *)

Erase(f, from, to) ==
  [a \in Addr |-> IF from <= a /\ a < to THEN Erased ELSE f[a]]

\* WriteData: n words of d from address s.  A negative s is a wrapped one.
Write(f, s, n, d) ==
  [a \in Addr |-> IF 0 <= s /\ s <= a /\ a < s + n THEN f[a] \cap d[a - s + 1] ELSE f[a]]

\* memset and ReadData: the data field of the packet as echoed.
ReadBack(f, s, n, d) ==
  [i \in 1..DataLen |->
     IF i > n THEN d[i]
     ELSE IF 0 <= s /\ s + i - 1 < FlashSize THEN f[s + i - 1] ELSE Zero]

PageOf(a) == a - (a % PageSize)

\* Mutants of RollBack: the next page is forgotten; what precedes s is not saved.
RollBackOnePage(f, s, n) == IF s < 0 THEN f ELSE Erase(f, s, PageOf(s) + PageSize)
RollBackUnsaved(f, s, n) == IF s < 0 THEN f ELSE Erase(f, PageOf(s), PageOf(s) + 2 * PageSize)

(***************************************************************************)
(* CMD_RESEND_PACKET erases the page of the rolled-back address s, having  *)
(* saved what precedes s, and the next page as well when the last packet   *)
(* reached or crossed the end of its page.                                 *)
(***************************************************************************)
RollBack(f, s, n) ==
  IF s < 0 THEN f
  ELSE Erase(f, s, PageOf(s) + IF s % PageSize >= PageSize - n
                               THEN 2 * PageSize ELSE PageSize)

-----------------------------------------------------------------------------
TargetInit ==
  /\ flash \in {[a \in Addr |-> Zero], [a \in Addr |-> Erased]}
  /\ mode = "boot"
  /\ gcmd = Continue /\ startAddr = 0 /\ totalLen = 0 /\ lastLen = 0 /\ packno = 1
  /\ inbox = NoPacket /\ outbox = NoResponse

\* The RAM of the LDROM after any reset of the chip.
Restart(m) ==
  /\ mode' = m
  /\ gcmd' = Continue /\ startAddr' = 0 /\ totalLen' = 0 /\ lastLen' = 0 /\ packno' = 1
  /\ inbox' = NoPacket /\ outbox' = NoResponse
  /\ UNCHANGED flash

\* The main loop takes the packet p out of the receive buffer.
Take(p) ==
  /\ mode \in {"boot", "isp"} /\ inbox # NoPacket
  /\ p = inbox
  /\ inbox' = NoPacket

\* The label out of ParseCmd: checksum of the buffer as it is now, index n + 1.
Answer(buffer, n) ==
  /\ mode' = "isp"
  /\ outbox' = [ck |-> Checksum(buffer), idx |-> n + 1]
  /\ packno' = n + 2

\* Mutant of Program: the last packet is not cut to what is left of t.
ProgramUncut(p, f, s, t, room) ==
  LET g == Write(f, s, room, p.data)
  IN /\ flash' = g
     /\ startAddr' = s + room /\ totalLen' = t - room /\ lastLen' = room
     /\ Answer([p EXCEPT !.data = ReadBack(g, s, room, p.data)], packno)

\* Programs the data of p at s, limited to what is left of t, and echoes it.
Program(p, f, s, t, room) ==
  LET n == IF t < room THEN t ELSE room
      g == Write(f, s, n, p.data)
  IN /\ flash' = g
     /\ startAddr' = s + n /\ totalLen' = t - n /\ lastLen' = n
     /\ Answer([p EXCEPT !.data = ReadBack(g, s, n, p.data)], packno)

ParseSync(p) ==
  /\ Take(p) /\ p.cmd = SyncPackno
  /\ gcmd' = SyncPackno
  /\ Answer(p, p.arg)
  /\ UNCHANGED <<flash, cursor>>

ParseConnect(p) ==
  /\ Take(p) /\ p.cmd = Connect
  /\ gcmd' = Connect
  /\ Answer(p, 1)
  /\ UNCHANGED <<flash, cursor>>

\* Queries, and codes ParseCmd does not know: gcmd changes, nothing is written.
ParseQuery(p) ==
  /\ Take(p) /\ p.cmd \in {GetFwVer, GetDeviceId, ReadConfig, Unknown}
  /\ gcmd' = p.cmd
  /\ Answer(p, packno)
  /\ UNCHANGED <<flash, cursor>>

ParseRunRefused(p) ==
  /\ Take(p) /\ p.cmd = RunAprom
  /\ ~TwoK /\ ~AppIsValid(flash)
  /\ gcmd' = RunAprom
  /\ Answer(p, packno)
  /\ UNCHANGED <<flash, cursor>>

ParseRun(p) ==
  /\ Take(p) /\ p.cmd = RunAprom
  /\ TwoK \/ AppIsValid(flash)
  /\ Restart("app")

ParseReset(p) ==
  /\ Take(p) /\ p.cmd = Reset
  /\ Restart("boot")

\* Mutant of ParseUpdate: the erase is not bounded by g_dataFlashAddr.
ParseUpdateAll(p) ==
  /\ Take(p) /\ p.cmd = UpdateAprom
  /\ gcmd' = UpdateAprom
  /\ Program(p, Erase(flash, 0, FlashSize), 0, p.arg, FirstLen)

ParseUpdate(p) ==
  /\ Take(p) /\ p.cmd = UpdateAprom
  /\ gcmd' = UpdateAprom
  /\ Program(p, Erase(flash, 0, DataFlashAddr), 0, p.arg, FirstLen)

\* In the 2 KB sample the resend branch is under #if 0: its packet is data like any other.
IsData(p) == p.cmd = Continue \/ (TwoK /\ p.cmd = ResendPacket)

ParseData(p) ==
  /\ Take(p) /\ IsData(p)
  /\ gcmd = UpdateAprom
  /\ Program(p, flash, startAddr, totalLen, DataLen)
  /\ UNCHANGED gcmd

ParseStrayData(p) ==
  /\ Take(p) /\ IsData(p)
  /\ gcmd # UpdateAprom
  /\ Answer(p, packno)
  /\ UNCHANGED <<flash, gcmd, cursor>>

ParseResend(p) ==
  /\ Take(p) /\ p.cmd = ResendPacket
  /\ ~TwoK
  /\ startAddr' = startAddr - lastLen
  /\ totalLen' = totalLen + lastLen
  /\ flash' = RollBack(flash, startAddr - lastLen, lastLen)
  /\ Answer(p, packno)
  /\ UNCHANGED <<gcmd, lastLen>>

ParseCmd ==
  \/ ParseSync(inbox) \/ ParseConnect(inbox) \/ ParseQuery(inbox)
  \/ ParseRunRefused(inbox) \/ ParseRun(inbox) \/ ParseReset(inbox)
  \/ ParseUpdate(inbox) \/ ParseData(inbox) \/ ParseStrayData(inbox)
  \/ ParseResend(inbox)

\* 300 ms after reset with no packet: leave for the application, or stay.
BootTimeout ==
  /\ mode = "boot" /\ inbox = NoPacket
  /\ IF TwoK \/ AppIsValid(flash)
     THEN Restart("app")
     ELSE mode' = "isp" /\ UNCHANGED <<flash, gcmd, cursor, packno, inbox, outbox>>

\* The chip is reset from outside: power, nRESET, or the user's strap.
PowerCycle == Restart("boot")

-----------------------------------------------------------------------------
\* The state of the target keeps its shape.
TargetTypeOK ==
  /\ flash \in [Addr -> Word]
  /\ mode \in {"boot", "isp", "app"}
  /\ gcmd \in Commands /\ startAddr \in Int /\ totalLen \in Nat
  /\ lastLen \in 0..DataLen /\ packno \in Nat \ {0}
  /\ inbox \in Packet \cup {NoPacket} /\ outbox \in Response
=============================================================================
