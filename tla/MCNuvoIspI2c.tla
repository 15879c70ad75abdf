---------------------------- MODULE MCNuvoIspI2c ----------------------------
(***************************************************************************)
(* Instances of NuvoIspI2c: flash words of two bits, pages of four words,  *)
(* two pages of APROM and one of data flash, packets of one and two words. *)
(***************************************************************************)
EXTENDS NuvoIspI2c, FiniteSetsExt

MCBits == {1, 2}

\* The additive checksum: a word weighs what its bits weigh.
Weight(w) == SumSet(w)
MCDataSum(d) == MapThenSumSet(LAMBDA i : Weight(d[i]), DOMAIN d)

\* A binary of blocks of one, two, two and one words, across a page boundary.
MCImage == [i \in 1..6 |-> CASE i % 3 = 0 -> {} [] i % 3 = 1 -> {2} [] OTHER -> {1}]

\* The same, up to the last word before the data flash.
MCFullImage == [i \in 1..8 |-> CASE i % 3 = 0 -> {} [] i % 3 = 1 -> {2} [] OTHER -> {1}]

\* App_IsValid accepts the binary and nothing else.
MCAppIsValid(f) == \A i \in 1..ImageLen : f[i - 1] = Image[i]
=============================================================================
