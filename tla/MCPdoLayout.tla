---------------------------- MODULE MCPdoLayout ----------------------------
(* An instance of PdoLayout for TLC: up to two entries per slave; areas as   *)
(* SOEM places them, some absent, some too small, small ones packed into a    *)
(* byte; the image sometimes a byte shorter than they are.                    *)
EXTENDS PdoLayout, SequencesExt

CONSTANTS BitLengths, AreaBits

MCDescriptions == SeqOf([direction : Directions, bitLength : BitLengths], 2)

\* The areas in the order of the image: outputs first.
Order == << <<1, "OUTPUT">>, <<2, "OUTPUT">>, <<1, "INPUT">>, <<2, "INPUT">> >>

\* The next byte boundary.
ByteUp(bit) == 8 * ByteOf(bit + 7)

\* An area of fewer than 8 bits starts at the next bit, a larger one at the next
\* byte, and so does the first of the inputs.
First(bit, a, bits) ==
  IF bits[a] < 8 /\ a # <<1, "INPUT">> THEN bit ELSE ByteUp(bit)

After(bit, a, bits) ==
  First(bit, a, bits) + (IF bits[a] < 8 THEN bits[a] ELSE ByteUp(bits[a]))

\* The bit after the first n areas, for areas of these bits.
Offset(bits, n) == FoldLeft(LAMBDA bit, a : After(bit, a, bits), 0, SubSeq(Order, 1, n))

Place(bits) ==
  [a \in Areas |->
     LET n   == CHOOSE m \in 1 .. 4 : Order[m] = a
         bit == First(Offset(bits, n - 1), a, bits)
     IN  IF bits[a] = 0 THEN NoArea
         ELSE [base |-> ByteOf(bit), start |-> bit % 8, bits |-> bits[a]]]

MCMappings ==
  UNION {{[size |-> size, area |-> Place(bits)] :
            size \in LET bytes == ByteOf(Offset(bits, 4) + 7)
                     IN  {bytes, bytes - 1} \cap Nat} :
         bits \in [Areas -> AreaBits]}

\* One output of four bits per slave.
MCSmallOutput == {<<[direction |-> "OUTPUT", bitLength |-> 4]>>}
=============================================================================
