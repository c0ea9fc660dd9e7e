--------------------------- MODULE MC_SCSIManager ---------------------------
(* Two targets, three table entries, words of 2 bits, and TIBs for the     *)
(* instructions, alone and changing each other.                            *)
EXTENDS SCSIManager

I(op, p, n) == [op |-> op, ptr |-> p, len |-> n]
Stop == I("scStop", 0, 0)
TIB(program, denotes) == [program |-> program, denotes |-> denotes]

MCTIBs ==
  { \* two adjacent pieces and a distant one
    TIB(<<I("scNoInc", 1, 1), I("scNoInc", 2, 2), I("scNoInc", 7, 1), Stop>>, <<1, 2, 3, 7>>),
    \* a buffer filled by a loop of three rounds
    TIB(<<I("scInc", 1, 1), I("scLoop", -10, 3), Stop>>, <<1, 2, 3>>),
    \* the same byte twice
    TIB(<<I("scNoInc", 4, 1), I("scLoop", -10, 2), Stop>>, <<4, 4>>),
    \* a loop that starts at 0 runs Word times
    TIB(<<I("scInc", 1, 1), I("scLoop", -10, 0), Stop>>, <<1, 2, 3, 4>>),
    \* a loop in a loop: the inner counter wraps in the second round
    TIB(<<I("scInc", 1, 1), I("scLoop", -10, 1), I("scLoop", -20, 2), Stop>>, <<1, 2, 3, 4, 5>>),
    \* a stride: the pointer of the first piece is moved on
    TIB(<<I("scNoInc", 1, 1), I("scAdd", 2, 2), I("scLoop", -20, 2), Stop>>, <<1, 3>>),
    \* the pointer that scInc left is copied to a second piece
    TIB(<<I("scInc", 3, 2), I("scMove", 2, 22), I("scNoInc", 0, 1), Stop>>,
        <<3, 4, 5>>),
    TIB(<<I("scInc", 1, 1), I("scComp", 0, 0)>>, <<>>),
    \* nothing is transferred
    TIB(<<I("scNop", 0, 0), I("scLoop", -10, 2), Stop>>, <<>>),
    TIB(<<I("illegal", 0, 0)>>, <<>>) }

MCPresent == {0, 1}
=============================================================================
