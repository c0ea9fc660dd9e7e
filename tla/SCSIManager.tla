---------------------------- MODULE SCSIManager ----------------------------
(***************************************************************************)
(* The SCSI Manager (scsi.cpp) over the generic SCSI driver of Linux       *)
(* (Unix/Linux/scsi_linux.cpp).  The Mac calls SCSIGet, SCSISelect,        *)
(* SCSICmd, any number of SCSIRead and SCSIWrite, and SCSIComplete, in any *)
(* order and with any mistakes.  SCSIRead and SCSIWrite run a program of   *)
(* the Mac, the TIB, which collects the pieces of the transfer in the      *)
(* scatter/gather table; the command is sent by SCSIComplete.              *)
(*                                                                         *)
(* Memory is a set of byte addresses.  A TIB is a sequence of instructions *)
(* of 10 bytes (opcode, ptr, len) whose parameters are words of memory:    *)
(* the program changes them (scInc, scLoop, scAdd, scMove).  The words     *)
(* that scAdd and scMove address are those of the TIB itself, at 0.        *)
(***************************************************************************)
EXTENDS Integers, Sequences, SequencesExt

CONSTANTS
  Present,          \* the IDs of the targets that are there
  Absent,           \* an ID with no target
  TIBs,             \* the TIBs the Mac uses, each with the bytes it denotes
  SG_TABLE_SIZE,
  BufferSize,       \* the data that fit into the first buffer
  Word,             \* the number of values of a uint32
  MaxLength         \* bound: no TIB is started above this length

ASSUME TargetAssumption == Present \subseteq 0 .. 7 /\ Absent \notin Present
ASSUME SizeAssumption == SG_TABLE_SIZE \in Nat \ {0} /\ Word \in Nat \ {0} /\ MaxLength \in Nat
                          /\ BufferSize \in Nat

VARIABLES
  phase, fake_status, target_id, reading,
  sg,                     \* the entries below sg_index: sg_ptr and sg_len
  sg_total_length,
  tib, pc,                \* the program being executed; pc = 0: none
  fd, the_cmd,            \* the driver's active target and command
  sense,                  \* DRIVER_SENSE in target_status of the reply header
  buffer_size,            \* the data that fit into the driver's buffer
  senseOf, wanted, goal, directions, foreign    \* history: see below

\* The target whose reply is in the buffer; the bytes the TIBs of this transaction
\* have named; what they are to name when the current TIB stops; the directions
\* asked for; the last faked Request Sense returned the reply of another target.
history == <<senseOf, wanted, goal, directions, foreign>>
busVars == <<phase, fake_status, target_id>>
sgVars  == <<sg, sg_total_length>>
vars == <<busVars, reading, sgVars, tib, pc, fd, the_cmd, sense, buffer_size, history>>

Phases  == {"PH_FREE", "PH_ARBITRATED", "PH_SELECTED", "PH_TRANSFER"}
None == 8

Instructions ==
  [op : {"scInc", "scNoInc", "scAdd", "scMove", "scLoop", "scNop", "scStop", "scComp", "illegal"},
   ptr : Int, len : Nat]

\* The instruction and the field of the word at an address.
Instr(address) == address \div 10 + 1
Field(address) == IF address % 10 = 2 THEN "ptr" ELSE "len"

\* The address is that of a word of the program; and of one that the program may
\* change: not the distance of a jump, nor itself the address of a word.
IsWord(p, address) == Instr(address) \in 1 .. Len(p)
IsParameter(p, address) ==
  /\ IsWord(p, address)
  /\ p[Instr(address)].op \notin {"scAdd", "scMove"}
  /\ p[Instr(address)].op = "scLoop" => Field(address) = "len"

\* Execution stays within the program, whatever it changes: the last instruction
\* ends it, loops jump to instructions, and scAdd and scMove change parameters, a
\* length by a length.
WellFormed(p) ==
  /\ p \in Seq(Instructions) /\ p # <<>>
  /\ \A i \in 1 .. Len(p) :
       /\ p[i].op \notin {"scStop", "scComp", "illegal"} => i < Len(p)
       /\ p[i].op = "scLoop" => i + p[i].ptr \div 10 \in 1 .. Len(p)
       /\ p[i].op = "scAdd" => IsParameter(p, p[i].ptr)
       /\ p[i].op = "scMove" => /\ IsWord(p, p[i].ptr) /\ IsParameter(p, p[i].len)
                                /\ (Field(p[i].len) = "len" => Field(p[i].ptr) = "len")

\* exec_tib checks none of this: it is up to the Mac, which writes the TIBs.
ASSUME TibAssumption == \A t \in TIBs : WellFormed(t.program)

\* The program is one of instructions, and it does not leave its memory.
ProgramOK == tib \in Seq(Instructions) /\ pc \in 0 .. Len(tib)

TypeOK ==
  /\ phase \in Phases
  /\ fake_status \in {"free", "busy", "command", "data"}
  /\ target_id \in Present \cup {Absent, 8}
  /\ reading \in BOOLEAN
  /\ sg \in Seq([ptr : Int, len : Nat]) /\ Len(sg) <= SG_TABLE_SIZE
  /\ sg_total_length \in Nat
  /\ ProgramOK
  /\ fd \in Present \cup {None}
  /\ the_cmd \in {"sense", "other"}
  /\ sense \in BOOLEAN
  /\ buffer_size \in Nat /\ buffer_size >= BufferSize

Init ==
  /\ phase = "PH_FREE" /\ fake_status = "free" /\ target_id = 8
  /\ reading = FALSE /\ sg = <<>> /\ sg_total_length = 0
  /\ tib = <<>> /\ pc = 0
  /\ fd = None /\ the_cmd = "other"
  /\ sense \in BOOLEAN              \* the buffer is not initialised
  /\ buffer_size = BufferSize
  /\ senseOf = None /\ wanted = <<>> /\ goal = <<>> /\ directions = {} /\ foreign = FALSE

-----------------------------------------------------------------------------
\* The calls that move between the phases.

\* The results of the calls are not kept: the Mac may go on in any way.
GoTo(ph, status) == phase' = ph /\ fake_status' = status

\* A call in the wrong phase changes nothing.
Refuses(ph) ==
  /\ phase # ph
  /\ UNCHANGED vars

SCSIReset ==
  /\ pc = 0
  /\ GoTo("PH_FREE", "free")
  /\ sg' = <<>>
  /\ target_id' = 8
  /\ UNCHANGED <<reading, sg_total_length, tib, pc, fd, the_cmd, sense, buffer_size, history>>

\* Mutant: the direction of the last transaction is kept.
GetKeepsReading ==
  /\ pc = 0
  /\ \/ Refuses("PH_FREE")
     \/ /\ phase = "PH_FREE"
        /\ GoTo("PH_ARBITRATED", "busy")
        /\ sg' = <<>> /\ sg_total_length' = 0
        /\ wanted' = <<>> /\ directions' = {}
        /\ UNCHANGED <<reading, target_id, tib, pc, fd, the_cmd, sense, buffer_size, senseOf,
                       goal, foreign>>

SCSIGet ==
  /\ pc = 0
  /\ \/ Refuses("PH_FREE")
     \/ /\ phase = "PH_FREE"
        /\ GoTo("PH_ARBITRATED", "busy")
        /\ reading' = FALSE
        /\ sg' = <<>> /\ sg_total_length' = 0
        /\ wanted' = <<>> /\ directions' = {}
        /\ UNCHANGED <<target_id, tib, pc, fd, the_cmd, sense, buffer_size, senseOf,
                       goal, foreign>>

\* An ID above 7 leaves target_id alone, an ID without a target does not.
SCSISelect(id) ==
  /\ pc = 0
  /\ \/ Refuses("PH_ARBITRATED")
     \/ /\ phase = "PH_ARBITRATED"
        /\ target_id' = IF id \in 0 .. 7 THEN id ELSE target_id
        /\ IF id \in Present THEN GoTo("PH_SELECTED", "command")
                             ELSE GoTo("PH_FREE", "free")
        /\ UNCHANGED <<reading, sgVars, tib, pc, fd, the_cmd, sense, buffer_size, history>>

\* scsi_set_target: the sense data of another target are to be cleared, but what
\* is cleared is a bit of driver_status, which nothing reads.
scsi_set_target(id) == fd' = id /\ UNCHANGED sense

SCSICmd(cmd, lengthValid) ==
  /\ pc = 0
  /\ \/ Refuses("PH_SELECTED")
     \/ /\ phase = "PH_SELECTED" /\ ~lengthValid
        /\ UNCHANGED vars
     \/ /\ phase = "PH_SELECTED" /\ lengthValid
        /\ the_cmd' = cmd
        /\ scsi_set_target(target_id)
        /\ GoTo("PH_TRANSFER", "data")
        /\ UNCHANGED <<target_id, reading, sgVars, tib, pc, buffer_size, history>>

-----------------------------------------------------------------------------
\* SCSIRead and SCSIWrite: the start of a TIB, and exec_tib.

StartTIB(t, direction) ==
  /\ phase = "PH_TRANSFER"
  /\ Len(wanted) <= MaxLength
  /\ tib' = t.program /\ pc' = 1
  /\ goal' = wanted \o t.denotes
  /\ directions' = directions \cup {direction}
  /\ UNCHANGED <<busVars, sgVars, fd, the_cmd, sense, buffer_size, senseOf, wanted, foreign>>

SCSIRead(t) ==
  /\ pc = 0
  /\ \/ Refuses("PH_TRANSFER")
     \/ StartTIB(t, "read") /\ reading' = TRUE

SCSIWrite(t) ==
  /\ pc = 0
  /\ \/ Refuses("PH_TRANSFER")
     \/ StartTIB(t, "write") /\ UNCHANGED reading

Op  == tib[pc].op
ptr == tib[pc].ptr
len == tib[pc].len

ExecReturns == pc' = 0 /\ tib' = <<>>

\* The bytes of a piece of memory.
Piece(p, n) == [i \in 1 .. n |-> p + i - 1]

\* Mutant: a piece is merged with the last one wherever it is.
AddPieceAnywhere ==
  IF Len(sg) > 0
  THEN sg' = [sg EXCEPT ![Len(sg)].len = @ + len]
  ELSE sg' = Append(sg, [ptr |-> ptr, len |-> len])

\* A piece that continues the last entry of the table is merged with it.
AddPiece ==
  IF Len(sg) > 0 /\ ptr = Last(sg).ptr + Last(sg).len
  THEN sg' = [sg EXCEPT ![Len(sg)].len = @ + len]
  ELSE sg' = Append(sg, [ptr |-> ptr, len |-> len])

\* Mutant: the table takes one entry too many.
TableFullLate == Len(sg) > SG_TABLE_SIZE /\ ptr # Last(sg).ptr + Last(sg).len

TableFull == Len(sg) = SG_TABLE_SIZE /\ ptr # Last(sg).ptr + Last(sg).len

\* scInc also moves its own pointer on.  When the table is full the rest of the
\* TIB is not executed; what has been entered stays.
ExecPiece ==
  /\ Op \in {"scInc", "scNoInc"}
  /\ \/ /\ TableFull
        /\ ExecReturns
        /\ UNCHANGED <<sgVars, wanted>>
     \/ /\ ~TableFull
        /\ tib' = IF Op = "scInc" THEN [tib EXCEPT ![pc].ptr = ptr + len] ELSE tib
        /\ AddPiece
        /\ sg_total_length' = sg_total_length + len
        /\ wanted' = wanted \o Piece(ptr, len)
        /\ pc' = pc + 1
  /\ UNCHANGED <<busVars, reading, fd, the_cmd, sense, buffer_size, senseOf, goal, directions, foreign>>

\* Mutant: the loop ends one round early.
LoopEndsEarly(n) == n > 1

\* The loop goes on while the counter, an unsigned word, is above 0.
LoopGoesOn(n) == n > 0

\* Mutant: the counter is not decremented.
KeepCounter(n) == n

\* The counter after a round.
CountDown(n) == (n - 1) % Word

\* The instructions that only change the program.
ExecControl ==
  /\ \/ /\ Op = "scAdd"                    \* ptr is the address of a word
        /\ tib' = [tib EXCEPT ![Instr(ptr)][Field(ptr)] = @ + len]
        /\ pc' = pc + 1
     \/ /\ Op = "scMove"                   \* ptr and len are addresses of words
        /\ tib' = [tib EXCEPT ![Instr(len)][Field(len)] = tib[Instr(ptr)][Field(ptr)]]
        /\ pc' = pc + 1
     \/ /\ Op = "scLoop"                   \* ptr is an offset in bytes
        /\ tib' = [tib EXCEPT ![pc].len = CountDown(@)]
        /\ pc' = IF LoopGoesOn(CountDown(len)) THEN pc + ptr \div 10 ELSE pc + 1
     \/ /\ Op = "scNop"
        /\ pc' = pc + 1
        /\ UNCHANGED tib
  /\ UNCHANGED <<busVars, reading, sgVars, fd, the_cmd, sense, buffer_size, history>>

\* scStop is the regular end; scComp and unknown opcodes are errors.
ExecEnds ==
  /\ Op \in {"scStop", "scComp", "illegal"}
  /\ ExecReturns
  /\ UNCHANGED <<busVars, reading, sgVars, fd, the_cmd, sense, buffer_size, history>>

exec_tib == pc > 0 /\ (ExecPiece \/ ExecControl \/ ExecEnds)

-----------------------------------------------------------------------------
\* SCSIComplete and scsi_send_cmd.

\* try_buffer replaces the buffer by a larger one, whose header is not
\* initialised, or finds no memory for it.
try_buffer ==
  \/ /\ sg_total_length <= buffer_size
     /\ UNCHANGED buffer_size
  \/ /\ sg_total_length > buffer_size
     /\ buffer_size' = sg_total_length

\* A Request Sense is answered from the header of the last reply if that has the
\* bit of valid sense data; any other command goes to the active target, whose
\* reply may set the bit.
scsi_send_cmd ==
  \E valid \in IF buffer_size' = buffer_size THEN {sense} ELSE BOOLEAN :
    IF reading /\ the_cmd = "sense" /\ valid
    THEN /\ sense' = FALSE
         /\ foreign' = (buffer_size' = buffer_size /\ senseOf \in Present \ {fd})
         /\ senseOf' = None
    ELSE /\ sense' \in BOOLEAN
         /\ senseOf' = fd
         /\ UNCHANGED foreign

\* With no memory for the buffer nothing is sent.
SCSIComplete ==
  /\ pc = 0
  /\ \/ Refuses("PH_TRANSFER")
     \/ /\ phase = "PH_TRANSFER"
        /\ \/ try_buffer /\ scsi_send_cmd
           \/ /\ sg_total_length > buffer_size
              /\ UNCHANGED <<buffer_size, sense, senseOf, foreign>>
        /\ GoTo("PH_FREE", "free")
        /\ wanted' = <<>> /\ goal' = <<>> /\ directions' = {}
        /\ UNCHANGED <<target_id, reading, sgVars, tib, pc, fd, the_cmd>>

-----------------------------------------------------------------------------

Next ==
  \/ SCSIReset \/ SCSIGet \/ SCSIComplete
  \/ \E id \in Present \cup {Absent} : SCSISelect(id)
  \/ \E cmd \in {"sense", "other"}, lengthValid \in BOOLEAN : SCSICmd(cmd, lengthValid)
  \/ \E t \in TIBs : SCSIRead(t) \/ SCSIWrite(t)
  \/ exec_tib

Spec == Init /\ [][Next]_vars

FairSpec == Spec /\ WF_vars(exec_tib)

-----------------------------------------------------------------------------
\* Properties.

Bytes(table) == FlattenSeq([i \in 1 .. Len(table) |-> Piece(table[i].ptr, table[i].len)])

\* During a transaction the scatter/gather table, however its entries were merged
\* and over however many calls, names the bytes that the TIBs named, in their
\* order, and sg_total_length is their number: the copy loops of scsi_send_cmd
\* rely on it for the bounds of their buffer.
TableIsTransfer ==
  phase = "PH_TRANSFER" => Bytes(sg) = wanted /\ sg_total_length = Len(wanted)

\* A TIB that stops has named the bytes it denotes: scInc, scLoop, scAdd and scMove
\* change the program while it runs.
TibDenotes == pc > 0 /\ Op = "scStop" => wanted = goal

\* A transfer is of this transaction only: it goes to the target that was selected
\* and reads if and only if this transaction asked to read, whatever earlier
\* transactions, failed or abandoned, left behind.
TransferIsOwn ==
  /\ phase \in {"PH_SELECTED", "PH_TRANSFER"} => target_id \in Present
  /\ phase = "PH_TRANSFER" => fd = target_id /\ (reading <=> "read" \in directions)

\* A TIB comes to its end, also when a loop runs a second time after its counter
\* was used up or starts at 0.
TibEnds == pc > 0 ~> pc = 0

\* What the comment in scsi_set_target says: "New target, clear autosense data".
\* Sense data that are returned are those of the selected target.
SenseIsOfTarget == ~foreign
=============================================================================
