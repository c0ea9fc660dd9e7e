------------------------- MODULE SCSIManagerProofs -------------------------
(***************************************************************************)
(* Proofs about the SCSI Manager, for every set of targets and TIBs and    *)
(* every size of the table and the buffer: whatever calls the Mac makes,   *)
(* a transfer goes to the target of its own transaction, and in the        *)
(* direction that transaction asked for.                                   *)
(***************************************************************************)
EXTENDS SCSIManager, WellFoundedInduction, TLAPS

\* The types of the bus, and of the driver's target, command and reply.
BusTypes ==
  /\ phase \in Phases
  /\ target_id \in Present \cup {Absent, 8}
  /\ fd \in Present \cup {None}
  /\ reading \in BOOLEAN
  /\ the_cmd \in {"sense", "other"}
  /\ sense \in BOOLEAN

\* The status that SCSIStat reports is the one of the phase.
StatusOfPhase ==
  fake_status = CASE phase = "PH_FREE" -> "free"
                  [] phase = "PH_ARBITRATED" -> "busy"
                  [] phase = "PH_SELECTED" -> "command"
                  [] phase = "PH_TRANSFER" -> "data"

\* Until its command is accepted a transaction has asked for nothing, and the
\* direction of the one before is forgotten.
Fresh ==
  phase \in {"PH_ARBITRATED", "PH_SELECTED"} => ~reading /\ directions = {}

\* A TIB runs only during a transfer.
Executing == pc # 0 => phase = "PH_TRANSFER"

\* The inductive invariant.
IndInv == BusTypes /\ StatusOfPhase /\ Fresh /\ Executing /\ TransferIsOwn

-----------------------------------------------------------------------------

\* The invariant holds at the start.
LEMMA InitIndInv == Init => IndInv
  BY DEF Init, IndInv, BusTypes, Phases, StatusOfPhase, Fresh, Executing, TransferIsOwn

\* Steps that leave the bus, the driver's target and the directions alone keep
\* the invariant, as long as no TIB is started.
LEMMA BusUnchanged ==
  ASSUME IndInv, pc' # 0 => pc # 0,
         UNCHANGED <<busVars, reading, fd, the_cmd, sense, directions>>
  PROVE  IndInv'
  BY DEF IndInv, BusTypes, StatusOfPhase, Fresh, Executing, TransferIsOwn, busVars

\* Every step keeps the invariant.
LEMMA StepIndInv == IndInv /\ [Next]_vars => IndInv'
<1> SUFFICES ASSUME IndInv, [Next]_vars PROVE IndInv'
  OBVIOUS
<1> USE DEF IndInv, BusTypes, Phases, StatusOfPhase, Fresh, Executing, TransferIsOwn, GoTo
<1>1. CASE UNCHANGED vars
  BY <1>1, BusUnchanged DEF vars, history
<1>2. CASE SCSIReset
  BY <1>2 DEF SCSIReset, history
<1>3. CASE SCSIGet
  <2>1. CASE phase = "PH_FREE"
    BY <1>3, <2>1 DEF SCSIGet, Refuses
  <2> QED
    BY <1>1, <1>3, <2>1 DEF SCSIGet, Refuses
<1>4. CASE SCSIComplete
  <2>1. CASE phase = "PH_TRANSFER"
    <3>1. sense' \in BOOLEAN
      BY <1>4, <2>1, Zenon DEF SCSIComplete, Refuses, scsi_send_cmd
    <3> QED
      BY <1>4, <2>1, <3>1 DEF SCSIComplete, Refuses
  <2> QED
    BY <1>1, <1>4, <2>1 DEF SCSIComplete, Refuses
<1>5. ASSUME NEW id \in Present \cup {Absent}, SCSISelect(id) PROVE IndInv'
  <2>1. CASE phase = "PH_ARBITRATED"
    <3>1. CASE id \in Present
      BY <1>5, <2>1, <3>1, TargetAssumption DEF SCSISelect, Refuses, history
    <3>2. CASE id \notin Present
      BY <1>5, <2>1, <3>2 DEF SCSISelect, Refuses, history
    <3> QED
      BY <3>1, <3>2
  <2> QED
    BY <1>1, <1>5, <2>1 DEF SCSISelect, Refuses
<1>6. ASSUME NEW cmd \in {"sense", "other"}, NEW lengthValid \in BOOLEAN,
             SCSICmd(cmd, lengthValid)
      PROVE  IndInv'
  <2>1. CASE phase = "PH_SELECTED" /\ lengthValid
    BY <1>6, <2>1 DEF SCSICmd, Refuses, scsi_set_target, history
  <2> QED
    BY <1>1, <1>6, <2>1 DEF SCSICmd, Refuses
<1>7. ASSUME NEW t \in TIBs, SCSIRead(t) PROVE IndInv'
  <2>1. CASE phase = "PH_TRANSFER"
    BY <1>7, <2>1 DEF SCSIRead, Refuses, StartTIB, busVars
  <2> QED
    BY <1>1, <1>7, <2>1 DEF SCSIRead, Refuses, StartTIB
<1>8. ASSUME NEW t \in TIBs, SCSIWrite(t) PROVE IndInv'
  <2>1. CASE phase = "PH_TRANSFER"
    BY <1>8, <2>1 DEF SCSIWrite, Refuses, StartTIB, busVars
  <2> QED
    BY <1>1, <1>8, <2>1 DEF SCSIWrite, Refuses, StartTIB
<1>9. CASE exec_tib
  <2>1. pc # 0
    BY <1>9, SMT DEF exec_tib
  <2>2. UNCHANGED <<busVars, reading, fd, the_cmd, sense, directions>>
    BY <1>9 DEF exec_tib, ExecPiece, ExecControl, ExecEnds, history
  <2> QED
    BY <2>1, <2>2, BusUnchanged
<1> QED
  BY <1>1, <1>2, <1>3, <1>4, <1>5, <1>6, <1>7, <1>8, <1>9 DEF Next

\* The invariant is an invariant.
THEOREM Invariance == Spec => []IndInv
  BY InitIndInv, StepIndInv, PTL DEF Spec

\* A transfer is of its own transaction, after any sequence of calls of the Mac,
\* refused, failed and abandoned ones included: the driver's target is the one
\* that SCSISelect found present, and the direction is the one SCSIRead and
\* SCSIWrite asked for since SCSIGet.
THEOREM TransfersAreOwn == Spec => []TransferIsOwn
<1>1. IndInv => TransferIsOwn
  BY DEF IndInv
<1> QED
  BY <1>1, Invariance, PTL

-----------------------------------------------------------------------------
(* The table.  What a TIB enters into it is what the Mac's program says, and
   that it is one is the hypothesis ProgramOK; how many entries there are is up
   to exec_tib alone. *)

\* The scatter/gather table and the buffer.
TableTypes ==
  /\ sg \in Seq([ptr : Int, len : Nat]) /\ Len(sg) <= SG_TABLE_SIZE
  /\ sg_total_length \in Nat
  /\ buffer_size \in Nat /\ buffer_size >= BufferSize

\* The last entry of a table that is not empty can be read and replaced.
LEMMA LastEntry ==
  ASSUME NEW S, NEW s \in Seq(S), Len(s) > 0
  PROVE  /\ s[Len(s)] \in S
         /\ \A v \in S : /\ [s EXCEPT ![Len(s)] = v] \in Seq(S)
                         /\ Len([s EXCEPT ![Len(s)] = v]) = Len(s)
<1>1. Len(s) \in Nat /\ Len(s) \in 1 .. Len(s)
  BY SMT
<1> QED
  BY <1>1, SMT

\* A piece of a TIB is merged with the last entry or gets one of its own, and in the
\* second case the table was not full.
LEMMA PieceFits ==
  ASSUME TableTypes, ProgramOK, pc # 0, ExecPiece
  PROVE  TableTypes'
<1> DEFINE e == [ptr |-> ptr, len |-> len]
           E == [ptr : Int, len : Nat]
<1>1. tib[pc] \in Instructions
  BY SMT DEF ProgramOK
<1>2. ptr \in Int /\ len \in Nat /\ e \in E
  BY <1>1 DEF ptr, len, Instructions
<1> HIDE DEF e
<1>3. /\ sg \in Seq(E) /\ Len(sg) \in Nat /\ Len(sg) <= SG_TABLE_SIZE /\ sg_total_length \in Nat
      /\ SG_TABLE_SIZE \in Nat /\ SG_TABLE_SIZE >= 1
      /\ buffer_size \in Nat /\ buffer_size >= BufferSize /\ buffer_size' = buffer_size
  BY SizeAssumption DEF TableTypes, ExecPiece
<1>4. CASE TableFull
  BY <1>3, <1>4 DEF ExecPiece, sgVars, TableTypes
<1>5. CASE ~TableFull
  <2>1. AddPiece /\ sg_total_length' = sg_total_length + len
    BY <1>5 DEF ExecPiece
  <2>2. sg_total_length' \in Nat
    BY <1>2, <1>3, <2>1
  <2>3. CASE Len(sg) > 0 /\ ptr = Last(sg).ptr + Last(sg).len
    <3> DEFINE v == [sg[Len(sg)] EXCEPT !.len = @ + len]
    <3>1. sg' = [sg EXCEPT ![Len(sg)] = v]
      BY <2>1, <2>3, Zenon DEF AddPiece
    <3>2. sg[Len(sg)] \in E
      BY <1>3, <2>3, LastEntry
    <3>3. v \in E
      BY <1>2, <3>2, SMT
    <3> HIDE DEF v
    <3>4. sg' \in Seq(E) /\ Len(sg') = Len(sg)
      BY <1>3, <2>3, <3>1, <3>3, LastEntry
    <3> QED
      BY <1>3, <2>2, <3>4 DEF TableTypes
  <2>4. CASE ~(Len(sg) > 0 /\ ptr = Last(sg).ptr + Last(sg).len)
    <3>1. sg' = Append(sg, e)
      BY <2>1, <2>4 DEF AddPiece, e
    <3>2. Len(sg) < SG_TABLE_SIZE
      BY <1>3, <1>5, <2>4 DEF TableFull
    <3>3. sg' \in Seq(E) /\ Len(sg') = Len(sg) + 1
      BY <1>2, <1>3, <3>1
    <3> QED
      BY <1>3, <2>2, <3>2, <3>3 DEF TableTypes
  <2> QED
    BY <2>3, <2>4
<1> QED
  BY <1>4, <1>5

\* Every step keeps the table within its bounds.
LEMMA StepTable == TableTypes /\ ProgramOK /\ [Next]_vars => TableTypes'
<1> SUFFICES ASSUME TableTypes, ProgramOK, [Next]_vars PROVE TableTypes'
  OBVIOUS
<1>1. CASE UNCHANGED <<sgVars, buffer_size>>
  BY <1>1 DEF TableTypes, sgVars
<1>2. CASE UNCHANGED vars
  BY <1>1, <1>2 DEF vars
<1>3. ASSUME sg' = <<>>, sg_total_length' \in {0, sg_total_length},
             buffer_size' = buffer_size
      PROVE  TableTypes'
  BY <1>3, SizeAssumption, SMT DEF TableTypes
<1>4. CASE SCSIReset
  BY <1>3, <1>4 DEF SCSIReset
<1>5. CASE SCSIGet
  BY <1>2, <1>3, <1>5 DEF SCSIGet, Refuses
<1>6. CASE SCSIComplete
  <2>1. CASE UNCHANGED vars
    BY <1>2, <2>1
  <2>2. CASE /\ UNCHANGED sgVars
             /\ \/ buffer_size' = buffer_size
                \/ sg_total_length > buffer_size /\ buffer_size' = sg_total_length
    BY <2>2, SizeAssumption, SMT DEF TableTypes, sgVars
  <2> QED
    BY <1>6, <2>1, <2>2 DEF SCSIComplete, Refuses, try_buffer
<1>7. ASSUME NEW id \in Present \cup {Absent}, SCSISelect(id) PROVE TableTypes'
  BY <1>1, <1>2, <1>7 DEF SCSISelect, Refuses
<1>8. ASSUME NEW cmd \in {"sense", "other"}, NEW lengthValid \in BOOLEAN,
             SCSICmd(cmd, lengthValid)
      PROVE  TableTypes'
  BY <1>1, <1>2, <1>8 DEF SCSICmd, Refuses
<1>9. ASSUME NEW t \in TIBs, SCSIRead(t) \/ SCSIWrite(t) PROVE TableTypes'
  BY <1>1, <1>2, <1>9 DEF SCSIRead, SCSIWrite, Refuses, StartTIB
<1>10. CASE exec_tib
  <2>1. pc # 0
    BY <1>10, SMT DEF exec_tib
  <2>2. CASE ExecPiece
    BY <2>1, <2>2, PieceFits
  <2>3. CASE ExecControl \/ ExecEnds
    BY <1>1, <2>3 DEF ExecControl, ExecEnds
  <2> QED
    BY <1>10, <2>2, <2>3 DEF exec_tib
<1> QED
  BY <1>2, <1>4, <1>5, <1>6, <1>7, <1>8, <1>9, <1>10 DEF Next

\* As long as the TIBs are programs, whether they are well formed or not, everything
\* has its type.
THEOREM TypesOfPrograms == Spec /\ []ProgramOK => []TypeOK
<1>1. Init => TableTypes
  BY SizeAssumption, SMT DEF Init, TableTypes
<1>2. IndInv /\ TableTypes /\ ProgramOK => TypeOK
  <2> SUFFICES ASSUME IndInv, TableTypes, ProgramOK PROVE TypeOK
    OBVIOUS
  <2>1. fake_status \in {"free", "busy", "command", "data"}
    BY DEF IndInv, BusTypes, Phases, StatusOfPhase
  <2> QED
    BY <2>1 DEF IndInv, BusTypes, TableTypes, TypeOK
<1>3. Spec /\ []ProgramOK => []TableTypes
  BY <1>1, StepTable, PTL DEF Spec
<1> QED
  BY <1>2, <1>3, Invariance, PTL
-----------------------------------------------------------------------------
(* The programs.  A TIB changes itself while it is executed, but not its
   operations, nor where it jumps and which words it changes: it stays well
   formed, so that execution never leaves it. *)

\* A program is being executed, or none is.
Program == IF pc = 0 THEN tib = <<>> ELSE WellFormed(tib) /\ pc \in 1 .. Len(tib)

\* What well-formedness depends on in an instruction.
SameShape(v, w) ==
  /\ v.op = w.op
  /\ w.op \in {"scLoop", "scAdd", "scMove"} => v.ptr = w.ptr
  /\ w.op = "scMove" => v.len = w.len

\* A program in which one instruction is replaced by one of the same shape is still
\* well formed.
LEMMA StaysWellFormed ==
  ASSUME NEW p, WellFormed(p), NEW i \in 1 .. Len(p), NEW v \in Instructions,
         SameShape(v, p[i])
  PROVE  WellFormed([p EXCEPT ![i] = v]) /\ Len([p EXCEPT ![i] = v]) = Len(p)
<1>1. p \in Seq(Instructions) /\ Len(p) \in Nat
  BY SMT DEF WellFormed
<1> DEFINE q == [p EXCEPT ![i] = v]
<1>2. /\ q \in Seq(Instructions) /\ Len(q) = Len(p)
      /\ q[i] = v /\ \A j \in 1 .. Len(p) : j # i => q[j] = p[j]
  BY <1>1, SMT
<1> HIDE DEF q
<1>3. \A j \in 1 .. Len(p) : SameShape(q[j], p[j])
  BY <1>2, Zenon DEF SameShape
<1>4. q # <<>>
  BY <1>1, <1>2, SMT DEF WellFormed
<1>5. \A a : (IsWord(p, a) => IsWord(q, a)) /\ (IsParameter(p, a) => IsParameter(q, a))
  BY <1>2, <1>3, Zenon DEF IsWord, IsParameter, SameShape
<1>6. ASSUME NEW j \in 1 .. Len(q)
      PROVE  /\ q[j].op \notin {"scStop", "scComp", "illegal"} => j < Len(q)
             /\ q[j].op = "scLoop" => j + q[j].ptr \div 10 \in 1 .. Len(q)
             /\ q[j].op = "scAdd" => IsParameter(q, q[j].ptr)
             /\ q[j].op = "scMove" => /\ IsWord(q, q[j].ptr) /\ IsParameter(q, q[j].len)
                                      /\ (Field(q[j].len) = "len" => Field(q[j].ptr) = "len")
  <2>1. j \in 1 .. Len(p) /\ SameShape(q[j], p[j])
    BY <1>2, <1>3, <1>6, Zenon
  <2>2. /\ p[j].op \notin {"scStop", "scComp", "illegal"} => j < Len(p)
        /\ p[j].op = "scLoop" => j + p[j].ptr \div 10 \in 1 .. Len(p)
        /\ p[j].op = "scAdd" => IsParameter(p, p[j].ptr)
        /\ p[j].op = "scMove" => /\ IsWord(p, p[j].ptr) /\ IsParameter(p, p[j].len)
                                 /\ (Field(p[j].len) = "len" => Field(p[j].ptr) = "len")
    BY <2>1, Zenon DEF WellFormed
  <2>3. q[j].op \notin {"scStop", "scComp", "illegal"} => j < Len(q)
    BY <1>2, <2>1, <2>2, Zenon DEF SameShape
  <2>4. q[j].op = "scLoop" => j + q[j].ptr \div 10 \in 1 .. Len(q)
    BY <1>2, <2>1, <2>2, Zenon DEF SameShape
  <2>5. q[j].op = "scAdd" => IsParameter(q, q[j].ptr)
    BY <1>5, <2>1, <2>2, Zenon DEF SameShape
  <2>6. q[j].op = "scMove" => /\ IsWord(q, q[j].ptr) /\ IsParameter(q, q[j].len)
                              /\ (Field(q[j].len) = "len" => Field(q[j].ptr) = "len")
    BY <1>5, <2>1, <2>2, Zenon DEF SameShape
  <2> QED
    BY <2>3, <2>4, <2>5, <2>6, Zenon
<1>7. WellFormed(q)
  BY <1>2, <1>4, <1>6, Zenon DEF WellFormed
<1> QED
  BY <1>2, <1>7 DEF q

\* An instruction with another parameter of the right type.
LEMMA OtherParameter ==
  ASSUME NEW r \in Instructions, NEW x
  PROVE  /\ x \in Int => /\ [r EXCEPT !.ptr = x] \in Instructions
                         /\ r.op \notin {"scLoop", "scAdd", "scMove"}
                            => SameShape([r EXCEPT !.ptr = x], r)
         /\ x \in Nat => /\ [r EXCEPT !.len = x] \in Instructions
                         /\ r.op # "scMove" => SameShape([r EXCEPT !.len = x], r)
  BY SMT DEF Instructions, SameShape

\* Every step of exec_tib stays in a well-formed program.
LEMMA ExecStaysInProgram ==
  ASSUME Program, exec_tib
  PROVE  Program'
<1>1. pc # 0 /\ WellFormed(tib) /\ pc \in 1 .. Len(tib)
  BY SMT DEF exec_tib, Program
<1>2. tib \in Seq(Instructions) /\ Len(tib) \in Nat /\ pc \in Nat /\ pc >= 1
  BY <1>1, SMT DEF WellFormed
<1>3. \A i \in 1 .. Len(tib) : tib[i] \in Instructions
  BY <1>2, SMT
<1>4. /\ Op \notin {"scStop", "scComp", "illegal"} => pc < Len(tib)
      /\ Op = "scLoop" => pc + ptr \div 10 \in 1 .. Len(tib)
      /\ Op = "scAdd" => IsParameter(tib, ptr)
      /\ Op = "scMove" => /\ IsWord(tib, ptr) /\ IsParameter(tib, len)
                          /\ (Field(len) = "len" => Field(ptr) = "len")
  BY <1>1, Zenon DEF WellFormed, Op, ptr, len
<1>5. tib[pc] \in Instructions /\ ptr \in Int /\ len \in Nat
  BY <1>1, <1>3, SMT DEF ptr, len, Instructions
<1>6. ASSUME WellFormed(tib'), Len(tib') = Len(tib), pc' \in 1 .. Len(tib)
      PROVE  Program'
  BY <1>2, <1>6, SMT DEF Program
<1>7. ASSUME ExecReturns PROVE Program'
  BY <1>7 DEF ExecReturns, Program
<1>8. ASSUME NEW i \in 1 .. Len(tib), NEW v \in Instructions, SameShape(v, tib[i]),
             tib' = [tib EXCEPT ![i] = v], pc' \in 1 .. Len(tib)
      PROVE  Program'
  BY <1>1, <1>6, <1>8, StaysWellFormed
<1>9. pc < Len(tib) => pc + 1 \in 1 .. Len(tib)
  BY <1>2, SMT
<1>10. CASE ExecPiece
  <2>1. CASE TableFull
    BY <1>7, <1>10, <2>1 DEF ExecPiece
  <2>2. CASE ~TableFull
    <3>1. Op \in {"scInc", "scNoInc"} /\ pc' = pc + 1 /\ pc' \in 1 .. Len(tib)
      BY <1>4, <1>9, <1>10, <2>2 DEF ExecPiece
    <3>2. CASE Op = "scInc"
      <4>1. tib' = [tib EXCEPT ![pc] = [tib[pc] EXCEPT !.ptr = ptr + len]]
        BY <1>10, <2>2, <3>2, Zenon DEF ExecPiece
      <4>2. ptr + len \in Int
        BY <1>5, SMT
      <4>3. /\ [tib[pc] EXCEPT !.ptr = ptr + len] \in Instructions
            /\ SameShape([tib[pc] EXCEPT !.ptr = ptr + len], tib[pc])
        BY <1>5, <3>2, <4>2, OtherParameter DEF Op
      <4> QED
        BY <1>1, <1>8, <3>1, <4>1, <4>3, Zenon
    <3>3. CASE Op # "scInc"
      BY <1>1, <1>6, <1>10, <2>2, <3>1, <3>3, Zenon DEF ExecPiece
    <3> QED
      BY <3>2, <3>3
  <2> QED
    BY <2>1, <2>2
<1>11. CASE ExecControl
  <2>1. CASE Op = "scAdd"
    <3>1. /\ tib' = [tib EXCEPT ![Instr(ptr)][Field(ptr)] = @ + len] /\ pc' = pc + 1
          /\ pc' \in 1 .. Len(tib)
      BY <1>4, <1>9, <1>11, <2>1, Zenon DEF ExecControl
    <3>2. PICK i \in 1 .. Len(tib) : i = Instr(ptr)
      BY <1>4, <2>1, Zenon DEF IsParameter, IsWord
    <3>3. tib[i] \in Instructions /\ tib[i].ptr + len \in Int /\ tib[i].len + len \in Nat
      BY <1>3, <1>5, SMT DEF Instructions
    <3>4. tib[i].op \notin {"scAdd", "scMove"} /\ (tib[i].op = "scLoop" => Field(ptr) = "len")
      BY <1>4, <2>1, <3>2, Zenon DEF IsParameter
    <3>5. CASE Field(ptr) = "ptr"
      <4>1. tib' = [tib EXCEPT ![i] = [tib[i] EXCEPT !.ptr = tib[i].ptr + len]]
        BY <3>1, <3>2, <3>5, Zenon
      <4>2. /\ [tib[i] EXCEPT !.ptr = tib[i].ptr + len] \in Instructions
            /\ SameShape([tib[i] EXCEPT !.ptr = tib[i].ptr + len], tib[i])
        BY <3>3, <3>4, <3>5, OtherParameter
      <4> QED
        BY <1>8, <3>1, <4>1, <4>2, Zenon
    <3>6. CASE Field(ptr) = "len"
      <4>1. tib' = [tib EXCEPT ![i] = [tib[i] EXCEPT !.len = tib[i].len + len]]
        BY <3>1, <3>2, <3>6, Zenon
      <4>2. /\ [tib[i] EXCEPT !.len = tib[i].len + len] \in Instructions
            /\ SameShape([tib[i] EXCEPT !.len = tib[i].len + len], tib[i])
        BY <3>3, <3>4, OtherParameter
      <4> QED
        BY <1>8, <3>1, <4>1, <4>2, Zenon
    <3> QED
      BY <3>5, <3>6 DEF Field
  <2>2. CASE Op = "scMove"
    <3> DEFINE x == tib[Instr(ptr)][Field(ptr)]
    <3>1. /\ tib' = [tib EXCEPT ![Instr(len)][Field(len)] = x] /\ pc' = pc + 1
          /\ pc' \in 1 .. Len(tib)
      BY <1>4, <1>9, <1>11, <2>2, Zenon DEF ExecControl
    <3>2. PICK i \in 1 .. Len(tib) : i = Instr(len)
      BY <1>4, <2>2, Zenon DEF IsParameter, IsWord
    <3>3. PICK k \in 1 .. Len(tib) : k = Instr(ptr)
      BY <1>4, <2>2, Zenon DEF IsWord
    <3>4. tib[i] \in Instructions /\ tib[k] \in Instructions /\ x = tib[k][Field(ptr)]
      BY <1>3, <3>3, Zenon
    <3>5. x \in Int /\ (Field(ptr) = "len" => x \in Nat)
      BY <3>4, SMT DEF Instructions, Field
    <3>6. /\ tib[i].op \notin {"scAdd", "scMove"} /\ (tib[i].op = "scLoop" => Field(len) = "len")
          /\ Field(len) = "len" => Field(ptr) = "len"
      BY <1>4, <2>2, <3>2, Zenon DEF IsParameter
    <3> HIDE DEF x
    <3>7. CASE Field(len) = "ptr"
      <4>1. tib' = [tib EXCEPT ![i] = [tib[i] EXCEPT !.ptr = x]]
        BY <3>1, <3>2, <3>7, Zenon
      <4>2. /\ [tib[i] EXCEPT !.ptr = x] \in Instructions
            /\ SameShape([tib[i] EXCEPT !.ptr = x], tib[i])
        BY <3>4, <3>5, <3>6, <3>7, OtherParameter
      <4> QED
        BY <1>8, <3>1, <4>1, <4>2, Zenon
    <3>8. CASE Field(len) = "len"
      <4>1. tib' = [tib EXCEPT ![i] = [tib[i] EXCEPT !.len = x]]
        BY <3>1, <3>2, <3>8, Zenon
      <4>2. /\ [tib[i] EXCEPT !.len = x] \in Instructions
            /\ SameShape([tib[i] EXCEPT !.len = x], tib[i])
        BY <3>4, <3>5, <3>6, <3>8, OtherParameter
      <4> QED
        BY <1>8, <3>1, <4>1, <4>2, Zenon
    <3> QED
      BY <3>7, <3>8 DEF Field
  <2>3. CASE Op = "scLoop"
    <3>1. tib' = [tib EXCEPT ![pc] = [tib[pc] EXCEPT !.len = CountDown(len)]]
      BY <1>11, <2>3, Zenon DEF ExecControl, len
    <3>2. pc' \in 1 .. Len(tib)
      BY <1>4, <1>9, <1>11, <2>3 DEF ExecControl
    <3>3. CountDown(len) \in Nat
      BY <1>5, SizeAssumption, SMT DEF CountDown
    <3>4. /\ [tib[pc] EXCEPT !.len = CountDown(len)] \in Instructions
          /\ SameShape([tib[pc] EXCEPT !.len = CountDown(len)], tib[pc])
      BY <1>5, <2>3, <3>3, OtherParameter DEF Op
    <3> QED
      BY <1>1, <1>8, <3>1, <3>2, <3>4, Zenon
  <2>4. CASE Op = "scNop"
    BY <1>1, <1>4, <1>6, <1>9, <1>11, <2>4, Zenon DEF ExecControl
  <2> QED
    BY <1>11, <2>1, <2>2, <2>3, <2>4 DEF ExecControl
<1>12. CASE ExecEnds
  BY <1>7, <1>12 DEF ExecEnds
<1> QED
  BY <1>10, <1>11, <1>12 DEF exec_tib

\* Every step stays in a well-formed program.
LEMMA StepProgram == Program /\ [Next]_vars => Program'
<1> SUFFICES ASSUME Program, [Next]_vars PROVE Program'
  OBVIOUS
<1>1. CASE UNCHANGED <<tib, pc>>
  BY <1>1 DEF Program
<1>2. CASE UNCHANGED vars
  BY <1>1, <1>2 DEF vars
<1>3. CASE SCSIReset \/ SCSIGet \/ SCSIComplete
  BY <1>1, <1>2, <1>3 DEF SCSIReset, SCSIGet, SCSIComplete, Refuses
<1>4. ASSUME NEW id \in Present \cup {Absent}, SCSISelect(id) PROVE Program'
  BY <1>1, <1>2, <1>4 DEF SCSISelect, Refuses
<1>5. ASSUME NEW cmd \in {"sense", "other"}, NEW lengthValid \in BOOLEAN,
             SCSICmd(cmd, lengthValid)
      PROVE  Program'
  BY <1>1, <1>2, <1>5 DEF SCSICmd, Refuses
<1>6. ASSUME NEW t \in TIBs, SCSIRead(t) \/ SCSIWrite(t) PROVE Program'
  <2>1. CASE tib' = t.program /\ pc' = 1
    <3>1. WellFormed(t.program)
      BY TibAssumption
    <3>2. 1 \in 1 .. Len(t.program)
      BY <3>1, SMT DEF WellFormed
    <3> QED
      BY <2>1, <3>1, <3>2 DEF Program
  <2> QED
    BY <1>2, <1>6, <2>1 DEF SCSIRead, SCSIWrite, Refuses, StartTIB
<1>7. CASE exec_tib
  BY <1>7, ExecStaysInProgram
<1> QED
  BY <1>2, <1>3, <1>4, <1>5, <1>6, <1>7 DEF Next

\* A TIB never leaves its program, although it changes itself: the Mac has to write
\* well-formed TIBs, and need not care in what order it uses them or which of them
\* a full table cuts short.
THEOREM ProgramsStay == Spec => []ProgramOK
<1>1. Init => Program
  BY DEF Init, Program
<1>2. ASSUME Program PROVE ProgramOK
  <2>1. CASE pc = 0
    BY <1>2, <2>1, SMT DEF Program, ProgramOK
  <2>2. CASE pc # 0
    <3>1. tib \in Seq(Instructions) /\ pc \in 1 .. Len(tib)
      BY <1>2, <2>2 DEF Program, WellFormed
    <3> QED
      BY <3>1, SMT DEF ProgramOK
  <2> QED
    BY <2>1, <2>2
<1> QED
  BY <1>1, <1>2, StepProgram, PTL DEF Spec

\* Everything has its type; in particular the table never gets more than
\* SG_TABLE_SIZE entries, over any number of TIBs and however their pieces are
\* merged: sg_ptr and sg_len are arrays of that size.
THEOREM TypeCorrect == Spec => []TypeOK
  BY ProgramsStay, TypesOfPrograms, PTL

-----------------------------------------------------------------------------
(* The transfer.  Bytes is defined by recursion over the table.  What FlattenSeq
   returns when a sequence gets a new member, or a longer last one, follows from
   the well-foundedness of < on the naturals: a counterexample would have a least
   length. *)

\* Every set of naturals that is not empty has a least member.
LEMMA LeastNumber ==
  ASSUME NEW T, T \subseteq Nat, T # {}
  PROVE  \E x \in T : \A y \in T : x <= y
<1>1. PICK x \in T : \A y \in T : ~(<<y, x>> \in OpToRel(<, Nat))
  BY NatLessThanWellFounded, WFMin
<1>2. \A y \in T : ~(y < x)
  BY <1>1 DEF OpToRel
<1>3. x \in Int /\ \A y \in T : y \in Int
  BY SMT
<1>4. \A y \in T : x <= y
  BY <1>2, <1>3, SMT
<1> QED
  BY <1>4

\* The concatenations of the first members of a sequence of sequences, as the
\* recursion of FlattenSeq defines them.
Concatenations(s, f) ==
  f = [i \in 1 .. Len(s) |-> IF i = 1 THEN s[i] ELSE f[i - 1] \o s[i]]

\* FlattenSeq returns the last of them.
LEMMA FlattenDef ==
  ASSUME NEW s, Len(s) # 0, \E f : Concatenations(s, f)
  PROVE  \E f : Concatenations(s, f) /\ FlattenSeq(s) = f[Len(s)]
<1> DEFINE g == CHOOSE f : Concatenations(s, f)
<1>1. Concatenations(s, g)
  BY Zenon
<1>2. FlattenSeq(s) = g[Len(s)]
  BY Zenon DEF FlattenSeq, Concatenations
<1> QED BY <1>1, <1>2, Zenon

\* The recursion defines them.
LEMMA ConcatenationsExist ==
  ASSUME NEW s, Len(s) \in Nat
  PROVE  \E f : Concatenations(s, f)
<1> DEFINE Upto(n, f) == f = [i \in 1 .. n |-> IF i = 1 THEN s[i] ELSE f[i - 1] \o s[i]]
           T == {n \in Nat : ~ \E f : Upto(n, f)}
<1>1. T = {}
  <2> SUFFICES ASSUME T # {} PROVE FALSE
    OBVIOUS
  <2>1. PICK n \in T : \A m \in T : n <= m
    BY LeastNumber, Zenon
  <2>2. n \in Nat /\ ~ \E f : Upto(n, f)
    BY <2>1, Zenon
  <2>3. Upto(0, [i \in 1 .. 0 |-> s])
    BY SMT
  <2>4. n # 0
    BY <2>2, <2>3, Zenon
  <2>5. n - 1 \in Nat /\ n - 1 < n
    BY <2>2, <2>4, SMT
  <2> HIDE DEF T
  <2>6. n - 1 \notin T
    BY <2>1, <2>2, <2>5, SMT
  <2>7. PICK f : Upto(n - 1, f)
    BY <2>5, <2>6, Zenon DEF T
  <2> DEFINE g == [i \in 1 .. n |-> IF i = 1 THEN s[i] ELSE f[i - 1] \o s[i]]
  <2>8. ASSUME NEW i \in 1 .. n, i # 1 PROVE f[i - 1] = g[i - 1]
    <3>1. i - 1 \in 1 .. n - 1 /\ i - 1 \in 1 .. n
      BY <2>2, <2>8, SMT
    <3> QED
      BY <2>7, <3>1, Zenon
  <2>9. Upto(n, g)
    <3>1. ASSUME NEW i \in 1 .. n
          PROVE  (IF i = 1 THEN s[i] ELSE f[i - 1] \o s[i])
                   = (IF i = 1 THEN s[i] ELSE g[i - 1] \o s[i])
      BY <2>8, Zenon
    <3> QED
      BY <3>1, Zenon
  <2> QED
    BY <2>2, <2>9, Zenon
<1>2. Len(s) \notin T
  BY <1>1, Zenon
<1>3. \E f : Upto(Len(s), f)
  BY <1>2, Zenon
<1> QED
  BY <1>3, Zenon DEF Concatenations

\* t begins with s.
Begins(s, t) == Len(s) <= Len(t) /\ \A i \in 1 .. Len(s) : t[i] = s[i]

\* Sequences that begin alike have the same first concatenations, which are
\* sequences.
LEMMA ConcatenationsAgree ==
  ASSUME NEW S, NEW s \in Seq(Seq(S)), NEW t \in Seq(Seq(S)), NEW f, NEW g,
         Concatenations(s, f), Concatenations(t, g),
         Begins(s, t)
  PROVE  \A i \in 1 .. Len(s) : f[i] \in Seq(S) /\ f[i] = g[i]
<1> DEFINE T == {i \in 1 .. Len(s) : ~(f[i] \in Seq(S) /\ f[i] = g[i])}
<1> SUFFICES ASSUME T # {} PROVE FALSE
  OBVIOUS
<1>1. Len(s) \in Nat /\ Len(t) \in Nat /\ Len(s) <= Len(t)
  BY SMT DEF Begins
<1>2. T \subseteq Nat
  BY SMT
<1>3. PICK n \in T : \A k \in T : n <= k
  BY <1>2, LeastNumber, Zenon
<1>4. n \in 1 .. Len(s) /\ ~(f[n] \in Seq(S) /\ f[n] = g[n])
  BY <1>3, Zenon
<1> HIDE DEF T
<1>5. /\ n \in 1 .. Len(s) /\ n \in 1 .. Len(t)
      /\ n \in Int
  BY <1>1, <1>4, SMT
<1>6. /\ f[n] = IF n = 1 THEN s[n] ELSE f[n - 1] \o s[n]
      /\ g[n] = IF n = 1 THEN t[n] ELSE g[n - 1] \o t[n]
  BY <1>5, Zenon DEF Concatenations
<1>7. s[n] \in Seq(S) /\ s[n] = t[n]
  BY <1>4, <1>5, SMT DEF Begins
<1>8. n # 1
  BY <1>4, <1>6, <1>7, Zenon
<1>9. n - 1 \in 1 .. Len(s) /\ n - 1 < n
  BY <1>4, <1>8, SMT
<1>10. n - 1 \notin T
  BY <1>3, <1>5, <1>9, SMT
<1>11. f[n - 1] \in Seq(S) /\ f[n - 1] = g[n - 1]
  BY <1>9, <1>10, Zenon DEF T
<1>12. f[n - 1] \o s[n] \in Seq(S)
  BY <1>7, <1>11, SMT
<1> QED
  BY <1>4, <1>6, <1>7, <1>8, <1>11, <1>12, Zenon

\* What FlattenSeq returns is a sequence.
LEMMA FlattenType ==
  ASSUME NEW S, NEW s \in Seq(Seq(S))
  PROVE  FlattenSeq(s) \in Seq(S)
<1>1. Len(s) \in Nat /\ Begins(s, s)
  BY SMT DEF Begins
<1>2. CASE Len(s) = 0
  BY <1>2, SMT DEF FlattenSeq
<1>3. CASE Len(s) # 0
  <2>1. PICK f : Concatenations(s, f) /\ FlattenSeq(s) = f[Len(s)]
    BY <1>1, <1>3, ConcatenationsExist, FlattenDef
  <2>2. \A i \in 1 .. Len(s) : f[i] \in Seq(S)
    BY <1>1, <2>1, ConcatenationsAgree, Zenon
  <2>3. Len(s) \in 1 .. Len(s)
    BY <1>1, <1>3, SMT
  <2> QED
    BY <2>1, <2>2, <2>3, Zenon
<1> QED
  BY <1>2, <1>3

\* FlattenSeq concatenates the last member with the others.
LEMMA FlattenFront ==
  ASSUME NEW S, NEW s \in Seq(Seq(S)), NEW t \in Seq(Seq(S)), NEW n \in Nat,
         Len(t) = n, n = Len(s) + 1, Begins(s, t)
  PROVE  FlattenSeq(t) = FlattenSeq(s) \o t[n]
<1> DEFINE m == Len(s)
<1>1. /\ m \in Nat /\ Len(t) \in Nat /\ n # 0 /\ m = n - 1
      /\ n \in 1 .. Len(t) /\ t[n] \in Seq(S)
  BY SMT
<1>2. PICK g : Concatenations(t, g) /\ FlattenSeq(t) = g[n]
  BY <1>1, ConcatenationsExist, FlattenDef
<1>3. g[n] = IF n = 1 THEN t[n] ELSE g[n - 1] \o t[n]
  BY <1>1, <1>2, Zenon DEF Concatenations
<1>4. CASE m = 0
  <2>1. s = <<>> /\ FlattenSeq(s) = s /\ n = 1
    BY <1>1, <1>4, SMT DEF FlattenSeq
  <2>2. <<>> \o t[n] = t[n]
    BY <1>1, SMT
  <2> QED
    BY <1>2, <1>3, <2>1, <2>2, Zenon
<1>5. CASE m # 0
  <2>1. PICK f : Concatenations(s, f) /\ FlattenSeq(s) = f[m]
    BY <1>1, <1>5, ConcatenationsExist, FlattenDef
  <2>2. ASSUME NEW i \in 1 .. m PROVE f[i] = g[i]
    <3>1. Concatenations(s, f) /\ Concatenations(t, g) /\ i \in 1 .. Len(s)
      BY <1>2, <2>1
    <3> HIDE DEF m
    <3> QED
      BY <3>1, ConcatenationsAgree
  <2>3. m \in 1 .. m /\ n # 1
    BY <1>1, <1>5, SMT
  <2> QED
    BY <1>1, <1>2, <1>3, <2>1, <2>2, <2>3, Zenon
<1> QED
  BY <1>4, <1>5

\* Concatenation is associative.
LEMMA ConcatAssociative ==
  ASSUME NEW S
  PROVE  \A a, b, c \in Seq(S) : a \o (b \o c) = (a \o b) \o c
  BY SMT

\* t is s with a last member that goes on with x.
Grows(s, t, x) ==
  /\ Len(s) # 0 /\ Len(t) = Len(s)
  /\ \A i \in 1 .. Len(s) - 1 : t[i] = s[i]
  /\ t[Len(s)] = s[Len(s)] \o x

\* What is added to the last member is added to the concatenation.
LEMMA FlattenGrows ==
  ASSUME NEW S, NEW s \in Seq(Seq(S)), NEW t \in Seq(Seq(S)), NEW x \in Seq(S),
         Grows(s, t, x)
  PROVE  FlattenSeq(t) = FlattenSeq(s) \o x
<1>1. PICK n \in Nat : n = Len(s)
  BY SMT
<1> DEFINE r == [i \in 1 .. n - 1 |-> s[i]]
<1>2. n >= 1 /\ n \in 1 .. n /\ n - 1 \in Nat /\ Len(s) = n /\ Len(t) = n
  BY <1>1, SMT DEF Grows
<1>3. r \in Seq(Seq(S)) /\ Len(r) = n - 1 /\ n = Len(r) + 1
  BY <1>2, SMT
<1>4. Begins(r, s) /\ Begins(r, t)
  BY <1>2, <1>3, SMT DEF Grows, Begins
<1> HIDE DEF r
<1>5. FlattenSeq(s) = FlattenSeq(r) \o s[n]
  BY <1>2, <1>3, <1>4, FlattenFront
<1>6. FlattenSeq(t) = FlattenSeq(r) \o t[n]
  BY <1>2, <1>3, <1>4, FlattenFront
<1>7. s[n] \in Seq(S) /\ t[n] = s[n] \o x
  BY <1>2, SMT DEF Grows
<1>8. FlattenSeq(r) \in Seq(S)
  BY <1>3, FlattenType
<1>9. ASSUME NEW a \in Seq(S), NEW b \in Seq(S) PROVE a \o (b \o x) = (a \o b) \o x
  BY ConcatAssociative
<1> QED
  BY <1>5, <1>6, <1>7, <1>8, <1>9, Zenon

\* The pieces of memory that a table names.
Pieces(table) == [i \in 1 .. Len(table) |-> Piece(table[i].ptr, table[i].len)]

\* Pieces are sequences of addresses, and two that meet are one.
LEMMA PieceFacts ==
  ASSUME NEW p \in Int, NEW m \in Nat, NEW n \in Nat
  PROVE  /\ Piece(p, n) \in Seq(Int) /\ Len(Piece(p, n)) = n
         /\ Piece(p, m + n) = Piece(p, m) \o Piece(p + m, n)
<1>1. /\ Piece(p, n) \in Seq(Int) /\ Len(Piece(p, n)) = n
  BY SMT DEF Piece
<1>2. Piece(p, m + n) = Piece(p, m) \o Piece(p + m, n)
  BY SMT DEF Piece
<1> QED
  BY <1>1, <1>2

\* The members of a sequence over a set are in the set.
LEMMA Members ==
  ASSUME NEW S, NEW s \in Seq(S)
  PROVE  Len(s) \in Nat /\ \A i \in 1 .. Len(s) : s[i] \in S
  BY SMT

\* A table of entries names pieces.
LEMMA PiecesType ==
  ASSUME NEW table \in Seq([ptr : Int, len : Nat])
  PROVE  /\ Pieces(table) \in Seq(Seq(Int)) /\ Len(Pieces(table)) = Len(table)
         /\ \A i \in 1 .. Len(table) : Pieces(table)[i] = Piece(table[i].ptr, table[i].len)
<1>1. Len(table) \in Nat /\ \A i \in 1 .. Len(table) : table[i].ptr \in Int /\ table[i].len \in Nat
  <2>1. Len(table) \in Nat /\ \A i \in 1 .. Len(table) : table[i] \in [ptr : Int, len : Nat]
    BY Members, Zenon
  <2>2. \A e \in [ptr : Int, len : Nat] : e.ptr \in Int /\ e.len \in Nat
    BY SMT
  <2> QED
    BY <2>1, <2>2, Zenon
<1>2. \A i \in 1 .. Len(table) : Piece(table[i].ptr, table[i].len) \in Seq(Int)
  BY <1>1, PieceFacts
<1> QED
  BY <1>1, <1>2, SMT DEF Pieces

\* A new entry adds its bytes at the end.
LEMMA BytesAppend ==
  ASSUME NEW s \in Seq([ptr : Int, len : Nat]), NEW e \in [ptr : Int, len : Nat]
  PROVE  Bytes(Append(s, e)) = Bytes(s) \o Piece(e.ptr, e.len)
<1>1. PICK t : t = Append(s, e)
  OBVIOUS
<1>2. PICK n \in Nat : n = Len(s) + 1
  BY SMT
<1>3. /\ t \in Seq([ptr : Int, len : Nat]) /\ Len(t) = n /\ t[n] = e
      /\ \A i \in 1 .. Len(s) : t[i] = s[i]
  BY <1>1, <1>2, SMT
<1>4. /\ Pieces(s) \in Seq(Seq(Int)) /\ Len(Pieces(s)) = Len(s)
      /\ Pieces(t) \in Seq(Seq(Int)) /\ Len(Pieces(t)) = n
      /\ \A i \in 1 .. Len(s) : Pieces(s)[i] = Piece(s[i].ptr, s[i].len)
      /\ \A i \in 1 .. n : Pieces(t)[i] = Piece(t[i].ptr, t[i].len)
  BY <1>3, PiecesType
<1>5. n \in 1 .. n /\ Len(s) \in Nat /\ \A i \in 1 .. Len(s) : i \in 1 .. n
  BY <1>2, SMT
<1>6. Pieces(t)[n] = Piece(e.ptr, e.len)
  BY <1>3, <1>4, <1>5, Zenon
<1>7. \A i \in 1 .. Len(s) : Pieces(t)[i] = Pieces(s)[i]
  BY <1>3, <1>4, <1>5, Zenon
<1>8. Begins(Pieces(s), Pieces(t))
  BY <1>2, <1>4, <1>5, <1>7, SMT DEF Begins
<1>9. FlattenSeq(Pieces(t)) = FlattenSeq(Pieces(s)) \o Pieces(t)[n]
  <2>1. PICK a \in Seq(Seq(Int)), b \in Seq(Seq(Int)) : a = Pieces(s) /\ b = Pieces(t)
    BY <1>4, Zenon
  <2>2. Len(b) = n /\ n = Len(a) + 1 /\ Begins(a, b)
    BY <1>2, <1>4, <1>8, <2>1, Zenon
  <2>3. FlattenSeq(b) = FlattenSeq(a) \o b[n]
    BY <2>2, FlattenFront
  <2> QED
    BY <2>1, <2>3, Zenon
<1> QED
  BY <1>1, <1>6, <1>9, Zenon DEF Bytes, Pieces

\* An entry of the table has an address and a length.
LEMMA EntryParts ==
  ASSUME NEW r \in [ptr : Int, len : Nat]
  PROVE  r.ptr \in Int /\ r.len \in Nat
  BY SMT

\* A longer last entry adds the bytes that follow it.
LEMMA BytesMerge ==
  ASSUME NEW s \in Seq([ptr : Int, len : Nat]), Len(s) > 0, NEW k \in Nat,
         NEW v \in [ptr : Int, len : Nat],
         v.ptr = s[Len(s)].ptr, v.len = s[Len(s)].len + k
  PROVE  Bytes([s EXCEPT ![Len(s)] = v])
           = Bytes(s) \o Piece(s[Len(s)].ptr + s[Len(s)].len, k)
<1>1. PICK t : t = [s EXCEPT ![Len(s)] = v]
  OBVIOUS
<1>2. PICK n \in Nat : n = Len(s)
  BY SMT
<1>3. n >= 1 /\ n \in 1 .. n
  BY <1>2, SMT
<1>4. /\ t \in Seq([ptr : Int, len : Nat]) /\ Len(t) = n /\ t[n] = v
      /\ \A i \in 1 .. n - 1 : t[i] = s[i]
  BY <1>1, <1>2, <1>3, SMT
<1>5. /\ Pieces(s) \in Seq(Seq(Int)) /\ Len(Pieces(s)) = n
      /\ Pieces(t) \in Seq(Seq(Int)) /\ Len(Pieces(t)) = n
      /\ \A i \in 1 .. n : Pieces(s)[i] = Piece(s[i].ptr, s[i].len)
      /\ \A i \in 1 .. n : Pieces(t)[i] = Piece(t[i].ptr, t[i].len)
  BY <1>2, <1>4, PiecesType
<1>6. PICK p \in Int, m \in Nat : p = s[n].ptr /\ m = s[n].len
  <2>1. s[n] \in [ptr : Int, len : Nat]
    BY <1>2, LastEntry
  <2>2. s[n].ptr \in Int /\ s[n].len \in Nat
    BY <2>1, EntryParts
  <2> QED
    BY <2>2, Zenon
<1> DEFINE x == Piece(p + m, k)
<1>7. x \in Seq(Int)
  <2>1. p + m \in Int
    BY SMT
  <2> QED
    BY <2>1, PieceFacts
<1>8. Piece(p, m + k) = Piece(p, m) \o x
  BY PieceFacts
<1>9. Pieces(t)[n] = Pieces(s)[n] \o x
  BY <1>2, <1>3, <1>4, <1>5, <1>6, <1>8, Zenon
<1>10. \A i \in 1 .. n - 1 : Pieces(t)[i] = Pieces(s)[i]
  <2>1. \A i \in 1 .. n - 1 : i \in 1 .. n
    BY SMT
  <2> QED
    BY <1>4, <1>5, <2>1, Zenon
<1> HIDE DEF x
<1>11. Grows(Pieces(s), Pieces(t), x)
  BY <1>3, <1>5, <1>9, <1>10, SMT DEF Grows
<1>12. FlattenSeq(Pieces(t)) = FlattenSeq(Pieces(s)) \o x
  BY <1>5, <1>7, <1>11, FlattenGrows
<1>13. Bytes(t) = Bytes(s) \o Piece(p + m, k)
  BY <1>12, Zenon DEF Bytes, Pieces, x
<1> QED
  BY <1>1, <1>2, <1>6, <1>13, Zenon

\* The inductive invariant of the transfer: it starts with an empty table.
Transfer ==
  /\ wanted \in Seq(Int)
  /\ phase \in {"PH_ARBITRATED", "PH_SELECTED"} =>
       sg = <<>> /\ sg_total_length = 0 /\ wanted = <<>>
  /\ TableIsTransfer

\* An empty table names nothing.
LEMMA BytesEmpty == Bytes(<<>>) = <<>>
<1>1. Pieces(<<>>) = <<>>
  BY SMT DEF Pieces
<1>2. FlattenSeq(<<>>) = <<>>
  BY SMT DEF FlattenSeq
<1> QED
  BY <1>1, <1>2, Zenon DEF Bytes, Pieces

\* A piece of a TIB is added to the bytes that the table names, merged or not.
LEMMA PieceIsAdded ==
  ASSUME Transfer, TableTypes, ProgramOK, Executing, pc # 0, ExecPiece
  PROVE  Transfer'
<1>1. phase = "PH_TRANSFER" /\ phase' = phase
  BY DEF Executing, ExecPiece, busVars
<1>2. /\ Bytes(sg) = wanted /\ sg_total_length = Len(wanted) /\ wanted \in Seq(Int)
      /\ sg \in Seq([ptr : Int, len : Nat]) /\ Len(sg) \in Nat
  BY <1>1 DEF Transfer, TableIsTransfer, TableTypes
<1>3. CASE TableFull
  BY <1>1, <1>2, <1>3 DEF ExecPiece, sgVars, Transfer, TableIsTransfer
<1>4. CASE ~TableFull
  <2>1. tib[pc] \in Instructions
    BY SMT DEF ProgramOK
  <2>2. PICK p \in Int, k \in Nat : p = ptr /\ k = len
    BY <2>1 DEF ptr, len, Instructions
  <2>3. /\ AddPiece /\ sg_total_length' = sg_total_length + k
        /\ wanted' = wanted \o Piece(p, k)
    BY <1>4, <2>2 DEF ExecPiece
  <2>4. Piece(p, k) \in Seq(Int) /\ Len(Piece(p, k)) = k
    BY PieceFacts
  <2>5. wanted' \in Seq(Int) /\ sg_total_length' = Len(wanted')
    <3>1. \A a, b \in Seq(Int) : a \o b \in Seq(Int) /\ Len(a \o b) = Len(a) + Len(b)
      BY SMT
    <3> QED
      BY <1>2, <2>3, <2>4, <3>1, Zenon
  <2>6. Bytes(sg') = Bytes(sg) \o Piece(p, k)
    <3>1. CASE Len(sg) > 0 /\ ptr = Last(sg).ptr + Last(sg).len
      <4> DEFINE v == [sg[Len(sg)] EXCEPT !.len = @ + k]
      <4>1. sg' = [sg EXCEPT ![Len(sg)] = v]
        BY <2>2, <2>3, <3>1, Zenon DEF AddPiece
      <4>2. sg[Len(sg)] \in [ptr : Int, len : Nat]
        BY <1>2, <3>1, LastEntry
      <4>3. /\ v \in [ptr : Int, len : Nat]
            /\ v.ptr = sg[Len(sg)].ptr /\ v.len = sg[Len(sg)].len + k
        BY <4>2, SMT
      <4> HIDE DEF v
      <4>4. p = sg[Len(sg)].ptr + sg[Len(sg)].len
        BY <2>2, <3>1 DEF Last
      <4>5. Bytes([sg EXCEPT ![Len(sg)] = v])
              = Bytes(sg) \o Piece(sg[Len(sg)].ptr + sg[Len(sg)].len, k)
        BY <1>2, <3>1, <4>3, BytesMerge
      <4> QED
        BY <4>1, <4>4, <4>5, Zenon
    <3>2. CASE ~(Len(sg) > 0 /\ ptr = Last(sg).ptr + Last(sg).len)
      <4>1. sg' = Append(sg, [ptr |-> p, len |-> k])
        BY <2>2, <2>3, <3>2, Zenon DEF AddPiece
      <4>2. PICK e \in [ptr : Int, len : Nat] : e = [ptr |-> p, len |-> k]
        OBVIOUS
      <4>3. Bytes(Append(sg, e)) = Bytes(sg) \o Piece(e.ptr, e.len)
        BY <1>2, BytesAppend
      <4>4. e.ptr = p /\ e.len = k
        BY <4>2
      <4> QED
        BY <4>1, <4>2, <4>3, <4>4, Zenon
    <3> QED
      BY <3>1, <3>2
  <2>7. Bytes(sg') = wanted'
    BY <1>2, <2>3, <2>6, Zenon
  <2> QED
    BY <1>1, <2>5, <2>7 DEF Transfer, TableIsTransfer
<1> QED
  BY <1>3, <1>4

\* Every step keeps the table the one of the transfer.
LEMMA StepTransfer ==
  Transfer /\ TableTypes /\ ProgramOK /\ Executing /\ [Next]_vars => Transfer'
<1> SUFFICES ASSUME Transfer, TableTypes, ProgramOK, Executing, [Next]_vars
             PROVE  Transfer'
  OBVIOUS
<1>1. CASE UNCHANGED <<phase, sgVars, wanted>>
  BY <1>1 DEF Transfer, TableIsTransfer, sgVars, Bytes
<1>2. CASE UNCHANGED vars
  BY <1>1, <1>2 DEF vars, busVars, history
<1>3. ASSUME phase' = "PH_FREE", wanted' = wanted \/ wanted' = <<>>
      PROVE  Transfer'
  <2>1. wanted' \in Seq(Int)
    <3>1. <<>> \in Seq(Int)
      BY SMT
    <3> QED
      BY <1>3, <3>1, Zenon DEF Transfer
  <2> QED
    BY <1>3, <2>1 DEF Transfer, TableIsTransfer
<1>4. CASE SCSIReset
  BY <1>3, <1>4 DEF SCSIReset, GoTo, history
<1>5. CASE SCSIGet
  <2>1. CASE /\ phase' = "PH_ARBITRATED" /\ sg' = <<>> /\ sg_total_length' = 0
             /\ wanted' = <<>>
    <3>1. wanted' \in Seq(Int)
      BY <2>1, SMT
    <3> QED
      BY <2>1, <3>1 DEF Transfer, TableIsTransfer
  <2> QED
    BY <1>2, <1>5, <2>1 DEF SCSIGet, GoTo, Refuses
<1>6. CASE SCSIComplete
  BY <1>2, <1>3, <1>6 DEF SCSIComplete, GoTo, Refuses
<1>7. ASSUME NEW id \in Present \cup {Absent}, SCSISelect(id) PROVE Transfer'
  <2>1. CASE phase = "PH_ARBITRATED" /\ phase' = "PH_SELECTED" /\ UNCHANGED <<sgVars, wanted>>
    BY <2>1 DEF Transfer, TableIsTransfer, sgVars
  <2> QED
    BY <1>2, <1>3, <1>7, <2>1 DEF SCSISelect, GoTo, Refuses, history
<1>8. ASSUME NEW cmd \in {"sense", "other"}, NEW lengthValid \in BOOLEAN,
             SCSICmd(cmd, lengthValid)
      PROVE  Transfer'
  <2>1. CASE phase = "PH_SELECTED" /\ phase' = "PH_TRANSFER" /\ UNCHANGED <<sgVars, wanted>>
    <3>1. sg' = <<>> /\ sg_total_length' = 0 /\ wanted' = <<>> /\ wanted' \in Seq(Int)
      BY <2>1 DEF Transfer, sgVars
    <3>2. Bytes(sg') = wanted'
      BY <3>1, BytesEmpty, Zenon
    <3>3. Len(wanted') = 0
      BY <3>1, SMT
    <3> QED
      BY <2>1, <3>1, <3>2, <3>3 DEF Transfer, TableIsTransfer
  <2> QED
    BY <1>2, <1>8, <2>1 DEF SCSICmd, GoTo, Refuses, history
<1>9. ASSUME NEW t \in TIBs, SCSIRead(t) \/ SCSIWrite(t) PROVE Transfer'
  BY <1>1, <1>2, <1>9 DEF SCSIRead, SCSIWrite, Refuses, StartTIB, busVars
<1>10. CASE exec_tib
  <2>1. pc # 0
    BY <1>10, SMT DEF exec_tib
  <2>2. CASE ExecPiece
    BY <2>1, <2>2, PieceIsAdded
  <2>3. CASE ExecControl \/ ExecEnds
    BY <1>1, <2>3 DEF ExecControl, ExecEnds, busVars, history
  <2> QED
    BY <1>10, <2>2, <2>3 DEF exec_tib
<1> QED
  BY <1>2, <1>4, <1>5, <1>6, <1>7, <1>8, <1>9, <1>10 DEF Next

\* The scatter/gather table names the bytes that the TIBs of the transaction named,
\* in their order, and sg_total_length is their number, for every set of TIBs and
\* every size of the table: over any number of SCSIRead and SCSIWrite, however the
\* pieces meet, and also when a TIB fails or a full table cuts it short.
THEOREM TablesAreTransfers == Spec => []TableIsTransfer
<1>1. Init => Transfer
  BY SMT DEF Init, Transfer, TableIsTransfer
<1>2. TypeOK => TableTypes
  BY DEF TypeOK, TableTypes
<1>3. IndInv => Executing
  BY DEF IndInv
<1>4. Transfer => TableIsTransfer
  BY DEF Transfer
<1> QED
  BY <1>1, <1>2, <1>3, <1>4, StepTransfer, Invariance, ProgramsStay, TypeCorrect, PTL DEF Spec
=============================================================================
