--------------------------- MODULE MiniDisassembler ---------------------------
(***************************************************************************)
(* The disassembler of the patcher (windows/mini_disassembler.cc with the     *)
(* tables of ia32_opcode_map.cc and ia32_modrm_map.cc), which only finds out   *)
(* how long an instruction is, and whether it jumps or returns.  It has to     *)
(* agree with the processor, or a function is cut in the middle of an         *)
(* instruction.                                                            *)
(*   instruction  prefixes and opcode of the instruction to disassemble      *)
(*   answer       for each ModR/M and SIB that may follow: [type, bytes] that  *)
(*                Disassemble returns                                      *)
(* Of an entry of the tables there is what its length depends on: type,        *)
(* whether a ModR/M byte follows ("reg": one that is not decoded), and the     *)
(* operands that stand in the instruction, addressing method and type.       *)
(***************************************************************************)
EXTENDS Naturals, FiniteSets, SequencesExt

CONSTANTS x64,       \* _M_X64
         PrefixSeqs  \* sequences of prefixes to try
VARIABLES instruction, answer
disassemblerVars == <<instruction, answer>>

ModRMs == {m \in [mod : 0..3, reg : 0..7, rm : {0, 4, 5, 6}, base : {4, 5}] : m.rm = 4 \/ m.base = 4}

------------------------------------------------------------------------------
(* s_ia32_opcode_map_                                                        *)

Entry(type, modrm, operands) == [type |-> type, modrm |-> modrm, operands |-> operands]
Generic(operands) == Entry("generic", "none", operands)
WithModRM(operands) == Entry("generic", "decode", operands)
Unused == Entry("unused", "none", <<>>)
Unknown == Entry("unknown", "none", <<>>)
Byte == <<"I", "B">>
Word == <<"I", "W">>
Immediate == <<"I", "V">>
REX == IF x64 THEN \h40..\h4F ELSE {}
PrefixByte(b) == b \in {\h26, \h2E, \h36, \h3E, \h64, \h65, \h66, \h67, \hF0, \hF2, \hF3} \cup REX

\* s_first_opcode_byte, by its rows
First00(b) ==   \* the arithmetic instructions, eight opcodes each
  CASE b % 8 \in 0..3 -> WithModRM(<<>>)
    [] b % 8 = 4 -> Generic(<<Byte>>)
    [] b % 8 = 5 -> Generic(<<Immediate>>)
    [] OTHER -> Generic(<<>>)
First40(b) ==
  CASE b \in {\h62, \h63} -> WithModRM(<<>>)
    [] b = \h68 -> Generic(<<Immediate>>)
    [] b = \h69 -> WithModRM(<<Immediate>>)
    [] b = \h6A -> Generic(<<Byte>>)
    [] b = \h6B -> WithModRM(<<Byte>>)
    [] b \in \h70..\h7F -> Entry("jump", "none", <<<<"J", "B">>>>)
    [] OTHER -> Generic(<<>>)
First80(b) ==   \* the groups 80, 81 and 83 are all alike
  CASE b \in {\h80, \h82, \h83} -> WithModRM(<<Byte>>)
    [] b = \h81 -> WithModRM(<<Immediate>>)
    [] b \in \h84..\h8F -> WithModRM(<<>>)
    [] b = \h9A -> Entry("jump", "none", <<<<"A", "P">>>>)
    [] b \in {\hA0, \hA2} -> Generic(<<<<"O", "B">>>>)
    [] b \in {\hA1, \hA3} -> Generic(<<<<"O", "V">>>>)
    [] b = \hA8 \/ b \in \hB0..\hB7 -> Generic(<<Byte>>)
    [] b = \hA9 -> Generic(<<Immediate>>)
    [] b \in \hB8..\hBF -> Generic(<<IF x64 THEN <<"I", "V64">> ELSE Immediate>>)
    [] OTHER -> Generic(<<>>)
\* s_opcode_byte_after_f6, f7, fe and ff; those of the arithmetic and the shifts
\* have entries that are all alike.
AfterF6(b, reg) == WithModRM(IF reg > 1 THEN <<>> ELSE IF b = \hF6 THEN <<Byte>> ELSE <<Immediate>>)
AfterFE(b, reg) ==
  CASE b = \hFE /\ reg > 1 -> Unknown
    [] b = \hFF /\ reg \in 2..5 -> Entry("jump", "decode", <<>>)
    [] b = \hFF /\ reg = 7 -> Unused
    [] OTHER -> WithModRM(<<>>)
FirstC0(b, reg) ==
  CASE b \in {\hC0, \hC1, \hC6} -> WithModRM(<<Byte>>)
    [] b \in {\hC2, \hCA} -> Entry("return", "none", <<Word>>)
    [] b \in {\hC3, \hCB} -> Entry("return", "none", <<>>)
    [] b \in {\hC4, \hC5} \cup \hD0..\hD3 -> WithModRM(<<>>)
    [] b = \hC7 -> WithModRM(<<Immediate>>)
    [] b = \hC8 -> Generic(<<Word, Byte>>)
    [] b \in {\hCD, \hD4, \hD5} \cup \hE4..\hE7 -> Generic(<<Byte>>)
    [] b \in {\hD6, \hF1} -> Unused
    [] b \in \hD8..\hDF -> Unknown
    [] b \in \hE0..\hE3 \cup {\hEB} -> Entry("jump", "none", <<<<"J", "B">>>>)
    [] b \in {\hE8, \hE9} -> Entry("jump", "none", <<<<"J", "V">>>>)
    [] b = \hEA -> Entry("jump", "none", <<<<"A", "P">>>>)
    [] b \in {\hF6, \hF7} -> AfterF6(b, reg)
    [] b \in {\hFE, \hFF} -> AfterFE(b, reg)
    [] OTHER -> Generic(<<>>)
FirstByte(b, reg) == CASE b < \h40 -> First00(b) [] b \in \h40..\h7F -> First40(b)
                       [] b \in \h80..\hBF -> First80(b) [] OTHER -> FirstC0(b, reg)

\* s_opcode_byte_after_0f00, 01, 18, 71, 72, 73, ae, ba and c7
After0F18(reg) == CASE reg = 0 -> WithModRM(<<>>) [] reg \in 1..3 -> Generic(<<>>) [] OTHER -> Unused
After0F71(b, got, reg) ==   \* shifts of MMX registers, of SSE registers after 66
  CASE b = \h73 /\ reg = 7 -> WithModRM(<<Byte>>)
    [] reg \notin (IF b = \h73 THEN {2, 6} ELSE {2, 4, 6}) -> Unused
    [] OTHER -> Entry("generic", IF \h66 \in got /\ b # \h71 THEN "decode" ELSE "reg", <<Byte>>)
After0FAE(reg) == IF reg = 4 THEN Unused ELSE Generic(<<>>)
After0FBA(reg) == IF reg < 4 THEN Unused ELSE WithModRM(<<Byte>>)
After0FC7(reg) == CASE reg = 0 -> Unused [] reg = 1 -> WithModRM(<<>>) [] OTHER -> Unknown

\* s_opcode_byte_after_0f, by its rows.  Of an opcode with several entries got, the
\* prefixes met, chooses one.
After0F00(b, got, reg) ==
  CASE b = \h00 -> IF reg > 5 THEN Unused ELSE WithModRM(<<>>)
    [] b = \h01 -> IF reg = 5 THEN Unused ELSE WithModRM(<<>>)
    [] b \in {\h04, \h05, \h07} \cup \h0A..\h0F \cup \h19..\h1F \cup \h24..\h27 \cup \h36..\h3B \cup \h3D..\h3F -> Unused
    [] b \in {\h06, \h08, \h09} \cup \h30..\h35 -> Generic(<<>>)
    [] b \in {\h12, \h16} /\ got \cap {\hF2, \hF3} # {} -> Entry("generic", "reg", <<>>)
    [] b = \h18 -> After0F18(reg)
    [] b \in \h20..\h23 -> Entry("generic", "reg", <<>>)
    [] OTHER -> WithModRM(<<>>)
After0F40 == WithModRM(<<>>)
After0F60(b, got, reg) ==
  CASE b \in {\h6C, \h6D} /\ \h66 \notin got -> Generic(<<>>)
    [] b = \h70 -> WithModRM(<<Byte>>)
    [] b \in \h71..\h73 -> After0F71(b, got, reg)
    [] b = \h77 -> Generic(<<>>)
    [] b \in \h78..\h7D -> Unknown
    [] OTHER -> WithModRM(<<>>)
After0F80(b, reg) ==
  CASE b \in \h80..\h8F -> Entry("jump", "none", <<<<"J", "V">>>>)
    [] b \in \hA0..\hA2 \cup \hA8..\hAA -> Generic(<<>>)
    [] b \in {\hA4, \hAC} -> WithModRM(<<Byte>>)
    [] b \in {\hA6, \hA7, \hB8, \hB9} -> Unknown
    [] b = \hAE -> After0FAE(reg)
    [] b = \hBA -> After0FBA(reg)
    [] OTHER -> WithModRM(<<>>)
After0FC0(b, got, reg) ==
  CASE b \in {\hC2, \hC4, \hC6} -> WithModRM(<<Byte>>)
    [] b = \hC5 -> Entry("generic", "reg", <<Byte>>)
    [] b = \hC7 -> After0FC7(reg)
    [] b \in \hC8..\hCF -> Generic(<<>>)
    [] b = \hD0 -> Unused
    [] b = \hD6 /\ got \cap {\hF2, \hF3, \h66} = {} -> Generic(<<>>)
    [] b = \hD7 -> Entry("generic", "reg", <<>>)
    [] OTHER -> WithModRM(<<>>)
After0FE0(b, got) ==
  CASE b \in {\hF0, \hFF} -> Unused
    [] b = \hE6 /\ got \cap {\hF2, \hF3, \h66} = {} -> Generic(<<>>)
    [] OTHER -> WithModRM(<<>>)
After0F(b, got, reg) == CASE b < \h40 -> After0F00(b, got, reg) [] b \in \h40..\h5F -> After0F40
                          [] b \in \h60..\h7F -> After0F60(b, got, reg) [] b \in \h80..\hBF -> After0F80(b, reg)
                          [] b \in \hC0..\hDF -> After0FC0(b, got, reg) [] OTHER -> After0FE0(b, got)

\* The groups take their opcode from a ModR/M byte, which is counted as such even
\* when it is not decoded.
IsGroup(opcode) ==
  \/ opcode[1] \in \h80..\h83 \cup {\hC0, \hC1} \cup \hD0..\hD3 \cup {\hF6, \hF7, \hFE, \hFF}
  \/ opcode[1] = \h0F /\ opcode[2] \in {\h00, \h01, \h18, \h71, \h72, \h73, \hAE, \hBA, \hC7}

------------------------------------------------------------------------------
\* Disassemble (mini_disassembler.cc:54-99)

\* ProcessPrefixes: any prefix that has a bit of 48h counts for REX.W.
OperandIs32(prefixes) == \h66 \notin Range(prefixes)
AddressIs32(prefixes) == \h67 \notin Range(prefixes)
OperandIs64(prefixes) ==
  x64 /\ Range(prefixes) \cap ((\h40..\h4F) \cup {\h2E, \h3E, \h64, \h65, \h67, \hF0}) # {}

\* ProcessOperand
OperandBytes(operand, prefixes) ==
  CASE operand[1] = "A" -> 0
    [] operand[2] = "B" -> 1
    [] operand[2] = "W" -> 2
    [] operand[2] = "V64" /\ OperandIs64(prefixes) -> 8
    [] OTHER -> IF OperandIs32(prefixes) THEN 4 ELSE 2

\* s_ia32_modrm_map_ and s_ia16_modrm_map_: the displacement, and whether a SIB follows
Modrm32(m) == [size |-> CASE m.mod = 1 -> 1 [] m.mod = 2 \/ (m.mod = 0 /\ m.rm = 5) -> 4 [] OTHER -> 0,
               sib |-> m.mod # 3 /\ m.rm = 4]
Modrm16AtFive(m) == [size |-> CASE m.mod = 1 -> 1 [] m.mod = 2 \/ (m.mod = 0 /\ m.rm = 5) -> 2 [] OTHER -> 0,
                     sib |-> FALSE]
Modrm16(m) == [size |-> CASE m.mod = 1 -> 1 [] m.mod = 2 \/ (m.mod = 0 /\ m.rm = 6) -> 2 [] OTHER -> 0,
               sib |-> FALSE]

\* ProcessSib counts a displacement for base 101 whatever mod is.
SibBytes(m) == 1 + (IF m.base = 5 THEN (IF m.mod = 1 THEN 1 ELSE 4) ELSE 0)
ModrmBytes(m, prefixes) ==
  LET entry == IF AddressIs32(prefixes) THEN Modrm32(m) ELSE Modrm16(m)
  IN 1 + entry.size + (IF entry.sib THEN SibBytes(m) ELSE 0)

\* ProcessOpcode
EntryOf(prefixes, opcode, reg) ==
  IF opcode[1] = \h0F THEN After0F(opcode[2], Range(prefixes), reg) ELSE FirstByte(opcode[1], reg)

Answer(prefixes, opcode, m) ==
  LET entry == EntryOf(prefixes, opcode, m.reg)
      modrm == CASE entry.modrm = "decode" -> ModrmBytes(m, prefixes)
                 [] entry.modrm = "reg" \/ IsGroup(opcode) -> 1
                 [] OTHER -> 0
      operands == FoldSeq(LAMBDA o, n : n + OperandBytes(o, prefixes), 0, entry.operands)
  IN IF entry.type \in {"unused", "unknown"} THEN [type |-> "unknown", bytes |-> 0]
     ELSE [type |-> entry.type, bytes |-> Len(prefixes) + Len(opcode) + modrm + operands]

Opcodes == {<<b>> : b \in {c \in 0..255 : ~PrefixByte(c) /\ c # \h0F}} \cup {<<\h0F, b>> : b \in 0..255}
NoAnswer == [m \in ModRMs |-> [type |-> "none", bytes |-> 0]]

DisassemblerInit ==
  /\ instruction \in [prefixes : PrefixSeqs, opcode : Opcodes]
  /\ answer = NoAnswer
Disassemble ==
  /\ answer = NoAnswer
  /\ answer' = [m \in ModRMs |-> Answer(instruction.prefixes, instruction.opcode, m)]
  /\ UNCHANGED instruction
DisassemblerNext == Disassemble

------------------------------------------------------------------------------
(* The processor, by the manual that the header names, as far as the             *)
(* disassembler answers.                                                        *)

Wide(prefixes) == x64 /\ prefixes # <<>> /\ Last(prefixes) \in \h48..\h4F   \* REX.W
SizeOfZ(prefixes) == IF \h66 \in Range(prefixes) /\ ~Wide(prefixes) THEN 2 ELSE 4
SizeOfAddress(prefixes) ==
  IF \h67 \in Range(prefixes) THEN (IF x64 THEN 4 ELSE 2) ELSE (IF x64 THEN 8 ELSE 4)

HasModRM(opcode) ==
  IF opcode[1] = \h0F
  THEN opcode[2] \notin {\h06, \h08, \h09, \h77} \cup \h30..\h35 \cup \h80..\h8F \cup \hA0..\hA2 \cup \hA8..\hAA \cup \hC8..\hCF
  ELSE \/ opcode[1] < \h40 /\ opcode[1] % 8 < 4
       \/ opcode[1] \in {\h62, \h63, \h69, \h6B} \cup \h80..\h8F \cup {\hC0, \hC1} \cup \hC4..\hC7 \cup \hD0..\hD3
       \/ opcode[1] \in \hD8..\hDF \cup {\hF6, \hF7, \hFE, \hFF}

ImmediateSize(prefixes, opcode, reg) ==
  LET b == opcode[1]
      z == SizeOfZ(prefixes)
  IN CASE b = \h0F -> CASE opcode[2] \in \h80..\h8F -> z
                        [] opcode[2] \in \h70..\h73 \cup {\hA4, \hAC, \hBA, \hC2, \hC4, \hC5, \hC6} -> 1
                        [] OTHER -> 0
       [] (b < \h40 /\ b % 8 = 4) \/ b \in {\h6A, \h6B, \hA8, \hC0, \hC1, \hC6, \hCD, \hD4, \hD5, \hEB} -> 1
       [] b \in \h70..\h7F \cup {\h80, \h82, \h83} \cup \hB0..\hB7 \cup \hE0..\hE7 -> 1
       [] (b < \h40 /\ b % 8 = 5) \/ b \in {\h68, \h69, \h81, \hA9, \hC7, \hE8, \hE9} -> z
       [] b \in \hB8..\hBF -> IF Wide(prefixes) THEN 8 ELSE z
       [] b \in \hA0..\hA3 -> SizeOfAddress(prefixes)
       [] b \in {\hC2, \hCA} -> 2
       [] b = \hC8 -> 3
       [] b \in {\h9A, \hEA} -> 2 + z
       [] b \in {\hF6, \hF7} /\ reg < 2 -> IF b = \hF6 THEN 1 ELSE z
       [] OTHER -> 0

\* ModR/M, SIB and displacement.  With 67 a 32-bit program has addresses of 16 bits.
AddressingSize(prefixes, m) ==
  LET short == SizeOfAddress(prefixes) = 2
      sib == ~short /\ m.rm = 4
      displacement == CASE m.mod = 1 -> 1
                        [] m.mod = 2 -> IF short THEN 2 ELSE 4
                        [] m.mod = 0 /\ m.rm = (IF short THEN 6 ELSE 5) -> IF short THEN 2 ELSE 4
                        [] m.mod = 0 /\ sib /\ m.base = 5 -> 4
                        [] OTHER -> 0
  IN 1 + (IF m.mod = 3 THEN 0 ELSE displacement + (IF sib THEN 1 ELSE 0))

ProcessorLength(prefixes, opcode, m) ==
  Len(prefixes) + Len(opcode) + ImmediateSize(prefixes, opcode, m.reg)
    + (IF HasModRM(opcode) THEN AddressingSize(prefixes, m) ELSE 0)

\* What a compiler can have made.  Moves to and from control registers, and some of
\* SSE, have no operand in memory; without their prefix three opcodes are none.
Legal(prefixes, opcode, m) ==
  IF opcode[1] = \h0F
  THEN /\ opcode[2] # \h3C
       /\ opcode[2] \in (\h20..\h23) \cup {\h50, \h71, \h72, \h73, \hC5, \hD7, \hF7} => m.mod = 3
       /\ opcode[2] \in {\h6C, \h6D} => \h66 \in Range(prefixes)
       /\ opcode[2] \in {\hD6, \hE6} => Range(prefixes) \cap {\hF2, \hF3, \h66} # {}
       /\ x64 /\ \h66 \in Range(prefixes) => opcode[2] \notin \h80..\h8F
  ELSE /\ opcode[1] \in {\h62, \hC4, \hC5} => ~x64 /\ m.mod # 3
       /\ opcode[1] = \h8F => m.reg = 0
       /\ x64 => opcode[1] \notin {\h06, \h07, \h0E, \h16, \h17, \h1E, \h1F, \h27, \h2F, \h37, \h3F, \h60, \h61,
                                \h82, \h9A, \hCE, \hD4, \hD5, \hEA}
       /\ x64 /\ \h66 \in Range(prefixes) => opcode[1] \notin {\hE8, \hE9}

IsJump(opcode, reg) ==
  \/ opcode[1] \in (\h70..\h7F) \cup {\h9A, \hEB} \cup \hE0..\hE3 \cup \hE8..\hEA
  \/ opcode[1] = \h0F /\ opcode[2] \in \h80..\h8F
  \/ opcode[1] = \hFF /\ reg \in 2..5

------------------------------------------------------------------------------
\* Where the disassembler is known to count something else than the processor.
DisplacementTwice(prefixes, m) == AddressIs32(prefixes) /\ m.mod \in {1, 2} /\ m.rm = 4 /\ m.base = 5
Miscounted(prefixes, opcode, m) ==
  \/ HasModRM(opcode) /\ DisplacementTwice(prefixes, m)
  \/ HasModRM(opcode) /\ x64 /\ ~AddressIs32(prefixes) /\ m.mod # 3           \* the table for 16 bits
  \/ opcode[1] \in \hB8..\hBF /\ OperandIs64(prefixes) /\ ~Wide(prefixes)     \* taken for REX.W
  \/ ~OperandIs32(prefixes) /\ Wide(prefixes) /\ SizeOfZ(prefixes) = 4          \* 66 with REX.W
  \/ opcode[1] \in (\hA0..\hA3) \cup {\h9A, \hEA}                             \* addresses in the instruction
  \/ opcode[1] = \h0F /\ opcode[2] \in {\h12, \h16} /\ Range(prefixes) \cap {\hF2, \hF3} # {}
  \/ opcode[1] = \h0F /\ (opcode[2] = \hAE \/ (opcode[2] = \h18 /\ m.reg \in 1..3))   \* ModR/M not decoded

\* The next instruction begins where the disassembler says, but for what is named
\* above, and no jump or return passes for something that can be moved as it is.
LengthsTrue ==
  LET p == instruction.prefixes
      o == instruction.opcode
  IN answer # NoAnswer =>
       \A m \in ModRMs : answer[m].type # "unknown" /\ Legal(p, o, m) =>
         /\ Miscounted(p, o, m) \/ answer[m].bytes = ProcessorLength(p, o, m)
         /\ (answer[m].type = "jump") = IsJump(o, m.reg)
         /\ (answer[m].type = "return") = (o[1] \in {\hC2, \hC3, \hCA, \hCB})

\* mini_disassembler.h:67-70: "The opcode length is always calculated, so that the
\* patching utility can figure out where the next instruction starts".
AlwaysCalculated ==
  answer # NoAnswer =>
    \A m \in ModRMs : LET p == instruction.prefixes
                           o == instruction.opcode
                       IN answer[m].type # "unknown" /\ Legal(p, o, m) /\ DisplacementTwice(p, m)
                            => answer[m].bytes = ProcessorLength(p, o, m)
=============================================================================
