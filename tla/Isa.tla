--------------------------------- MODULE Isa ---------------------------------
(***************************************************************************)
(* Instruction words of the UM: the fields every runtime decodes, the       *)
(* encoders of the assembler (assembler/crude_asm/main.c), and the bytes of *)
(* a program file, most significant first.                                  *)
(*                                                                          *)
(* The widths are parameters.  In the code a register field has 3 bits, the *)
(* value of a load-value word 25, the opcode 4 above 28, and a byte 8:      *)
(* NREGS = 2^3, LV_UNIT = 2^25, OP_UNIT = 2^28, BYTE = 2^8.                 *)
(***************************************************************************)
EXTENDS Integers, Sequences

CONSTANTS NREGS,     \* number of registers
          LV_UNIT,   \* weight of the register field of a load-value word
          OP_UNIT,   \* weight of the opcode field
          BYTE       \* number of values of a byte

ASSUME IsaAssumption ==
    /\ NREGS \in Nat \ {0} /\ LV_UNIT \in Nat \ {0} /\ BYTE \in Nat \ {0}
    /\ OP_UNIT = NREGS * LV_UNIT
    /\ LV_UNIT % (NREGS * NREGS) = 0

Reg == 0..NREGS - 1

-----------------------------------------------------------------------------
\* Decoding: shifts and masks are divisions and remainders.

opcode(word) == word \div OP_UNIT
reg_c(word) == word % NREGS
reg_b(word) == (word \div NREGS) % NREGS
reg_a(word) == (word \div (NREGS * NREGS)) % NREGS
lv_reg(word) == (word \div LV_UNIT) % NREGS
lv_val(word) == word % LV_UNIT

\* Encoding: the fields do not overlap, so that `|' adds them.  The value of a
\* load-value word is not masked; the callers keep it below LV_UNIT.
three_reg(op, a, b, c) == op * OP_UNIT + a * NREGS * NREGS + b * NREGS + c
load_val(val, a) == 13 * OP_UNIT + a * LV_UNIT + val

\* A word in a file, as htonl and fwrite put it there, and as the loaders'
\* assemble_word (make_word in the JITs) takes it back.
Bytes(word) == << word \div (BYTE * BYTE * BYTE), (word \div (BYTE * BYTE)) % BYTE,
                  (word \div BYTE) % BYTE, word % BYTE >>
assemble(bytes) == bytes[1] * BYTE * BYTE * BYTE + bytes[2] * BYTE * BYTE
                     + bytes[3] * BYTE + bytes[4]
=============================================================================
