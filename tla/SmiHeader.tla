------------------------------ MODULE SmiHeader ------------------------------
(****************************************************************************)
(* The one-byte field elems_and_op of SMI_Message_header: five bits of      *)
(* element count above three bits of operation type, stored in an OpenCL    *)
(* `char', which is a signed 8-bit integer.  The accessor macros are        *)
(* modelled with that width: a count of 16 or more sets the sign bit, and   *)
(* the right shift of GET_HEADER_NUM_ELEMS then extends it.                 *)
(****************************************************************************)
EXTENDS Integers

Char == -128 .. 127

(* Conversion of an int to a signed 8-bit char. *)
ToChar(x) == ((x + 128) % 256) - 128

SMI_SEND      == 0
SMI_RECEIVE   == 1
SMI_BROADCAST == 2
SMI_SYNCH     == 3
SMI_SCATTER   == 4
SMI_REDUCE    == 5
SMI_GATHER    == 6
SMI_BARRIER   == 7

GET_HEADER_OP(elems_and_op)        == elems_and_op % 8
GET_HEADER_NUM_ELEMS(elems_and_op) == elems_and_op \div 8

(* (H.elems_and_op & 248) | O & 7 *)
SET_HEADER_OP(elems_and_op, op) ==
    ToChar((elems_and_op % 256) - (elems_and_op % 8) + (op % 8))

(* Mutant: the count is shifted by two bits. *)
SET_HEADER_NUM_ELEMS_Shift2(elems_and_op, n) ==
    ToChar((elems_and_op % 8) + 4 * n)

(* (H.elems_and_op & 7) | (N << 3) *)
SET_HEADER_NUM_ELEMS(elems_and_op, n) ==
    ToChar((elems_and_op % 8) + 8 * n)
=============================================================================
