------------------------------- MODULE Buffer -------------------------------
(***************************************************************************)
(* The growing string of rpcUtils.c (strBuff), that every document is built*)
(* in.  Only its lengths are modelled; what it holds is in Codec.          *)
(***************************************************************************)
EXTENDS Naturals

CONSTANT BuffStart   (* the bytes a new buffer has: BUFF_START              *)

ASSUME BuffStartAssumption == BuffStart \in Nat \ {0}

VARIABLES
  len,   (* sp->len: the bytes in use                                       *)
  all,   (* sp->all: the bytes allocated                                    *)
  top    (* the end of the highest byte that has been written to            *)

buffer == <<len, all, top>>

BufferInit == len = 0 /\ all = BuffStart /\ top = 0
NewBuff == len' = 0 /\ all' = BuffStart /\ top' = 0

(* Mutant: room is made for the new bytes only.                            *)
GrowBuffShort(n) ==
  IF all > len + n + 1 THEN all
  ELSE IF all * 2 > len + n + 1 THEN all * 2
  ELSE len + n

(* growBuff: what is allocated for n more bytes.                           *)
GrowBuff(n) ==
  IF all > len + n + 1 THEN all
  ELSE IF all * 2 > len + n + 1 THEN all * 2
  ELSE all + n + 1

(* Mutant: the null byte is counted.                                       *)
BuffAppendNull(n) == all' = GrowBuff(n) /\ len' = len + n + 1 /\ top' = len + n + 1

(* buffAppend and buffRepeat write n bytes; buffConcat, which copies a C   *)
(* string, writes the null byte at its end as well.                        *)
BuffAppend(n) == all' = GrowBuff(n) /\ len' = len + n /\ top' = len + n
BuffConcat(n) == all' = GrowBuff(n) /\ len' = len + n /\ top' = len + n + 1

BuffNext == NewBuff \/ \E n \in Nat : BuffAppend(n) \/ BuffConcat(n)
BuffSpec == BufferInit /\ [][BuffNext]_buffer

(* Nothing is written behind the end of what is allocated, and there is    *)
(* always room for the null byte (growBuff is called once before each      *)
(* write).                                                                 *)
BufferSound == top <= all /\ len < all
=============================================================================
