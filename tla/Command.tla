------------------------------ MODULE Command ------------------------------
(***************************************************************************)
(* The way of a breakpoint request into a comparator: BreakCommand checks  *)
(* and writes it (user/kpm/command.go), spz_parse_break reads and checks   *)
(* it again (kpm/core/command.c), spz_debug_validate_request checks it a   *)
(* third time and computes the register image (kpm/core/debug.c).          *)
(*                                                                         *)
(* A command is the sequence of its key=value tokens.  A number token is   *)
(* the number it denotes and the base it is written in; how the parser     *)
(* builds it up digit by digit within 64 bits is AddDigit.                 *)
(***************************************************************************)
EXTENDS Integers, Sequences

CONSTANTS
    U8Max, U32Max, U64Max,  \* the widths of the fields
    AddressLimit            \* 2^56: no top byte

ASSUME CommandAssumption ==
    /\ U8Max \in Nat /\ U32Max \in Nat /\ U64Max \in Nat /\ AddressLimit \in Nat
    /\ 8 <= U8Max /\ U8Max <= U32Max
    /\ AddressLimit + U8Max <= U64Max

Breakpoint == [id : 0..U32Max, kind : {"x", "r", "w", "rw"},
               address : 0..U64Max, length : 0..U8Max,
               mode : {"once", "repeat"}]

-----------------------------------------------------------------------------
(* One digit more: value * base + digit, unless it leaves the 64 bits.     *)
ERANGE == -34
AddDigit(value, digit, base) ==
    IF value > (U64Max - digit) \div base THEN ERANGE ELSE value * base + digit

-----------------------------------------------------------------------------
(* The checks of the address and the length, written three times in the    *)
(* source with the same conditions, on 64-bit words.                       *)
Word(n) == n % (U64Max + 1)
LastByte(b) == Word(b.address + b.length - 1)

AddressFits(b) == b.address # 0 /\ b.address < AddressLimit
ExecuteFits(b) == b.length = 4 /\ b.address % 4 = 0
WatchFits(b) == /\ b.length \in {1, 2, 4, 8}
                /\ b.address <= LastByte(b)
                /\ b.address \div 8 = LastByte(b) \div 8
Fits(b) == /\ b.id # 0 /\ AddressFits(b)
           /\ IF b.kind = "x" THEN ExecuteFits(b) ELSE WatchFits(b)

Decimal(n) == [base |-> 10, n |-> n]
Hex(n) == [base |-> 16, n |-> n]
Pair(key, value) == [key |-> key, value |-> value]

NoCommand == <<>>
BreakCommand(b) ==
    IF ~Fits(b) THEN NoCommand
    ELSE <<Pair("id", Decimal(b.id)), Pair("kind", b.kind),
           Pair("addr", Hex(b.address)), Pair("len", Decimal(b.length)),
           Pair("mode", b.mode)>>

-----------------------------------------------------------------------------
(* spz_parse_break.                                                        *)
parse_decimal(token, max) == token.base = 10 /\ token.n \in 0..max
parse_hex(token) == token.base = 16 /\ token.n \in 0..U64Max

TokenFits(key, value) ==
    \/ key = "id" /\ parse_decimal(value, U32Max)
    \/ key = "kind" /\ value \in {"x", "r", "w", "rw"}
    \/ key = "addr" /\ parse_hex(value)
    \/ key = "len" /\ parse_decimal(value, U8Max)
    \/ key = "mode" /\ value \in {"once", "repeat"}

\* The record the tokens fill; `seen' refuses a key that comes twice.
Fills(tokens, b) ==
    /\ Len(tokens) = 5
    /\ \A i \in 1..5 : TokenFits(tokens[i].key, tokens[i].value)
    /\ \A i, j \in 1..5 : tokens[i].key = tokens[j].key => i = j
    /\ \A i \in 1..5 :
        /\ tokens[i].key = "id" => b.id = tokens[i].value.n
        /\ tokens[i].key = "kind" => b.kind = tokens[i].value
        /\ tokens[i].key = "addr" => b.address = tokens[i].value.n
        /\ tokens[i].key = "len" => b.length = tokens[i].value.n
        /\ tokens[i].key = "mode" => b.mode = tokens[i].value

parse_break(tokens, b) == b \in Breakpoint /\ Fills(tokens, b) /\ Fits(b)

-----------------------------------------------------------------------------
(* spz_debug_validate_request: the value register and the byte address     *)
(* select bits, of which the register has eight.                           *)
Granule(b) == IF b.kind = "x" THEN b.address ELSE b.address - (b.address % 8)
ByteMask(b) == IF b.kind = "x" THEN 0..3
               ELSE {k \in 0..7 : /\ b.address % 8 <= k
                                  /\ k < (b.address % 8) + b.length}

\* The bytes of the target's memory that the comparator matches.
Matched(b) == {Granule(b) + k : k \in ByteMask(b)}
Asked(b) == b.address .. (b.address + b.length - 1)

=============================================================================
