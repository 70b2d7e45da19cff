--------------------------- MODULE ReaderChecksum ---------------------------
(* The checksum of a frame, crc16 of adapters/idt85.py.  ReaderFrames takes *)
(* it as a constant and assumes of it what the agent relies on.             *)
EXTENDS Integers, Sequences, Bitwise

CRCBit(crc) == IF crc % 2 = 1 THEN (crc \div 2) ^^ 33800 ELSE crc \div 2

\* Bits and bytes are functions, whose argument TLC evaluates before it goes on.
CRCByte(crc) ==
    LET bit[c \in 0 .. 65535]  == CRCBit(c)
        after[n \in 0 .. 8] == IF n = 0 THEN crc ELSE bit[after[n - 1]]
    IN  after[8]

\* crc16
CRC16(data) ==
    LET byte[c \in 0 .. 65535]       == CRCByte(c)
        over[n \in 0 .. Len(data)] == IF n = 0 THEN 65535 ELSE byte[over[n - 1] ^^ data[n]]
    IN  over[Len(data)]
=============================================================================
