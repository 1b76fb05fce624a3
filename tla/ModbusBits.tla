------------------------------ MODULE ModbusBits ------------------------------
(***************************************************************************)
(* Bits on their way between the array of a client, the bytes of a frame   *)
(* and the table of a server.  A byte is the set of the positions of its   *)
(* ones, so that 1 << shift is {shift} and | is union.  Arrays of a client *)
(* and sequences of bytes are indexed from 1, tables from 0.               *)
(***************************************************************************)
EXTENDS Integers, Sequences

CONSTANT BitsPerByte      \* 8 in the code

ASSUME BitsPerByteAssumption == BitsPerByte \in Nat \ {0}

(* OFF and ON in a table or an array of bits.                              *)
Bits      == {0, 1}
Positions == 0..(BitsPerByte - 1)
Byte      == SUBSET Positions

(* The bytes that hold nb bits.                                            *)
BytesFor(nb) == (nb \div BitsPerByte) + (IF nb % BitsPerByte # 0 THEN 1 ELSE 0)

BitOf(byte, shift) == IF shift \in byte THEN 1 ELSE 0

-----------------------------------------------------------------------------
(* response_io_status: the next cell goes into the byte under construction *)
(* at its shift; a full byte is put into the answer.                       *)
Fill(before, cell) ==
  LET byte == before.byte \union (IF cell = 0 THEN {} ELSE {before.shift})
  IN  IF before.shift = BitsPerByte - 1
      THEN [rsp |-> Append(before.rsp, byte), byte |-> {}, shift |-> 0]
      ELSE [rsp |-> before.rsp, byte |-> byte, shift |-> before.shift + 1]

Filling(table, address, nb) ==
  LET fill[n \in 0..nb] ==
        IF n = 0 THEN [rsp |-> <<>>, byte |-> {}, shift |-> 0]
        ELSE Fill(fill[n - 1], table[address + n - 1])
  IN  fill[nb]

(* Faulty variant, for mutation: a last byte that is not full is left out. *)
IoStatusFull(table, address, nb) == Filling(table, address, nb).rsp

(* At the end a byte that has been begun is put into the answer too.       *)
IoStatus(table, address, nb) ==
  LET last == Filling(table, address, nb)
  IN  IF last.shift # 0 THEN Append(last.rsp, last.byte) ELSE last.rsp

(* read_io_status: dest after an answer with these bytes.                  *)
ReadDest(bytes, nb) ==
  [pos \in 1..nb |-> BitOf(bytes[(pos - 1) \div BitsPerByte + 1], (pos - 1) % BitsPerByte)]

(* modbus_write_bits: the bytes of a request for nb bits of src.           *)
WriteBytes(src, nb) ==
  [k \in 1..BytesFor(nb) |->
     {bit \in Positions : LET pos == (k - 1) * BitsPerByte + bit + 1
                          IN  pos <= nb /\ src[pos] # 0}]

(* Faulty variants, for mutation: one bit too many, one too few.           *)
SetBitsOneMore(dest, index, nb, bytes) ==
  [i \in DOMAIN dest |->
     IF i \in index..(index + nb)
     THEN IF (i - index) \div BitsPerByte < Len(bytes)
          THEN BitOf(bytes[(i - index) \div BitsPerByte + 1], (i - index) % BitsPerByte)
          ELSE 0
     ELSE dest[i]]

SetBitsSameByte(dest, index, nb, bytes) ==
  [i \in DOMAIN dest |->
     IF i \in index..(index + nb - 1) THEN BitOf(bytes[1], (i - index) % BitsPerByte)
     ELSE dest[i]]

(* modbus_set_bits_from_bytes: a table after nb bits of these bytes are    *)
(* stored from index on.                                                   *)
SetBitsFromBytes(dest, index, nb, bytes) ==
  [i \in DOMAIN dest |->
     IF i \in index..(index + nb - 1)
     THEN BitOf(bytes[(i - index) \div BitsPerByte + 1], (i - index) % BitsPerByte)
     ELSE dest[i]]

(* modbus_set_bits_from_byte.                                              *)
SetBitsFromByte(dest, index, value) ==
  [i \in DOMAIN dest |->
     IF i \in index..(index + BitsPerByte - 1) THEN BitOf(value, i - index) ELSE dest[i]]

(* modbus_get_byte_from_bits; without asserts more bits than a byte has    *)
(* are as many as it has.                                                  *)
ByteFromBits(src, index, nb) ==
  {i \in Positions : i < nb /\ src[index + i] # 0}

-----------------------------------------------------------------------------
(* A float is the 32 bits memcpy moves, as a number; src and dest are the  *)
(* two registers of a slave, the low half in the first.                    *)
RegisterRange == 65536

(* modbus_get_float and modbus_set_float.                                  *)
GetFloat(src) == src[2] * RegisterRange + src[1]
SetFloat(f)   == <<f % RegisterRange, f \div RegisterRange>>
=============================================================================
