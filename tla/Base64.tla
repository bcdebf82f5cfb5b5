------------------------------- MODULE Base64 -------------------------------
(***************************************************************************)
(* Utils::Base64 over bytes.  A character of the alphabet is its number in *)
(* encodeTable; Blank stands for what is in no table.                      *)
(***************************************************************************)
EXTENDS Naturals, Sequences, FiniteSets, SequencesExt

Pad   == 64
Blank == 65

(* Three bytes make four symbols, and one or two are padded to four. *)
Block(in) ==
    CASE Len(in) = 3 -> <<in[1] \div 4, 16 * (in[1] % 4) + in[2] \div 16,
                          4 * (in[2] % 16) + in[3] \div 64, in[3] % 64>>
      [] Len(in) = 2 -> <<in[1] \div 4, 16 * (in[1] % 4) + in[2] \div 16, 4 * (in[2] % 16), Pad>>
      [] Len(in) = 1 -> <<in[1] \div 4, 16 * (in[1] % 4), Pad, Pad>>

Pieces(s, n) ==
    [i \in 1 .. (Len(s) + n - 1) \div n |->
       SubSeq(s, n * (i - 1) + 1, IF n * i < Len(s) THEN n * i ELSE Len(s))]

(* Faulty variant: no room for the padding. *)
Room_Short(len) == (len * 4) \div 3

(* The output is made of blanks, and is not cut to what is written. *)
Room(len) == (len * 4) \div 3 + 4

(* The symbols are written block by block. *)
Encode(src) ==
    LET blocks == Pieces(src, 3)
    IN  [i \in 1 .. Room(Len(src)) |->
           IF i <= 4 * Len(blocks) THEN Block(blocks[(i - 1) \div 4 + 1])[((i - 1) % 4) + 1]
                                  ELSE Blank]

(* What decode makes of four symbols; a mark of padding counts as nothing. *)
Value(c) == IF c = Pad THEN 0 ELSE c

Bytes(block) ==
    <<(4 * Value(block[1]) + Value(block[2]) \div 16) % 256,
      (16 * Value(block[2]) + Value(block[3]) \div 4) % 256,
      (64 * Value(block[3]) + Value(block[4])) % 256>>

Zeros(n) == [i \in 1 .. n |-> 0]

(* The k-th of some positions, and what stands at them. *)
Nth(positions, k) == CHOOSE i \in positions : Cardinality(positions \cap (1 .. i)) = k

At(s, positions) == [k \in 1 .. Cardinality(positions) |-> s[Nth(positions, k)]]

Marks(s) == {i \in DOMAIN s : s[i] = Pad}

(* What is in no table is passed over.  The first block with padding ends the
   loop; its padding moves the position back, which does not take the bytes
   that were written there, nor those not reached, out of the result.         *)
Decode(src) ==
    LET known  == At(src, {i \in DOMAIN src : src[i] # Blank})
        blocks == Pieces(known, 4)
        last   == SelectInSeq(blocks, LAMBDA b : Marks(b) # {})
        done   == IF last = 0 THEN Len(blocks) ELSE last
    IN  IF Len(known) % 4 # 0 \/ (last # 0 /\ Cardinality(Marks(blocks[last])) > 2) THEN <<>>
        ELSE [i \in 1 .. 3 * Len(blocks) |->
                IF i <= 3 * done THEN Bytes(blocks[(i - 1) \div 3 + 1])[((i - 1) % 3) + 1] ELSE 0]

-----------------------------------------------------------------------------
(* What base64 means: the symbols of the alphabet are a string of bits, six
   each, and the data its bytes.                                             *)
BitOf(sextets, k) == (sextets[k \div 6 + 1] \div <<32, 16, 8, 4, 2, 1>>[(k % 6) + 1]) % 2

ByteAt(sextets, place) ==
    LET bit(k) == BitOf(sextets, place + k)
    IN  128 * bit(0) + 64 * bit(1) + 32 * bit(2) + 16 * bit(3)
          + 8 * bit(4) + 4 * bit(5) + 2 * bit(6) + bit(7)

BytesOf(sextets) == [i \in 1 .. (6 * Len(sextets)) \div 8 |-> ByteAt(sextets, 8 * (i - 1))]
=============================================================================
