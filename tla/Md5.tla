-------------------------------- MODULE Md5 --------------------------------
(***************************************************************************)
(* md5_helper.cpp around the compression function: MD5_Update cuts a       *)
(* message that comes in pieces into blocks, MD5_Final pads it.  body()    *)
(* is what it was given; a byte is its place in the message.               *)
(***************************************************************************)
EXTENDS Integers, Sequences

CONSTANTS Block,      \* bytes of a block: 64
          Half,       \* bytes of each half of the length field: 4
          Wrap,       \* values of lo: 2^29, so that lo << 3 has 32 bits
          HiWrap,     \* values of hi: 2^32
          Pieces,     \* sizes of the pieces: what fread or the caller gives
          MaxTotal    \* bound: bytes of a message

ASSUME Md5Assumption ==
  /\ Block \in Nat \ {0} /\ Half \in Nat /\ 2 * Half < Block
  /\ Wrap \in Nat \ {0} /\ Wrap % Block = 0
  /\ HiWrap \in Nat \ {0}
  /\ Pieces \subseteq Nat
  /\ MaxTotal \in Nat

VARIABLES lo, hi,     \* the length so far: bytes below Wrap, and carries
          buffer,     \* the block being filled; what is stale stays
          digested,   \* all that body() has been given
          total,      \* bytes of the message so far
          final       \* has MD5_Final been called?

md5Vars == <<lo, hi, buffer, digested, total, final>>

Byte(i) == <<"byte", i>>
Zero == <<"zero", 0>>

(* MD5_Init; the buffer is not initialised, and nothing reads it as it is. *)
Md5Init ==
  /\ lo = 0 /\ hi = 0
  /\ buffer = [i \in 1 .. Block |-> Zero]
  /\ digested = <<>>
  /\ total = 0
  /\ final = FALSE

-----------------------------------------------------------------------------
(* The bytes of the message behind the first "from", up to "to". *)
Message(from, to) == [i \in 1 .. to - from |-> Byte(from + i)]

(* memcpy to a buffer, behind its first "from" cells. *)
Copied(cells, from, bytes) ==
  [i \in 1 .. Block |-> IF i - from \in DOMAIN bytes THEN bytes[i - from] ELSE cells[i]]

Used == lo % Block

Carry(old, new) == IF new < old THEN 1 ELSE 0

Counted(size) ==
  /\ lo' = (lo + size) % Wrap
  /\ hi' = (hi + Carry(lo, lo') + size \div Wrap) % HiWrap
  /\ total' = total + size

(* Mutant: a piece that just completes the block counts as one that fits. *)
BadFits(size) == Used # 0 /\ size <= Block - Used

Fits(size) == Used # 0 /\ size < Block - Used

(* The piece does not complete the block being filled. *)
UpdateInBuffer(size) ==
  /\ ~final /\ total + size <= MaxTotal
  /\ Fits(size)
  /\ Counted(size)
  /\ buffer' = Copied(buffer, Used, Message(total, total + size))
  /\ UNCHANGED <<digested, final>>

(* The piece completes the block, if one was begun; whole blocks follow     *)
(* from the piece itself, and what is left over begins the next block.      *)
UpdateBlocks(size) ==
  LET filling == IF Used = 0 THEN 0 ELSE Block - Used
      filled == Copied(buffer, Used, Message(total, total + filling))
      whole == (total + size) - ((size - filling) % Block)
  IN /\ ~final /\ total + size <= MaxTotal
     /\ ~Fits(size)
     /\ Counted(size)
     /\ digested' = digested \o (IF Used = 0 THEN <<>> ELSE filled)
                             \o Message(total + filling, whole)
     /\ buffer' = Copied(filled, 0, Message(whole, total + size))
     /\ UNCHANGED final

(* What stands behind the message: 0x80, zeros, and the length.  When the   *)
(* length does not fit behind the 0x80 the zeros fill one more block.       *)
Room == Block - Used - 1

PadTo == IF Room < 2 * Half THEN 2 * Block ELSE Block

Ending(i) ==
  CASE i = Used + 1 -> <<"0x80", 0>>
    [] i > PadTo - 2 * Half /\ i <= PadTo - Half -> <<"lo", lo * 8>>
    [] i > PadTo - Half -> <<"hi", hi>>
    [] i <= Used -> buffer[i]
    [] OTHER -> Zero

(* MD5_Final; the context is wiped. *)
MD5_Final ==
  /\ ~final
  /\ digested' = digested \o [i \in 1 .. PadTo |-> Ending(i)]
  /\ final' = TRUE
  /\ lo' = 0 /\ hi' = 0
  /\ buffer' = [i \in 1 .. Block |-> Zero]
  /\ UNCHANGED total

Md5Next ==
  \/ \E size \in Pieces : UpdateInBuffer(size) \/ UpdateBlocks(size)
  \/ MD5_Final

Md5Spec == Md5Init /\ [][Md5Next]_md5Vars

-----------------------------------------------------------------------------
(* The padded message, by its length alone. *)
Padded(n) ==
  LET spare == Block - ((n + 1 + 2 * Half) % Block)
      zeros == IF spare = Block THEN 0 ELSE spare
      whole == n + 1 + zeros + 2 * Half
  IN [i \in 1 .. whole |->
        CASE i <= n -> Byte(i)
          [] i = n + 1 -> <<"0x80", 0>>
          [] i > n + 1 /\ i <= whole - 2 * Half -> Zero
          [] i > whole - 2 * Half /\ i <= whole - Half -> <<"lo", (n % Wrap) * 8>>
          [] OTHER -> <<"hi", (n \div Wrap) % HiWrap>>]

(* However the message is cut into pieces, what has been digested is its    *)
(* beginning up to the last whole block, the rest is the beginning of the   *)
(* buffer, and the counters hold the length.                                *)
BufferHoldsTheRest ==
  ~final =>
    /\ lo = total % Wrap /\ hi = (total \div Wrap) % HiWrap
    /\ digested = Message(0, total - Used)
    /\ \A i \in 1 .. Used : buffer[i] = Byte(total - Used + i)

(* ... so that in the end body() was given the padded message. *)
DigestsPaddedMessage == BufferHoldsTheRest /\ (final => digested = Padded(total))
=============================================================================
