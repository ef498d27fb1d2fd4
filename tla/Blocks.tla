------------------------------- MODULE Blocks -------------------------------
(***************************************************************************)
(* The 4096-byte blocks the target entangles, and the three functions the  *)
(* target computes on them: the XOR loop of process_write_bio, the test    *)
(* is_buffer_empty and the checksum crc32b, both of utils.h.               *)
(*                                                                         *)
(* A block is a function from byte positions to bytes.  What the target    *)
(* relies on is only that XOR is a group operation on bytes in which every *)
(* byte is its own inverse, so bytes and XOR are parameters.               *)
(***************************************************************************)
EXTENDS Integers

CONSTANTS
  BlockBytes,     \* ENT_BLOCK_SIZE, 4096 in the code
  PtrBytes,       \* sizeof(char *), 8 in the committed build
  Byte,           \* the values of an unsigned char
  ZeroByte,       \* '\0'
  XorByte(_, _),  \* the C operator ^ on bytes
  Beyond          \* what may follow a block in kernel memory

ASSUME SizeAssumption ==
  /\ BlockBytes \in Nat
  /\ PtrBytes \in 1 .. BlockBytes

ASSUME ByteAssumption ==
  /\ ZeroByte \in Byte
  /\ \A a, b \in Byte : XorByte(a, b) \in Byte
  /\ \A a, b \in Byte : XorByte(a, b) = XorByte(b, a)
  /\ \A a, b, c \in Byte : XorByte(XorByte(a, b), c) = XorByte(a, XorByte(b, c))
  /\ \A a \in Byte : XorByte(a, ZeroByte) = a
  /\ \A a \in Byte : XorByte(a, a) = ZeroByte

ASSUME BeyondAssumption == Beyond # {}

Position == 0 .. BlockBytes - 1

Block == [Position -> Byte]

ZeroBlock == [i \in Position |-> ZeroByte]

(* for (i < ENT_BLOCK_SIZE) out[i] = a[i] ^ b[i] *)
Xor(a, b) == [i \in Position |-> XorByte(a[i], b[i])]

is_buffer_empty(b) == \A i \in Position : b[i] = ZeroByte

(* memcpy(dst, src, sizeof(src)): src is a pointer, so only the first       *)
(* PtrBytes bytes of dst are replaced.                                      *)
MemcpyPtrSize(dst, src) ==
  [i \in Position |-> IF i < PtrBytes THEN src[i] ELSE dst[i]]

(* The bytes crc32b reads: it stops at the first zero byte.                 *)
CrcInput(b) ==
  LET read == {i \in Position : \A j \in 0 .. i : b[j] # ZeroByte}
  IN  [i \in read |-> b[i]]

(* crc32b has no length: on a block without a zero byte it reads on into    *)
(* the memory after the block, whose content is "beyond".  The CRC itself   *)
(* is taken to be free of collisions: its value is the input it read.       *)
crc32b(b, beyond) ==
  [read |-> CrcInput(b),
   past |-> IF \A i \in Position : b[i] # ZeroByte THEN {beyond} ELSE {}]

(* The set of values crc32b can return, and the value 0 it returns for a    *)
(* block that starts with a zero byte.                                      *)
Checksum == {crc32b(b, m) : b \in Block, m \in Beyond}

ZeroChecksum == [read |-> CrcInput(ZeroBlock), past |-> {}]
=============================================================================
