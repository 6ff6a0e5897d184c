-------------------------------- MODULE Obfs --------------------------------
(***************************************************************************)
(* The obfuscator (obfs.go): one packet goes from the WriteToUDP of one    *)
(* mwgp through the network to the ReadFromUDP of the other.  The sizes    *)
(* are parameters, so that TLC can use small ones that are related like    *)
(* the real ones.  The keyed hash is a random oracle: it answers the nonce *)
(* it was first asked about with any mask, and other nonces with any too.  *)
(***************************************************************************)
EXTENDS Integers

CONSTANTS
  Size,             \* type -> fixed size of a handshake message
  MAC2Offset,       \* type -> where its MAC2 begins, for types 1 and 2
  TransportHeaderSize, MinMessageSize,
  NonceLength,      \* kObfuscateNonceLength
  XORKeyLength,     \* kObfuscateXORKeyLength
  SuffixMaxLength,  \* kObfuscateRandomSuffixMaxLength
  SuffixAsNonceMinLength,
  MaxPacketSize,    \* the size of a packet buffer
  XOR(_, _),        \* bitwise exclusive or of bytes
  TransportSizes,   \* bound: the sizes of transport packets
  Contents,         \* bound: what a packet buffer may hold
  Suffixes,         \* bound: what rand.Read may give, by offset
  Masks             \* bound: the successive hashes of a nonce, by offset

Byte == 0..255
Offsets == 0..(MaxPacketSize - 1)
InitiationType == 1
ResponseType == 2
CookieReplyType == 3
TransportType == 4
Types == 1..4

ASSUME SizesAssumption ==
  /\ {TransportHeaderSize, MinMessageSize, SuffixAsNonceMinLength, MaxPacketSize} \subseteq Nat
  /\ Size \in [1..3 -> Nat] /\ MAC2Offset \in [1..2 -> Nat] /\ TransportSizes \subseteq Nat
  /\ NonceLength \in Nat \ {0} /\ XORKeyLength \in Nat /\ XORKeyLength >= 4
  /\ SuffixMaxLength \in Nat \ {0}
  /\ XORKeyLength <= TransportHeaderSize /\ TransportHeaderSize <= MinMessageSize
  /\ \A t \in 1..3 : Size[t] >= MinMessageSize
  /\ \A t \in 1..2 : MAC2Offset[t] >= XORKeyLength /\ MAC2Offset[t] < Size[t]
  /\ SuffixAsNonceMinLength >= TransportHeaderSize + NonceLength
  /\ \A t \in 1..3 : Size[t] + NonceLength + SuffixMaxLength - 1 <= MaxPacketSize
  /\ SuffixAsNonceMinLength + NonceLength - 1 <= MaxPacketSize
  /\ \A n \in TransportSizes : n >= MinMessageSize /\ n <= MaxPacketSize
  /\ Contents \cup Suffixes \cup Masks \subseteq [Offsets -> Byte]

\* What the round trip needs of exclusive or: it cancels out, and has no bits
\* that neither byte has.
ASSUME XORAssumption ==
  /\ \A a, b \in Byte : XOR(a, b) \in Byte /\ XOR(a, b) = XOR(b, a) /\ XOR(XOR(a, b), b) = a
  /\ \A a \in Byte : XOR(a, 0) = a
  /\ \A a, b \in 0..7 : XOR(a, b) \in 0..7

VARIABLES
  enabled,       \* both sides have the obfuscation key
  origin,        \* the packet given to WriteToUDP
  packet,        \* the packet now: Data, Length, Obfuscate, Deobfuscated
  oracle,        \* what the hash has been asked: a nonce and its mask
  stage          \* "write", "wire" or "read"

vars == <<enabled, origin, packet, oracle, stage>>

-----------------------------------------------------------------------------
LooksLikeWireGuard(data) == data[0] \in Types /\ \A i \in 1..3 : data[i] = 0

\* The packets of the WireGuard protocol: only transport packets come in
\* several sizes.  Beyond its length the pooled buffer holds old bytes.
Messages ==
  {p \in [Data : Contents, Length : TransportSizes \cup {Size[t] : t \in 1..3},
          Obfuscate : BOOLEAN, Deobfuscated : {FALSE}] :
     /\ LooksLikeWireGuard(p.Data)
     /\ IF p.Data[0] = TransportType THEN p.Length \in TransportSizes
                                     ELSE p.Length = Size[p.Data[0]]}

Slice(p) == [i \in 0..(p.Length - 1) |-> p.Data[i]]

-----------------------------------------------------------------------------
MutantModifyHashMask(mask) ==
  IF mask[0] < 4 /\ mask[1] < 2
  THEN [mask EXCEPT ![0] = 215, ![1] = 105] ELSE mask

\* modifyHashMaskForWireGuardHeaderConflict: or-ing 0b11010111 and 0b01101001
\* into bytes whose upper bits are zero gives exactly those bytes.
ModifyHashMask(mask) ==
  IF mask[0] < 8 /\ mask[1] < 2
  THEN [mask EXCEPT ![0] = 215, ![1] = 105] ELSE mask

\* The pattern for offset i: only the first key is modified.
Pattern(mask, i) == ModifyHashMask(mask)[i]

XorPart(data, mask, first, last) ==
  [i \in Offsets |-> IF i >= first /\ i < last THEN XOR(data[i], Pattern(mask, i)) ELSE data[i]]

Nonce(p) == [k \in 0..(NonceLength - 1) |-> p.Data[p.Length - NonceLength + k]]

\* Bytes first..last-1 replaced by those of r.
Fill(data, first, last, r) ==
  [i \in Offsets |-> IF i >= first /\ i < last THEN r[i] ELSE data[i]]

Zeros == [i \in Offsets |-> 0]

ZeroMAC2(p) ==
  LET t == p.Data[0] IN t <= 2 /\ \A i \in MAC2Offset[t]..(Size[t] - 1) : p.Data[i] = 0

\* The part of the message that is obfuscated.
ObfsPartLength(t, dropped) ==
  CASE t = TransportType -> TransportHeaderSize
    [] t <= 2 /\ dropped -> MAC2Offset[t]
    [] OTHER -> Size[t]

MutantPad(p, k, r) ==
  IF p.Data[0] # TransportType
  THEN [p EXCEPT
          !.Data = Fill(IF ZeroMAC2(p) THEN [@ EXCEPT ![1] = 1] ELSE @,
                        ObfsPartLength(p.Data[0], ZeroMAC2(p)), Size[p.Data[0]] + NonceLength + k, r),
          !.Length = Size[p.Data[0]] + NonceLength + k]
  ELSE IF p.Length < SuffixAsNonceMinLength
  THEN [p EXCEPT !.Data = Fill([@ EXCEPT ![1] = 1], p.Length - NonceLength, p.Length, r)]
  ELSE p

\* Steps A.1: a suffix of random length k and bytes r; byte 1 remembers that
\* the MAC2 was zero, or that a transport packet has got a nonce.
Pad(p, k, r) ==
  IF p.Data[0] # TransportType
  THEN [p EXCEPT
          !.Data = Fill(IF ZeroMAC2(p) THEN [@ EXCEPT ![1] = 1] ELSE @,
                        ObfsPartLength(p.Data[0], ZeroMAC2(p)), Size[p.Data[0]] + NonceLength + k, r),
          !.Length = Size[p.Data[0]] + NonceLength + k]
  ELSE IF p.Length < SuffixAsNonceMinLength
  THEN [p EXCEPT !.Data = Fill([@ EXCEPT ![1] = 1], p.Length, p.Length + NonceLength, r),
                 !.Length = @ + NonceLength]
  ELSE p

\* Obfuscate, in WriteToUDPWithObfuscate.
Obfuscate ==
  /\ stage = "write" /\ enabled /\ packet.Obfuscate
  /\ \E k \in 0..(SuffixMaxLength - 1), r \in Suffixes, mask \in Masks :
       LET padded == Pad(packet, k, r)
       IN  /\ oracle' = [nonce |-> Nonce(padded), mask |-> mask]
           /\ packet' = [padded EXCEPT !.Data =
                XorPart(@, mask, 0, ObfsPartLength(packet.Data[0], ZeroMAC2(packet)))]
  /\ stage' = "wire"
  /\ UNCHANGED <<enabled, origin>>

WriteAsIs ==
  /\ stage = "write" /\ ~(enabled /\ packet.Obfuscate)
  /\ stage' = "wire"
  /\ UNCHANGED <<enabled, origin, packet, oracle>>

-----------------------------------------------------------------------------
\* Deobfuscate, in ReadFromUDPWithDeobfuscate, leaves alone what is too
\* short or has the header of a WireGuard packet.
ReadAsIs ==
  /\ stage = "wire"
  /\ ~enabled \/ packet.Length < MinMessageSize \/ LooksLikeWireGuard(packet.Data)
  /\ stage' = "read"
  /\ UNCHANGED <<enabled, origin, packet, oracle>>

\* Steps B.5 and B.6, once the first block has been decoded.
Restore(p, mask) ==
  LET t       == p.Data[0]
      dropped == p.Data[1] = 1 /\ t # CookieReplyType
      data    == XorPart(IF dropped THEN [p.Data EXCEPT ![1] = 0] ELSE p.Data,
                         mask, XORKeyLength, ObfsPartLength(t, dropped))
  IN  IF t = TransportType
      THEN [p EXCEPT !.Data = data, !.Deobfuscated = TRUE,
                     !.Length = IF dropped THEN @ - NonceLength ELSE @]
      ELSE [p EXCEPT !.Data = IF dropped THEN Fill(data, MAC2Offset[t], Size[t], Zeros) ELSE data,
                     !.Deobfuscated = TRUE, !.Length = Size[t]]

Deobfuscate ==
  /\ stage = "wire" /\ enabled
  /\ packet.Length >= MinMessageSize /\ ~LooksLikeWireGuard(packet.Data)
  /\ \E mask \in Masks :
       /\ Nonce(packet) = oracle.nonce => mask = oracle.mask
       /\ LET decoded == [packet EXCEPT !.Data = XorPart(@, mask, 0, XORKeyLength)]
          IN  packet' = IF decoded.Data[0] \in Types THEN Restore(decoded, mask) ELSE decoded
  /\ stage' = "read"
  /\ UNCHANGED <<enabled, origin, oracle>>

Init ==
  /\ enabled \in BOOLEAN
  /\ origin \in Messages
  /\ packet = origin
  /\ oracle = [nonce |-> <<>>, mask |-> CHOOSE m \in Masks : TRUE]
  /\ stage = "write"

\* The packet goes on to the table.
Done == stage = "read" /\ UNCHANGED vars

Next == Obfuscate \/ WriteAsIs \/ ReadAsIs \/ Deobfuscate \/ Done

Spec == Init /\ [][Next]_vars

-----------------------------------------------------------------------------
\* A packet that was written, obfuscated or not, is read as it was: the same
\* length and bytes up to it, whatever the suffix, the hash and the MAC2.
Restored == stage = "read" => Slice(packet) = Slice(origin)

\* A packet is flagged as deobfuscated exactly if its sender obfuscated it,
\* so the header of an obfuscated packet is never taken for WireGuard's: this
\* flag makes mwgp-server obfuscate its replies.
Recognized == stage = "read" => (packet.Deobfuscated <=> enabled /\ origin.Obfuscate)

=============================================================================
