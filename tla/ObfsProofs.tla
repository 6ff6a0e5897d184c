----------------------------- MODULE ObfsProofs -----------------------------
(***************************************************************************)
(* Obfuscation and deobfuscation cancel out, for any sizes that are        *)
(* related like WireGuard's, any contents, random suffix and hash.         *)
(***************************************************************************)
EXTENDS Obfs, TLAPS

\* Byte 1 of a packet that Obfuscate has padded.
Mark(p) ==
  IF ZeroMAC2(p) \/ (p.Data[0] = TransportType /\ p.Length < SuffixAsNonceMinLength)
  THEN 1 ELSE 0

\* What Obfuscate wants to have hidden of p.
Plain(p, i) == IF i = 1 THEN Mark(p) ELSE p.Data[i]

\* q is p with a nonce behind the part to hide, and ready to be hidden.
Padded(p, q) ==
  LET n == ObfsPartLength(p.Data[0], ZeroMAC2(p))
  IN  /\ q = [Data |-> q.Data, Length |-> q.Length, Obfuscate |-> p.Obfuscate,
              Deobfuscated |-> p.Deobfuscated]
      /\ q.Data \in [Offsets -> Byte]
      /\ q.Length \in Nat /\ q.Length >= n + NonceLength /\ q.Length <= MaxPacketSize
      /\ q.Length >= MinMessageSize
      /\ \A i \in 0..(n - 1) : q.Data[i] = Plain(p, i)
      /\ p.Data[0] = TransportType =>
           /\ \A i \in TransportHeaderSize..(p.Length - 1) : q.Data[i] = p.Data[i]
           /\ q.Length = IF Mark(p) = 1 THEN p.Length + NonceLength ELSE p.Length

\* q is p as it is sent with this mask: the hidden part, the part of a
\* transport packet that stays, the length, and no flag yet.
Encoded(p, q, mask) ==
  /\ q \in [Data : [Offsets -> Byte], Length : Nat, Obfuscate : BOOLEAN, Deobfuscated : {FALSE}]
  /\ mask \in Masks
  /\ \A i \in 0..(ObfsPartLength(p.Data[0], ZeroMAC2(p)) - 1) :
       q.Data[i] = XOR(Plain(p, i), Pattern(mask, i))
  /\ p.Data[0] = TransportType =>
       /\ \A i \in TransportHeaderSize..(p.Length - 1) : q.Data[i] = p.Data[i]
       /\ q.Length = IF Mark(p) = 1 THEN p.Length + NonceLength ELSE p.Length
  /\ q.Length >= MinMessageSize

\* What is on the wire, and what is read from it.
RoundTripInv ==
  /\ origin \in Messages
  /\ stage \in {"write", "wire", "read"}
  /\ stage = "write" => packet = origin
  /\ stage = "wire" =>
       IF enabled /\ origin.Obfuscate
       THEN Encoded(origin, packet, oracle.mask) /\ Nonce(packet) = oracle.nonce
       ELSE packet = origin
  /\ Restored /\ Recognized

-----------------------------------------------------------------------------
\* A packet that is given to WriteToUDP is a record of a buffer, a length and
\* two flags.
LEMMA MessageType ==
  ASSUME NEW p \in Messages
  PROVE  /\ p = [Data |-> p.Data, Length |-> p.Length, Obfuscate |-> p.Obfuscate,
                 Deobfuscated |-> p.Deobfuscated]
         /\ p.Data \in [Offsets -> Byte]
         /\ p.Obfuscate \in BOOLEAN /\ p.Deobfuscated = FALSE
<1>1. /\ p.Data \in Contents /\ p.Obfuscate \in BOOLEAN /\ p.Deobfuscated = FALSE
      /\ p = [Data |-> p.Data, Length |-> p.Length, Obfuscate |-> p.Obfuscate,
              Deobfuscated |-> p.Deobfuscated]
  BY DEF Messages
<1>. QED  BY <1>1, SizesAssumption

\* It has WireGuard's header and a length that fits its type and the buffer.
LEMMA MessageHeader ==
  ASSUME NEW p \in Messages
  PROVE  /\ p.Data[0] \in 1..4 /\ \A i \in 1..3 : p.Data[i] = 0
         /\ p.Data[0] # TransportType => p.Data[0] \in 1..3 /\ p.Length = Size[p.Data[0]]
         /\ p.Length \in Nat /\ p.Length >= MinMessageSize /\ p.Length <= MaxPacketSize
         /\ p.Data[0] = TransportType /\ p.Length < SuffixAsNonceMinLength =>
              p.Length + NonceLength <= MaxPacketSize
<1>1. p.Length \in TransportSizes \cup {Size[t] : t \in 1..3}
  BY DEF Messages
<1>2. p.Length \in Nat /\ p.Length >= MinMessageSize /\ p.Length <= MaxPacketSize
  <2>1. CASE p.Length \in TransportSizes
    BY <2>1, SizesAssumption
  <2>2. CASE p.Length \in {Size[t] : t \in 1..3}
    <3>1. PICK t \in 1..3 : p.Length = Size[t]
      BY <2>2
    <3>2. /\ Size[t] \in Nat /\ NonceLength \in Nat \ {0} /\ SuffixMaxLength \in Nat \ {0}
          /\ Size[t] >= MinMessageSize /\ MaxPacketSize \in Nat
          /\ Size[t] + NonceLength + SuffixMaxLength - 1 <= MaxPacketSize
      BY SizesAssumption
    <3>. QED  BY <3>1, <3>2
  <2>. QED  BY <1>1, <2>1, <2>2
<1>3. /\ p.Data[0] \in 1..4 /\ \A i \in 1..3 : p.Data[i] = 0
      /\ p.Data[0] # TransportType => p.Length = Size[p.Data[0]]
  BY DEF Messages, LooksLikeWireGuard, Types
<1>4. p.Data[0] # TransportType => p.Data[0] \in 1..3
  BY <1>3 DEF TransportType
<1>5. p.Length < SuffixAsNonceMinLength => p.Length + NonceLength <= MaxPacketSize
  BY <1>2, SizesAssumption
<1>. QED  BY <1>2, <1>3, <1>4, <1>5

\* The keys are bytes, also after modifyHashMaskForWireGuardHeaderConflict.
LEMMA PatternByte ==
  ASSUME NEW mask \in Masks, NEW i \in Offsets
  PROVE  Pattern(mask, i) \in Byte
<1>1. mask \in [Offsets -> Byte]
  BY SizesAssumption
<1>. QED  BY <1>1 DEF Pattern, ModifyHashMask, Byte

\* The first key is inside the part that Obfuscate hides, which is inside the
\* packet.
LEMMA PartLength ==
  ASSUME NEW p \in Messages
  PROVE  LET n == ObfsPartLength(p.Data[0], ZeroMAC2(p))
         IN  n \in XORKeyLength..p.Length
<1>1. CASE p.Data[0] = TransportType
  <2>1. p.Length \in Nat /\ p.Length >= MinMessageSize
    BY Zenon, MessageHeader
  <2>2. ObfsPartLength(p.Data[0], ZeroMAC2(p)) = TransportHeaderSize
    BY <1>1 DEF ObfsPartLength, TransportType
  <2>. QED  BY <2>1, <2>2, SizesAssumption
<1>2. CASE p.Data[0] # TransportType
  <2>1. p.Data[0] \in 1..3 /\ p.Length = Size[p.Data[0]]
    BY Zenon, <1>2, MessageHeader
  <2>2. CASE p.Data[0] <= 2 /\ ZeroMAC2(p)
    <3>1. p.Data[0] \in 1..2
      BY <2>1, <2>2
    <3>2. ObfsPartLength(p.Data[0], ZeroMAC2(p)) = MAC2Offset[p.Data[0]]
      BY <1>2, <2>2 DEF ObfsPartLength
    <3>. QED  BY <2>1, <3>1, <3>2, SizesAssumption
  <2>3. CASE ~(p.Data[0] <= 2 /\ ZeroMAC2(p))
    <3>1. ObfsPartLength(p.Data[0], ZeroMAC2(p)) = Size[p.Data[0]]
      BY <1>2, <2>3 DEF ObfsPartLength
    <3>. QED  BY <2>1, <3>1, SizesAssumption
  <2>. QED  BY <2>2, <2>3
<1>. QED  BY <1>1, <1>2

\* Obfuscation never yields the header of a WireGuard packet: either the type
\* gets a bit that no type has, or byte 1 does not become zero.
LEMMA NotWireGuard ==
  ASSUME NEW p \in Messages, NEW q, NEW mask, Encoded(p, q, mask)
  PROVE  ~LooksLikeWireGuard(q.Data)
<1>. DEFINE m0 == Pattern(mask, 0)
            m1 == Pattern(mask, 1)
<1>1. {0, 1} \subseteq Offsets /\ {0, 1} \subseteq 0..(ObfsPartLength(p.Data[0], ZeroMAC2(p)) - 1)
  <2>1. XORKeyLength \in Nat /\ XORKeyLength >= 4 /\ MaxPacketSize \in Nat
    BY SizesAssumption
  <2>2. p.Length \in Nat /\ p.Length <= MaxPacketSize
    BY Zenon, MessageHeader
  <2>3. ObfsPartLength(p.Data[0], ZeroMAC2(p)) \in XORKeyLength..p.Length
    BY Zenon, PartLength
  <2>. QED  BY <2>1, <2>2, <2>3 DEF Offsets
<1>2. m0 \in Byte /\ m1 \in Byte
  BY <1>1, PatternByte DEF Encoded
<1>3. m0 >= 8 \/ m1 >= 2
  <2>1. mask \in [Offsets -> Byte]
    BY SizesAssumption DEF Encoded
  <2>. QED  BY <1>1, <2>1 DEF Pattern, ModifyHashMask, Byte
<1>4. q.Data[0] = XOR(p.Data[0], m0) /\ q.Data[1] = XOR(Mark(p), m1)
  BY <1>1 DEF Encoded, Plain
<1>5. p.Data[0] \in 1..4 /\ p.Data[0] \in Byte /\ Mark(p) \in {0, 1} /\ Mark(p) \in Byte
  <2>1. p.Data[0] \in 1..4
    BY Zenon, MessageHeader
  <2>2. Mark(p) \in {0, 1}
    BY Zenon DEF Mark
  <2>. QED  BY <2>1, <2>2 DEF Byte
<1>. HIDE DEF m0, m1
<1>6. CASE m0 >= 8
  <2>1. XOR(XOR(p.Data[0], m0), p.Data[0]) = m0
    BY <1>2, <1>5, XORAssumption
  <2>2. q.Data[0] \in Types => m0 \in 0..7
    <3>. SUFFICES ASSUME q.Data[0] \in Types PROVE m0 \in 0..7
      OBVIOUS
    <3>1. q.Data[0] \in 0..7 /\ p.Data[0] \in 0..7
      BY <1>5 DEF Types
    <3>. QED  BY <1>4, <2>1, <3>1, XORAssumption
  <2>. QED  BY <1>6, <2>2 DEF LooksLikeWireGuard
<1>7. CASE m1 >= 2
  <2>1. XOR(XOR(m1, Mark(p)), Mark(p)) = m1 /\ XOR(m1, Mark(p)) = XOR(Mark(p), m1)
    BY <1>2, <1>5, XORAssumption
  <2>2. 0 \in Byte
    BY DEF Byte
  <2>3. q.Data[1] = 0 => m1 = Mark(p)
    <3>1. XOR(0, Mark(p)) = XOR(Mark(p), 0) /\ XOR(Mark(p), 0) = Mark(p)
      BY <1>5, <2>2, XORAssumption
    <3>. QED  BY <1>4, <2>1, <3>1
  <2>. QED  BY <1>5, <1>7, <2>3 DEF LooksLikeWireGuard
<1>. QED  BY <1>3, <1>6, <1>7

-----------------------------------------------------------------------------
\* The types with a MAC2, which alone can have a zero one.
LEMMA ZeroMAC2Type ==
  ASSUME NEW p \in Messages
  PROVE  /\ ZeroMAC2(p) \in BOOLEAN
         /\ ZeroMAC2(p) => p.Data[0] \in 1..2
<1>1. p.Data[0] \in 1..4
  BY Zenon, MessageHeader
<1>. QED  BY <1>1 DEF ZeroMAC2

\* The padding of a handshake message: the hidden part is as it was but for
\* byte 1, and the nonce is behind it.
LEMMA PadHandshake ==
  ASSUME NEW p \in Messages, p.Data[0] # TransportType,
         NEW k \in 0..(SuffixMaxLength - 1), NEW r \in Suffixes
  PROVE  Padded(p, Pad(p, k, r))
<1>. DEFINE t == p.Data[0]
            z == ZeroMAC2(p)
            n == ObfsPartLength(t, z)
            d == IF z THEN [p.Data EXCEPT ![1] = 1] ELSE p.Data
            l == Size[t] + NonceLength + k
<1>1. /\ p = [Data |-> p.Data, Length |-> p.Length, Obfuscate |-> p.Obfuscate,
              Deobfuscated |-> p.Deobfuscated]
      /\ p.Data \in [Offsets -> Byte]
  BY Zenon, MessageType
<1>2. Pad(p, k, r) = [Data |-> Fill(d, n, l, r), Length |-> l, Obfuscate |-> p.Obfuscate,
                      Deobfuscated |-> p.Deobfuscated]
  BY <1>1 DEF Pad
<1>3. t \in 1..3 /\ p.Length = Size[t] /\ p.Data[1] = 0 /\ p.Length >= MinMessageSize
  BY MessageHeader
<1>4. n \in XORKeyLength..Size[t]
  <2>1. n \in XORKeyLength..p.Length
    BY Zenon, PartLength
  <2>. QED  BY <1>3, <2>1
<1>5. /\ Size[t] \in Nat /\ NonceLength \in Nat \ {0} /\ SuffixMaxLength \in Nat \ {0}
      /\ Size[t] + NonceLength + SuffixMaxLength - 1 <= MaxPacketSize
      /\ MaxPacketSize \in Nat /\ XORKeyLength \in Nat /\ XORKeyLength >= 4
      /\ MinMessageSize \in Nat
  BY <1>3, SizesAssumption
<1>6. d \in [Offsets -> Byte] /\ r \in [Offsets -> Byte]
  <2>1. r \in [Offsets -> Byte]
    BY SizesAssumption
  <2>2. 1 \in Byte
    BY DEF Byte
  <2>. QED  BY <1>1, <2>1, <2>2
<1>7. \A i \in Offsets : d[i] = Plain(p, i)
  <2>1. Mark(p) = IF z THEN 1 ELSE 0
    BY Zenon DEF Mark
  <2>2. 1 \in Offsets
    BY <1>4, <1>5 DEF Offsets
  <2>. QED  BY <1>1, <1>3, <2>1, <2>2 DEF Plain
<1>8. n \in Nat /\ n <= MaxPacketSize /\ n <= Size[t] /\ l \in Nat /\ l <= MaxPacketSize
      /\ l >= n + NonceLength /\ l >= MinMessageSize
  BY <1>3, <1>4, <1>5
<1>. HIDE DEF t, z, n, d, l
<1>9. /\ Fill(d, n, l, r) \in [Offsets -> Byte]
      /\ \A i \in 0..(n - 1) : Fill(d, n, l, r)[i] = Plain(p, i)
  <2>1. Fill(d, n, l, r) \in [Offsets -> Byte]
    BY <1>6 DEF Fill
  <2>2. ASSUME NEW i \in 0..(n - 1) PROVE Fill(d, n, l, r)[i] = Plain(p, i)
    <3>1. i \in Offsets /\ ~(i >= n)
      BY <1>5, <1>8 DEF Offsets
    <3>. QED  BY <1>7, <3>1 DEF Fill
  <2>. QED  BY <2>1, <2>2
<1>. DEFINE f == Fill(d, n, l, r)
<1>10. f \in [Offsets -> Byte] /\ \A i \in 0..(n - 1) : f[i] = Plain(p, i)
  BY <1>9
<1>11. Pad(p, k, r) = [Data |-> f, Length |-> l, Obfuscate |-> p.Obfuscate,
                      Deobfuscated |-> p.Deobfuscated]
  BY <1>2 DEF d, n, l, t, z
<1>. HIDE DEF f
<1>. QED  BY <1>8, <1>10, <1>11 DEF Padded, n, t, z

\* The padding of a transport packet: a short one gets a nonce of its own, a
\* long one has its last bytes used as the nonce, which are not hidden.
LEMMA PadTransport ==
  ASSUME NEW p \in Messages, p.Data[0] = TransportType, NEW k, NEW r \in Suffixes
  PROVE  Padded(p, Pad(p, k, r))
<1>. DEFINE n == TransportHeaderSize
            d == [p.Data EXCEPT ![1] = 1]
            l == p.Length + NonceLength
<1>1. /\ p = [Data |-> p.Data, Length |-> p.Length, Obfuscate |-> p.Obfuscate,
              Deobfuscated |-> p.Deobfuscated]
      /\ p.Data \in [Offsets -> Byte]
  BY Zenon, MessageType
<1>2. /\ p.Data[1] = 0 /\ p.Length \in Nat /\ p.Length >= MinMessageSize /\ p.Length <= MaxPacketSize
      /\ p.Length < SuffixAsNonceMinLength => l <= MaxPacketSize
  BY MessageHeader
<1>3. /\ TransportHeaderSize \in Nat /\ MinMessageSize \in Nat /\ MaxPacketSize \in Nat
      /\ NonceLength \in Nat \ {0} /\ SuffixAsNonceMinLength \in Nat
      /\ 4 <= TransportHeaderSize /\ TransportHeaderSize <= MinMessageSize
      /\ TransportHeaderSize + NonceLength <= SuffixAsNonceMinLength
  BY SizesAssumption
<1>4. ObfsPartLength(p.Data[0], ZeroMAC2(p)) = n /\ ~ZeroMAC2(p)
  BY DEF ObfsPartLength, TransportType, ZeroMAC2
<1>5. CASE p.Length < SuffixAsNonceMinLength
  <2>1. Pad(p, k, r) = [Data |-> Fill(d, p.Length, l, r), Length |-> l, Obfuscate |-> p.Obfuscate,
                        Deobfuscated |-> p.Deobfuscated]
    BY <1>1, <1>5 DEF Pad
  <2>2. Mark(p) = 1
    BY <1>5 DEF Mark
  <2>3. d \in [Offsets -> Byte] /\ r \in [Offsets -> Byte]
    <3>1. r \in [Offsets -> Byte]
      BY SizesAssumption
    <3>2. 1 \in Byte
      BY DEF Byte
    <3>. QED  BY <1>1, <3>1, <3>2
  <2>4. \A i \in Offsets : d[i] = Plain(p, i)
    BY <1>1, <1>2, <2>2 DEF Plain
  <2>. DEFINE f == Fill(d, p.Length, l, r)
  <2>5. f \in [Offsets -> Byte]
    BY <2>3 DEF Fill
  <2>6. ASSUME NEW i \in 0..(p.Length - 1) PROVE f[i] = Plain(p, i)
    <3>1. i \in Offsets /\ ~(i >= p.Length)
      BY <1>2, <1>3 DEF Offsets
    <3>. QED  BY <2>4, <3>1 DEF Fill
  <2>. HIDE DEF f, d
  <2>7. \A i \in 0..(n - 1) : f[i] = Plain(p, i)
    BY <1>2, <1>3, <2>6
  <2>8. \A i \in TransportHeaderSize..(p.Length - 1) : f[i] = p.Data[i]
    BY <1>2, <1>3, <2>6 DEF Plain
  <2>9. l \in Nat /\ l >= n + NonceLength /\ l <= MaxPacketSize /\ l >= MinMessageSize
    BY <1>2, <1>3, <1>5
  <2>10. Pad(p, k, r) = [Data |-> f, Length |-> l, Obfuscate |-> p.Obfuscate,
                        Deobfuscated |-> p.Deobfuscated]
    BY <2>1 DEF d, f
  <2>. QED  BY <1>4, <2>2, <2>5, <2>7, <2>8, <2>9, <2>10 DEF Padded
<1>6. CASE ~(p.Length < SuffixAsNonceMinLength)
  <2>1. Pad(p, k, r) = p
    BY <1>6 DEF Pad
  <2>2. Mark(p) = 0
    BY <1>4, <1>6 DEF Mark
  <2>3. \A i : p.Data[i] = Plain(p, i)
    BY <1>2, <2>2 DEF Plain
  <2>4. p.Length >= n + NonceLength
    BY <1>2, <1>3, <1>6
  <2>. QED  BY <1>1, <1>2, <1>4, <2>1, <2>2, <2>3, <2>4 DEF Padded
<1>. QED  BY <1>5, <1>6

\* Obfuscate hides what Pad has prepared, and leaves the nonce readable.
LEMMA ObfuscateEncodes ==
  ASSUME NEW p \in Messages, NEW q, Padded(p, q), NEW mask \in Masks
  PROVE  LET e == [q EXCEPT !.Data = XorPart(@, mask, 0, ObfsPartLength(p.Data[0], ZeroMAC2(p)))]
         IN  Encoded(p, e, mask) /\ Nonce(e) = Nonce(q)
<1>. DEFINE n == ObfsPartLength(p.Data[0], ZeroMAC2(p))
            f == XorPart(q.Data, mask, 0, n)
            e == [q EXCEPT !.Data = f]
<1>1. /\ q = [Data |-> q.Data, Length |-> q.Length, Obfuscate |-> p.Obfuscate,
              Deobfuscated |-> p.Deobfuscated]
      /\ q.Data \in [Offsets -> Byte]
      /\ q.Length \in Nat /\ q.Length >= n + NonceLength /\ q.Length <= MaxPacketSize
      /\ q.Length >= MinMessageSize
      /\ \A i \in 0..(n - 1) : q.Data[i] = Plain(p, i)
      /\ p.Data[0] = TransportType =>
           /\ \A i \in TransportHeaderSize..(p.Length - 1) : q.Data[i] = p.Data[i]
           /\ q.Length = IF Mark(p) = 1 THEN p.Length + NonceLength ELSE p.Length
  BY DEF Padded
<1>2. p.Obfuscate \in BOOLEAN /\ p.Deobfuscated = FALSE
  BY Zenon, MessageType
<1>3. n \in XORKeyLength..p.Length /\ p.Length \in Nat /\ p.Length <= MaxPacketSize
  BY Zenon, PartLength, MessageHeader
<1>4. XORKeyLength \in Nat /\ MaxPacketSize \in Nat /\ NonceLength \in Nat \ {0}
  BY SizesAssumption
<1>5. e = [Data |-> f, Length |-> q.Length, Obfuscate |-> p.Obfuscate,
           Deobfuscated |-> p.Deobfuscated]
  BY <1>1
<1>6. p.Data[0] = TransportType => n = TransportHeaderSize
  BY DEF ObfsPartLength, TransportType
<1>. HIDE DEF n, e
<1>7. f \in [Offsets -> Byte]
  <2>1. \A i \in Offsets : XOR(q.Data[i], Pattern(mask, i)) \in Byte
    BY <1>1, PatternByte, XORAssumption
  <2>. QED  BY <1>1, <2>1 DEF XorPart
<1>8. ASSUME NEW i \in Offsets, i >= n PROVE f[i] = q.Data[i]
  BY <1>3, <1>4, <1>8 DEF XorPart, Offsets
<1>9. ASSUME NEW i \in 0..(n - 1) PROVE f[i] = XOR(Plain(p, i), Pattern(mask, i))
  <2>1. i \in Offsets /\ i >= 0 /\ i < n
    BY <1>3, <1>4 DEF Offsets
  <2>2. f[i] = XOR(q.Data[i], Pattern(mask, i))
    BY <2>1 DEF XorPart
  <2>. QED  BY <1>1, <2>2
<1>. HIDE DEF f
<1>10. Nonce(e) = Nonce(q)
  <2>1. ASSUME NEW k \in 0..(NonceLength - 1)
        PROVE  f[q.Length - NonceLength + k] = q.Data[q.Length - NonceLength + k]
    <3>1. q.Length - NonceLength + k \in Offsets /\ q.Length - NonceLength + k >= n
      BY <1>1, <1>3, <1>4 DEF Offsets
    <3>. QED  BY <1>8, <3>1
  <2>2. e.Data = f /\ e.Length = q.Length
    BY <1>5
  <2>. QED  BY <2>1, <2>2 DEF Nonce
<1>11. ASSUME p.Data[0] = TransportType, NEW i \in TransportHeaderSize..(p.Length - 1)
       PROVE  f[i] = p.Data[i]
  <2>1. i \in Offsets /\ i >= n
    BY <1>3, <1>4, <1>6, <1>11 DEF Offsets
  <2>. QED  BY <1>1, <1>8, <1>11, <2>1
<1>12. e \in [Data : [Offsets -> Byte], Length : Nat, Obfuscate : BOOLEAN, Deobfuscated : {FALSE}]
  BY <1>1, <1>2, <1>5, <1>7
<1>13. e.Data = f /\ e.Length = q.Length
  BY <1>5
<1>14. Encoded(p, e, mask)
  BY <1>1, <1>9, <1>11, <1>12, <1>13 DEF Encoded, n
<1>. QED  BY <1>10, <1>14 DEF e, f, n

-----------------------------------------------------------------------------
\* The first key uncovers the type and byte 1 (step B.4 of obfs.go), and the
\* keys behind it the rest of the hidden part (step B.6).
LEMMA PartDecoded ==
  ASSUME NEW p \in Messages, NEW q, NEW mask, Encoded(p, q, mask),
         NEW data \in [Offsets -> Byte], NEW first \in Nat, NEW last \in Nat,
         last <= ObfsPartLength(p.Data[0], ZeroMAC2(p)),
         \A i \in Offsets : i >= first /\ i < last => data[i] = q.Data[i]
  PROVE  /\ XorPart(data, mask, first, last) \in [Offsets -> Byte]
         /\ \A i \in Offsets : XorPart(data, mask, first, last)[i] =
                                 IF i >= first /\ i < last THEN Plain(p, i) ELSE data[i]
<1>. DEFINE n == ObfsPartLength(p.Data[0], ZeroMAC2(p))
<1>1. mask \in Masks /\ \A i \in 0..(n - 1) : q.Data[i] = XOR(Plain(p, i), Pattern(mask, i))
  BY Zenon DEF Encoded
<1>2. n \in XORKeyLength..p.Length /\ p.Length \in Nat
  BY Zenon, PartLength, MessageHeader
<1>3. XORKeyLength \in Nat /\ MaxPacketSize \in Nat
  BY SizesAssumption
<1>4. \A i \in Offsets : Plain(p, i) \in Byte /\ Pattern(mask, i) \in Byte
  <2>1. p.Data \in [Offsets -> Byte]
    BY Zenon, MessageType
  <2>2. Mark(p) \in Byte
    BY DEF Mark, Byte
  <2>. QED  BY <1>1, <2>1, <2>2, PatternByte DEF Plain
<1>. HIDE DEF n
<1>5. ASSUME NEW i \in Offsets, i >= first, i < last
      PROVE  XOR(data[i], Pattern(mask, i)) = Plain(p, i)
  <2>1. i \in 0..(n - 1)
    BY <1>2, <1>3, <1>5 DEF Offsets, n
  <2>2. data[i] = XOR(Plain(p, i), Pattern(mask, i))
    BY <1>1, <1>5, <2>1
  <2>. QED  BY <1>4, <2>2, XORAssumption
<1>6. \A i \in Offsets : XorPart(data, mask, first, last)[i] =
                           IF i >= first /\ i < last THEN Plain(p, i) ELSE data[i]
  BY <1>5 DEF XorPart
<1>7. XorPart(data, mask, first, last) \in [Offsets -> Byte]
  BY <1>4, <1>5 DEF XorPart
<1>. QED  BY <1>6, <1>7

\* Deobfuscate undoes Obfuscate, and flags the packet.
LEMMA RestoreDecodes ==
  ASSUME NEW p \in Messages, NEW q, NEW mask, Encoded(p, q, mask)
  PROVE  LET decoded == [q EXCEPT !.Data = XorPart(@, mask, 0, XORKeyLength)]
         IN  /\ decoded.Data[0] \in Types
             /\ Slice(Restore(decoded, mask)) = Slice(p)
             /\ Restore(decoded, mask).Deobfuscated = TRUE
<1>. DEFINE t == p.Data[0]
            z == ZeroMAC2(p)
            n == ObfsPartLength(t, z)
            d == XorPart(q.Data, mask, 0, XORKeyLength)
            c == [q EXCEPT !.Data = d]
            dropped == Mark(p) = 1
            e == IF dropped THEN [d EXCEPT ![1] = 0] ELSE d
            data == XorPart(e, mask, XORKeyLength, n)
<1>1. /\ q \in [Data : [Offsets -> Byte], Length : Nat, Obfuscate : BOOLEAN, Deobfuscated : {FALSE}]
      /\ mask \in Masks
      /\ p.Data[0] = TransportType =>
           /\ \A i \in TransportHeaderSize..(p.Length - 1) : q.Data[i] = p.Data[i]
           /\ q.Length = IF Mark(p) = 1 THEN p.Length + NonceLength ELSE p.Length
  BY Zenon DEF Encoded
<1>2. n \in XORKeyLength..p.Length /\ p.Length \in Nat /\ p.Length <= MaxPacketSize
  BY Zenon, PartLength, MessageHeader
<1>3. XORKeyLength \in Nat /\ XORKeyLength >= 4 /\ MaxPacketSize \in Nat /\ NonceLength \in Nat
  BY SizesAssumption
<1>4. p.Data \in [Offsets -> Byte] /\ p.Data[1] = 0 /\ t \in 1..4
  <2>1. p.Data \in [Offsets -> Byte]
    BY Zenon, MessageType
  <2>2. p.Data[1] = 0 /\ t \in 1..4
    BY MessageHeader
  <2>. QED  BY <2>1, <2>2
<1>5. q.Data \in [Offsets -> Byte]
  BY <1>1
<1>6. /\ d \in [Offsets -> Byte]
      /\ \A i \in Offsets : d[i] = IF i >= 0 /\ i < XORKeyLength THEN Plain(p, i) ELSE q.Data[i]
  <2>1. 0 \in Nat /\ XORKeyLength <= n
    BY <1>2, <1>3
  <2>. QED  BY <1>3, <1>5, <2>1, PartDecoded
<1>7. {0, 1} \subseteq Offsets /\ \A i \in Offsets : i \in Nat /\ i >= 0
  BY <1>2, <1>3 DEF Offsets
<1>. HIDE DEF d
<1>8. d[0] = t /\ d[1] = Mark(p)
  BY <1>3, <1>6, <1>7 DEF Plain
<1>9. /\ e \in [Offsets -> Byte]
      /\ \A i \in Offsets : e[i] = IF i < XORKeyLength THEN p.Data[i] ELSE q.Data[i]
  <2>1. Mark(p) \in {0, 1}
    BY Zenon DEF Mark
  <2>2. 0 \in Byte
    BY DEF Byte
  <2>3. e \in [Offsets -> Byte]
    BY <1>6, <2>2
  <2>4. ASSUME NEW i \in Offsets, i # 1
        PROVE  e[i] = IF i < XORKeyLength THEN p.Data[i] ELSE q.Data[i]
    BY <1>6, <1>7, <2>4 DEF Plain
  <2>5. e[1] = 0
    BY <1>6, <1>7, <1>8, <2>1
  <2>. QED  BY <1>3, <1>4, <2>3, <2>4, <2>5
<1>. HIDE DEF e
<1>10. /\ data \in [Offsets -> Byte]
       /\ \A i \in Offsets : data[i] =
                               IF i >= XORKeyLength /\ i < n THEN Plain(p, i) ELSE e[i]
  <2>1. n \in Nat /\ n <= n
    BY <1>2, <1>3
  <2>2. \A i \in Offsets : i >= XORKeyLength /\ i < n => e[i] = q.Data[i]
    BY <1>3, <1>7, <1>9
  <2>. QED  BY <1>3, <1>9, <2>1, <2>2, PartDecoded
<1>11. \A i \in Offsets : data[i] = IF i < n THEN p.Data[i] ELSE q.Data[i]
  BY <1>2, <1>3, <1>7, <1>9, <1>10 DEF Plain
<1>12. c = [Data |-> d, Length |-> q.Length, Obfuscate |-> q.Obfuscate,
            Deobfuscated |-> q.Deobfuscated]
  BY <1>1
<1>13. (d[1] = 1 /\ d[0] # CookieReplyType) = dropped
  BY <1>4, <1>8 DEF Mark, ZeroMAC2, CookieReplyType, TransportType
<1>14. ObfsPartLength(t, dropped) = n
  BY <1>4 DEF Mark, ZeroMAC2, ObfsPartLength, TransportType
<1>. HIDE DEF c, n, data, dropped, t, z
<1>15. ASSUME t = TransportType
       PROVE  Slice(Restore(c, mask)) = Slice(p) /\ Restore(c, mask).Deobfuscated = TRUE
  <2>1. Restore(c, mask) = [Data |-> data, Length |-> IF dropped THEN q.Length - NonceLength ELSE q.Length,
                            Obfuscate |-> q.Obfuscate, Deobfuscated |-> TRUE]
    BY <1>8, <1>12, <1>13, <1>14, <1>15 DEF Restore, data, e
  <2>2. Restore(c, mask).Length = p.Length
    BY <1>1, <1>2, <1>3, <1>15, <2>1 DEF dropped, t
  <2>3. n = TransportHeaderSize
    BY <1>15 DEF n, ObfsPartLength, TransportType
  <2>4. ASSUME NEW i \in 0..(p.Length - 1) PROVE data[i] = p.Data[i]
    <3>1. i \in Offsets /\ (i >= n => i \in TransportHeaderSize..(p.Length - 1))
      BY <1>2, <1>3, <2>3 DEF Offsets
    <3>. QED  BY <1>1, <1>2, <1>3, <1>7, <1>11, <1>15, <3>1 DEF t
  <2>5. Slice(Restore(c, mask)) = Slice(p)
    BY <2>1, <2>2, <2>4 DEF Slice
  <2>. QED  BY <2>1, <2>5
<1>16. ASSUME t # TransportType
       PROVE  Slice(Restore(c, mask)) = Slice(p) /\ Restore(c, mask).Deobfuscated = TRUE
  <2>. DEFINE f == IF dropped THEN Fill(data, MAC2Offset[t], Size[t], Zeros) ELSE data
  <2>1. Restore(c, mask) = [Data |-> f, Length |-> Size[t], Obfuscate |-> q.Obfuscate,
                            Deobfuscated |-> TRUE]
    BY <1>8, <1>12, <1>13, <1>14, <1>16 DEF Restore, data, e
  <2>2. t \in 1..3 /\ p.Length = Size[t]
    BY <1>16, MessageHeader DEF t
  <2>3. ASSUME dropped PROVE \A i \in 0..(p.Length - 1) : f[i] = p.Data[i]
    <3>1. ZeroMAC2(p)
      BY <1>16, <2>3 DEF dropped, Mark, t
    <3>2. t \in 1..2 /\ \A i \in MAC2Offset[t]..(Size[t] - 1) : p.Data[i] = 0
      BY <2>2, <3>1 DEF ZeroMAC2, t
    <3>3. n = MAC2Offset[t]
      BY <1>16, <3>1, <3>2 DEF n, z, ObfsPartLength
    <3>4. MAC2Offset[t] \in Nat /\ Size[t] \in Nat
      BY <2>2, <3>2, SizesAssumption
    <3>5. ASSUME NEW i \in 0..(p.Length - 1) PROVE f[i] = p.Data[i]
      <4>1. i \in Offsets /\ i < Size[t] /\ i \in Nat
        BY <1>2, <1>3, <2>2 DEF Offsets
      <4>2. CASE i < MAC2Offset[t]
        BY <1>11, <2>3, <3>3, <3>4, <4>1, <4>2 DEF Fill
      <4>3. CASE ~(i < MAC2Offset[t])
        BY <2>3, <3>2, <3>4, <4>1, <4>3 DEF Fill, Zeros
      <4>. QED  BY <4>2, <4>3
    <3>. QED  BY <3>5
  <2>4. ASSUME ~dropped PROVE \A i \in 0..(p.Length - 1) : f[i] = p.Data[i]
    <3>1. ~ZeroMAC2(p)
      BY <2>4 DEF dropped, Mark
    <3>2. n = Size[t]
      BY <1>16, <3>1 DEF n, z, ObfsPartLength
    <3>3. ASSUME NEW i \in 0..(p.Length - 1) PROVE f[i] = p.Data[i]
      <4>1. i \in Offsets /\ i < n
        BY <1>2, <1>3, <2>2, <3>2 DEF Offsets
      <4>. QED  BY <1>11, <2>4, <4>1
    <3>. QED  BY <3>3
  <2>5. \A i \in 0..(p.Length - 1) : f[i] = p.Data[i]
    BY <2>3, <2>4
  <2>. HIDE DEF f
  <2>6. Slice(Restore(c, mask)) = Slice(p)
    BY <2>1, <2>2, <2>5 DEF Slice
  <2>. QED  BY <2>1, <2>6
<1>17. c.Data[0] \in Types
  BY <1>4, <1>8, <1>12 DEF Types
<1>. QED  BY Zenon, <1>15, <1>16, <1>17 DEF c, d

-----------------------------------------------------------------------------
\* Every step of the two obfuscators keeps the wire readable.
LEMMA NextRoundTripInv ==
  RoundTripInv /\ [Next]_vars => RoundTripInv'
<1>. SUFFICES ASSUME RoundTripInv, [Next]_vars PROVE RoundTripInv'
  OBVIOUS
<1>1. CASE Obfuscate
  <2>1. PICK k \in 0..(SuffixMaxLength - 1), r \in Suffixes, mask \in Masks :
          /\ oracle' = [nonce |-> Nonce(Pad(packet, k, r)), mask |-> mask]
          /\ packet' = [Pad(packet, k, r) EXCEPT !.Data =
                          XorPart(@, mask, 0, ObfsPartLength(packet.Data[0], ZeroMAC2(packet)))]
    BY Zenon, <1>1 DEF Obfuscate
  <2>2. packet = origin /\ origin \in Messages /\ enabled' = enabled /\ origin' = origin /\ stage' = "wire"
    BY <1>1 DEF Obfuscate, RoundTripInv
  <2>3. Padded(origin, Pad(origin, k, r))
    BY <2>2, PadHandshake, PadTransport
  <2>4. Encoded(origin, packet', mask) /\ Nonce(packet)' = Nonce(Pad(origin, k, r))
    <3>. DEFINE q == Pad(origin, k, r)
                e == [q EXCEPT !.Data =
                        XorPart(@, mask, 0, ObfsPartLength(origin.Data[0], ZeroMAC2(origin)))]
    <3>1. packet' = e
      BY <2>1, <2>2
    <3>. HIDE DEF q
    <3>2. Encoded(origin, e, mask) /\ Nonce(e) = Nonce(q)
      BY <2>2, <2>3, ObfuscateEncodes DEF q
    <3>. HIDE DEF e
    <3>3. Nonce(packet)' = Nonce(e)
      BY <3>1 DEF Nonce
    <3>. QED  BY Zenon, <3>1, <3>2, <3>3 DEF q
  <2>5. Encoded(origin, packet, oracle.mask)' /\ Nonce(packet)' = oracle'.nonce
    BY <2>1, <2>2, <2>4
  <2>6. enabled /\ origin.Obfuscate
    BY Zenon, <1>1, <2>2 DEF Obfuscate
  <2>. QED  BY <2>2, <2>5, <2>6 DEF RoundTripInv, Restored, Recognized
<1>2. CASE WriteAsIs
  BY <1>2 DEF WriteAsIs, RoundTripInv, Restored, Recognized
<1>3. CASE ReadAsIs
  <2>1. stage = "wire" /\ stage' = "read" /\ UNCHANGED <<enabled, origin, packet, oracle>>
    BY <1>3 DEF ReadAsIs
  <2>2. ~(enabled /\ origin.Obfuscate)
    <3>1. SUFFICES ASSUME enabled, origin.Obfuscate PROVE FALSE
      OBVIOUS
    <3>2. Encoded(origin, packet, oracle.mask) /\ origin \in Messages
      BY <2>1, <3>1 DEF RoundTripInv
    <3>3. ~LooksLikeWireGuard(packet.Data)
      BY Zenon, <3>2, NotWireGuard
    <3>4. packet.Length >= MinMessageSize /\ packet.Length \in Nat
      BY Zenon, <3>2 DEF Encoded
    <3>5. MinMessageSize \in Nat
      BY SizesAssumption
    <3>. QED  BY <1>3, <3>1, <3>3, <3>4, <3>5 DEF ReadAsIs
  <2>3. packet = origin /\ origin \in Messages /\ packet.Deobfuscated = FALSE
    BY <2>1, <2>2, MessageType DEF RoundTripInv
  <2>. QED  BY <2>1, <2>2, <2>3 DEF RoundTripInv, Restored, Recognized
<1>4. CASE Deobfuscate
  <2>1. /\ stage = "wire" /\ stage' = "read" /\ enabled /\ UNCHANGED <<enabled, origin, oracle>>
        /\ ~LooksLikeWireGuard(packet.Data) /\ origin \in Messages
    BY <1>4 DEF Deobfuscate, RoundTripInv
  <2>2. origin.Obfuscate
    <3>1. LooksLikeWireGuard(origin.Data)
      BY <2>1 DEF Messages
    <3>. QED  BY <2>1, <3>1 DEF RoundTripInv
  <2>3. Encoded(origin, packet, oracle.mask) /\ Nonce(packet) = oracle.nonce
    BY <2>1, <2>2 DEF RoundTripInv
  <2>. DEFINE decoded == [packet EXCEPT !.Data = XorPart(@, oracle.mask, 0, XORKeyLength)]
  <2>4. packet' = IF decoded.Data[0] \in Types THEN Restore(decoded, oracle.mask) ELSE decoded
    BY Zenon, <1>4, <2>3 DEF Deobfuscate
  <2>5. /\ decoded.Data[0] \in Types
        /\ Slice(Restore(decoded, oracle.mask)) = Slice(origin)
        /\ Restore(decoded, oracle.mask).Deobfuscated = TRUE
    BY Zenon, <2>1, <2>3, RestoreDecodes
  <2>6. Slice(packet') = Slice(origin) /\ packet'.Deobfuscated = TRUE
    BY Zenon, <2>4, <2>5
  <2>7. Restored' /\ Recognized'
    BY <2>1, <2>2, <2>6 DEF Restored, Recognized, Slice
  <2>. QED  BY <2>1, <2>7 DEF RoundTripInv
<1>5. CASE Done \/ UNCHANGED vars
  BY <1>5 DEF Done, vars, RoundTripInv, Restored, Recognized
<1>. QED  BY <1>1, <1>2, <1>3, <1>4, <1>5 DEF Next

\* Deobfuscate undoes Obfuscate: what is read has the bytes and the length of
\* what was written, for every message, suffix and hash.
THEOREM RoundTrip == Spec => []Restored
<1>1. Init => RoundTripInv
  BY DEF Init, RoundTripInv, Restored, Recognized
<1>2. RoundTripInv => Restored
  BY DEF RoundTripInv
<1>. QED  BY <1>1, <1>2, NextRoundTripInv, PTL DEF Spec

\* No obfuscated packet is taken for a packet of WireGuard, nor the other way
\* round: modifyHashMaskForWireGuardHeaderConflict rules it out for every hash.
THEOREM ObfuscationRecognized == Spec => []Recognized
<1>1. Init => RoundTripInv
  BY DEF Init, RoundTripInv, Restored, Recognized
<1>2. RoundTripInv => Recognized
  BY DEF RoundTripInv
<1>. QED  BY <1>1, <1>2, NextRoundTripInv, PTL DEF Spec

=============================================================================
