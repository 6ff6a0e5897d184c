------------------------------- MODULE MCObfs -------------------------------
(***************************************************************************)
(* Obfs for TLC, with small sizes and the masks that matter for the        *)
(* header.                                                                 *)
(***************************************************************************)
EXTENDS Obfs, Bitwise

MCXOR(a, b) == a ^^ b

MCSize == <<9, 8, 7>>
MCMAC2Offset == <<7, 6>>

BodyBytes == {0, 1, 200}

\* Type, three zero bytes, a body of bytes b and, for types 1 and 2, a MAC2
\* of bytes m, with bytes 9 of an earlier packet behind.
Message(t, b, m) ==
  [i \in Offsets |->
     CASE i = 0 -> t
       [] i \in 1..3 -> 0
       [] i > 3 /\ i < MinMessageSize /\ t = TransportType -> b
       [] i > 3 /\ t < TransportType /\ i < Size[t] -> IF t <= 2 /\ i >= MAC2Offset[t] THEN m ELSE b
       [] OTHER -> 9]

MCContents == {Message(t, b, m) : t \in Types, b \in BodyBytes, m \in BodyBytes}
MCSuffixes == {[i \in Offsets |-> b] : b \in BodyBytes}

\* First bytes below and above 8, second bytes below and above 2, and the
\* bytes that turn one message type into another; later keys differ from the
\* first.
MCMasks ==
  {[i \in Offsets |->
      LET key == CASE i % XORKeyLength = 0 -> a [] i % XORKeyLength = 1 -> b [] OTHER -> c
      IN  (key + i \div XORKeyLength) % 256] :
     a \in 0..9 \cup {213, 215, 255}, b \in {0, 1, 2, 104, 105}, c \in {0, 1}}

=============================================================================
