--------------------------- MODULE PipelineProofs ---------------------------
(***************************************************************************)
(* TypeOK, OneOwner, FlagsFresh and TransportsInOrder of the pipeline for  *)
(* every number of buffers and handler goroutines and every channel        *)
(* capacity.                                                               *)
(***************************************************************************)
EXTENDS PipelineProperties, TLAPS

-----------------------------------------------------------------------------
(***************************************************************************)
(* The inductive invariant.                                                *)
(***************************************************************************)
\* OneOwner is Unique and Lines.
Unique ==
  \A b \in Buffers : \E place \in Places :
    In(b, place) /\ \A other \in Places : In(b, other) => other = place

Lines == \A s \in Sides : Injective(readChan[s]) /\ Injective(writeChan[s])

\* The places of the packets that a handler has rewritten.
Patched(b) ==
  \/ \E w \in Workers : worker[w].pc = "send" /\ worker[w].buf = b
  \/ \E s \in Sides : b \in Range(writeChan[s])
  \/ writer.buf = b

\* What FlagsFresh says of one buffer; a buffer that holds no datagram is as
\* recyclePacket left it, and only rewriting a packet decides about it.
Sound(b) ==
  /\ ~Filled(b) => packet[b] = Cleared
  /\ packet[b].decided => Patched(b)
  /\ Filled(b) => packet[b].datagram \in Datagrams
  /\ packet[b].flags =
       (IF Filled(b) /\ packet[b].datagram.obfuscated THEN {Deobfuscated} ELSE {})
       \cup (IF packet[b].decided \/ (IsClient /\ writer = [side |-> "server", buf |-> b])
             THEN {Obfuscate} ELSE {})

IInv == TypeOK /\ Unique /\ Lines /\ \A b \in Buffers : Sound(b)

-----------------------------------------------------------------------------
(***************************************************************************)
(* Sequences.                                                              *)
(***************************************************************************)
\* Sending on a channel adds the packet to what the channel holds.
LEMMA RangeAppend ==
  ASSUME NEW S, NEW q \in Seq(S), NEW b \in S
  PROVE  Range(Append(q, b)) = Range(q) \cup {b}
<1>1. /\ Len(q) \in Nat /\ DOMAIN q = 1..Len(q)
      /\ DOMAIN Append(q, b) = 1..(Len(q) + 1)
      /\ \A k \in 1..Len(q) : Append(q, b)[k] = q[k]
      /\ Append(q, b)[Len(q) + 1] = b
  OBVIOUS
<1>2. ASSUME NEW x \in Range(Append(q, b)) PROVE x \in Range(q) \cup {b}
  <2>1. PICK k \in 1..(Len(q) + 1) : x = Append(q, b)[k]
    BY <1>1 DEF Range
  <2> QED
    BY <1>1, <2>1 DEF Range
<1>3. ASSUME NEW x \in Range(q) PROVE x \in Range(Append(q, b))
  <2>1. PICK k \in 1..Len(q) : x = q[k]
    BY <1>1 DEF Range
  <2>2. k \in 1..(Len(q) + 1) /\ x = Append(q, b)[k]
    BY <1>1, <2>1
  <2> QED
    BY <1>1, <2>2 DEF Range
<1>4. b \in Range(Append(q, b))
  <2>1. Len(q) + 1 \in 1..(Len(q) + 1)
    BY <1>1
  <2> QED
    BY <1>1, <2>1 DEF Range
<1> QED
  BY <1>2, <1>3, <1>4

\* Receiving from a channel without repetitions removes its first packet.
LEMMA RangeTail ==
  ASSUME NEW S, NEW q \in Seq(S), q # <<>>, Injective(q)
  PROVE  /\ Head(q) \in S /\ Head(q) \in Range(q)
         /\ Range(Tail(q)) = Range(q) \ {Head(q)}
<1>1. /\ Len(q) \in Nat \ {0} /\ DOMAIN q = 1..Len(q)
      /\ DOMAIN Tail(q) = 1..(Len(q) - 1)
      /\ \A k \in 1..(Len(q) - 1) : Tail(q)[k] = q[k + 1]
      /\ Head(q) = q[1] /\ q[1] \in S
  OBVIOUS
<1>2. ASSUME NEW x \in Range(Tail(q)) PROVE x \in Range(q) \ {Head(q)}
  <2>1. PICK k \in 1..(Len(q) - 1) : x = q[k + 1]
    BY <1>1 DEF Range
  <2> QED
    BY <1>1, <2>1 DEF Range, Injective
<1>3. ASSUME NEW x \in Range(q) \ {Head(q)} PROVE x \in Range(Tail(q))
  <2>1. PICK k \in 1..Len(q) : x = q[k]
    BY <1>1 DEF Range
  <2>2. k - 1 \in 1..(Len(q) - 1) /\ Tail(q)[k - 1] = x
    BY <1>1, <2>1
  <2> QED
    BY Zenon, <1>1, <2>2 DEF Range
<1>4. Head(q) \in Range(q)
  <2>1. 1 \in 1..Len(q)
    BY <1>1
  <2> QED
    BY <1>1, <2>1 DEF Range
<1> QED
  BY <1>1, <1>2, <1>3, <1>4

\* A channel stays without repetitions when a new packet is sent on it ...
LEMMA InjectiveAppend ==
  ASSUME NEW S, NEW q \in Seq(S), NEW b \in S, b \notin Range(q), Injective(q)
  PROVE  Injective(Append(q, b))
BY DEF Range, Injective

\* ... and when one is received from it.
LEMMA InjectiveTail ==
  ASSUME NEW S, NEW q \in Seq(S), q # <<>>, Injective(q)
  PROVE  Injective(Tail(q))
BY DEF Injective

-----------------------------------------------------------------------------
(***************************************************************************)
(* Places.                                                                 *)
(***************************************************************************)
LEMMA Nils == Nil \notin Buffers /\ Nil \notin Workers /\ Main \notin Goroutines
BY PipelineAssumption DEF Workers

\* A place is a pair: what holds the buffer, and whose it is.
LEMMA PlaceType ==
  ASSUME NEW r \in Places
  PROVE  /\ r = <<r[1], r[2]>>
         /\ r[1] \in {"pool", "writer", "reader", "readChan", "writeChan", "worker"}
         /\ r[1] \in {"pool", "writer"} => r[2] = Nil
         /\ r[1] \in {"reader", "readChan", "writeChan"} => r[2] \in Sides
         /\ r[1] = "worker" => r[2] \in Workers
BY DEF Places

\* The pool, the goroutines and the channels are places.
LEMMA IsPlace ==
  /\ <<"pool", Nil>> \in Places /\ <<"writer", Nil>> \in Places
  /\ \A s \in Sides : /\ <<"reader", s>> \in Places /\ <<"readChan", s>> \in Places
                      /\ <<"writeChan", s>> \in Places
  /\ \A w \in Workers : <<"worker", w>> \in Places
BY DEF Places

\* A buffer is in no other place than the one it is known to be in.
LEMMA Only ==
  ASSUME Unique, NEW b \in Buffers, NEW p \in Places, In(b, p),
         NEW r \in Places, In(b, r)
  PROVE  r = p
BY Zenon DEF Unique

\* A buffer that is in one place is in no other.
LEMMA NotIn ==
  ASSUME Unique, NEW b \in Buffers, NEW p \in Places, In(b, p),
         NEW r \in Places, r # p
  PROVE  ~In(b, r)
BY Zenon, Only

\* Buffer b is handed on from place p to place q, or none is.
Moves(b, p, q) ==
  \A c \in Buffers : \A r \in Places :
    In(c, r)' <=> (In(c, r) /\ ~(c = b /\ r = p)) \/ (c = b /\ r = q)

Stays == \A c \in Buffers : \A r \in Places : In(c, r)' <=> In(c, r)

\* Handing one buffer on keeps every buffer in one place.
LEMMA Move ==
  ASSUME Unique, NEW b \in Buffers, NEW p \in Places, NEW q \in Places, In(b, p),
         Moves(b, p, q)
  PROVE  Unique'
<1>1. Places' = Places
  BY DEF Places
<1>2. SUFFICES ASSUME NEW c \in Buffers
               PROVE  \E place \in Places :
                        In(c, place)' /\ \A other \in Places : In(c, other)' => other = place
  BY <1>1 DEF Unique
<1>3. CASE c = b
  BY <1>3, Only DEF Moves
<1>4. CASE c # b
  BY <1>4 DEF Unique, Moves
<1> QED
  BY <1>3, <1>4

\* A step that moves no buffer keeps each of them in one place.
LEMMA Stay ==
  ASSUME Unique, Stays
  PROVE  Unique'
<1>1. Places' = Places
  BY DEF Places
<1> QED
  BY <1>1 DEF Unique, Stays

-----------------------------------------------------------------------------
(***************************************************************************)
(* Types.                                                                  *)
(***************************************************************************)
ReaderPCs == {"obtain", "read", "send"}
WorkerPCs == {"idle", "handle", "locked", "spin", "send", "update"}

\* A reader that only goes on to another statement is a reader.
LEMMA ReaderPC ==
  ASSUME NEW r \in Reader, NEW pc \in ReaderPCs
  PROVE  [r EXCEPT !.pc = pc] \in Reader
BY DEF Reader, ReaderPCs

\* A worker that only goes on keeps its buffer.
LEMMA WorkerPC ==
  ASSUME NEW r \in Worker, NEW pc \in WorkerPCs
  PROVE  /\ [r EXCEPT !.pc = pc] \in Worker
         /\ [r EXCEPT !.pc = pc].buf = r.buf /\ [r EXCEPT !.pc = pc].pc = pc
BY DEF Worker, WorkerPCs

-----------------------------------------------------------------------------
(***************************************************************************)
(* Contents.                                                               *)
(***************************************************************************)
\* A buffer that nobody touches keeps what it holds.
LEMMA SoundKept ==
  ASSUME NEW c \in Buffers, Sound(c), packet'[c] = packet[c], Filled(c)' <=> Filled(c),
         Patched(c) => Patched(c)',
         writer' = [side |-> "server", buf |-> c] <=> writer = [side |-> "server", buf |-> c]
  PROVE  Sound(c)'
BY DEF Sound

\* The states of the read loops and the pool decide who holds a datagram.
LEMMA FilledKept ==
  ASSUME NEW c \in Buffers, c \in pool' <=> c \in pool,
         \A s \in Sides : (reader[s].pc = "read" /\ reader[s].buf = c)'
                          <=> (reader[s].pc = "read" /\ reader[s].buf = c)
  PROVE  Filled(c)' <=> Filled(c)
BY DEF Filled

\* Recycling a packet clears it and leaves all others alone.
LEMMA RecycleSound ==
  ASSUME IInv, NEW b \in Buffers, RecyclePacket(b), writer'.buf # b,
         \A c \in Buffers \ {b} :
           /\ Patched(c) => Patched(c)'
           /\ writer' = [side |-> "server", buf |-> c] <=> writer = [side |-> "server", buf |-> c]
           /\ \A s \in Sides : (reader[s].pc = "read" /\ reader[s].buf = c)'
                               <=> (reader[s].pc = "read" /\ reader[s].buf = c)
  PROVE  /\ packet' \in [Buffers -> Packet] /\ pool' \subseteq Buffers
         /\ \A c \in Buffers : Sound(c)'
<1>1. /\ packet' = [packet EXCEPT ![b] = Cleared] /\ pool' = pool \cup {b}
      /\ packet \in [Buffers -> Packet] /\ pool \subseteq Buffers
  BY DEF RecyclePacket, Reset, IInv, TypeOK
<1>2. Cleared \in Packet
  BY DEF Cleared, Packet
<1>3. ASSUME NEW c \in Buffers \ {b} PROVE Sound(c)'
  <2>1. Filled(c)' <=> Filled(c)
    BY <1>1, FilledKept
  <2> QED
    BY <1>1, <2>1, SoundKept DEF IInv
<1>4. Sound(b)'
  <2>1. ~Filled(b)' /\ packet'[b] = Cleared
    BY <1>1 DEF Filled
  <2>2. writer' # [side |-> "server", buf |-> b]
    OBVIOUS
  <2> QED
    BY <2>1, <2>2 DEF Sound, Cleared
<1> QED
  BY <1>1, <1>2, <1>3, <1>4

-----------------------------------------------------------------------------
(***************************************************************************)
(* The read loops and the dispatch of mainLoop.                            *)
(***************************************************************************)
LEMMA ObtainPacketStep ==
  ASSUME IInv, NEW s \in Sides, ObtainPacket(s)
  PROVE  IInv'
<1> USE Nils
<1>p. /\ Unique /\ <<"pool", Nil>> \in Places
      /\ <<"reader", s>> \in Places
  BY Zenon, IsPlace DEF IInv
<1>1. PICK b \in pool : /\ pool' = pool \ {b}
                        /\ reader' = [reader EXCEPT ![s] = [pc |-> "read", buf |-> b]]
  BY Zenon DEF ObtainPacket
<1>2. /\ b \in Buffers /\ reader[s].pc = "obtain" /\ reader[s].buf = Nil
      /\ UNCHANGED <<packet, readChan, worker, mapLock, writeChan, writer, resolver>>
  BY DEF IInv, TypeOK, ObtainPacket, writeVars
<1>3. TypeOK'
  BY <1>1, <1>2 DEF IInv, TypeOK, Reader
<1>4. Moves(b, <<"pool", Nil>>, <<"reader", s>>)
  BY <1>1, <1>2, PlaceType DEF IInv, TypeOK, In, Moves
<1>5. In(b, <<"pool", Nil>>)
  BY DEF In
<1>6. Unique'
  BY <1>2, <1>4, <1>5, <1>p, Move, Zenon
<1>7. Lines'
  BY <1>2 DEF IInv, Lines
<1>8. ASSUME NEW c \in Buffers PROVE Filled(c)' <=> Filled(c)
  BY <1>1, <1>2 DEF IInv, TypeOK, Filled
<1>9. \A c \in Buffers : Sound(c)'
  <2>1. \A c \in Buffers : Patched(c)' <=> Patched(c)
    BY <1>2 DEF Patched
  <2> QED
    BY <1>2, <1>8, <2>1, SoundKept DEF IInv
<1> QED
  BY <1>3, <1>6, <1>7, <1>9 DEF IInv

\* The reader gets a datagram: flags and fields of the buffer are written.
LEMMA ReadFromUDPStep ==
  ASSUME IInv, NEW s \in Sides, ReadFromUDP(s)
  PROVE  IInv'
<1> USE Nils
<1>p. /\ Unique /\ <<"reader", s>> \in Places
      /\ <<"pool", Nil>> \in Places
      /\ <<"writer", Nil>> \in Places /\ <<"writer", Nil>> # <<"reader", s>>
      /\ <<"pool", Nil>> # <<"reader", s>>
      /\ \A t \in Sides \ {s} : <<"reader", t>> \in Places /\ <<"reader", t>> # <<"reader", s>>
  BY Zenon, IsPlace DEF IInv
<1>b. PICK b : b = reader[s].buf
  OBVIOUS
<1>1. PICK d \in Arrivals[s] : packet' = [packet EXCEPT ![b] =
        [datagram |-> d, flags |-> packet[b].flags \cup ReadFlags(d), decided |-> FALSE]]
  BY Zenon, <1>b DEF ReadFromUDP
<1>2. /\ reader[s].pc = "read" /\ reader' = [reader EXCEPT ![s].pc = "send"]
      /\ UNCHANGED <<pool, readChan, worker, mapLock, writeChan, writer, resolver>>
  BY DEF ReadFromUDP, writeVars
<1>3. b \in Buffers /\ d \in Datagrams
  BY Zenon, <1>b, <1>2, PipelineAssumption DEF IInv, TypeOK, Reader
<1>4. In(b, <<"reader", s>>)
  BY <1>b DEF In
<1>5. /\ b \notin pool /\ writer.buf # b
      /\ \A t \in Sides \ {s} : reader[t].buf # b
  <2>1. ~In(b, <<"pool", Nil>>) /\ ~In(b, <<"writer", Nil>>)
    BY <1>3, <1>4, <1>p, NotIn, Zenon
  <2>2. \A t \in Sides \ {s} : ~In(b, <<"reader", t>>)
    BY <1>3, <1>4, <1>p, NotIn, Zenon
  <2> QED
    BY <2>1, <2>2 DEF In
<1>6. packet[b] = Cleared
  <2>1. ~Filled(b)
    BY <1>b, <1>2 DEF Filled
  <2> QED
    BY <1>3, <2>1 DEF IInv, Sound
<1>7. packet'[b] = [datagram |-> d, flags |-> ReadFlags(d), decided |-> FALSE]
  BY <1>1, <1>3, <1>6 DEF IInv, TypeOK, Cleared
<1>8. packet' \in [Buffers -> Packet]
  <2>1. [datagram |-> d, flags |-> packet[b].flags \cup ReadFlags(d), decided |-> FALSE] \in Packet
    BY <1>3, <1>6 DEF Packet, ReadFlags, Flags, Cleared
  <2> QED
    BY Zenon, <1>1, <2>1 DEF IInv, TypeOK
<1>9. TypeOK'
  <2>1. reader' \in [Sides -> Reader]
    <3>1. reader \in [Sides -> Reader] /\ reader[s] \in Reader
      BY DEF IInv, TypeOK
    <3>2. [reader[s] EXCEPT !.pc = "send"] \in Reader
      BY Zenon, <3>1, ReaderPC DEF ReaderPCs
    <3> QED
      BY <1>2, <3>1, <3>2
  <2>2. \A t \in Sides : reader'[t].buf = Nil <=> reader'[t].pc = "obtain"
    BY <1>b, <1>2, <1>3 DEF IInv, TypeOK, Reader
  <2>3. /\ pool' = pool /\ readChan' = readChan /\ worker' = worker /\ mapLock' = mapLock
        /\ writeChan' = writeChan /\ writer' = writer /\ resolver' = resolver
    BY <1>2
  <2>4. TypeOK
    BY DEF IInv
  <2> QED
    BY <1>8, <2>1, <2>2, <2>3, <2>4 DEF TypeOK
<1>10. Unique'
  <2>1. Stays
    BY <1>2, PlaceType DEF IInv, TypeOK, In, Stays
  <2> QED
    BY <2>1, Stay DEF IInv
<1>11. Lines'
  BY <1>2 DEF IInv, Lines
<1>12. ASSUME NEW c \in Buffers \ {b} PROVE Sound(c)'
  <2>1. Filled(c)' <=> Filled(c)
    BY <1>b, <1>2 DEF IInv, TypeOK, Filled
  <2>2. packet'[c] = packet[c]
    BY <1>1 DEF IInv, TypeOK
  <2>3. Patched(c)' <=> Patched(c)
    BY <1>2 DEF Patched
  <2> QED
    BY <1>2, <2>1, <2>2, <2>3, SoundKept DEF IInv
<1>13. Sound(b)'
  <2>1. Filled(b)'
    BY <1>b, <1>2, <1>5 DEF IInv, TypeOK, Filled
  <2>2. writer' # [side |-> "server", buf |-> b]
    BY <1>2, <1>5
  <2>3. d.obfuscated \in BOOLEAN
    BY <1>3, PipelineAssumption
  <2>4. /\ packet'[b].datagram = d /\ packet'[b].flags = ReadFlags(d)
        /\ packet'[b].decided = FALSE
    BY <1>7
  <2>5. ReadFlags(d) = (IF d.obfuscated THEN {Deobfuscated} ELSE {}) \cup {}
    BY <2>3 DEF ReadFlags
  <2> QED
    BY <1>3, <2>1, <2>2, <2>3, <2>4, <2>5 DEF Sound
<1>14. \A c \in Buffers : Sound(c)'
  BY <1>12, <1>13
<1> QED
  BY <1>9, <1>10, <1>11, <1>14 DEF IInv

\* A failed read leaves the buffer with the reader.
LEMMA ReadErrorStep ==
  ASSUME IInv, NEW s \in Sides, ReadError(s)
  PROVE  IInv'
<1> USE Nils
<1>p. /\ Unique /\ <<"reader", s>> \in Places
      /\ <<"pool", Nil>> \in Places
      /\ <<"writer", Nil>> \in Places /\ <<"writer", Nil>> # <<"reader", s>>
  BY Zenon, IsPlace DEF IInv
<1> DEFINE b == reader[s].buf
<1>1. /\ reader[s].pc = "read" /\ RecyclePacket(b)
      /\ reader' = [reader EXCEPT ![s] = [pc |-> "obtain", buf |-> Nil]]
      /\ UNCHANGED <<readChan, worker, mapLock, writeChan, writer, resolver>>
  BY DEF ReadError, writeVars
<1>2. b \in Buffers /\ b # Nil
  BY <1>1 DEF IInv, TypeOK, Reader
<1>3. In(b, <<"reader", s>>)
  BY DEF In
<1>4. writer.buf # b
  <2>1. ~In(b, <<"writer", Nil>>)
    BY <1>2, <1>3, <1>p, NotIn, Zenon
  <2> QED
    BY <2>1 DEF In
<1>5. /\ packet' \in [Buffers -> Packet] /\ pool' \subseteq Buffers
      /\ \A c \in Buffers : Sound(c)'
  <2>1. ASSUME NEW c \in Buffers \ {b}, NEW t \in Sides
        PROVE  (reader[t].pc = "read" /\ reader[t].buf = c)'
                <=> (reader[t].pc = "read" /\ reader[t].buf = c)
    BY Zenon, <1>1, <1>2 DEF IInv, TypeOK
  <2>2. \A c \in Buffers : Patched(c)' <=> Patched(c)
    BY <1>1 DEF Patched
  <2> QED
    BY <1>1, <1>2, <1>4, <2>1, <2>2, RecycleSound
<1>6. TypeOK'
  BY <1>1, <1>5 DEF IInv, TypeOK, Reader
<1>7. Moves(b, <<"reader", s>>, <<"pool", Nil>>)
  BY <1>1, <1>2, PlaceType DEF IInv, TypeOK, In, RecyclePacket, Moves
<1>8. Unique'
  BY <1>2, <1>3, <1>7, <1>p, Move, Zenon
<1>9. Lines'
  BY Zenon, <1>1 DEF IInv, Lines
<1> QED
  BY <1>5, <1>6, <1>8, <1>9 DEF IInv

\* The reader hands its buffer to its read channel.
LEMMA SendReadStep ==
  ASSUME IInv, NEW s \in Sides, SendRead(s)
  PROVE  IInv'
<1> USE Nils
<1>p. /\ Unique /\ <<"reader", s>> \in Places
      /\ <<"readChan", s>> \in Places
      /\ <<"readChan", s>> # <<"reader", s>>
  BY Zenon, IsPlace DEF IInv
<1> DEFINE b == reader[s].buf
<1>1. /\ reader[s].pc = "send"
      /\ readChan' = [readChan EXCEPT ![s] = Append(readChan[s], b)]
      /\ reader' = [reader EXCEPT ![s] = [pc |-> "obtain", buf |-> Nil]]
      /\ UNCHANGED <<packet, pool, worker, mapLock, writeChan, writer, resolver>>
  BY DEF SendRead, poolVars, writeVars
<1>2. b \in Buffers /\ b # Nil /\ readChan[s] \in Seq(Buffers)
  BY <1>1 DEF IInv, TypeOK, Reader
<1>3. In(b, <<"reader", s>>)
  BY DEF In
<1>4. Range(Append(readChan[s], b)) = Range(readChan[s]) \cup {b}
  BY <1>2, RangeAppend
<1>5. TypeOK'
  <2>1. readChan' \in [Sides -> Seq(Buffers)]
    BY <1>1, <1>2 DEF IInv, TypeOK
  <2> QED
    BY <1>1, <2>1 DEF IInv, TypeOK, Reader
<1>6. Moves(b, <<"reader", s>>, <<"readChan", s>>)
  BY <1>1, <1>2, <1>4, PlaceType DEF IInv, TypeOK, In, Moves
<1>7. Unique'
  BY <1>2, <1>3, <1>6, <1>p, Move, Zenon
<1>8. Lines'
  <2>1. b \notin Range(readChan[s])
    <3>1. ~In(b, <<"readChan", s>>)
      BY <1>2, <1>3, <1>p, NotIn, Zenon
    <3> QED
      BY <3>1 DEF In
  <2>2. Injective(Append(readChan[s], b))
    BY <1>2, <2>1, InjectiveAppend DEF IInv, Lines
  <2> QED
    BY <1>1, <2>2 DEF IInv, TypeOK, Lines
<1>9. \A c \in Buffers : Sound(c)'
  <2>1. ASSUME NEW c \in Buffers PROVE Filled(c)' <=> Filled(c)
    BY Zenon, <1>1 DEF IInv, TypeOK, Filled
  <2>2. \A c \in Buffers : Patched(c)' <=> Patched(c)
    BY <1>1 DEF Patched
  <2> QED
    BY <1>1, <2>1, <2>2, SoundKept DEF IInv
<1> QED
  BY <1>5, <1>7, <1>8, <1>9 DEF IInv

\* The main loop takes a buffer from a read channel.
LEMMA ReceiveStep ==
  ASSUME IInv, NEW s \in Sides, Receive(s)
  PROVE  IInv'
<1> USE Nils
<1> DEFINE b == Head(readChan[s])
<1>1. PICK w \in Workers :
        /\ worker[w].pc = "idle"
        /\ worker' = [worker EXCEPT ![w] = [pc |-> "handle", side |-> s, buf |-> b]]
  BY Zenon DEF Receive, Workers
<1>p. /\ Unique /\ <<"readChan", s>> \in Places
      /\ <<"worker", w>> \in Places
  BY Zenon, IsPlace DEF IInv
<1>2. /\ readChan[s] # <<>> /\ readChan' = [readChan EXCEPT ![s] = Tail(readChan[s])]
      /\ UNCHANGED <<packet, pool, reader, mapLock, writeChan, writer, resolver>>
  BY DEF Receive, poolVars, writeVars
<1>3. /\ readChan[s] \in Seq(Buffers) /\ Injective(readChan[s])
      /\ worker[w].buf = Nil /\ Tail(readChan[s]) \in Seq(Buffers)
  BY <1>1, <1>2 DEF IInv, TypeOK, Lines
<1>4. /\ b \in Buffers /\ b \in Range(readChan[s])
      /\ Range(Tail(readChan[s])) = Range(readChan[s]) \ {b}
  BY Zenon, <1>2, <1>3, RangeTail
<1>5. TypeOK'
  <2>1. readChan' \in [Sides -> Seq(Buffers)]
    BY Zenon, <1>2, <1>3 DEF IInv, TypeOK
  <2> QED
    BY <1>1, <1>2, <1>4, <2>1 DEF IInv, TypeOK, Worker
<1>6. Moves(b, <<"readChan", s>>, <<"worker", w>>)
  BY <1>1, <1>2, <1>3, <1>4, PlaceType DEF IInv, TypeOK, In, Moves
<1>7. Unique'
  <2>1. In(b, <<"readChan", s>>)
    BY Zenon, <1>4 DEF In
  <2> QED
    BY <1>4, <1>6, <2>1, <1>p, Move, Zenon
<1>8. Lines'
  <2>1. Injective(Tail(readChan[s]))
    BY Zenon, <1>2, <1>3, InjectiveTail
  <2> QED
    BY Zenon, <1>2, <2>1 DEF IInv, TypeOK, Lines
<1>9. \A c \in Buffers : Sound(c)'
  <2>1. ASSUME NEW c \in Buffers PROVE Filled(c)' <=> Filled(c)
    BY <1>2 DEF Filled
  <2>2. ASSUME NEW c \in Buffers, Patched(c) PROVE Patched(c)'
    BY Zenon, <1>1, <1>2, <2>2 DEF IInv, TypeOK, Patched
  <2> QED
    BY <1>2, <2>1, <2>2, SoundKept DEF IInv
<1> QED
  BY <1>5, <1>7, <1>8, <1>9 DEF IInv

-----------------------------------------------------------------------------
(***************************************************************************)
(* Steps of one goroutine of the handlers or mainLoop.                     *)
(***************************************************************************)
\* Who has the lock, when goroutine w goes on to pc.
LockMoves(w, pc) ==
  /\ mapLock' \in Workers \cup {Nil}
  /\ pc \in {"locked", "spin"} <=> mapLock' = w
  /\ \A v \in Workers \ {w} : mapLock' = v <=> mapLock = v

\* A step of one worker keeps the types, the lock and the other workers.
LEMMA WorkerTypes ==
  ASSUME IInv, NEW w \in Workers, NEW r \in Worker,
         worker' = [worker EXCEPT ![w] = r], LockMoves(w, r.pc),
         r.pc = "update" => w = Main, r.buf = Nil <=> r.pc \in {"idle", "update"}
  PROVE  /\ worker' \in [Workers -> Worker] /\ mapLock' \in Workers \cup {Nil}
         /\ \A v \in Workers :
              /\ worker'[v].pc = "update" => v = Main
              /\ worker'[v].buf = Nil <=> worker'[v].pc \in {"idle", "update"}
              /\ worker'[v].pc \in {"locked", "spin"} <=> mapLock' = v
<1>1. worker \in [Workers -> Worker]
  BY DEF IInv, TypeOK
<1>2. worker'[w] = r /\ \A v \in Workers \ {w} : worker'[v] = worker[v]
  BY <1>1
<1>3. worker' \in [Workers -> Worker]
  BY <1>1
<1>4. ASSUME NEW v \in Workers \ {w}
      PROVE  /\ worker'[v].pc = "update" => v = Main
             /\ worker'[v].buf = Nil <=> worker'[v].pc \in {"idle", "update"}
             /\ worker'[v].pc \in {"locked", "spin"} <=> mapLock' = v
  BY Zenon, <1>2 DEF IInv, TypeOK, LockMoves
<1>5. /\ worker'[w].pc = "update" => w = Main
      /\ worker'[w].buf = Nil <=> worker'[w].pc \in {"idle", "update"}
      /\ worker'[w].pc \in {"locked", "spin"} <=> mapLock' = w
  BY <1>2 DEF LockMoves
<1> QED
  BY <1>3, <1>4, <1>5 DEF LockMoves

\* A step that changes no packet and moves no buffer.
LEMMA PCStep ==
  ASSUME IInv, NEW w \in Workers, NEW pc \in WorkerPCs,
         worker' = [worker EXCEPT ![w].pc = pc], LockMoves(w, pc),
         UNCHANGED <<packet, pool, reader, readChan, writeChan, writer>>,
         resolver' \in {"idle", "sending"}, worker[w].pc # "send",
         pc = "update" => w = Main, worker[w].buf = Nil <=> pc \in {"idle", "update"}
  PROVE  IInv'
<1>1. PICK r : r = [worker[w] EXCEPT !.pc = pc]
  BY Zenon
<1>2. worker \in [Workers -> Worker] /\ worker' = [worker EXCEPT ![w] = r]
  BY <1>1 DEF IInv, TypeOK
<1>3. r \in Worker /\ r.buf = worker[w].buf /\ r.pc = pc
  BY <1>1, <1>2, WorkerPC
<1>4. /\ worker' \in [Workers -> Worker] /\ mapLock' \in Workers \cup {Nil}
      /\ \A v \in Workers :
           /\ worker'[v].pc = "update" => v = Main
           /\ worker'[v].buf = Nil <=> worker'[v].pc \in {"idle", "update"}
           /\ worker'[v].pc \in {"locked", "spin"} <=> mapLock' = v
  BY Zenon, <1>2, <1>3, WorkerTypes
<1>5. TypeOK'
  BY <1>4 DEF IInv, TypeOK
<1>6. \A v \in Workers : worker'[v].buf = worker[v].buf
  BY <1>2, <1>3
<1>7. Unique'
  <2>1. Stays
    BY <1>6, PlaceType DEF Stays, In
  <2> QED
    BY <2>1, Stay DEF IInv
<1>8. Lines'
  BY DEF IInv, Lines
<1>9. ASSUME NEW c \in Buffers PROVE Sound(c)'
  <2>1. Filled(c)' <=> Filled(c)
    BY DEF Filled
  <2>2. Patched(c) => Patched(c)'
    BY <1>2 DEF Patched
  <2> QED
    BY <2>1, <2>2, SoundKept DEF IInv
<1> QED
  BY <1>5, <1>7, <1>8, <1>9 DEF IInv

\* The buffer of a handler is nowhere else.
LEMMA WorkerAlone ==
  ASSUME IInv, NEW w \in Workers, NEW b \in Buffers, b = worker[w].buf
  PROVE  /\ Unique /\ <<"worker", w>> \in Places /\ In(b, <<"worker", w>>)
         /\ b \notin pool /\ writer.buf # b
         /\ \A s \in Sides : /\ reader[s].buf # b
                             /\ b \notin Range(readChan[s]) /\ b \notin Range(writeChan[s])
         /\ \A v \in Workers \ {w} : worker[v].buf # b
<1>1. Unique /\ <<"worker", w>> \in Places /\ In(b, <<"worker", w>>)
  BY Zenon, IsPlace DEF IInv, In
<1>2. ~In(b, <<"pool", Nil>>) /\ ~In(b, <<"writer", Nil>>)
  <2>1. /\ <<"pool", Nil>> \in Places /\ <<"pool", Nil>> # <<"worker", w>>
        /\ <<"writer", Nil>> \in Places /\ <<"writer", Nil>> # <<"worker", w>>
    BY IsPlace
  <2> QED
    BY <1>1, <2>1, NotIn, Zenon
<1>3. ASSUME NEW s \in Sides, NEW kind \in {"reader", "readChan", "writeChan"}
      PROVE  ~In(b, <<kind, s>>)
  <2>1. <<kind, s>> \in Places /\ <<kind, s>> # <<"worker", w>>
    BY Zenon, IsPlace
  <2> QED
    BY <1>1, <2>1, NotIn, Zenon
<1>4. ASSUME NEW v \in Workers \ {w} PROVE ~In(b, <<"worker", v>>)
  <2>1. <<"worker", v>> \in Places /\ <<"worker", v>> # <<"worker", w>>
    BY IsPlace
  <2> QED
    BY <1>1, <2>1, NotIn, Zenon
<1> QED
  BY Zenon, <1>1, <1>2, <1>3, <1>4 DEF In

\* A packet that is not forwarded.
LEMMA DropStep ==
  ASSUME IInv, NEW w \in Workers, worker[w].pc \in {"handle", "locked"}, Drop(w),
         LockMoves(w, "idle"), UNCHANGED <<reader, readChan, writeChan, writer, resolver>>
  PROVE  IInv'
<1> USE Nils
<1>1. PICK b : b = worker[w].buf
  OBVIOUS
<1>2. b \in Buffers /\ b # Nil
  BY Zenon, <1>1 DEF IInv, TypeOK, Worker
<1>3. RecyclePacket(b) /\ worker' = [worker EXCEPT ![w] = Idle]
  BY <1>1 DEF Drop, Deferred
<1>4. /\ Unique /\ <<"worker", w>> \in Places /\ In(b, <<"worker", w>>)
      /\ <<"pool", Nil>> \in Places /\ writer.buf # b
  BY Zenon, <1>1, <1>2, WorkerAlone, IsPlace
<1>5. /\ packet' \in [Buffers -> Packet] /\ pool' \subseteq Buffers
      /\ \A c \in Buffers : Sound(c)'
  <2>1. ASSUME NEW c \in Buffers \ {b}, Patched(c) PROVE Patched(c)'
    BY Zenon, <1>1, <1>3, <2>1 DEF IInv, TypeOK, Patched
  <2> QED
    BY Zenon, <1>2, <1>3, <1>4, <2>1, RecycleSound
<1>6. TypeOK'
  <2>1. Idle \in Worker /\ Idle.pc = "idle" /\ Idle.buf = Nil
    BY Zenon DEF Idle, Worker, Sides
  <2>2. /\ worker' \in [Workers -> Worker] /\ mapLock' \in Workers \cup {Nil}
        /\ \A v \in Workers :
             /\ worker'[v].pc = "update" => v = Main
             /\ worker'[v].buf = Nil <=> worker'[v].pc \in {"idle", "update"}
             /\ worker'[v].pc \in {"locked", "spin"} <=> mapLock' = v
    BY Zenon, <1>3, <2>1, WorkerTypes
  <2> QED
    BY Zenon, <1>5, <2>2 DEF IInv, TypeOK
<1>7. Moves(b, <<"worker", w>>, <<"pool", Nil>>)
  BY <1>1, <1>2, <1>3, PlaceType DEF IInv, TypeOK, In, RecyclePacket, Moves, Idle
<1>8. Unique'
  BY <1>2, <1>4, <1>7, Move, Zenon
<1>9. Lines'
  BY DEF IInv, Lines
<1> QED
  BY <1>5, <1>6, <1>8, <1>9 DEF IInv

\* A packet that is rewritten and will be forwarded.
LEMMA PatchStep ==
  ASSUME IInv, NEW w \in Workers, worker[w].pc \in {"handle", "locked"}, Patch(w),
         worker' = [worker EXCEPT ![w].pc = "send"], LockMoves(w, "send"),
         UNCHANGED <<pool, reader, readChan, writeChan, writer, resolver>>
  PROVE  IInv'
<1> USE Nils
<1>1. PICK b : b = worker[w].buf
  OBVIOUS
<1>2. b \in Buffers /\ b # Nil /\ worker \in [Workers -> Worker]
  BY Zenon, <1>1 DEF IInv, TypeOK, Worker
<1>3. PICK obfuscateEnabled \in BOOLEAN :
        packet' = [packet EXCEPT ![b] = Decide(packet[b], obfuscateEnabled)]
  <2>1. PICK oe \in IF worker[w].side = "server" /\ Obfuscating("client") THEN BOOLEAN
                     ELSE {FALSE} :
          packet' = [packet EXCEPT ![worker[w].buf] = Decide(@, oe)]
    BY Zenon DEF Patch
  <2>2. oe \in BOOLEAN
    BY Zenon
  <2> QED
    BY Zenon, <1>1, <2>1, <2>2
<1>4. /\ b \notin pool /\ writer.buf # b
      /\ \A s \in Sides : reader[s].buf # b /\ b \notin Range(writeChan[s])
      /\ \A v \in Workers \ {w} : worker[v].buf # b
  BY Zenon, <1>1, <1>2, WorkerAlone
<1>5. packet \in [Buffers -> Packet] /\ packet[b] \in Packet /\ Sound(b)
  BY <1>2 DEF IInv, TypeOK
<1>6. ~packet[b].decided
  <2>1. ~Patched(b)
    BY <1>1, <1>4 DEF Patched
  <2> QED
    BY <1>5, <2>1 DEF Sound
<1>7. PICK r : r = [worker[w] EXCEPT !.pc = "send"]
  BY Zenon
<1>8. /\ worker' = [worker EXCEPT ![w] = r]
      /\ r \in Worker /\ r.buf = b /\ r.pc = "send"
  <2>1. worker' = [worker EXCEPT ![w] = r]
    BY <1>2, <1>7
  <2> QED
    BY Zenon, <1>1, <1>2, <1>7, <2>1, WorkerPC DEF WorkerPCs
<1>9. /\ packet'[b].datagram = packet[b].datagram /\ packet'[b].decided = obfuscateEnabled
      /\ packet'[b].flags = IF obfuscateEnabled THEN packet[b].flags \cup {Obfuscate}
                            ELSE packet[b].flags
      /\ \A c \in Buffers \ {b} : packet'[c] = packet[c]
      /\ packet' \in [Buffers -> Packet]
  BY Zenon, <1>2, <1>3, <1>5 DEF Packet, Flags, Decide
<1>10. TypeOK'
  <2>1. LockMoves(w, r.pc) /\ r.pc # "update" /\ (r.buf = Nil <=> r.pc \in {"idle", "update"})
    BY <1>2, <1>8
  <2>2. /\ worker' \in [Workers -> Worker] /\ mapLock' \in Workers \cup {Nil}
        /\ \A v \in Workers :
             /\ worker'[v].pc = "update" => v = Main
             /\ worker'[v].buf = Nil <=> worker'[v].pc \in {"idle", "update"}
             /\ worker'[v].pc \in {"locked", "spin"} <=> mapLock' = v
    BY Zenon, <1>8, <2>1, WorkerTypes
  <2> QED
    BY <1>9, <2>2 DEF IInv, TypeOK
<1>11. \A v \in Workers : worker'[v].buf = worker[v].buf
  BY <1>1, <1>2, <1>8
<1>12. Unique'
  <2>1. Stays
    BY <1>11, PlaceType DEF Stays, In
  <2> QED
    BY <2>1, Stay DEF IInv
<1>13. Lines'
  BY DEF IInv, Lines
<1>14. \A c \in Buffers : Filled(c)' <=> Filled(c)
  BY DEF Filled
<1>15. ASSUME NEW c \in Buffers \ {b} PROVE Sound(c)'
  <2>1. Patched(c) => Patched(c)'
    BY <1>2, <1>8 DEF Patched
  <2> QED
    BY <1>9, <1>14, <2>1, SoundKept DEF IInv
<1>16. Sound(b)'
  <2>1. Patched(b)'
    BY Zenon, <1>2, <1>8 DEF Patched
  <2>2. Filled(b) /\ Filled(b)'
    BY <1>2, <1>4, <1>14 DEF Filled
  <2>3. writer # [side |-> "server", buf |-> b]
    BY <1>4
  <2>4. packet[b].flags = IF packet[b].datagram.obfuscated THEN {Deobfuscated} ELSE {}
    BY <1>5, <1>6, <2>2, <2>3 DEF Sound
  <2>5. packet[b].datagram \in Datagrams
    BY <1>5, <2>2 DEF Sound
  <2> QED
    BY <1>9, <2>1, <2>2, <2>3, <2>4, <2>5 DEF Sound
<1> QED
  BY <1>10, <1>12, <1>13, <1>15, <1>16 DEF IInv

-----------------------------------------------------------------------------
(***************************************************************************)
(* mainLoop and the handlers.                                              *)
(***************************************************************************)
LEMMA MainStep ==
  ASSUME IInv, ReceiveTick \/ ReceiveUpdate \/ UpdateTable
  PROVE  IInv'
<1> USE Nils
<1>1. Main \in Workers
  BY DEF Workers
<1>2. PICK pc \in {"idle", "update"} :
        /\ worker[Main].pc \in {"idle", "update"}
        /\ worker' = [worker EXCEPT ![Main].pc = pc] /\ mapLock' = mapLock
        /\ UNCHANGED <<packet, pool, reader, readChan, writeChan, writer>>
        /\ resolver' \in {"idle", "sending"}
  <2>1. resolver \in {"idle", "sending"}
    BY DEF IInv, TypeOK
  <2>2. CASE ReceiveTick
    BY <2>1, <2>2 DEF ReceiveTick, poolVars, loopVars, writeVars
  <2>3. CASE ReceiveUpdate
    BY <2>3 DEF ReceiveUpdate, poolVars, loopVars, writeVars
  <2>4. CASE UpdateTable
    BY <2>1, <2>4 DEF UpdateTable, poolVars, loopVars, writeVars
  <2> QED
    BY <2>2, <2>3, <2>4
<1>3. LockMoves(Main, pc) /\ worker[Main].buf = Nil /\ pc \in WorkerPCs
  BY <1>1, <1>2 DEF IInv, TypeOK, LockMoves, WorkerPCs
<1> QED
  BY Zenon, <1>1, <1>2, <1>3, PCStep

\* The resolver puts an update on its channel, and holds no buffer.
LEMMA ResolveStep ==
  ASSUME IInv, Resolve
  PROVE  IInv'
<1>1. /\ UNCHANGED <<packet, pool, reader, readChan, worker, mapLock, writeChan, writer>>
      /\ resolver' = "sending"
  BY DEF Resolve, poolVars, loopVars, writeVars
<1>2. TypeOK'
  BY Zenon, <1>1 DEF IInv, TypeOK
<1>3. Stays
  BY <1>1 DEF Stays, In
<1>4. Unique' /\ Lines'
  BY Zenon, <1>1, <1>3, Stay DEF IInv, Lines
<1>5. ASSUME NEW c \in Buffers PROVE Sound(c)'
  <2>1. (Filled(c)' <=> Filled(c)) /\ (Patched(c)' <=> Patched(c))
    BY <1>1 DEF Filled, Patched
  <2> QED
    BY <1>1, <2>1, SoundKept DEF IInv
<1> QED
  BY <1>2, <1>4, <1>5 DEF IInv

\* mapLock is taken, and the worker goes on with the same buffer.
LEMMA LockStep ==
  ASSUME IInv, NEW g \in Goroutines, Lock(g) \/ MeetConflict(g)
  PROVE  IInv'
<1> USE Nils
<1>1. g \in Workers /\ g # Main
  BY DEF Workers
<1>2. PICK pc \in {"locked", "spin"} :
        /\ worker[g].pc \in {"handle", "locked", "spin"}
        /\ worker' = [worker EXCEPT ![g].pc = pc] /\ LockMoves(g, pc)
        /\ UNCHANGED <<packet, pool, reader, readChan, writeChan, writer, resolver>>
  <2>1. CASE Lock(g)
    BY <1>1, <2>1 DEF Lock, LockMoves, poolVars, loopVars, writeVars
  <2>2. CASE MeetConflict(g)
    BY <1>1, <2>2 DEF MeetConflict, LockMoves, poolVars, loopVars, writeVars, IInv, TypeOK
  <2> QED
    BY <2>1, <2>2
<1>3. /\ worker[g].buf # Nil /\ pc \in WorkerPCs /\ resolver' \in {"idle", "sending"}
  BY <1>1, <1>2 DEF IInv, TypeOK, WorkerPCs
<1> QED
  BY Zenon, <1>1, <1>2, <1>3, PCStep

\* A handler decides what becomes of its packet.
LEMMA HandleStep ==
  ASSUME IInv, NEW w \in Workers, Reject(w) \/ Lookup(w) \/ Register(w)
  PROVE  IInv'
<1> USE Nils
<1>1. /\ worker[w].pc \in {"handle", "locked"}
      /\ UNCHANGED <<reader, readChan, writeChan, writer, resolver>>
      /\ \/ Drop(w)
         \/ Patch(w) /\ worker' = [worker EXCEPT ![w].pc = "send"] /\ pool' = pool
      /\ \/ worker[w].pc = "handle" /\ mapLock' = mapLock
         \/ worker[w].pc = "locked" /\ mapLock' = Nil
  <2>1. CASE Reject(w)
    BY <2>1, Zenon DEF Reject, loopVars, writeVars
  <2>2. CASE Lookup(w)
    BY <2>2, Zenon DEF Lookup, loopVars, writeVars
  <2>3. CASE Register(w)
    BY <2>3, Zenon DEF Register, Unlock, loopVars, writeVars
  <2> QED
    BY <2>1, <2>2, <2>3
<1>2. LockMoves(w, "idle") /\ LockMoves(w, "send")
  BY <1>1 DEF IInv, TypeOK, LockMoves
<1>3. CASE Drop(w)
  BY <1>1, <1>2, <1>3, DropStep
<1>4. CASE Patch(w) /\ worker' = [worker EXCEPT ![w].pc = "send"] /\ pool' = pool
  BY Zenon, <1>1, <1>2, <1>4, PatchStep
<1> QED
  BY <1>1, <1>3, <1>4

\* A handler hands its buffer to a write channel.
LEMMA SendStep ==
  ASSUME IInv, NEW w \in Workers, Send(w)
  PROVE  IInv'
<1> USE Nils
<1>1. PICK b, to : b = worker[w].buf /\ to = Opposite(worker[w].side)
  OBVIOUS
<1>2. /\ worker[w].pc = "send"
      /\ writeChan' = [writeChan EXCEPT ![to] = Append(writeChan[to], b)]
      /\ worker' = [worker EXCEPT ![w] = Idle]
      /\ UNCHANGED <<packet, pool, reader, readChan, mapLock, writer, resolver>>
  BY Zenon, <1>1 DEF Send, Deferred, poolVars, loopVars
<1>3. b \in Buffers /\ b # Nil /\ to \in Sides /\ writeChan[to] \in Seq(Buffers)
  BY Zenon, <1>1, <1>2 DEF IInv, TypeOK, Worker, Opposite, Sides
<1>4. /\ Unique /\ <<"worker", w>> \in Places /\ In(b, <<"worker", w>>)
      /\ <<"writeChan", to>> \in Places /\ b \notin Range(writeChan[to])
  BY Zenon, <1>1, <1>3, WorkerAlone, IsPlace
<1>5. Range(Append(writeChan[to], b)) = Range(writeChan[to]) \cup {b}
  BY <1>3, RangeAppend
<1>6. TypeOK'
  <2>1. writeChan' \in [Sides -> Seq(Buffers)]
    BY <1>2, <1>3 DEF IInv, TypeOK
  <2>2. Idle \in Worker /\ Idle.pc = "idle" /\ Idle.buf = Nil
    BY DEF Idle, Worker, Sides
  <2>3. LockMoves(w, "idle")
    BY Zenon, <1>2 DEF IInv, TypeOK, LockMoves
  <2>4. /\ worker' \in [Workers -> Worker] /\ mapLock' \in Workers \cup {Nil}
        /\ \A v \in Workers :
             /\ worker'[v].pc = "update" => v = Main
             /\ worker'[v].buf = Nil <=> worker'[v].pc \in {"idle", "update"}
             /\ worker'[v].pc \in {"locked", "spin"} <=> mapLock' = v
    BY Zenon, <1>2, <2>2, <2>3, WorkerTypes
  <2> QED
    BY Zenon, <1>2, <2>1, <2>4 DEF IInv, TypeOK
<1>7. Moves(b, <<"worker", w>>, <<"writeChan", to>>)
  BY <1>1, <1>2, <1>3, <1>5, PlaceType DEF IInv, TypeOK, In, Moves, Idle
<1>8. Unique'
  BY <1>3, <1>4, <1>7, Move, Zenon
<1>9. Lines'
  <2>1. Injective(Append(writeChan[to], b))
    BY Zenon, <1>3, <1>4, InjectiveAppend DEF IInv, Lines
  <2> QED
    BY Zenon, <1>2, <2>1 DEF IInv, TypeOK, Lines
<1>10. ASSUME NEW c \in Buffers PROVE Sound(c)'
  <2>1. Filled(c)' <=> Filled(c)
    BY <1>2 DEF Filled
  <2>2. ASSUME Patched(c) PROVE Patched(c)'
    <3>1. CASE c = b
      <4>1. b \in Range(writeChan'[to])
        BY Zenon, <1>2, <1>3, <1>5 DEF IInv, TypeOK
      <4> QED
        BY <1>3, <3>1, <4>1 DEF Patched
    <3>2. CASE c # b
      <4>1. \A v \in Workers : worker[v].buf = c => worker'[v] = worker[v]
        BY Zenon, <1>1, <1>2, <3>2 DEF IInv, TypeOK
      <4>2. \A s \in Sides : c \in Range(writeChan[s]) => c \in Range(writeChan'[s])
        BY Zenon, <1>2, <1>5 DEF IInv, TypeOK
      <4> QED
        BY Zenon, <1>2, <2>2, <4>1, <4>2 DEF Patched
    <3> QED
      BY <3>1, <3>2
  <2> QED
    BY <1>2, <2>1, <2>2, SoundKept DEF IInv
<1> QED
  BY <1>6, <1>8, <1>9, <1>10 DEF IInv

-----------------------------------------------------------------------------
(***************************************************************************)
(* writeLoop.                                                              *)
(***************************************************************************)
LEMMA TakeWriteStep ==
  ASSUME IInv, NEW s \in Sides, TakeWrite(s)
  PROVE  IInv'
<1> USE Nils
<1>1. PICK b : b = Head(writeChan[s])
  OBVIOUS
<1>2. /\ writer.buf = Nil /\ writeChan[s] # <<>>
      /\ writer' = [side |-> s, buf |-> b]
      /\ packet' = [packet EXCEPT ![b].flags = packet[b].flags \cup WriteFlags(s)]
      /\ writeChan' = [writeChan EXCEPT ![s] = Tail(writeChan[s])]
      /\ UNCHANGED <<pool, reader, readChan, worker, mapLock, resolver>>
  BY <1>1 DEF TakeWrite, WriteReady, loopVars
<1>3. /\ writeChan[s] \in Seq(Buffers) /\ Injective(writeChan[s])
      /\ Tail(writeChan[s]) \in Seq(Buffers)
  BY <1>2 DEF IInv, TypeOK, Lines
<1>4. /\ b \in Buffers /\ b \in Range(writeChan[s])
      /\ Range(Tail(writeChan[s])) = Range(writeChan[s]) \ {b}
  BY <1>1, <1>2, <1>3, RangeTail
<1>5. /\ Unique /\ <<"writeChan", s>> \in Places /\ <<"writer", Nil>> \in Places
      /\ In(b, <<"writeChan", s>>)
  BY Zenon, <1>4, IsPlace DEF IInv, In
<1>6. /\ packet \in [Buffers -> Packet] /\ packet[b] \in Packet /\ Sound(b)
  BY Zenon, <1>4 DEF IInv, TypeOK
<1>7. /\ packet'[b].datagram = packet[b].datagram /\ packet'[b].decided = packet[b].decided
      /\ packet'[b].flags = packet[b].flags \cup WriteFlags(s)
      /\ \A c \in Buffers \ {b} : packet'[c] = packet[c]
      /\ packet' \in [Buffers -> Packet]
  BY Zenon, <1>2, <1>4, <1>6 DEF Packet, Flags, WriteFlags
<1>8. TypeOK'
  <2>1. writeChan' \in [Sides -> Seq(Buffers)] /\ writer' \in Writer
    BY <1>2, <1>3, <1>4 DEF IInv, TypeOK, Writer
  <2> QED
    BY Zenon, <1>2, <1>7, <2>1 DEF IInv, TypeOK
<1>9. Moves(b, <<"writeChan", s>>, <<"writer", Nil>>)
  BY <1>2, <1>4, PlaceType DEF IInv, TypeOK, In, Moves
<1>10. Unique'
  BY <1>4, <1>5, <1>9, Move, Zenon
<1>11. Lines'
  <2>1. Injective(Tail(writeChan[s]))
    BY <1>2, <1>3, InjectiveTail
  <2> QED
    BY <1>2, <2>1 DEF IInv, TypeOK, Lines
<1>12. \A c \in Buffers : Filled(c)' <=> Filled(c)
  BY <1>2 DEF Filled
<1>13. ASSUME NEW c \in Buffers \ {b} PROVE Sound(c)'
  <2>1. ASSUME Patched(c) PROVE Patched(c)'
    BY Zenon, <1>2, <1>4, <2>1 DEF IInv, TypeOK, Patched
  <2>2. /\ writer' # [side |-> "server", buf |-> c]
        /\ writer # [side |-> "server", buf |-> c]
    BY <1>2
  <2> QED
    BY Zenon, <1>7, <1>12, <2>1, <2>2, SoundKept DEF IInv
<1>14. Sound(b)'
  <2>1. Patched(b)'
    BY <1>2 DEF Patched
  <2>2. Filled(b)
    <3>1. /\ <<"pool", Nil>> \in Places /\ <<"pool", Nil>> # <<"writeChan", s>>
          /\ \A t \in Sides : <<"reader", t>> \in Places /\ <<"reader", t>> # <<"writeChan", s>>
      BY Zenon, IsPlace
    <3>2. ~In(b, <<"pool", Nil>>) /\ \A t \in Sides : ~In(b, <<"reader", t>>)
      BY <1>4, <1>5, <3>1, NotIn, Zenon
    <3> QED
      BY Zenon, <3>2 DEF Filled, In
  <2>3. writer # [side |-> "server", buf |-> b]
    BY <1>2, <1>4
  <2>4. packet[b].flags =
          (IF packet[b].datagram.obfuscated THEN {Deobfuscated} ELSE {})
          \cup (IF packet[b].decided THEN {Obfuscate} ELSE {})
    BY Zenon, <1>6, <2>2, <2>3 DEF Sound
  <2>5. writer' = [side |-> "server", buf |-> b] <=> s = "server"
    BY <1>2
  <2>6. packet[b].datagram \in Datagrams
    BY Zenon, <1>6, <2>2 DEF Sound
  <2>7. packet'[b].flags =
          (IF packet[b].datagram.obfuscated THEN {Deobfuscated} ELSE {})
          \cup (IF packet[b].decided \/ (IsClient /\ s = "server") THEN {Obfuscate} ELSE {})
    BY Zenon, <1>7, <2>4 DEF WriteFlags
  <2> QED
    BY Zenon, <1>4, <1>7, <1>12, <2>1, <2>2, <2>5, <2>6, <2>7 DEF Sound
<1> QED
  BY <1>8, <1>10, <1>11, <1>13, <1>14 DEF IInv

\* The write loop sends a datagram and gives the buffer back.
LEMMA WriteToUDPStep ==
  ASSUME IInv, WriteToUDP
  PROVE  IInv'
<1> USE Nils
<1>1. PICK b : b = writer.buf
  OBVIOUS
<1>2. /\ RecyclePacket(b) /\ writer' = WriterSelect
      /\ UNCHANGED <<reader, readChan, worker, mapLock, writeChan, resolver>>
  BY <1>1 DEF WriteToUDP, loopVars
<1>3. b \in Buffers /\ b # Nil /\ writer'.buf = Nil /\ writer' \in Writer
  BY <1>1, <1>2 DEF IInv, TypeOK, Writer, WriteToUDP, WriterSelect, Sides
<1>4. /\ Unique /\ <<"writer", Nil>> \in Places /\ <<"pool", Nil>> \in Places
      /\ In(b, <<"writer", Nil>>)
  BY Zenon, <1>1, IsPlace DEF IInv, In
<1>5. /\ packet' \in [Buffers -> Packet] /\ pool' \subseteq Buffers
      /\ \A c \in Buffers : Sound(c)'
  <2>1. ASSUME NEW c \in Buffers \ {b}
        PROVE  /\ Patched(c) => Patched(c)'
               /\ writer' # [side |-> "server", buf |-> c]
               /\ writer # [side |-> "server", buf |-> c]
    BY <1>1, <1>2, <1>3 DEF Patched
  <2> QED
    BY Zenon, <1>2, <1>3, <2>1, RecycleSound
<1>6. TypeOK'
  BY Zenon, <1>2, <1>3, <1>5 DEF IInv, TypeOK
<1>7. Moves(b, <<"writer", Nil>>, <<"pool", Nil>>)
  BY <1>1, <1>2, <1>3, PlaceType DEF In, RecyclePacket, Moves
<1>8. Unique'
  BY <1>3, <1>4, <1>7, Move, Zenon
<1>9. Lines'
  BY Zenon, <1>2 DEF IInv, Lines
<1> QED
  BY <1>5, <1>6, <1>8, <1>9 DEF IInv

-----------------------------------------------------------------------------
(***************************************************************************)
(* The theorems.                                                           *)
(***************************************************************************)
LEMMA InitIInv == Init => IInv
<1> SUFFICES ASSUME Init PROVE IInv
  OBVIOUS
<1> USE Nils
<1>1. TypeOK
  BY DEF Init, TypeOK, Reader, Worker, Writer, WriterSelect, Idle, Cleared, Packet, Sides, Workers
<1>2. Unique
  <2>1. SUFFICES ASSUME NEW b \in Buffers
                 PROVE  /\ In(b, <<"pool", Nil>>)
                        /\ \A other \in Places : In(b, other) => other = <<"pool", Nil>>
    BY IsPlace DEF Unique
  <2>2. In(b, <<"pool", Nil>>)
    BY Zenon DEF Init, In
  <2>3. ASSUME NEW r \in Places, In(b, r) PROVE r = <<"pool", Nil>>
    BY <2>3, PlaceType DEF Init, In, WriterSelect, Idle, Range
  <2> QED
    BY <2>2, <2>3
<1>3. Lines
  BY DEF Init, Lines, Injective
<1>4. ASSUME NEW b \in Buffers PROVE Sound(b)
  <2>1. ~Filled(b) /\ packet[b] = Cleared /\ writer.buf = Nil
    BY Zenon DEF Init, Filled, WriterSelect
  <2>2. writer # [side |-> "server", buf |-> b]
    BY <2>1
  <2> QED
    BY <2>1, <2>2 DEF Sound, Cleared
<1> QED
  BY <1>1, <1>2, <1>3, <1>4 DEF IInv

\* Every step of the pipeline preserves the invariant.
LEMMA NextIInv == IInv /\ [Next]_vars => IInv'
<1> SUFFICES ASSUME IInv, [Next]_vars PROVE IInv'
  OBVIOUS
<1>1. ASSUME NEW s \in Sides, ObtainPacket(s) PROVE IInv'
  BY <1>1, ObtainPacketStep
<1>2. ASSUME NEW s \in Sides, ReadFromUDP(s) PROVE IInv'
  BY <1>2, ReadFromUDPStep
<1>3. ASSUME NEW s \in Sides, ReadError(s) PROVE IInv'
  BY <1>3, ReadErrorStep
<1>4. ASSUME NEW s \in Sides, SendRead(s) PROVE IInv'
  BY <1>4, SendReadStep
<1>5. ASSUME NEW s \in Sides, Receive(s) PROVE IInv'
  BY <1>5, ReceiveStep
<1>6. CASE ReceiveTick \/ ReceiveUpdate
  BY <1>6, MainStep
<1>7. CASE Resolve
  BY <1>7, ResolveStep
<1>8. ASSUME NEW w \in Workers, WorkerStep(w) PROVE IInv'
  <2>1. CASE Reject(w) \/ Lookup(w)
    BY <2>1, HandleStep
  <2>2. CASE Send(w)
    BY <2>2, SendStep
  <2>3. CASE w = Main /\ UpdateTable
    BY <2>3, MainStep
  <2>4. CASE w # Main /\ Lock(w)
    BY <2>4, LockStep DEF Workers
  <2>5. CASE Register(w)
    BY <2>5, HandleStep
  <2> QED
    BY <1>8, <2>1, <2>2, <2>3, <2>4, <2>5 DEF WorkerStep
<1>9. ASSUME NEW g \in Goroutines, MeetConflict(g) PROVE IInv'
  BY <1>9, LockStep
<1>10. ASSUME NEW s \in Sides, TakeWrite(s) PROVE IInv'
  BY <1>10, TakeWriteStep
<1>11. CASE WriteToUDP
  BY <1>11, WriteToUDPStep
<1>12. CASE UNCHANGED vars
  <2>1. UNCHANGED <<packet, pool, reader, readChan, worker, mapLock, writeChan, writer, resolver>>
    BY <1>12 DEF vars, poolVars, loopVars, writeVars
  <2>2. TypeOK' /\ Lines'
    BY Zenon, <2>1 DEF IInv, TypeOK, Lines
  <2>3. Stays
    BY <2>1 DEF Stays, In
  <2>4. Unique'
    BY <2>3, Stay DEF IInv
  <2>5. ASSUME NEW c \in Buffers PROVE Sound(c)'
    <3>1. (Filled(c)' <=> Filled(c)) /\ (Patched(c)' <=> Patched(c))
      BY <2>1 DEF Filled, Patched
    <3> QED
      BY <2>1, <3>1, SoundKept DEF IInv
  <2> QED
    BY <2>2, <2>4, <2>5 DEF IInv
<1> QED
  BY Zenon, <1>1, <1>2, <1>3, <1>4, <1>5, <1>6, <1>7, <1>8, <1>9, <1>10, <1>11, <1>12
     DEF Next, ReaderStep, WriterStep

\* The inductive invariant holds in every execution of the pipeline.
THEOREM PipelineInvariant == Spec => []IInv
BY InitIInv, NextIInv, PTL DEF Spec

\* Every variable of the pipeline has its type, for every number of buffers
\* and goroutines.
THEOREM PipelineTypeCorrect == Spec => []TypeOK
<1>1. IInv => TypeOK
  BY DEF IInv
<1> QED
  BY <1>1, PipelineInvariant, PTL

\* The read loops, mainLoop, the handlers and writeLoop pass packet buffers on
\* so that each is in exactly one place, and recycle each exactly once.
THEOREM BuffersHaveOneOwner == Spec => []OneOwner
<1>1. IInv => OneOwner
  BY Zenon DEF IInv, OneOwner, Unique, Lines
<1> QED
  BY <1>1, PipelineInvariant, PTL

\* A recycled buffer carries no flag over to the next datagram read into it.
THEOREM FlagsAreFresh == Spec => []FlagsFresh
<1>1. IInv => FlagsFresh
  BY Zenon DEF IInv, Sound, FlagsFresh
<1> QED
  BY <1>1, PipelineInvariant, PTL

-----------------------------------------------------------------------------
(***************************************************************************)
(* The order on the way to one side.                                       *)
(***************************************************************************)
\* Sending on a channel keeps the order in it, and the packet comes last.
LEMMA BeforeAppend ==
  ASSUME NEW S, NEW q \in Seq(S), NEW x \in S, NEW b, NEW c
  PROVE  /\ Before(q, b, c) => Before(Append(q, x), b, c)
         /\ b \in Range(q) => Before(Append(q, x), b, x)
<1>1. /\ Len(q) \in Nat /\ DOMAIN q = 1..Len(q)
      /\ DOMAIN Append(q, x) = 1..(Len(q) + 1)
      /\ \A k \in 1..Len(q) : Append(q, x)[k] = q[k]
      /\ Append(q, x)[Len(q) + 1] = x
  OBVIOUS
<1>2. ASSUME Before(q, b, c) PROVE Before(Append(q, x), b, c)
  <2>1. PICK k \in 1..Len(q), l \in 1..Len(q) : k < l /\ q[k] = b /\ q[l] = c
    BY <1>1, <1>2 DEF Before
  <2>. QED  BY <1>1, <2>1 DEF Before
<1>3. ASSUME b \in Range(q) PROVE Before(Append(q, x), b, x)
  <2>1. PICK k \in 1..Len(q) : q[k] = b
    BY <1>1, <1>3 DEF Range
  <2>. QED  BY <1>1, <2>1 DEF Before
<1>. QED  BY <1>2, <1>3

\* Receiving from a channel keeps the order of what stays in it.
LEMMA BeforeTail ==
  ASSUME NEW S, NEW q \in Seq(S), q # <<>>, NEW b, NEW c, Before(q, b, c)
  PROVE  /\ c \in Range(Tail(q))
         /\ b # Head(q) => Before(Tail(q), b, c)
<1>1. /\ Len(q) \in Nat \ {0} /\ DOMAIN q = 1..Len(q)
      /\ DOMAIN Tail(q) = 1..(Len(q) - 1)
      /\ \A k \in 1..(Len(q) - 1) : Tail(q)[k] = q[k + 1]
      /\ Head(q) = q[1]
  OBVIOUS
<1>2. PICK k \in 1..Len(q), l \in 1..Len(q) : k < l /\ q[k] = b /\ q[l] = c
  BY <1>1 DEF Before
<1>3. l - 1 \in 1..(Len(q) - 1) /\ Tail(q)[l - 1] = c
  BY <1>1, <1>2
<1>4. ASSUME b # Head(q) PROVE Before(Tail(q), b, c)
  <2>1. k - 1 \in 1..(Len(q) - 1) /\ Tail(q)[k - 1] = b /\ k - 1 < l - 1
    BY <1>1, <1>2, <1>4
  <2>. QED  BY <1>1, <1>3, <2>1 DEF Before
<1>5. c \in Range(Tail(q))
  BY Zenon, <1>1, <1>3 DEF Range
<1>. QED  BY <1>4, <1>5

\* writeLoop takes the first packet of writeChan.
LEMMA TakePrecedes ==
  ASSUME NEW S, NEW q \in Seq(S), q # <<>>, Injective(q), NEW h, NEW r, NEW e, NEW b, NEW c,
         Precedes({}, q, h, r, e, b, c)
  PROVE  Precedes({Head(q)}, Tail(q), h, r, e, b, c)
<1>1. Range(Tail(q)) = Range(q) \ {Head(q)}
  BY RangeTail
<1>2. Before(q, b, c) => c \in Range(Tail(q)) /\ (b # Head(q) => Before(Tail(q), b, c))
  BY BeforeTail
<1>. QED  BY <1>1, <1>2 DEF Precedes

\* mainLoop handles the first packet of readChan ...
LEMMA ReceivePrecedes ==
  ASSUME NEW S, NEW r \in Seq(S), r # <<>>, Injective(r), NEW w, NEW q, NEW e, NEW b, NEW c,
         Precedes(w, q, {}, r, e, b, c)
  PROVE  Precedes(w, q, {Head(r)}, Tail(r), e, b, c)
<1>1. Range(Tail(r)) = Range(r) \ {Head(r)}
  BY RangeTail
<1>2. Before(r, b, c) => c \in Range(Tail(r)) /\ (b # Head(r) => Before(Tail(r), b, c))
  BY BeforeTail
<1>. QED  BY <1>1, <1>2 DEF Precedes

\* ... or leaves it to a goroutine.
LEMMA SpawnPrecedes ==
  ASSUME NEW S, NEW r \in Seq(S), r # <<>>, Injective(r), NEW w, NEW q, NEW h, NEW e, NEW b, NEW c,
         Precedes(w, q, h, r, e, b, c), b # Head(r), c # Head(r)
  PROVE  Precedes(w, q, h, Tail(r), e, b, c)
<1>1. Range(Tail(r)) = Range(r) \ {Head(r)}
  BY RangeTail
<1>2. Before(r, b, c) => c \in Range(Tail(r)) /\ (b # Head(r) => Before(Tail(r), b, c))
  BY BeforeTail
<1>. QED  BY <1>1, <1>2 DEF Precedes

\* A packet joins writeChan: the one that mainLoop has in hand, or another.
LEMMA SendPrecedes ==
  ASSUME NEW S, NEW q \in Seq(S), NEW x \in S, NEW w, NEW h, NEW r, NEW e, NEW b, NEW c,
         Precedes(w, q, h, r, e, b, c)
  PROVE  /\ Precedes(w, Append(q, x), h, r, e, b, c)
         /\ h = {x} => Precedes(w, Append(q, x), {}, r, e, b, c)
<1>1. Range(Append(q, x)) = Range(q) \cup {x}
  BY RangeAppend
<1>2. /\ Before(q, b, c) => Before(Append(q, x), b, c)
      /\ b \in Range(q) => Before(Append(q, x), b, x)
  BY BeforeAppend
<1>. QED  BY <1>1, <1>2 DEF Precedes

\* The reader sends what it has read.
LEMMA SendReadPrecedes ==
  ASSUME NEW S, NEW r \in Seq(S), NEW x \in S, NEW w, NEW q, NEW h, NEW b, NEW c,
         Precedes(w, q, h, r, {x}, b, c)
  PROVE  Precedes(w, q, h, Append(r, x), {}, b, c)
<1>1. Range(Append(r, x)) = Range(r) \cup {x}
  BY RangeAppend
<1>2. /\ Before(r, b, c) => Before(Append(r, x), b, c)
      /\ b \in Range(r) => Before(Append(r, x), b, x)
  BY BeforeAppend
<1>. QED  BY <1>1, <1>2 DEF Precedes

\* A packet goes out of hand: the order of the others stays.
LEMMA DropPrecedes ==
  ASSUME NEW x, NEW w, NEW q, NEW h, NEW r, NEW e, NEW b, NEW c,
         Precedes(w, q, h, r, e, b, c), b # x, c # x
  PROVE  /\ Precedes(w, q, h \ {x}, r, e, b, c)
         /\ Precedes(w \ {x}, q, h, r, e, b, c)
BY DEF Precedes

-----------------------------------------------------------------------------
(***************************************************************************)
(* Who has the packets on the way.                                         *)
(***************************************************************************)
\* A packet on its way is with no handler goroutine, is not in the pool, and
\* no reader reads into it.
OnWayAlone ==
  \A s \in Sides : \A b \in OnWay(s) :
    /\ b \in Buffers /\ b \notin pool
    /\ \A t \in Sides : reader[t].pc = "read" => reader[t].buf # b
    /\ \A g \in Goroutines : worker[g].buf # b

\* The stages are places.
LEMMA OnWayPlace ==
  ASSUME IInv, NEW s \in Sides, NEW b \in OnWay(s)
  PROVE  /\ b \in Buffers
         /\ \/ In(b, <<"writer", Nil>>) \/ In(b, <<"writeChan", s>>) \/ In(b, <<"worker", Main>>)
            \/ In(b, <<"readChan", Opposite(s)>>)
            \/ In(b, <<"reader", Opposite(s)>>) /\ reader[Opposite(s)].pc = "send"
<1>1. Opposite(s) \in Sides
  BY DEF Opposite, Sides
<1>2. CASE b \in Writing(s)
  BY <1>2 DEF Writing, In
<1>3. CASE b \in Range(writeChan[s])
  <2>1. writeChan[s] \in Seq(Buffers)
    BY Zenon DEF IInv, TypeOK
  <2>. QED  BY <1>3, <2>1 DEF Range, In
<1>4. CASE b \in InHand(s)
  BY <1>4 DEF InHand, In
<1>5. CASE b \in Range(readChan[Opposite(s)])
  <2>1. readChan[Opposite(s)] \in Seq(Buffers)
    BY Zenon, <1>1 DEF IInv, TypeOK
  <2>. QED  BY <1>5, <2>1 DEF Range, In
<1>6. CASE b \in Reading(s)
  BY <1>6 DEF Reading, In
<1>. QED  BY Zenon, <1>2, <1>3, <1>4, <1>5, <1>6 DEF OnWay

\* Single ownership gives this.
LEMMA OnWayIsAlone == IInv => OnWayAlone
<1>. SUFFICES ASSUME IInv, NEW s \in Sides, NEW b \in OnWay(s)
              PROVE  /\ b \in Buffers /\ b \notin pool
                     /\ \A t \in Sides : reader[t].pc = "read" => reader[t].buf # b
                     /\ \A g \in Goroutines : worker[g].buf # b
  BY Zenon DEF OnWayAlone
<1>1. Opposite(s) \in Sides /\ Main \in Workers /\ Main \notin Goroutines
      /\ Goroutines \subseteq Workers
  BY Nils DEF Opposite, Sides, Workers
<1>2. PICK p \in {<<"writer", Nil>>, <<"writeChan", s>>, <<"worker", Main>>,
                  <<"readChan", Opposite(s)>>, <<"reader", Opposite(s)>>} :
        /\ b \in Buffers /\ In(b, p) /\ p \in Places
        /\ p[1] = "reader" => reader[Opposite(s)].pc = "send"
  BY <1>1, OnWayPlace, IsPlace
<1>3. Unique
  BY Zenon DEF IInv
<1>4. b \notin pool
  <2>1. <<"pool", Nil>> \in Places /\ <<"pool", Nil>> # p
    BY IsPlace
  <2>2. ~In(b, <<"pool", Nil>>)
    BY Zenon, <1>2, <1>3, <2>1, NotIn
  <2>. QED  BY <2>2 DEF In
<1>5. ASSUME NEW t \in Sides, reader[t].pc = "read" PROVE reader[t].buf # b
  <2>1. <<"reader", t>> \in Places /\ <<"reader", t>> # p
    <3>1. ASSUME p = <<"reader", t>> PROVE t = Opposite(s) /\ p[1] = "reader"
      BY <3>1
    <3>. QED  BY Zenon, <1>2, <1>5, <3>1, IsPlace
  <2>2. ~In(b, <<"reader", t>>)
    BY Zenon, <1>2, <1>3, <2>1, NotIn
  <2>. QED  BY <2>2 DEF In
<1>6. ASSUME NEW g \in Goroutines PROVE worker[g].buf # b
  <2>1. <<"worker", g>> \in Places /\ <<"worker", g>> # p
    BY <1>1, IsPlace
  <2>2. ~In(b, <<"worker", g>>)
    BY Zenon, <1>2, <1>3, <2>1, NotIn
  <2>. QED  BY <2>2 DEF In
<1>. QED  BY Zenon, <1>2, <1>4, <1>5, <1>6

\* The same after a step.
LEMMA OnWayIsAloneNext == IInv' => OnWayAlone'
BY OnWayIsAlone, PTL

\* Only reading a datagram and recycling a packet change what a buffer holds.
LEMMA DatagramKept ==
  ASSUME IInv, [Next]_vars, NEW b \in Buffers
  PROVE  \/ packet'[b].datagram = packet[b].datagram
         \/ b \in pool'
         \/ \E t \in Sides : reader[t].pc = "read" /\ reader[t].buf = b
<1>1. packet \in [Buffers -> Packet] /\ pool \subseteq Buffers
  BY Zenon DEF IInv, TypeOK
<1>2. ASSUME NEW x, RecyclePacket(x)
      PROVE  packet'[b].datagram = packet[b].datagram \/ b \in pool'
  BY Zenon, <1>1, <1>2 DEF RecyclePacket
<1>3. ASSUME NEW t \in Sides, ReadFromUDP(t)
      PROVE  \/ packet'[b].datagram = packet[b].datagram
             \/ reader[t].pc = "read" /\ reader[t].buf = b
  BY <1>1, <1>3 DEF ReadFromUDP
<1>4. ASSUME NEW w, Patch(w) PROVE packet'[b].datagram = packet[b].datagram
  BY <1>1, <1>4 DEF Patch, Decide, Packet
<1>5. ASSUME NEW t \in Sides, TakeWrite(t) PROVE packet'[b].datagram = packet[b].datagram
  BY <1>1, <1>5 DEF TakeWrite, Packet
<1>6. ASSUME NEW w \in Workers, Reject(w) \/ Lookup(w) \/ Register(w)
      PROVE  (\E x : RecyclePacket(x)) \/ Patch(w)
  BY Zenon, <1>6 DEF Reject, Lookup, Register, Drop, Deferred
<1>7. ASSUME NEW w \in Workers, Send(w) PROVE packet' = packet
  BY Zenon, <1>7 DEF Send, Deferred, poolVars
<1>8. ASSUME \/ \E s \in Sides : ObtainPacket(s) \/ SendRead(s) \/ Receive(s)
             \/ ReceiveTick \/ ReceiveUpdate \/ Resolve \/ UpdateTable \/ UNCHANGED vars
             \/ \E g \in Workers : Lock(g) \/ MeetConflict(g)
      PROVE  packet' = packet
  BY Zenon, <1>8 DEF ObtainPacket, SendRead, Receive, ReceiveTick, ReceiveUpdate, Resolve,
     UpdateTable, Lock, MeetConflict, vars, poolVars
<1>9. ASSUME NEW t \in Sides, ReadError(t) PROVE \E x : RecyclePacket(x)
  BY Zenon, <1>9 DEF ReadError
<1>10. CASE WriteToUDP
  BY Zenon, <1>2, <1>10 DEF WriteToUDP
<1>11. ASSUME NEW w \in Workers, WorkerStep(w)
       PROVE  packet'[b].datagram = packet[b].datagram \/ b \in pool'
  BY Zenon, <1>2, <1>4, <1>6, <1>7, <1>8, <1>11 DEF WorkerStep
<1>. QED
  BY Zenon, <1>2, <1>3, <1>5, <1>8, <1>9, <1>10, <1>11 DEF Next, ReaderStep, WriterStep, Workers

-----------------------------------------------------------------------------
(***************************************************************************)
(* Transport packets stay with mainLoop.                                   *)
(***************************************************************************)
\* mainLoop handles a transport packet itself (wgit.go:225).
Inlined == \A g \in Goroutines : worker[g].buf # Nil => ~IsTransport(worker[g].buf)

\* The packet of a handler goroutine is in no pool, and nothing is read into
\* it.
HandlersAlone ==
  \A g \in Goroutines : worker[g].buf # Nil =>
    /\ worker[g].buf \in Buffers \ pool
    /\ \A t \in Sides : reader[t].buf # worker[g].buf

\* So does this follow from it.
LEMMA HandlersAreAlone == IInv => HandlersAlone
<1>. SUFFICES ASSUME IInv, NEW g \in Goroutines, worker[g].buf # Nil
              PROVE  /\ worker[g].buf \in Buffers \ pool
                     /\ \A t \in Sides : reader[t].buf # worker[g].buf
  BY Zenon DEF HandlersAlone
<1>1. g \in Workers
  BY DEF Workers
<1>2. worker[g].buf \in Buffers
  BY Zenon, <1>1 DEF IInv, TypeOK, Worker
<1>. QED  BY Zenon, <1>1, <1>2, WorkerAlone

\* The same after a step.
LEMMA HandlersAreAloneNext == IInv' => HandlersAlone'
BY HandlersAreAlone, PTL

\* A handler goroutine gets its packet from Receive.
LEMMA HandlerBuffer ==
  ASSUME IInv, [Next]_vars, NEW g \in Goroutines
  PROVE  \/ worker'[g].buf \in {worker[g].buf, Nil}
         \/ ~packet'[worker'[g].buf].datagram.transport
<1>1. worker \in [Workers -> Worker] /\ g \in Workers /\ g # Main
  BY Nils DEF IInv, TypeOK, Workers
<1>2. ASSUME NEW t \in Sides, Receive(t)
      PROVE  worker'[g].buf = worker[g].buf \/ ~packet'[worker'[g].buf].datagram.transport
  <2>1. PICK w \in IF Inline(packet[Head(readChan[t])]) THEN {Main} ELSE Goroutines :
          worker' = [worker EXCEPT ![w] = [pc |-> "handle", side |-> t, buf |-> Head(readChan[t])]]
    BY Zenon, <1>2 DEF Receive
  <2>2. packet' = packet
    BY Zenon, <1>2 DEF Receive, poolVars
  <2>3. CASE w = g
    <3>1. ~Inline(packet[Head(readChan[t])])
      BY Zenon, <1>1, <2>3
    <3>2. worker'[g].buf = Head(readChan[t])
      BY <1>1, <2>1, <2>3
    <3>. QED  BY Zenon, <2>2, <3>1, <3>2 DEF Inline
  <2>4. CASE w # g
    BY Zenon, <1>1, <2>1, <2>4
  <2>. QED  BY <2>3, <2>4
<1>3. ASSUME NEW w, NEW pc, worker' = [worker EXCEPT ![w].pc = pc]
      PROVE  worker'[g].buf = worker[g].buf
  BY <1>1, <1>3 DEF Worker
<1>4. ASSUME NEW w, worker' = [worker EXCEPT ![w] = Idle]
      PROVE  worker'[g].buf \in {worker[g].buf, Nil}
  BY <1>1, <1>4 DEF Idle
<1>5. ASSUME NEW w, Reject(w) \/ Lookup(w) \/ Register(w) \/ Send(w) \/ Lock(w) \/ MeetConflict(w)
      PROVE  worker'[g].buf \in {worker[g].buf, Nil}
  BY Zenon, <1>3, <1>4, <1>5 DEF Reject, Lookup, Register, Send, Lock, MeetConflict, Drop
<1>6. ASSUME ReceiveTick \/ ReceiveUpdate \/ UpdateTable
      PROVE  worker'[g].buf = worker[g].buf
  BY Zenon, <1>3, <1>6 DEF ReceiveTick, ReceiveUpdate, UpdateTable
<1>7. ASSUME \/ \E t \in Sides : ReaderStep(t) \/ ReadFromUDP(t) \/ ReadError(t)
             \/ Resolve \/ WriterStep \/ UNCHANGED vars
      PROVE  worker' = worker
  BY Zenon, <1>7 DEF ReaderStep, ObtainPacket, SendRead, ReadFromUDP, ReadError, Resolve,
     WriterStep, TakeWrite, WriteToUDP, vars
<1>8. ASSUME NEW w \in Workers, WorkerStep(w) PROVE worker'[g].buf \in {worker[g].buf, Nil}
  BY Zenon, <1>5, <1>6, <1>8 DEF WorkerStep
<1>. QED  BY Zenon, <1>2, <1>5, <1>6, <1>7, <1>8 DEF Next

\* No step gives a transport packet to a handler goroutine.
LEMMA NextInlined ==
  ASSUME IInv, IInv', Inlined, [Next]_vars
  PROVE  Inlined'
<1>. SUFFICES ASSUME NEW g \in Goroutines, worker'[g].buf # Nil
              PROVE  ~packet'[worker'[g].buf].datagram.transport
  BY Zenon DEF Inlined, IsTransport
<1>1. CASE worker'[g].buf = worker[g].buf
  <2>1. ~IsTransport(worker[g].buf)
    BY Zenon, <1>1 DEF Inlined
  <2>2. /\ worker[g].buf \in Buffers /\ worker[g].buf \notin pool'
        /\ \A t \in Sides : reader[t].buf # worker[g].buf
    BY Zenon, <1>1, HandlersAreAlone, HandlersAreAloneNext DEF HandlersAlone
  <2>3. packet'[worker[g].buf].datagram = packet[worker[g].buf].datagram
    BY Zenon, <2>2, DatagramKept
  <2>. QED  BY Zenon, <1>1, <2>1, <2>3 DEF IsTransport
<1>. QED  BY Zenon, <1>1, HandlerBuffer

-----------------------------------------------------------------------------
(***************************************************************************)
(* Steps and the order.                                                    *)
(***************************************************************************)
\* What KeepsOrder says of the order on the way to s.
Ordered(s) ==
  \A b \in OnWay(s) \cap OnWay(s)' : \A c \in OnWay(s)' \ {b} :
    IsTransport(b)' /\ IsTransport(c)' /\ (c \in OnWay(s) => Ahead(s, b, c)) => Ahead(s, b, c)'

\* A packet read on one side leaves on the other.
LEMMA Opposites ==
  ASSUME NEW s \in Sides
  PROVE  /\ Opposite(s) \in Sides /\ Opposite(s) # s /\ Opposite(Opposite(s)) = s
         /\ \A t \in Sides : t # s => t = Opposite(s)
BY DEF Opposite, Sides

\* A step that lets nothing in and keeps the order of what stays.
LEMMA NothingNew ==
  ASSUME NEW s, OnWay(s)' \subseteq OnWay(s),
         \A b, c \in OnWay(s)' : Ahead(s, b, c) => Ahead(s, b, c)'
  PROVE  Ordered(s)
BY Zenon DEF Ordered

\* A step that moves no packet on the way to s.
LEMMA QuietOrder ==
  ASSUME NEW s \in Sides, Writing(s)' = Writing(s), writeChan'[s] = writeChan[s],
         InHand(s)' = InHand(s), readChan'[Opposite(s)] = readChan[Opposite(s)],
         Reading(s)' = Reading(s)
  PROVE  Ordered(s)
<1>1. OnWay(s)' = OnWay(s)
  BY Zenon DEF OnWay
<1>2. ASSUME NEW b, NEW c PROVE Ahead(s, b, c)' <=> Ahead(s, b, c)
  BY Zenon DEF Ahead
<1>. QED  BY Zenon, <1>1, <1>2, NothingNew

\* What is in hand and what is being written depend on mainLoop and the write
\* loop only.
LEMMA StagesKept ==
  ASSUME NEW s \in Sides
  PROVE  /\ worker'[Main].buf = worker[Main].buf /\ worker'[Main].side = worker[Main].side
              => InHand(s)' = InHand(s)
         /\ writer' = writer => Writing(s)' = Writing(s)
         /\ reader'[Opposite(s)] = reader[Opposite(s)] => Reading(s)' = Reading(s)
         /\ reader[Opposite(s)].pc # "send" => Reading(s) = {}
         /\ reader'[Opposite(s)].pc # "send" => Reading(s)' = {}
<1>1. worker'[Main].buf = worker[Main].buf /\ worker'[Main].side = worker[Main].side
        => InHand(s)' = InHand(s)
  BY Zenon DEF InHand
<1>2. writer' = writer => Writing(s)' = Writing(s)
  BY Zenon DEF Writing
<1>3. reader'[Opposite(s)] = reader[Opposite(s)] => Reading(s)' = Reading(s)
  BY Zenon DEF Reading
<1>4. reader[Opposite(s)].pc # "send" => Reading(s) = {}
  BY DEF Reading
<1>5. reader'[Opposite(s)].pc # "send" => Reading(s)' = {}
  BY DEF Reading
<1>. QED  BY <1>1, <1>2, <1>3, <1>4, <1>5

\* A step of mainLoop or a handler that leaves mainLoop's packet with it.
LEMMA MainKeeps ==
  ASSUME NEW s \in Sides, UNCHANGED <<reader, readChan, writeChan, writer>>,
         worker'[Main].buf = worker[Main].buf, worker'[Main].side = worker[Main].side
  PROVE  Ordered(s)
BY Zenon, StagesKept, QuietOrder

\* A reader that obtains a packet or fails to read one.
LEMMA ReaderOrder ==
  ASSUME IInv, NEW t \in Sides, ObtainPacket(t) \/ ReadError(t), NEW s \in Sides
  PROVE  Ordered(s)
<1>1. /\ UNCHANGED <<readChan, worker, writeChan, writer>>
      /\ reader[t].pc # "send" /\ reader'[t].pc # "send"
      /\ \A u \in Sides : u # t => reader'[u] = reader[u]
  BY DEF ObtainPacket, ReadError, writeVars, IInv, TypeOK
<1>2. Reading(s)' = Reading(s)
  BY Zenon, <1>1, Opposites, StagesKept
<1>. QED  BY Zenon, <1>1, <1>2, StagesKept, QuietOrder

\* The datagram that is read comes after all others.
LEMMA ReadOrder ==
  ASSUME IInv, NEW t \in Sides, ReadFromUDP(t), NEW s \in Sides
  PROVE  Ordered(s)
<1>1. /\ UNCHANGED <<readChan, worker, writeChan, writer>> /\ reader[t].pc = "read"
      /\ reader'[t].pc = "send" /\ reader'[t].buf = reader[t].buf
      /\ \A u \in Sides : u # t => reader'[u] = reader[u]
  BY DEF ReadFromUDP, writeVars, IInv, TypeOK, Reader
<1>2. CASE Opposite(s) # t
  <2>1. /\ reader'[Opposite(s)] = reader[Opposite(s)]
        /\ readChan'[Opposite(s)] = readChan[Opposite(s)]
    BY Zenon, <1>1, <1>2, Opposites
  <2>2. Writing(s)' = Writing(s) /\ InHand(s)' = InHand(s) /\ Reading(s)' = Reading(s)
    BY Zenon, <1>1, <2>1, StagesKept
  <2>. QED  BY Zenon, <1>1, <2>1, <2>2, QuietOrder
<1>3. CASE Opposite(s) = t
  <2>1. Reading(s) = {} /\ Writing(s)' = Writing(s) /\ InHand(s)' = InHand(s)
    BY <1>1, <1>3, StagesKept
  <2>2. ASSUME NEW b \in OnWay(s), NEW c \in OnWay(s)', c \in OnWay(s) => Ahead(s, b, c)
        PROVE  Ahead(s, b, c)'
    <3>1. CASE c \in Reading(s)'
      <4>1. b \in Writing(s) \cup Range(writeChan[s]) \cup InHand(s)
                 \cup Range(readChan[Opposite(s)])
        BY <2>1 DEF OnWay
      <4>. QED  BY <1>1, <2>1, <3>1, <4>1 DEF Ahead, Precedes
    <3>2. CASE c \notin Reading(s)'
      <4>1. c \in OnWay(s)
        BY <1>1, <2>1, <3>2 DEF OnWay
      <4>2. Precedes(Writing(s), writeChan[s], InHand(s), readChan[Opposite(s)], {}, b, c)
        BY Zenon, <2>1, <2>2, <4>1 DEF Ahead
      <4>. QED  BY <1>1, <2>1, <4>2 DEF Ahead, Precedes
    <3>. QED  BY <3>1, <3>2
  <2>. QED  BY Zenon, <2>2 DEF Ordered
<1>. QED  BY <1>2, <1>3

\* The reader's packet goes to the end of readChan.
LEMMA SendReadOrder ==
  ASSUME IInv, NEW t \in Sides, SendRead(t), NEW s \in Sides
  PROVE  Ordered(s)
<1>. DEFINE x == reader[t].buf
<1>1. /\ UNCHANGED <<worker, writeChan, writer>> /\ reader[t] = [pc |-> "send", buf |-> x]
      /\ reader'[t].pc # "send" /\ readChan'[t] = Append(readChan[t], x)
      /\ \A u \in Sides : u # t => reader'[u] = reader[u] /\ readChan'[u] = readChan[u]
      /\ x \in Buffers /\ readChan[t] \in Seq(Buffers)
  BY Nils DEF SendRead, writeVars, IInv, TypeOK, Reader
<1>. HIDE DEF x
<1>2. CASE Opposite(s) # t
  <2>1. /\ reader'[Opposite(s)] = reader[Opposite(s)]
        /\ readChan'[Opposite(s)] = readChan[Opposite(s)]
    BY Zenon, <1>1, <1>2, Opposites
  <2>2. Writing(s)' = Writing(s) /\ InHand(s)' = InHand(s) /\ Reading(s)' = Reading(s)
    BY Zenon, <1>1, <2>1, StagesKept
  <2>. QED  BY Zenon, <1>1, <2>1, <2>2, QuietOrder
<1>3. CASE Opposite(s) = t
  <2>1. /\ Reading(s) = {x} /\ Reading(s)' = {}
        /\ Writing(s)' = Writing(s) /\ InHand(s)' = InHand(s)
    <3>1. Reading(s) = {x}
      BY <1>1, <1>3 DEF Reading
    <3>2. Reading(s)' = {}
      BY Zenon, <1>1, <1>3, StagesKept
    <3>. QED  BY Zenon, <1>1, <3>1, <3>2, StagesKept
  <2>2. Range(Append(readChan[t], x)) = Range(readChan[t]) \cup {x}
    BY <1>1, RangeAppend
  <2>3. OnWay(s)' \subseteq OnWay(s)
    BY <1>1, <1>3, <2>1, <2>2 DEF OnWay
  <2>4. ASSUME NEW b, NEW c, Ahead(s, b, c) PROVE Ahead(s, b, c)'
    <3>1. Precedes(Writing(s), writeChan[s], InHand(s), readChan[t], {x}, b, c)
      BY Zenon, <1>3, <2>1, <2>4 DEF Ahead
    <3>2. Precedes(Writing(s), writeChan[s], InHand(s), Append(readChan[t], x), {}, b, c)
      BY Zenon, <1>1, <3>1, SendReadPrecedes
    <3>. QED  BY Zenon, <1>1, <1>3, <2>1, <3>2 DEF Ahead
  <2>. QED  BY Zenon, <2>3, <2>4, NothingNew
<1>. QED  BY <1>2, <1>3

\* The first packet of readChan goes to mainLoop or to a goroutine.
LEMMA ReceiveOrder ==
  ASSUME IInv, IInv', NEW t \in Sides, Receive(t), NEW s \in Sides
  PROVE  Ordered(s)
<1>. DEFINE x == Head(readChan[t])
<1>1. /\ UNCHANGED <<reader, writeChan, writer>> /\ worker[Main].pc = "idle" /\ readChan[t] # <<>>
      /\ readChan' = [readChan EXCEPT ![t] = Tail(readChan[t])]
  BY Zenon DEF Receive, writeVars
<1>2. PICK w \in Workers : worker' = [worker EXCEPT ![w] = [pc |-> "handle", side |-> t, buf |-> x]]
  BY Zenon DEF Receive, Workers
<1>3. /\ worker \in [Workers -> Worker] /\ Main \in Workers /\ worker[Main].buf = Nil
      /\ readChan \in [Sides -> Seq(Buffers)] /\ Nil \notin Buffers
  BY Zenon, <1>1, Nils DEF IInv, TypeOK, Workers
<1>4. readChan[t] \in Seq(Buffers) /\ Injective(readChan[t]) /\ readChan'[t] = Tail(readChan[t])
  BY Zenon, <1>1, <1>3 DEF IInv, Lines
<1>5. /\ x \in Buffers /\ x \in Range(readChan[t])
      /\ Range(Tail(readChan[t])) = Range(readChan[t]) \ {x}
  BY <1>1, <1>4, RangeTail
<1>6. InHand(s) = {} /\ Writing(s)' = Writing(s) /\ Reading(s)' = Reading(s)
  <2>1. InHand(s) = {}
    BY Zenon, <1>3 DEF InHand
  <2>. QED  BY Zenon, <1>1, <2>1, StagesKept
<1>7. CASE Opposite(s) # t
  <2>1. InHand(s)' = {}
    BY <1>2, <1>3, <1>7 DEF InHand
  <2>. QED  BY Zenon, <1>1, <1>3, <1>6, <1>7, <2>1, Opposites, QuietOrder
<1>8. CASE Opposite(s) = t /\ w = Main
  <2>1. InHand(s)' = {x}
    BY <1>2, <1>3, <1>5, <1>8 DEF InHand
  <2>. HIDE DEF x
  <2>2. OnWay(s)' \subseteq OnWay(s)
    BY <1>1, <1>4, <1>5, <1>6, <1>8, <2>1 DEF OnWay
  <2>3. ASSUME NEW b, NEW c, Ahead(s, b, c) PROVE Ahead(s, b, c)'
    <3>1. Precedes(Writing(s), writeChan[s], {}, readChan[t], Reading(s), b, c)
      BY Zenon, <1>6, <1>8, <2>3 DEF Ahead
    <3>2. Precedes(Writing(s), writeChan[s], {x}, Tail(readChan[t]), Reading(s), b, c)
      BY Zenon, <1>1, <1>4, <3>1, ReceivePrecedes DEF x
    <3>. QED  BY Zenon, <1>1, <1>4, <1>6, <1>8, <2>1, <3>2 DEF Ahead
  <2>. QED  BY Zenon, <2>2, <2>3, NothingNew
<1>9. CASE Opposite(s) = t /\ w # Main
  <2>1. InHand(s)' = {} /\ worker'[w].buf = x /\ w \in Goroutines
    <3>1. worker'[Main] = worker[Main] /\ worker'[w].buf = x
      BY Zenon, <1>2, <1>3, <1>9
    <3>. QED  BY Zenon, <1>3, <1>6, <1>9, <3>1, StagesKept DEF Workers
  <2>2. x \notin OnWay(s)'
    BY Zenon, <2>1, OnWayIsAloneNext DEF OnWayAlone
  <2>. HIDE DEF x
  <2>3. OnWay(s)' \subseteq OnWay(s)
    BY <1>1, <1>4, <1>5, <1>6, <1>9, <2>1 DEF OnWay
  <2>4. ASSUME NEW b \in OnWay(s)', NEW c \in OnWay(s)', Ahead(s, b, c) PROVE Ahead(s, b, c)'
    BY Zenon, <1>1, <1>4, <1>6, <1>9, <2>1, <2>2, <2>4, SpawnPrecedes DEF Ahead, x
  <2>. QED  BY Zenon, <2>3, <2>4, NothingNew
<1>. QED  BY <1>7, <1>8, <1>9

\* The packet of mainLoop goes to the end of writeChan, and so may that of a
\* goroutine, which is no transport packet.
LEMMA SendOrder ==
  ASSUME IInv, Inlined, NEW w \in Workers, Send(w), NEW s \in Sides
  PROVE  Ordered(s)
<1>p. PICK x, to : x = worker[w].buf /\ to = Opposite(worker[w].side)
  OBVIOUS
<1>1. /\ UNCHANGED <<packet, reader, readChan, writer>> /\ worker[w].pc = "send"
      /\ worker' = [worker EXCEPT ![w] = Idle]
      /\ writeChan' = [writeChan EXCEPT ![to] = Append(writeChan[to], x)]
  BY Zenon, <1>p DEF Send, Deferred, poolVars, loopVars
<1>2. /\ worker \in [Workers -> Worker] /\ Main \in Workers /\ Nil \notin Buffers
      /\ writeChan \in [Sides -> Seq(Buffers)] /\ worker[w].side \in Sides /\ x \in Buffers
  BY Zenon, <1>p, <1>1, Nils DEF IInv, TypeOK, Worker, Workers
<1>3. to \in Sides /\ worker[w].side = Opposite(to)
  BY Zenon, <1>p, <1>2, Opposites
<1>4. Writing(s)' = Writing(s) /\ Reading(s)' = Reading(s)
  BY Zenon, <1>1, StagesKept
<1>5. w # Main => InHand(s)' = InHand(s) /\ ~IsTransport(x)
  <2>1. w # Main => worker'[Main] = worker[Main] /\ w \in Goroutines /\ x # Nil
    BY Zenon, <1>1, <1>2 DEF Workers
  <2>. QED  BY Zenon, <1>p, <2>1, StagesKept DEF Inlined
<1>6. w = Main => InHand(s)' = {} /\ InHand(s) = IF s = to THEN {x} ELSE {}
  <2>1. w = Main => worker'[Main].buf = Nil
    BY Zenon, <1>1, <1>2 DEF Idle
  <2>2. w = Main => InHand(s)' = {}
    BY Zenon, <1>2, <2>1 DEF InHand
  <2>3. worker[w].side = Opposite(s) <=> s = to
    BY Zenon, <1>p, <1>2, Opposites
  <2>. QED  BY <1>p, <1>2, <2>2, <2>3 DEF InHand
<1>7. CASE s # to
  BY Zenon, <1>1, <1>2, <1>3, <1>4, <1>5, <1>6, <1>7, QuietOrder
<1>8. CASE s = to
  <2>1. writeChan'[s] = Append(writeChan[s], x) /\ writeChan[s] \in Seq(Buffers)
    BY Zenon, <1>1, <1>2, <1>8
  <2>2. Range(Append(writeChan[s], x)) = Range(writeChan[s]) \cup {x}
    BY <1>2, <2>1, RangeAppend
  <2>3. ASSUME NEW b, NEW c, Ahead(s, b, c) PROVE Ahead(s, b, c)'
    <3>1. /\ Precedes(Writing(s), Append(writeChan[s], x), InHand(s), readChan[Opposite(s)],
                      Reading(s), b, c)
          /\ InHand(s) = {x} => Precedes(Writing(s), Append(writeChan[s], x), {},
                                         readChan[Opposite(s)], Reading(s), b, c)
      BY Zenon, <1>2, <2>1, <2>3, SendPrecedes DEF Ahead
    <3>. QED  BY Zenon, <1>1, <1>4, <1>5, <1>6, <1>8, <2>1, <3>1 DEF Ahead
  <2>4. OnWay(s)' \subseteq OnWay(s) \cup {x}
    BY <1>1, <1>4, <1>5, <1>6, <1>8, <2>1, <2>2 DEF OnWay
  <2>5. w = Main => x \in OnWay(s)
    BY <1>6, <1>8 DEF OnWay
  <2>6. IsTransport(x)' <=> IsTransport(x)
    BY Zenon, <1>1 DEF IsTransport
  <2>7. ASSUME NEW c \in OnWay(s)', IsTransport(c)' PROVE c \in OnWay(s)
    BY <1>5, <2>4, <2>5, <2>6, <2>7
  <2>. QED  BY Zenon, <2>3, <2>7 DEF Ordered
<1>. QED  BY <1>7, <1>8

\* writeLoop takes the first packet of writeChan.
LEMMA TakeWriteOrder ==
  ASSUME IInv, NEW t \in Sides, TakeWrite(t), NEW s \in Sides
  PROVE  Ordered(s)
<1>. DEFINE x == Head(writeChan[t])
<1>1. /\ UNCHANGED <<reader, readChan, worker>> /\ writer.buf = Nil /\ writeChan[t] # <<>>
      /\ writer' = [side |-> t, buf |-> x]
      /\ writeChan' = [writeChan EXCEPT ![t] = Tail(writeChan[t])]
  BY Zenon DEF TakeWrite, WriteReady, loopVars
<1>2. /\ writeChan \in [Sides -> Seq(Buffers)] /\ writeChan[t] \in Seq(Buffers)
      /\ Injective(writeChan[t]) /\ Nil \notin Buffers
  BY Zenon, Nils DEF IInv, TypeOK, Lines
<1>3. /\ x \in Buffers /\ x \in Range(writeChan[t])
      /\ Range(Tail(writeChan[t])) = Range(writeChan[t]) \ {x}
  BY <1>1, <1>2, RangeTail
<1>4. Writing(s) = {} /\ InHand(s)' = InHand(s) /\ Reading(s)' = Reading(s)
  <2>1. Writing(s) = {}
    BY <1>1, <1>2 DEF Writing
  <2>. QED  BY Zenon, <1>1, <2>1, StagesKept
<1>5. CASE s # t
  <2>1. Writing(s)' = {} /\ writeChan'[s] = writeChan[s]
    BY <1>1, <1>2, <1>5 DEF Writing
  <2>. QED  BY Zenon, <1>1, <1>4, <2>1, QuietOrder
<1>6. CASE s = t
  <2>1. Writing(s)' = {x} /\ writeChan'[s] = Tail(writeChan[s])
    BY <1>1, <1>2, <1>3, <1>6 DEF Writing
  <2>. HIDE DEF x
  <2>2. OnWay(s)' \subseteq OnWay(s)
    BY <1>1, <1>3, <1>4, <1>6, <2>1 DEF OnWay
  <2>3. ASSUME NEW b, NEW c, Ahead(s, b, c) PROVE Ahead(s, b, c)'
    <3>1. Precedes({}, writeChan[t], InHand(s), readChan[Opposite(s)], Reading(s), b, c)
      BY Zenon, <1>4, <1>6, <2>3 DEF Ahead
    <3>2. Precedes({x}, Tail(writeChan[t]), InHand(s), readChan[Opposite(s)], Reading(s), b, c)
      BY Zenon, <1>1, <1>2, <3>1, TakePrecedes DEF x
    <3>. QED  BY Zenon, <1>1, <1>4, <1>6, <2>1, <3>2 DEF Ahead
  <2>. QED  BY Zenon, <2>2, <2>3, NothingNew
<1>. QED  BY <1>5, <1>6

\* A packet that has been written or dropped goes to the pool, and the others
\* stay where they are.
LEMMA WriteToUDPOrder ==
  ASSUME IInv, IInv', WriteToUDP, NEW s \in Sides
  PROVE  Ordered(s)
<1>1. /\ UNCHANGED <<reader, readChan, worker, writeChan>> /\ writer'.buf = Nil
      /\ writer.buf \in pool' /\ Nil \notin Buffers
  BY Zenon, Nils DEF WriteToUDP, RecyclePacket, loopVars, WriterSelect
<1>2. InHand(s)' = InHand(s) /\ Reading(s)' = Reading(s)
  BY Zenon, <1>1, StagesKept
<1>3. Writing(s)' = Writing(s) \ {writer.buf}
  BY <1>1 DEF Writing
<1>4. writer.buf \notin OnWay(s)'
  BY Zenon, <1>1, OnWayIsAloneNext DEF OnWayAlone
<1>5. OnWay(s)' \subseteq OnWay(s)
  BY <1>1, <1>2, <1>3 DEF OnWay
<1>6. ASSUME NEW b \in OnWay(s)', NEW c \in OnWay(s)', Ahead(s, b, c) PROVE Ahead(s, b, c)'
  <2>1. Precedes(Writing(s) \ {writer.buf}, writeChan[s], InHand(s), readChan[Opposite(s)],
                 Reading(s), b, c)
    BY Zenon, <1>4, <1>6, DropPrecedes DEF Ahead
  <2>. QED  BY Zenon, <1>1, <1>2, <1>3, <2>1 DEF Ahead
<1>. QED  BY Zenon, <1>5, <1>6, NothingNew

\* A handler that drops its packet, or has rewritten it.
LEMMA HandleOrder ==
  ASSUME IInv, IInv', NEW w \in Workers, Reject(w) \/ Lookup(w) \/ Register(w), NEW s \in Sides
  PROVE  Ordered(s)
<1>1. /\ UNCHANGED <<reader, readChan, writeChan, writer>>
      /\ Drop(w) \/ worker' = [worker EXCEPT ![w].pc = "send"]
  BY Zenon DEF Reject, Lookup, Register, loopVars, writeVars
<1>2. worker \in [Workers -> Worker] /\ Main \in Workers /\ Nil \notin Buffers
  BY Zenon, Nils DEF IInv, TypeOK, Workers
<1>3. CASE worker'[Main].buf = worker[Main].buf /\ worker'[Main].side = worker[Main].side
  BY Zenon, <1>1, <1>3, MainKeeps
<1>4. CASE worker' = [worker EXCEPT ![w].pc = "send"]
  <2>1. worker'[Main].buf = worker[Main].buf /\ worker'[Main].side = worker[Main].side
    BY <1>2, <1>4 DEF Worker
  <2>. QED  BY <1>3, <2>1
<1>5. CASE Drop(w) /\ w # Main
  <2>1. worker'[Main] = worker[Main]
    BY Zenon, <1>2, <1>5 DEF Drop
  <2>. QED  BY <1>3, <2>1
<1>6. CASE Drop(w) /\ w = Main
  <2>1. worker'[Main].buf = Nil /\ worker[Main].buf \in pool'
    BY Zenon, <1>2, <1>6 DEF Drop, Deferred, RecyclePacket, Idle
  <2>2. Writing(s)' = Writing(s) /\ Reading(s)' = Reading(s)
    BY Zenon, <1>1, StagesKept
  <2>3. InHand(s)' = InHand(s) \ {worker[Main].buf}
    BY <1>2, <2>1 DEF InHand
  <2>4. worker[Main].buf \notin OnWay(s)'
    BY Zenon, <2>1, OnWayIsAloneNext DEF OnWayAlone
  <2>5. OnWay(s)' \subseteq OnWay(s)
    BY <1>1, <2>2, <2>3 DEF OnWay
  <2>6. ASSUME NEW b \in OnWay(s)', NEW c \in OnWay(s)', Ahead(s, b, c) PROVE Ahead(s, b, c)'
    <3>1. Precedes(Writing(s), writeChan[s], InHand(s) \ {worker[Main].buf},
                   readChan[Opposite(s)], Reading(s), b, c)
      BY Zenon, <2>4, <2>6, DropPrecedes DEF Ahead
    <3>. QED  BY Zenon, <1>1, <2>2, <2>3, <3>1 DEF Ahead
  <2>. QED  BY Zenon, <2>5, <2>6, NothingNew
<1>. QED  BY <1>1, <1>4, <1>5, <1>6

\* Steps of mainLoop, the resolver and the goroutines that move no packet.
LEMMA OtherOrder ==
  ASSUME IInv, NEW s \in Sides,
         \/ ReceiveTick \/ ReceiveUpdate \/ UpdateTable \/ Resolve \/ UNCHANGED vars
         \/ \E g \in Goroutines : Lock(g) \/ MeetConflict(g)
  PROVE  Ordered(s)
<1>1. UNCHANGED <<reader, readChan, writeChan, writer>>
  BY Zenon DEF ReceiveTick, ReceiveUpdate, UpdateTable, Resolve, Lock, MeetConflict, vars,
     loopVars, writeVars
<1>2. worker \in [Workers -> Worker] /\ Main \in Workers
  BY Zenon DEF IInv, TypeOK, Workers
<1>3. worker' = worker \/ \E w, pc : worker' = [worker EXCEPT ![w].pc = pc]
  BY Zenon DEF ReceiveTick, ReceiveUpdate, UpdateTable, Resolve, Lock, MeetConflict, vars
<1>4. worker'[Main].buf = worker[Main].buf /\ worker'[Main].side = worker[Main].side
  BY <1>2, <1>3 DEF Worker
<1>. QED  BY Zenon, <1>1, <1>4, MainKeeps

\* Every step keeps the order on the way to every side, and the contents.
LEMMA NextKeepsOrder ==
  ASSUME IInv, IInv', Inlined, [Next]_vars
  PROVE  KeepsOrder
<1>1. ASSUME NEW s \in Sides, NEW b \in OnWay(s), b \in OnWay(s)'
      PROVE  packet'[b].datagram = packet[b].datagram
  <2>1. b \in Buffers /\ \A t \in Sides : reader[t].pc = "read" => reader[t].buf # b
    BY Zenon, OnWayIsAlone DEF OnWayAlone
  <2>2. b \notin pool'
    BY Zenon, <1>1, OnWayIsAloneNext DEF OnWayAlone
  <2>. QED  BY Zenon, <2>1, <2>2, DatagramKept
<1>2. ASSUME NEW s \in Sides PROVE Ordered(s)
  <2>1. ASSUME NEW t \in Sides, ReaderStep(t) \/ ReadFromUDP(t) \/ ReadError(t) \/ Receive(t)
        PROVE  Ordered(s)
    BY Zenon, <2>1, ReaderOrder, ReadOrder, SendReadOrder, ReceiveOrder DEF ReaderStep
  <2>2. ASSUME NEW w \in Workers, WorkerStep(w) PROVE Ordered(s)
    BY Zenon, <2>2, HandleOrder, SendOrder, OtherOrder DEF WorkerStep, Workers
  <2>3. CASE WriterStep
    BY Zenon, <2>3, TakeWriteOrder, WriteToUDPOrder DEF WriterStep
  <2>. QED  BY Zenon, <2>1, <2>2, <2>3, OtherOrder DEF Next
<1>. QED  BY Zenon, <1>1, <1>2 DEF KeepsOrder, Ordered

\* However the goroutines interleave, for every number of buffers and handlers
\* and every channel capacity, mwgp forwards the transport packets of each
\* direction in the order in which it reads them, and forwards what it read.
THEOREM TransportsKeepOrder == Spec => TransportsInOrder
<1>1. Init => Inlined
  BY DEF Init, Inlined, Idle, Workers
<1>2. IInv /\ IInv' /\ Inlined /\ [Next]_vars => Inlined'
  BY NextInlined
<1>3. IInv /\ IInv' /\ Inlined /\ [Next]_vars => [KeepsOrder]_vars
  BY NextKeepsOrder
<1>. QED  BY <1>1, <1>2, <1>3, PipelineInvariant, PTL DEF Spec, TransportsInOrder

=============================================================================
