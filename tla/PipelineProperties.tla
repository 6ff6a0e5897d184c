------------------------- MODULE PipelineProperties -------------------------
(***************************************************************************)
(* What the read loops, the main loop, the handlers and the write loop     *)
(* promise together.                                                       *)
(***************************************************************************)
EXTENDS Pipeline

\* Every variable has its type, and a goroutine that keeps the lock is the
\* one that mapLock names.
TypeOK ==
  /\ packet \in [Buffers -> Packet] /\ pool \subseteq Buffers
  /\ reader \in [Sides -> Reader]
  /\ \A s \in Sides : reader[s].buf = Nil <=> reader[s].pc = "obtain"
  /\ readChan \in [Sides -> Seq(Buffers)] /\ writeChan \in [Sides -> Seq(Buffers)]
  /\ worker \in [Workers -> Worker]
  /\ \A w \in Workers :
       /\ worker[w].pc = "update" => w = Main
       /\ worker[w].buf = Nil <=> worker[w].pc \in {"idle", "update"}
       /\ worker[w].pc \in {"locked", "spin"} <=> mapLock = w
  /\ mapLock \in Workers \cup {Nil}
  /\ writer \in Writer
  /\ resolver \in {"idle", "sending"}

-----------------------------------------------------------------------------
(***************************************************************************)
(* Who may touch a buffer.                                                 *)
(***************************************************************************)
Places ==
  {<<place, Nil>> : place \in {"pool", "writer"}}
  \cup {<<place, s>> : place \in {"reader", "readChan", "writeChan"}, s \in Sides}
  \cup {<<"worker", w>> : w \in Workers}

Range(q) == {q[k] : k \in DOMAIN q}

In(b, place) ==
  \/ place[1] = "pool" /\ b \in pool
  \/ place[1] = "reader" /\ b = reader[place[2]].buf
  \/ place[1] = "readChan" /\ b \in Range(readChan[place[2]])
  \/ place[1] = "worker" /\ b = worker[place[2]].buf
  \/ place[1] = "writeChan" /\ b \in Range(writeChan[place[2]])
  \/ place[1] = "writer" /\ b = writer.buf

Injective(q) == \A k, l \in DOMAIN q : q[k] = q[l] => k = l

\* Every buffer is in exactly one place: no packet is recycled or queued
\* twice, none is used after it was handed on, and none is lost to the pool.
OneOwner ==
  /\ \A b \in Buffers : \E place \in Places :
       In(b, place) /\ \A other \in Places : In(b, other) => other = place
  /\ \A s \in Sides : Injective(readChan[s]) /\ Injective(writeChan[s])

\* The buffers that hold a datagram.
Filled(b) == ~(b \in pool \/ \E s \in Sides : reader[s].pc = "read" /\ reader[s].buf = b)

\* The flags of a packet are about the datagram it holds now, never about an
\* earlier one in the same buffer: neither read function clears Flags, so
\* this rests on every path of a packet ending in recyclePacket.
FlagsFresh ==
  \A b \in Buffers :
    packet[b].flags =
      (IF Filled(b) /\ packet[b].datagram.obfuscated THEN {Deobfuscated} ELSE {})
      \cup (IF packet[b].decided \/ (IsClient /\ writer = [side |-> "server", buf |-> b])
            THEN {Obfuscate} ELSE {})

-----------------------------------------------------------------------------
(***************************************************************************)
(* The order of transport packets.                                         *)
(***************************************************************************)
IsTransport(b) == packet[b].datagram.transport

\* The stages on the way to side s, besides readChan and writeChan: a packet
\* has been read, is handled by mainLoop, is being written.
Reading(s) == {b \in Buffers : reader[Opposite(s)] = [pc |-> "send", buf |-> b]}
InHand(s) == {b \in Buffers : worker[Main].side = Opposite(s) /\ worker[Main].buf = b}
Writing(s) == {b \in Buffers : writer = [side |-> s, buf |-> b]}

OnWay(s) ==
  Writing(s) \cup Range(writeChan[s]) \cup InHand(s) \cup Range(readChan[Opposite(s)]) \cup Reading(s)

Before(q, b, c) == \E k, l \in DOMAIN q : k < l /\ q[k] = b /\ q[l] = c

\* b is in an earlier place than c, when w is being written, q and r are the
\* channels, h is in hand and e has been read.
Precedes(w, q, h, r, e, b, c) ==
  \/ b \in w /\ c \in Range(q) \cup h \cup Range(r) \cup e
  \/ b \in Range(q) /\ c \in h \cup Range(r) \cup e
  \/ b \in h /\ c \in Range(r) \cup e
  \/ b \in Range(r) /\ c \in e
  \/ Before(q, b, c) \/ Before(r, b, c)

Ahead(s, b, c) ==
  Precedes(Writing(s), writeChan[s], InHand(s), readChan[Opposite(s)], Reading(s), b, c)

\* What a step may do to the packets on their way to one side: b keeps what
\* it holds, and its place before c if it had it or c comes in.
KeepsOrder ==
  \A s \in Sides : \A b \in OnWay(s) \cap OnWay(s)' :
    /\ packet'[b].datagram = packet[b].datagram
    /\ \A c \in OnWay(s)' \ {b} :
         IsTransport(b)' /\ IsTransport(c)' /\ (c \in OnWay(s) => Ahead(s, b, c)) => Ahead(s, b, c)'

\* No transport packet overtakes another of its direction, although one may
\* wait in a channel while others are handled, dropped or written, handshakes
\* join them from their own goroutines, and buffers are used again.
TransportsInOrder == [][KeepsOrder]_vars

-----------------------------------------------------------------------------
(***************************************************************************)
(* Liveness.                                                               *)
(***************************************************************************)
Spinning == \E g \in Goroutines : worker[g].pc = "spin"

\* Whatever is read is written or dropped in the end, and its buffer goes
\* back to the pool: readers, main loop, handlers and writer never all wait
\* for each other's channels or the lock.  (A handler that has met an index
\* conflict keeps the lock forever.)
\* One buffer stands for all.
Recycled ==
  LET b == CHOOSE b \in Buffers : TRUE IN Filled(b) ~> (b \in pool \/ Spinning)

\* The resolver's blocking send of a new server address gets through to
\* mainLoop however much traffic there is.
UpdateDelivered == resolver = "sending" ~> (resolver = "idle" \/ Spinning)

=============================================================================
