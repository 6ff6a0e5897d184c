------------------------- MODULE PipelineRefinement -------------------------
(***************************************************************************)
(* The pipeline implements the lossy queues of module Forwarding.          *)
(***************************************************************************)
EXTENDS PipelineProperties

\* The packets that goroutine w will send to side s.
Handled(w, s) ==
  IF worker[w].pc \in {"handle", "locked", "spin", "send"} /\ worker[w].side = Opposite(s)
  THEN <<worker[w].buf>> ELSE <<>>

\* The buffers on their way to side s in the order in which they will be
\* written, if they are: those of the handler goroutines left out.
Line(s) ==
  LET read == reader[Opposite(s)]
  IN  writeChan[s] \o Handled(Main, s) \o readChan[Opposite(s)]
      \o (IF read.pc = "send" THEN <<read.buf>> ELSE <<>>)

QueueOf(s) ==
  LET line == SelectSeq(Line(s), IsTransport)
  IN  [k \in DOMAIN line |-> packet[line[k]].datagram]

BagOf(s) ==
  LET held == Range(Line(s)) \cup UNION {Range(Handled(g, s)) : g \in Goroutines}
  IN  [h \in {d \in Datagrams : ~d.transport} |-> Cardinality({b \in held : packet[b].datagram = h})]

F == INSTANCE Forwarding WITH
       Transports <- {d \in Datagrams : d.transport},
       Handshakes <- {d \in Datagrams : ~d.transport},
       queue <- [s \in Sides |-> QueueOf(s)],
       bag <- [s \in Sides |-> BagOf(s)],
       wire <- [s \in Sides |-> IF writer.buf # Nil /\ writer.side = s
                                THEN <<packet[writer.buf].datagram>> ELSE <<>>]

\* The proxy is a lossy queue for the transport packets of each direction and
\* a lossy bag for handshakes: it reorders no transport packets, although
\* goroutines, channels and buffers are shared by both directions, and
\* writes no packet twice or in place of another.
ForwardingSpec == F!Spec

=============================================================================
