----------------------------- MODULE Forwarding -----------------------------
(***************************************************************************)
(* What the proxy promises of the packets it forwards, whatever goroutines *)
(* and channels it uses: per direction, transport packets are a lossy      *)
(* queue (a packet may be lost, none is reordered, duplicated or changed), *)
(* and handshake packets are a lossy bag.                                  *)
(***************************************************************************)
EXTENDS Integers, Sequences, SequencesExt

CONSTANTS
  Sides,        \* where packets leave the proxy
  Transports,   \* the contents of transport packets
  Handshakes    \* the contents of all other packets

VARIABLES
  queue,        \* side -> the transport packets on their way to it
  bag,          \* side -> handshake -> how many of it are on their way
  wire          \* side -> <<packet>> while one is being written to it

vars == <<queue, bag, wire>>

Init ==
  /\ queue = [s \in Sides |-> <<>>]
  /\ bag = [s \in Sides |-> [h \in Handshakes |-> 0]]
  /\ wire = [s \in Sides |-> <<>>]

ReceiveTransport(s, t) ==
  /\ queue' = [queue EXCEPT ![s] = Append(@, t)]
  /\ UNCHANGED <<bag, wire>>

LoseTransport(s) ==
  /\ \E k \in DOMAIN queue[s] : queue' = [queue EXCEPT ![s] = RemoveAt(@, k)]
  /\ UNCHANGED <<bag, wire>>

WriteTransport(s) ==
  /\ wire[s] = <<>> /\ queue[s] # <<>>
  /\ wire' = [wire EXCEPT ![s] = <<Head(queue[s])>>]
  /\ queue' = [queue EXCEPT ![s] = Tail(@)]
  /\ UNCHANGED bag

ReceiveHandshake(s, h) ==
  /\ bag' = [bag EXCEPT ![s][h] = @ + 1]
  /\ UNCHANGED <<queue, wire>>

LoseHandshake(s, h) ==
  /\ bag[s][h] > 0
  /\ bag' = [bag EXCEPT ![s][h] = @ - 1]
  /\ UNCHANGED <<queue, wire>>

WriteHandshake(s, h) ==
  /\ wire[s] = <<>> /\ bag[s][h] > 0
  /\ bag' = [bag EXCEPT ![s][h] = @ - 1]
  /\ wire' = [wire EXCEPT ![s] = <<h>>]
  /\ UNCHANGED queue

EndWrite(s) ==
  /\ wire' = [wire EXCEPT ![s] = <<>>]
  /\ UNCHANGED <<queue, bag>>

Next ==
  \E s \in Sides :
    \/ \E t \in Transports : ReceiveTransport(s, t)
    \/ LoseTransport(s) \/ WriteTransport(s) \/ EndWrite(s)
    \/ \E h \in Handshakes :
         ReceiveHandshake(s, h) \/ LoseHandshake(s, h) \/ WriteHandshake(s, h)

Spec == Init /\ [][Next]_vars

=============================================================================
