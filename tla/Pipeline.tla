------------------------------ MODULE Pipeline ------------------------------
(***************************************************************************)
(* The way of a packet through mwgp (wgit.go): two read loops, the main    *)
(* loop, the handler goroutines and the write loop, the four channels      *)
(* between them, and the pool that packet buffers come from and go back    *)
(* to.  Module WGIT has what the handlers do to the table; here a lookup   *)
(* may find its peer or not, and only the lock they share is kept.         *)
(***************************************************************************)
EXTENDS Integers, Sequences, FiniteSets

CONSTANTS
  Buffers,       \* bound: the packets that packetPool has allocated
  Goroutines,    \* bound: handler goroutines alive at the same time
  Main,          \* the goroutine that runs mainLoop
  Datagrams,     \* the datagrams that arrive
  Arrivals,      \* side -> those that arrive there
  Obfuscates,    \* whether there is an obfuscation key
  IsClient,      \* TRUE for mwgp-client, FALSE for mwgp-server
  ChanCap,       \* capacity of a channel (64 in the code)
  Nil

Sides == {"client", "server"}
Opposite(s) == IF s = "client" THEN "server" ELSE "client"

ASSUME PipelineAssumption ==
  /\ Main \notin Goroutines
  /\ Obfuscates \in BOOLEAN /\ IsClient \in BOOLEAN
  /\ ChanCap \in Nat \ {0}
  /\ Nil \notin Buffers \cup Goroutines \cup {Main} \cup Datagrams
  /\ Arrivals \in [Sides -> SUBSET Datagrams]
  /\ \A d \in Datagrams : d.transport \in BOOLEAN /\ d.obfuscated \in BOOLEAN

\* The side towards the other mwgp, whose conn has the obfuscator's functions.
Obfuscating(s) == Obfuscates /\ s = IF IsClient THEN "server" ELSE "client"

\* A datagram is obfuscated if the conn it arrives at takes it to be.
ASSUME ArrivalsAssumption ==
  \A s \in Sides : \A d \in Arrivals[s] : d.obfuscated => Obfuscating(s)

Workers == Goroutines \cup {Main}
Deobfuscated == "PacketFlagDeobfuscatedAfterReceived"
Obfuscate == "PacketFlagObfuscateBeforeSend"
Flags == {Deobfuscated, Obfuscate}

\* A packet buffer: its first Length bytes, Nil if Length is 0, and its flags.
\* decided is history: whether the handler decided to obfuscate the packet.
Packet == [datagram : Datagrams \cup {Nil}, flags : SUBSET Flags, decided : BOOLEAN]

Cleared == [datagram |-> Nil, flags |-> {}, decided |-> FALSE]

VARIABLES
  packet,        \* buffer -> its content
  pool,          \* packetPool
  reader,        \* side -> the goroutine of its read loop
  readChan,      \* side -> clientReadChan, serverReadChan
  worker,        \* mainLoop and the handler goroutines
  mapLock,       \* the goroutine that keeps mapLock across steps, or Nil
  writeChan,     \* side -> clientWriteChan, serverWriteChan
  writer,        \* the goroutine of writeLoop
  resolver       \* the goroutine that resolves the server address

poolVars == <<packet, pool>>
loopVars == <<reader, readChan>>
writeVars == <<writeChan, writer>>
vars == <<poolVars, loopVars, worker, mapLock, writeVars, resolver>>

Reader == [pc : {"obtain", "read", "send"}, buf : Buffers \cup {Nil}]
Worker ==
  [pc : {"idle", "handle", "locked", "spin", "send", "update"},
   side : Sides, buf : Buffers \cup {Nil}]
Writer == [side : Sides, buf : Buffers \cup {Nil}]

Idle == [pc |-> "idle", side |-> "client", buf |-> Nil]
WriterSelect == [side |-> "client", buf |-> Nil]

-----------------------------------------------------------------------------
(***************************************************************************)
(* The pool.                                                               *)
(***************************************************************************)
MutantReset(pkt) == [Cleared EXCEPT !.flags = pkt.flags]
Reset(pkt) == Cleared

RecyclePacket(b) ==
  /\ packet' = [packet EXCEPT ![b] = Reset(@)]
  /\ pool' = pool \cup {b}

-----------------------------------------------------------------------------
(***************************************************************************)
(* clientReadLoop and serverReadLoop.                                      *)
(***************************************************************************)
ObtainPacket(s) ==
  /\ reader[s].pc = "obtain"
  /\ \E b \in pool :
       /\ pool' = pool \ {b}
       /\ reader' = [reader EXCEPT ![s] = [pc |-> "read", buf |-> b]]
  /\ UNCHANGED <<packet, readChan, worker, mapLock, writeVars, resolver>>

\* ReadFromUDPWithDeobfuscate adds a flag; neither read function clears any.
ReadFlags(d) == IF d.obfuscated THEN {Deobfuscated} ELSE {}

ReadFromUDP(s) ==
  /\ reader[s].pc = "read"
  /\ \E d \in Arrivals[s] :
       packet' = [packet EXCEPT ![reader[s].buf] =
         [datagram |-> d, flags |-> @.flags \cup ReadFlags(d), decided |-> FALSE]]
  /\ reader' = [reader EXCEPT ![s].pc = "send"]
  /\ UNCHANGED <<pool, readChan, worker, mapLock, writeVars, resolver>>

ReadError(s) ==
  /\ reader[s].pc = "read"
  /\ RecyclePacket(reader[s].buf)
  /\ reader' = [reader EXCEPT ![s] = [pc |-> "obtain", buf |-> Nil]]
  /\ UNCHANGED <<readChan, worker, mapLock, writeVars, resolver>>

SendRead(s) ==
  /\ reader[s].pc = "send"
  /\ Len(readChan[s]) < ChanCap
  /\ readChan' = [readChan EXCEPT ![s] = Append(@, reader[s].buf)]
  /\ reader' = [reader EXCEPT ![s] = [pc |-> "obtain", buf |-> Nil]]
  /\ UNCHANGED <<poolVars, worker, mapLock, writeVars, resolver>>

-----------------------------------------------------------------------------
(***************************************************************************)
(* mainLoop.                                                               *)
(***************************************************************************)
MutantInline(pkt) == FALSE
\* Transport packets are handled by mainLoop itself, others in a goroutine.
Inline(pkt) == pkt.datagram.transport

Receive(s) ==
  /\ worker[Main].pc = "idle"
  /\ readChan[s] # <<>>
  /\ LET b == Head(readChan[s])
     IN  \E w \in IF Inline(packet[b]) THEN {Main} ELSE Goroutines :
           /\ worker[w].pc = "idle"
           /\ worker' = [worker EXCEPT ![w] =
                [pc |-> "handle", side |-> s, buf |-> b]]
  /\ readChan' = [readChan EXCEPT ![s] = Tail(@)]
  /\ UNCHANGED <<poolVars, reader, mapLock, writeVars, resolver>>

\* handlePeersExpireCheck and handleAllServerDestinationUpdate need the lock.
\* A tick may be waiting in expireChan at any time.
ReceiveTick ==
  /\ worker[Main].pc = "idle"
  /\ worker' = [worker EXCEPT ![Main].pc = "update"]
  /\ UNCHANGED <<poolVars, loopVars, mapLock, writeVars, resolver>>

MutantUpdateReady == resolver = "sending" /\ \A s \in Sides : readChan[s] = <<>>
\* UpdateAllServerDestinationChan is unbuffered; select prefers no channel.
UpdateReady == resolver = "sending"

ReceiveUpdate ==
  /\ worker[Main].pc = "idle"
  /\ UpdateReady
  /\ resolver' = "idle"
  /\ worker' = [worker EXCEPT ![Main].pc = "update"]
  /\ UNCHANGED <<poolVars, loopVars, mapLock, writeVars>>

UpdateTable ==
  /\ worker[Main].pc = "update"
  /\ mapLock = Nil
  /\ worker' = [worker EXCEPT ![Main].pc = "idle"]
  /\ UNCHANGED <<poolVars, loopVars, mapLock, writeVars, resolver>>

\* The resolver goroutine of mwgp-client sends a new server address.
Resolve ==
  /\ IsClient /\ resolver = "idle"
  /\ resolver' = "sending"
  /\ UNCHANGED <<poolVars, loopVars, worker, mapLock, writeVars>>

-----------------------------------------------------------------------------
(***************************************************************************)
(* handleClientPacket and handleServerPacket.                              *)
(***************************************************************************)
\* The deferred function of both handlers: a packet that was not forwarded is
\* recycled.
MutantDeferred(b, packetForwarded) == RecyclePacket(b)
Deferred(b, packetForwarded) ==
  IF packetForwarded THEN UNCHANGED poolVars ELSE RecyclePacket(b)

Drop(w) ==
  /\ Deferred(worker[w].buf, FALSE)
  /\ worker' = [worker EXCEPT ![w] = Idle]

\* An error before the lock: the packet does not parse, has no receiver, or
\* nobody can decrypt it.
Reject(w) ==
  /\ worker[w].pc = "handle"
  /\ Drop(w)
  /\ UNCHANGED <<loopVars, mapLock, writeVars, resolver>>

\* The reply to a peer of mwgp-server with obfuscateEnabled is flagged.
Decide(pkt, obfuscateEnabled) ==
  [pkt EXCEPT !.flags = IF obfuscateEnabled THEN @ \cup {Obfuscate} ELSE @,
              !.decided = obfuscateEnabled]

Patch(w) ==
  \E obfuscateEnabled \in
       IF worker[w].side = "server" /\ Obfuscating("client") THEN BOOLEAN ELSE {FALSE} :
    packet' = [packet EXCEPT ![worker[w].buf] = Decide(@, obfuscateEnabled)]

\* Transport packets and cookie replies only look their peer up.
Lookup(w) ==
  /\ worker[w].pc = "handle"
  /\ mapLock = Nil
  /\ \/ Drop(w)
     \/ /\ Patch(w)
        /\ worker' = [worker EXCEPT ![w].pc = "send"]
        /\ UNCHANGED pool
  /\ UNCHANGED <<loopVars, mapLock, writeVars, resolver>>

\* Initiations and responses register a peer.
Lock(g) ==
  /\ worker[g].pc = "handle"
  /\ mapLock = Nil
  /\ mapLock' = g
  /\ worker' = [worker EXCEPT ![g].pc = "locked"]
  /\ UNCHANGED <<poolVars, loopVars, writeVars, resolver>>

MutantUnlock(found) == mapLock' = IF found THEN Nil ELSE mapLock
Unlock(found) == mapLock' = Nil

Register(g) ==
  /\ worker[g].pc = "locked"
  /\ \/ Drop(g) /\ Unlock(FALSE)
     \/ /\ Patch(g)
        /\ worker' = [worker EXCEPT ![g].pc = "send"]
        /\ UNCHANGED pool
        /\ Unlock(TRUE)
  /\ UNCHANGED <<loopVars, writeVars, resolver>>

\* generateProxyIndexLocked does not return when the index it wants is taken.
MeetConflict(g) ==
  /\ worker[g].pc \in {"locked", "spin"}
  /\ worker' = [worker EXCEPT ![g].pc = "spin"]
  /\ UNCHANGED <<poolVars, loopVars, mapLock, writeVars, resolver>>

\* The send blocks while the channel is full.
Send(w) ==
  /\ worker[w].pc = "send"
  /\ LET to == Opposite(worker[w].side)
     IN  /\ Len(writeChan[to]) < ChanCap
         /\ writeChan' = [writeChan EXCEPT ![to] = Append(@, worker[w].buf)]
  /\ Deferred(worker[w].buf, TRUE)
  /\ worker' = [worker EXCEPT ![w] = Idle]
  /\ UNCHANGED <<loopVars, mapLock, writer, resolver>>

-----------------------------------------------------------------------------
(***************************************************************************)
(* writeLoop.                                                              *)
(***************************************************************************)
\* The ServerWriteToUDPFunc of mwgp-client flags every packet.
WriteFlags(s) == IF IsClient /\ s = "server" THEN {Obfuscate} ELSE {}

MutantWriteReady(s) == writeChan[s] # <<>> /\ (s = "server" => writeChan["client"] = <<>>)
WriteReady(s) == writeChan[s] # <<>>

TakeWrite(s) ==
  /\ writer.buf = Nil
  /\ WriteReady(s)
  /\ LET b == Head(writeChan[s])
     IN  /\ writer' = [side |-> s, buf |-> b]
         /\ packet' = [packet EXCEPT ![b].flags = @ \cup WriteFlags(s)]
  /\ writeChan' = [writeChan EXCEPT ![s] = Tail(@)]
  /\ UNCHANGED <<pool, loopVars, worker, mapLock, resolver>>

\* The packet is recycled whether it was written or not.
WriteToUDP ==
  /\ writer.buf # Nil
  /\ RecyclePacket(writer.buf)
  /\ writer' = WriterSelect
  /\ UNCHANGED <<loopVars, worker, mapLock, writeChan, resolver>>

-----------------------------------------------------------------------------
ReaderStep(s) == ObtainPacket(s) \/ SendRead(s)

WorkerStep(w) ==
  \/ Reject(w) \/ Lookup(w) \/ Send(w)
  \/ IF w = Main THEN UpdateTable ELSE Lock(w) \/ Register(w)

WriterStep == (\E s \in Sides : TakeWrite(s)) \/ WriteToUDP

Init ==
  /\ packet = [b \in Buffers |-> Cleared] /\ pool = Buffers
  /\ reader = [s \in Sides |-> [pc |-> "obtain", buf |-> Nil]]
  /\ readChan = [s \in Sides |-> <<>>] /\ writeChan = [s \in Sides |-> <<>>]
  /\ worker = [w \in Workers |-> Idle]
  /\ mapLock = Nil
  /\ writer = WriterSelect
  /\ resolver = "idle"

Next ==
  \/ \E s \in Sides : ReaderStep(s) \/ ReadFromUDP(s) \/ ReadError(s) \/ Receive(s)
  \/ ReceiveTick \/ ReceiveUpdate \/ Resolve
  \/ \E w \in Workers : WorkerStep(w)
  \/ \E g \in Goroutines : MeetConflict(g)
  \/ WriterStep

Spec == Init /\ [][Next]_vars

\* Every goroutine keeps running, except that a read loop may wait for a
\* datagram forever.  Channels, sync.RWMutex and select starve nobody.
Fairness ==
  /\ \A s \in Sides : WF_vars(ReaderStep(s)) /\ SF_vars(Receive(s))
  /\ SF_vars(ReceiveUpdate)
  /\ \A w \in Workers : SF_vars(WorkerStep(w))
  /\ \A s \in Sides : SF_vars(TakeWrite(s))
  /\ WF_vars(WriterStep)

FairSpec == Spec /\ Fairness

=============================================================================
