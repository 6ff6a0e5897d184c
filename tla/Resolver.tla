------------------------------- MODULE Resolver -------------------------------
(***************************************************************************)
(* How mwgp-client finds the address of its server: the goroutine that     *)
(* Client.Start runs, the resolver that NewClientWithConfig gives it, and  *)
(* the zone it reads while others change it.  The table is the address its *)
(* sessions use; module WGIT shows what it does with an update.            *)
(*                                                                         *)
(* An address is its IP: the port is fixed by the configuration.  A TXT    *)
(* record is sealed with the secret or not; one that is not an hn2etxt     *)
(* record or has no addr has host Nil, and one without a readable time has *)
(* time 0.                                                                 *)
(***************************************************************************)
EXTENDS Integers, Sequences, FiniteSets, SequencesExt

CONSTANTS
  Server,        \* the host name in the configuration
  Hosts,         \* the host names in TXT records
  IPs,
  Times,         \* the times in TXT records
  Nil,
  Options,       \* the resolver options of the configuration file
  Zones          \* bound: the states of the zone, [txts, ips]

Record == [sealed : BOOLEAN, host : Hosts \cup {Nil}, time : {0} \cup Times]

ASSUME ResolverAssumption ==
  /\ Times \subseteq Nat \ {0}
  /\ Nil \notin Hosts \cup IPs /\ Nil \notin Record
  /\ Options \subseteq [resolver : {"", "dns", "hn2etxt", "unknown"},
                       scheme : {"udp", "other"}, dns : BOOLEAN]
  /\ Zones \subseteq [txts : SUBSET Record, ips : [Hosts \cup {Server} -> SUBSET IPs]]
  /\ \A z \in Zones : IsFiniteSet(z.txts)

VARIABLES
  zone,              \* what the name servers answer
  options, kind,     \* the configured and the chosen resolver
  pc,
  txts, k,           \* the answer of LookupTXT and the loop over it
  latestRecord,
  forwardToAddress,  \* cachedServerPeer.forwardToAddress
  destination        \* the address that the table was last told

resolveVars == <<txts, k, latestRecord>>
vars == <<zone, options, kind, pc, resolveVars, forwardToAddress, destination>>

-----------------------------------------------------------------------------
\* A creator in UDPAddrResolverCreators; Nil is an error.
creator(type, scheme) == IF scheme = "udp" THEN type ELSE Nil

\* NewClientWithConfig, where the option dns stands for dns+udp://, and
\* newUDPAddrResolver.
Configured(o) ==
  CASE o.dns /\ o.resolver # "" -> Nil
    [] o.dns /\ o.resolver = "" -> creator("dns", "udp")
    [] ~o.dns /\ o.resolver = "unknown" -> Nil
    [] ~o.dns /\ o.resolver = "" -> "default"
    [] OTHER -> creator(o.resolver, o.scheme)

\* The file cannot be read or unmarshalled, or its listen address is invalid.
FailStart ==
  /\ pc = "configure"
  /\ pc' = "failed"
  /\ UNCHANGED <<zone, options, kind, resolveVars, forwardToAddress, destination>>

Configure ==
  /\ pc = "configure"
  /\ kind' = Configured(options)
  /\ pc' = IF kind' = Nil THEN "failed" ELSE "start"
  /\ UNCHANGED <<zone, options, resolveVars, forwardToAddress, destination>>

\* The owner of the zone changes it.
Publish ==
  /\ zone' \in Zones \ {zone}
  /\ UNCHANGED <<options, kind, pc, resolveVars, forwardToAddress, destination>>

-----------------------------------------------------------------------------
\* The default and the dns resolver look the configured host up at once.
StartHost ==
  /\ pc = "start"
  /\ kind \in {"default", "dns"}
  /\ pc' = "host"
  /\ latestRecord' = [sealed |-> FALSE, host |-> Server, time |-> 0]
  /\ UNCHANGED <<zone, options, kind, txts, k, forwardToAddress, destination>>

\* The hn2etxt resolver reads the TXT records, which come in any order.
LookupTXT ==
  /\ pc = "start"
  /\ kind = "hn2etxt"
  /\ zone.txts # {}
  /\ txts' \in SetToSeqs(zone.txts)
  /\ pc' = "scan" /\ k' = 1 /\ latestRecord' = Nil
  /\ UNCHANGED <<zone, options, kind, forwardToAddress, destination>>

MutantNewer(record, latest) == record.time >= latest.time
Newer(record, latest) == record.time > latest.time

tryDecrypt(txt) == txt.sealed
parse(record) == record.host # Nil

ScanRecord ==
  /\ pc = "scan"
  /\ k <= Len(txts)
  /\ latestRecord' = IF /\ tryDecrypt(txts[k]) /\ parse(txts[k])
                        /\ latestRecord = Nil \/ Newer(txts[k], latestRecord)
                     THEN txts[k] ELSE latestRecord
  /\ k' = k + 1
  /\ UNCHANGED <<zone, options, kind, pc, txts, forwardToAddress, destination>>

\* Without a valid record ResolveUDPAddr fails.
FinishScan ==
  /\ pc = "scan"
  /\ k > Len(txts)
  /\ pc' = IF latestRecord = Nil THEN "sleep" ELSE "host"
  /\ UNCHANGED <<zone, options, kind, resolveVars, forwardToAddress, destination>>

MutantChanged(sa) == forwardToAddress = Nil
Changed(sa) == forwardToAddress # sa

\* Any of the addresses of the host is taken; a new one is stored, and then
\* sent to the table.
LookupIP ==
  /\ pc = "host"
  /\ \E sa \in zone.ips[latestRecord.host] :
       /\ forwardToAddress' = IF Changed(sa) THEN sa ELSE forwardToAddress
       /\ pc' = IF Changed(sa) THEN "send" ELSE "sleep"
  /\ UNCHANGED <<zone, options, kind, resolveVars, destination>>

\* A lookup fails or finds nothing: retry in 10 seconds.
FailLookup ==
  /\ pc = "host" \/ (pc = "start" /\ kind = "hn2etxt")
  /\ pc' = "sleep"
  /\ UNCHANGED <<zone, options, kind, resolveVars, forwardToAddress, destination>>

\* mainLoop receives from UpdateAllServerDestinationChan.
SendUpdate ==
  /\ pc = "send"
  /\ destination' = forwardToAddress
  /\ pc' = "sleep"
  /\ UNCHANGED <<zone, options, kind, resolveVars, forwardToAddress>>

\* After 10 seconds or 5 minutes.
Wake ==
  /\ pc = "sleep"
  /\ pc' = "start"
  /\ UNCHANGED <<zone, options, kind, resolveVars, forwardToAddress, destination>>

-----------------------------------------------------------------------------
Init ==
  /\ zone \in Zones
  /\ options \in Options /\ kind = Nil
  /\ pc = "configure"
  /\ txts = <<>> /\ k = 1 /\ latestRecord = Nil
  /\ forwardToAddress = Nil /\ destination = Nil

Step ==
  \/ Configure \/ FailStart \/ StartHost \/ ScanRecord \/ FinishScan \/ SendUpdate \/ Wake

Next == Step \/ LookupTXT \/ LookupIP \/ FailLookup \/ Publish

Spec == Init /\ [][Next]_vars

\* The goroutine keeps running, mainLoop keeps receiving (UpdateDelivered of
\* PipelineProperties), and lookups that have an answer do not fail forever.
FairSpec == Spec /\ WF_vars(Step) /\ WF_vars(FailLookup) /\ SF_vars(LookupTXT) /\ SF_vars(LookupIP)

-----------------------------------------------------------------------------
(***************************************************************************)
(* Properties.                                                             *)
(***************************************************************************)
\* The records that the owner of the secret has made.
Valid(r) == r.sealed /\ r.host # Nil

\* The positions of the newest valid records of an answer.
Newest(answer) ==
  {i \in DOMAIN answer :
     /\ Valid(answer[i])
     /\ \A j \in DOMAIN answer : Valid(answer[j]) => answer[j].time <= answer[i].time}

\* Whatever the order of the answer and the broken records in it, the loop
\* of ResolveUDPAddr ends with the newest valid record, and with the first
\* of them if several are equally new.
LatestFound ==
  pc = "host" /\ kind = "hn2etxt" =>
    \E i \in Newest(txts) : latestRecord = txts[i] /\ \A j \in Newest(txts) : i <= j

\* The addresses the zone gives the server now.
Current ==
  IF kind = "hn2etxt"
  THEN UNION {zone.ips[r.host] : r \in {t \in zone.txts :
         /\ Valid(t)
         /\ \A u \in zone.txts : Valid(u) => u.time <= t.time}}
  ELSE zone.ips[Server]

\* The zone is left alone, and every host that may be asked for has an
\* address.
Settles ==
  /\ <>[][FALSE]_zone
  /\ <>[](\A h \in Hosts \cup {Server} : zone.ips[h] # {})
  /\ <>[](kind = "hn2etxt" => \E t \in zone.txts : Valid(t))

\* Once the zone settles, new and old sessions of a client that has started
\* end up at an address of the newest record, and stay there, whatever
\* failed or was read half old and half new before.
Converges ==
  Settles => <>[](pc = "failed" \/ {forwardToAddress, destination} \subseteq Current)

=============================================================================
