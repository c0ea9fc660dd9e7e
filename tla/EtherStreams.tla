---------------------------- MODULE EtherStreams ----------------------------
(***************************************************************************)
(* The streams of the Ethernet driver (src/src/ether.cpp).  Open Transport *)
(* opens a stream, binds it to a protocol with DLPI messages, and adds     *)
(* group addresses, one SNAP and multicast addresses to it.  A received    *)
(* packet is queued on every stream that wants it, by an interrupt that    *)
(* may come in the middle of a message.                                    *)
(*                                                                         *)
(* Protocols are named for what the code tells apart: DIX is one of        *)
(* Ethernet, SAP an even one of 802.2, AA the SAP of SNAP, FF that of IPX, *)
(* which is also the global one of 802.2.  The messages that only send     *)
(* packets or report something are left out, and so is the fast path,      *)
(* which changes the form of what is queued.                               *)
(***************************************************************************)
EXTENDS Integers, FiniteSets

CONSTANTS Streams,
          Protocols,       \* Protocols[s]: what the client of s binds it to
          Groups,          \* odd SAPs of 802.2, without the global one
          Snaps,           \* the SNAPs of packets
          Multicasts,      \* multicast addresses
          MaxMulti,        \* bound of the enables of an address on the host
          NoSnap

ASSUME EtherAssumption ==
  /\ IsFiniteSet(Streams)
  /\ Protocols \in [Streams -> SUBSET {"DIX", "SAP", "AA", "FF"}]
  /\ Groups \cap {"DIX", "SAP", "AA", "FF"} = {}
  /\ NoSnap \notin Snaps
  /\ MaxMulti \in Nat

VARIABLES
  ether_driver_opened,
  dlpi_stream_list,       \* the streams the driver knows
  opened,                 \* the streams Open Transport has open
  dlpi_state, dlsap,      \* of a stream: "unbound" or "idle", and its protocol
  snapStream, snap,       \* kSnapStream and the SNAP
  acceptAll,              \* kAcceptAll8022Packets
  acceptMulti,            \* kAcceptMulticasts
  group_sap, multicast_list,
  rdq,                    \* there are packets in the read queue
  unbinding,              \* the stream in the middle of DLPI_unbind, if any
  disabling,              \* the address in the middle of DLPI_disable_multi
  irq,                    \* an Ethernet interrupt is on its way
  hostMulti,              \* how often an address was enabled on the host
  asked,                  \* history: what the client was told it has
  leftover                \* history: why a stream differs from that

bindVars   == <<dlpi_state, dlsap, snapStream, snap, acceptAll, group_sap>>
multiVars  == <<acceptMulti, multicast_list, disabling, hostMulti>>
listVars   == <<ether_driver_opened, dlpi_stream_list, opened>>
askedVars  == <<asked, leftover>>
etherVars == <<listVars, bindVars, multiVars, rdq, unbinding, irq, askedVars>>

\* An address of 802.2, and one that may have group addresses.
Is8022(sap)   == sap # "DIX"
Basic8022     == {"SAP", "AA"}

NothingAsked == [all |-> FALSE, groups |-> {}, snap |-> NoSnap]

EtherTypeOK ==
  /\ ether_driver_opened \in BOOLEAN /\ irq \in BOOLEAN
  /\ dlpi_stream_list \subseteq Streams /\ opened \subseteq Streams
  /\ dlpi_state \in [Streams -> {"unbound", "idle"}]
  /\ dlsap \in [Streams -> {"none", "DIX", "SAP", "AA", "FF"}]
  /\ snap \in [Streams -> Snaps \cup {NoSnap}]
  /\ snapStream \in [Streams -> BOOLEAN] /\ acceptAll \in [Streams -> BOOLEAN]
  /\ acceptMulti \in [Streams -> BOOLEAN] /\ rdq \in [Streams -> BOOLEAN]
  /\ group_sap \in [Streams -> SUBSET (Groups \cup {"FF"})]
  /\ multicast_list \in [Streams -> SUBSET Multicasts]
  /\ disabling \in [Streams -> SUBSET Multicasts]
  /\ unbinding \subseteq Streams
  /\ hostMulti \in [Multicasts -> 0 .. MaxMulti]
  /\ asked \in [Streams -> [all : BOOLEAN, groups : SUBSET Groups,
                            snap : Snaps \cup {NoSnap}]]
  /\ leftover \in [Streams -> SUBSET {"all", "group", "snap"}]

EtherInit ==
  /\ ether_driver_opened = FALSE /\ irq = FALSE
  /\ dlpi_stream_list = {} /\ opened = {} /\ unbinding = {}
  /\ dlpi_state = [s \in Streams |-> "unbound"]
  /\ dlsap = [s \in Streams |-> "none"]
  /\ snap = [s \in Streams |-> NoSnap]
  /\ snapStream = [s \in Streams |-> FALSE]
  /\ acceptAll = [s \in Streams |-> FALSE]
  /\ acceptMulti = [s \in Streams |-> FALSE]
  /\ rdq = [s \in Streams |-> FALSE]
  /\ group_sap = [s \in Streams |-> {}]
  /\ multicast_list = [s \in Streams |-> {}]
  /\ disabling = [s \in Streams |-> {}]
  /\ hostMulti = [a \in Multicasts |-> 0]
  /\ asked = [s \in Streams |-> NothingAsked]
  /\ leftover = [s \in Streams |-> {}]

-----------------------------------------------------------------------------
\* The driver and its streams.

\* Only an interrupt comes in the middle of a message that runs Mac code.
BetweenMessages == unbinding = {} /\ \A s \in Streams : disabling[s] = {}

\* Streams of an earlier time are forgotten.
InitStreamModule ==
  /\ BetweenMessages
  /\ ~ether_driver_opened
  /\ ether_driver_opened' = TRUE
  /\ dlpi_stream_list' = {}
  /\ UNCHANGED <<opened, bindVars, multiVars, rdq, unbinding, irq, askedVars>>

TerminateStreamModule ==
  /\ BetweenMessages
  /\ ether_driver_opened
  /\ ether_driver_opened' = FALSE
  /\ UNCHANGED <<dlpi_stream_list, opened, bindVars, multiVars, rdq, unbinding, irq, askedVars>>

\* Nothing is left of the DLPIStream.
Cleared(s) ==
  /\ dlpi_state' = [dlpi_state EXCEPT ![s] = "unbound"]
  /\ dlsap' = [dlsap EXCEPT ![s] = "none"]
  /\ snapStream' = [snapStream EXCEPT ![s] = FALSE]
  /\ snap' = [snap EXCEPT ![s] = NoSnap]
  /\ acceptAll' = [acceptAll EXCEPT ![s] = FALSE]
  /\ acceptMulti' = [acceptMulti EXCEPT ![s] = FALSE]
  /\ group_sap' = [group_sap EXCEPT ![s] = {}]
  /\ multicast_list' = [multicast_list EXCEPT ![s] = {}]
  /\ rdq' = [rdq EXCEPT ![s] = FALSE]
  /\ asked' = [asked EXCEPT ![s] = NothingAsked]
  /\ leftover' = [leftover EXCEPT ![s] = {}]

ether_open(s) ==
  /\ BetweenMessages
  /\ ether_driver_opened
  /\ s \notin opened
  /\ s \notin dlpi_stream_list
  /\ opened' = opened \cup {s}
  /\ dlpi_stream_list' = dlpi_stream_list \cup {s}
  /\ Cleared(s)
  /\ UNCHANGED <<ether_driver_opened, disabling, hostMulti, unbinding, irq>>

\* Without the driver nothing is done, and the stream stays in the list.
ether_close(s) ==
  /\ BetweenMessages
  /\ s \in opened
  /\ opened' = opened \ {s}
  /\ IF ether_driver_opened
     THEN /\ hostMulti' = [a \in Multicasts |->
                             IF a \in multicast_list[s] THEN hostMulti[a] - 1 ELSE hostMulti[a]]
          /\ dlpi_stream_list' = dlpi_stream_list \ {s}
          /\ Cleared(s)
     ELSE UNCHANGED <<dlpi_stream_list, bindVars, multiVars, rdq, askedVars>>
  /\ UNCHANGED <<ether_driver_opened, disabling, unbinding, irq>>

-----------------------------------------------------------------------------
\* The messages of ether_wput.

\* A message of Open Transport's.
Request(s) == ether_driver_opened /\ s \in opened /\ BetweenMessages

\* Mutant: the group addresses of the last binding are kept.
BindKeepsGroups(s, sap) ==
  /\ Request(s)
  /\ dlpi_state[s] = "unbound"
  /\ dlpi_state' = [dlpi_state EXCEPT ![s] = "idle"]
  /\ dlsap' = [dlsap EXCEPT ![s] = sap]
  /\ group_sap' = [group_sap EXCEPT ![s] = IF sap \in Basic8022 THEN @ \cup {"FF"} ELSE @]
  /\ snapStream' = [snapStream EXCEPT ![s] = FALSE]
  /\ snap' = [snap EXCEPT ![s] = NoSnap]
  /\ UNCHANGED <<listVars, acceptAll, multiVars, rdq, unbinding, irq, askedVars>>

\* Group addresses, other lengths and connections are refused, and an
\* allocation may fail: nothing has changed then.  The bytes of the SNAP are
\* dead without the flag.
DLPI_bind(s, sap) ==
  /\ Request(s)
  /\ dlpi_state[s] = "unbound"
  /\ dlpi_state' = [dlpi_state EXCEPT ![s] = "idle"]
  /\ dlsap' = [dlsap EXCEPT ![s] = sap]
  /\ group_sap' = [group_sap EXCEPT ![s] = IF sap \in Basic8022 THEN {"FF"} ELSE {}]
  /\ snapStream' = [snapStream EXCEPT ![s] = FALSE]
  /\ snap' = [snap EXCEPT ![s] = NoSnap]
  /\ UNCHANGED <<listVars, acceptAll, multiVars, rdq, unbinding, irq, askedVars>>

DLPI_unbind(s) ==
  /\ Request(s)
  /\ dlpi_state[s] = "idle"
  /\ dlpi_state' = [dlpi_state EXCEPT ![s] = "unbound"]
  /\ dlsap' = [dlsap EXCEPT ![s] = "none"]
  /\ unbinding' = unbinding \cup {s}
  /\ asked' = [asked EXCEPT ![s] = NothingAsked]
  /\ leftover' = [leftover EXCEPT ![s] = IF acceptAll[s] THEN {"all"} ELSE {}]
  /\ UNCHANGED <<listVars, snapStream, snap, acceptAll, group_sap, multiVars, rdq, irq>>

\* flushq runs Mac code; then the request is acknowledged.
UnbindFlushes(s) ==
  /\ s \in unbinding
  /\ rdq' = [rdq EXCEPT ![s] = FALSE]
  /\ unbinding' = unbinding \ {s}
  /\ UNCHANGED <<listVars, bindVars, multiVars, irq, askedVars>>

\* The acknowledgement of a change that is made, or an error because it could
\* not be allocated.
Told(s, ack, new, why) ==
  /\ asked' = IF ack THEN [asked EXCEPT ![s] = new] ELSE asked
  /\ leftover' = [leftover EXCEPT ![s] =
                    IF ack THEN @ \ {why}
                    ELSE IF new = asked[s] THEN @ ELSE @ \cup {why}]

\* DL_PEER_BIND of a group address, and of 0 for all packets.
SubsBindGroup(s, g, ack) ==
  /\ Request(s)
  /\ dlpi_state[s] = "idle" /\ dlsap[s] \in Basic8022
  /\ group_sap' = [group_sap EXCEPT ![s] = @ \cup {g}]
  /\ asked' = IF ack THEN [asked EXCEPT ![s].groups = @ \cup {g}] ELSE asked
  /\ leftover' = IF ack \/ g \in group_sap[s] THEN leftover
                 ELSE [leftover EXCEPT ![s] = @ \cup {"group"}]
  /\ UNCHANGED <<listVars, dlpi_state, dlsap, snapStream, snap, acceptAll, multiVars, rdq,
                 unbinding, irq>>

SubsBindAll(s, ack) ==
  /\ Request(s)
  /\ dlpi_state[s] = "idle" /\ dlsap[s] \in Basic8022
  /\ acceptAll' = [acceptAll EXCEPT ![s] = TRUE]
  /\ Told(s, ack, [asked[s] EXCEPT !.all = TRUE], "all")
  /\ UNCHANGED <<listVars, dlpi_state, dlsap, snapStream, snap, group_sap, multiVars, rdq,
                 unbinding, irq>>

\* DL_HIERARCHICAL_BIND.
SubsBindSnap(s, x, ack) ==
  /\ Request(s)
  /\ dlpi_state[s] = "idle" /\ dlsap[s] = "AA"
  /\ ~snapStream[s]
  /\ snapStream' = [snapStream EXCEPT ![s] = TRUE]
  /\ snap' = [snap EXCEPT ![s] = x]
  /\ Told(s, ack, [asked[s] EXCEPT !.snap = x], "snap")
  /\ UNCHANGED <<listVars, dlpi_state, dlsap, acceptAll, group_sap, multiVars, rdq,
                 unbinding, irq>>

\* An address of one byte is a group address, of five bytes a SNAP; two bytes,
\* which is how group addresses are bound, are not looked at.  The stream is no
\* longer bound to a SNAP in any case.
SubsUnbind(s, length, g) ==
  /\ Request(s)
  /\ dlpi_state[s] = "idle"
  /\ length = 1 => dlsap[s] \in Basic8022
  /\ length = 5 => dlsap[s] = "AA" /\ snapStream[s]
  /\ group_sap' = IF length = 1 THEN [group_sap EXCEPT ![s] = @ \ {g}] ELSE group_sap
  /\ snapStream' = [snapStream EXCEPT ![s] = FALSE]
  /\ snap' = [snap EXCEPT ![s] = NoSnap]
  /\ asked' = IF length = 5 THEN [asked EXCEPT ![s].snap = NoSnap]
                            ELSE [asked EXCEPT ![s].groups = @ \ {g}]
  /\ leftover' =
       LET unasked == (IF length = 2 /\ g \in group_sap[s] THEN {"group"} ELSE {})
                        \cup (IF length # 5 /\ snapStream[s] THEN {"snap"} ELSE {})
       IN  [leftover EXCEPT ![s] = (IF length = 5 THEN @ \ {"snap"} ELSE @) \cup unasked]
  /\ UNCHANGED <<listVars, dlpi_state, dlsap, acceptAll, multiVars, rdq, unbinding, irq>>

\* The address 0 of all packets, of two bytes as it is bound: the flag stays.
\* (Of one byte it is refused.)
SubsUnbindAll(s) ==
  /\ Request(s)
  /\ dlpi_state[s] = "idle"
  /\ snapStream' = [snapStream EXCEPT ![s] = FALSE]
  /\ snap' = [snap EXCEPT ![s] = NoSnap]
  /\ asked' = [asked EXCEPT ![s].all = FALSE]
  /\ leftover' = [leftover EXCEPT ![s] = @ \cup (IF acceptAll[s] THEN {"all"} ELSE {})
                                           \cup (IF snapStream[s] THEN {"snap"} ELSE {})]
  /\ UNCHANGED <<listVars, dlpi_state, dlsap, acceptAll, group_sap, multiVars, rdq,
                 unbinding, irq>>

DLPI_enable_multi(s, a) ==
  /\ Request(s)
  /\ a \notin multicast_list[s]
  /\ hostMulti[a] < MaxMulti
  /\ hostMulti' = [hostMulti EXCEPT ![a] = @ + 1]
  /\ multicast_list' = [multicast_list EXCEPT ![s] = @ \cup {a}]
  /\ acceptMulti' = [acceptMulti EXCEPT ![s] = TRUE]
  /\ UNCHANGED <<listVars, bindVars, disabling, rdq, unbinding, irq, askedVars>>

\* Taken out of the list; to free its memory runs Mac code.
DLPI_disable_multi(s, a) ==
  /\ Request(s)
  /\ a \in multicast_list[s]
  /\ multicast_list' = [multicast_list EXCEPT ![s] = @ \ {a}]
  /\ disabling' = [disabling EXCEPT ![s] = @ \cup {a}]
  /\ UNCHANGED <<listVars, bindVars, acceptMulti, hostMulti, rdq, unbinding, irq, askedVars>>

\* The rest of the request, and its acknowledgement.
MultiDisabled(s, a) ==
  /\ a \in disabling[s]
  /\ disabling' = [disabling EXCEPT ![s] = @ \ {a}]
  /\ hostMulti' = [hostMulti EXCEPT ![a] = @ - 1]
  /\ acceptMulti' = [acceptMulti EXCEPT ![s] = multicast_list[s] # {}]
  /\ UNCHANGED <<listVars, bindVars, multicast_list, rdq, unbinding, irq, askedVars>>

-----------------------------------------------------------------------------
\* Reception.

\* ipx: the source SAP is that of IPX too; to: a multicast address, or "me".
Packets ==
  {p \in [dsap : {"DIX", "SAP", "AA", "FF"} \cup Groups, ipx : BOOLEAN,
          snap : Snaps, to : Multicasts \cup {"me"}] : p.ipx => p.dsap = "FF"}

\* The loop of ether_packet_received: whether a stream is found.
Wants(s, p) ==
  /\ dlpi_state[s] # "unbound"
  /\ \/ acceptAll[s] /\ Is8022(p.dsap)
     \/ p.dsap = dlsap[s] /\ (snapStream[s] => p.snap = snap[s])
     \/ p.dsap # dlsap[s] /\ ~p.ipx /\ p.dsap \in group_sap[s]
  /\ p.to \in Multicasts /\ acceptMulti[s] => p.to \in multicast_list[s]

\* receive_func, while the driver is open.
TriggerEther ==
  /\ ether_driver_opened
  /\ ~irq
  /\ irq' = TRUE
  /\ UNCHANGED <<listVars, bindVars, multiVars, rdq, unbinding, askedVars>>

\* EtherIRQ with a packet: the last stream gets it and the others duplicates,
\* as far as messages can be allocated.  (A duplicate that cannot be is not
\* followed, because it is used all the same.)
EtherIRQ(p) ==
  /\ irq
  /\ \E failed \in SUBSET {s \in dlpi_stream_list : Wants(s, p)} :
       rdq' = [s \in Streams |-> rdq[s] \/ (s \in dlpi_stream_list \ failed /\ Wants(s, p))]
  /\ irq' \in BOOLEAN           \* there may be more packets
  /\ UNCHANGED <<listVars, bindVars, multiVars, unbinding, askedVars>>

\* ether_rsrv and M_FLUSH: the queue is passed up, or thrown away.
ether_rsrv(s) ==
  /\ s \in opened
  /\ rdq[s]
  /\ rdq' = [rdq EXCEPT ![s] = FALSE]
  /\ UNCHANGED <<listVars, bindVars, multiVars, unbinding, irq, askedVars>>

-----------------------------------------------------------------------------

WPut(s) ==
  \/ \E sap \in Protocols[s] : DLPI_bind(s, sap)
  \/ DLPI_unbind(s)
  \/ \E ack \in BOOLEAN :
       \/ \E g \in Groups : SubsBindGroup(s, g, ack)
       \/ SubsBindAll(s, ack)
       \/ \E x \in Snaps : SubsBindSnap(s, x, ack)
  \/ \E length \in {1, 2, 5}, g \in Groups : SubsUnbind(s, length, g)
  \/ SubsUnbindAll(s)
  \/ \E a \in Multicasts :
       DLPI_enable_multi(s, a) \/ DLPI_disable_multi(s, a) \/ MultiDisabled(s, a)

EtherNext ==
  \/ InitStreamModule \/ TerminateStreamModule
  \/ \E s \in Streams : ether_open(s) \/ ether_close(s) \/ WPut(s) \/ UnbindFlushes(s)
                          \/ ether_rsrv(s)
  \/ TriggerEther
  \/ \E p \in Packets : EtherIRQ(p)

EtherSpec == EtherInit /\ [][EtherNext]_etherVars

-----------------------------------------------------------------------------
\* Properties.

\* The multicast addresses a client was told its stream has: one that it
\* disables is among them until the request is acknowledged.
Registered(s) == multicast_list[s] \cup disabling[s]

\* What a client was told that its stream gets.
Asked(s, p) ==
  /\ dlpi_state[s] = "idle"
  /\ \/ p.dsap = dlsap[s] /\ asked[s].snap \in {NoSnap, p.snap}
     \/ asked[s].all /\ Is8022(p.dsap)
     \/ ~p.ipx /\ dlsap[s] \in Basic8022 /\ p.dsap \in asked[s].groups \cup {"FF"}
  /\ p.to \in Multicasts => Registered(s) = {} \/ p.to \in Registered(s)

\* Whatever was bound, added and taken away before, a stream gets exactly the
\* packets its client was told it gets, nothing is left in the queue of a
\* stream that was unbound, and the host listens to every multicast address a
\* stream has.  The exceptions are the ones the code has: a multicast address
\* in the middle of its disabling; and, until the stream is bound again or
\* closed, an acknowledgement that could not be allocated, an unbind of two
\* bytes, and a SNAP that went with a group address.  The flag for all packets,
\* which survives every unbind, makes one until the stream is closed or asks
\* for all packets again.
DeliveredAsAsked ==
  LET streams == dlpi_stream_list \cap opened
  IN  /\ \A s \in streams, p \in Packets :
           /\ Asked(s, p) /\ "snap" \notin leftover[s] /\ p.to \notin disabling[s] => Wants(s, p)
           /\ Wants(s, p) /\ leftover[s] = {} => Asked(s, p)
      /\ \A s \in streams : dlpi_state[s] = "unbound" /\ s \notin unbinding => ~rdq[s]
      /\ \A a \in Multicasts :
           hostMulti[a] >= Cardinality({s \in streams : a \in Registered(s)})
=============================================================================
