------------------------------- MODULE BrakeBus -------------------------------
(****************************************************************************)
(* The CAN interface the two sensing nodes of one Pi share, as its users see *)
(* it: canbus/CanBus.cpp and python-can send without waiting, the kernel     *)
(* queues what it accepts and transmits it in order, and the ECU does what   *)
(* the last frame says, whoever sent it: both nodes use identifier 0x080.    *)
(****************************************************************************)
EXTENDS Naturals, Sequences

CONSTANT TxRoom   \* frames the interface's transmit queue holds

ASSUME TxRoomAssumption == TxRoom \in Nat \ {0}

VARIABLES
    hat,   \* the interface exists
    iface, \* it is up
    tx,    \* its transmit queue
    ecu    \* the last command the ECU received

bus == <<hat, iface, tx, ecu>>

Commands == {"engage", "disengage"}

BusTypeOK ==
    /\ hat \in BOOLEAN /\ iface \in BOOLEAN
    /\ tx \in Seq(Commands) /\ Len(tx) <= TxRoom
    /\ ecu \in Commands \cup {"none"}

\* An interface may still be up from before.
BusInit == hat \in BOOLEAN /\ iface \in {FALSE, hat} /\ tx = <<>> /\ ecu = "none"

\* ip link set down, which throws away what is queued; ip link set up.
InterfaceDown == iface' = FALSE /\ tx' = <<>> /\ UNCHANGED <<hat, ecu>>
InterfaceUp == hat /\ iface' = TRUE /\ UNCHANGED <<hat, tx, ecu>>

\* send() succeeds; it fails, and neither node does anything about it.
Accepted(command) ==
    /\ iface /\ Len(tx) < TxRoom
    /\ tx' = Append(tx, command)
    /\ UNCHANGED <<hat, iface, ecu>>

Refused == ~(iface /\ Len(tx) < TxRoom) /\ UNCHANGED bus

\* The oldest frame wins arbitration and reaches the ECU.
Transmitted ==
    /\ tx # <<>>
    /\ ecu' = Head(tx) /\ tx' = Tail(tx)
    /\ UNCHANGED <<hat, iface>>
================================================================================
