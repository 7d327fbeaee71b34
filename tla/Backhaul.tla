------------------------------ MODULE Backhaul ------------------------------
(***************************************************************************)
(* The Wii's UDP socket and the address it sends upstream packets to       *)
(* (backhaul.c): that of the configuration, until a datagram arrives, then *)
(* that of the last datagram's sender.                                     *)
(***************************************************************************)
EXTENDS Addresses, Integers, Sequences

CONSTANTS
  Hosts,      \* addresses of PCs that have the host program
  SocketCap   \* datagrams the socket holds

ASSUME BackhaulAssumption == Hosts \subseteq Ips /\ SocketCap \in Nat \ {0}

VARIABLES
  pc,        \* s_pc_addr
  socket,    \* the senders of the datagrams that wait in it
  talking,   \* the PCs that run the host program and send
  moved      \* history: a datagram moved the address since it was last chosen

backhaul == <<pc, socket, talking, moved>>

\* A PC is switched on or off, or sends; a full socket drops what comes.
Switch(p) ==
  /\ talking' = IF p \in talking THEN talking \ {p} ELSE talking \cup {p}
  /\ UNCHANGED <<pc, socket, moved>>

Talk(p) ==
  /\ p \in talking
  /\ Len(socket) < SocketCap
  /\ socket' = Append(socket, p)
  /\ UNCHANGED <<pc, talking, moved>>

\* backhaul_init, when network, socket and bind succeed.
BackhaulInit(ip) ==
  /\ pc' = ip
  /\ socket' = <<>>
  /\ moved' = FALSE
  /\ UNCHANGED talking

\* Seeded fault: the sender is remembered only the first time.
ReceiveFirst ==
  /\ socket # <<>>
  /\ pc' = IF moved THEN pc ELSE Head(socket)
  /\ moved' = TRUE
  /\ socket' = Tail(socket)
  /\ UNCHANGED talking

\* backhaul_recv
Receive ==
  /\ socket # <<>>
  /\ pc' = Head(socket)
  /\ moved' = TRUE
  /\ socket' = Tail(socket)
  /\ UNCHANGED talking

\* Seeded fault: the socket's address is not changed.
ReconnectLater(ip) ==
  /\ moved' = FALSE
  /\ UNCHANGED <<pc, socket, talking>>

\* backhaul_reconnect
Reconnect(ip) ==
  /\ pc' = ip
  /\ moved' = FALSE
  /\ UNCHANGED <<socket, talking>>

BackhaulTypeOK ==
  /\ pc \in Ips
  /\ socket \in Seq(Hosts) /\ Len(socket) <= SocketCap
  /\ talking \subseteq Hosts
  /\ moved \in BOOLEAN
=============================================================================
