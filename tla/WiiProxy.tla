------------------------------ MODULE WiiProxy ------------------------------
(***************************************************************************)
(* The Wii side of a session: the main loop of wii_proxy/source/main.c.    *)
(*                                                                         *)
(* The loop is single threaded.  An iteration reads the pads, passes the   *)
(* launch gate, runs the connection state machine, forwards one datagram   *)
(* of the PC and handles one frame of the DS; wiiPc says which comes next. *)
(* Announces and heartbeats are counted in iterations, the watchdog in     *)
(* time: quiet is the age of heartbeat_last_rx_ticks in clock ticks.       *)
(***************************************************************************)
EXTENDS Radio

CONSTANTS
  Modes,             \* launch modes on offer; OTA only with haxxstation.nds
  AnnounceInterval,  \* DSRD_ANNOUNCE_INTERVAL (60), in iterations here
  WiiHeartbeat,      \* DSRD_HEARTBEAT_INTERVAL (30), in iterations here
  WiiTimeout,        \* DSRD_HEARTBEAT_TIMEOUT_MS, in ticks
  PcStreams          \* whether the PC has datagrams to forward

VARIABLES
  wiiPc,       \* the next phase of the loop, or "off"
  wiiConn,     \* conn_state
  launch,      \* launch_mode
  wiiToken,    \* session_token
  announce,    \* announce_timer
  wiiBeat,     \* heartbeat_timer
  quiet,       \* ticks since heartbeat_last_rx_ticks, up to WiiTimeout
  accepted     \* history: the tokens of every JOIN accepted so far

ASSUME WiiAssumption ==
  /\ Modes # {} /\ Modes \subseteq {"FLASHCART", "OTA"}
  /\ AnnounceInterval \in Nat \ {0}
  /\ WiiHeartbeat \in Nat \ {0}
  /\ WiiTimeout \in Nat \ {0}
  /\ PcStreams \in BOOLEAN

wiiVars == <<wiiPc, wiiConn, launch, wiiToken, announce, wiiBeat, quiet>>
timers == <<announce, wiiBeat, quiet>>

WiiTypeOK ==
  /\ wiiPc \in {"off", "pads", "menu", "machine", "forward"}
  /\ wiiConn \in {"IDLE", "ANNOUNCING", "CONNECTED"}
  /\ launch \in Modes \cup {"NONE"}
  /\ wiiToken \in Tokens \cup {NoToken}
  /\ announce \in 0 .. AnnounceInterval
  /\ wiiBeat \in 0 .. WiiHeartbeat
  /\ quiet \in 0 .. WiiTimeout
  /\ accepted \subseteq Tokens \cup {NoToken}

\* The program is not running: its variables have their initial values.
WiiInit ==
  /\ wiiPc = "off"
  /\ wiiConn = "IDLE"
  /\ launch = "NONE"
  /\ wiiToken = NoToken
  /\ announce = 0
  /\ wiiBeat = 0
  /\ quiet = 0
  /\ accepted = {}

-----------------------------------------------------------------------------
\* main() up to the loop; the session starts locked.
WiiBoot ==
  /\ wiiPc = "off"
  /\ wiiPc' = "pads"
  /\ wiiToken' \in WiiTokens
  /\ UNCHANGED <<wiiConn, launch, timers, accepted, radioVars>>

\* HOME leaves the loop and returns from main.
WiiExit ==
  /\ wiiPc = "pads"
  /\ wiiPc' = "off" /\ wiiConn' = "IDLE" /\ launch' = "NONE"
  /\ wiiToken' = NoToken /\ announce' = 0 /\ wiiBeat' = 0 /\ quiet' = 0
  /\ UNCHANGED <<accepted, radioVars>>

\* MINUS opens the IP manager, which blocks the loop until it is closed.
WiiMenu ==
  /\ wiiPc = "pads"
  /\ wiiPc' = "menu"
  /\ UNCHANGED <<wiiConn, launch, wiiToken, timers, accepted, radioVars>>

\* The launch gate comes right after the pads, or after the menu they opened.
AtGate == wiiPc \in {"pads", "menu"}

\* A or B arms a session; the loop continues with the next iteration.
WiiArm(mode) ==
  /\ AtGate
  /\ launch = "NONE"
  /\ launch' = mode
  /\ wiiConn' = "ANNOUNCING"
  /\ announce' = AnnounceInterval
  /\ wiiBeat' = 0
  /\ quiet' = 0
  /\ wiiToken' \in WiiTokens
  /\ wiiPc' = "pads"
  /\ UNCHANGED <<accepted, radioVars>>

\* Locked, and nobody arms: the rest of the iteration is skipped.
WiiLocked ==
  /\ AtGate
  /\ launch = "NONE"
  /\ wiiPc' = "pads"
  /\ UNCHANGED <<wiiConn, launch, wiiToken, timers, accepted, radioVars>>

WiiPassGate ==
  /\ AtGate
  /\ launch # "NONE"
  /\ wiiPc' = "machine"
  /\ UNCHANGED <<wiiConn, launch, wiiToken, timers, accepted, radioVars>>

-----------------------------------------------------------------------------
\* The connection state machine.

Announce ==
  /\ IF announce + 1 >= AnnounceInterval
       THEN announce' = 0 /\ toDs' = Push(toDs, Frame("ANNOUNCE", wiiToken))
       ELSE announce' = announce + 1 /\ UNCHANGED toDs
  /\ UNCHANGED <<wiiConn, launch, wiiBeat, quiet>>

\* Seeded faults: a session that ends keeps its launch mode, or goes back to
\* announcing by itself.
LockKeepsMode ==
  /\ wiiConn' = "IDLE"
  /\ announce' = 0
  /\ UNCHANGED launch

LockReannounces ==
  /\ wiiConn' = "ANNOUNCING"
  /\ announce' = 0
  /\ UNCHANGED launch

\* Back to the launch gate.
Lock ==
  /\ wiiConn' = "IDLE"
  /\ launch' = "NONE"
  /\ announce' = 0

\* Seeded fault: sending a heartbeat counts as hearing one.
KeepAliveFeedsWatchdog ==
  /\ wiiBeat' = 0
  /\ toDs' = Push(toDs, Frame("HEARTBEAT", NoToken))
  /\ quiet' = 0
  /\ UNCHANGED <<wiiConn, launch, announce>>

KeepAlive ==
  /\ IF wiiBeat + 1 >= WiiHeartbeat
       THEN wiiBeat' = 0 /\ toDs' = Push(toDs, Frame("HEARTBEAT", NoToken))
       ELSE wiiBeat' = wiiBeat + 1 /\ UNCHANGED toDs
  /\ IF quiet >= WiiTimeout
       THEN Lock /\ quiet' = 0
       ELSE UNCHANGED <<wiiConn, launch, announce, quiet>>

WiiMachine ==
  /\ wiiPc = "machine"
  /\ wiiPc' = "forward"
  /\ IF wiiConn = "ANNOUNCING" THEN Announce
     ELSE IF wiiConn = "CONNECTED" THEN KeepAlive
     ELSE IF wiiConn = "LOST" THEN Lock /\ UNCHANGED <<wiiBeat, quiet, toDs>>
     ELSE UNCHANGED <<wiiConn, launch, timers, toDs>>
  /\ UNCHANGED <<wiiToken, accepted, toWii, faults>>

-----------------------------------------------------------------------------
\* A JOIN is accepted in every state as long as the session is armed.
HandleJoin(token, down) ==
  /\ wiiToken' = token
  /\ toDs' = Push(down, Frame("ACCEPT", token))
  /\ accepted' = accepted \cup {token}
  /\ wiiConn' = "CONNECTED"
  /\ wiiBeat' = 0
  /\ quiet' = 0
  /\ UNCHANGED <<launch, announce>>

HandleBye(down) ==
  /\ Lock
  /\ quiet' = 0
  /\ toDs' = down
  /\ UNCHANGED <<wiiToken, wiiBeat, accepted>>

\* A heartbeat always counts as activity, other traffic only in a session.
HandleActivity(kind, down) ==
  /\ quiet' = IF kind = "HEARTBEAT" \/ (kind = "DATA" /\ wiiConn = "CONNECTED")
                THEN 0 ELSE quiet
  /\ toDs' = down
  /\ UNCHANGED <<wiiConn, launch, wiiToken, announce, wiiBeat, accepted>>

\* What the radio holds once the datagram of the PC, if any, is forwarded:
\* only in a session.
Downstream ==
  {toDs} \cup IF PcStreams /\ wiiConn = "CONNECTED"
                THEN {Push(toDs, Frame("DATA", NoToken))} ELSE {}

\* Seeded fault: a JOIN is accepted whether or not a session is armed.
ForwardUnguarded ==
  /\ wiiPc = "forward"
  /\ wiiPc' = "pads"
  /\ \E down \in Downstream :
       IF toWii = <<>>
         THEN /\ toDs' = down
              /\ UNCHANGED <<wiiConn, launch, wiiToken, timers, accepted, toWii>>
         ELSE /\ toWii' = Tail(toWii)
              /\ IF Head(toWii).kind = "JOIN"
                   THEN HandleJoin(Head(toWii).token, down)
                   ELSE HandleActivity(Head(toWii).kind, down)
  /\ UNCHANGED faults

\* Seeded fault: a JOIN is answered only while announcing, so that a DS whose
\* ACCEPT was lost is left without one.
ForwardAcceptsOnce ==
  /\ wiiPc = "forward"
  /\ wiiPc' = "pads"
  /\ \E down \in Downstream :
       IF toWii = <<>>
         THEN /\ toDs' = down
              /\ UNCHANGED <<wiiConn, launch, wiiToken, timers, accepted, toWii>>
         ELSE /\ toWii' = Tail(toWii)
              /\ LET frame == Head(toWii) IN
                   IF frame.kind = "JOIN" /\ wiiConn = "ANNOUNCING"
                     THEN HandleJoin(frame.token, down)
                     ELSE HandleActivity(frame.kind, down)
  /\ UNCHANGED faults

\* One datagram of the PC down, then one frame of the DS up.
WiiForward ==
  /\ wiiPc = "forward"
  /\ wiiPc' = "pads"
  /\ \E down \in Downstream :
       IF toWii = <<>>
         THEN /\ toDs' = down
              /\ UNCHANGED <<wiiConn, launch, wiiToken, timers, accepted, toWii>>
         ELSE /\ toWii' = Tail(toWii)
              /\ LET frame == Head(toWii) IN
                   IF frame.kind = "JOIN" /\ launch # "NONE"
                     THEN HandleJoin(frame.token, down)
                     ELSE IF frame.kind = "DISCONNECT"
                       THEN HandleBye(down)
                       ELSE HandleActivity(frame.kind, down)
  /\ UNCHANGED faults

WiiLoop ==
  \/ WiiExit \/ WiiMenu \/ (\E mode \in Modes : WiiArm(mode)) \/ WiiLocked
  \/ WiiPassGate \/ WiiMachine \/ WiiForward
=============================================================================
