------------------------------- MODULE DsLink -------------------------------
(***************************************************************************)
(* The DS side of a session: ds_client/arm9/source/nifi_net.c.             *)
(*                                                                         *)
(* dsrd_nifi_poll runs once per VBlank in the main loop.  nifi_rx_handler  *)
(* is called by dswifi from an interrupt and may preempt the poll between  *)
(* any two of its memory accesses, so the poll is cut into one action per  *)
(* access that the handler can race with; dsPc says where the main loop    *)
(* is.  Every timer counts polls.                                          *)
(***************************************************************************)
EXTENDS Radio

CONSTANTS
  ProbeInterval,   \* JOIN_PROBE_INTERVAL_FRAMES (60)
  ProbeBackoff,    \* JOIN_PROBE_BACKOFF_FRAMES (180)
  DsHeartbeat,     \* DSRD_HEARTBEAT_INTERVAL (30), in VBlanks
  DsTimeout        \* DSRD_HEARTBEAT_TIMEOUT_FRAMES (1800)

VARIABLES
  dsPc,         \* where the main loop is
  dsReady,      \* s_wifi_ready
  dsConn,       \* s_conn_state
  dsToken,      \* s_session_token
  outToken,     \* s_hs_outgoing.session_token
  hsPending,    \* s_hs_pending
  probeToken,   \* s_join_probe_token, less its base 0x44530000
  probeTimer,   \* s_join_probe_timer
  dsBeat,       \* s_heartbeat_timer
  watchdog,     \* s_heartbeat_watchdog
  wdReg,        \* the register between the load and the store of watchdog++
  txDropped,    \* s_tx_drop_no_buf > 0
  txDropNew     \* s_tx_drop_no_buf # s_last_tx_drop_seen

ASSUME DsTimerAssumption ==
  /\ ProbeInterval \in Nat \ {0}
  /\ ProbeBackoff \in Nat \ {0}
  /\ DsHeartbeat \in Nat \ {0}
  /\ DsTimeout \in Nat \ {0}

dsVars == <<dsPc, dsReady, dsConn, dsToken, outToken, hsPending, probeToken,
            probeTimer, dsBeat, watchdog, wdReg, txDropped, txDropNew>>

\* The states of the handshake proper, which most steps leave alone.
hsVars == <<dsToken, outToken, hsPending, probeToken>>
txVars == <<txDropped, txDropNew>>

DsPcs == {"off", "vblank", "check", "token", "fill", "send", "copy", "beat",
          "store", "tail"}

DsTypeOK ==
  /\ dsPc \in DsPcs
  /\ dsReady \in BOOLEAN
  /\ dsConn \in {"IDLE", "JOINING", "CONNECTED"}
  /\ dsToken \in Tokens \cup {NoToken}
  /\ outToken \in Tokens \cup {NoToken}
  /\ hsPending \in BOOLEAN
  /\ probeToken \in DsTokens
  /\ probeTimer \in Nat
  /\ dsBeat \in 0 .. DsHeartbeat
  /\ watchdog \in 0 .. DsTimeout - 1
  /\ wdReg \in 0 .. DsTimeout
  /\ txDropped \in BOOLEAN
  /\ txDropNew \in BOOLEAN

\* Power is off: the static variables have their initial values.
DsInit ==
  /\ dsPc = "off"
  /\ dsReady = FALSE
  /\ dsConn = "IDLE"
  /\ dsToken = NoToken
  /\ outToken = NoToken
  /\ hsPending = FALSE
  /\ probeToken = 0
  /\ probeTimer = 0
  /\ dsBeat = 0
  /\ watchdog = 0
  /\ wdReg = 0
  /\ txDropped = FALSE
  /\ txDropNew = FALSE

-----------------------------------------------------------------------------
NextProbe == (probeToken + 1) % TokenMod

\* dsrd_nifi_init.  If the radio does not come up the client runs on deaf
\* and mute; otherwise it starts by probing with a fresh token.
DsBoot ==
  /\ dsPc = "off"
  /\ dsPc' = "vblank"
  /\ \/ /\ dsReady' = FALSE
        /\ UNCHANGED <<dsConn, hsVars>>
     \/ /\ dsReady' = TRUE
        /\ probeToken' = NextProbe
        /\ dsToken' = NextProbe
        /\ outToken' = NextProbe
        /\ hsPending' = TRUE
        /\ dsConn' = "JOINING"
  /\ UNCHANGED <<probeTimer, dsBeat, watchdog, wdReg, txVars, radioVars>>

\* The user switches the DS off, anywhere.
DsPowerOff ==
  /\ dsPc # "off"
  /\ dsPc' = "off" /\ dsReady' = FALSE /\ dsConn' = "IDLE"
  /\ dsToken' = NoToken /\ outToken' = NoToken /\ hsPending' = FALSE
  /\ probeToken' = 0 /\ probeTimer' = 0 /\ dsBeat' = 0
  /\ watchdog' = 0 /\ wdReg' = 0
  /\ txDropped' = FALSE /\ txDropNew' = FALSE
  /\ UNCHANGED radioVars

\* nifi_raw_send: not ready, no transmit buffer (a fault), or on the air.
Transmit(frame) ==
  /\ UNCHANGED toDs
  /\ \/ /\ ~dsReady
        /\ UNCHANGED <<toWii, faults, txVars>>
     \/ /\ dsReady
        /\ toWii' = Push(toWii, frame)
        /\ UNCHANGED <<faults, txVars>>
     \/ /\ dsReady
        /\ faults > 0
        /\ faults' = faults - 1
        /\ txDropped' = TRUE
        /\ txDropNew' = TRUE
        /\ UNCHANGED toWii
-----------------------------------------------------------------------------
\* The probe block of dsrd_nifi_poll.

DsCheckConnected ==
  /\ dsPc = "check"
  /\ dsConn = "CONNECTED"
  /\ dsPc' = "send"
  /\ UNCHANGED <<dsReady, dsConn, hsVars, probeTimer, dsBeat, watchdog, wdReg,
                 txVars, radioVars>>

\* The probe timer as the poll counts it: a new drop restarts it.
ProbeTicks == (IF txDropNew THEN 0 ELSE probeTimer) + 1
ProbeLimit == IF txDropped THEN ProbeBackoff ELSE ProbeInterval

DsProbeWait ==
  /\ dsPc = "check"
  /\ dsConn # "CONNECTED"
  /\ ProbeTicks < ProbeLimit
  /\ probeTimer' = ProbeTicks
  /\ txDropNew' = FALSE
  /\ dsPc' = "send"
  /\ UNCHANGED <<dsReady, dsConn, hsVars, dsBeat, watchdog, wdReg, txDropped,
                 radioVars>>

DsProbeFire ==
  /\ dsPc = "check"
  /\ dsConn # "CONNECTED"
  /\ ProbeTicks >= ProbeLimit
  /\ probeTimer' = 0
  /\ txDropNew' = FALSE
  /\ dsPc' = "token"
  /\ UNCHANGED <<dsReady, dsConn, hsVars, dsBeat, watchdog, wdReg, txDropped,
                 radioVars>>

DsProbeToken ==
  /\ dsPc = "token"
  /\ probeToken' = NextProbe
  /\ dsToken' = NextProbe
  /\ dsPc' = "fill"
  /\ UNCHANGED <<dsReady, dsConn, outToken, hsPending, probeTimer, dsBeat,
                 watchdog, wdReg, txVars, radioVars>>

\* The message, the flag and the state, written without another look at the
\* state; a handler between these stores acts as one before the first of them.
DsProbeFill ==
  /\ dsPc = "fill"
  /\ outToken' = probeToken
  /\ hsPending' = TRUE
  /\ dsConn' = "JOINING"
  /\ dsPc' = "send"
  /\ UNCHANGED <<dsReady, dsToken, probeToken, probeTimer, dsBeat, watchdog,
                 wdReg, txVars, radioVars>>
-----------------------------------------------------------------------------
\* The send block: the flag is cleared before the message is copied.

DsSendClear ==
  /\ dsPc = "send"
  /\ hsPending' = FALSE
  /\ dsPc' = IF hsPending THEN "copy" ELSE "beat"
  /\ UNCHANGED <<dsReady, dsConn, dsToken, outToken, probeToken, probeTimer,
                 dsBeat, watchdog, wdReg, txVars, radioVars>>

DsSendJoin ==
  /\ dsPc = "copy"
  /\ Transmit(Frame("JOIN", outToken))
  /\ dsPc' = "beat"
  /\ UNCHANGED <<dsReady, dsConn, hsVars, probeTimer, dsBeat, watchdog, wdReg>>
-----------------------------------------------------------------------------
\* The connected block: the heartbeat, then watchdog++ as a load and a store.
\* The handler does not touch what the heartbeat does, so the load is in the
\* same step.

DsBeatSkip ==
  /\ dsPc = "beat"
  /\ dsConn # "CONNECTED"
  /\ dsPc' = "tail"
  /\ UNCHANGED <<dsReady, dsConn, hsVars, probeTimer, dsBeat, watchdog, wdReg,
                 txVars, radioVars>>

DsBeatWait ==
  /\ dsPc = "beat"
  /\ dsConn = "CONNECTED"
  /\ dsBeat + 1 < DsHeartbeat
  /\ dsBeat' = dsBeat + 1
  /\ wdReg' = watchdog + 1
  /\ dsPc' = "store"
  /\ UNCHANGED <<dsReady, dsConn, hsVars, probeTimer, watchdog, txVars,
                 radioVars>>

\* Seeded fault: the heartbeat timer is not reset after a heartbeat.
BeatSendNoReset ==
  /\ dsPc = "beat"
  /\ dsConn = "CONNECTED"
  /\ dsBeat + 1 >= DsHeartbeat
  /\ dsBeat' = dsBeat + 1
  /\ Transmit(Frame("HEARTBEAT", NoToken))
  /\ wdReg' = watchdog + 1
  /\ dsPc' = "store"
  /\ UNCHANGED <<dsReady, dsConn, hsVars, probeTimer, watchdog>>

\* Seeded fault: sending a heartbeat counts as hearing one.
BeatSendFeedsWatchdog ==
  /\ dsPc = "beat"
  /\ dsConn = "CONNECTED"
  /\ dsBeat + 1 >= DsHeartbeat
  /\ dsBeat' = 0
  /\ Transmit(Frame("HEARTBEAT", NoToken))
  /\ wdReg' = 0
  /\ dsPc' = "store"
  /\ UNCHANGED <<dsReady, dsConn, hsVars, probeTimer, watchdog>>

DsBeatSend ==
  /\ dsPc = "beat"
  /\ dsConn = "CONNECTED"
  /\ dsBeat + 1 >= DsHeartbeat
  /\ dsBeat' = 0
  /\ Transmit(Frame("HEARTBEAT", NoToken))
  /\ wdReg' = watchdog + 1
  /\ dsPc' = "store"
  /\ UNCHANGED <<dsReady, dsConn, hsVars, probeTimer, watchdog>>

\* Whatever the handler stored since the load is overwritten.
DsWatchdogStore ==
  /\ dsPc = "store"
  /\ IF wdReg >= DsTimeout
       THEN dsConn' = "IDLE" /\ watchdog' = 0
       ELSE watchdog' = wdReg /\ UNCHANGED dsConn
  /\ wdReg' = 0
  /\ dsPc' = "tail"
  /\ UNCHANGED <<dsReady, hsVars, probeTimer, dsBeat, txVars, radioVars>>

\* The rest of the frame: drain the rings, then telemetry if connected.
DsTail ==
  /\ dsPc = "tail"
  /\ IF dsConn = "CONNECTED"
       THEN Transmit(Frame("DATA", NoToken))
       ELSE UNCHANGED <<txVars, radioVars>>
  /\ dsPc' = "vblank"
  /\ UNCHANGED <<dsReady, dsConn, hsVars, probeTimer, dsBeat, watchdog, wdReg>>

DsPoll ==
  \/ DsCheckConnected \/ DsProbeWait \/ DsProbeFire \/ DsProbeToken
  \/ DsProbeFill \/ DsSendClear \/ DsSendJoin \/ DsBeatSkip \/ DsBeatWait
  \/ DsBeatSend \/ DsWatchdogStore \/ DsTail
-----------------------------------------------------------------------------
\* nifi_rx_handler: the whole interrupt is one action.  The radio must be up.

HandleAnnounce(token) ==
  IF dsConn # "CONNECTED"
    THEN /\ dsToken' = token
         /\ outToken' = token
         /\ hsPending' = TRUE
         /\ dsConn' = "JOINING"
         /\ UNCHANGED watchdog
    ELSE UNCHANGED <<dsToken, outToken, hsPending, dsConn, watchdog>>

\* Seeded fault: an ACCEPT is taken whatever its token.
HandleAnyAccept(token) ==
  /\ dsConn' = "CONNECTED"
  /\ watchdog' = 0
  /\ UNCHANGED <<dsToken, outToken, hsPending>>

HandleAccept(token) ==
  /\ IF token = dsToken
       THEN dsConn' = "CONNECTED" /\ watchdog' = 0
       ELSE UNCHANGED <<dsConn, watchdog>>
  /\ UNCHANGED <<dsToken, outToken, hsPending>>

HandleHeartbeat ==
  /\ watchdog' = IF dsConn = "CONNECTED" THEN 0 ELSE watchdog
  /\ UNCHANGED <<dsToken, outToken, hsPending, dsConn>>

\* No code sends DISCONNECT; this and data leave the session as it is here.
HandleOther(kind) ==
  /\ dsConn' = IF kind = "DISCONNECT" THEN "IDLE" ELSE dsConn
  /\ UNCHANGED <<dsToken, outToken, hsPending, watchdog>>

DsReceive ==
  /\ dsPc # "off"
  /\ dsReady
  /\ toDs # <<>>
  /\ toDs' = Tail(toDs)
  /\ LET frame == Head(toDs) IN
       \/ frame.kind = "ANNOUNCE" /\ HandleAnnounce(frame.token)
       \/ frame.kind = "ACCEPT" /\ HandleAccept(frame.token)
       \/ frame.kind = "HEARTBEAT" /\ HandleHeartbeat
       \/ /\ frame.kind \notin {"ANNOUNCE", "ACCEPT", "HEARTBEAT"}
          /\ HandleOther(frame.kind)
  /\ UNCHANGED <<dsPc, dsReady, probeToken, probeTimer, dsBeat, wdReg, txVars,
                 toWii, faults>>
=============================================================================
