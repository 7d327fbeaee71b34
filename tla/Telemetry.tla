----------------------------- MODULE Telemetry ------------------------------
(***************************************************************************)
(* Input from the DS to the PC.  Every frame of a session the DS reads its *)
(* buttons, stylus and on-screen keyboard, evaluates the remap rows and    *)
(* sends a snapshot (input.c, nifi_net.c), signed when its user turned     *)
(* HMAC on (hmac_auth.c).  Radio and UDP may lose, duplicate or reorder    *)
(* it.  The PC checks the signature and its sequence number when run with  *)
(* --hmac (hmac_host.cpp), points the magnifier, and turns the difference  *)
(* to the snapshot before into key events (input_inject.cpp).              *)
(*                                                                         *)
(* Keys are those of the host's operating system: the remap outputs and    *)
(* the on-screen keyboard share them.  Signatures are ideal: they verify.  *)
(***************************************************************************)
EXTENDS Naturals, SequencesExt

CONSTANTS
  Rows,         \* remap rows, one per DS button (12)
  Outputs,      \* the virtual outputs, by their place in the key popup
  KeyOf,        \* the key bound to an output
  Defaults,     \* the table of load_default_remaps
  Typeable,     \* the keys the on-screen keyboard can type
  Lenses,       \* magnifier settings on offer
  MaxSeq,       \* bound: snapshots the DS signs in one run, below 2^32
  NetCap,       \* snapshots in flight
  MaxFaults     \* bound: snapshots lost, duplicated or reordered

ASSUME TelemetryAssumption ==
  /\ {Rows, NetCap} \subseteq Nat \ {0}
  /\ {MaxSeq, MaxFaults} \subseteq Nat
  /\ Outputs \subseteq Nat \ {0}
  /\ DOMAIN KeyOf = Outputs
  /\ \A a, b \in Outputs : KeyOf[a] = KeyOf[b] => a = b
  /\ Defaults \in [1 .. Rows -> (Outputs \cup {0}) \X {0}]
  /\ Typeable # {} /\ 0 \notin Typeable
  /\ Lenses # {}

VARIABLES
  connected,   \* s_conn_state = CONN_CONNECTED
  table,       \* s_remap_table and s_remap_secondary: two outputs a row
  held,        \* the rows whose button was held in the last snapshot
  lens,        \* g_cfg's magnifier settings
  signing,     \* g_cfg.hmac_enabled
  hmacSeq,     \* s_hmac_seq
  net,         \* snapshots on their way to the PC, in the order sent
  faults,      \* faults still to come
  checking,    \* cfg.hmac_enabled of the PC, which --hmac sets for good
  lastSeen,    \* s_last_seen_seq
  prev,        \* s_prev_remap_a, s_prev_remap_b
  down,        \* keys the operating system takes for pressed
  hostLens,    \* the magnifier of capture.cpp
  shownLens,   \* the magnifier of the last frame captured
  force,       \* s_force_keyframe
  isKeyframe,  \* whether the last frame captured went out as a keyframe
  lastAge      \* history: how the last snapshot applied relates to others

client == <<connected, table, held, lens, signing, hmacSeq>>
host == <<checking, lastSeen, prev, down, hostLens, shownLens, force, isKeyframe, lastAge>>
vars == <<client, net, faults, host>>

\* A snapshot is late once a younger one is applied.
Ages == {"new", "late"}

\* No output, one, or two different ones.
OutputPairs ==
  {p \in (Outputs \cup {0}) \X (Outputs \cup {0}) :
     p[2] # 0 => p[1] \notin {0, p[2]}}

Snapshots ==
  [signed : BOOLEAN, seq : 0 .. MaxSeq, out : OutputPairs,
   key : Typeable \cup {0}, lens : Lenses, age : Ages]

Init ==
  /\ connected = FALSE
  /\ table = Defaults
  /\ held = {}
  /\ lens = CHOOSE l \in Lenses : TRUE
  /\ signing = FALSE
  /\ hmacSeq = 0
  /\ net = <<>>
  /\ faults = MaxFaults
  /\ checking \in BOOLEAN
  /\ lastSeen = 0
  /\ prev = <<0, 0>>
  /\ down = {}
  /\ hostLens = lens
  /\ shownLens = lens
  /\ force = TRUE
  /\ isKeyframe = FALSE
  /\ lastAge = "new"
-----------------------------------------------------------------------------
\* Seeded fault: an output two rows share is taken twice.
AddAny(pair, output) ==
  IF output = 0 THEN pair
  ELSE IF pair[1] = 0 THEN <<output, pair[2]>>
  ELSE IF pair[2] = 0 THEN <<pair[1], output>>
  ELSE pair

\* remap_add_unique
AddUnique(pair, output) ==
  IF output \in {0, pair[1], pair[2]} THEN pair
  ELSE IF pair[1] = 0 THEN <<output, pair[2]>>
  ELSE IF pair[2] = 0 THEN <<pair[1], output>>
  ELSE pair

AddRow(pair, row) == AddUnique(AddUnique(pair, row[1]), row[2])

\* evaluate_remaps: the rows held, in order; what comes third is left out.
Evaluate(rows) ==
  LET pair[r \in 0 .. Rows] ==
        IF r = 0 THEN <<0, 0>>
        ELSE IF r \in rows THEN AddRow(pair[r - 1], table[r])
        ELSE pair[r - 1]
  IN pair[Rows]

\* The session comes and goes.
Connect ==
  /\ connected' = ~connected
  /\ UNCHANGED <<table, held, lens, signing, hmacSeq, net, faults, host>>

\* What one or two keys chosen in the popup give, in the popup's order.
PopupPairs == {p \in OutputPairs : p[1] # 0 /\ (p[2] # 0 => p[1] < p[2])}

\* APPLY in the key popup of the remap overlay; the row's button may be held.
Remap(row, choice) ==
  /\ table' = [table EXCEPT ![row] = choice]
  /\ UNCHANGED <<connected, held, lens, signing, hmacSeq, net, faults, host>>

\* The MAG and MODE buttons.
TurnLens(l) ==
  /\ lens' = l
  /\ UNCHANGED <<connected, table, held, signing, hmacSeq, net, faults, host>>

\* SELECT+R
ToggleHmac ==
  /\ signing \/ hmacSeq < MaxSeq
  /\ signing' = ~signing
  /\ UNCHANGED <<connected, table, held, lens, hmacSeq, net, faults, host>>

\* Seeded fault: a snapshot is sent only when it differs from the one before.
FrameOnChange(rows, key) ==
  /\ signing => hmacSeq < MaxSeq
  /\ held' = rows
  /\ IF connected /\ (rows # held \/ key # 0)
       THEN /\ net' = IF Len(net) = NetCap THEN net
                      ELSE Append(net,
                        [signed |-> signing, seq |-> IF signing THEN hmacSeq ELSE 0,
                         out |-> Evaluate(rows), key |-> key, lens |-> lens,
                         age |-> "new"])
            /\ hmacSeq' = IF signing THEN hmacSeq + 1 ELSE hmacSeq
       ELSE UNCHANGED <<net, hmacSeq>>
  /\ UNCHANGED <<connected, table, lens, signing, faults, host>>

\* dsrd_input_poll and dsrd_nifi_send_telemetry: a frame of the DS.  A key
\* typed while there is no session is gone.
DsFrame(rows, key) ==
  /\ signing => hmacSeq < MaxSeq
  /\ held' = rows
  /\ IF connected
       THEN /\ net' = IF Len(net) = NetCap THEN net
                      ELSE Append(net,
                        [signed |-> signing, seq |-> IF signing THEN hmacSeq ELSE 0,
                         out |-> Evaluate(rows), key |-> key, lens |-> lens,
                         age |-> "new"])
            /\ hmacSeq' = IF signing THEN hmacSeq + 1 ELSE hmacSeq
       ELSE UNCHANGED <<net, hmacSeq>>
  /\ UNCHANGED <<connected, table, lens, signing, faults, host>>

\* The DS is switched off and on again, which takes it so long that nothing
\* it sent before is in flight any more.
DsRestart ==
  /\ net = <<>>
  /\ connected' = FALSE
  /\ table' = Defaults
  /\ held' = {}
  /\ lens' = CHOOSE l \in Lenses : TRUE
  /\ signing' = FALSE
  /\ hmacSeq' = 0
  /\ UNCHANGED <<net, faults, host>>

Lose ==
  /\ faults > 0
  /\ net # <<>>
  /\ faults' = faults - 1
  /\ net' = Tail(net)
  /\ UNCHANGED <<client, host>>
-----------------------------------------------------------------------------
\* Seeded fault: the sequence number is checked against nothing.
VerifyAnySeq(s) == checking => s.signed

\* hmac_host_verify
Verify(s) ==
  checking => s.signed /\ ~(s.seq <= lastSeen /\ lastSeen # 0)

Active(pair) == {pair[1], pair[2]} \ {0}
Bound(outputs) == {KeyOf[v] : v \in outputs}

\* Seeded fault: the second output is not released.
InjectHalf(s) ==
  /\ down' = ((down \ {s.key}) \ Bound({prev[1]} \ (Active(s.out) \cup {0})))
               \cup Bound(Active(s.out) \ Active(prev))
  /\ prev' = s.out

\* input_inject_process: the key typed is pressed and released, the outputs
\* that are no longer active are released, then the new ones are pressed.
Inject(s) ==
  /\ down' = ((down \ {s.key}) \ Bound(Active(prev) \ Active(s.out)))
               \cup Bound(Active(s.out) \ Active(prev))
  /\ prev' = s.out

\* Seeded fault: an unchanged magnifier takes back a keyframe asked for.
PointLensAnew(l) ==
  /\ hostLens' = l
  /\ force' = (l # hostLens)

\* capture_set_magnifier and encoder_force_keyframe
PointLens(l) ==
  /\ hostLens' = l
  /\ force' = (force \/ l # hostLens)

Apply(s) ==
  /\ lastSeen' = IF checking THEN s.seq ELSE lastSeen
  /\ PointLens(s.lens)
  /\ Inject(s)
  /\ lastAge' = s.age
  /\ UNCHANGED <<checking, shownLens, isKeyframe>>

\* How the i-th snapshot's being applied ages the ones in flight.
Aged(i) ==
  [j \in 1 .. Len(net) |->
     IF j < i THEN [net[j] EXCEPT !.age = "late"] ELSE net[j]]

\* The drain loop of the PC's main loop, a datagram at a time: the oldest, or
\* by a fault a younger one, of which by another fault a copy stays behind.
HostReceive(i, copied) ==
  /\ i \in 1 .. Len(net)
  /\ faults' = faults - (IF i = 1 THEN 0 ELSE 1) - (IF copied THEN 1 ELSE 0)
  /\ faults' >= 0
  /\ LET after == IF Verify(net[i]) THEN Aged(i) ELSE net IN
       net' = IF copied THEN after ELSE RemoveAt(after, i)
  /\ IF Verify(net[i]) THEN Apply(net[i]) ELSE UNCHANGED host
  /\ UNCHANGED client

\* capture_frame and encoder_encode, as far as the magnifier goes.
Capture ==
  /\ shownLens' = hostLens
  /\ isKeyframe' \in {TRUE, force}
  /\ force' = FALSE
  /\ UNCHANGED <<client, net, faults, checking, lastSeen, prev, down, hostLens,
                 lastAge>>

DsInput == \E rows \in SUBSET (1 .. Rows), key \in Typeable \cup {0} : DsFrame(rows, key)
\* A frame in which the user changes and types nothing.
DsIdle == DsFrame(held, 0)
HostOldest == HostReceive(1, FALSE)

Next ==
  \/ Connect \/ ToggleHmac \/ DsInput \/ DsRestart \/ Lose \/ Capture
  \/ \E row \in 1 .. Rows, choice \in PopupPairs : Remap(row, choice)
  \/ \E l \in Lenses : TurnLens(l)
  \/ \E i \in 1 .. NetCap, copied \in BOOLEAN : HostReceive(i, copied)

\* The DS runs sixty frames a second, more than its user has doings, and the PC
\* takes what has arrived.
Spec == Init /\ [][Next]_vars /\ WF_vars(DsIdle) /\ WF_vars(HostOldest)
-----------------------------------------------------------------------------
\* The outputs sent are two different ones, the first filled first, whatever rows
\* share an output.
TypeOK ==
  /\ connected \in BOOLEAN /\ signing \in BOOLEAN
  /\ table \in [1 .. Rows -> OutputPairs]
  /\ held \subseteq 1 .. Rows
  /\ {lens, hostLens, shownLens} \subseteq Lenses
  /\ hmacSeq \in 0 .. MaxSeq /\ lastSeen \in 0 .. MaxSeq
  /\ net \in Seq(Snapshots) /\ Len(net) <= NetCap
  /\ faults \in 0 .. MaxFaults
  /\ prev \in OutputPairs
  /\ down \subseteq Bound(Outputs)
  /\ checking \in BOOLEAN /\ force \in BOOLEAN /\ isKeyframe \in BOOLEAN
  /\ lastAge \in Ages

\* No key hangs: the operating system takes for pressed only what the snapshot
\* applied last asks for, after any sequence of presses, remaps of rows that
\* are held, outputs that swap places, losses and copies.
NoHangingKey == down \subseteq Bound(Active(prev))

\* Once the user has let go for good and the session lasts, every key comes up
\* although snapshots were lost on the way (unsigned ones, which the bound on
\* sequence numbers does not end).
KeysComeUp ==
  <>[](connected /\ held = {} /\ ~signing /\ ~checking) => <>[](down = {})

\* With --hmac the input of a DS is applied in the order it was made: a snapshot
\* that arrives after a younger one changes nothing, across restarts of the DS.
InOrder == checking => lastAge # "late"

\* The picture jumps with the magnifier: the first frame captured with another
\* setting is a keyframe, however many snapshots came between two frames.
LensByKeyframe ==
  [][shownLens' # shownLens => isKeyframe']_vars
=============================================================================
