----------------------------- MODULE WlBackend ------------------------------
(***************************************************************************)
(* The Wii's radio (wl_backend.c): the driver is set up by the first call  *)
(* that needs it, and again by the next if that failed; frames go through  *)
(* one send buffer, which the ACK timer's callback (ack_spoof.c) shares    *)
(* with the main loop (nifi_tx.c).                                         *)
(*                                                                         *)
(* Of a frame's header two words differ between the loop's and an ACK: the *)
(* one with its type and the one with its length.  memcpy writes upwards,  *)
(* and the ACK ends with its header.  A call of the driver, and the set-up *)
(* of it, are not cut in two by the callback.                              *)
(***************************************************************************)
EXTENDS Integers, Sequences

CONSTANTS
  PayloadMax, \* samples that 0x200 bytes hold besides the headers (471)
  Heaps       \* heaps IOS can give; none is ever given back

ASSUME WlAssumption == {PayloadMax, Heaps} \subseteq Nat

VARIABLES
  inited,     \* s_inited
  held,       \* what of the driver is held: s_ncd_rights, s_heap_id, s_wd_fd, s_send_buf
  locked,     \* IOS's side of it: the NCD lock is taken
  heaps,      \* heaps left
  buffer,     \* s_send_buf: type, length and payload
  sending,    \* where the main loop stands in WL_SendRawFrame
  frame       \* what it sends, NoFrame if nothing

wl == <<inited, held, locked, heaps, buffer, sending, frame>>
driver == <<inited, held, locked, heaps>>

NoFrame == <<>>
Blank == [type |-> "none", length |-> 0, payload |-> NoFrame]
Resources == {"rights", "heap", "wd", "buffer"}
Stages == {"idle", "type", "length", "payload", "ioctl"}

WlInit ==
  /\ inited = FALSE /\ held = {} /\ locked = FALSE /\ heaps = Heaps
  /\ buffer = Blank
  /\ sending = "idle" /\ frame = NoFrame

\* wl_unlock_driver forgets the rights, also when the manager cannot be opened
\* or refuses: then the lock stays.
Unlock(got) ==
  /\ held' = got \ {"rights"}
  /\ locked' \in IF "rights" \in got THEN BOOLEAN ELSE {locked}

\* Seeded fault: the driver stays open.
ShutdownKeepsWd(got) == Unlock(got \ {"heap", "buffer"})

\* wl_shutdown.  The buffer goes only with the heap it is in; the heap itself
\* is forgotten, not given back.
Shutdown(got) ==
  Unlock(got \ ({"wd", "heap"} \cup IF "heap" \in got THEN {"buffer"} ELSE {}))

\* wl_init_once: the lock, the heap, the driver and the buffer, or it fails at
\* one of them.
InitOnce ==
  \/ UNCHANGED driver   \* it is up, or the manager gives no lock
  \/ ~inited /\ Unlock(held \cup {"rights"}) /\ UNCHANGED <<inited, heaps>>
  \/ /\ ~inited /\ heaps > 0 /\ heaps' = heaps - 1
     /\ \/ Shutdown(held \cup {"rights", "heap"}) /\ UNCHANGED inited
        \/ Shutdown(held \cup {"rights", "heap", "wd"}) /\ UNCHANGED inited
        \/ inited' = TRUE /\ held' = Resources /\ locked' = TRUE

\* nifi_tx_send, WL_SendRawFrame: the frame is lost if the driver is not up.
SendStart(data) ==
  /\ sending = "idle"
  /\ InitOnce
  /\ IF inited' THEN sending' = "type" /\ frame' = data ELSE UNCHANGED <<sending, frame>>
  /\ UNCHANGED buffer

\* Seeded fault: the copy goes downwards.
CopyDown ==
  /\ \/ sending = "type" /\ sending' = "length" /\ buffer' = [buffer EXCEPT !.payload = frame]
     \/ sending = "length" /\ sending' = "payload" /\ buffer' = [buffer EXCEPT !.length = Len(frame)]
     \/ sending = "payload" /\ sending' = "ioctl" /\ buffer' = [buffer EXCEPT !.type = "chunk"]
  /\ UNCHANGED <<driver, frame>>

\* memcpy into s_send_buf.
CopyUp ==
  /\ \/ sending = "type" /\ sending' = "length" /\ buffer' = [buffer EXCEPT !.type = "chunk"]
     \/ sending = "length" /\ sending' = "payload" /\ buffer' = [buffer EXCEPT !.length = Len(frame)]
     \/ sending = "payload" /\ sending' = "ioctl" /\ buffer' = [buffer EXCEPT !.payload = frame]
  /\ UNCHANGED <<driver, frame>>

\* ack_timer_callback: the whole of WL_SendRawFrame, at any moment.
AckTimer ==
  /\ InitOnce
  /\ buffer' = IF inited' THEN [buffer EXCEPT !.type = "ack", !.length = 0] ELSE buffer
  /\ UNCHANGED <<sending, frame>>

\* The ioctl sends the buffer; frames longer than it holds are cut.  What is left
\* in it the next frame writes over.
SendDone ==
  /\ sending = "ioctl"
  /\ sending' = "idle" /\ frame' = NoFrame
  /\ buffer' = Blank
  /\ UNCHANGED driver

\* What a receiver takes for a chunk: nothing if less arrived than announced.
OnAir ==
  IF buffer.type = "chunk" /\ buffer.length <= PayloadMax
    THEN SubSeq(buffer.payload, 1, buffer.length) ELSE NoFrame
IsChunk == buffer.type = "chunk" /\ buffer.length <= PayloadMax
=============================================================================
