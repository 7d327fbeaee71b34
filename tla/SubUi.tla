------------------------------- MODULE SubUi --------------------------------
(***************************************************************************)
(* The bottom screen of the DS (sub_ui.c) and how input.c uses it: a       *)
(* trackpad, a keyboard that slides in over it, a row of buttons, and an   *)
(* overlay that maps the DS's buttons to keys through a popup.  A frame of *)
(* the main loop animates the screen (sub_ui_update) and then routes the   *)
(* stylus, if it is down, to what lies under it (dsrd_input_poll).         *)
(*                                                                         *)
(* Geometry is the program's, in pixels; where the stylus may be is a      *)
(* constant.  The look of a pressed button is left out.  An output is its  *)
(* place in the key popup's list, 0 none.                                  *)
(***************************************************************************)
EXTENDS Integers, FiniteSets

CONSTANTS
  Points,       \* where the stylus is put: pairs <<x, y>>
  Rows,         \* NUM_BUTTONS (12)
  Options,      \* NUM_KEY_OPTS (48)
  MaskBits,     \* bits of s_remap_popup_mask (32)
  Defaults,     \* the output load_default_remaps gives each row
  KeyBoxes,     \* keys of the keyboard: [x, y, w, h, normal, shifted]
  SlideSpeed    \* SLIDE_SPEED (8)

ASSUME SubUiAssumption ==
  /\ Points \subseteq (0 .. 255) \X (0 .. 191)
  /\ {Rows, Options, MaskBits, SlideSpeed} \subseteq Nat \ {0}
  /\ Defaults \in [1 .. Rows -> 0 .. Options]

VARIABLES
  state,      \* s_state
  kbdTop,     \* s_kbd_top_px
  panel,      \* s_show_pad_panel
  shift,      \* s_shift
  zoom, mode, \* g_cfg's magnifier: 1 off, 2x or 3x; its mode
  debounce,   \* s_touch_debounce
  table,      \* s_remap_table and s_remap_secondary
  popup,      \* s_remap_popup_active
  target,     \* s_remap_popup_target, 0 none
  mask,       \* s_remap_popup_mask
  page,       \* s_key_opt_page
  mouse,      \* s_telem.touch_down
  typed,      \* s_telem.kbd_scancode, "none" if no key
  polling,    \* the animation of this frame is done, its input is not
  quiet       \* history: frames since something was last operated, up to 8

buttons == <<panel, zoom, mode>>
chooser == <<popup, target, mask, page>>
screen == <<state, kbdTop, shift, debounce, table, buttons, chooser>>
vars == <<screen, mouse, typed, polling, quiet>>

Sliding == state \in {"SLIDING_IN", "SLIDING_OUT"}
KbdVisible == Sliding \/ state = "OPEN"

Bits == 1 .. MaskBits
Pairs == {p \in (0 .. Options) \X (0 .. Options) : p[2] # 0 => 0 < p[1] /\ p[1] < p[2]}
Active(pair) == {pair[1], pair[2]} \ {0}
Least(S) == CHOOSE x \in S : \A y \in S : x <= y
Greatest(S) == CHOOSE x \in S : \A y \in S : x >= y

\* sub_ui_init
Init ==
  /\ state = "TRACKPAD"
  /\ kbdTop = 192
  /\ panel = TRUE
  /\ shift = FALSE
  /\ zoom = 1 /\ mode = FALSE
  /\ debounce = 0
  /\ table = [r \in 1 .. Rows |-> <<Defaults[r], 0>>]
  /\ popup = FALSE /\ target = 0 /\ mask = {} /\ page = 0
  /\ mouse = FALSE /\ typed = "none"
  /\ polling = FALSE
  /\ quiet = 8
-----------------------------------------------------------------------------
Lowered(d) == IF d > 0 THEN d - 1 ELSE 0

SlideIn ==
  /\ state = "SLIDING_IN"
  /\ kbdTop' = IF kbdTop - SlideSpeed <= 96 THEN 96 ELSE kbdTop - SlideSpeed
  /\ state' = IF kbdTop' = 96 THEN "OPEN" ELSE state

\* Seeded fault: the slide never leaves its state.
SlideOutForever ==
  /\ state = "SLIDING_OUT"
  /\ kbdTop' = IF kbdTop + SlideSpeed >= 192 THEN 192 ELSE kbdTop + SlideSpeed
  /\ UNCHANGED state

SlideOut ==
  /\ state = "SLIDING_OUT"
  /\ kbdTop' = IF kbdTop + SlideSpeed >= 192 THEN 192 ELSE kbdTop + SlideSpeed
  /\ state' = IF kbdTop' = 192 THEN "TRACKPAD" ELSE state

\* sub_ui_update
Update ==
  /\ ~polling
  /\ debounce' = Lowered(debounce)
  /\ SlideIn \/ SlideOut \/ (~Sliding /\ UNCHANGED <<state, kbdTop>>)
  /\ polling' = TRUE
  /\ quiet' = IF quiet = 8 THEN 8 ELSE quiet + 1
  /\ UNCHANGED <<shift, table, buttons, chooser, mouse, typed>>
-----------------------------------------------------------------------------
In(p, x1, x2, y1, y2) == p[1] \in x1 .. x2 /\ p[2] \in y1 .. y2

\* kb_toggle_y1: the keyboard's button floats above it.
KbButtonY == IF KbdVisible THEN kbdTop - 20 ELSE 176

\* What lies under the stylus when no overlay is shown, the uppermost first.
Zone(p) ==
  IF In(p, 96, 160, KbButtonY, KbButtonY + 15) THEN "KB"
  ELSE IF In(p, 2, 42, 2, 18) THEN "PAD"
  ELSE IF In(p, 164, 206, 2, 18) THEN "MAG"
  ELSE IF In(p, 208, 232, 2, 18) THEN "MODE"
  ELSE IF In(p, 234, 254, 2, 18) THEN "MAP"
  ELSE IF panel /\ p[1] < 124 /\ p[2] < KbButtonY THEN "PANEL"
  ELSE IF KbdVisible /\ p[2] >= kbdTop THEN "KEYBOARD"
  ELSE "TRACKPAD"

\* popup_button_index_at: the option shown under the stylus, 0 if none.
OptionAt(p) ==
  LET x == p[1] - 24
      y == p[2] - 56
      option == page * 12 + (y \div 26) * 3 + (x \div 70) + 1
  IN IF x \in 0 .. 209 /\ y \in 0 .. 103 /\ x % 70 < 64 /\ y % 26 < 20 /\ option <= Options
       THEN option ELSE 0

PopupZone(p) ==
  IF In(p, 24, 74, 34, 48) THEN "PREV"
  ELSE IF In(p, 182, 232, 34, 48) THEN "NEXT"
  ELSE IF In(p, 44, 108, 144, 164) THEN "APPLY"
  ELSE IF In(p, 148, 212, 144, 164) THEN "CANCEL"
  ELSE IF OptionAt(p) # 0 THEN "OPTION"
  ELSE "POPUP"

\* The row of the overlay under the stylus, 0 if none.
RowAt(p) ==
  IF p[2] >= 44 /\ p[2] < 44 + 10 * Rows THEN (p[2] - 44) \div 10 + 1 ELSE 0

OverlayZone(p) ==
  IF p[2] >= 172 THEN "DONE" ELSE IF RowAt(p) # 0 THEN "ROW" ELSE "OVERLAY"

Under(p) ==
  IF state # "REMAP" THEN Zone(p) ELSE IF popup THEN PopupZone(p) ELSE OverlayZone(p)
-----------------------------------------------------------------------------
\* The keyboard's button; a slide in progress is not turned back.
PressKb ==
  /\ debounce' = 15
  /\ state' = CASE state = "TRACKPAD" -> "SLIDING_IN"
                [] state = "OPEN" -> "SLIDING_OUT"
                [] OTHER -> state
  /\ UNCHANGED <<kbdTop, shift, table, buttons, chooser>>

PressPad ==
  /\ debounce' = 15
  /\ panel' = ~panel
  /\ UNCHANGED <<state, kbdTop, shift, table, zoom, mode, chooser>>

PressMag ==
  /\ debounce' = 15
  /\ zoom' = (zoom % 3) + 1
  /\ UNCHANGED <<state, kbdTop, shift, table, panel, mode, chooser>>

PressMode ==
  /\ debounce' = 15
  /\ mode' = ~mode
  /\ UNCHANGED <<state, kbdTop, shift, table, panel, zoom, chooser>>

\* A keyboard that slides out keeps its place.
PressMap ==
  /\ debounce' = 15
  /\ kbdTop' = IF state \in {"OPEN", "SLIDING_IN"} THEN 192 ELSE kbdTop
  /\ state' = "REMAP"
  /\ UNCHANGED <<shift, table, buttons, chooser>>

\* popup_open_for_row: the outputs of the row whose bit the mask has.
OpenPopup(p) ==
  LET row == RowAt(p)
      outputs == Active(table[row]) IN
  /\ popup' = TRUE
  /\ target' = row
  /\ mask' = outputs \cap Bits
  /\ page' = IF outputs = {} THEN 0 ELSE (Greatest(outputs) - 1) \div 12
  /\ debounce' = 10
  /\ UNCHANGED <<state, kbdTop, shift, table, buttons>>

PressPage(next) ==
  /\ page' = IF next /\ page < (Options + 11) \div 12 - 1 THEN page + 1
             ELSE IF ~next /\ page > 0 THEN page - 1 ELSE page
  /\ debounce' = 8
  /\ UNCHANGED <<state, kbdTop, shift, table, buttons, popup, target, mask>>

\* Seeded fault: a third key is taken.
PressAnyOption(p) ==
  /\ LET bit == {OptionAt(p)} \cap Bits IN
       mask' = IF bit # {} /\ bit \subseteq mask THEN mask \ bit ELSE mask \cup bit
  /\ debounce' = 8
  /\ UNCHANGED <<state, kbdTop, shift, table, buttons, popup, target, page>>

\* 1u << i is 0 on this processor once i reaches the mask's width.
PressOption(p) ==
  /\ LET bit == {OptionAt(p)} \cap Bits IN
       mask' = IF bit # {} /\ bit \subseteq mask THEN mask \ bit
               ELSE IF Cardinality(mask) < 2 THEN mask \cup bit ELSE mask
  /\ debounce' = 8
  /\ UNCHANGED <<state, kbdTop, shift, table, buttons, popup, target, page>>

\* Seeded fault: the popup closes without a pause.
ClosePopupAtOnce ==
  /\ popup' = FALSE /\ target' = 0 /\ mask' = {}
  /\ UNCHANGED <<state, kbdTop, shift, buttons, page, debounce>>

\* popup_close
ClosePopup ==
  /\ popup' = FALSE /\ target' = 0 /\ mask' = {}
  /\ debounce' = 8
  /\ UNCHANGED <<state, kbdTop, shift, buttons, page>>

\* Seeded fault: the second key stays that of the choice before.
ChosenKeepsSecond(row) ==
  <<Least(mask), IF Cardinality(mask) = 2 THEN Greatest(mask) ELSE table[row][2]>>

\* The chosen keys as a row's outputs, in the order of the list.
Chosen(row) ==
  <<Least(mask), IF Cardinality(mask) = 2 THEN Greatest(mask) ELSE 0>>

PressApply ==
  /\ table' = IF Cardinality(mask) \in 1 .. 2
                THEN [table EXCEPT ![target] = Chosen(target)] ELSE table
  /\ ClosePopup

\* DONE is the one button that does not wait for the pause after the last.
PressDone ==
  /\ debounce' = 12
  /\ state' = "TRACKPAD"
  /\ UNCHANGED <<kbdTop, shift, table, buttons, chooser>>

\* kbd_hit_test and key_from_button: a key repeats, and SHIFT turns, in
\* every frame the stylus is on it.
KeysAt(p) ==
  {k \in KeyBoxes : In(p, k.x, k.x + k.w - 1, kbdTop + k.y, kbdTop + k.y + k.h - 1)}

HitKeyboard(p) ==
  /\ shift' = IF \E k \in KeysAt(p) : k.normal = "shift" THEN ~shift ELSE shift
  /\ UNCHANGED <<state, kbdTop, debounce, table, buttons, chooser>>

KeyFrom(p) ==
  IF \E k \in KeysAt(p) : k.normal # "shift"
    THEN LET k == CHOOSE k \in KeysAt(p) : TRUE IN IF shift THEN k.shifted ELSE k.normal
    ELSE "none"

\* What a button does when its pause is over.
Press(p) ==
  \/ Under(p) = "KB" /\ PressKb
  \/ Under(p) = "PAD" /\ PressPad
  \/ Under(p) = "MAG" /\ PressMag
  \/ Under(p) = "MODE" /\ PressMode
  \/ Under(p) = "MAP" /\ PressMap
  \/ Under(p) = "ROW" /\ OpenPopup(p)
  \/ Under(p) = "PREV" /\ PressPage(FALSE)
  \/ Under(p) = "NEXT" /\ PressPage(TRUE)
  \/ Under(p) = "OPTION" /\ PressOption(p)
  \/ Under(p) = "APPLY" /\ PressApply
  \/ Under(p) = "CANCEL" /\ ClosePopup /\ UNCHANGED table

Immediate == {"DONE", "KEYBOARD"}
Idle == {"TRACKPAD", "PANEL", "POPUP", "OVERLAY"}

\* sub_ui_process_touch
Route(p) ==
  \/ Under(p) \notin Immediate /\ debounce = 0 /\ Press(p)
  \/ Under(p) = "DONE" /\ PressDone
  \/ Under(p) = "KEYBOARD" /\ HitKeyboard(p)
  \/ (Under(p) \in Idle \/ (Under(p) \notin Immediate /\ debounce # 0)) /\ UNCHANGED screen

\* Frames go on; something was operated if the screen shows it.
Finish ==
  /\ polling' = FALSE
  /\ quiet' = IF <<state, table, buttons, chooser>>' # <<state, table, buttons, chooser>>
                THEN 0 ELSE quiet

\* dsrd_input_poll with the stylus at p.
Poll(p) ==
  /\ polling
  /\ Route(p)
  /\ Finish
  /\ mouse' = (Under(p) = "TRACKPAD")
  /\ typed' = IF Under(p) = "KEYBOARD" THEN KeyFrom(p) ELSE "none"

\* dsrd_input_poll with the stylus up.
PollUp ==
  /\ polling
  /\ polling' = FALSE
  /\ mouse' = FALSE
  /\ typed' = "none"
  /\ UNCHANGED <<screen, quiet>>

Next == Update \/ PollUp \/ \E p \in Points : Poll(p)

\* The main loop turns with every VBlank.
Spec == Init /\ [][Next]_vars /\ WF_vars(Update) /\ WF_vars(PollUp \/ \E p \in Points : Poll(p))
-----------------------------------------------------------------------------
\* Rows keep two different outputs, the lower first, as the evaluation of the
\* buttons takes for granted; the keyboard stays on the screen.
TypeOK ==
  /\ state \in {"TRACKPAD", "SLIDING_IN", "OPEN", "SLIDING_OUT", "REMAP"}
  /\ kbdTop \in 96 .. 192
  /\ panel \in BOOLEAN /\ shift \in BOOLEAN /\ mode \in BOOLEAN
  /\ zoom \in 1 .. 3
  /\ debounce \in 0 .. 15 /\ quiet \in 0 .. 8
  /\ table \in [1 .. Rows -> Pairs]
  /\ popup \in BOOLEAN
  /\ target \in 0 .. Rows
  /\ mask \subseteq Bits \cap 1 .. Options
  /\ page \in 0 .. (Options + 11) \div 12 - 1
  /\ mouse \in BOOLEAN /\ polling \in BOOLEAN

\* The popup is never left behind: it is open only over the overlay, for one row,
\* with no more keys chosen than a row can keep, whatever way the overlay was
\* entered and left; and an open keyboard is all on the screen.
Consistent ==
  /\ popup => state = "REMAP"
  /\ popup <=> target # 0
  /\ Cardinality(mask) <= 2
  /\ ~popup => mask = {}
  /\ state = "OPEN" => kbdTop = 96

\* A row is changed only while the popup shows it, to the keys it shows chosen,
\* and no other row with it.
AppliedAsShown ==
  [][table' # table =>
       /\ popup /\ ~popup'
       /\ \A r \in 1 .. Rows : IF r = target THEN Active(table'[r]) = mask
                                             ELSE table'[r] = table[r]]_vars

\* One tap is one press: between two things operated lie eight frames at least,
\* unless the second is DONE, although what a press reveals lies under the same
\* stylus.
Unhurried ==
  [][polling /\ quiet' = 0 /\ ~(state = "REMAP" /\ state' # "REMAP") => quiet = 8]_vars

\* A slide of the keyboard comes to its end whatever is touched meanwhile.
SlideEnds == Sliding ~> ~Sliding
=============================================================================
