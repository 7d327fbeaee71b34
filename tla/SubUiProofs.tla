---------------------------- MODULE SubUiProofs ----------------------------
(***************************************************************************)
(* The bottom screen of the DS for every place the stylus may touch, every *)
(* number of rows and of keys, every width of the mask and every default.  *)
(***************************************************************************)
EXTENDS SubUi, FiniteSetTheorems, TLAPS

(***************************************************************************)
(* The least and the greatest of one or two numbers.                       *)
(***************************************************************************)
LEMMA Extremes ==
  ASSUME NEW a \in Int, NEW b \in Int, a <= b
  PROVE  Least({a, b}) = a /\ Greatest({a, b}) = b
<1>1. \A x \in {a, b} : (\A y \in {a, b} : x <= y) <=> x = a
  OBVIOUS
<1>2. \A x \in {a, b} : (\A y \in {a, b} : x >= y) <=> x = b
  OBVIOUS
<1> QED
  BY <1>1, <1>2 DEF Least, Greatest

\* One or two keys are written <<a, b>> in the order of the list, b = a if one.
LEMMA OneOrTwo ==
  ASSUME NEW S \in SUBSET Nat, IsFiniteSet(S), Cardinality(S) \in 1 .. 2
  PROVE  \E a, b \in S : /\ S = {a, b} /\ a <= b
                         /\ Cardinality(S) = 2 <=> a < b
<1>1. CASE Cardinality(S) = 1
  <2>1. PICK x : S = {x}
    BY <1>1, FS_Singleton
  <2> QED
    BY <1>1, <2>1
<1>2. CASE Cardinality(S) = 2
  <2>1. PICK x \in S : TRUE
    <3>1. S # {}
      BY <1>2, FS_EmptySet
    <3> QED
      BY <3>1
  <2>2. IsFiniteSet(S \ {x}) /\ Cardinality(S \ {x}) = 1
    BY <1>2, FS_RemoveElement
  <2>3. PICK y : S \ {x} = {y}
    BY <2>2, FS_Singleton
  <2>4. S = {x, y} /\ x # y /\ x \in Nat /\ y \in Nat
    BY <2>1, <2>3
  <2>5. CASE x < y
    BY <2>4, <2>5, <1>2
  <2>6. CASE y < x
    <3>1. S = {y, x}
      BY <2>4
    <3> QED
      BY <3>1, <2>4, <2>6, <1>2
  <2> QED
    BY <2>4, <2>5, <2>6
<1> QED
  BY <1>1, <1>2

LEMMA MaskFinite ==
  ASSUME mask \subseteq Bits
  PROVE  IsFiniteSet(mask) /\ Cardinality(mask) \in Nat /\ mask \subseteq Nat
<1>1. IsFiniteSet(1 .. MaskBits) /\ MaskBits \in Nat
  BY SubUiAssumption, FS_Interval
<1>2. IsFiniteSet(mask)
  BY <1>1, FS_Subset DEF Bits
<1> QED
  BY <1>1, <1>2, FS_CardinalityType DEF Bits

(***************************************************************************)
(* What the screen shows is always one of three: the trackpad with its     *)
(* buttons and keyboard, the overlay, or the popup over it.                *)
(***************************************************************************)
ScreenInv ==
  /\ state \in {"TRACKPAD", "SLIDING_IN", "OPEN", "SLIDING_OUT", "REMAP"}
  /\ kbdTop \in 96 .. 192
  /\ panel \in BOOLEAN /\ shift \in BOOLEAN /\ mode \in BOOLEAN
  /\ zoom \in 1 .. 3
  /\ debounce \in 0 .. 15
  /\ table \in [1 .. Rows -> Pairs]
  /\ popup \in BOOLEAN
  /\ target \in 0 .. Rows
  /\ mask \subseteq Bits \cap 1 .. Options
  /\ page \in 0 .. (Options + 11) \div 12 - 1
  /\ Consistent

UiInv ==
  /\ ScreenInv
  /\ quiet \in 0 .. 8
  /\ mouse \in BOOLEAN /\ polling \in BOOLEAN

LEMMA UnderPopup ==
  ASSUME NEW p, Under(p) \in {"PREV", "NEXT", "APPLY", "CANCEL", "OPTION"}
  PROVE  popup /\ state = "REMAP" /\ (Under(p) = "OPTION" => OptionAt(p) # 0)
BY DEF Under, Zone, PopupZone, OverlayZone

LEMMA UnderOverlay ==
  ASSUME NEW p, Under(p) \in {"DONE", "ROW"}
  PROVE  ~popup /\ state = "REMAP" /\ (Under(p) = "ROW" => RowAt(p) # 0)
BY DEF Under, Zone, PopupZone, OverlayZone

LEMMA UnderScreen ==
  ASSUME NEW p, Under(p) \in {"KB", "PAD", "MAG", "MODE", "MAP", "KEYBOARD"}
  PROVE  state # "REMAP"
BY DEF Under, Zone, PopupZone, OverlayZone

\* Rows and options under a stylus that is on the screen exist.
LEMMA RowExists ==
  ASSUME NEW p \in Points PROVE RowAt(p) \in 0 .. Rows
<1>1. p[2] \in 0 .. 191 /\ Rows \in Nat
  BY SubUiAssumption
<1> QED
  BY <1>1 DEF RowAt

LEMMA OptionExists ==
  ASSUME NEW p \in Points, page \in Nat PROVE OptionAt(p) \in 0 .. Options
<1>1. p[1] \in 0 .. 255 /\ p[2] \in 0 .. 191 /\ Options \in Nat
  BY SubUiAssumption
<1>2. PICK x, y : x = p[1] - 24 /\ y = p[2] - 56
  OBVIOUS
<1>3. PICK option : option = page * 12 + (y \div 26) * 3 + (x \div 70) + 1
  OBVIOUS
<1>4. OptionAt(p) = IF x \in 0 .. 209 /\ y \in 0 .. 103 /\ x % 70 < 64 /\ y % 26 < 20
                       /\ option <= Options THEN option ELSE 0
  BY <1>2, <1>3 DEF OptionAt
<1>5. ASSUME x \in 0 .. 209, y \in 0 .. 103 PROVE option \in Nat /\ option >= 1
  <2>1. y \div 26 \in Nat
    BY <1>5
  <2>2. x \div 70 \in Nat
    BY <1>5
  <2> QED
    BY <1>3, <2>1, <2>2
<1>6. CASE x \in 0 .. 209 /\ y \in 0 .. 103 /\ option <= Options
  BY <1>1, <1>4, <1>5, <1>6
<1>7. CASE ~(x \in 0 .. 209 /\ y \in 0 .. 103 /\ option <= Options)
  <2>1. OptionAt(p) = 0
    BY <1>4, <1>7
  <2> QED
    BY <1>1, <2>1
<1> QED
  BY <1>6, <1>7

\* Closing the popup, whether or not its keys were written into the row.
LEMMA CloseKeeps ==
  ASSUME ScreenInv, ClosePopup, table' \in [1 .. Rows -> Pairs]
  PROVE  ScreenInv'
<1>1. mask' = {} /\ Cardinality({}) = 0
  BY FS_EmptySet DEF ClosePopup
<1>2. ~popup' /\ popup' \in BOOLEAN /\ target' = 0 /\ debounce' = 8
  BY DEF ClosePopup
<1>3. UNCHANGED <<state, kbdTop, shift, panel, zoom, mode, page>>
  BY DEF ClosePopup, buttons
<1>4. Cardinality(mask') <= 2
  BY <1>1
<1>5. Consistent'
  BY <1>1, <1>2, <1>3, <1>4 DEF ScreenInv, Consistent
<1>6. target' \in 0 .. Rows /\ debounce' \in 0 .. 15
  BY <1>2, SubUiAssumption
<1> QED
  BY <1>1, <1>2, <1>3, <1>5, <1>6 DEF ScreenInv

LEMMA UiInit == Init => UiInv
<1> SUFFICES ASSUME Init PROVE UiInv
  OBVIOUS
<1>1. table \in [1 .. Rows -> Pairs]
  <2>1. ASSUME NEW r \in 1 .. Rows PROVE <<Defaults[r], 0>> \in Pairs
    <3>1. Defaults[r] \in 0 .. Options /\ Options \in Nat
      BY SubUiAssumption
    <3> QED
      BY <3>1 DEF Pairs
  <2> QED
    BY <2>1 DEF Init
<1>2. Consistent
  BY FS_EmptySet DEF Init, Consistent
<1>3. target \in 0 .. Rows /\ page \in 0 .. (Options + 11) \div 12 - 1
  <2>1. Rows \in Nat /\ Options \in Nat \ {0}
    BY SubUiAssumption
  <2> QED
    BY <2>1 DEF Init
<1>4. /\ panel \in BOOLEAN /\ shift \in BOOLEAN /\ mode \in BOOLEAN /\ popup \in BOOLEAN
      /\ mouse \in BOOLEAN /\ polling \in BOOLEAN
  BY DEF Init
<1>5. zoom \in 1 .. 3 /\ debounce \in 0 .. 15 /\ kbdTop \in 96 .. 192 /\ quiet \in 0 .. 8
  BY DEF Init
<1>6. mask \subseteq Bits \cap 1 .. Options /\ state = "TRACKPAD"
  BY DEF Init
<1> QED
  BY <1>1, <1>2, <1>3, <1>4, <1>5, <1>6 DEF UiInv, ScreenInv

\* A row's outputs lie on a page of the popup.
LEMMA PageOfRow ==
  ASSUME NEW pair \in Pairs, Active(pair) # {}
  PROVE  (Greatest(Active(pair)) - 1) \div 12 \in 0 .. (Options + 11) \div 12 - 1
<1>1. /\ Options \in Nat
      /\ pair[1] \in 0 .. Options /\ pair[2] \in 0 .. Options
      /\ pair[2] # 0 => 0 < pair[1] /\ pair[1] < pair[2]
  BY SubUiAssumption DEF Pairs
<1>2. PICK g \in 1 .. Options : g = Greatest(Active(pair))
  <2>1. CASE pair[2] = 0
    <3>1. Active(pair) = {pair[1], pair[1]} /\ pair[1] # 0
      BY <2>1 DEF Active
    <3>2. Greatest(Active(pair)) = pair[1]
      BY <1>1, <3>1, Extremes
    <3> QED
      BY <1>1, <3>1, <3>2
  <2>2. CASE pair[2] # 0
    <3>1. Active(pair) = {pair[1], pair[2]}
      BY <1>1, <2>2 DEF Active
    <3>2. Greatest(Active(pair)) = pair[2]
      BY <1>1, <2>2, <3>1, Extremes
    <3> QED
      BY <1>1, <2>2, <3>2
  <2> QED
    BY <2>1, <2>2
<1>3. (g - 1) \div 12 \in 0 .. (Options + 11) \div 12 - 1
  BY <1>1
<1> QED
  BY <1>2, <1>3

\* What APPLY writes into the row are the keys chosen, lower first.
LEMMA ChosenKeys ==
  ASSUME ScreenInv, NEW row, Cardinality(mask) \in 1 .. 2
  PROVE  Chosen(row) \in Pairs /\ Active(Chosen(row)) = mask
<1>1. /\ IsFiniteSet(mask) /\ mask \subseteq Nat /\ Options \in Nat
      /\ \A x \in mask : x \in 1 .. Options
  BY MaskFinite, SubUiAssumption DEF ScreenInv
<1>2. PICK a \in mask, b \in mask : mask = {a, b} /\ a <= b /\ (Cardinality(mask) = 2 <=> a < b)
  BY <1>1, OneOrTwo
<1>3. Least(mask) = a /\ Greatest(mask) = b /\ a \in 1 .. Options /\ b \in 1 .. Options
  BY <1>1, <1>2, Extremes
<1>4. Chosen(row) = <<a, IF a < b THEN b ELSE 0>>
  BY <1>2, <1>3 DEF Chosen
<1>5. CASE a < b
  <2>1. Chosen(row) = <<a, b>>
    BY <1>4, <1>5
  <2>2. <<a, b>> \in Pairs /\ Active(<<a, b>>) = {a, b}
    BY <1>1, <1>3, <1>5 DEF Pairs, Active
  <2> QED
    BY <1>2, <2>1, <2>2
<1>6. CASE ~(a < b)
  <2>1. Chosen(row) = <<a, 0>> /\ a = b
    BY <1>1, <1>2, <1>3, <1>4, <1>6
  <2>2. <<a, 0>> \in Pairs /\ Active(<<a, 0>>) = {a}
    BY <1>1, <1>3 DEF Pairs, Active
  <2> QED
    BY <1>2, <2>1, <2>2
<1> QED
  BY <1>5, <1>6

\* Toggling an option never leaves more than two.
LEMMA AtMostTwo ==
  ASSUME ScreenInv, NEW p, PressOption(p), OptionAt(p) \in 1 .. Options
  PROVE  mask' \subseteq Bits \cap 1 .. Options /\ Cardinality(mask') <= 2
<1>1. IsFiniteSet(mask) /\ Cardinality(mask) \in Nat /\ Cardinality(mask) <= 2
  BY MaskFinite DEF ScreenInv, Consistent
<1>2. CASE OptionAt(p) \notin Bits
  <2>1. {OptionAt(p)} \cap Bits = {}
    BY <1>2
  <2>2. mask' = mask
    BY <2>1 DEF PressOption
  <2> QED
    BY <1>1, <2>2 DEF ScreenInv
<1>3. CASE OptionAt(p) \in Bits
  <2>1. {OptionAt(p)} \cap Bits = {OptionAt(p)}
    BY <1>3
  <2>2. mask' = IF OptionAt(p) \in mask THEN mask \ {OptionAt(p)}
                ELSE IF Cardinality(mask) < 2 THEN mask \cup {OptionAt(p)} ELSE mask
    BY <2>1 DEF PressOption
  <2>3. mask' \subseteq Bits \cap 1 .. Options
    BY <1>3, <2>2 DEF ScreenInv
  <2>4. /\ Cardinality(mask \ {OptionAt(p)}) = IF OptionAt(p) \in mask THEN Cardinality(mask) - 1
                                                                     ELSE Cardinality(mask)
        /\ Cardinality(mask \cup {OptionAt(p)}) = IF OptionAt(p) \in mask THEN Cardinality(mask)
                                                                       ELSE Cardinality(mask) + 1
    BY <1>1, FS_RemoveElement, FS_AddElement
  <2>5. Cardinality(mask') <= 2
    BY <1>1, <2>2, <2>4
  <2> QED
    BY <2>3, <2>5
<1> QED
  BY <1>2, <1>3

\* Whatever a touch is routed to leaves the screen in order, and no touch but
\* APPLY changes the table.
LEMMA RouteKeeps ==
  ASSUME ScreenInv, NEW p \in Points, Route(p)
  PROVE  ScreenInv' /\ (table' = table \/ (Under(p) = "APPLY" /\ PressApply))
<1>0. /\ Rows \in Nat /\ Options \in Nat \ {0}
      /\ page \in Nat /\ OptionAt(p) \in 0 .. Options /\ RowAt(p) \in 0 .. Rows
  BY SubUiAssumption, OptionExists, RowExists DEF ScreenInv
<1>1. CASE Under(p) \in {"KB", "PAD", "MAG", "MODE", "MAP"}
           /\ (PressKb \/ PressPad \/ PressMag \/ PressMode \/ PressMap)
  <2>1. state # "REMAP"
    BY <1>1, UnderScreen
  <2>2. ~popup /\ target = 0 /\ mask = {}
    BY <2>1 DEF ScreenInv, Consistent
  <2>3. CASE PressKb
    BY <2>2, <2>3 DEF PressKb, ScreenInv, Consistent, buttons, chooser
  <2>4. CASE PressPad
    BY <2>2, <2>4 DEF PressPad, ScreenInv, Consistent, chooser
  <2>5. CASE PressMag
    <3>1. (zoom % 3) + 1 \in 1 .. 3
      BY DEF ScreenInv
    <3> QED
      BY <2>2, <2>5, <3>1 DEF PressMag, ScreenInv, Consistent, chooser
  <2>6. CASE PressMode
    BY <2>2, <2>6 DEF PressMode, ScreenInv, Consistent, chooser
  <2>7. CASE PressMap
    BY <2>2, <2>7 DEF PressMap, ScreenInv, Consistent, buttons, chooser
  <2> QED
    BY <1>1, <2>3, <2>4, <2>5, <2>6, <2>7
<1>2. CASE Under(p) = "ROW" /\ OpenPopup(p)
  <2>1. ~popup /\ state = "REMAP" /\ RowAt(p) \in 1 .. Rows
    BY <1>0, <1>2, UnderOverlay
  <2>2. PICK pair \in Pairs : pair = table[RowAt(p)]
    BY <2>1 DEF ScreenInv
  <2>3. /\ mask' = Active(pair) \cap Bits
        /\ page' = IF Active(pair) = {} THEN 0 ELSE (Greatest(Active(pair)) - 1) \div 12
        /\ popup' = TRUE /\ target' = RowAt(p) /\ debounce' = 10
        /\ UNCHANGED <<state, kbdTop, shift, table, panel, zoom, mode>>
    BY <1>2, <2>2 DEF OpenPopup, buttons
  <2>4. page' \in 0 .. (Options + 11) \div 12 - 1
    BY <1>0, <2>3, PageOfRow
  <2>5. mask' \subseteq Bits \cap 1 .. Options
    <3>1. pair[1] \in 0 .. Options /\ pair[2] \in 0 .. Options
      BY DEF Pairs
    <3> QED
      BY <1>0, <2>3, <3>1 DEF Active
  <2>6. Cardinality(mask') <= 2
    <3>1. IsFiniteSet({pair[1]}) /\ Cardinality({pair[1]}) = 1
      BY FS_Singleton
    <3>2. PICK both : both = {pair[1]} \cup {pair[2]}
      OBVIOUS
    <3>3. IsFiniteSet(both) /\ Cardinality(both) <= 2 /\ Cardinality(both) \in Nat
      <4>1. /\ IsFiniteSet(both)
            /\ Cardinality(both) = IF pair[2] \in {pair[1]} THEN Cardinality({pair[1]})
                                                           ELSE Cardinality({pair[1]}) + 1
        BY <3>1, <3>2, FS_AddElement
      <4> QED
        BY <3>1, <4>1
    <3>4. mask' \in SUBSET both
      BY <2>3, <3>2 DEF Active
    <3>5. IsFiniteSet(mask') /\ Cardinality(mask') <= Cardinality(both)
      BY <3>3, <3>4, FS_Subset
    <3>6. Cardinality(mask') \in Nat
      BY <3>5, FS_CardinalityType
    <3> QED
      BY <3>3, <3>5, <3>6
  <2> QED
    BY <2>1, <2>3, <2>4, <2>5, <2>6 DEF ScreenInv, Consistent
<1>3. CASE Under(p) \in {"PREV", "NEXT"} /\ \E next \in BOOLEAN : PressPage(next)
  <2>1. page' \in 0 .. (Options + 11) \div 12 - 1
    BY <1>0, <1>3 DEF PressPage, ScreenInv
  <2> QED
    BY <1>3, <2>1 DEF PressPage, ScreenInv, Consistent, buttons
<1>4. CASE Under(p) = "OPTION" /\ PressOption(p)
  <2>1. popup /\ state = "REMAP" /\ OptionAt(p) \in 1 .. Options
    BY <1>0, <1>4, UnderPopup
  <2>2. mask' \subseteq Bits \cap 1 .. Options /\ Cardinality(mask') <= 2
    BY <1>4, <2>1, AtMostTwo
  <2> QED
    BY <1>4, <2>1, <2>2 DEF PressOption, ScreenInv, Consistent, buttons
<1>5. CASE Under(p) = "APPLY" /\ PressApply
  <2>1. popup /\ state = "REMAP" /\ target \in 1 .. Rows
    BY <1>0, <1>5, UnderPopup DEF ScreenInv, Consistent
  <2>2. table' \in [1 .. Rows -> Pairs]
    <3>1. CASE Cardinality(mask) \in 1 .. 2
      BY <1>5, <2>1, <3>1, ChosenKeys DEF PressApply, ScreenInv
    <3>2. CASE Cardinality(mask) \notin 1 .. 2
      BY <1>5, <3>2 DEF PressApply, ScreenInv
    <3> QED
      BY <3>1, <3>2
  <2> QED
    BY <1>5, <2>2, CloseKeeps DEF PressApply
<1>6. CASE Under(p) = "CANCEL" /\ ClosePopup /\ UNCHANGED table
  <2>1. table' \in [1 .. Rows -> Pairs]
    BY <1>6 DEF ScreenInv
  <2> QED
    BY <1>6, <2>1, CloseKeeps
<1>7. CASE Under(p) = "DONE" /\ PressDone
  <2>1. ~popup /\ state = "REMAP"
    BY <1>7, UnderOverlay
  <2> QED
    BY <1>7, <2>1 DEF PressDone, ScreenInv, Consistent, buttons, chooser
<1>8. CASE HitKeyboard(p)
  BY <1>8 DEF HitKeyboard, ScreenInv, Consistent, buttons, chooser
<1>9. CASE UNCHANGED screen
  BY <1>9 DEF screen, ScreenInv, Consistent, buttons, chooser
<1> QED
  BY <1>1, <1>2, <1>3, <1>4, <1>5, <1>6, <1>7, <1>8, <1>9 DEF Route, Press

LEMMA UiNext == UiInv /\ [Next]_vars => UiInv'
<1> SUFFICES ASSUME UiInv, [Next]_vars PROVE UiInv'
  OBVIOUS
<1>1. CASE Update
  <2>1. /\ SlideSpeed \in Nat /\ kbdTop \in 96 .. 192 /\ debounce \in 0 .. 15
        /\ (popup \/ state = "REMAP") => ~Sliding
    BY SubUiAssumption DEF UiInv, ScreenInv, Consistent, Sliding
  <2>2. debounce' \in 0 .. 15 /\ quiet' \in 0 .. 8
    BY <1>1, <2>1 DEF Update, Lowered, UiInv
  <2>3. /\ kbdTop' \in 96 .. 192
        /\ state' \in {"TRACKPAD", "SLIDING_IN", "OPEN", "SLIDING_OUT", "REMAP"}
        /\ state' = "OPEN" => kbdTop' = 96
        /\ popup => state' = "REMAP"
    <3>1. CASE SlideIn
      BY <2>1, <3>1 DEF SlideIn, Sliding
    <3>2. CASE SlideOut
      BY <2>1, <3>2 DEF SlideOut, Sliding
    <3>3. CASE UNCHANGED <<state, kbdTop>>
      BY <3>3 DEF UiInv, ScreenInv, Consistent
    <3> QED
      BY <1>1, <3>1, <3>2, <3>3 DEF Update
  <2> QED
    BY <1>1, <2>2, <2>3 DEF Update, UiInv, ScreenInv, Consistent, buttons, chooser
<1>2. ASSUME NEW p \in Points, Poll(p) PROVE UiInv'
  <2>1. ScreenInv'
    BY <1>2, RouteKeeps DEF Poll, UiInv
  <2>2. quiet' \in 0 .. 8
    <3>1. quiet' = 0 \/ quiet' = quiet
      BY <1>2 DEF Poll, Finish
    <3> QED
      BY <3>1 DEF UiInv
  <2>3. mouse' \in BOOLEAN
    <3>1. mouse' = (Under(p) = "TRACKPAD")
      BY <1>2 DEF Poll
    <3> QED
      BY <3>1
  <2>4. polling' \in BOOLEAN
    BY <1>2 DEF Poll, Finish
  <2> QED
    BY <2>1, <2>2, <2>3, <2>4 DEF UiInv
<1>3. CASE PollUp
  BY <1>3 DEF PollUp, UiInv, ScreenInv, Consistent, screen, buttons, chooser
<1>4. CASE UNCHANGED vars
  BY <1>4 DEF vars, UiInv, ScreenInv, Consistent, screen, buttons, chooser
<1> QED
  BY <1>1, <1>2, <1>3, <1>4 DEF Next

LEMMA UiAlways == Spec => []UiInv
BY UiInit, UiNext, PTL DEF Spec

\* The screen's state stays in range whatever is touched in whatever order
\* (sub_ui.c): no page beyond the last, no row with an output twice.
THEOREM ScreenTypeCorrect == Spec => []TypeOK
<1>1. UiInv => TypeOK
  BY DEF UiInv, ScreenInv, TypeOK
<1> QED
  BY <1>1, UiAlways, PTL

\* The popup is never left behind, never holds more keys than a row, and an open
\* keyboard is all on the screen (sub_ui.c), for every layout of touches.
THEOREM ScreenConsistent == Spec => []Consistent
<1>1. UiInv => Consistent
  BY DEF UiInv, ScreenInv
<1> QED
  BY <1>1, UiAlways, PTL

\* A row changes only by APPLY in its own popup, to exactly the keys shown
\* chosen (popup_apply in sub_ui.c).
THEOREM AppliedIsShown == Spec => AppliedAsShown
<1> DEFINE A == table' # table =>
                  /\ popup /\ ~popup'
                  /\ \A r \in 1 .. Rows : IF r = target THEN Active(table'[r]) = mask
                                                         ELSE table'[r] = table[r]
<1>1. UiInv /\ [Next]_vars => [A]_vars
  <2> SUFFICES ASSUME UiInv, Next, table' # table PROVE A
    BY DEF vars, screen
  <2>1. PICK p \in Points : Poll(p)
    BY DEF Next, Update, PollUp, screen
  <2>2. Under(p) = "APPLY" /\ PressApply
    BY <2>1, RouteKeeps DEF Poll, UiInv
  <2>3. popup /\ target \in 1 .. Rows
    <3>1. popup /\ target \in 0 .. Rows /\ target # 0 /\ Rows \in Nat
      BY <2>2, UnderPopup, SubUiAssumption DEF UiInv, ScreenInv, Consistent
    <3> QED
      BY <3>1
  <2>4. Cardinality(mask) \in 1 .. 2 /\ table' = [table EXCEPT ![target] = Chosen(target)]
    BY <2>2 DEF PressApply
  <2>5. Active(Chosen(target)) = mask
    BY <2>4, ChosenKeys DEF UiInv
  <2>6. ~popup'
    BY <2>2 DEF PressApply, ClosePopup
  <2> QED
    BY <2>3, <2>4, <2>5, <2>6 DEF UiInv, ScreenInv
<1> QED
  BY <1>1, UiAlways, PTL DEF Spec, AppliedAsShown
-----------------------------------------------------------------------------
\* The pause after a press has run as many frames as its counter is short of
\* it, and a frame has passed when the next touch is looked at.
Rested == debounce + quiet >= 8 /\ (polling => quiet >= 1)

\* Whatever a touch operates starts a pause, and whatever is not DONE has
\* waited for the end of the one before.
LEMMA PressWaits ==
  ASSUME NEW p, Route(p)
  PROVE  \/ debounce' \in 8 .. 15 /\ (debounce = 0 \/ (state = "REMAP" /\ state' # "REMAP"))
         \/ UNCHANGED <<debounce, state, table, buttons, chooser>>
<1>1. ASSUME debounce = 0, Press(p) PROVE debounce' \in 8 .. 15
  <2>1. PressKb \/ PressPad \/ PressMag \/ PressMode \/ PressMap => debounce' = 15
    BY DEF PressKb, PressPad, PressMag, PressMode, PressMap
  <2>2. OpenPopup(p) => debounce' = 10
    BY DEF OpenPopup
  <2>3. PressPage(TRUE) \/ PressPage(FALSE) \/ PressOption(p) => debounce' = 8
    BY DEF PressPage, PressOption
  <2>4. PressApply \/ ClosePopup => debounce' = 8
    BY DEF PressApply, ClosePopup
  <2>5. debounce' \in {8, 10, 15}
    BY <1>1, <2>1, <2>2, <2>3, <2>4, Zenon DEF Press
  <2> QED
    BY <2>5
<1>2. ASSUME Under(p) = "DONE", PressDone
      PROVE  debounce' = 12 /\ state = "REMAP" /\ state' # "REMAP"
  BY <1>2, UnderOverlay DEF PressDone
<1>3. HitKeyboard(p) => UNCHANGED <<debounce, state, table, buttons, chooser>>
  BY DEF HitKeyboard
<1>4. UNCHANGED screen => UNCHANGED <<debounce, state, table, buttons, chooser>>
  BY DEF screen
<1> QED
  BY <1>1, <1>2, <1>3, <1>4 DEF Route

LEMMA RestedStep == UiInv /\ Rested /\ [Next]_vars => Rested'
<1> SUFFICES ASSUME UiInv, Rested, [Next]_vars PROVE Rested'
  OBVIOUS
<1>0. debounce \in 0 .. 15 /\ quiet \in 0 .. 8
  BY DEF UiInv, ScreenInv
<1>1. CASE Update
  BY <1>0, <1>1 DEF Update, Lowered, Rested
<1>2. ASSUME NEW p \in Points, Poll(p) PROVE Rested'
  <2>1. ~polling' /\ Route(p)
    BY <1>2 DEF Poll, Finish
  <2>2. CASE debounce' \in 8 .. 15
    <3>1. quiet' \in 0 .. 8
      BY <1>0, <1>2 DEF Poll, Finish
    <3>2. \A d \in 8 .. 15, q \in 0 .. 8 : d + q >= 8
      OBVIOUS
    <3>3. debounce' + quiet' >= 8
      BY <2>2, <3>1, <3>2
    <3> QED
      BY <2>1, <3>3 DEF Rested
  <2>3. CASE UNCHANGED <<debounce, state, table, buttons, chooser>>
    <3>1. quiet' = quiet
      BY <1>2, <2>3 DEF Poll, Finish
    <3> QED
      BY <2>1, <2>3, <3>1 DEF Rested
  <2> QED
    BY <2>1, <2>2, <2>3, PressWaits
<1>3. CASE PollUp
  BY <1>3 DEF PollUp, screen, Rested
<1>4. CASE UNCHANGED vars
  BY <1>4 DEF vars, screen, Rested
<1> QED
  BY <1>1, <1>2, <1>3, <1>4 DEF Next

\* One tap is one press (s_button_debounce in sub_ui.c): eight frames at least
\* lie between two things operated, DONE apart, for every layout of touches.
THEOREM OneTapOnePress == Spec => Unhurried
<1>1. Init => Rested
  BY DEF Init, Rested
<1>2. UiInv /\ Rested /\ [Next]_vars
        => [polling /\ quiet' = 0 /\ ~(state = "REMAP" /\ state' # "REMAP") => quiet = 8]_vars
  <2> SUFFICES ASSUME UiInv, Rested, Next, polling, quiet' = 0,
                      ~(state = "REMAP" /\ state' # "REMAP")
               PROVE  quiet = 8
    OBVIOUS
  <2>1. debounce \in 0 .. 15 /\ quiet \in 1 .. 8
    BY DEF UiInv, ScreenInv, Rested
  <2>2. PICK p \in Points : Poll(p)
    BY <2>1 DEF Next, Update, PollUp
  <2>3. ~UNCHANGED <<debounce, state, table, buttons, chooser>>
    BY <2>1, <2>2 DEF Poll, Finish
  <2>4. debounce = 0
    BY <2>2, <2>3, PressWaits DEF Poll
  <2> QED
    BY <2>1, <2>4 DEF Rested
<1> QED
  BY <1>1, <1>2, RestedStep, UiAlways, PTL DEF Spec, Unhurried
=============================================================================
