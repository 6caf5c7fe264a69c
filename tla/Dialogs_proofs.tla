---------------------------- MODULE Dialogs_proofs ----------------------------
(***************************************************************************)
(* What the boxes of menuconfig show is what their keys act on, for        *)
(* terminals of any height, lists and texts of any length, and whatever    *)
(* the program that opens them does.                                       *)
(***************************************************************************)
EXTENDS MenuBox, CheckList, InputBox, TextBox, TLAPS

-----------------------------------------------------------------------------
(* The input box.  The string never reaches past the cursor, and the field *)
(* is never scrolled further than the longest string needs.                *)
MostScrolled == MAX(0, MAX_LEN - box_width + 1)
InputType ==
  ibox \in [height : Int, button : Int, scroll : 0 .. MostScrolled, input_x : Int,
            slipped : BOOLEAN]
InputInv ==
  /\ dialog_input_result \in Strings
  /\ InputOpen =>
       /\ InputType
       /\ ibox.input_x <= box_width - 1
       /\ strlen <= Cursor /\ Cursor <= MAX_LEN
       /\ ~ibox.slipped => Cursor = strlen

LEMMA InputDraws ==
  ASSUME NEW l \in Int, NEW height \in Int, NEW old \in 0 .. MostScrolled, NEW button \in Int,
         dialog_input_result' \in Strings,
         DrawInput(l, height, dialog_input_result', old, button)
  PROVE  InputInv'
<1> USE InputAssumption
<1> DEFINE len == Len(dialog_input_result')
<1>1. len \in 0 .. MAX_LEN
  BY DEF Strings
<1>2. CASE l <= height - 2
  BY <1>2 DEF DrawInput, Returns, InputInv, InputOpen
<1>3. CASE ~(l <= height - 2)
  <2>1. /\ shown' = "inputbox"
        /\ ibox' = [height |-> height, button |-> button,
                    scroll |-> Field(dialog_input_result', old).scroll,
                    input_x |-> Field(dialog_input_result', old).input_x,
                    slipped |-> Field(dialog_input_result', old).scroll
                                + Field(dialog_input_result', old).input_x # len]
    BY <1>3 DEF DrawInput, Opens
  <2>2. CASE len >= box_width
    <3>1. /\ ibox'.scroll = len - box_width + 1
          /\ ibox'.input_x = box_width - 1
      BY <2>1, <2>2 DEF Field
    <3>2. ibox'.scroll \in 0 .. MostScrolled
      BY <1>1, <2>2, <3>1 DEF MostScrolled, MAX
    <3>3. QED
      BY <1>1, <2>1, <3>1, <3>2 DEF InputInv, InputType, InputOpen, Cursor, strlen
  <2>3. CASE len < box_width
    <3>1. /\ ibox'.scroll = old
          /\ ibox'.input_x = len
          /\ ibox'.slipped = (old + len # len)
      BY <1>1, <2>1, <2>3 DEF Field
    <3>2. old \in Nat /\ old + len <= MAX_LEN
      BY <1>1, <2>3 DEF MostScrolled, MAX
    <3>3. InputType'
      BY <1>1, <2>1, <3>1 DEF InputType
    <3>4. Cursor' = old + len /\ strlen' = len /\ len <= box_width - 1
      BY <1>1, <2>3, <3>1 DEF Cursor, strlen
    <3>5. ~ibox'.slipped => Cursor' = strlen'
      BY <3>1, <3>4
    <3>6. strlen' <= Cursor' /\ Cursor' <= MAX_LEN /\ ibox'.input_x <= box_width - 1
      <4> HIDE DEF len
      <4>1. QED
        BY <1>1, <3>1, <3>2, <3>4
    <3>7. QED
      BY <3>3, <3>5, <3>6 DEF InputInv
  <2>4. QED
    BY <1>1, <2>2, <2>3
<1>4. QED
  BY <1>2, <1>3

LEMMA InputTypes == InputInv /\ TypeChar => InputInv'
<1> SUFFICES ASSUME InputInv, TypeChar PROVE InputInv'
  OBVIOUS
<1> USE InputAssumption
<1>1. /\ InputOpen /\ InputType /\ dialog_input_result \in Strings /\ strlen \in 0 .. MAX_LEN
      /\ Cursor \in Int /\ Cursor < MAX_LEN /\ strlen <= Cursor
      /\ ibox.input_x <= box_width - 1 /\ (~ibox.slipped => Cursor = strlen)
  BY DEF InputInv, TypeChar, Typing, InputType, Cursor, strlen, Strings
<1>2. /\ dialog_input_result' \in Strings
      /\ strlen' = IF Cursor > strlen THEN strlen ELSE strlen + 1
  <2>1. CASE Cursor > strlen
    BY <1>1, <2>1 DEF TypeChar, strlen
  <2>2. CASE Cursor = strlen
    <3>1. PICK c \in Chars :
            dialog_input_result' = Append(SubSeq(dialog_input_result, 1, Cursor), c)
      BY <1>1, <2>2 DEF TypeChar
    <3>2. SubSeq(dialog_input_result, 1, Cursor) = dialog_input_result
      BY <1>1, <2>2 DEF strlen, Strings
    <3>3. QED
      BY <1>1, <2>2, <3>1, <3>2 DEF strlen, Strings
  <2>3. QED
    BY <1>1, <2>1, <2>2
<1>3. /\ InputType'
      /\ Cursor' = Cursor + 1 /\ ibox'.input_x <= box_width - 1
      /\ ibox'.slipped = ibox.slipped
  <2>1. CASE ibox.input_x = box_width - 1
    <3>1. ibox' = [ibox EXCEPT !.scroll = @ + 1]
      BY <2>1 DEF TypeChar
    <3>2. ibox.scroll + 1 \in 0 .. MostScrolled
      BY <1>1, <2>1 DEF InputType, Cursor, MostScrolled, MAX
    <3>3. QED
      BY <1>1, <2>1, <3>1, <3>2 DEF InputType, Cursor
  <2>2. CASE ibox.input_x # box_width - 1
    <3>1. ibox' = [ibox EXCEPT !.input_x = @ + 1]
      BY <2>2 DEF TypeChar
    <3>2. QED
      BY <1>1, <2>2, <3>1 DEF InputType, Cursor
  <2>3. QED
    BY <2>1, <2>2
<1>4. QED
  BY <1>1, <1>2, <1>3 DEF InputInv

LEMMA InputDeletes == InputInv /\ KeyBackspace => InputInv'
<1> SUFFICES ASSUME InputInv, KeyBackspace PROVE InputInv'
  OBVIOUS
<1> USE InputAssumption
<1>1. /\ InputOpen /\ InputType /\ dialog_input_result \in Strings /\ strlen \in 0 .. MAX_LEN
      /\ Cursor \in Int /\ Cursor <= MAX_LEN /\ strlen <= Cursor /\ Cursor # 0
      /\ ibox.input_x <= box_width - 1 /\ (~ibox.slipped => Cursor = strlen)
      /\ ibox' = Back
  BY DEF InputInv, KeyBackspace, Typing, InputType, Cursor, strlen, Strings
<1>2. /\ InputType' /\ ibox'.input_x <= box_width - 1 /\ ibox'.slipped = ibox.slipped
      /\ Cursor' \in 0 .. MAX_LEN
      /\ Cursor' <= strlen \/ Cursor' = Cursor - 1
      /\ ~ibox.slipped => Cursor' <= strlen
  <2>1. CASE ibox.input_x # 0
    <3>1. ibox' = [ibox EXCEPT !.input_x = @ - 1]
      BY <1>1, <2>1 DEF Back
    <3>2. QED
      BY <1>1, <3>1 DEF InputType, Cursor
  <2>2. CASE ibox.input_x = 0
    <3> DEFINE scroll == IF ibox.scroll < box_width - 1 THEN 0 ELSE ibox.scroll - (box_width - 1)
    <3>1. ibox' = [ibox EXCEPT !.scroll = scroll, !.input_x = strlen - scroll]
      BY <1>1, <2>2 DEF Back
    <3>2. /\ scroll \in 0 .. MostScrolled /\ ibox.scroll - scroll <= box_width - 1
          /\ Cursor = ibox.scroll
      BY <1>1, <2>2 DEF InputType, Cursor, MostScrolled, MAX
    <3> HIDE DEF scroll
    <3>3. /\ ibox'.scroll = scroll /\ ibox'.input_x = strlen - scroll
          /\ InputType' /\ ibox'.slipped = ibox.slipped
      <4>1. strlen - scroll \in Int
        BY <1>1, <3>2
      <4> HIDE DEF strlen
      <4>2. QED
        BY <1>1, <3>1, <3>2, <4>1 DEF InputType
    <3>4. Cursor' = strlen
      BY <1>1, <3>2, <3>3 DEF Cursor
    <3>5. QED
      BY <1>1, <3>2, <3>3, <3>4
  <2>3. QED
    BY <2>1, <2>2
<1>3. dialog_input_result' = SubSeq(dialog_input_result, 1, MIN(strlen, Cursor'))
  BY DEF KeyBackspace, Cursor
<1>4. MIN(strlen, Cursor') \in 0 .. strlen /\ MIN(strlen, Cursor') <= Cursor'
  BY <1>1, <1>2 DEF MIN
<1>5. dialog_input_result' \in Strings /\ strlen' = MIN(strlen, Cursor')
  BY <1>1, <1>3, <1>4 DEF Strings, strlen
<1>6. QED
  BY <1>1, <1>2, <1>4, <1>5 DEF InputInv, MIN

(* The input box types and deletes at the end of its string, and never     *)
(* past the room it has.                                                   *)
THEOREM InputCorrect == InputSpec => []CursorAtEnd
<1> USE InputAssumption, HeightsAssumption
<1> DEFINE Inv == lines \in Int /\ InputInv
<1>1. InputInit => Inv
  BY DEF InputInit, InputInv, InputOpen
<1>2. Inv /\ [InputNext]_inputVars => Inv'
  <2> SUFFICES ASSUME Inv, [InputNext]_inputVars PROVE Inv'
    OBVIOUS
  <2>1. CASE \E init \in Strings, height \in {10, 11} : dialog_inputbox(init, height)
    <3>1. PICK init \in Strings, height \in {10, 11} : dialog_inputbox(init, height)
      BY <2>1
    <3>2. /\ dialog_input_result' \in Strings
          /\ DrawInput(lines, height, dialog_input_result', 0, TheField)
          /\ lines' = lines
      BY <3>1 DEF dialog_inputbox
    <3>3. 0 \in 0 .. MostScrolled /\ TheField \in Int
      BY DEF MostScrolled, MAX, TheField
    <3>4. QED
      BY <3>2, <3>3, InputDraws
  <2>2. CASE TypeChar
    BY <2>2, InputTypes DEF TypeChar, lxVars
  <2>3. CASE KeyBackspace
    BY <2>3, InputDeletes DEF KeyBackspace, lxVars
  <2>4. CASE KeyUnderrun
    BY <2>4 DEF KeyUnderrun, InputInv, InputOpen
  <2>5. CASE InputButton
    <3>1. PICK step \in {1, 2} : ibox' = [ibox EXCEPT !.button = ((@ + 1 + step) % 3) - 1]
      BY <2>5 DEF InputButton
    <3>2. InputOpen /\ UNCHANGED <<dialog_input_result, lines, shown>>
      BY <2>5 DEF InputButton, lxVars
    <3>3. InputType /\ ibox.button \in Int
      BY <3>2 DEF InputInv, InputType
    <3>4. ((ibox.button + 1 + step) % 3) - 1 \in Int
      BY <3>3
    <3>5. /\ InputType' /\ ibox'.scroll = ibox.scroll /\ ibox'.input_x = ibox.input_x
          /\ ibox'.slipped = ibox.slipped
      BY <3>1, <3>3, <3>4 DEF InputType
    <3>6. Cursor' = Cursor /\ strlen' = strlen
      BY <3>2, <3>5 DEF Cursor, strlen
    <3>7. QED
      BY <3>2, <3>5, <3>6 DEF InputInv, InputOpen
  <2>6. CASE InputAnswer
    BY <2>6 DEF InputAnswer, Returns, InputInv, InputOpen
  <2>7. CASE InputResize
    <3>1. /\ dialog_input_result' = dialog_input_result /\ lines' \in Int
          /\ DrawInput(lines', ibox.height, dialog_input_result', ibox.scroll, ibox.button)
      BY <2>7 DEF InputResize, Resized
    <3>2. InputType /\ dialog_input_result \in Strings
      BY <2>7 DEF InputResize, InputInv
    <3>3. QED
      BY <3>1, <3>2, InputDraws DEF InputType
  <2>8. CASE InputElsewhere
    BY <2>8 DEF InputElsewhere, InputInv, InputOpen
  <2>9. CASE UNCHANGED inputVars
    BY <2>9 DEF inputVars, lxVars, InputInv, InputOpen, InputType, Cursor, strlen
  <2>10. QED
    BY <2>1, <2>2, <2>3, <2>4, <2>5, <2>6, <2>7, <2>8, <2>9 DEF InputNext, InputKey
<1>3. Inv => CursorAtEnd
  BY DEF InputInv, CursorAtEnd
<1>4. QED
  BY <1>1, <1>2, <1>3, PTL DEF InputSpec

-----------------------------------------------------------------------------
(* The checklist.  Right: the rows are those of the window of the list,    *)
(* with the one of lit highlighted; -1 stands for none.                    *)
ListRowSet == [item : Int, lit : BOOLEAN]
ListType(box) ==
  box \in [max : Int, scroll : Int, choice : Int, button : Int,
           rows : [0 .. list_height - 1 -> ListRowSet]]
ListRows(max, scroll, lit) ==
  [r \in 0 .. list_height - 1 |-> IF r < max THEN ListRow(scroll + r, r = lit) ELSE NoRow]
ListRight(box, lit, count) ==
  /\ ListType(box)
  /\ box.choice \in 0 .. box.max - 1 /\ box.max = MIN(list_height, count)
  /\ 0 <= box.scroll /\ box.scroll + box.max <= count
  /\ box.rows = ListRows(box.max, box.scroll, lit)
ListInv ==
  /\ items \in ItemList /\ lines \in Int
  /\ ListOpen => ListRight(cbox, cbox.choice, Len(items))

LEMMA EntryDimmed ==
  ASSUME NEW box, NEW count \in Nat, ListRight(box, box.choice, count)
  PROVE  /\ ListRight(DimEntry(box), -1, count)
         /\ DimEntry(box).max = box.max /\ DimEntry(box).scroll = box.scroll
         /\ DimEntry(box).choice = box.choice
<1> USE ListAssumption
<1>1. ListType(box) /\ box.choice \in 0 .. list_height - 1 /\ box.choice < box.max
  BY DEF ListRight, MIN, ListType
<1>2. /\ DimEntry(box) = [box EXCEPT !.rows[box.choice] = ListRow(box.scroll + box.choice, FALSE)]
      /\ ListRow(box.scroll + box.choice, FALSE) \in ListRowSet
  BY <1>1 DEF DimEntry, PrintEntry, ListRow, ListRowSet, ListType
<1>3. DimEntry(box) = [box EXCEPT !.rows = [box.rows EXCEPT ![box.choice] = ListRow(box.scroll + box.choice, FALSE)]]
  BY <1>1, <1>2 DEF ListType
<1>4. [box.rows EXCEPT ![box.choice] = ListRow(box.scroll + box.choice, FALSE)]
        = ListRows(box.max, box.scroll, -1)
  <2> DEFINE drawn == [box.rows EXCEPT ![box.choice] = ListRow(box.scroll + box.choice, FALSE)]
  <2>1. box.rows = ListRows(box.max, box.scroll, box.choice)
    BY DEF ListRight
  <2>2. box.max \in Int /\ box.scroll \in Int /\ box.choice \in Int
    BY <1>1 DEF ListType
  <2>3. \A r \in 0 .. list_height - 1 : drawn[r] = ListRows(box.max, box.scroll, -1)[r]
    <3>1. ASSUME NEW r \in 0 .. list_height - 1, r = box.choice
          PROVE  drawn[r] = ListRows(box.max, box.scroll, -1)[r]
      <4>1. (r = -1) = FALSE /\ r < box.max
        BY <1>1, <3>1
      <4>2. QED
        BY <1>1, <2>1, <2>2, <3>1, <4>1 DEF ListRows, ListRow
    <3>2. ASSUME NEW r \in 0 .. list_height - 1, r # box.choice
          PROVE  drawn[r] = ListRows(box.max, box.scroll, -1)[r]
      BY <1>1, <2>1, <2>2, <3>2 DEF ListRows, ListRow
    <3>3. QED
      BY <3>1, <3>2
  <2>4. /\ drawn = [r \in 0 .. list_height - 1 |-> drawn[r]]
        /\ ListRows(box.max, box.scroll, -1)
             = [r \in 0 .. list_height - 1 |-> ListRows(box.max, box.scroll, -1)[r]]
    BY <2>1 DEF ListRows
  <2> HIDE DEF drawn
  <2>5. drawn = ListRows(box.max, box.scroll, -1)
    BY <2>3, <2>4
  <2>6. QED
    BY <2>5 DEF drawn
<1>5. ListRows(box.max, box.scroll, -1) \in [0 .. list_height - 1 -> ListRowSet]
  BY <1>1 DEF ListRows, ListRow, NoRow, ListRowSet, ListType
<1>6. QED
  BY <1>1, <1>3, <1>4, <1>5 DEF ListRight, ListType

LEMMA EntryLit ==
  ASSUME NEW box, NEW count \in Nat, ListRight(box, -1, count)
  PROVE  /\ ListRight(LitEntry(box), box.choice, count)
         /\ LitEntry(box).choice = box.choice
<1> USE ListAssumption
<1>1. ListType(box) /\ box.choice \in 0 .. list_height - 1 /\ box.choice < box.max
  BY DEF ListRight, MIN, ListType
<1>2. /\ LitEntry(box) = [box EXCEPT !.rows[box.choice] = ListRow(box.scroll + box.choice, TRUE)]
      /\ ListRow(box.scroll + box.choice, TRUE) \in ListRowSet
  BY <1>1 DEF LitEntry, PrintEntry, ListRow, ListRowSet, ListType
<1>3. LitEntry(box) = [box EXCEPT !.rows = [box.rows EXCEPT ![box.choice] = ListRow(box.scroll + box.choice, TRUE)]]
  BY <1>1, <1>2 DEF ListType
<1>4. [box.rows EXCEPT ![box.choice] = ListRow(box.scroll + box.choice, TRUE)]
        = ListRows(box.max, box.scroll, box.choice)
  <2> DEFINE drawn == [box.rows EXCEPT ![box.choice] = ListRow(box.scroll + box.choice, TRUE)]
  <2>1. box.rows = ListRows(box.max, box.scroll, -1)
    BY DEF ListRight
  <2>2. box.max \in Int /\ box.scroll \in Int /\ box.choice \in Int
    BY <1>1 DEF ListType
  <2>3. \A r \in 0 .. list_height - 1 : drawn[r] = ListRows(box.max, box.scroll, box.choice)[r]
    <3>1. ASSUME NEW r \in 0 .. list_height - 1, r = box.choice
          PROVE  drawn[r] = ListRows(box.max, box.scroll, box.choice)[r]
      BY <1>1, <2>1, <2>2, <3>1 DEF ListRows, ListRow
    <3>2. ASSUME NEW r \in 0 .. list_height - 1, r # box.choice
          PROVE  drawn[r] = ListRows(box.max, box.scroll, box.choice)[r]
      BY <1>1, <2>1, <2>2, <3>2 DEF ListRows, ListRow
    <3>3. QED
      BY <3>1, <3>2
  <2>4. /\ drawn = [r \in 0 .. list_height - 1 |-> drawn[r]]
        /\ ListRows(box.max, box.scroll, box.choice)
             = [r \in 0 .. list_height - 1 |-> ListRows(box.max, box.scroll, box.choice)[r]]
    BY <2>1 DEF ListRows
  <2> HIDE DEF drawn
  <2>5. drawn = ListRows(box.max, box.scroll, box.choice)
    BY <2>3, <2>4
  <2>6. QED
    BY <2>5 DEF drawn
<1>5. ListRows(box.max, box.scroll, box.choice) \in [0 .. list_height - 1 -> ListRowSet]
  BY <1>1 DEF ListRows, ListRow, NoRow, ListRowSet, ListType
<1>6. QED
  BY <1>1, <1>3, <1>4, <1>5 DEF ListRight, ListType

LEMMA ListScrolled ==
  ASSUME NEW box, NEW count \in Nat, ListRight(box, -1, count), NEW n \in {-1, 1},
         0 <= box.scroll + n, box.scroll + n + box.max <= count,
         box.choice = IF n = 1 THEN box.max - 1 ELSE 0
  PROVE  ListRight(ScrollList(box, n), ScrollList(box, n).choice, count)
<1> USE ListAssumption
<1> DEFINE shifted == [r \in 0 .. list_height - 1 |->
                         IF r + n \in 0 .. list_height - 1 THEN box.rows[r + n] ELSE NoRow]
           moved == [box EXCEPT !.scroll = box.scroll + n, !.rows = shifted]
           whole == [moved EXCEPT !.rows = ListRows(box.max, box.scroll + n, -1)]
<1>1. /\ ListType(box) /\ box.max = list_height /\ box.choice \in 0 .. list_height - 1
      /\ box.scroll \in Int /\ box.rows = ListRows(box.max, box.scroll, -1)
  BY DEF ListRight, MIN, ListType
<1>2. ScrollList(box, n) = LitEntry(moved)
  BY <1>1 DEF ScrollList, ListType
<1>3. shifted \in [0 .. list_height - 1 -> ListRowSet]
  BY <1>1 DEF ListType, NoRow, ListRow, ListRowSet
<1>4. \A r \in 0 .. list_height - 1 :
        r # box.choice => shifted[r] = ListRows(box.max, box.scroll + n, -1)[r]
  BY <1>1 DEF ListRows, ListRow
<1>5. ListRows(box.max, box.scroll + n, -1) \in [0 .. list_height - 1 -> ListRowSet]
  BY <1>1 DEF ListRows, ListRow, NoRow, ListRowSet
<1> HIDE DEF shifted
<1>6. /\ ListType(moved) /\ moved.rows = shifted /\ moved.scroll = box.scroll + n
      /\ moved.max = box.max /\ moved.choice = box.choice
  <2>1. box.scroll + n \in Int
    BY <1>1
  <2>2. QED
    BY <1>1, <1>3, <2>1 DEF ListType
<1>7. ListRight(whole, -1, count) /\ whole.choice = box.choice /\ whole.scroll = box.scroll + n
  BY <1>1, <1>5, <1>6 DEF ListRight, ListType
<1>8. LitEntry(moved) = LitEntry(whole)
  <2>1. [shifted EXCEPT ![box.choice] = ListRow(box.scroll + n + box.choice, TRUE)]
        = [ListRows(box.max, box.scroll + n, -1) EXCEPT
             ![box.choice] = ListRow(box.scroll + n + box.choice, TRUE)]
    BY <1>1, <1>3, <1>4, <1>5
  <2> HIDE DEF moved
  <2>2. /\ LitEntry(moved)
             = [moved EXCEPT !.rows = [shifted EXCEPT
                  ![box.choice] = ListRow(box.scroll + n + box.choice, TRUE)]]
        /\ LitEntry(whole)
             = [moved EXCEPT !.rows = [ListRows(box.max, box.scroll + n, -1) EXCEPT
                  ![box.choice] = ListRow(box.scroll + n + box.choice, TRUE)]]
    BY <1>5, <1>6, <1>7 DEF LitEntry, PrintEntry, ListType
  <2>3. QED
    BY <2>1, <2>2
<1> HIDE DEF whole
<1>9. QED
  BY <1>2, <1>7, <1>8, EntryLit

LEMMA StartItemInList ==
  ASSUME NEW list \in ItemList, list # <<>>
  PROVE  StartItem(list) \in 0 .. Len(list) - 1
<1>1. Len(list) \in Nat \ {0}
  BY DEF ItemList
<1>2. CASE FirstSelected(list) # {}
  BY <1>2 DEF StartItem, FirstSelected
<1>3. CASE FirstSelected(list) = {}
  BY <1>1, <1>3 DEF StartItem, item_n
<1>4. QED
  BY <1>2, <1>3

LEMMA ListDraws ==
  ASSUME NEW l \in Int, NEW choice \in 0 .. Len(items') - 1, NEW scroll \in Nat, NEW button \in Int,
         items' \in ItemList, lines' \in Int,
         choice < list_height => scroll + MIN(list_height, Len(items')) <= Len(items'),
         DrawList(l, items', choice, scroll, button)
  PROVE  ListInv'
<1> USE ListAssumption
<1>1. CASE l < 21
  BY <1>1 DEF DrawList, Returns, ListInv, ListOpen
<1>2. CASE l >= 21
  <2> DEFINE max  == MIN(list_height, Len(items'))
             down == IF choice >= list_height THEN choice - list_height + 1 ELSE 0
             top  == IF down # 0 THEN down ELSE scroll
  <2>1. cbox' = [max |-> max, scroll |-> top, choice |-> choice - down, button |-> button,
                 rows |-> ListRows(max, top, choice - down)]
    BY <1>2 DEF DrawList, ListWindow, ListRows, item_count
  <2>2. /\ max \in Int /\ down \in Int /\ top \in Nat
        /\ choice - down \in 0 .. max - 1 /\ top + max <= Len(items')
    <3>1. Len(items') \in Nat /\ choice \in Nat /\ choice < Len(items')
      BY DEF ItemList
    <3>2. CASE choice >= list_height
      <4>1. max = list_height
        BY <3>1, <3>2 DEF MIN
      <4>2. down = choice - list_height + 1 /\ down # 0
        BY <3>1, <3>2
      <4>3. QED
        BY <3>1, <3>2, <4>1, <4>2
    <3>3. CASE choice < list_height
      <4>1. down = 0 /\ top = scroll
        BY <3>1, <3>3
      <4>2. max \in Int /\ choice < max /\ scroll + max <= Len(items')
        BY <3>1, <3>3 DEF MIN
      <4>3. QED
        BY <3>1, <4>1, <4>2
    <3>4. QED
      BY <3>1, <3>2, <3>3
  <2> HIDE DEF max, down, top
  <2>3. ListRows(max, top, choice - down) \in [0 .. list_height - 1 -> ListRowSet]
    BY <2>2 DEF ListRows, ListRow, NoRow, ListRowSet
  <2>4. ListType(cbox')
    BY <2>1, <2>2, <2>3 DEF ListType
  <2>5. max = MIN(list_height, Len(items'))
    BY DEF max
  <2>6. ListRight(cbox', cbox'.choice, Len(items'))
    BY <2>1, <2>2, <2>4, <2>5 DEF ListRight
  <2>7. QED
    BY <2>6 DEF ListInv
<1>3. QED
  BY <1>1, <1>2

LEMMA ListMovesRight ==
  ListInv /\ ListOpen /\ (ListUp \/ ListDown \/ ListHotkey) => ListInv'
<1> SUFFICES ASSUME ListInv, ListOpen, ListUp \/ ListDown \/ ListHotkey PROVE ListInv'
  OBVIOUS
<1> USE ListAssumption
<1> DEFINE count == Len(items)
           dim == DimEntry(cbox)
<1>1. count \in Nat /\ ListRight(cbox, cbox.choice, count)
  BY DEF ListInv, ItemList
<1>2. /\ ListRight(dim, -1, count)
      /\ dim.max = cbox.max /\ dim.scroll = cbox.scroll /\ dim.choice = cbox.choice
  BY <1>1, EntryDimmed
<1>3. /\ ListType(cbox) /\ cbox.choice \in 0 .. cbox.max - 1
      /\ 0 <= cbox.scroll /\ cbox.scroll + cbox.max <= count
  BY <1>1 DEF ListRight
<1> HIDE DEF dim
<1>4. ASSUME NEW row \in 0 .. cbox.max - 1, GoTo(row) PROVE ListInv'
  <2> DEFINE to == [dim EXCEPT !.choice = row]
  <2>1. cbox' = LitEntry(to) /\ UNCHANGED lxVars
    BY <1>4 DEF GoTo, ListMoves, dim
  <2>2. ListRight(to, -1, count) /\ to.choice = row
    <3>1. ListType(dim) /\ dim.rows = ListRows(dim.max, dim.scroll, -1)
      BY <1>2 DEF ListRight
    <3>2. /\ ListType(to) /\ to.choice = row /\ to.max = dim.max /\ to.scroll = dim.scroll
          /\ to.rows = dim.rows
      BY <3>1 DEF ListType
    <3> HIDE DEF to
    <3>3. QED
      BY <1>2, <1>4, <3>1, <3>2 DEF ListRight
  <2> HIDE DEF to
  <2>3. ListRight(LitEntry(to), LitEntry(to).choice, count)
    BY <1>1, <2>2, EntryLit
  <2>4. QED
    BY <2>1, <2>3 DEF ListInv, ListOpen, lxVars
<1>5. ASSUME NEW n \in {-1, 1}, ListMoves(ScrollList(dim, n)),
             0 <= cbox.scroll + n, cbox.scroll + n + cbox.max <= count,
             cbox.choice = IF n = 1 THEN cbox.max - 1 ELSE 0
      PROVE  ListInv'
  <2>1. ListRight(ScrollList(dim, n), ScrollList(dim, n).choice, count)
    BY <1>1, <1>2, <1>5, ListScrolled
  <2>2. QED
    BY <1>5, <2>1 DEF ListMoves, ListInv, ListOpen, lxVars
<1>6. CASE ListUp
  <2>1. CASE cbox.choice # 0 /\ GoTo(cbox.choice - 1)
    <3>1. cbox.choice - 1 \in 0 .. cbox.max - 1
      BY <1>3, <2>1 DEF ListType
    <3>2. QED
      BY <1>4, <2>1, <3>1
  <2>2. CASE cbox.choice = 0 /\ cbox.scroll # 0 /\ ListMoves(ScrollList(dim, -1))
    BY <1>1, <1>3, <1>5, <2>2 DEF ListType
  <2>3. QED
    BY <1>6, <2>1, <2>2 DEF ListUp, dim
<1>7. CASE ListDown
  <2>1. CASE cbox.choice # cbox.max - 1 /\ GoTo(cbox.choice + 1)
    <3>1. cbox.choice + 1 \in 0 .. cbox.max - 1
      BY <1>3, <2>1 DEF ListType
    <3>2. QED
      BY <1>4, <2>1, <3>1
  <2>2. CASE /\ cbox.choice = cbox.max - 1
             /\ cbox.scroll + cbox.choice < item_count(items) - 1
             /\ ListMoves(ScrollList(dim, 1))
    <3>1. 0 <= cbox.scroll + 1 /\ cbox.scroll + 1 + cbox.max <= count
      BY <1>1, <1>3, <2>2 DEF ListType, item_count
    <3>2. QED
      BY <1>5, <2>2, <3>1
  <2>3. QED
    BY <1>7, <2>1, <2>2 DEF ListDown, dim
<1>8. CASE ListHotkey
  BY <1>4, <1>8 DEF ListHotkey
<1>9. QED
  BY <1>6, <1>7, <1>8

(* The checklist shows the values that its keys act on.                    *)
THEOREM ListCorrect == ListSpec => []ListShown
<1> USE ListAssumption, HeightsAssumption
<1>1. ListInit => ListInv
  BY DEF ListInit, ListInv, ListOpen
<1>2. ListInv /\ [ListNext]_listVars => ListInv'
  <2> SUFFICES ASSUME ListInv, [ListNext]_listVars PROVE ListInv'
    OBVIOUS
  <2>1. CASE items' \in ItemList \ {<<>>} /\ dialog_checklist
    <3>1. /\ items' \in ItemList /\ lines' \in Int /\ Len(items') \in Nat
          /\ StartItem(items') \in 0 .. Len(items') - 1
          /\ DrawList(lines, items', StartItem(items'), 0, 0)
      <4>1. /\ items' \in ItemList /\ items' # <<>> /\ lines' = lines
            /\ DrawList(lines, items', StartItem(items'), 0, 0)
        BY <2>1 DEF dialog_checklist
      <4>2. lines \in Int
        BY DEF ListInv
      <4>3. Len(items') \in Nat
        BY <4>1 DEF ItemList
      <4>4. StartItem(items') \in 0 .. Len(items') - 1
        BY <4>1, StartItemInList
      <4>5. QED
        BY <4>1, <4>2, <4>3, <4>4
    <3>2. 0 + MIN(list_height, Len(items')) <= Len(items') /\ lines \in Int
      BY <3>1 DEF MIN, ListInv
    <3> HIDE DEF ListInv
    <3>3. QED
      BY <3>1, <3>2, ListDraws
  <2>2. CASE ListOpen /\ (ListUp \/ ListDown \/ ListHotkey)
    BY <2>2, ListMovesRight
  <2>3. CASE ListButton
    <3>1. /\ ListOpen /\ cbox' = [cbox EXCEPT !.button = 1 - @] /\ UNCHANGED lxVars
          /\ ListRight(cbox, cbox.choice, Len(items))
      BY <2>3 DEF ListButton, ListInv
    <3>2. ListRight(cbox', cbox'.choice, Len(items))
      BY <3>1 DEF ListRight, ListType
    <3>3. QED
      BY <3>1, <3>2 DEF ListInv, ListOpen, lxVars
  <2>4. CASE ListSelect
    <3>1. items' = SelectOnly(cbox.scroll + cbox.choice) /\ shown' = "none" /\ lines' = lines
      BY <2>4 DEF ListSelect, Returns
    <3>2. items' \in ItemList
      <4> DEFINE Item == [tag : STRING, data : Data, selected : BOOLEAN, long : BOOLEAN]
      <4>1. items \in Seq(Item)
        BY DEF ListInv, ItemList
      <4> HIDE DEF Item
      <4> DEFINE item(i) == [items[i] EXCEPT !.selected = (i = cbox.scroll + cbox.choice + 1)]
      <4>2. \A i \in 1 .. Len(items) :
              item(i) \in Item
        <5>1. \A i \in 1 .. Len(items) : items[i] \in Item
          BY <4>1
        <5>2. QED
          BY <5>1 DEF Item
      <4>3. items' = [i \in 1 .. Len(items) |-> item(i)] /\ Len(items) \in Nat
        BY <3>1, <4>1 DEF SelectOnly
      <4> HIDE DEF item
      <4>4. QED
        BY <4>2, <4>3 DEF ItemList, Item
    <3>3. QED
      BY <3>1, <3>2 DEF ListInv, ListOpen
  <2>5. CASE ListEscape
    BY <2>5 DEF ListEscape, Returns, ListInv, ListOpen
  <2>6. CASE ListResize
    <3>1. /\ items' = items /\ lines' \in Int
          /\ DrawList(lines', items', cbox.choice, cbox.scroll, cbox.button)
          /\ ListRight(cbox, cbox.choice, Len(items))
      BY <2>6 DEF ListResize, Resized, ListInv
    <3>2. /\ cbox.choice \in 0 .. Len(items') - 1 /\ cbox.scroll \in Nat /\ cbox.button \in Int
          /\ cbox.scroll + MIN(list_height, Len(items')) <= Len(items') /\ items' \in ItemList
      BY <3>1 DEF ListRight, ListType, ListInv, MIN, ItemList
    <3> HIDE DEF ListInv
    <3>3. QED
      BY <3>1, <3>2, ListDraws
  <2>7. CASE ListElsewhere
    BY <2>7 DEF ListElsewhere, ListInv, ListOpen
  <2>8. CASE UNCHANGED listVars
    BY <2>8 DEF listVars, lxVars, ListInv, ListOpen
  <2>9. QED
    BY <2>1, <2>2, <2>3, <2>4, <2>5, <2>6, <2>7, <2>8 DEF ListNext, ListKey
<1>3. ListInv => ListShown
  BY DEF ListInv, ListShown, ListRight, ListRows, item_count
<1>4. QED
  BY <1>1, <1>2, <1>3, PTL DEF ListSpec

-----------------------------------------------------------------------------
(* The text box.  At(box, top): box shows the lines from top on, and its   *)
(* pointer, its count and its flags say so.                                *)
RowSet == UNION {[0 .. n - 1 -> Int] : n \in Nat}
TextRecord ==
  [text : Texts, page : Int, begin_reached : BOOLEAN, end_reached : BOOLEAN,
   page_length : Nat, hscroll : Int, height : Int, boxh : Nat, rows : RowSet]
TextType(box) ==
  /\ box \in TextRecord /\ box.height = box.boxh + 4
  /\ box.rows \in [0 .. box.boxh - 1 -> Int]
LinesFrom(box, top) == [r \in 0 .. box.boxh - 1 |-> OnRow(box, top + r)]
Started(box) == box.begin_reached <=> box.page = 1
At(box, top) ==
  /\ top \in 1 .. Eof(box)
  /\ box.page = MIN(top + box.boxh, Eof(box))
  /\ box.page_length = MIN(box.boxh, Eof(box) - top + 1)
  /\ box.begin_reached <=> top = 1
  /\ box.end_reached <=> top + box.boxh > Eof(box)
  /\ box.rows = LinesFrom(box, top)
TextRight(box) ==
  box.text.newline => /\ box.page \in 1 .. Eof(box)
                      /\ box.boxh > 0 => \E top \in Int : At(box, top)
TextInv ==
  /\ lines \in Int
  /\ TextOpen => TextType(tbox) /\ TextRight(tbox)

LEMMA EofIsNat == ASSUME NEW box \in TextRecord PROVE Eof(box) \in Nat \ {0, 1}
  BY TextsAssumption DEF TextRecord, Eof

LEMMA TopIsTop ==
  ASSUME NEW box \in TextRecord, NEW top \in Int, box.boxh > 0, At(box, top)
  PROVE  TopLine(box) = top
<1>1. Eof(box) \in Nat /\ box.boxh \in Nat /\ box.page \in Int /\ box.page_length \in Int
  BY EofIsNat DEF TextRecord
<1> HIDE DEF Eof
<1>2. CASE box.end_reached
  <2>1. box.page = Eof(box) /\ box.page_length = Eof(box) - top + 1
    BY <1>1, <1>2 DEF At, MIN
  <2>2. QED
    BY <1>1, <1>2, <2>1 DEF TopLine
<1>3. CASE ~box.end_reached
  <2>1. box.page = top + box.boxh /\ box.page_length = box.boxh
    BY <1>1, <1>3 DEF At, MIN
  <2>2. QED
    BY <1>1, <1>3, <2>1 DEF TopLine
<1>4. QED
  BY <1>2, <1>3

LEMMA BackType ==
  ASSUME NEW box \in TextRecord, NEW n \in Int
  PROVE  /\ back_lines(box, n) \in TextRecord
         /\ back_lines(box, n).text = box.text /\ back_lines(box, n).boxh = box.boxh
         /\ back_lines(box, n).rows = box.rows /\ back_lines(box, n).hscroll = box.hscroll
         /\ back_lines(box, n).height = box.height
         /\ Eof(back_lines(box, n)) = Eof(box)
<1> DEFINE waste == n > 0 /\ box.page = Eof(box) /\ box.end_reached
           m     == IF waste THEN n - 1 ELSE n
           page  == MAX(1, box.page - m)
           begin == m > 0 /\ box.page - m <= 1
           end   == IF waste THEN FALSE ELSE box.end_reached
<1>1. page \in Int /\ begin \in BOOLEAN /\ end \in BOOLEAN
  <2>1. box.page \in Int /\ box.end_reached \in BOOLEAN
    BY DEF TextRecord
  <2>2. page \in Int
    BY <2>1 DEF MAX
  <2>3. begin \in BOOLEAN /\ end \in BOOLEAN
    BY <2>1, Zenon
  <2>4. QED
    BY <2>2, <2>3
<1>2. back_lines(box, n)
        = [box EXCEPT !.page = page, !.begin_reached = begin, !.end_reached = end]
  BY DEF back_lines, TextRecord
<1> HIDE DEF page, begin, end
<1>3. QED
  BY <1>1, <1>2 DEF TextRecord, Eof

LEMMA BackFar ==
  ASSUME NEW box \in TextRecord, NEW n \in Int, box.page \in 1 .. Eof(box), n >= 0
  PROVE  /\ back_lines(box, n).page \in 1 .. Eof(box)
         /\ n > 1 \/ (n = 1 /\ box.page = Eof(box) /\ box.end_reached) => Started(back_lines(box, n))
<1> DEFINE waste == n > 0 /\ box.page = Eof(box) /\ box.end_reached
           m     == IF waste THEN n - 1 ELSE n
<1>1. Eof(box) \in Nat \ {0, 1}
  BY EofIsNat
<1>2. /\ back_lines(box, n).page = MAX(1, box.page - m)
      /\ back_lines(box, n).begin_reached <=> (m > 0 /\ box.page - m <= 1)
  BY DEF back_lines, TextRecord
<1>3. m \in Nat
  OBVIOUS
<1>4. back_lines(box, n).page \in 1 .. Eof(box)
  BY <1>1, <1>2, <1>3 DEF MAX
<1>5. ASSUME n > 1 \/ (n = 1 /\ box.page = Eof(box) /\ box.end_reached)
      PROVE  Started(back_lines(box, n))
  <2>1. m > 0 \/ (m = 0 /\ box.page = Eof(box))
    BY <1>5
  <2> HIDE DEF m
  <2>2. MAX(1, box.page - m) = 1 <=> box.page - m <= 1
    BY <1>1, <1>3 DEF MAX
  <2>3. box.page - m <= 1 => m > 0
    BY <1>1, <1>3, <2>1
  <2>4. QED
    BY <1>2, <2>2, <2>3 DEF Started
<1>6. QED
  BY <1>4, <1>5

LEMMA BackFromTop ==
  ASSUME NEW box \in TextRecord, NEW top \in Int, At(box, top), box.boxh > 0, NEW k \in Nat
  PROVE  /\ back_lines(box, box.page_length + k).page = MAX(1, top - k)
         /\ Started(back_lines(box, box.page_length + k))
<1> DEFINE n     == box.page_length + k
           waste == n > 0 /\ box.page = Eof(box) /\ box.end_reached
           m     == IF waste THEN n - 1 ELSE n
<1>1. Eof(box) \in Nat \ {0, 1} /\ box.boxh \in Nat /\ box.page \in Int /\ top \in 1 .. Eof(box)
  BY EofIsNat DEF TextRecord, At
<1>2. /\ back_lines(box, n).page = MAX(1, box.page - m)
      /\ back_lines(box, n).begin_reached <=> (m > 0 /\ box.page - m <= 1)
  BY DEF back_lines, TextRecord
<1> HIDE DEF Eof
<1>3. /\ box.page_length \in Nat \ {0} /\ m \in Int
      /\ box.page - m = top - k
      /\ m > 0 \/ top - k > 1
  <2>1. CASE box.end_reached
    <3>1. box.page = Eof(box) /\ box.page_length = Eof(box) - top + 1
      BY <1>1, <2>1 DEF At, MIN
    <3>2. waste
      BY <1>1, <2>1, <3>1
    <3>3. m = Eof(box) - top + k
      BY <1>1, <3>1, <3>2
    <3> HIDE DEF m
    <3>4. QED
      BY <1>1, <3>1, <3>3
  <2>2. CASE ~box.end_reached
    <3>1. box.page = top + box.boxh /\ box.page_length = box.boxh
      BY <1>1, <2>2 DEF At, MIN
    <3>2. m = box.boxh + k
      BY <1>1, <2>2, <3>1
    <3> HIDE DEF m
    <3>3. QED
      BY <1>1, <3>1, <3>2
  <2>3. QED
    BY <2>1, <2>2
<1> HIDE DEF m
<1>4. MAX(1, top - k) = 1 <=> top - k <= 1
  BY <1>1 DEF MAX
<1>5. Started(back_lines(box, n))
  BY <1>1, <1>2, <1>3, <1>4 DEF Started
<1>6. QED
  BY <1>2, <1>3, <1>5

LEMMA GetType ==
  ASSUME NEW box \in TextRecord, NEW n \in Nat
  PROVE  /\ get_lines(box, n) \in TextRecord
         /\ get_lines(box, n).text = box.text /\ get_lines(box, n).boxh = box.boxh
         /\ get_lines(box, n).rows = box.rows /\ get_lines(box, n).hscroll = box.hscroll
         /\ get_lines(box, n).height = box.height
         /\ get_lines(box, n).begin_reached = box.begin_reached
         /\ get_lines(box, n).page = MIN(box.page + n, Eof(box))
         /\ get_lines(box, n).page_length = MIN(n, Ending(box) - box.page + 1)
         /\ n > 0 => (get_lines(box, n).end_reached <=> box.page + n > Ending(box))
         /\ Eof(get_lines(box, n)) = Eof(box)
<1> DEFINE page == MIN(box.page + n, Eof(box))
           end  == IF n = 0 THEN box.end_reached ELSE box.page + n > Ending(box)
           len  == MIN(n, Ending(box) - box.page + 1)
<1>1. Eof(box) \in Nat /\ box.page \in Int /\ box.end_reached \in BOOLEAN /\ box.text.lines \in Nat
  BY EofIsNat, TextsAssumption DEF TextRecord
<1>2. Ending(box) \in Int /\ Ending(box) >= box.page
  BY <1>1 DEF Ending, MAX
<1>3. page \in Int /\ len \in Nat
  BY <1>1, <1>2 DEF MIN
<1>4. end \in BOOLEAN
  <2>1. CASE n = 0
    BY <1>1, <2>1
  <2>2. CASE n # 0
    <3>1. (box.page + n > Ending(box)) \in BOOLEAN
      BY <1>1, <1>2
    <3>2. QED
      BY <2>2, <3>1
  <2>3. QED
    BY <2>1, <2>2
<1>5. get_lines(box, n) = [box EXCEPT !.page = page, !.end_reached = end, !.page_length = len]
  BY DEF get_lines, TextRecord
<1>6. n > 0 => (end <=> box.page + n > Ending(box))
  OBVIOUS
<1> HIDE DEF end
<1>7. /\ get_lines(box, n).page = page /\ get_lines(box, n).page_length = len
      /\ get_lines(box, n).end_reached = end
      /\ get_lines(box, n).begin_reached = box.begin_reached
  BY <1>5 DEF TextRecord
<1> HIDE DEF page, len
<1>8. /\ get_lines(box, n) \in TextRecord
      /\ get_lines(box, n).text = box.text /\ get_lines(box, n).boxh = box.boxh
      /\ get_lines(box, n).rows = box.rows /\ get_lines(box, n).hscroll = box.hscroll
      /\ get_lines(box, n).height = box.height
  BY <1>3, <1>4, <1>5 DEF TextRecord
<1>9. Eof(get_lines(box, n)) = Eof(box)
  BY <1>8 DEF Eof
<1>10. QED
  BY <1>6, <1>7, <1>8, <1>9 DEF page, len

LEMMA RowsType ==
  ASSUME NEW box \in TextRecord, NEW rows \in [0 .. box.boxh - 1 -> Int], box.height = box.boxh + 4
  PROVE  /\ TextType([box EXCEPT !.rows = rows])
         /\ [box EXCEPT !.rows = rows].rows = rows
         /\ \A f \in {"text", "page", "begin_reached", "end_reached", "page_length", "hscroll", "boxh"} :
              [box EXCEPT !.rows = rows][f] = box[f]
<1>1. rows \in RowSet
  BY DEF RowSet, TextRecord
<1>2. QED
  BY <1>1 DEF TextType, TextRecord

LEMMA EndingIsEof ==
  ASSUME NEW box \in TextRecord, box.text.newline, box.page \in 1 .. Eof(box)
  PROVE  Ending(box) = Eof(box)
  BY EofIsNat DEF Ending, MAX

(* A page printed from the pointer on.                                     *)
LEMMA Printed ==
  ASSUME NEW box \in TextRecord, box.height = box.boxh + 4,
         box.text.newline => /\ box.page \in 1 .. Eof(box)
                             /\ box.boxh > 0 => Started(box)
  PROVE  /\ TextType(print_page(box)) /\ TextRight(print_page(box))
         /\ print_page(box).text = box.text /\ print_page(box).hscroll = box.hscroll
         /\ print_page(box).rows = LinesFrom(box, box.page)
<1> DEFINE got  == get_lines(box, box.boxh)
           rows == LinesFrom(box, box.page)
           new  == print_page(box)
<1>1. box.boxh \in Nat /\ box.page \in Int /\ Eof(box) \in Nat \ {0, 1} /\ box.text.lines \in Nat
  BY EofIsNat, TextsAssumption DEF TextRecord
<1>2. rows \in [0 .. box.boxh - 1 -> Int]
  BY <1>1 DEF LinesFrom, OnRow, NoLine
<1>3. new = [got EXCEPT !.rows = rows]
  BY DEF print_page, LinesFrom
<1>4. /\ got \in TextRecord /\ got.text = box.text /\ got.boxh = box.boxh
      /\ got.hscroll = box.hscroll /\ got.height = box.height
      /\ got.begin_reached = box.begin_reached
      /\ got.page = MIN(box.page + box.boxh, Eof(box))
      /\ got.page_length = MIN(box.boxh, Ending(box) - box.page + 1)
      /\ box.boxh > 0 => (got.end_reached <=> box.page + box.boxh > Ending(box))
  BY <1>1, GetType
<1> HIDE DEF got, rows, new
<1>5. /\ TextType(new) /\ new.rows = rows
      /\ \A f \in {"text", "page", "begin_reached", "end_reached", "page_length", "hscroll", "boxh"} :
           new[f] = got[f]
  BY <1>2, <1>3, <1>4, RowsType
<1>6. /\ new.text = box.text /\ new.boxh = box.boxh /\ new.hscroll = box.hscroll
      /\ new.begin_reached = box.begin_reached /\ new.page = got.page
      /\ new.page_length = got.page_length /\ new.end_reached = got.end_reached
  BY <1>4, <1>5
<1>7. Eof(new) = Eof(box)
  BY <1>6 DEF Eof
<1>8. ASSUME box.text.newline PROVE new.page \in 1 .. Eof(new)
  BY <1>1, <1>4, <1>6, <1>7, <1>8 DEF MIN
<1>9. ASSUME box.text.newline, box.boxh > 0 PROVE At(new, box.page)
  <2>1. Ending(box) = Eof(box)
    BY <1>9, EndingIsEof
  <2>2. new.rows = LinesFrom(new, box.page)
    BY <1>5, <1>6 DEF rows, LinesFrom, OnRow
  <2>3. new.begin_reached <=> box.page = 1
    BY <1>6, <1>9 DEF Started
  <2>4. /\ new.page = MIN(box.page + new.boxh, Eof(new))
        /\ new.page_length = MIN(new.boxh, Eof(new) - box.page + 1)
        /\ new.end_reached <=> box.page + new.boxh > Eof(new)
        /\ box.page \in 1 .. Eof(new)
    BY <1>4, <1>6, <1>7, <1>9, <2>1
  <2>5. QED
    BY <2>2, <2>3, <2>4 DEF At
<1>10. TextRight(new)
  BY <1>1, <1>6, <1>8, <1>9 DEF TextRight
<1>11. QED
  BY <1>5, <1>6, <1>10 DEF new, rows

LEMMA TextPages ==
  TextInv /\ (FirstPage \/ LastPage \/ PageUp \/ PageDown \/ Sideways) => TextInv'
<1> SUFFICES ASSUME TextInv, FirstPage \/ LastPage \/ PageUp \/ PageDown \/ Sideways
             PROVE  TextInv'
  OBVIOUS
<1>1. /\ TextOpen /\ TextType(tbox) /\ TextRight(tbox) /\ tbox \in TextRecord
      /\ tbox.height = tbox.boxh + 4 /\ tbox.boxh \in Nat /\ tbox.page_length \in Nat
      /\ Eof(tbox) \in Nat \ {0, 1}
  BY EofIsNat DEF TextInv, TextType, TextRecord, FirstPage, LastPage, PageUp, PageDown, Sideways
<1>2. ASSUME NEW box \in TextRecord, Shows(print_page(box)), box.height = box.boxh + 4,
             box.text.newline => /\ box.page \in 1 .. Eof(box)
                                 /\ box.boxh > 0 => Started(box)
      PROVE  TextInv'
  <2>1. TextType(print_page(box)) /\ TextRight(print_page(box))
    BY <1>2, Printed
  <2>2. QED
    BY <1>2, <2>1 DEF Shows, TextInv, TextOpen, lxVars
<1>3. CASE FirstPage
  <2> DEFINE box == [tbox EXCEPT !.begin_reached = TRUE, !.page = 1]
  <2>1. /\ box \in TextRecord /\ box.height = box.boxh + 4 /\ box.page = 1 /\ Started(box)
        /\ Eof(box) = Eof(tbox)
    <3>1. /\ box \in TextRecord /\ box.height = tbox.height /\ box.boxh = tbox.boxh
          /\ box.page = 1 /\ box.begin_reached /\ box.text = tbox.text
      <4>1. box \in TextRecord
        <5> DEFINE begun == [tbox EXCEPT !.begin_reached = TRUE]
        <5>1. begun \in TextRecord
          BY <1>1 DEF TextRecord
        <5>2. [begun EXCEPT !.page = 1] \in TextRecord
          <6> HIDE DEF begun
          <6>1. QED
            BY <5>1 DEF TextRecord
        <5>3. box = [begun EXCEPT !.page = 1]
          BY <1>1 DEF TextRecord
        <5>4. QED
          BY <5>2, <5>3
      <4>2. /\ box.height = tbox.height /\ box.boxh = tbox.boxh
            /\ box.page = 1 /\ box.begin_reached
        BY <1>1 DEF TextRecord
      <4>3. box.text = tbox.text
        BY <1>1 DEF TextRecord
      <4>4. QED
        BY <4>1, <4>2, <4>3
    <3> HIDE DEF box
    <3>2. QED
      BY <1>1, <3>1 DEF Started, Eof
  <2>2. Shows(print_page(box))
    BY <1>3 DEF FirstPage
  <2> HIDE DEF box
  <2>3. QED
    BY <1>1, <1>2, <2>1, <2>2
<1>4. CASE LastPage
  <2> DEFINE last == [tbox EXCEPT !.end_reached = TRUE, !.page = Eof(tbox)]
             box  == back_lines(last, tbox.boxh)
  <2>1. /\ last \in TextRecord /\ last.height = tbox.height /\ last.boxh = tbox.boxh
        /\ last.page = Eof(tbox) /\ last.end_reached /\ Eof(last) = Eof(tbox)
    <3> DEFINE end == Eof(tbox)
    <3>1. end \in Int
      BY <1>1
    <3> HIDE DEF end
    <3>2. /\ [tbox EXCEPT !.end_reached = TRUE, !.page = end] \in TextRecord
          /\ [tbox EXCEPT !.end_reached = TRUE, !.page = end].height = tbox.height
          /\ [tbox EXCEPT !.end_reached = TRUE, !.page = end].boxh = tbox.boxh
          /\ [tbox EXCEPT !.end_reached = TRUE, !.page = end].page = end
          /\ [tbox EXCEPT !.end_reached = TRUE, !.page = end].end_reached
          /\ [tbox EXCEPT !.end_reached = TRUE, !.page = end].text = tbox.text
      BY <1>1, <3>1 DEF TextRecord
    <3>3. QED
      BY <3>2 DEF end, Eof
  <2>2. Shows(print_page(box))
    BY <1>4 DEF LastPage
  <2> HIDE DEF last
  <2>3. /\ box \in TextRecord /\ box.height = box.boxh + 4 /\ box.boxh = tbox.boxh
        /\ Eof(box) = Eof(tbox)
    <3>1. tbox.boxh \in Int
      BY <1>1
    <3>2. QED
      BY <1>1, <2>1, <3>1, BackType
  <2>4. box.page \in 1 .. Eof(tbox) /\ (tbox.boxh > 0 => Started(box))
    BY <1>1, <2>1, BackFar
  <2> HIDE DEF box
  <2>5. QED
    BY <1>2, <2>2, <2>3, <2>4
<1>5. ASSUME NEW now \in TextRecord, TextType(now), now.text = tbox.text, TextRight(now),
             now.height = tbox.height, now.boxh = tbox.boxh, now.page_length = tbox.page_length,
             NEW k \in Nat,
             Shows(print_page(back_lines(now, now.page_length + k)))
      PROVE  TextInv'
  <2> DEFINE box == back_lines(now, now.page_length + k)
  <2>1. now.page_length + k \in Nat
    BY <1>1, <1>5
  <2>2. /\ box \in TextRecord /\ box.height = box.boxh + 4 /\ box.boxh = now.boxh
        /\ Eof(box) = Eof(now) /\ box.text = now.text
    <3>1. now.page_length + k \in Int
      BY <2>1
    <3>2. QED
      BY <1>1, <1>5, <3>1, BackType
  <2>3. ASSUME box.text.newline PROVE box.page \in 1 .. Eof(box)
    <3>1. now.page \in 1 .. Eof(now)
      BY <1>5, <2>2, <2>3 DEF TextRight
    <3>2. QED
      BY <1>5, <2>1, <2>2, <3>1, BackFar
  <2>4. ASSUME box.text.newline, box.boxh > 0 PROVE Started(box)
    <3>1. PICK top \in Int : At(now, top)
      BY <1>5, <2>2, <2>4 DEF TextRight
    <3>2. QED
      BY <1>5, <2>2, <2>4, <3>1, BackFromTop
  <2>5. Shows(print_page(box))
    BY <1>5
  <2> HIDE DEF box
  <2>6. QED
    BY <1>2, <2>2, <2>3, <2>4, <2>5
<1>6. CASE PageUp
  BY <1>1, <1>5, <1>6 DEF PageUp
<1>7. CASE PageDown
  <2> DEFINE box == [tbox EXCEPT !.begin_reached = FALSE]
  <2>1. /\ box \in TextRecord /\ box.height = box.boxh + 4 /\ box.boxh = tbox.boxh
        /\ box.page = tbox.page /\ ~box.begin_reached /\ Eof(box) = Eof(tbox)
        /\ box.text = tbox.text
    BY <1>1 DEF TextRecord, Eof
  <2>2. Shows(print_page(box))
    BY <1>7 DEF PageDown
  <2> HIDE DEF box
  <2>3. ASSUME box.text.newline, box.boxh > 0 PROVE Started(box)
    <3>1. PICK top \in Int : At(tbox, top)
      BY <1>1, <2>1, <2>3 DEF TextRight
    <3>2. ~tbox.end_reached
      BY <1>7 DEF PageDown
    <3>3. tbox.page = top + tbox.boxh /\ top >= 1
      BY <1>1, <3>1, <3>2 DEF At, MIN
    <3>4. QED
      BY <1>1, <2>1, <2>3, <3>3 DEF Started
  <2>4. box.text.newline => box.page \in 1 .. Eof(box)
    BY <1>1, <2>1 DEF TextRight
  <2>5. QED
    BY <1>2, <2>1, <2>2, <2>3, <2>4
<1>8. CASE Sideways
  <2>1. PICK h \in Int : Shows(print_page(back_lines([tbox EXCEPT !.hscroll = h], tbox.page_length)))
    BY <1>1, <1>8, TextsAssumption DEF Sideways
  <2> DEFINE now == [tbox EXCEPT !.hscroll = h]
  <2>2. /\ now \in TextRecord /\ TextType(now) /\ now.text = tbox.text
        /\ now.height = tbox.height /\ now.boxh = tbox.boxh /\ now.page_length = tbox.page_length
        /\ now.page = tbox.page /\ now.begin_reached = tbox.begin_reached
        /\ now.end_reached = tbox.end_reached /\ now.rows = tbox.rows
    BY <1>1 DEF TextRecord, TextType
  <2>3. Shows(print_page(back_lines(now, now.page_length + 0)))
    BY <1>1, <2>1, <2>2
  <2> HIDE DEF now
  <2>4. TextRight(now)
    <3>1. Eof(now) = Eof(tbox)
      BY <2>2 DEF Eof
    <3>2. ASSUME NEW top \in Int, At(tbox, top) PROVE At(now, top)
      <4>1. LinesFrom(now, top) = LinesFrom(tbox, top)
        BY <2>2 DEF LinesFrom, OnRow
      <4>2. QED
        BY <2>2, <3>1, <3>2, <4>1 DEF At
    <3>3. QED
      BY <1>1, <2>2, <3>1, <3>2 DEF TextRight
  <2>5. QED
    BY <1>5, <2>2, <2>3, <2>4
<1>9. QED
  BY <1>3, <1>4, <1>6, <1>7, <1>8

LEMMA TextLineUp == TextInv /\ LineUp => TextInv'
<1> SUFFICES ASSUME TextInv, LineUp PROVE TextInv'
  OBVIOUS
<1> DEFINE box  == back_lines(tbox, tbox.page_length + 1)
           got  == get_lines(box, tbox.boxh)
           rows == [r \in 0 .. tbox.boxh - 1 |->
                      IF r = 0 THEN OnRow(box, box.page) ELSE tbox.rows[r - 1]]
           new  == [got EXCEPT !.rows = rows]
<1>1. /\ TextOpen /\ TextType(tbox) /\ TextRight(tbox) /\ tbox \in TextRecord
      /\ tbox.height = tbox.boxh + 4 /\ tbox.boxh \in Nat /\ tbox.page_length + 1 \in Nat
      /\ tbox.page_length + 1 \in Int /\ tbox.page_length + 1 > 0
      /\ Eof(tbox) \in Nat \ {0, 1} /\ tbox.text.lines \in Nat
      /\ tbox.rows \in [0 .. tbox.boxh - 1 -> Int]
  BY EofIsNat, TextsAssumption DEF TextInv, TextType, TextRecord, LineUp
<1>2. /\ box \in TextRecord /\ box.text = tbox.text /\ box.boxh = tbox.boxh
      /\ box.height = tbox.height /\ Eof(box) = Eof(tbox)
  BY <1>1, BackType
<1>3. Shows(new)
  BY <1>1 DEF LineUp, TextType
<1> HIDE DEF box
<1>4. /\ got \in TextRecord /\ got.text = box.text /\ got.boxh = box.boxh
      /\ got.height = box.height /\ got.begin_reached = box.begin_reached
      /\ got.page = MIN(box.page + tbox.boxh, Eof(box))
      /\ got.page_length = MIN(tbox.boxh, Ending(box) - box.page + 1)
      /\ tbox.boxh > 0 => (got.end_reached <=> box.page + tbox.boxh > Ending(box))
  BY <1>1, <1>2, GetType
<1>5. rows \in [0 .. got.boxh - 1 -> Int]
  <2>1. box.page \in Int /\ box.text.lines \in Int
    BY <1>1, <1>2 DEF TextRecord
  <2>2. OnRow(box, box.page) \in Int
    BY <2>1 DEF OnRow, NoLine
  <2>3. \A r \in 0 .. tbox.boxh - 1 : r # 0 => tbox.rows[r - 1] \in Int
    BY <1>1
  <2>4. QED
    BY <1>2, <1>4, <2>2, <2>3
<1> HIDE DEF got, rows
<1>6. /\ TextType(new) /\ new.rows = rows
      /\ new.text = got.text /\ new.page = got.page /\ new.begin_reached = got.begin_reached
      /\ new.end_reached = got.end_reached /\ new.page_length = got.page_length
      /\ new.boxh = got.boxh
  <2>1. got.height = got.boxh + 4
    BY <1>1, <1>2, <1>4
  <2>2. /\ TextType(new) /\ new.rows = rows
        /\ \A f \in {"text", "page", "begin_reached", "end_reached", "page_length", "hscroll", "boxh"} :
              new[f] = got[f]
    BY <1>4, <1>5, <2>1, RowsType
  <2> HIDE DEF new
  <2>3. QED
    BY <2>2
<1> HIDE DEF new
<1>7. Eof(new) = Eof(tbox)
  BY <1>2, <1>4, <1>6 DEF Eof
<1>8. TextRight(new)
  <2> SUFFICES ASSUME new.text.newline PROVE TextRight(new)
    BY DEF TextRight
  <2>1. tbox.text.newline /\ tbox.page \in 1 .. Eof(tbox)
    BY <1>1, <1>2, <1>4, <1>6 DEF TextRight
  <2>2. box.page \in 1 .. Eof(tbox)
    BY <1>1, <2>1, BackFar
       DEF box
  <2>3. new.page \in 1 .. Eof(new)
    BY <1>1, <1>2, <1>4, <1>6, <1>7, <2>2 DEF MIN
  <2>4. ASSUME new.boxh > 0 PROVE \E top \in Int : At(new, top)
    <3>1. PICK old \in Int : At(tbox, old)
      BY <1>1, <1>2, <1>4, <1>6, <2>1, <2>4 DEF TextRight
    <3>2. old > 1 /\ old <= Eof(tbox)
      BY <1>1, <3>1 DEF LineUp, At
    <3>3. box.page = MAX(1, old - 1) /\ Started(box)
      BY <1>1, <1>2, <1>4, <1>6, <2>4, <3>1, BackFromTop DEF box
    <3>4. box.page = old - 1
      BY <3>2, <3>3 DEF MAX
    <3>5. Ending(box) = Eof(box)
      BY <1>2, <2>1, <2>2, EndingIsEof
    <3>6. tbox.rows = LinesFrom(tbox, old)
      BY <3>1 DEF At
    <3>7. rows = LinesFrom(new, old - 1)
      <4>1. ASSUME NEW r \in 0 .. tbox.boxh - 1
            PROVE  rows[r] = LinesFrom(new, old - 1)[r]
        <5>1. r \in 0 .. new.boxh - 1 /\ new.text = tbox.text /\ box.text = tbox.text
          BY <1>2, <1>4, <1>6
        <5>2. LinesFrom(new, old - 1)[r] = OnRow(tbox, old - 1 + r)
          BY <5>1 DEF LinesFrom, OnRow
        <5>3. CASE r = 0
          BY <1>1, <3>2, <3>4, <5>1, <5>2, <5>3 DEF rows, OnRow
        <5>4. CASE r # 0
          <6>1. r - 1 \in 0 .. tbox.boxh - 1 /\ old + (r - 1) = old - 1 + r
            BY <1>1, <5>4
          <6>2. tbox.rows[r - 1] = OnRow(tbox, old + (r - 1))
            BY <3>6, <6>1 DEF LinesFrom
          <6>3. QED
            BY <5>2, <5>4, <6>1, <6>2 DEF rows
        <5>5. QED
          BY <5>3, <5>4
      <4>2. new.boxh = tbox.boxh
        BY <1>2, <1>4, <1>6
      <4>3. QED
        BY <4>1, <4>2 DEF rows, LinesFrom
    <3>8. new.begin_reached <=> old - 1 = 1
      BY <1>4, <1>6, <3>3, <3>4 DEF Started
    <3>9. At(new, old - 1)
      <4>1. /\ new.boxh = tbox.boxh /\ new.page = MIN(old - 1 + new.boxh, Eof(new))
            /\ new.page_length = MIN(new.boxh, Eof(new) - (old - 1) + 1)
            /\ new.end_reached <=> old - 1 + new.boxh > Eof(new)
        BY <1>2, <1>4, <1>6, <1>7, <2>4, <3>4, <3>5
      <4>2. old - 1 \in 1 .. Eof(new)
        BY <1>1, <1>7, <3>2
      <4>3. QED
        BY <1>6, <3>7, <3>8, <4>1, <4>2 DEF At
    <3>10. QED
      BY <3>9
  <2>5. QED
    BY <2>3, <2>4 DEF TextRight
<1>9. QED
  BY <1>3, <1>6, <1>8 DEF Shows, TextInv, TextOpen, lxVars

LEMMA TextLineDown == TextInv /\ LineDown => TextInv'
<1> SUFFICES ASSUME TextInv, LineDown PROVE TextInv'
  OBVIOUS
<1> DEFINE got  == get_lines(tbox, 1)
           rows == [r \in 0 .. tbox.boxh - 1 |->
                      IF r = tbox.boxh - 1 THEN OnRow(tbox, tbox.page) ELSE tbox.rows[r + 1]]
           kept == [got EXCEPT !.begin_reached = FALSE, !.page_length = tbox.page_length]
           new  == [kept EXCEPT !.rows = rows]
<1>1. /\ TextOpen /\ TextType(tbox) /\ TextRight(tbox) /\ tbox \in TextRecord
      /\ tbox.height = tbox.boxh + 4 /\ tbox.boxh \in Nat /\ tbox.page_length \in Nat
      /\ tbox.page \in Int /\ ~tbox.end_reached
      /\ Eof(tbox) \in Nat \ {0, 1} /\ tbox.text.lines \in Nat
      /\ tbox.rows \in [0 .. tbox.boxh - 1 -> Int]
  BY EofIsNat, TextsAssumption DEF TextInv, TextType, TextRecord, LineDown
<1>2. /\ got \in TextRecord /\ got.text = tbox.text /\ got.boxh = tbox.boxh
      /\ got.height = tbox.height
      /\ got.page = MIN(tbox.page + 1, Eof(tbox))
      /\ got.end_reached <=> tbox.page + 1 > Ending(tbox)
  BY <1>1, GetType
<1>3. Shows(new)
  <2>1. Shows([got EXCEPT !.begin_reached = FALSE, !.page_length = tbox.page_length, !.rows = rows])
    BY <1>1 DEF LineDown, TextType
  <2> HIDE DEF got, rows
  <2>2. new = [got EXCEPT !.begin_reached = FALSE, !.page_length = tbox.page_length, !.rows = rows]
    BY <1>2 DEF TextRecord
  <2>3. QED
    BY <2>1, <2>2
<1>4. rows \in [0 .. tbox.boxh - 1 -> Int]
  <2>1. OnRow(tbox, tbox.page) \in Int
    BY <1>1 DEF OnRow, NoLine
  <2>2. ASSUME NEW r \in 0 .. tbox.boxh - 1, r # tbox.boxh - 1 PROVE tbox.rows[r + 1] \in Int
    <3>1. tbox.boxh \in Int
      BY <1>1
    <3>2. r + 1 \in 0 .. tbox.boxh - 1
      BY <2>2, <3>1
    <3>3. QED
      BY <1>1, <3>2
  <2>3. QED
    BY <2>1, <2>2
<1> HIDE DEF got, rows
<1>5. /\ kept \in TextRecord /\ kept.text = tbox.text /\ kept.boxh = tbox.boxh
      /\ kept.height = tbox.height /\ kept.page = got.page /\ ~kept.begin_reached
      /\ kept.end_reached = got.end_reached /\ kept.page_length = tbox.page_length
  <2> DEFINE past == [got EXCEPT !.begin_reached = FALSE]
  <2>1. past \in TextRecord
    BY <1>2 DEF TextRecord
  <2>2. kept = [past EXCEPT !.page_length = tbox.page_length]
    BY <1>2 DEF TextRecord
  <2>3. /\ past.text = tbox.text /\ past.boxh = tbox.boxh /\ past.height = tbox.height
        /\ past.page = got.page /\ ~past.begin_reached /\ past.end_reached = got.end_reached
    BY <1>2 DEF TextRecord
  <2> HIDE DEF past, kept
  <2>4. QED
    BY <1>1, <2>1, <2>2, <2>3 DEF TextRecord
<1> HIDE DEF kept
<1>6. /\ TextType(new) /\ new.rows = rows
      /\ new.text = tbox.text /\ new.page = got.page /\ ~new.begin_reached
      /\ new.end_reached = got.end_reached /\ new.page_length = tbox.page_length
      /\ new.boxh = tbox.boxh
  <2>1. /\ TextType(new) /\ new.rows = rows
        /\ \A f \in {"text", "page", "begin_reached", "end_reached", "page_length", "hscroll", "boxh"} :
              new[f] = kept[f]
    BY <1>1, <1>4, <1>5, RowsType
  <2> HIDE DEF new
  <2>2. QED
    BY <1>5, <2>1
<1> HIDE DEF new
<1>7. Eof(new) = Eof(tbox)
  BY <1>6 DEF Eof
<1>8. TextRight(new)
  <2> SUFFICES ASSUME new.text.newline PROVE TextRight(new)
    BY DEF TextRight
  <2>1. tbox.text.newline /\ tbox.page \in 1 .. Eof(tbox)
    BY <1>1, <1>6 DEF TextRight
  <2>2. new.page \in 1 .. Eof(new)
    BY <1>1, <1>2, <1>6, <1>7, <2>1 DEF MIN
  <2>3. ASSUME new.boxh > 0 PROVE \E top \in Int : At(new, top)
    <3>1. PICK old \in Int : At(tbox, old)
      BY <1>1, <1>6, <2>1, <2>3 DEF TextRight
    <3>2. /\ old \in 1 .. Eof(tbox) /\ old + tbox.boxh <= Eof(tbox)
          /\ tbox.rows = LinesFrom(tbox, old)
      BY <1>1, <3>1 DEF At
    <3>3. tbox.page = old + tbox.boxh /\ tbox.page_length = tbox.boxh
      BY <1>1, <3>1, <3>2 DEF At, MIN
    <3>4. Ending(tbox) = Eof(tbox)
      BY <1>1, <2>1, EndingIsEof
    <3>5. rows = LinesFrom(new, old + 1)
      <4>1. ASSUME NEW r \in 0 .. tbox.boxh - 1
            PROVE  rows[r] = LinesFrom(new, old + 1)[r]
        <5>1. LinesFrom(new, old + 1)[r] = OnRow(tbox, old + 1 + r)
          BY <1>6 DEF LinesFrom, OnRow
        <5>2. CASE r = tbox.boxh - 1
          <6>1. old + 1 + r = tbox.page
            BY <1>1, <3>2, <3>3, <5>2
          <6>2. QED
            BY <5>1, <5>2, <6>1 DEF rows
        <5>3. CASE r # tbox.boxh - 1
          <6>1. r + 1 \in 0 .. tbox.boxh - 1 /\ old + (r + 1) = old + 1 + r
            <7>1. tbox.boxh \in Int
              BY <1>1
            <7>2. QED
              BY <5>3, <7>1
          <6>2. tbox.rows[r + 1] = OnRow(tbox, old + (r + 1))
            BY <3>2, <6>1 DEF LinesFrom
          <6>3. QED
            BY <5>1, <5>3, <6>1, <6>2 DEF rows
        <5>4. QED
          BY <5>2, <5>3
      <4>2. QED
        BY <1>6, <4>1 DEF rows, LinesFrom
    <3>6. At(new, old + 1)
      <4>1. new.page = MIN(old + 1 + new.boxh, Eof(new))
        BY <1>1, <1>2, <1>6, <1>7, <3>2, <3>3 DEF MIN
      <4>2. new.page_length = MIN(new.boxh, Eof(new) - (old + 1) + 1)
        BY <1>1, <1>6, <1>7, <3>2, <3>3 DEF MIN
      <4>3. new.end_reached <=> old + 1 + new.boxh > Eof(new)
        <5>1. tbox.page + 1 = old + 1 + new.boxh
          <6>1. new.boxh = tbox.boxh /\ tbox.boxh \in Int
            BY <1>1, <1>6
          <6>2. QED
            BY <3>3, <6>1
        <5>2. QED
          BY <1>2, <1>6, <1>7, <3>4, <5>1
      <4>4. old + 1 \in 1 .. Eof(new) /\ old + 1 # 1
        BY <1>1, <1>6, <1>7, <2>3, <3>2
      <4>5. QED
        BY <1>6, <3>5, <4>1, <4>2, <4>3, <4>4 DEF At
    <3>7. QED
      BY <3>6
  <2>4. QED
    BY <2>2, <2>3 DEF TextRight
<1>9. QED
  BY <1>3, <1>6, <1>8 DEF Shows, TextInv, TextOpen, lxVars

LEMMA TextDraws ==
  ASSUME NEW l \in Int, NEW box \in TextRecord, lines' \in Int, DrawText(l, box),
         box.text.newline => box.page \in 1 .. Eof(box) /\ Started(box)
  PROVE  TextInv'
<1>1. CASE l < 8
  BY <1>1 DEF DrawText, Returns, TextInv, TextOpen
<1>2. CASE l >= 8
  <2> DEFINE height == IF box.text.height # 0 THEN box.text.height ELSE l - 4
             laid   == [box EXCEPT !.height = height, !.boxh = height - 4]
  <2>1. box.text.height \in Nat \ (1..4)
    BY TextsAssumption DEF TextRecord
  <2>2. height \in Int /\ height - 4 \in Nat
    BY <1>2, <2>1
  <2>3. shown' = "textbox" /\ tbox' = print_page(laid)
    BY <1>2 DEF DrawText, Opens, Layout
  <2> HIDE DEF height
  <2>4. /\ laid \in TextRecord /\ laid.height = height /\ laid.boxh = height - 4
        /\ laid.text = box.text /\ laid.page = box.page /\ laid.begin_reached = box.begin_reached
    <3> DEFINE boxh == height - 4
               tall == [box EXCEPT !.height = height]
    <3>1. /\ tall \in TextRecord /\ tall.height = height
          /\ tall.text = box.text /\ tall.page = box.page /\ tall.begin_reached = box.begin_reached
      BY <2>2 DEF TextRecord
    <3>2. laid = [tall EXCEPT !.boxh = boxh]
      BY DEF TextRecord
    <3>3. boxh \in Nat
      BY <2>2
    <3> HIDE DEF tall, boxh
    <3>4. [tall EXCEPT !.boxh = boxh] \in TextRecord
      BY <3>1, <3>3 DEF TextRecord
    <3>5. /\ [tall EXCEPT !.boxh = boxh].height = tall.height
          /\ [tall EXCEPT !.boxh = boxh].boxh = boxh
          /\ [tall EXCEPT !.boxh = boxh].text = tall.text
          /\ [tall EXCEPT !.boxh = boxh].page = tall.page
          /\ [tall EXCEPT !.boxh = boxh].begin_reached = tall.begin_reached
      BY <3>1 DEF TextRecord
    <3>6. QED
      BY <3>1, <3>2, <3>4, <3>5 DEF boxh
  <2> HIDE DEF laid
  <2>5. Eof(laid) = Eof(box) /\ (Started(box) <=> Started(laid)) /\ laid.height = laid.boxh + 4
    BY <2>2, <2>4 DEF Eof, Started
  <2>6. TextType(print_page(laid)) /\ TextRight(print_page(laid))
    BY <2>4, <2>5, Printed
  <2>7. QED
    BY <2>3, <2>6 DEF TextInv
<1>3. QED
  BY <1>1, <1>2

LEMMA TextOpens ==
  ASSUME NEW text \in Texts, dialog_textbox(text), lines \in Int, lines' \in Int
  PROVE  TextInv'
<1> DEFINE box == [text |-> text, page |-> 1, begin_reached |-> TRUE, end_reached |-> FALSE,
                   page_length |-> 0, hscroll |-> 0, height |-> 0, boxh |-> 0,
                   rows |-> [r \in 0 .. -1 |-> NoLine]]
<1>1. [r \in 0 .. -1 |-> NoLine] \in RowSet
  <2>1. [r \in 0 .. -1 |-> NoLine] \in [0 .. 0 - 1 -> Int]
    BY DEF NoLine
  <2>2. QED
    BY <2>1 DEF RowSet
<1>2. box \in TextRecord
  BY <1>1 DEF TextRecord
<1>3. DrawText(lines, box)
  BY DEF dialog_textbox
<1>4. box.page = 1 /\ Started(box)
  BY DEF Started
<1> HIDE DEF box
<1>5. Eof(box) \in Nat \ {0, 1}
  BY <1>2, EofIsNat
<1>6. QED
  BY <1>2, <1>3, <1>4, <1>5, TextDraws

(* Only scrolling sideways moves sideways.                                 *)
LEMMA PrintKeeps ==
  ASSUME NEW box \in TextRecord
  PROVE  print_page(box).hscroll = box.hscroll
<1>1. get_lines(box, box.boxh) \in TextRecord /\ get_lines(box, box.boxh).hscroll = box.hscroll
  <2>1. box.boxh \in Nat
    BY DEF TextRecord
  <2>2. QED
    BY <2>1, GetType
<1>2. QED
  BY <1>1 DEF print_page, TextRecord

LEMMA OnlySideways ==
  ASSUME TextInv, TextKey, TextOpen', tbox'.hscroll # tbox.hscroll
  PROVE  Sideways
<1>1. /\ TextOpen /\ TextType(tbox) /\ tbox \in TextRecord /\ tbox.boxh \in Nat
      /\ tbox.boxh \in Int /\ tbox.page_length \in Nat /\ tbox.height \in Int
      /\ tbox.page_length + 1 \in Int /\ tbox.page_length + tbox.boxh \in Int
      /\ tbox.text.height \in Nat \ (1..4) /\ lines \in Int
  <2>1. TextOpen
    BY DEF TextKey, FirstPage, LastPage, PageUp, PageDown, Sideways, LineUp, LineDown, TextExit,
           TextResize
  <2>2. QED
    BY <2>1, TextsAssumption DEF TextInv, TextType, TextRecord
<1>2. ASSUME NEW box \in TextRecord, tbox' = print_page(box) PROVE box.hscroll # tbox.hscroll
  BY <1>2, PrintKeeps
<1>3. CASE FirstPage
  <2> DEFINE begun == [tbox EXCEPT !.begin_reached = TRUE]
             box   == [begun EXCEPT !.page = 1]
  <2>1. begun \in TextRecord /\ begun.hscroll = tbox.hscroll
    BY <1>1 DEF TextRecord
  <2>2. box = [tbox EXCEPT !.begin_reached = TRUE, !.page = 1]
    BY <1>1 DEF TextRecord
  <2>3. tbox' = print_page(box)
    BY <1>3, <2>2 DEF FirstPage, Shows
  <2> HIDE DEF begun
  <2>4. box \in TextRecord /\ box.hscroll = tbox.hscroll
    BY <2>1 DEF TextRecord
  <2>5. QED
    BY <1>2, <2>3, <2>4
<1>4. CASE LastPage
  <2> DEFINE end == Eof(tbox)
             box == [tbox EXCEPT !.end_reached = TRUE, !.page = end]
  <2>1. end \in Int
    BY <1>1, EofIsNat
  <2>2. tbox' = print_page(back_lines(box, tbox.boxh))
    BY <1>4 DEF LastPage, Shows
  <2> HIDE DEF end
  <2>3. box \in TextRecord
    BY <1>1, <2>1 DEF TextRecord
  <2>4. box.hscroll = tbox.hscroll
    BY <1>1 DEF TextRecord
  <2> HIDE DEF box
  <2>5. QED
    <3>1. /\ back_lines(box, tbox.boxh) \in TextRecord
          /\ back_lines(box, tbox.boxh).hscroll = box.hscroll
      BY <1>1, <2>3, BackType
    <3>2. QED
      BY <1>2, <2>2, <2>4, <3>1
<1>5. CASE PageUp
  <2>1. tbox' = print_page(back_lines(tbox, tbox.page_length + tbox.boxh))
    BY <1>5 DEF PageUp, Shows
  <2>2. QED
    BY <1>1, <1>2, <2>1, BackType
<1>6. CASE PageDown
  <2>1. /\ tbox' = print_page([tbox EXCEPT !.begin_reached = FALSE])
        /\ [tbox EXCEPT !.begin_reached = FALSE] \in TextRecord
        /\ [tbox EXCEPT !.begin_reached = FALSE].hscroll = tbox.hscroll
    BY <1>1, <1>6 DEF PageDown, Shows, TextRecord
  <2>2. QED
    BY <1>2, <2>1
<1>7. CASE LineUp
  <2> DEFINE box == back_lines(tbox, tbox.page_length + 1)
  <2>1. PICK rows : tbox' = [get_lines(box, tbox.boxh) EXCEPT !.rows = rows]
    BY <1>7 DEF LineUp, Shows
  <2>2. box \in TextRecord /\ box.hscroll = tbox.hscroll
    BY <1>1, BackType
  <2> HIDE DEF box
  <2>3. /\ get_lines(box, tbox.boxh) \in TextRecord
        /\ get_lines(box, tbox.boxh).hscroll = tbox.hscroll
    BY <1>1, <2>2, GetType
  <2>4. tbox'.hscroll = tbox.hscroll
    BY <2>1, <2>3 DEF TextRecord
  <2>5. QED
    BY <2>4
<1>8. CASE LineDown
  <2>1. PICK rows, n : tbox' = [get_lines(tbox, 1) EXCEPT !.begin_reached = FALSE,
                                                          !.page_length = n, !.rows = rows]
    BY <1>8 DEF LineDown, Shows
  <2>2. get_lines(tbox, 1) \in TextRecord /\ get_lines(tbox, 1).hscroll = tbox.hscroll
    BY <1>1, GetType
  <2>3. tbox'.hscroll = tbox.hscroll
    BY <2>1, <2>2 DEF TextRecord
  <2>4. QED
    BY <2>3
<1>9. CASE TextExit
  BY <1>9 DEF TextExit, Returns, TextOpen
<1>10. CASE TextResize
  <2> DEFINE box    == back_lines(tbox, tbox.height)
             height == IF box.text.height # 0 THEN box.text.height ELSE lines' - 4
             tall   == [box EXCEPT !.height = height]
             laid   == [tall EXCEPT !.boxh = height - 4]
  <2>1. ~(lines' < 8) /\ lines' \in Int /\ tbox' = Layout(lines', box)
    BY <1>10, HeightsAssumption DEF TextResize, Resized, DrawText, Returns, TextOpen
  <2>2. box \in TextRecord /\ box.text = tbox.text /\ box.hscroll = tbox.hscroll
    BY <1>1, BackType
  <2> HIDE DEF box
  <2>3. height \in Int /\ height - 4 \in Nat
    <3>1. box.text.height \in Nat \ (1..4)
      BY <1>1, <2>2
    <3>2. CASE box.text.height # 0
      BY <3>1, <3>2
    <3>3. CASE box.text.height = 0
      <4>1. height = lines' - 4
        BY <3>3
      <4> HIDE DEF height
      <4>2. QED
        BY <2>1, <4>1
    <3>4. QED
      BY <3>2, <3>3
  <2>4. tbox' = print_page([box EXCEPT !.height = height, !.boxh = height - 4])
    BY <2>1 DEF Layout
  <2> HIDE DEF height
  <2>5. tall \in TextRecord /\ tall.hscroll = tbox.hscroll
    BY <2>2, <2>3 DEF TextRecord
  <2>6. laid = [box EXCEPT !.height = height, !.boxh = height - 4]
    BY <2>2 DEF TextRecord
  <2> HIDE DEF tall
  <2>7. laid \in TextRecord /\ laid.hscroll = tbox.hscroll
    BY <2>3, <2>5 DEF TextRecord
  <2> HIDE DEF laid
  <2>8. QED
    BY <1>2, <2>4, <2>6, <2>7
<1>11. QED
  BY <1>3, <1>4, <1>5, <1>6, <1>7, <1>8, <1>9, <1>10 DEF TextKey

LEMMA TextInvariant == TextSpec => []TextInv
<1> USE HeightsAssumption
<1>1. TextInit => TextInv
  BY DEF TextInit, TextInv, TextOpen
<1>2. TextInv /\ [TextNext]_textVars => TextInv'
  <2> SUFFICES ASSUME TextInv, [TextNext]_textVars PROVE TextInv'
    OBVIOUS
  <2>1. CASE UNCHANGED lines /\ \E text \in Texts : dialog_textbox(text)
    <3>1. PICK text \in Texts : dialog_textbox(text)
      BY <2>1
    <3>2. lines \in Int /\ lines' \in Int
      BY <2>1 DEF TextInv
    <3>3. QED
      BY <3>1, <3>2, TextOpens
  <2>2. CASE FirstPage \/ LastPage \/ PageUp \/ PageDown \/ Sideways
    BY <2>2, TextPages
  <2>3. CASE LineUp
    BY <2>3, TextLineUp
  <2>4. CASE LineDown
    BY <2>4, TextLineDown
  <2>5. CASE TextExit
    BY <2>5 DEF TextExit, Returns, TextInv, TextOpen
  <2>6. CASE TextResize
    <3> DEFINE box == back_lines(tbox, tbox.height)
    <3>1. DrawText(lines', box) /\ lines' \in Int /\ TextType(tbox) /\ TextRight(tbox)
      BY <2>6 DEF TextResize, Resized, TextInv
    <3>2. tbox \in TextRecord /\ tbox.height \in Int /\ tbox.height > 1
      BY <3>1 DEF TextType, TextRecord
    <3>3. box \in TextRecord /\ box.text = tbox.text /\ Eof(box) = Eof(tbox)
      BY <3>2, BackType
    <3>4. box.text.newline => box.page \in 1 .. Eof(box) /\ Started(box)
      BY <3>1, <3>2, <3>3, BackFar DEF TextRight
    <3> HIDE DEF box
    <3>5. QED
      BY <3>1, <3>3, <3>4, TextDraws
  <2>7. CASE TextElsewhere
    BY <2>7 DEF TextElsewhere, TextInv, TextOpen
  <2>8. CASE UNCHANGED textVars
    BY <2>8 DEF textVars, lxVars, TextInv, TextOpen
  <2>9. QED
    BY <2>1, <2>2, <2>3, <2>4, <2>5, <2>6, <2>7, <2>8 DEF TextNext, TextKey
<1>3. QED
  BY <1>1, <1>2, PTL DEF TextSpec

(* The text box shows the lines its keys move from, and knows its ends.    *)
THEOREM TextCorrect == TextSpec => []TextShown
<1>1. TextInv => TextShown
  <2> SUFFICES ASSUME TextInv, TextOpen, tbox.text.newline, tbox.boxh > 0
               PROVE  /\ tbox.rows = LinesFrom(tbox, TopLine(tbox))
                      /\ tbox.begin_reached <=> TopLine(tbox) = 1
                      /\ tbox.end_reached <=> TopLine(tbox) + tbox.boxh > Eof(tbox)
    BY DEF TextShown, LinesFrom
  <2>1. PICK top \in Int : At(tbox, top)
    BY DEF TextInv, TextRight
  <2>2. TopLine(tbox) = top
    BY <2>1, TopIsTop DEF TextInv, TextType
  <2>3. QED
    BY <2>1, <2>2 DEF At
<1>2. QED
  BY <1>1, TextInvariant, PTL

(* And scrolling sideways leaves them where they are.                      *)
THEOREM SidewaysCorrect == TextSpec => SidewaysStays
<1> DEFINE Stays == TextOpen /\ TextOpen' /\ tbox.text.newline /\ tbox'.hscroll # tbox.hscroll
                      => tbox'.rows = tbox.rows
<1>1. ASSUME TextInv, TextInv', [TextNext]_textVars PROVE Stays
  <2> SUFFICES ASSUME TextOpen, TextOpen', tbox.text.newline, tbox'.hscroll # tbox.hscroll
               PROVE  tbox'.rows = tbox.rows
    OBVIOUS
  <2>1. /\ TextType(tbox) /\ TextRight(tbox) /\ tbox \in TextRecord
        /\ tbox.height = tbox.boxh + 4 /\ tbox.boxh \in Nat /\ tbox.page_length \in Nat
        /\ tbox.rows \in [0 .. tbox.boxh - 1 -> Int]
    BY <1>1 DEF TextInv, TextType, TextRecord
  <2>2. Sideways
    <3>1. TextKey
      BY <1>1 DEF TextNext, TextElsewhere, TextOpen, textVars
    <3>2. QED
      BY <1>1, <3>1, OnlySideways
  <2>3. PICK h \in Int : Shows(print_page(back_lines([tbox EXCEPT !.hscroll = h], tbox.page_length)))
    <3>1. tbox.hscroll \in Int
      BY <2>1 DEF TextRecord
    <3>2. QED
      BY <2>2, <3>1, TextsAssumption DEF Sideways
  <2> DEFINE now == [tbox EXCEPT !.hscroll = h]
             box == back_lines(now, now.page_length + 0)
  <2>4. /\ now \in TextRecord /\ now.text = tbox.text
        /\ now.height = tbox.height /\ now.boxh = tbox.boxh /\ now.page_length = tbox.page_length
        /\ now.page = tbox.page /\ now.begin_reached = tbox.begin_reached
        /\ now.end_reached = tbox.end_reached /\ now.rows = tbox.rows
    BY <2>1 DEF TextRecord
  <2> HIDE DEF now
  <2>5. tbox' = print_page(box) /\ now.page_length + 0 = tbox.page_length
    BY <2>1, <2>3, <2>4 DEF Shows, now
  <2>6. /\ box \in TextRecord /\ box.height = box.boxh + 4 /\ box.boxh = tbox.boxh
        /\ Eof(box) = Eof(now) /\ box.text = tbox.text
    <3>1. now.page_length + 0 \in Int
      BY <2>1, <2>4
    <3>2. /\ box \in TextRecord /\ box.height = now.height /\ box.boxh = now.boxh
          /\ Eof(box) = Eof(now) /\ box.text = now.text
      BY <2>4, <3>1, BackType
    <3>3. QED
      BY <2>1, <2>4, <3>2
  <2>7. Eof(now) = Eof(tbox)
    BY <2>4 DEF Eof
  <2>8. CASE tbox.boxh > 0
    <3>1. PICK top \in Int : At(tbox, top)
      BY <2>1, <2>8 DEF TextRight
    <3>2. At(now, top)
      <4>1. LinesFrom(now, top) = LinesFrom(tbox, top)
        BY <2>4 DEF LinesFrom, OnRow
      <4>2. QED
        BY <2>4, <2>7, <3>1, <4>1 DEF At
    <3>3. box.page = MAX(1, top - 0) /\ Started(box)
      BY <2>4, <2>8, <3>2, BackFromTop
    <3>4. box.page = top /\ top \in 1 .. Eof(box)
      BY <2>6, <2>7, <3>1, <3>3 DEF MAX, At
    <3> HIDE DEF box
    <3>5. tbox'.rows = LinesFrom(box, top)
      BY <2>5, <2>6, <3>3, <3>4, Printed
    <3>6. LinesFrom(box, top) = LinesFrom(tbox, top)
      BY <2>6 DEF LinesFrom, OnRow
    <3>7. QED
      BY <3>1, <3>5, <3>6 DEF At
  <2>9. CASE tbox.boxh = 0
    <3>1. box.page \in 1 .. Eof(box)
      BY <2>1, <2>4, <2>6, <2>7, BackFar DEF TextRight
    <3> HIDE DEF box
    <3>2. tbox'.rows = LinesFrom(box, box.page)
      BY <2>5, <2>6, <2>9, <3>1, Printed
    <3>3. QED
      BY <2>1, <2>6, <2>9, <3>2 DEF LinesFrom
  <2>10. QED
    BY <2>1, <2>8, <2>9
<1>2. QED
  BY <1>1, TextInvariant, PTL DEF SidewaysStays, TextSpec

-----------------------------------------------------------------------------
(* The menu box.  Right: unless the window has slipped, its rows are those *)
(* of the list from scroll on, with the one of lit highlighted; -1 stands  *)
(* for none.                                                               *)
MenuRowSet == [item : Int, lit : BOOLEAN]
MenuRecord(l) ==
  [active : Data, max : Int, button : Int, scrollok : BOOLEAN, scroll : Int, first : Nat,
   choice : Int, rows : [0 .. l - 15 -> MenuRowSet], slipped : BOOLEAN]
MenuRows(l, max, scroll, lit) ==
  [r \in 0 .. l - 15 |-> IF r < max THEN Row(scroll + r, r = lit) ELSE Empty]
Fitting(box, l, count) ==
  /\ box.max = MIN(l - 14, count)
  /\ 0 <= box.scroll /\ box.scroll + box.max <= count
  /\ count > 0 => box.choice \in 0 .. box.max - 1
MenuRight(box, l, count, lit) ==
  /\ l >= 15 /\ box \in MenuRecord(l) /\ Fitting(box, l, count)
  /\ ~box.slipped => box.rows = MenuRows(l, box.max, box.scroll, lit)
MenuInv ==
  /\ lines \in Int /\ items \in ItemList /\ s_scroll \in Int
  /\ MenuOpen => MenuRight(mbox, lines, Len(items), mbox.choice)

(* Printing the item of the choice changes only whether it is highlighted. *)
LEMMA ItemPrinted ==
  ASSUME lines \in Int, items \in ItemList, NEW box, NEW old \in {-1, box.choice},
         MenuRight(box, lines, Len(items), old), NEW b \in BOOLEAN,
         NEW new, new = print_item(box, box.scroll + box.choice, box.choice, b)
  PROVE  /\ MenuRight(new, lines, Len(items), IF b THEN box.choice ELSE -1)
         /\ new.scroll = box.scroll /\ new.choice = box.choice /\ new.max = box.max
         /\ new.first = box.first
<1> DEFINE n == box.scroll + box.choice
<1>1. /\ box \in MenuRecord(lines) /\ lines >= 15 /\ Len(items) \in Nat
      /\ Fitting(box, lines, Len(items))
      /\ box.scroll \in Int /\ box.choice \in Int /\ box.max \in Int /\ n \in Int
  BY DEF MenuRight, MenuRecord, ItemList
<1>2. CASE items = <<>>
  <2>1. new = box /\ box.max = 0
    BY <1>1, <1>2 DEF print_item, Fitting, MIN
  <2>2. \A lit : MenuRows(lines, box.max, box.scroll, lit) = [r \in 0 .. lines - 15 |-> Empty]
    BY <1>1, <2>1 DEF MenuRows
  <2>3. QED
    BY <2>1, <2>2 DEF MenuRight
<1>3. CASE items # <<>>
  <2>1. Len(items) > 0
    BY <1>1, <1>3 DEF ItemList
  <2>2. /\ box.choice \in 0 .. lines - 15 /\ box.choice < box.max
        /\ box.rows \in [0 .. lines - 15 -> MenuRowSet]
    <3>1. box.rows \in [0 .. lines - 15 -> MenuRowSet]
      BY <1>1 DEF MenuRecord
    <3>2. box.choice \in 0 .. box.max - 1 /\ box.max <= lines - 14
      BY <1>1, <2>1 DEF Fitting, MIN
    <3>3. QED
      BY <1>1, <3>1, <3>2
  <2>3. CASE box.scrollok /\ box.choice = LastRow /\ IsLong(n)
    <3> DEFINE rows == [r \in 0 .. lines - 15 |->
                          IF r = LastRow THEN Row(-1, b)
                          ELSE IF r + 1 = box.choice THEN Row(n, b) ELSE box.rows[r + 1]]
    <3>1. rows \in [0 .. lines - 15 -> MenuRowSet]
      <4>1. Row(-1, b) \in MenuRowSet /\ Row(n, b) \in MenuRowSet
        BY <1>1 DEF Row, MenuRowSet
      <4>2. \A r \in 0 .. lines - 15 : r # LastRow => box.rows[r + 1] \in MenuRowSet
        BY <1>1, <2>2 DEF LastRow
      <4>3. QED
        BY <4>1, <4>2
    <3>2. new = [box EXCEPT !.slipped = TRUE, !.rows = rows]
      BY <1>1, <1>3, <2>2, <2>3 DEF print_item, MenuRecord
    <3> HIDE DEF rows
    <3>3. /\ new \in MenuRecord(lines) /\ new.scroll = box.scroll /\ new.choice = box.choice
          /\ new.max = box.max /\ new.first = box.first /\ new.slipped
      BY <1>1, <3>1, <3>2 DEF MenuRecord
    <3>4. QED
      BY <1>1, <3>3 DEF MenuRight, Fitting
  <2>4. CASE ~(box.scrollok /\ box.choice = LastRow /\ IsLong(n))
    <3> DEFINE lit  == IF b THEN box.choice ELSE -1
               rows == [box.rows EXCEPT ![box.choice] = Row(n, b)]
    <3>1. Row(n, b) \in MenuRowSet
      BY <1>1 DEF Row, MenuRowSet
    <3>2. rows \in [0 .. lines - 15 -> MenuRowSet]
      BY <2>2, <3>1
    <3>3. new = [box EXCEPT !.rows = rows]
      <4>1. new = [box EXCEPT !.rows[box.choice] = Row(n, b)]
        BY <1>1, <1>3, <2>2, <2>4 DEF print_item
      <4>2. QED
        BY <1>1, <4>1 DEF MenuRecord
    <3>4. ASSUME ~box.slipped PROVE rows = MenuRows(lines, box.max, box.scroll, lit)
      <4>1. box.rows = MenuRows(lines, box.max, box.scroll, old)
        BY <3>4 DEF MenuRight
      <4>2. ASSUME NEW r \in 0 .. lines - 15
            PROVE  rows[r] = MenuRows(lines, box.max, box.scroll, lit)[r]
        <5>1. CASE r = box.choice
          <6>1. (r = lit) <=> b
            BY <1>1, <2>2, <5>1
          <6>2. MenuRows(lines, box.max, box.scroll, lit)[r] = Row(box.scroll + r, r = lit)
            BY <1>1, <2>2, <5>1 DEF MenuRows
          <6>3. rows[r] = Row(box.scroll + r, b)
            BY <2>2, <5>1
          <6> HIDE DEF lit, rows
          <6>4. Row(box.scroll + r, r = lit) = Row(box.scroll + r, b)
            BY <6>1 DEF Row
          <6>5. QED
            BY <6>2, <6>3, <6>4
        <5>2. CASE r # box.choice
          <6>1. (r = lit) = FALSE /\ (r = old) = FALSE
            BY <1>1, <2>2, <5>2
          <6> HIDE DEF lit
          <6>2. MenuRows(lines, box.max, box.scroll, lit)[r]
                  = MenuRows(lines, box.max, box.scroll, old)[r]
            BY <6>1 DEF MenuRows
          <6>3. QED
            BY <2>2, <4>1, <5>2, <6>2
        <5>3. QED
          BY <5>1, <5>2
      <4>3. /\ rows = [r \in 0 .. lines - 15 |-> rows[r]]
            /\ MenuRows(lines, box.max, box.scroll, lit)
                 = [r \in 0 .. lines - 15 |-> MenuRows(lines, box.max, box.scroll, lit)[r]]
        BY <2>2 DEF MenuRows
      <4> HIDE DEF rows, lit
      <4>4. QED
        BY <4>2, <4>3
    <3> HIDE DEF rows
    <3>5. /\ new \in MenuRecord(lines) /\ new.scroll = box.scroll /\ new.choice = box.choice
          /\ new.max = box.max /\ new.first = box.first /\ new.slipped = box.slipped
          /\ new.rows = rows
      BY <1>1, <3>2, <3>3 DEF MenuRecord
    <3> HIDE DEF lit
    <3>6. MenuRight(new, lines, Len(items), lit)
      BY <1>1, <3>4, <3>5 DEF MenuRight, Fitting
    <3>7. QED
      BY <3>5, <3>6 DEF lit
  <2>5. QED
    BY <2>3, <2>4
<1>4. QED
  BY <1>2, <1>3

LEMMA MenuScrolled ==
  ASSUME lines \in Int, items \in ItemList, NEW box, MenuRight(box, lines, Len(items), -1),
         NEW n \in Int, 0 <= box.scroll + n, box.scroll + n + box.max <= Len(items)
  PROVE  /\ MenuRight(Scrolled(box, n), lines, Len(items), -1)
         /\ Scrolled(box, n).choice = box.choice /\ Scrolled(box, n).max = box.max
<1>1. /\ box \in MenuRecord(lines) /\ lines >= 15 /\ Len(items) \in Nat
      /\ Fitting(box, lines, Len(items))
      /\ box.scroll \in Int /\ box.choice \in Int /\ box.max \in Int
      /\ box.rows \in [0 .. lines - 15 -> MenuRowSet]
  BY DEF MenuRight, MenuRecord, ItemList
<1>2. CASE n = 0
  BY <1>2 DEF Scrolled
<1>3. CASE n # 0
  <2> DEFINE scroll == box.scroll + n
             rows   == [r \in 0 .. lines - 15 |->
                          IF r + n \in 0 .. lines - 15 THEN box.rows[r + n]
                          ELSE Row(scroll + r, FALSE)]
             new    == [box EXCEPT !.scroll = scroll, !.scrollok = FALSE, !.rows = rows]
  <2>1. box.max = lines - 14
    BY <1>1, <1>3 DEF Fitting, MIN
  <2>2. rows \in [0 .. lines - 15 -> MenuRowSet]
    <3>1. \A r \in 0 .. lines - 15 : Row(scroll + r, FALSE) \in MenuRowSet
      BY <1>1 DEF Row, MenuRowSet
    <3>2. \A r \in 0 .. lines - 15 : r + n \in 0 .. lines - 15 => box.rows[r + n] \in MenuRowSet
      BY <1>1
    <3>3. QED
      BY <3>1, <3>2
  <2>3. Scrolled(box, n) = new
    BY <1>1, <1>3 DEF Scrolled, MenuRecord
  <2>4. ASSUME ~box.slipped PROVE rows = MenuRows(lines, box.max, scroll, -1)
    <3>1. box.rows = MenuRows(lines, box.max, box.scroll, -1)
      BY <2>4 DEF MenuRight
    <3>2. ASSUME NEW r \in 0 .. lines - 15
          PROVE  rows[r] = MenuRows(lines, box.max, scroll, -1)[r]
      <4>1. (r = -1) = FALSE /\ r < box.max
        BY <1>1, <2>1
      <4>2. MenuRows(lines, box.max, scroll, -1)[r] = Row(scroll + r, FALSE)
        <5> HIDE DEF scroll
        <5>1. QED
          BY <4>1 DEF MenuRows
      <4>3. ASSUME r + n \in 0 .. lines - 15 PROVE box.rows[r + n] = Row(scroll + r, FALSE)
        <5>1. ((r + n) = -1) = FALSE /\ r + n < box.max /\ box.scroll + (r + n) = scroll + r
          BY <1>1, <2>1, <4>3
        <5>2. box.rows[r + n] = Row(box.scroll + (r + n), (r + n) = -1)
          BY <3>1, <4>3, <5>1 DEF MenuRows
        <5>3. QED
          BY <5>1, <5>2
      <4>4. QED
        BY <4>2, <4>3
    <3>3. /\ rows = [r \in 0 .. lines - 15 |-> rows[r]]
          /\ MenuRows(lines, box.max, scroll, -1)
               = [r \in 0 .. lines - 15 |-> MenuRows(lines, box.max, scroll, -1)[r]]
      BY DEF MenuRows
    <3> HIDE DEF rows, scroll
    <3>4. QED
      BY <3>2, <3>3
  <2>5. scroll \in Int
    BY <1>1
  <2> HIDE DEF rows, scroll
  <2>6. /\ new \in MenuRecord(lines) /\ new.scroll = scroll /\ new.choice = box.choice
        /\ new.max = box.max /\ new.slipped = box.slipped /\ new.rows = rows
    <3> DEFINE still == [box EXCEPT !.scrollok = FALSE]
               moved == [still EXCEPT !.scroll = scroll]
    <3>1. /\ still \in MenuRecord(lines) /\ still.choice = box.choice /\ still.max = box.max
          /\ still.slipped = box.slipped
      BY <1>1 DEF MenuRecord
    <3>2. new = [moved EXCEPT !.rows = rows]
      BY <1>1 DEF MenuRecord
    <3> HIDE DEF still
    <3>3. /\ moved \in MenuRecord(lines) /\ moved.choice = box.choice /\ moved.max = box.max
          /\ moved.slipped = box.slipped /\ moved.scroll = scroll
      BY <2>5, <3>1 DEF MenuRecord
    <3> HIDE DEF moved, new
    <3>4. QED
      BY <2>2, <3>2, <3>3 DEF MenuRecord
  <2>7. Fitting(new, lines, Len(items))
    <3> HIDE DEF new
    <3>1. 0 <= scroll /\ scroll + box.max <= Len(items)
      BY DEF scroll
    <3>2. QED
      BY <1>1, <2>6, <3>1 DEF Fitting
  <2> HIDE DEF new
  <2>8. MenuRight(new, lines, Len(items), -1)
    BY <1>1, <2>4, <2>6, <2>7 DEF MenuRight
  <2>9. QED
    BY <2>3, <2>6, <2>8
<1>4. QED
  BY <1>2, <1>3

(* Another row is chosen while none is highlighted.                        *)
LEMMA RowChosen ==
  ASSUME lines \in Int, items \in ItemList, NEW box, MenuRight(box, lines, Len(items), -1),
         NEW c \in Int, Len(items) > 0 => c \in 0 .. box.max - 1
  PROVE  MenuRight([box EXCEPT !.choice = c], lines, Len(items), -1)
<1> DEFINE new == [box EXCEPT !.choice = c]
<1>1. box \in MenuRecord(lines) /\ Fitting(box, lines, Len(items)) /\ lines >= 15
  BY DEF MenuRight
<1>2. /\ new \in MenuRecord(lines) /\ new.choice = c /\ new.max = box.max
      /\ new.scroll = box.scroll /\ new.rows = box.rows /\ new.slipped = box.slipped
  BY <1>1 DEF MenuRecord
<1> HIDE DEF new
<1>3. MenuRight(new, lines, Len(items), -1)
  BY <1>1, <1>2 DEF MenuRight, Fitting
<1>4. QED
  BY <1>3 DEF new

MenuBounds(box, count) ==
  /\ box.max \in Nat /\ box.scroll \in Nat /\ box.choice \in Int
  /\ box.scroll + box.max <= count
  /\ (count > 0) => (box.choice \in 0 .. box.max - 1)
  /\ (count > 0) => (box.max > 0)

LEMMA BoxBounds ==
  ASSUME lines \in Int, items \in ItemList, NEW box, NEW lit,
         MenuRight(box, lines, Len(items), lit)
  PROVE  MenuBounds(box, Len(items))
<1>1. /\ box \in MenuRecord(lines) /\ lines >= 15 /\ Len(items) \in Nat
      /\ Fitting(box, lines, Len(items))
  BY DEF MenuRight, ItemList
<1>2. box.max \in Int /\ box.scroll \in Int /\ box.choice \in Int
  BY <1>1 DEF MenuRecord
<1>3. QED
  BY <1>1, <1>2 DEF MenuBounds, Fitting, MIN

LEMMA MenuMovesRight == MenuInv /\ MenuMove => MenuInv'
<1> SUFFICES ASSUME MenuInv, MenuMove PROVE MenuInv'
  OBVIOUS
<1> DEFINE count == Len(items)
           dim   == Dimmed(mbox)
<1>1. /\ lines \in Int /\ items \in ItemList /\ count \in Nat /\ s_scroll \in Int
      /\ MenuRight(mbox, lines, count, mbox.choice)
  BY DEF MenuInv, MenuMove, ItemList
<1>2. ASSUME NEW box, MenuRight(box, lines, count, -1), Moves(box) PROVE MenuInv'
  <2>1. MenuRight(Lit(box), lines, count, box.choice) /\ Lit(box).choice = box.choice
    <3>1. Lit(box) = print_item(box, box.scroll + box.choice, box.choice, TRUE)
      BY DEF Lit
    <3>2. QED
      BY <1>1, <1>2, <3>1, ItemPrinted
  <2>2. mbox' = Lit(box) /\ UNCHANGED <<lines, items, s_scroll>>
    BY <1>2 DEF Moves, lxVars
  <2>3. QED
    BY <1>1, <2>1, <2>2 DEF MenuInv, MenuOpen
<1>3. /\ MenuRight(dim, lines, count, -1)
      /\ dim.max = mbox.max /\ dim.scroll = mbox.scroll /\ dim.choice = mbox.choice
  <2>1. dim = print_item(mbox, mbox.scroll + mbox.choice, mbox.choice, FALSE)
    BY DEF Dimmed
  <2> HIDE DEF dim
  <2>2. QED
    BY <1>1, <2>1, ItemPrinted
<1>4. /\ MenuBounds(dim, count)
      /\ dim \in MenuRecord(lines) /\ Fitting(dim, lines, count)
  BY <1>1, <1>3, BoxBounds DEF MenuRight
<1> HIDE DEF dim
<1>5. CASE KeyUp
  <2>1. CASE dim.choice < 2 /\ dim.scroll # 0
    <3>1. MenuRight(Scrolled(dim, -1), lines, count, -1)
      <4>1. 0 <= dim.scroll + -1 /\ dim.scroll + -1 + dim.max <= count /\ -1 \in Int
        BY <1>1, <1>4, <2>1 DEF MenuBounds
      <4>2. QED
        BY <1>1, <1>3, <4>1, MenuScrolled
    <3>2. Moves(Scrolled(dim, -1))
      BY <1>5, <2>1 DEF KeyUp, dim
    <3>3. QED
      BY <1>2, <3>1, <3>2
  <2>2. CASE ~(dim.choice < 2 /\ dim.scroll # 0)
    <3>1. /\ MAX(dim.choice - 1, 0) \in Int
          /\ count > 0 => MAX(dim.choice - 1, 0) \in 0 .. dim.max - 1
      BY <1>1, <1>4 DEF MAX, MenuBounds
    <3>2. MenuRight([dim EXCEPT !.choice = MAX(dim.choice - 1, 0)], lines, count, -1)
      BY <1>1, <1>3, <3>1, RowChosen
    <3>3. Moves([dim EXCEPT !.choice = MAX(dim.choice - 1, 0)])
      BY <1>5, <2>2 DEF KeyUp, dim
    <3>4. QED
      BY <1>2, <3>2, <3>3
  <2>3. QED
    BY <2>1, <2>2
<1>6. CASE KeyDown
  <2> DEFINE again == Dimmed(dim)
  <2>1. MenuRight(again, lines, count, -1)
    <3>1. again = print_item(dim, dim.scroll + dim.choice, dim.choice, FALSE)
      BY DEF Dimmed
    <3> HIDE DEF again
    <3>2. QED
      BY <1>1, <1>3, <3>1, ItemPrinted
  <2>2. Moves(IF again.choice > again.max - 3 /\ again.scroll + again.max < count
              THEN Scrolled(again, 1)
              ELSE [again EXCEPT !.choice = MIN(again.choice + 1, again.max - 1)])
    BY <1>6 DEF KeyDown, dim, item_count
  <2> HIDE DEF again
  <2>0. MenuBounds(again, count)
    BY <1>1, <2>1, BoxBounds
  <2>3. CASE again.choice > again.max - 3 /\ again.scroll + again.max < count
    <3>1. MenuRight(Scrolled(again, 1), lines, count, -1)
      <4>1. 0 <= again.scroll + 1 /\ again.scroll + 1 + again.max <= count
        BY <1>1, <2>0, <2>3 DEF MenuBounds
      <4>2. QED
        BY <1>1, <2>1, <4>1, MenuScrolled
    <3>2. QED
      BY <1>2, <2>2, <2>3, <3>1
  <2>4. CASE ~(again.choice > again.max - 3 /\ again.scroll + again.max < count)
    <3>1. /\ MIN(again.choice + 1, again.max - 1) \in Int
          /\ count > 0 => MIN(again.choice + 1, again.max - 1) \in 0 .. again.max - 1
      BY <1>1, <2>0 DEF MIN, MenuBounds
    <3>2. MenuRight([again EXCEPT !.choice = MIN(again.choice + 1, again.max - 1)],
                    lines, count, -1)
      BY <1>1, <2>1, <3>1, RowChosen
    <3>3. QED
      BY <1>2, <2>2, <2>4, <3>2
  <2>5. QED
    BY <2>3, <2>4
<1>7. CASE KeyPPage
  <2> DEFINE box   == [dim EXCEPT !.scrollok = TRUE]
             n     == MIN(box.max, box.scroll)
             moved == Scrolled(box, -n)
             c     == IF box.max - n > 0 /\ moved.choice > 0
                      THEN MAX(moved.choice - (box.max - n), 0) ELSE moved.choice
  <2>1. MenuRight(box, lines, count, -1)
    <3>1. /\ box \in MenuRecord(lines) /\ box.max = dim.max /\ box.scroll = dim.scroll
          /\ box.choice = dim.choice /\ box.rows = dim.rows /\ box.slipped = dim.slipped
      <4>1. dim \in MenuRecord(lines)
        BY <1>4
      <4>2. box.max = dim.max /\ box.scroll = dim.scroll /\ box.choice = dim.choice
        BY <4>1 DEF MenuRecord
      <4>3. box.rows = dim.rows /\ (box.slipped = dim.slipped)
        BY <4>1 DEF MenuRecord
      <4>4. box \in MenuRecord(lines)
        BY <4>1 DEF MenuRecord
      <4>5. QED
        BY <4>2, <4>3, <4>4
    <3> HIDE DEF box
    <3>2. QED
      BY <1>3, <3>1 DEF MenuRight, Fitting
  <2>2. Moves([moved EXCEPT !.choice = c])
    <3>1. Moves([moved EXCEPT !.choice =
                   IF box.max - n > 0 /\ moved.choice > 0
                   THEN MAX(moved.choice - (box.max - n), 0) ELSE moved.choice])
      BY <1>7 DEF KeyPPage, dim
    <3>2. QED
      BY <3>1
  <2> HIDE DEF box
  <2>0. MenuBounds(box, count)
    BY <1>1, <2>1, BoxBounds
  <2>3. n \in Nat /\ n <= box.max /\ n <= box.scroll /\ -n \in Int
    BY <2>0 DEF MIN, MenuBounds
  <2> HIDE DEF n
  <2>4. /\ MenuRight(moved, lines, count, -1) /\ moved.choice = box.choice
        /\ moved.max = box.max
    <3>1. 0 <= box.scroll + -n /\ box.scroll + -n + box.max <= count
      BY <1>1, <2>0, <2>3 DEF MenuBounds
    <3>2. QED
      BY <1>1, <2>1, <2>3, <3>1, MenuScrolled
  <2> HIDE DEF moved
  <2>5. c \in Int /\ (count > 0 => c \in 0 .. moved.max - 1)
    BY <1>1, <2>0, <2>3, <2>4 DEF MAX, MenuBounds
  <2> HIDE DEF c
  <2>6. QED
    BY <1>1, <1>2, <2>2, <2>4, <2>5, RowChosen
<1>8. CASE KeyNPage
  <2> DEFINE n     == MIN(dim.max, count - (dim.scroll + dim.max))
             moved == Scrolled(dim, n)
             c     == IF dim.max = 0 THEN moved.choice
                      ELSE MIN(moved.choice + (dim.max - n), dim.max - 1)
  <2>1. Moves([moved EXCEPT !.choice = c])
    BY <1>8 DEF KeyNPage, dim, item_count
  <2>2. n \in Nat /\ n <= dim.max /\ dim.scroll + n + dim.max <= count /\ n \in Int
    BY <1>1, <1>4 DEF MIN, MenuBounds
  <2> HIDE DEF n
  <2>3. /\ MenuRight(moved, lines, count, -1) /\ moved.choice = dim.choice
        /\ moved.max = dim.max
    <3>1. 0 <= dim.scroll + n
      BY <1>4, <2>2 DEF MenuBounds
    <3>2. QED
      BY <1>1, <1>3, <2>2, <3>1, MenuScrolled
  <2> HIDE DEF moved
  <2>4. c \in Int /\ (count > 0 => c \in 0 .. moved.max - 1)
    BY <1>1, <1>4, <2>2, <2>3 DEF MIN, MenuBounds
  <2> HIDE DEF c
  <2>5. QED
    BY <1>1, <1>2, <2>1, <2>3, <2>4, RowChosen
<1>9. CASE Hotkey
  <2>1. PICK row \in 0 .. mbox.max - 1 : Moves([dim EXCEPT !.choice = row])
    BY <1>9 DEF Hotkey, dim
  <2>2. row \in Int /\ row \in 0 .. dim.max - 1
    BY <1>3, <1>4, <2>1
  <2>3. QED
    BY <1>1, <1>2, <1>3, <2>1, <2>2, RowChosen
<1>10. QED
  BY <1>5, <1>6, <1>7, <1>8, <1>9 DEF MenuMove

LEMMA ActiveInList ==
  ASSUME NEW list \in ItemList, NEW active, NEW choice \in Int
  PROVE  \/ ActiveChoice(list, active, choice) = choice
         \/ ActiveChoice(list, active, choice) \in 0 .. Len(list) - 1
  BY DEF ActiveChoice, item_n

LEMMA MenuDraws ==
  ASSUME NEW l \in Int, NEW active \in Data, NEW old, old.choice \in Int, old.first \in Nat,
         old.button \in Int, s_scroll \in Int, items' \in ItemList, lines' = l, s_scroll' \in Int,
         Len(items') > 0 => old.choice \in 0 .. Len(items') - 1,
         Draw(l, items', active, old)
  PROVE  MenuInv'
<1>1. CASE shown' # "menu"
  BY <1>1 DEF MenuInv, MenuOpen
<1>2. CASE shown' = "menu"
  <2> DEFINE count == Len(items')
             max   == MIN(l - 14, count)
             c     == ActiveChoice(items', active, old.choice)
             at    == Placed(items', c, old.first, max)
             rows  == [r \in 0 .. l - 15 |->
                         IF r < max THEN Row(at.first + r, r = at.choice) ELSE Empty]
  <2>1. l >= 15 /\ mbox' = Window(l, items', active, old)
    BY <1>2 DEF Draw, Returns, Opens
  <2>2. mbox' = [active |-> active, max |-> max, button |-> old.button, scrollok |-> FALSE,
                 scroll |-> at.scroll, first |-> at.first, choice |-> at.choice,
                 rows |-> rows, slipped |-> at.first # at.scroll]
    BY <2>1 DEF Window, item_count
  <2>3. count \in Nat /\ max \in Nat /\ max <= count /\ (count > 0 => max > 0)
    BY <2>1 DEF MIN, ItemList
  <2>4. c \in Int /\ (count > 0 => c \in 0 .. count - 1)
    BY <2>3, ActiveInList
  <2> HIDE DEF count, max, c
  <2>5. /\ at.scroll \in Nat /\ at.first \in Nat /\ at.choice \in Int /\ at.scroll + max <= count
        /\ count > 0 => at.choice \in 0 .. max - 1
    <3>1. CASE Keeps(items', s_scroll, c, max)
      <4>1. at = [scroll |-> s_scroll, first |-> s_scroll, choice |-> c - s_scroll]
        BY <3>1 DEF Placed
      <4>2. s_scroll <= c /\ s_scroll + max > c /\ s_scroll >= 0 /\ s_scroll + max <= count
        BY <3>1 DEF Keeps, item_count, count
      <4> HIDE DEF at
      <4>3. QED
        BY <2>3, <2>4, <4>1, <4>2
    <3>2. CASE ~Keeps(items', s_scroll, c, max) /\ c < max
      <4>1. at = [scroll |-> 0, first |-> old.first, choice |-> c]
        BY <3>2 DEF Placed
      <4> HIDE DEF at
      <4>2. QED
        BY <2>3, <2>4, <3>2, <4>1
    <3>3. CASE ~Keeps(items', s_scroll, c, max) /\ ~(c < max)
      <4> DEFINE s == Centred(items', c, max)
      <4>1. at = [scroll |-> s, first |-> s, choice |-> c - s]
        BY <3>3 DEF Placed
      <4>2. /\ max \div 2 \in Nat /\ max \div 2 <= max /\ 2 * (max \div 2) <= max
            /\ max <= 2 * (max \div 2) + 1
        BY <2>3
      <4>3. /\ s \in Nat /\ s + max <= count
            /\ count > 0 => c - s \in 0 .. max - 1
        <5> DEFINE half == max \div 2
        <5>1. s = IF c >= count - half THEN count - max ELSE c - half
          BY DEF Centred, item_count, count
        <5> HIDE DEF half, s
        <5>2. half \in Nat /\ half <= max /\ 2 * half <= max /\ max <= 2 * half + 1
          BY <4>2 DEF half
        <5>3. CASE count = 0
          <6>1. max = 0 /\ half = 0 /\ c >= 0
            BY <2>3, <2>4, <3>3, <5>2, <5>3
          <6>2. s = 0
            BY <5>1, <5>3, <6>1
          <6>3. QED
            BY <5>3, <6>1, <6>2
        <5>4. CASE count > 0 /\ c >= count - half
          BY <2>3, <2>4, <3>3, <5>1, <5>2, <5>4
        <5>5. CASE count > 0 /\ c < count - half
          BY <2>3, <2>4, <3>3, <5>1, <5>2, <5>5
        <5>6. QED
          BY <2>3, <2>4, <5>2, <5>3, <5>4, <5>5
      <4> HIDE DEF at, s
      <4>4. QED
        BY <2>4, <4>1, <4>3
    <3>4. QED
      BY <3>1, <3>2, <3>3
  <2> HIDE DEF at
  <2>6. rows \in [0 .. l - 15 -> MenuRowSet]
    BY <2>3, <2>5 DEF Row, Empty, MenuRowSet
  <2>7. at.first = at.scroll => rows = MenuRows(l, max, at.scroll, at.choice)
    BY DEF MenuRows
  <2> HIDE DEF rows
  <2>8. /\ mbox' \in MenuRecord(l) /\ mbox'.max = max /\ mbox'.scroll = at.scroll
        /\ mbox'.choice = at.choice /\ mbox'.rows = rows
        /\ ~mbox'.slipped => at.first = at.scroll
    <3>1. mbox' \in MenuRecord(l)
      BY <2>2, <2>3, <2>5, <2>6 DEF MenuRecord
    <3>2. QED
      BY <2>2, <3>1
  <2>9. Fitting(mbox', l, count)
    BY <2>5, <2>8 DEF Fitting, max
  <2>10. MenuRight(mbox', l, count, mbox'.choice)
    BY <2>1, <2>7, <2>8, <2>9 DEF MenuRight
  <2>11. QED
    BY <2>10 DEF MenuInv, count
<1>3. QED
  BY <1>1, <1>2

LEMMA MenuStep == ASSUME MenuInv, [MenuNext]_menuVars PROVE MenuInv'
<1> USE HeightsAssumption
<1>1. CASE items' \in ItemList /\ \E active \in Data : dialog_menu(active)
  <2>1. PICK active \in Data : dialog_menu(active)
    BY <1>1
  <2>2. /\ Draw(lines, items', active, Fresh) /\ lines' = lines /\ s_scroll' = s_scroll
        /\ items' \in ItemList
    BY <1>1, <2>1 DEF dialog_menu
  <2>3. lines \in Int /\ s_scroll \in Int
    BY DEF MenuInv
  <2>4. /\ Fresh.choice \in Int /\ Fresh.first \in Nat /\ Fresh.button \in Int
        /\ Len(items') > 0 => Fresh.choice \in 0 .. Len(items') - 1
    BY <2>2 DEF Fresh, ItemList
  <2> HIDE DEF MenuInv
  <2>5. QED
    BY <2>2, <2>3, <2>4, MenuDraws
<1>2. CASE MenuMove
  BY <1>2, MenuMovesRight
<1>3. CASE MenuButton
  <2>1. PICK step \in {1, 2} : mbox' = [mbox EXCEPT !.button = (@ + step) % 3]
    BY <1>3 DEF MenuButton
  <2>2. MenuOpen /\ UNCHANGED <<lines, items, shown, s_scroll>>
    BY <1>3 DEF MenuButton, lxVars
  <2>3. MenuRight(mbox, lines, Len(items), mbox.choice)
    BY <2>2 DEF MenuInv
  <2>4. mbox \in MenuRecord(lines) /\ mbox.button \in Int
    BY <2>3 DEF MenuRight, MenuRecord
  <2> DEFINE b == (mbox.button + step) % 3
  <2>5. b \in Int /\ mbox' = [mbox EXCEPT !.button = b]
    BY <2>1, <2>4
  <2> HIDE DEF b
  <2>6. /\ mbox' \in MenuRecord(lines) /\ mbox'.max = mbox.max /\ mbox'.scroll = mbox.scroll
        /\ mbox'.choice = mbox.choice /\ mbox'.rows = mbox.rows /\ mbox'.slipped = mbox.slipped
    BY <2>4, <2>5 DEF MenuRecord
  <2>7. MenuRight(mbox', lines, Len(items), mbox'.choice)
    BY <2>3, <2>6 DEF MenuRight, Fitting
  <2>8. QED
    BY <2>2, <2>7 DEF MenuInv, MenuOpen
<1>4. CASE MenuSelect
  <2> DEFINE n == mbox.scroll + mbox.choice
             Item == [tag : STRING, data : Data, selected : BOOLEAN, long : BOOLEAN]
  <2>1. /\ shown' = "none" /\ s_scroll' = mbox.scroll /\ lines' = lines
        /\ items' = item_set_selected(n) /\ mbox \in MenuRecord(lines)
    BY <1>4 DEF MenuSelect, Returns, MenuInv, MenuRight
  <2>2. items \in Seq(Item)
    BY DEF MenuInv, ItemList
  <2> HIDE DEF Item, n
  <2>3. items' \in Seq(Item)
    <3>1. CASE n + 1 \in DOMAIN items
      <4>1. items' = [items EXCEPT ![n + 1].selected = TRUE]
        BY <2>1, <3>1 DEF item_set_selected
      <4>2. [items[n + 1] EXCEPT !.selected = TRUE] \in Item
        <5>1. items[n + 1] \in Item
          BY <2>2, <3>1
        <5>2. QED
          BY <5>1 DEF Item
      <4> DEFINE chosen == [items[n + 1] EXCEPT !.selected = TRUE]
      <4>3. items' = [items EXCEPT ![n + 1] = chosen]
        BY <4>1
      <4> HIDE DEF chosen
      <4>4. chosen \in Item
        BY <4>2 DEF chosen
      <4>5. QED
        BY <2>2, <3>1, <4>3, <4>4
    <3>2. CASE n + 1 \notin DOMAIN items
      BY <2>1, <2>2, <3>2 DEF item_set_selected
    <3>3. QED
      BY <3>1, <3>2
  <2>4. s_scroll' \in Int /\ items' \in ItemList
    BY <2>1, <2>3 DEF MenuRecord, Item, ItemList
  <2>5. QED
    BY <2>1, <2>4 DEF MenuInv, MenuOpen
<1>5. CASE MenuEscape
  BY <1>5 DEF MenuEscape, Returns, MenuInv, MenuOpen
<1>6. CASE MenuResize
  <2>1. /\ Draw(lines', items', mbox.active, mbox) /\ items' = items /\ s_scroll' = s_scroll
        /\ lines' \in Int /\ MenuOpen
    BY <1>6 DEF MenuResize, Resized
  <2>2. /\ items' \in ItemList /\ s_scroll \in Int /\ Len(items') \in Nat
        /\ mbox \in MenuRecord(lines) /\ Fitting(mbox, lines, Len(items)) /\ lines \in Int
        /\ lines >= 15
    BY <2>1 DEF MenuInv, MenuRight, ItemList
  <2>3. mbox.active \in Data /\ mbox.choice \in Int /\ mbox.first \in Nat /\ mbox.button \in Int
    BY <2>2 DEF MenuRecord
  <2>4. Len(items') > 0 => mbox.choice \in 0 .. Len(items') - 1
    BY <2>1, <2>2 DEF Fitting, MIN
  <2> HIDE DEF MenuInv
  <2>5. QED
    BY <2>1, <2>2, <2>3, <2>4, MenuDraws
<1>7. CASE MenuElsewhere
  BY <1>7 DEF MenuElsewhere, MenuInv, MenuOpen
<1>8. CASE UNCHANGED menuVars
  BY <1>8 DEF menuVars, lxVars, MenuInv, MenuOpen
<1>9. QED
  BY <1>1, <1>2, <1>3, <1>4, <1>5, <1>6, <1>7, <1>8 DEF MenuNext, MenuKey

LEMMA MenuInvariant == MenuSpec => []MenuInv
<1>1. MenuInit => MenuInv
  BY HeightsAssumption DEF MenuInit, MenuInv, MenuOpen
<1>2. MenuInv /\ [MenuNext]_menuVars => MenuInv'
  BY MenuStep
<1>3. QED
  BY <1>1, <1>2, PTL DEF MenuSpec

(* The menu shows the items that its keys act on.                          *)
THEOREM MenuCorrect == MenuSpec => []MenuShown
<1>1. MenuInv => MenuShown
  <2> SUFFICES ASSUME MenuInv, MenuOpen
               PROVE  /\ mbox.max = MIN(lines - 14, Len(items))
                      /\ 0 <= mbox.scroll /\ mbox.scroll + mbox.max <= Len(items)
                      /\ items # <<>> => mbox.choice \in 0 .. mbox.max - 1
                      /\ ~mbox.slipped => mbox.rows = MenuRows(lines, mbox.max, mbox.scroll, mbox.choice)
    BY DEF MenuShown, MenuRows, item_count
  <2>1. items # <<>> => Len(items) > 0
    BY DEF MenuInv, ItemList
  <2>2. QED
    BY <2>1 DEF MenuInv, MenuRight, Fitting
<1>2. QED
  BY <1>1, MenuInvariant, PTL

(* The window is placed so that it shows the active item, and chooses it.  *)
LEMMA ActiveChosen ==
  ASSUME NEW l \in Int, NEW list \in ItemList, NEW active \in Data \ {NoData}, NEW old,
         s_scroll \in Int, NEW n \in DOMAIN list, list[n].data = active,
         \A o \in DOMAIN list : o # n => list[o].data # active
  PROVE  LET box == Window(l, list, active, old) IN box.scroll + box.choice = n - 1
<1> DEFINE c   == ActiveChoice(list, active, old.choice)
           max == MIN(l - 14, item_count(list))
           at  == Placed(list, c, old.first, max)
<1>1. Len(list) \in Nat /\ DOMAIN list = 1 .. Len(list)
  BY DEF ItemList
<1>2. c = n - 1
  <2>1. {k \in 0 .. Len(list) - 1 :
           /\ active # NoData /\ list[k + 1].data = active
           /\ \A o \in k + 1 .. Len(list) - 1 :
                ~(active # NoData /\ list[o + 1].data = active)} = {n - 1}
    BY <1>1
  <2>2. QED
    BY <2>1 DEF ActiveChoice, item_n
<1>3. max \in Int
  BY <1>1 DEF MIN, item_count
<1> HIDE DEF c, max
<1>4. at.scroll + at.choice = c
  <2>1. CASE Keeps(list, s_scroll, c, max)
    BY <1>1, <1>2, <2>1 DEF Placed
  <2>2. CASE ~Keeps(list, s_scroll, c, max) /\ c < max
    BY <1>1, <1>2, <2>2 DEF Placed
  <2>3. CASE ~Keeps(list, s_scroll, c, max) /\ ~(c < max)
    <3>1. Centred(list, c, max) \in Int
      BY <1>1, <1>2, <1>3 DEF Centred, item_count
    <3>2. QED
      BY <1>1, <1>2, <2>3, <3>1 DEF Placed
  <2>4. QED
    BY <2>1, <2>2, <2>3
<1> HIDE DEF at
<1>5. QED
  BY <1>2, <1>4 DEF Window, at, max, c

(* Wherever the entry a menu was left at has moved to, it is the one the   *)
(* menu opens on, and the one a resize redraws it on.                      *)
THEOREM FocusCorrect == MenuSpec => FocusKept
<1> DEFINE Kept ==
      MenuOpen' /\ (MenuOpen => lines' # lines) =>
        \A n \in DOMAIN items' :
          /\ mbox'.active # NoData /\ items'[n].data = mbox'.active
          /\ \A o \in DOMAIN items' : o # n => items'[o].data # mbox'.active
          => mbox'.scroll + mbox'.choice = n - 1
<1>1. ASSUME MenuInv, [MenuNext]_menuVars PROVE Kept
  <2> SUFFICES ASSUME MenuOpen', MenuOpen => lines' # lines PROVE Kept
    OBVIOUS
  <2>1. \E l, active, old :
          l \in Int /\ active \in Data /\ items' \in ItemList /\ Draw(l, items', active, old)
    <3>1. CASE items' \in ItemList /\ \E active \in Data : dialog_menu(active)
      BY <1>1, <3>1 DEF dialog_menu, MenuInv
    <3>2. CASE MenuResize
      BY <1>1, <3>2, HeightsAssumption
         DEF MenuResize, Resized, MenuInv, MenuRight, MenuRecord
    <3>3. ASSUME MenuMove \/ MenuButton \/ MenuSelect \/ MenuEscape \/ MenuElsewhere
                 \/ UNCHANGED menuVars
          PROVE  FALSE
      BY <3>3 DEF MenuMove, KeyUp, KeyDown, KeyPPage, KeyNPage, Hotkey, Moves, MenuButton,
                  MenuSelect, MenuEscape, MenuElsewhere, MenuOpen, Returns, menuVars, lxVars
    <3>4. QED
      BY <1>1, <3>1, <3>2, <3>3 DEF MenuNext, MenuKey
  <2>2. PICK l, active, old :
          l \in Int /\ active \in Data /\ items' \in ItemList /\ Draw(l, items', active, old)
    BY <2>1
  <2>3. mbox' = Window(l, items', active, old)
    BY <2>2 DEF Draw, MenuOpen, Opens, Returns
  <2>4. mbox'.active = active /\ s_scroll \in Int
    BY <1>1, <2>3 DEF Window, MenuInv
  <2>5. QED
    BY <2>2, <2>3, <2>4, ActiveChosen
<1>2. QED
  BY <1>1, MenuInvariant, PTL DEF FocusKept, MenuSpec
================================================================================
