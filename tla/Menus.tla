-------------------------------- MODULE Menus --------------------------------
(***************************************************************************)
(* Menus guessed from a screen (dd-client-session derive/menu.rs,          *)
(* derive/screen.rs), and the keys that pick one of their options          *)
(* (input.rs: menu_select_keys).                                           *)
(*                                                                         *)
(* A row is what detection looks at: the form of its text, whether a       *)
(* marker comes first, and whether one of its cells is in reverse video.   *)
(***************************************************************************)
EXTENDS Integers, SequencesExt, FiniteSetsExt

OptionText == {"1. label", "10. label", "[a] label"}

Row == [text : {"", "prose", "Go on? (y/n)"} \cup OptionText,
        marker : BOOLEAN, inverse : BOOLEAN]

(* A key of its own: one digit, or one letter in brackets.                 *)
Hotkey(text) ==
  CASE text = "1. label" -> <<"1">>
    [] text = "10. label" -> <<>>
    [] text = "[a] label" -> <<"a">>

IsOption(row) == row.text \in OptionText
IsBlank(row) == row.text = "" /\ ~row.marker
IsMarked(row) == row.inverse \/ row.marker

-----------------------------------------------------------------------------
(* The last run of two or more options, as <<first, last>>.                *)
LastRun_First(rows) ==
  LET scan(s, i) ==
        IF ~IsOption(rows[i]) THEN [s EXCEPT !.length = 0]
        ELSE [length |-> s.length + 1,
              best |-> IF s.length = 0 \/ s.best \notin {<<>>, <<i - s.length, i - 1>>}
                       THEN s.best ELSE <<i - s.length, i>>]
  IN FoldLeftDomain(scan, [length |-> 0, best |-> <<>>], rows).best

LastRun(rows) ==
  LET scan(s, i) ==
        IF ~IsOption(rows[i]) THEN [s EXCEPT !.length = 0]
        ELSE [length |-> s.length + 1,
              best |-> IF s.length = 0 THEN s.best ELSE <<i - s.length, i>>]
  IN FoldLeftDomain(scan, [length |-> 0, best |-> <<>>], rows).best

DetectOptionList(rows) ==
  LET run == LastRun(rows)
  IN IF run = <<>> THEN <<>>
     ELSE LET options == SubSeq(rows, run[1], run[2])
          IN <<[options |-> [i \in DOMAIN options |->
                               [hotkey |-> Hotkey(options[i].text),
                                raw_row |-> run[1] + i - 1]],
                selected |-> SelectLastInSeq(options, IsMarked)]>>

DetectYesNo(rows) ==
  LET last == SelectLastInSeq(rows, LAMBDA row : ~IsBlank(row))
  IN IF last = 0 \/ rows[last].text # "Go on? (y/n)" THEN <<>>
     ELSE <<[options |-> <<[hotkey |-> <<"y">>, raw_row |-> 0],
                           [hotkey |-> <<"n">>, raw_row |-> 0]>>,
             selected |-> 0]>>

(* <<menu>>, or <<>>; nothing selected is 0.                               *)
DetectMenu(rows) ==
  IF DetectOptionList(rows) # <<>> THEN DetectOptionList(rows)
  ELSE DetectYesNo(rows)

-----------------------------------------------------------------------------
(* The keys for option target of a menu, its hotkey or arrows and Enter.   *)
MenuSelectKeys_FromFirst(menu, target) ==
  IF menu.options[target].hotkey # <<>> THEN menu.options[target].hotkey
  ELSE Append([i \in 1 .. target - 1 |-> "down"], "enter")

MenuSelectKeys(menu, target) ==
  LET cursor == IF menu.selected = 0 THEN 1 ELSE menu.selected
      steps(key, n) == [i \in 1 .. n |-> key]
  IN IF menu.options[target].hotkey # <<>> THEN menu.options[target].hotkey
     ELSE IF target >= cursor THEN Append(steps("down", target - cursor), "enter")
     ELSE Append(steps("up", cursor - target), "enter")

-----------------------------------------------------------------------------
(* What a user sees: the lowest two options that follow one another, and   *)
(* all options that lie above them without a gap.                          *)
Pairs(rows) == {i \in 2 .. Len(rows) : IsOption(rows[i - 1]) /\ IsOption(rows[i])}

ListRows(rows) ==
  {i \in 1 .. Max(Pairs(rows)) : \A j \in i .. Max(Pairs(rows)) : IsOption(rows[j])}

(* The last row that is not blank asks a question.                         *)
Asked(rows) ==
  \E i \in DOMAIN rows : /\ rows[i].text = "Go on? (y/n)"
                         /\ \A j \in i + 1 .. Len(rows) : IsBlank(rows[j])

(* With a question below a list, either may be the one that is live.       *)
MenuIsExact(rows) ==
  LET menu == DetectMenu(rows)[1]
      shown == {menu.options[i].raw_row : i \in DOMAIN menu.options}
      marked == {i \in DOMAIN menu.options : IsMarked(rows[menu.options[i].raw_row])}
  IN IF Pairs(rows) = {} THEN DetectMenu(rows) # <<>> <=> Asked(rows)
     ELSE Asked(rows) \/
          /\ shown = ListRows(rows)
          /\ \A i \in DOMAIN menu.options \ {1} :
               menu.options[i].raw_row = menu.options[i - 1].raw_row + 1
          /\ menu.selected = IF marked = {} THEN 0 ELSE Max(marked)

(* The key that an app takes for a row, by the text of the row; "10." is   *)
(* no single key.                                                          *)
OneKey == {[keys |-> <<"1">>, text |-> "1. label"], [keys |-> <<"a">>, text |-> "[a] label"]}

(* The rows an app picks that has its cursor on row c of the list.         *)
Picked(rows, c, keys) ==
  LET presses(key) == Cardinality({i \in DOMAIN keys : keys[i] = key})
  IN IF presses("enter") = 0
     THEN {r \in ListRows(rows) : [keys |-> keys, text |-> rows[r].text] \in OneKey}
     ELSE {c + presses("down") - presses("up")}

(* A key picks the rows that show it, arrows the one meant, counted from   *)
(* the only row that is marked; with none or several, nothing is said.     *)
KeysPick(rows) ==
  LET menu == DetectMenu(rows)[1]
      marked == {r \in ListRows(rows) : IsMarked(rows[r])}
  IN Pairs(rows) # {} /\ ~Asked(rows) =>
       \A i \in DOMAIN menu.options, c \in ListRows(rows) :
         LET row == menu.options[i].raw_row
             picked == Picked(rows, c, MenuSelectKeys(menu, i))
         IN IF rows[row].text = "10. label" THEN marked = {c} => picked = {row}
            ELSE picked = {r \in ListRows(rows) : rows[r].text = rows[row].text}
=============================================================================
