--------------------------------- MODULE View ---------------------------------
(***************************************************************************)
(* What the terminal shows in Watch and Interact (dd-client-cli            *)
(* session_ui.rs: the loop of run_structured, draw, render_screen and      *)
(* render_blocks): a window on the document, or the screen of a full-      *)
(* screen app, and a menu below.                                           *)
(*                                                                         *)
(* Of the document only its lines matter, and whether one of them is wider *)
(* than the terminal, and wraps.  What wakes the loop is in SessionEngine, *)
(* the other keys and the mode's third value in SessionUi.                 *)
(***************************************************************************)
EXTENDS Menus

CONSTANTS FirstScreens, \* the screens that the view may find
          Screens,      \* the screens that the app paints from then on
          Heights,      \* the heights of the terminal
          MaxLines,     \* bound on the lines of the document
          U16           \* how many values a u16 has

ASSUME HeightAssumption == Heights \subseteq Nat \ {0}
ASSUME U16Assumption == U16 \in Nat \ {0}
ASSUME ScreenAssumption ==
  FirstScreens \cup Screens \subseteq [rows : Seq(Row), alternate : BOOLEAN]

VARIABLES doc,          \* the engine's document
          screen,       \* the engine's screen
          height,       \* rows of the terminal
          ui,           \* the loop's next step
          woken,        \* an event waits in the receiver
          mode, blocks, scroll, follow,
          menu,         \* the menu of the drawing under way: <<>> or <<menu>>
          shown,        \* what was drawn last
          keyed         \* auxiliary: a key has come since

loop == <<ui, woken, mode, blocks, scroll, follow, menu, shown, keyed>>
vars == <<doc, screen, height, loop>>

Nothing == [kind |-> "none"]
EmptyDoc == [lines |-> 0, wrapped |-> FALSE]

Init ==
  /\ doc = EmptyDoc
  /\ screen \in FirstScreens
  /\ height \in Heights
  /\ ui = "detect"
  /\ woken = FALSE
  /\ mode = "Watch"
  /\ blocks = EmptyDoc
  /\ scroll = 0
  /\ follow = TRUE
  /\ menu = <<>>
  /\ shown = Nothing
  /\ keyed = FALSE

-----------------------------------------------------------------------------
(***************************************************************************)
(* The session's output, and the terminal's size.                          *)
(***************************************************************************)
(* A line that fits the terminal, or wraps; the screen has it as well.     *)
Output ==
  /\ doc.lines < MaxLines
  /\ screen' \in Screens
  /\ \E wraps \in BOOLEAN :
       doc' = [lines |-> doc.lines + 1, wrapped |-> doc.wrapped \/ wraps]
  /\ woken' = TRUE
  /\ UNCHANGED <<height, ui, mode, blocks, scroll, follow, menu, shown, keyed>>

Paint ==
  /\ \E s \in Screens \ {screen} : screen' = s
  /\ UNCHANGED <<doc, height, loop>>

TerminalResized ==
  /\ \E h \in Heights \ {height} : height' = h
  /\ UNCHANGED <<doc, screen, loop>>

-----------------------------------------------------------------------------
(***************************************************************************)
(* One drawing.  The menu and the screen are read one after the other.     *)
(***************************************************************************)
Detect ==
  /\ ui = "detect"
  /\ menu' = IF mode = "Interact" THEN DetectMenu(screen.rows) ELSE <<>>
  /\ ui' = "draw"
  /\ UNCHANGED <<doc, screen, height, woken, mode, blocks, scroll, follow, shown, keyed>>

Minus(a, b) == IF a >= b THEN a - b ELSE 0      \* saturating_sub

MenuHeight == IF menu = <<>> THEN 0 ELSE Len(menu[1].options) + 2

(* The rows left for the document: less the menu, the status line and the  *)
(* borders.                                                                *)
InnerHeight ==
  LET body == Minus(height, MenuHeight + 1)
  IN Minus(IF body = 0 THEN 1 ELSE body, 2)

MaxScroll_UnderMenu(lines) == Minus(lines % U16, Minus(height, 3))

MaxScroll(lines) == Minus(lines % U16, InnerHeight)

Draw ==
  /\ ui = "draw"
  /\ scroll' = CASE screen.alternate -> 0
                 [] ~screen.alternate /\ (follow \/ scroll > MaxScroll(blocks.lines)) ->
                      MaxScroll(blocks.lines)
                 [] OTHER -> scroll
  /\ shown' = [kind |-> IF screen.alternate THEN "screen" ELSE "blocks",
               top |-> scroll', height |-> InnerHeight, doc |-> blocks]
  /\ ui' = "select"
  /\ keyed' = FALSE
  /\ UNCHANGED <<doc, screen, height, woken, mode, blocks, follow, menu>>

-----------------------------------------------------------------------------
(***************************************************************************)
(* The select! loop.                                                       *)
(***************************************************************************)
Wake_Follows ==
  /\ ui = "select" /\ woken
  /\ blocks' = doc /\ woken' = FALSE /\ follow' = TRUE
  /\ ui' = "detect"
  /\ UNCHANGED <<doc, screen, height, mode, scroll, menu, shown, keyed>>

Wake ==
  /\ ui = "select" /\ woken
  /\ blocks' = doc /\ woken' = FALSE
  /\ ui' = "detect"
  /\ UNCHANGED <<doc, screen, height, mode, scroll, follow, menu, shown, keyed>>

(* What is no key, a resize above all: drawn again (engine.resize paints). *)
OtherEvent ==
  /\ ui = "select" /\ ui' = "detect"
  /\ UNCHANGED <<doc, screen, height, mode, woken, blocks, scroll, follow, menu, shown, keyed>>

Key ==
  /\ ui = "select" /\ ui' = "detect"
  /\ keyed' = TRUE
  /\ UNCHANGED <<doc, screen, height, menu, shown>>

Up(n) ==
  /\ follow' = FALSE
  /\ scroll' = Minus(scroll, n)
  /\ UNCHANGED <<mode, woken, blocks>>

Down(n) ==
  /\ scroll' = IF scroll + n < U16 THEN scroll + n ELSE U16 - 1
  /\ UNCHANGED <<follow, mode, woken, blocks>>

Scroll ==
  /\ Key
  /\ \/ mode = "Watch" /\ (Up(1) \/ Down(1))
     \/ Up(10) \/ Down(10)

Follow ==
  /\ Key /\ mode = "Watch"
  /\ follow' = TRUE
  /\ UNCHANGED <<mode, woken, blocks, scroll>>

(* Tab from Watch, Shift-Tab from Interact; and any key that is forwarded  *)
(* or ignored.                                                             *)
Cycle ==
  /\ Key
  /\ mode' \in {"Watch", "Interact"}
  /\ UNCHANGED <<woken, blocks, scroll, follow>>

(* Raw and back: run_structured is entered anew, in Watch.                 *)
ThroughRaw ==
  /\ Key
  /\ mode' = "Watch" /\ scroll' = 0 /\ follow' = TRUE
  /\ blocks' = doc /\ woken' = FALSE

Next ==
  \/ Output \/ Paint \/ TerminalResized
  \/ Detect \/ Draw \/ Wake
  \/ OtherEvent \/ Scroll \/ Follow \/ Cycle \/ ThroughRaw

Spec == Init /\ [][Next]_vars

-----------------------------------------------------------------------------
(* The picture is of a document whose lines are not wrapped and whose      *)
(* number fits a u16: with either, draw's own count is not the window's.   *)
Counted(picture) ==
  /\ picture.kind = "blocks"
  /\ ~picture.doc.wrapped /\ picture.doc.lines < U16
  /\ picture.height > 0

NewestInView(picture) == picture.top + picture.height >= picture.doc.lines

(* "End follow" (session_ui.rs:385): while the view follows and nothing    *)
(* waits to be drawn, the newest line is on display, whatever menu takes   *)
(* room and however the terminal was resized before.                       *)
FollowShowsNewest ==
  ui = "select" /\ ~woken /\ follow /\ Counted(shown) =>
    NewestInView(shown) /\ shown.doc = doc

(* Output alone never moves the window of a reader who looks at older      *)
(* lines (session_ui.rs:361-365): it moves only to keep the newest line in *)
(* view, or because it has grown.                                          *)
KeepsPlace ==
  [][Draw /\ ~keyed /\ Counted(shown) /\ Counted(shown') =>
       \/ shown'.top = shown.top
       \/ NewestInView(shown)
       \/ shown'.height > shown.height]_vars

(* The menu found on any screen is the lowest list of options there, whole *)
(* and with its marked row, whatever lists lie above it; without one, a    *)
(* question that is the last thing on the screen (menu.rs:4-8).            *)
MenuExact == MenuIsExact(screen.rows)

(* The keys for each option of that menu make an app pick the row it was   *)
(* found on: the key its text shows, or arrows from the marked row         *)
(* (input.rs:88-109).                                                      *)
PickReachesOption == KeysPick(screen.rows)
=============================================================================
