------------------------------ MODULE Terminal ------------------------------
(***************************************************************************)
(* The keyboard and the screen: proj2/src/devices/kbd.c (the decoding of   *)
(* scancodes; module Chars has the buffer behind it) and devices/vga.c.    *)
(***************************************************************************)
EXTENDS SequencesExt

CONSTANTS
  COL_CNT, ROW_CNT,     \* columns and rows of the display (80, 25)
  TabStop,              \* distance of the tab stops (8)
  MaxPaper              \* bound: lines printed before the screen is cleared

ASSUME TerminalAssumption ==
  COL_CNT \in Nat \ {0} /\ ROW_CNT \in Nat \ {0} /\ TabStop \in Nat \ {0} /\ MaxPaper \in Nat \ {0}

-----------------------------------------------------------------------------
(* kbd.c.  The state k is [down, caps]: the shift keys whose flag is set,  *)
(* and caps_lock.  A key is its scancode without the release bit, plus     *)
(* Prefix for the codes that follow 0xe0.                                  *)

Prefix == 57344                         \* 0xe000

shift_keys == (42 :> "left_shift") @@ (54 :> "right_shift") @@ (56 :> "left_alt")
              @@ ((Prefix + 56) :> "right_alt") @@ (29 :> "left_ctrl")
              @@ ((Prefix + 29) :> "right_ctrl")

\* Characters by scancode, as runs of consecutive codes: <<first scancode, characters>>.
invariant_keymap ==
  {<<1, <<27>>>>, <<14, <<8>>>>, <<15, <<9, 81, 87, 69, 82, 84, 89, 85, 73, 79, 80>>>>,
   <<28, <<13>>>>, <<30, <<65, 83, 68, 70, 71, 72, 74, 75, 76>>>>,
   <<44, <<90, 88, 67, 86, 66, 78, 77>>>>, <<55, <<42>>>>, <<57, <<32>>>>, <<83, <<127>>>>}
unshifted_keymap ==
  {<<2, <<49, 50, 51, 52, 53, 54, 55, 56, 57, 48, 45, 61>>>>, <<26, <<91, 93>>>>,
   <<39, <<59, 39, 96>>>>, <<43, <<92>>>>, <<51, <<44, 46, 47>>>>}
shifted_keymap ==
  {<<2, <<33, 64, 35, 36, 37, 94, 38, 42, 40, 41, 95, 43>>>>, <<26, <<123, 125>>>>,
   <<39, <<58, 34, 126>>>>, <<43, <<124>>>>, <<51, <<60, 62, 63>>>>}

NoChar == -1
\* map_key(): the character of a scancode, or NoChar.
map_key(keymap, code) ==
  LET runs == {r \in keymap : code >= r[1] /\ code < r[1] + Len(r[2])}
  IN IF runs = {} THEN NoChar ELSE LET r == CHOOSE r \in runs : TRUE IN r[2][code - r[1] + 1]

tolower(c) == IF c \in 65..90 THEN c + 32 ELSE c

\* The character that a key stands for, before Ctrl and Alt.
KeyChar(k, code) ==
  LET always == map_key(invariant_keymap, code)
      shift == k.down \cap {"left_shift", "right_shift"} # {}
  IN IF always # NoChar THEN always
     ELSE map_key(IF shift THEN shifted_keymap ELSE unshifted_keymap, code)

\* Faulty variant: releasing a shift key leaves its flag.
SetShift_Sticky(k, code, release) ==
  IF release THEN k ELSE [k EXCEPT !.down = @ \cup {shift_keys[code]}]
\* The scan of the table of shift keys.
SetShift(k, code, release) ==
  [k EXCEPT !.down = IF release THEN @ \ {shift_keys[code]} ELSE @ \cup {shift_keys[code]}]

\* keyboard_interrupt(): the state after it, the byte for input_putc() or NoChar, and
\* whether the machine is rebooted.
keyboard_interrupt(k, code, release) ==
  LET shift == k.down \cap {"left_shift", "right_shift"} # {}
      alt == k.down \cap {"left_alt", "right_alt"} # {}
      ctrl == k.down \cap {"left_ctrl", "right_ctrl"} # {}
      c == KeyChar(k, code)
      d == IF ctrl /\ c >= 64 /\ c < 96 THEN c - 64
           ELSE IF shift = k.caps THEN tolower(c) ELSE c
      quiet(s) == [state |-> s, byte |-> NoChar, reboot |-> FALSE]
  IN CASE code = 58 -> quiet(IF release THEN k ELSE [k EXCEPT !.caps = ~@])
       [] code # 58 /\ c # NoChar ->
            IF release THEN quiet(k)
            ELSE [state |-> k, byte |-> IF alt THEN d + 128 ELSE d,
                  reboot |-> c = 127 /\ ctrl /\ alt]
       [] OTHER -> quiet(IF code \in DOMAIN shift_keys THEN SetShift(k, code, release) ELSE k)

-----------------------------------------------------------------------------
(* vga.c.  The screen s is [fb, cx, cy].                                   *)

Blank == " "
BlankRow == [x \in 1..COL_CNT |-> Blank]

clear_row(fb, y) == [fb EXCEPT ![y] = BlankRow]

newline(s) ==
  IF s.cy + 1 < ROW_CNT THEN [s EXCEPT !.cx = 0, !.cy = @ + 1]
  ELSE LET moved == [y \in 1..ROW_CNT |-> s.fb[IF y < ROW_CNT THEN y + 1 ELSE y]]
       IN [fb |-> clear_row(moved, ROW_CNT), cx |-> 0, cy |-> ROW_CNT - 1]

cls == [fb |-> [y \in 1..ROW_CNT |-> BlankRow], cx |-> 0, cy |-> 0]

\* The cursor moves to column x, and to the next line past the last one.
MoveTo(s, x) == IF x >= COL_CNT THEN newline(s) ELSE [s EXCEPT !.cx = x]

vga_putc(s, c) ==
  CASE c = "\n" -> newline(s)
    [] c = "\f" -> cls
    [] c = "backspace" -> [s EXCEPT !.cx = IF @ > 0 THEN @ - 1 ELSE 0]
    [] c = "\r" -> [s EXCEPT !.cx = 0]
    [] c = "\t" -> MoveTo(s, ((s.cx + TabStop) \div TabStop) * TabStop)
    [] c = "bell" -> s
    [] OTHER -> MoveTo([s EXCEPT !.fb[s.cy + 1][s.cx + 1] = c], s.cx + 1)

\* move_cursor() and find_cursor(): the hardware's cursor, in two registers of 8 bits.
move_cursor(s) == LET cp == s.cx + COL_CNT * s.cy IN <<cp \div 256, cp % 256>>
find_cursor(reg) == LET cp == reg[1] * 256 + reg[2] IN <<cp % COL_CNT, cp \div COL_CNT>>

-----------------------------------------------------------------------------
(* The terminal in use: keys go down and up, characters are printed.  held *)
(* are the keys that are down, paper is what the characters make of an     *)
(* endless sheet, and last is the last key with what came of it.           *)

TerminalStart ==
  [k |-> [down |-> {}, caps |-> FALSE], held |-> {},
   s |-> cls, paper |-> <<BlankRow>>, last |-> <<>>]

PaperPut(s, paper, c) ==
  LET at(x) == IF x >= COL_CNT THEN Append(paper, BlankRow) ELSE paper
  IN CASE c = "\n" -> Append(paper, BlankRow)
       [] c = "\f" -> <<BlankRow>>
       [] c \in {"backspace", "\r", "bell"} -> paper
       [] c = "\t" -> at(((s.cx \div TabStop) + 1) * TabStop)
       [] OTHER -> LET w == [paper EXCEPT ![Len(paper)][s.cx + 1] = c]
                   IN IF s.cx + 1 = COL_CNT THEN Append(w, BlankRow) ELSE w

\* A key that is down repeats; one that is up can only go down.
KeySteps(t, keys) ==
  {[t EXCEPT !.k = keyboard_interrupt(t.k, key, FALSE).state, !.held = @ \cup {key},
             !.last = <<key, keyboard_interrupt(t.k, key, FALSE)>>] : key \in keys}
  \cup {[t EXCEPT !.k = keyboard_interrupt(t.k, key, TRUE).state, !.held = @ \ {key},
                  !.last = <<>>] : key \in t.held}

ScreenSteps(t, chars) ==
  {u \in {[t EXCEPT !.s = vga_putc(t.s, c), !.paper = PaperPut(t.s, @, c)] : c \in chars} :
     Len(u.paper) <= MaxPaper}

\* The shift state is that of the keys that are down, in whatever order they went down
\* and up: a character comes as its plain, shifted, Ctrl or Alt form by the keys
\* that were held, letters by Caps Lock too, and only Ctrl+Alt+Del reboots.
KeysDecoded(t) ==
  LET some(S) == t.held \cap S # {}
      shift == some({42, 54})
      ctrl == some({29, Prefix + 29})
      alt == some({56, Prefix + 56})
      byte == t.last[2].byte
      plain == IF alt THEN byte - 128 ELSE byte
  IN /\ t.k.down = {shift_keys[key] : key \in t.held \cap DOMAIN shift_keys}
     /\ t.last # <<>> =>
          /\ t.last[1] = 30 => plain = IF ctrl THEN 1 ELSE IF shift # t.k.caps THEN 65 ELSE 97
          /\ t.last[1] = 3 => plain = IF ~shift THEN 50 ELSE IF ctrl THEN 0 ELSE 64
          /\ t.last[2].reboot = (t.last[1] = 83 /\ ctrl /\ alt)
          /\ t.last[1] \in {30, 3, 83} => byte \in 0..255
          /\ t.last[1] \notin {30, 3, 83} => byte = NoChar

\* The screen shows the last lines of what has been printed, the cursor stands in the
\* last of them and within the display, and the hardware's cursor with it.
ScreenShows(t) ==
  LET n == Len(t.paper)
      first == IF n > ROW_CNT THEN n - ROW_CNT ELSE 0
  IN /\ \A y \in 1..ROW_CNT : t.s.fb[y] = IF first + y <= n THEN t.paper[first + y] ELSE BlankRow
     /\ t.s.cy = n - first - 1 /\ t.s.cx \in 0..(COL_CNT - 1)
     /\ find_cursor(move_cursor(t.s)) = <<t.s.cx, t.s.cy>>
=============================================================================
