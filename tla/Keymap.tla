------------------------------- MODULE Keymap -------------------------------
(***************************************************************************)
(* The browser's keyboard: set-1 scancodes to keysyms on a US layout, as   *)
(* Peel's events are translated (orange_key_translate) and as WebKit asks  *)
(* the keymap object back (userland/bin/orange-browser/peel-platform.c).   *)
(* Printable keysyms are Latin-1 code points.                              *)
(***************************************************************************)
EXTENDS Naturals, Sequences, TLC

Modifier == {"ctrl", "shift", "alt", "meta", "caps"}

\* A run of table entries that begins at scancode `first`.
Row(first, keysyms) ==
  [c \in first .. first + Len(keysyms) - 1 |-> keysyms[c - first + 1]]

\* A table over all scancodes, zero where none is assigned.
Table(rows) == [c \in 0 .. \h58 |-> IF c \in DOMAIN rows THEN rows[c] ELSE 0]

plain == Table(
     Row(\h01, <<\hff1b, 49, 50, 51, 52, 53, 54, 55, 56, 57, 48, 45, 61, \hff08>>)
  @@ Row(\h0F, <<\hff09, 113, 119, 101, 114, 116, 121, 117, 105, 111, 112, 91, 93, \hff0d>>)
  @@ Row(\h1D, <<\hffe3, 97, 115, 100, 102, 103, 104, 106, 107, 108, 59, 39, 96>>)
  @@ Row(\h2A, <<\hffe1, 92, 122, 120, 99, 118, 98, 110, 109, 44, 46, 47>>)
  @@ Row(\h36, <<\hffe2, \hffaa, \hffe9, 32, \hffe5>>)
  @@ Row(\h3B, <<\hffbe, \hffbf, \hffc0, \hffc1, \hffc2, \hffc3, \hffc4, \hffc5, \hffc6, \hffc7>>)
  @@ Row(\h57, <<\hffc8, \hffc9>>))

shifted == Table(
     Row(\h02, <<33, 64, 35, 36, 37, 94, 38, 42, 40, 41, 95, 43>>)
  @@ Row(\h10, <<81, 87, 69, 82, 84, 89, 85, 73, 79, 80, 123, 125>>)
  @@ Row(\h1E, <<65, 83, 68, 70, 71, 72, 74, 75, 76, 58, 34, 126>>)
  @@ Row(\h2B, <<124, 90, 88, 67, 86, 66, 78, 77, 60, 62, 63>>))

\* Scancode, evdev keycode and keysym of the extended (E0) keys.
extended_keys == {
  <<\h1C,  96, \hff8d>>, <<\h1D,  97, \hffe4>>, <<\h35,  98, \hffaf>>, <<\h38, 100, \hffea>>,
  <<\h47, 102, \hff50>>, <<\h48, 103, \hff52>>, <<\h49, 104, \hff55>>, <<\h4B, 105, \hff51>>,
  <<\h4D, 106, \hff53>>, <<\h4F, 107, \hff57>>, <<\h50, 108, \hff54>>, <<\h51, 109, \hff56>>,
  <<\h52, 110, \hff63>>, <<\h53, 111, \hffff>>, <<\h5B, 125, \hffeb>>, <<\h5C, 126, \hffec>>}

is_letter(keysym) == keysym \in 97 .. 122

\* Caps Lock inverts Shift for letters only.
ShiftedLevel(scancode, modifiers) ==
  ("shift" \in modifiers) # (is_letter(plain[scancode]) /\ "caps" \in modifiers)

Untranslated == [keycode |-> 0, keyval |-> 0]

\* The keycode and keysym of a key press, or Untranslated.
orange_key_translate(scancode, extended, modifiers) ==
  LET keys == {k \in extended_keys : k[1] = scancode}
      key == CHOOSE k \in keys : TRUE
      shift == ShiftedLevel(scancode, modifiers) /\ shifted[scancode] # 0
  IN  IF extended
      THEN IF keys = {} THEN Untranslated ELSE [keycode |-> key[2] + 8, keyval |-> key[3]]
      ELSE IF scancode \notin DOMAIN plain \/ plain[scancode] = 0 THEN Untranslated
      ELSE [keycode |-> scancode + 8,
            keyval |-> IF shift THEN shifted[scancode] ELSE plain[scancode]]

\* The modifiers a key stands for, as a set.
orange_key_modifier(scancode, extended) ==
  IF scancode = \h1D THEN {"ctrl"}
  ELSE IF scancode \in {\h2A, \h36} /\ ~extended THEN {"shift"}
  ELSE IF scancode = \h38 THEN {"alt"}
  ELSE IF scancode \in {\h5B, \h5C} /\ extended THEN {"meta"}
  ELSE {}

\* Seeded fault: shifted entries carry the unshifted level.
EntriesOnOneLevel(keyval) ==
  {<<c + 8, 0>> : c \in {d \in DOMAIN plain : keyval \in {plain[d], shifted[d]}}}

\* Every way to type a keysym: keycode and level.
keymap_entries_for_keyval(keyval) ==
       {<<c + 8, 0>> : c \in {d \in DOMAIN plain : plain[d] = keyval}}
  \cup {<<c + 8, 1>> : c \in {d \in DOMAIN shifted : shifted[d] # 0 /\ shifted[d] = keyval}}
  \cup {<<k[2] + 8, 0>> : k \in {e \in extended_keys : e[3] = keyval}}

\* The keysym of a keycode under modifiers, its level and the modifiers used.
keymap_translate(keycode, modifiers) ==
  LET keys == {k \in extended_keys : k[2] + 8 = keycode}
      extended == keys # {}
      scancode == IF extended THEN (CHOOSE k \in keys : TRUE)[1] ELSE keycode - 8
      value == orange_key_translate(scancode, extended, modifiers).keyval
      level == IF ~extended /\ shifted[scancode] # 0 /\ value = shifted[scancode] THEN 1 ELSE 0
  IN  IF keycode < 8 \/ value = 0 THEN [keyval |-> 0, level |-> 0, consumed |-> {}]
      ELSE [keyval |-> value, level |-> level,
            consumed |-> IF level = 1 THEN {"shift"} ELSE {}]
=============================================================================
