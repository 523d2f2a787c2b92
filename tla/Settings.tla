------------------------------- MODULE Settings -------------------------------
(***************************************************************************)
(* The settings in the window's memory, in force and on disk               *)
(* (src/src/settings.rs and the save and restore callbacks of              *)
(* src/src/main.rs): one text file of three lines, rewritten in place.     *)
(***************************************************************************)
EXTENDS Naturals

CONSTANTS
  Minutes,   \* timeouts typed
  Shortcuts, \* keys typed, x and h among them
  Modulus,   \* of the integers that hold seconds
  Restored,  \* settings in backup files, which nothing checks
  Unset

ASSUME SettingsAssumption ==
  /\ {"x", "h"} \subseteq Shortcuts /\ Unset \notin Shortcuts \cup Nat
  /\ Minutes \subseteq Nat /\ Modulus \in Nat \ {0}

Default == [secs |-> 14400 % Modulus, quit |-> "x", hide |-> "h"]
NoFile == [secs |-> Unset, quit |-> Unset, hide |-> Unset]

VARIABLES
  memory, \* settings of the window
  file,   \* what each line of the file holds
  timeout, \* seconds in force
  said    \* minutes and keys last reported saved, Unset once a write broke

settingsVars == <<memory, file, timeout, said>>

(* Every line that parses counts, and the default where none does. *)
load(f) ==
  [secs |-> IF f.secs # Unset /\ f.secs # 0 THEN f.secs ELSE Default.secs,
   quit |-> IF f.quit \in Shortcuts THEN f.quit ELSE Default.quit,
   hide |-> IF f.hide \in Shortcuts THEN f.hide ELSE Default.hide]

SettingsInit ==
  /\ file = NoFile /\ memory = load(NoFile)
  /\ timeout = memory.secs /\ said = Unset

(* A write broken off leaves a beginning of the text, perhaps of a number. *)
Cut(s) ==
  {NoFile, [NoFile EXCEPT !.secs = s.secs], [s EXCEPT !.hide = Unset]}
    \cup {[NoFile EXCEPT !.secs = s.secs \div 10^k] : k \in 1..2}

InMinutes(m, q, h) == [secs |-> (m * 60) % Modulus, quit |-> q, hide |-> h]

(* Mutant: the timeout is in force before the file is written. *)
SaveTimeoutFirst(m, q, h) ==
  LET s == InMinutes(m, q, h) IN
  /\ m > 0 /\ q # h
  /\ memory' = s /\ timeout' = s.secs
  /\ \/ file' = s /\ said' = [minutes |-> m, quit |-> q, hide |-> h]
     \/ UNCHANGED <<file, said>>

(* on_save_settings: memory first, then the file, then what is in force.   *)
SaveSettings(m, q, h) ==
  LET s == InMinutes(m, q, h) IN
  /\ m > 0 /\ q # h
  /\ memory' = s
  /\ \/ file' = s /\ timeout' = s.secs /\ said' = [minutes |-> m, quit |-> q, hide |-> h]
     \/ UNCHANGED <<file, timeout, said>>
     \/ file' \in Cut(s) /\ said' = Unset /\ UNCHANGED timeout

Start ==
  /\ memory' = load(file) /\ timeout' = load(file).secs
  /\ UNCHANGED <<file, said>>

(* The end of restore_from_str and on_restore_pressed. *)
RestoreSettings(s) ==
  /\ said' = Unset
  /\ \/ file' = s /\ memory' = load(s) /\ timeout' = load(s).secs
     \/ file' \in Cut(s) /\ UNCHANGED <<memory, timeout>>

SettingsNext ==
  \/ \E m \in Minutes, q, h \in Shortcuts : SaveSettings(m, q, h)
  \/ Start
  \/ \E s \in Restored : RestoreSettings(s)

SettingsSpec == SettingsInit /\ [][SettingsNext]_settingsVars

(* What the window reported saved is in force and is what the next start    *)
(* loads, also after later saves that failed before they wrote, as long as  *)
(* the minutes are few enough for their seconds (main.rs 864-901,           *)
(* settings.rs 29-77).                                                      *)
SavedIsKept ==
  said # Unset /\ said.minutes * 60 < Modulus =>
    /\ load(file) = InMinutes(said.minutes, said.quit, said.hide)
    /\ timeout = load(file).secs
=============================================================================
