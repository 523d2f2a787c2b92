------------------------------- MODULE MCValues -------------------------------
(* Four parts that share nothing; subject says which of them moves. *)
EXTENDS CivilDays, Totp, Settings, Pages

VARIABLE subject

(* 1970 up to 2370: the 400 years of the calendar. *)
FourCenturies == 0..146100

Words(S, n) == UNION {[1..k -> S] : k \in 0..n}
Zeros(n) == [i \in 1..n |-> 0]

Base32(bytes) ==
  [k \in 1..(8 * Len(bytes) + 4) \div 5 |->
    SumSet({2^(4 - i) * Bits(bytes, 8, 5 * (k - 1) + i) : i \in 0..4})]

(* Short texts of few characters, longer ones that end in each way a group *)
(* can, encodings of short secrets, and spaces, paddings and others.       *)
SomeTexts ==
  Words({0, 1, 16}, 5) \cup {Append(Zeros(n), c) : n \in 5..8, c \in {0, 1, 4, Pad}}
    \cup {Base32(b) : b \in Words({1, 255}, 3)} \cup Words({4, Pad, Space, Other}, 3)
    \cup {<<0, 0, Pad, 0>>, <<0, 0, Pad, Space, Pad>>}

SomeParameters == [algorithm : {"sha512"}, digits : {6, 9}, period : {0, 30, 300, 3601}]

(* Minutes whose seconds still fit, wrap to zero and wrap to a few. *)
SomeMinutes == {0, 1, 15, 16, 17}

BackedUp == {[secs |-> 0, quit |-> "xx", hide |-> "h"], [secs |-> 120, quit |-> "q", hide |-> "q"]}

Init ==
  /\ subject \in {"calendar", "totp", "settings", "pages"}
  /\ IF subject = "calendar" THEN ClockInit
                             ELSE day = 0 /\ second = 0 /\ stamp = Stamp(0, 0)
  /\ TotpInit /\ SettingsInit /\ PagesInit

Next ==
  /\ UNCHANGED subject
  /\ \/ subject = "calendar" /\ Tick /\ UNCHANGED <<totpVars, settingsVars, pageVars>>
     \/ subject = "totp" /\ TotpNext /\ UNCHANGED <<clockVars, settingsVars, pageVars>>
     \/ subject = "settings" /\ SettingsNext /\ UNCHANGED <<clockVars, totpVars, pageVars>>
     \/ subject = "pages" /\ PagesNext /\ UNCHANGED <<clockVars, totpVars, settingsVars>>

Spec == Init /\ [][Next]_<<subject, clockVars, totpVars, settingsVars, pageVars>>
=============================================================================
