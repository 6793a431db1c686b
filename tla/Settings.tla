------------------------------ MODULE Settings ------------------------------
(***************************************************************************)
(* erfps_settings.ini: what ParseFPSIni makes of it at a start, and what it *)
(* leaves behind.  A key is absent, or has a value its parser takes for    *)
(* what the default is ("good": a switch that is on, a number), or another *)
(* one.  A missing file is one without keys: it is generated from the      *)
(* defaults.                                                               *)
(***************************************************************************)
CONSTANTS
  Overlays,    \* the switches of the overlays
  HookDirectX, \* the switch "Hook DirectX"
  Size         \* a number that IniParseLineF reads; there are four more

Switches == Overlays \cup {HookDirectX}
Key == Switches \cup {Size}
Absent == "absent"
Value == {"good", "other"}

ASSUME SettingsAssumption ==
  HookDirectX \notin Overlays /\ Size \notin Switches

VARIABLES
  file,     \* the file: the value of each key
  wish,     \* history: what the user last wrote, where that was not removed
  enabled   \* the switches that are on

settingsVars == <<file, wish, enabled>>

SettingsTypeOK ==
  /\ file \in [Key -> Value \cup {Absent}]
  /\ wish \in [Key -> Value]
  /\ enabled \subseteq Switches

Default == "good"

SettingsInit ==
  /\ file = [k \in Key |-> Absent]
  /\ wish = [k \in Key |-> Default]
  /\ enabled = {}

UserWrites(k, v) ==
  /\ file' = [file EXCEPT ![k] = v]
  /\ wish' = [wish EXCEPT ![k] = IF v = Absent THEN Default ELSE v]
  /\ UNCHANGED enabled

\* What a line holds after it was read: a key that is missing is written.
IniParseLine(value) == IF value = Absent THEN Default ELSE value

\* A number that cannot be read is an exception nobody handles: the game does
\* not start, and the file is not written.
IsReadable == file[Size] # "other"

ParseFPSIni ==
  /\ IsReadable
  /\ file' = [k \in Key |-> IniParseLine(file[k])]
  /\ enabled' = {s \in Switches : file'[s] = "good"}
  /\ UNCHANGED wish
=============================================================================
