---------------------------- MODULE MCSettingsSync ----------------------------
(***************************************************************************)
(* The instance of SettingsSync that TLC checks: a form with the address  *)
(* and the token, which leaves the schedule empty; a slow rate at the      *)
(* hosts that are not the first in the repository.                         *)
(***************************************************************************)
EXTENDS SettingsSync

OneForm == {{"url", "token"}}

SlowBehind == (Host \ {LastPusher}) \X {0}
=============================================================================
