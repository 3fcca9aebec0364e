----------------------------- MODULE MCHttpPush -----------------------------
(* Instances of HttpPush for TLC. *)
EXTENDS HttpPush

CONSTANTS reporter, recovery

\* Bound: an agent with a key never meets the check of the setting.
SettingMatters == key # "none" => ~required
=============================================================================
