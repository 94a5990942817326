-------------------------- MODULE MC_ChatHistory --------------------------
(* Instances of ChatHistory for TLC. *)
EXTENDS ChatHistory, TLC

(* Bound: behaviours end where a history has overtaken another. That      *)
(* changes the row alone, which the page reads only when it is reloaded,  *)
(* and then takes every answer as done.                                   *)
InOrder == "overtaken" \notin seen
=============================================================================
