-------------------------- MODULE MCNotifications --------------------------
(* Instances of Notifications for TLC. *)
EXTENDS Notifications

CONSTANTS s1, s2, c1, c2

NoneSilent  == {}
FirstSilent == {<<s1, 2>>}
=============================================================================
