-------------------------- MODULE NotificationsMC --------------------------
(* Instances of Notifications for TLC.                                     *)
EXTENDS Notifications
=============================================================================
