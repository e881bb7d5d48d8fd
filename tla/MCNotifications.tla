-------------------------- MODULE MCNotifications --------------------------
(* A small instance of Notifications.                                      *)
EXTENDS Notifications
=============================================================================
