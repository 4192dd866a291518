---------------------------- MODULE MCNotifications ----------------------------
(* A small instance of Notifications for TLC. *)
EXTENDS Notifications

===============================================================================
