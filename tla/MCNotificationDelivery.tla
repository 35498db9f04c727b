----------------------- MODULE MCNotificationDelivery -----------------------
(* Small instances of NotificationDelivery for TLC. *)
EXTENDS NotificationDelivery

CONSTANTS d1, d2

MCTwoDeliveries == {d1, d2}
MCBypass == {d2}
=============================================================================
