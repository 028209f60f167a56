----------------------- MODULE MCNotificationScheduler -----------------------
(* A schedule and a few calls; TLC takes those in the constants. *)
EXTENDS NotificationScheduler, TLC

CONSTANTS digest, edit, off, on, remove, i1, i2

MCOp ==
    [c \in Calls |->
        [kind |-> CASE c = edit -> "update" [] c = off -> "disable"
                    [] c = on -> "enable" [] OTHER -> "delete",
         id |-> digest]]
=============================================================================
