----------------------- MODULE MCNotificationDispatch -----------------------
(* A small number of notifications, calls and instances; TLC takes those in the constants. *)
EXTENDS NotificationDispatch, TLC

CONSTANTS alert, copy, again, undo, layout, i1

MCKey == [n \in Notifications |-> "k"]

MCTemplatesOf == [n \in Notifications |-> IF n = alert THEN Templates ELSE {}]

MCMaxRetries == [n \in Notifications |-> 2]

MCOp == [c \in Changes |-> [kind |-> IF c = undo THEN "cancel" ELSE "retry", id |-> alert]]
=============================================================================
