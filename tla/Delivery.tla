------------------------------ MODULE Delivery ------------------------------
(***************************************************************************)
(* What every queue of this program promises of the messages it takes: a   *)
(* message is queued once, handed over at most once, and neither comes     *)
(* back from where it was handed to nor from where it was dropped.         *)
(* MonitorWakes, PeerMail and FullScreen implement this specification,     *)
(* each with the state function it gives for "where".                      *)
(*                                                                         *)
(* One step may move any number of messages, because one drain takes all   *)
(* that are queued and one crash loses all that are on their way.          *)
(***************************************************************************)
CONSTANTS
    Messages,
    MayDrop   \* whether a queued message may be given up

VARIABLE where

Places == {"unsent", "queued", "delivered", "dropped"}

Moves ==
    {<<"unsent", "queued">>, <<"unsent", "dropped">>, <<"unsent", "delivered">>,
     <<"queued", "delivered">>}
        \cup (IF MayDrop THEN {<<"queued", "dropped">>} ELSE {})

DeliveryInit == where = [m \in Messages |-> "unsent"]

Move ==
    /\ where' \in [Messages -> Places]
    /\ \A m \in Messages : where'[m] = where[m] \/ <<where[m], where'[m]>> \in Moves

DeliverySpec == DeliveryInit /\ [][Move]_where
=============================================================================
