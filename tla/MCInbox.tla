------------------------------ MODULE MCInbox ------------------------------
(***************************************************************************)
(* A stream for Inbox: an update, a message that is refused, an update, a  *)
(* container with these three, a state request and a msg_detailed_info.    *)
(***************************************************************************)
EXTENDS InboxHeap, TLC

MCItems == 4 :> <<1, 2, 3>>
MCAsked == 5 :> {1, 3}
MCAnswer == 6 :> 1

=============================================================================
