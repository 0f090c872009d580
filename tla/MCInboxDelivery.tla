-------------------------- MODULE MCInboxDelivery --------------------------
(* Pairs of messages for TLC: two of an address's queue, two of a session   *)
(* and a pull message beside a push, so that each way one message can stand *)
(* in another's way or be settled with it is there.                         *)
EXTENDS InboxDelivery

MCMixes ==
  {<<"untargeted", "steer">>, <<"pull", "simple">>, <<"chat", "agent">>,
   <<"desk", "chat">>}
=============================================================================
