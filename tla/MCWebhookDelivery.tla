-------------------------- MODULE MCWebhookDelivery --------------------------
(* WebhookDelivery on small instances: the cfg files give the constants. *)
EXTENDS WebhookDelivery

\* Every kind of failure may happen.
AllFaults == FaultKinds

\* Only the receiver misbehaves.
ReceiverFaults == {"odd"}
=============================================================================
