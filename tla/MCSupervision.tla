---------------------------- MODULE MCSupervision ----------------------------
(***************************************************************************)
(* Supervision with the control plane client, a service that triggers the  *)
(* token when it fails (a monitor) and one that leaves it to run_app (the  *)
(* server, the signal handler), two changes of each part of the            *)
(* configuration and two messages on the wire.                             *)
(***************************************************************************)
EXTENDS Supervision

MCTasks == {"gateway", "control-plane-client", "provider-health-monitor"}
MCSelfStop == {"provider-health-monitor"}
=============================================================================
