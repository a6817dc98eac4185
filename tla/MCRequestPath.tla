---------------------------- MODULE MCRequestPath ----------------------------
(***************************************************************************)
(* RequestPath with Buffers of one message, on a configuration with every  *)
(* layer and on one that limits without authentication.                    *)
(***************************************************************************)
EXTENDS RequestPath

AllLayers == {"auth", "globalLimit", "routerLimit"}
WithAndWithoutAuth == {AllLayers, AllLayers \ {"auth"}}
OnlyAll == {AllLayers}
=============================================================================
