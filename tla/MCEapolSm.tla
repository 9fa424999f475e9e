------------------------------ MODULE MCEapolSm ------------------------------
(* The authenticator of one station with timers of one or two seconds and a *)
(* server that may send a zero Session-Timeout.                              *)
EXTENDS EapolSm

MCSessionTimeouts == {0, 1}
MCOneTimeout == {1}
MCNoTimeout == {}
=============================================================================
