----------------------------- MODULE MCOffload ------------------------------
(* Two descriptors, so that the second job meets what the first left.      *)
EXTENDS Offload

MCDescriptors == <<4, 8>>
MCErrorCodes == {1, 3}
=============================================================================
