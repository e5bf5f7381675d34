--------------------------- MODULE MCSessionLink ---------------------------
(* The peer's messages come from peer_log, so there are no other inputs.   *)
EXTENDS SessionLink

NoInputs == {}

OneKind == {<<1, 0>>, <<0, 2>>}   \* a lost frame, or two broken connections

TwoLost == {<<2, 0>>}

=============================================================================
