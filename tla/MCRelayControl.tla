--------------------------- MODULE MCRelayControl ---------------------------
(* Small instances of RelayControl for TLC.                                *)
EXTENDS RelayControl

\* An unusable reading, an empty and a full tank.
MCLevels == {NaN, 0, 100}
=============================================================================
