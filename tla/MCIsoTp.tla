------------------------------- MODULE MCIsoTp -------------------------------
(* Instances of the transport for TLC: frames of two bytes.                *)
EXTENDS IsoTpProps

MCLengths == {5, 9}
MCResponses == {0, 2, 6}
MCBlockSizes == {0, 1}
MCStMins == {0, 1}
=============================================================================
