----------------------------- MODULE MCRecorder -----------------------------
(***************************************************************************)
(* Small instances of Recorder for TLC.                                    *)
(***************************************************************************)
EXTENDS Recorder

\* 01/10/2013,11:01:26,196,6566,148,71,1171
Record == <<<<1, 10, 2013>>, "11:01:26", 196, 6566, 148, 71, 1171>>
=============================================================================
