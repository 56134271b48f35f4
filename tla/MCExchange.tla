----------------------------- MODULE MCExchange -----------------------------
(***************************************************************************)
(* Small instances of Exchange for TLC.                                    *)
(***************************************************************************)
EXTENDS Exchange

\* One connection after another, and the exchanges made on them.
ConnectionOps == {"ForwardOpen", "ForwardClose", "ConnectedSend"}

\* What openTuxEip, the poll loop and closeTuxEip call.
ClientOps == {"RegisterSession", "UnRegisterSession", "ForwardOpen",
              "ForwardClose", "UnconnectedSend", "ConnectedSend"}

OnlyOk == {"ok"}
=============================================================================
