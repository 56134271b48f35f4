--------------------------- MODULE LinkSupervisor ---------------------------
(***************************************************************************)
(* What the daemon promises about its link to the PLC, as seen from        *)
(* outside: it takes a session and then a connection, reports the link up  *)
(* only when it holds both, and after any failure gives both back, the     *)
(* connection first, before it tries again.  It may die at any moment.     *)
(***************************************************************************)
VARIABLES
  link,        \* "opening", "up", "down" or "dead"
  hasSession,  \* a session to the target is held
  hasConn      \* a connection on that session is held

vars == <<link, hasSession, hasConn>>

Init == link = "opening" /\ hasSession = FALSE /\ hasConn = FALSE

TakeSession ==
  /\ link = "opening" /\ ~hasSession
  /\ hasSession' = TRUE
  /\ UNCHANGED <<link, hasConn>>

TakeConn ==
  /\ link = "opening" /\ hasSession /\ ~hasConn
  /\ hasConn' = TRUE /\ link' = "up"
  /\ UNCHANGED hasSession

Lose ==
  /\ link \in {"opening", "up"}
  /\ link' = "down"
  /\ UNCHANGED <<hasSession, hasConn>>

GiveBackConn ==
  /\ link = "down" /\ hasConn
  /\ hasConn' = FALSE
  /\ UNCHANGED <<link, hasSession>>

GiveBackSession ==
  /\ link = "down" /\ hasSession /\ ~hasConn
  /\ hasSession' = FALSE
  /\ UNCHANGED <<link, hasConn>>

Retry ==
  /\ link = "down" /\ ~hasSession /\ ~hasConn
  /\ link' = "opening"
  /\ UNCHANGED <<hasSession, hasConn>>

Die ==
  /\ link # "dead"
  /\ link' = "dead"
  /\ UNCHANGED <<hasSession, hasConn>>

Next ==
  \/ TakeSession \/ TakeConn \/ Lose
  \/ GiveBackConn \/ GiveBackSession \/ Retry
  \/ Die

\* What needs no answer of the target is sure to happen: a session is taken or
\* not, and once the connection is given back the session follows and the link
\* is tried again.  To make a connection and to give it back are exchanges with
\* the target, which may keep the daemon waiting for ever.
Spec ==
  /\ Init /\ [][Next]_vars
  /\ WF_vars(GiveBackSession \/ Retry)
  /\ WF_vars(TakeSession \/ (Lose /\ ~hasSession))
=============================================================================
