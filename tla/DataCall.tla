------------------------------ MODULE DataCall ------------------------------
(***************************************************************************)
(* One call that reads or writes data of a controller, of either family:   *)
(* PcccData and LgxData say what happens to it.                            *)
(***************************************************************************)
EXTENDS Integers

VARIABLES
  pc,       \* "ready", then what has happened to the request
  item,     \* what the caller reads or writes, and what the controller has of it
  request,  \* the request: to a PLC its kind and address, to a ControlLogix its bytes
  reply,    \* the bytes of data in transit; from a ControlLogix [service, data]
  sts,      \* the status the controller answers with
  result    \* what the library or the daemon makes of it

vars == <<pc, item, request, reply, sts, result>>

Error == -1
Nothing == [type |-> 0]  \* the null pointer

Init ==
  /\ pc = "ready"
  /\ item = Nothing /\ request = Nothing
  /\ reply = <<>> /\ sts = 0 /\ result = Nothing
=============================================================================
