---------------------------- MODULE MCQueuePoll -----------------------------
(***************************************************************************)
(* Small instances of QueuePoll for TLC.                                   *)
(***************************************************************************)
EXTENDS QueuePoll

Dls(n) == [kind |-> "dls", nro |-> n]
Queue(n) == [kind |-> "queue", nro |-> n]
Empty(n) == [kind |-> "empty", nro |-> n]
Data == [kind |-> "data", nro |-> 0]

\* The example configuration, with fewer queues and data files: every status
\* before its queue.
Example == <<Data, Dls(0), Dls(1), Queue(0), Queue(1)>>

\* The same queues, each next to its status.
Paired == <<Dls(0), Queue(0), Dls(1), Queue(1)>>

\* A status that is read in between, after the queue it counts.
Repeated == <<Dls(0), Dls(1), Queue(1), Data, Dls(1)>>

Orderly == {Example, Paired, Repeated}

\* A status of a queue that has no entry in the table.
Misnumbered == <<Dls(0), Data, Dls(5)>>

\* Two cells of one queue, the first configured with no bytes.
Unsized == <<Dls(0), Dls(1), Empty(1), Dls(1), Queue(1)>>

AllLists == Orderly \cup {Misnumbered, Unsized}

ASSUME MCAssumption == \A names \in AllLists : StatusFirst(names)

\* Only queue 1 is of interest.
OneQueue == {<<Dls(1), Queue(1)>>}
=============================================================================
