-------------------------- MODULE MCDefaultEngine --------------------------
(* The storage engine as it is shipped, and its cache at the grain of its    *)
(* lock. The two are checked by turns: each moves while the other is in its *)
(* initial state, and neither reads the other's variables.                  *)
EXTENDS MCStorageEngine, MemoryLayer

\* Both mails that parse have two attachments, so that they remain
\* interchangeable.
MCAttachmentsOf == [id \in Mails |-> IF id \in Unparsed THEN {} ELSE Attachments]

MCInit == Init /\ MemoryInit

MCNext ==
  \/ MemoryInit /\ Next /\ UNCHANGED memoryVars
  \/ Init /\ MemoryNext /\ UNCHANGED vars

MCSpec == MCInit /\ [][MCNext]_<<vars, memoryVars>>
=============================================================================
