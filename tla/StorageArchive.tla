--------------------------- MODULE StorageArchive ---------------------------
(***************************************************************************)
(* The storage engine as an archive: what its layers hold of a mail, taken  *)
(* together, and what a search of it saw.                                   *)
(***************************************************************************)
EXTENDS StorageEngineProps

\* What the layers that take writes hold of a mail, as one.
HeldOf(id) ==
  IF \A l \in WriteLayers : content[l][id] = "none" THEN "absent"
  ELSE IF \A l \in WriteLayers : Persistent(l) => content[l][id] = "whole" THEN "whole"
  ELSE "partial"

Held == [id \in Ids |-> HeldOf(id)]

\* A search has seen its mails once it listed them, long before it loads the
\* last file: files it has yet to load are part of what it saw.
SeenBy(call) ==
  CASE call.pc = "scan"  -> {call.todo \cup call.found}
    [] call.pc = "found" -> {call.found}
    [] OTHER             -> {}

Seen == [p \in Procs |-> SeenBy(proc[p])]

Archive == INSTANCE MailArchive WITH
  Mails <- Ids, Callers <- Procs,
  offered <- minted, kept <- acked, told <- known, condemned <- touched,
  held <- Held, seen <- Seen

\* Searches are answered by a layer that takes every write and outlives the
\* process. The full stack of the design document is not so configured.
SearchesAreStored ==
  \E l \in LayerIds : First(SearchLayers, l) /\ l \in WriteLayers /\ Persistent(l)

\* A search under way owes its caller no more than it has listed.
SearchInv ==
  \A p \in Procs :
    /\ proc[p].pc = "search" => proc[p].route = SearchLayers /\ proc[p].found = {}
    /\ proc[p].pc \in {"search", "scan", "found"} => proc[p].owed \subseteq acked
    /\ \A S \in SeenBy(proc[p]) : proc[p].owed \ touched \subseteq S

\* Layers, interleaved calls, failures, crashes and restarts together look to
\* the callers like one archive that keeps what it acknowledged, whose searches
\* see one moment of it although FILESYSTEM reads its folder file by file
\* without the lock, and that brings nothing back.
ArchiveSpec == Archive!Spec
=============================================================================
