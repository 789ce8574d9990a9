------------------------- MODULE StorageEngineProps -------------------------
(***************************************************************************)
(* What the storage engine owes its callers, stated over the calls'         *)
(* histories, and the inductive invariant that explains why it holds.       *)
(***************************************************************************)
EXTENDS StorageEngine

\* Type invariant of the engine's state.
TypeOK ==
  /\ content \in [LayerIds -> [Ids -> Statuses]]
  /\ lock \in [LayerIds -> Procs \cup {None}]
  /\ proc \in [Procs -> Call]
  /\ \A p \in Procs : proc[p].pc \in SetLabels \cup {"delete"} => proc[p].arg \in Ids
  /\ loading \in 0..Root
  /\ rows \subseteq Ids
  /\ crashes \in 0..MaxCrashes
  /\ minted \subseteq Ids /\ acked \subseteq Ids /\ known \subseteq Ids
  /\ touched \subseteq Ids /\ erased \subseteq Ids

\* Nobody is inside the engine.
Quiet == loading = 0 /\ \A p \in Procs : proc[p].pc = "idle"

-----------------------------------------------------------------------------
(* Safety *)

\* A mail whose Set returned without an error (the SMTP client got its 250) is
\* in every persistent layer that takes writes, complete, until somebody asks
\* for a deletion that covers it: whatever other calls run beside, whatever
\* fails, and across any crash and restart.
Durable ==
  \A id \in acked \ touched, l \in WriteLayers :
     Persistent(l) => content[l][id] = "whole"

\* A mail whose deletion was confirmed is in no layer that takes writes, and no
\* later call or restart brings it back.
ErasedStaysErased ==
  \A id \in erased, l \in WriteLayers : content[l][id] = "none"

\* A search that ends well lists every mail that was acknowledged before it
\* began and that nobody asked to delete before it ended, although it reads
\* the folder without the lock while others write and delete in it.
SearchComplete ==
  \A p \in Procs : proc[p].pc = "found" => proc[p].owed \ touched \subseteq proc[p].found

\* Whenever the engine is at rest its writable layers hold the same mails:
\* what the MEMORY layer serves by id is what the root lists.
InSync ==
  Quiet => \A l, m \in WriteLayers : Present(l) = Present(m)

\* By id, in every form: header, raw body version, raw file.
Readable(id) ==
  /\ ReadLayers # {} => Gets(id) /\ GetsRawBody(id)
  /\ RawLayers # {} => GetsRaw(id)

\* A mail the engine acknowledged and that nobody asked to delete can be read
\* by id in every form.
ReadsServe ==
  loading = 0 => \A id \in acked \ touched : Readable(id)

\* The layer takes every write and keeps it: its files or rows survive, or the
\* process never stops.
Keeps(l) == l \in WriteLayers /\ (Persistent(l) \/ MaxCrashes = 0)

\* Every form of a mail is read from a layer that keeps it.
KeptWhereRead ==
  LET Serves(R) == \E l \in R : First(R, l) /\ Keeps(l)
  IN  /\ ReadLayers # {} => /\ Serves(ReadLayers)
                            /\ Serves({l \in ReadLayers : TypeOf(l) # "MEMORY"})
      /\ RawLayers # {} => Serves(RawLayers)

\* Every form of a mail is read from a layer that takes every write, and the
\* root, which takes them too, outlives the process.
RestoredWhereRead ==
  LET Serves(R) == \E l \in R : First(R, l) /\ l \in WriteLayers
  IN  /\ Root \in WriteLayers /\ Persistent(Root)
      /\ ReadLayers # {} => /\ Serves(ReadLayers)
                            /\ Serves({l \in ReadLayers : TypeOf(l) # "MEMORY"})
      /\ RawLayers # {} => Serves(RawLayers)

\* A mail whose Set failed leaves nothing behind, in any layer.
RefusedLeavesNothing ==
  \A id \in minted \ acked, l \in LayerIds : Over(id) => content[l][id] = "none"

\* A crash does not make such a mail unreadable either, although the cache that
\* answers first is filled anew and from the root alone, with two exceptions: a
\* file in the root that does not parse, and one that did not and was deleted
\* since (a mail that nobody was promised, then, was asked to be deleted).
ReadsSurvive ==
  loading = 0 /\ Listable(Root) /\ touched \subseteq acked =>
    \A id \in acked \ touched : Readable(id)

-----------------------------------------------------------------------------
(* Liveness *)

\* Every call comes back to its caller: no order of locks, failures and
\* deletions leaves one waiting for ever.
CallsReturn ==
  \A p \in Procs : proc[p].pc # "idle" ~> proc[p].pc = "idle"

-----------------------------------------------------------------------------
(* The inductive invariant behind Durable and ErasedStaysErased *)

\* While load runs nobody is served. A database is only filled when no mail in
\* it was promised to anybody, and only with what the root holds.
LoadInv ==
  /\ loading # 0 => \A p \in Procs : proc[p] = Idle
  /\ rows # {} =>
       /\ loading \notin {0, Root} /\ TypeOf(loading) = "SQLITE"
       /\ rows \subseteq Present(Root)
       /\ loading \in WriteLayers => acked \subseteq touched

\* Only minted ids are ever anywhere, and a root that takes no writes is empty.
OriginInv ==
  /\ acked \subseteq minted /\ known \subseteq minted /\ erased \subseteq minted
  /\ \A l \in LayerIds : Present(l) \subseteq minted
  /\ \A p \in Procs : proc[p].found \subseteq minted
  /\ Root \notin WriteLayers => Present(Root) = {}

\* Two Sets never work on the same id, nor one on an id that is acknowledged.
SetInv ==
  /\ \A p \in Procs : proc[p].pc \in SetLabels =>
       proc[p].arg \in minted \ acked /\ proc[p].route \subseteq WriteLayers
  /\ \A p, q \in Procs :
       /\ proc[p].pc \in SetLabels /\ proc[q].pc \in SetLabels
       /\ proc[p].arg = proc[q].arg
       => p = q

\* What a deletion under way may remove is touched.
TouchInv ==
  \A p \in Procs :
    /\ proc[p].pc = "delete" => proc[p].arg \in touched
    /\ proc[p].pc \in PurgeLabels => minted \subseteq touched

\* A Set leaves a complete mail in every persistent layer it is done with.
Passed(p) ==
  proc[p].pc \in SetLabels /\ proc[p].arg \notin touched =>
    \A l \in WriteLayers : Persistent(l) =>
       \/ l \in proc[p].route /\ (proc[p].pc = "verify" => ~First(proc[p].route, l))
       \/ content[l][proc[p].arg] = "whole"

PassedInv == \A p \in Procs : Passed(p)

\* A deletion leaves nothing of what it owes in any layer it is done with.
Swept(p) ==
  proc[p].pc \in PurgeLabels \cup {"delete"} =>
    /\ \A id \in proc[p].owed : Over(id)
    /\ proc[p].pc = "delete" => proc[p].owed \subseteq {proc[p].arg}
    /\ proc[p].pc = "delete" \/ ~proc[p].errs =>
         \A id \in proc[p].owed, l \in WriteLayers :
           \/ l \in proc[p].route /\ (proc[p].pc = "remove" =>
                                         ~First(proc[p].route, l) \/ id \in proc[p].todo)
           \/ content[l][id] = "none"

SweptInv == \A p \in Procs : Swept(p)

ErasedInv == ErasedStaysErased /\ \A id \in erased : Over(id)

IInv == /\ TypeOK /\ LoadInv /\ OriginInv /\ SetInv /\ TouchInv
        /\ PassedInv /\ Durable /\ SweptInv /\ ErasedInv

=============================================================================
