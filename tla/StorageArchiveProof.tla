------------------------- MODULE StorageArchiveProof -------------------------
(***************************************************************************)
(* The storage engine implements MailArchive, for any configuration whose   *)
(* first search layer is persistent and takes the writes. What IInv says of *)
(* the layers at both ends of a step leaves a step nothing to do to a mail  *)
(* that is promised or erased, so only the steps that tell a caller         *)
(* something, and those of a search, have to be looked at one by one.       *)
(* The second half is about what a caller can read by id, while the process *)
(* runs and after it starts again.                                          *)
(***************************************************************************)
EXTENDS StorageEngineSafety, StorageArchive

-----------------------------------------------------------------------------
(* What the layers hold *)

\* What the layers hold together of a mail that is promised, erased or unheard of.
HeldInv ==
  SearchesAreStored =>
    /\ Held \in [Ids -> {"absent", "partial", "whole"}]
    /\ \A id \in acked \ touched : Held[id] = "whole"
    /\ \A id \in erased : Held[id] = "absent"
    /\ \A id \in Ids \ minted : Held[id] = "absent"

\* What the engine's invariant says of the mails that are held.
LEMMA HeldFacts == IInv => HeldInv
<1> SUFFICES ASSUME SearchesAreStored, IInv PROVE HeldInv
  BY DEF HeldInv
<1>1. /\ acked \subseteq Ids /\ erased \subseteq Ids /\ WriteLayers \subseteq LayerIds
      /\ \A id \in Ids : Held[id] = HeldOf(id)
  BY Bounds DEF Held
<1>2. Held \in [Ids -> {"absent", "partial", "whole"}]
  BY DEF Held, HeldOf
<1>3. ASSUME NEW id \in acked \ touched
      PROVE  HeldOf(id) = "whole"
  BY <1>1 DEF SearchesAreStored, HeldOf, IInv, Durable
<1>4. ASSUME NEW id \in erased
      PROVE  HeldOf(id) = "absent"
  BY DEF HeldOf, IInv, ErasedInv, ErasedStaysErased
<1>5. ASSUME NEW id \in Ids \ minted
      PROVE  HeldOf(id) = "absent"
  BY <1>1 DEF HeldOf, IInv, OriginInv, Present
<1>6. QED
  BY <1>1, <1>2, <1>3, <1>4, <1>5 DEF HeldInv

\* A step that tells nobody anything only works on what is loose.
LEMMA Settles ==
  ASSUME SearchesAreStored, HeldInv, HeldInv',
         UNCHANGED <<minted, acked, known, touched, erased>>
  PROVE  Archive!Rearranged
<1>1. HeldInv' = (SearchesAreStored =>
        /\ Held' \in [Ids -> {"absent", "partial", "whole"}]
        /\ \A id \in acked' \ touched' : Held'[id] = "whole"
        /\ \A id \in erased' : Held'[id] = "absent"
        /\ \A id \in Ids \ minted' : Held'[id] = "absent")
  BY DEF HeldInv, SearchesAreStored
<1>2. \A id \in Ids \ Archive!Loose : Held'[id] = Held[id]
  BY <1>1 DEF HeldInv, Archive!Loose, Archive!Promised
<1>3. QED
  BY <1>1, <1>2 DEF Archive!Rearranged

-----------------------------------------------------------------------------
(* What the searches see *)

\* The step of p belongs to no search.
Apart(p) ==
  /\ \A q \in Procs : q # p => proc'[q] = proc[q]
  /\ proc[p].pc \notin {"search", "scan", "found"}
  /\ proc'[p].pc \notin {"search", "scan", "found"}

\* A call that is not a search changes no search's view.
LEMMA ApartSees ==
  ASSUME NEW p \in Procs, Apart(p)
  PROVE  Seen' = Seen
  BY DEF Apart, Seen, SeenBy

\* What a search knows is kept by a step that leaves it alone.
LEMMA ApartKeeps ==
  ASSUME SearchInv, NEW p \in Procs, Apart(p), acked \subseteq acked', touched \subseteq touched'
  PROVE  SearchInv'
<1>1. \A q \in Procs \ {p} : SeenBy(proc'[q]) = SeenBy(proc[q]) /\ proc'[q] = proc[q]
  BY DEF Apart
<1>2. SeenBy(proc'[p]) = {}
  BY DEF Apart, SeenBy
<1>3. QED
  BY <1>1, <1>2 DEF Apart, SearchInv, SeenBy

\* The steps of the other calls leave every search alone.
LEMMA ApartSteps ==
  ASSUME TypeOK, NEW p \in Procs, SetStep(p) \/ DeleteStep(p) \/ DeleteAllStep(p)
  PROVE  /\ Apart(p)
         /\ UNCHANGED <<minted, touched>> /\ acked \subseteq acked'
<1> USE DEF Apart, Silent
<1>1. SetFails(p) => Apart(p) /\ UNCHANGED <<minted, touched, acked>>
  BY DEF SetFails, Entered, Idle, SetLabels
<1>2. \A l : SetPasses(p, l) \/ SetFile(p, l) => Apart(p) /\ UNCHANGED <<minted, touched, acked>>
  BY DEF SetPasses, SetFile, Follows, Moved, SetLabels
<1>3. SetReturn(p) => Apart(p) /\ UNCHANGED <<minted, touched>> /\ acked \subseteq acked'
  BY ReturnFacts DEF SetReturn, Done, Entered, Idle
<1>4. DeleteFails(p) \/ DeletionReturns(p) => Apart(p) /\ UNCHANGED <<minted, touched, acked>>
  BY DEF DeleteFails, DeletionReturns, Entered, Idle, PurgeLabels
<1>5. \A l : DeletePasses(p, l) => Apart(p) /\ UNCHANGED <<minted, touched, acked>>
  BY DEF DeletePasses, Follows, Moved
<1>6. \A l : PurgePasses(p, l) \/ PurgeLists(p, l) \/ PurgeLeaves(p, l)
        => Apart(p) /\ UNCHANGED <<minted, touched, acked>>
  BY DEF PurgePasses, PurgeLists, PurgeLeaves, Follows, Moved
<1>7. \A l, id : PurgeRemoves(p, l, id) => Apart(p) /\ UNCHANGED <<minted, touched, acked>>
  BY DEF PurgeRemoves, Moved
<1>8. QED
  BY <1>1, <1>2, <1>3, <1>4, <1>5, <1>6, <1>7, SetClass, DeleteClass, PurgeClass

-----------------------------------------------------------------------------
(* The steps of a search *)

\* The layer that answers holds all that is promised and nothing that is gone.
LEMMA AnsweringLayer ==
  ASSUME SearchesAreStored, IInv, NEW l \in LayerIds, First(SearchLayers, l)
  PROVE  /\ acked \ touched \subseteq Present(l)
         /\ Present(l) \subseteq {id \in minted : Held[id] # "absent"}
<1>1. PICK m \in LayerIds : First(SearchLayers, m) /\ m \in WriteLayers /\ Persistent(m)
  BY DEF SearchesAreStored
<1>2. l = m
  BY <1>1, LayerFacts
<1>3. acked \ touched \subseteq Present(l)
  BY <1>1, <1>2, Bounds DEF IInv, Durable, Present
<1>4. ASSUME NEW id \in Present(l)
      PROVE  id \in Ids /\ id \in minted /\ Held[id] # "absent"
  BY <1>1, <1>2 DEF IInv, OriginInv, Present, Held, HeldOf
<1>5. QED
  BY <1>3, <1>4

\* The search of p lists layer l and has seen S from then on.
Looks(p, S) ==
  /\ Silent /\ content' = content
  /\ proc[p].pc = "search"
  /\ \A q \in Procs : q # p => proc'[q] = proc[q]
  /\ proc'[p].pc \in {"scan", "found"} /\ SeenBy(proc'[p]) = {S}
  /\ proc'[p].owed = proc[p].owed

\* It loads a file, ends, or fails: what it has seen stays, or is given up.
Goes(p) ==
  /\ Silent /\ content' = content
  /\ proc[p].pc = "scan"
  /\ \A q \in Procs : q # p => proc'[q] = proc[q]
  /\ proc'[p].pc \in {"scan", "found", "failed"}
  /\ \/ SeenBy(proc'[p]) = SeenBy(proc[p])
     \/ proc'[p].pc = "failed" /\ SeenBy(proc'[p]) = {}
  /\ proc'[p].owed = proc[p].owed

\* What a step of a search can find.
LEMMA SearchStepClass ==
  ASSUME TypeOK, SearchInv, NEW p \in Procs, SearchStep(p)
  PROVE  \/ \E l \in LayerIds : At(p, "search", l) /\ Looks(p, Present(l))
         \/ Goes(p) \/ SearchReturn(p)
<1> USE DEF Silent, store, boot, history
<1>0. /\ proc[p] \in Call /\ proc[p].todo \subseteq Ids
      /\ \A l \in LayerIds : Present(l) \subseteq Ids
  BY CallFacts DEF TypeOK, Present
<1>1. ASSUME NEW l \in LayerIds, SearchTable(p, l)
      PROVE  At(p, "search", l) /\ Looks(p, Present(l))
  <2>1. Moved(p, "found", proc[p].route, proc[p].todo, Present(l), proc[p].errs)
    BY <1>0, <1>1, MovePcFound, LabelFacts DEF SearchTable
  <2>2. QED
    BY <1>1, <2>1 DEF SearchTable, At, Looks, Moved, SeenBy
<1>2. ASSUME NEW l \in LayerIds, SearchGlob(p, l)
      PROVE  At(p, "search", l) /\ Looks(p, Present(l))
  <2>1. Moved(p, "scan", proc[p].route, Present(l), proc[p].found, proc[p].errs)
    BY <1>0, <1>2, MovePcTodo, LabelFacts DEF SearchGlob
  <2>2. QED
    BY <1>2, <2>1 DEF SearchGlob, At, Looks, Moved, SeenBy, SearchInv
<1>3. ASSUME NEW l \in LayerIds, NEW id \in proc[p].todo, SearchScan(p, l, id)
      PROVE  Goes(p)
  <2>1. CASE Become(p, [proc[p] EXCEPT !.todo = @ \ {id}, !.found = @ \cup {id}])
    <3>1. Moved(p, proc[p].pc, proc[p].route, proc[p].todo \ {id}, proc[p].found \cup {id},
                proc[p].errs)
      BY <1>0, <2>1, MoveTodoFound
    <3>2. QED
      BY <1>3, <3>1 DEF SearchScan, At, Goes, Moved, SeenBy
  <2>2. CASE Become(p, [proc[p] EXCEPT !.pc = "failed"])
    <3>1. Follows(p, "failed", proc[p].route)
      BY <2>2, MovePc, LabelFacts DEF Follows
    <3>2. QED
      BY <1>3, <3>1 DEF SearchScan, At, Goes, Follows, Moved, SeenBy
  <2>3. QED
    BY <1>3, <2>1, <2>2 DEF SearchScan
<1>4. CASE SearchEnd(p)
  <2>1. Follows(p, "found", proc[p].route)
    BY <1>4, MovePc, LabelFacts DEF SearchEnd, Follows
  <2>2. QED
    BY <1>4, <2>1 DEF SearchEnd, Goes, Follows, Moved, SeenBy
<1>5. QED
  BY <1>1, <1>2, <1>3, <1>4 DEF SearchStep

-----------------------------------------------------------------------------
(* SearchInv *)

\* No search is under way when the engine starts.
LEMMA SearchInvInit == Init => SearchInv
  BY DEF Init, SearchInv, SeenBy, Idle

\* A call that begins leaves the searches of other goroutines alone.
LEMMA ApartStarts ==
  ASSUME TypeOK, NEW p \in Procs,
         (\E id \in Ids : SetStart(p, id) \/ DeleteStart(p, id)) \/ DeleteAllStart(p)
  PROVE  Apart(p) /\ acked' = acked /\ touched \subseteq touched'
<1> DEFINE Begins(c) == Become(p, c) /\ c.pc \notin {"search", "scan", "found"}
<1>1. ASSUME NEW c, Begins(c), proc[p].pc = "idle"
      PROVE  Apart(p)
  BY <1>1 DEF TypeOK, Become, Apart
<1>2. ASSUME NEW id \in Ids, SetStart(p, id)
      PROVE  Apart(p) /\ acked' = acked /\ touched \subseteq touched'
  <2>1. Begins([Idle EXCEPT !.pc = "set", !.arg = id, !.route = WriteLayers])
    BY <1>2 DEF SetStart, Idle
  <2>2. QED
    BY <1>1, <1>2, <2>1 DEF SetStart, Begin
<1>3. ASSUME NEW id \in Ids, DeleteStart(p, id)
      PROVE  Apart(p) /\ acked' = acked /\ touched \subseteq touched'
  <2>1. Begins([Idle EXCEPT !.pc = "delete", !.arg = id, !.route = WriteLayers,
                            !.owed = IF Over(id) THEN {id} ELSE {}])
    BY <1>3 DEF DeleteStart, Idle
  <2>2. QED
    BY <1>1, <1>3, <2>1 DEF DeleteStart, Begin
<1>4. CASE DeleteAllStart(p)
  <2>1. Begins([Idle EXCEPT !.pc = "deleteAll", !.route = WriteLayers,
                            !.owed = {id \in minted : Over(id)}])
    BY <1>4 DEF DeleteAllStart, Idle
  <2>2. QED
    BY <1>1, <1>4, <2>1 DEF DeleteAllStart, Begin
<1>5. QED
  BY <1>2, <1>3, <1>4

\* A search begins: it has seen nothing yet.
LEMMA SearchBegins ==
  ASSUME TypeOK, NEW p \in Procs, SearchStart(p)
  PROVE  /\ Silent /\ content' = content
         /\ \A q \in Procs : q # p => proc'[q] = proc[q]
         /\ proc[p].pc = "idle"
         /\ proc'[p].pc = "search" /\ proc'[p].route = SearchLayers
         /\ proc'[p].found = {} /\ proc'[p].owed = acked \ touched
  BY DEF SearchStart, Begin, Become, Idle, TypeOK, Silent, store, boot, history

\* Each step of the engine keeps what is known of the searches.
LEMMA SearchInvNext ==
  SearchesAreStored /\ IInv /\ SearchInv /\ [Next]_vars => SearchInv'
<1> SUFFICES ASSUME SearchesAreStored, IInv, SearchInv, [Next]_vars
             PROVE  SearchInv'
  OBVIOUS
<1>0. TypeOK
  BY DEF IInv
<1>1. ASSUME NEW p \in Procs, Start(p), ~SearchStart(p)
      PROVE  SearchInv'
  BY <1>0, <1>1, ApartStarts, ApartKeeps DEF Start
<1>2. ASSUME NEW p \in Procs, SearchStart(p)
      PROVE  SearchInv'
  <2>1. SeenBy(proc'[p]) = {}
    BY <1>0, <1>2, SearchBegins DEF SeenBy
  <2>2. QED
    BY <1>0, <1>2, <2>1, SearchBegins DEF SearchInv, Silent, SeenBy
<1>3. ASSUME NEW p \in Procs, SetStep(p) \/ DeleteStep(p) \/ DeleteAllStep(p)
      PROVE  SearchInv'
  BY <1>0, <1>3, ApartSteps, ApartKeeps
<1>4. ASSUME NEW p \in Procs, SearchStep(p)
      PROVE  SearchInv'
  <2>1. ASSUME NEW l \in LayerIds, At(p, "search", l), Looks(p, Present(l))
        PROVE  SearchInv'
    <3>1. acked \ touched \subseteq Present(l)
      BY <2>1, AnsweringLayer DEF At, SearchInv
    <3>2. QED
      BY <2>1, <3>1 DEF Looks, Silent, SearchInv, SeenBy
  <2>2. CASE Goes(p)
    BY <2>2 DEF Goes, Silent, SearchInv, SeenBy
  <2>3. CASE SearchReturn(p)
    <3>1. /\ proc'[p] = Idle /\ \A q \in Procs : q # p => proc'[q] = proc[q]
          /\ acked' = acked /\ touched' = touched
      BY <1>0, <2>3, ReturnFacts DEF SearchReturn, Entered
    <3>2. QED
      BY <3>1 DEF SearchInv, SeenBy, Idle
  <2>4. QED
    BY <1>0, <1>4, <2>1, <2>2, <2>3, SearchStepClass
<1>5. CASE LoadStep \/ Crash
  <2>1. \A p \in Procs : proc'[p] = proc[p] \/ proc'[p] = Idle
    BY <1>5 DEF LoadStep, LoadNothing, LoadMemory, LoadSqlite, LoadRow, Crash
  <2>2. acked' = acked /\ touched' = touched
    BY <1>5 DEF LoadStep, LoadNothing, LoadMemory, LoadSqlite, LoadRow, Crash, history
  <2>3. QED
    BY <2>1, <2>2 DEF SearchInv, SeenBy, Idle
<1>6. CASE UNCHANGED vars
  BY <1>6 DEF vars, history, SearchInv, SeenBy
<1>7. QED
  BY <1>1, <1>2, <1>3, <1>4, <1>5, <1>6 DEF Next, Step

-----------------------------------------------------------------------------
(* Every step is one of the archive *)

\* What is held depends on the layers' content alone.
LEMMA SameHeld == content' = content => Held' = Held
  BY DEF Held, HeldOf

\* A call that begins is one of the archive's steps, or none.
LEMMA StartIsArchived ==
  ASSUME IInv, NEW p \in Procs, Start(p)
  PROVE  [Archive!Next]_(Archive!vars)
<1>0. TypeOK /\ known \subseteq Ids /\ minted \subseteq Ids
  BY Bounds DEF IInv, TypeOK
<1>1. ASSUME NEW id \in Ids, SetStart(p, id)
      PROVE  Archive!Offer(id)
  <2>1. Seen' = Seen /\ Held' = Held
    BY <1>0, <1>1, ApartStarts, ApartSees, SameHeld DEF SetStart, store
  <2>2. QED
    BY <1>1, <2>1 DEF SetStart, Archive!Offer
<1>2. ASSUME NEW id \in Ids, DeleteStart(p, id)
      PROVE  Archive!Condemn({id})
  <2>1. Seen' = Seen /\ Held' = Held
    BY <1>0, <1>2, ApartStarts, ApartSees, SameHeld DEF DeleteStart, store
  <2>2. QED
    BY <1>2, <2>1 DEF DeleteStart, Archive!Condemn
<1>3. CASE DeleteAllStart(p)
  <2>1. Seen' = Seen /\ Held' = Held
    BY <1>0, <1>3, ApartStarts, ApartSees, SameHeld DEF DeleteAllStart, store
  <2>2. Archive!Condemn(minted)
    BY <1>3, <2>1 DEF DeleteAllStart, Archive!Condemn
  <2>3. QED
    BY <1>0, <2>2 DEF Archive!Next
<1>4. CASE SearchStart(p)
  <2>1. Seen' = Seen /\ Held' = Held
    <3>1. \A q \in Procs : SeenBy(proc'[q]) = SeenBy(proc[q])
      BY <1>0, <1>4, SearchBegins DEF SeenBy
    <3>2. QED
      BY <1>0, <1>4, <3>1, SearchBegins, SameHeld DEF Seen
  <2>2. QED
    BY <1>0, <1>4, <2>1, SearchBegins DEF Silent, Archive!vars
<1>5. QED
  BY <1>1, <1>2, <1>3, <1>4 DEF Start, Archive!Next

\* A step of a Set or of a deletion works, keeps the mail or confirms.
LEMMA ApartIsArchived ==
  ASSUME SearchesAreStored, IInv, HeldInv, HeldInv',
         NEW p \in Procs, SetStep(p) \/ DeleteStep(p) \/ DeleteAllStep(p)
  PROVE  [Archive!Next]_(Archive!vars)
<1>0. TypeOK /\ Seen' = Seen
  BY ApartSteps, ApartSees DEF IInv
<1>1. CASE Silent
  BY <1>0, <1>1, Settles DEF Silent, Archive!Work, Archive!Next
<1>2. CASE SetReturn(p)
  <2>1. /\ proc[p].arg \in minted \ acked /\ proc[p].arg \in Ids
        /\ content' = content /\ Passed(p) /\ proc[p].pc = "set" /\ proc[p].route = {}
    BY <1>2, Bounds DEF SetReturn, Done, store, IInv, PassedInv, SetLabels
  <2>2. ASSUME proc[p].arg \notin touched
        PROVE  Held[proc[p].arg] = "whole"
    BY <2>1, <2>2 DEF Passed, SetLabels, SearchesAreStored, Held, HeldOf
  <2>3. Archive!Keep(proc[p].arg)
    BY <1>0, <1>2, <2>1, <2>2, SameHeld DEF SetReturn, Archive!Keep
  <2>4. QED
    BY <2>1, <2>3 DEF Archive!Next
<1>3. CASE DeletionReturns(p)
  <2>1. CASE erased' = erased
    BY <1>1, <1>3, <2>1 DEF DeletionReturns, Silent
  <2>2. CASE erased' = erased \cup proc[p].owed /\ (proc[p].pc \in PurgeLabels => ~proc[p].errs)
    <3>1. /\ proc[p].owed \subseteq touched /\ proc[p].owed \subseteq Ids
          /\ \A id \in proc[p].owed, l \in WriteLayers : content[l][id] = "none"
      BY <1>3, <2>2, Bounds
         DEF DeletionReturns, IInv, SweptInv, Swept, TouchInv, PurgeLabels
    <3>2. Archive!Erase(proc[p].owed)
      BY <1>0, <1>3, <2>2, <3>1, SameHeld
         DEF DeletionReturns, Held, HeldOf, Archive!Erase
    <3>3. QED
      BY <3>1, <3>2 DEF Archive!Next
  <2>3. QED
    BY <1>3, <2>1, <2>2 DEF DeletionReturns
<1>4. QED
  BY <1>0, <1>1, <1>2, <1>3, SetClass, DeleteClass, PurgeClass
     DEF SetFails, SetPasses, SetFile, DeleteFails, DeletePasses,
         PurgePasses, PurgeLists, PurgeLeaves, PurgeRemoves

\* A step of a search is one of the archive's steps, or none.
LEMMA SearchIsArchived ==
  ASSUME SearchesAreStored, IInv, SearchInv, NEW p \in Procs, SearchStep(p)
  PROVE  [Archive!Next]_(Archive!vars)
<1>0. /\ TypeOK
      /\ \A l \in LayerIds : Present(l) \in SUBSET Ids
      /\ proc[p].found \in SUBSET Ids
  BY CallFacts DEF IInv, TypeOK, Present
<1>1. ASSUME NEW l \in LayerIds, At(p, "search", l), Looks(p, Present(l))
      PROVE  Archive!Look(p, Present(l))
  <2>1. /\ acked \ touched \subseteq Present(l)
        /\ Present(l) \subseteq {id \in minted : Held[id] # "absent"}
    BY <1>1, AnsweringLayer DEF At, SearchInv
  <2>2. Seen' = [Seen EXCEPT ![p] = {Present(l)}] /\ Seen[p] = {}
    BY <1>1 DEF Looks, Seen, SeenBy
  <2>3. QED
    BY <1>1, <2>1, <2>2, SameHeld
       DEF Looks, Silent, Archive!Look, Archive!Promised
<1>2. CASE Goes(p)
  <2>1. Seen' = Seen \/ Seen' = [Seen EXCEPT ![p] = {}]
    BY <1>2 DEF Goes, Seen
  <2>2. UNCHANGED Archive!vars \/ Archive!Fail(p)
    BY <1>2, <2>1, SameHeld DEF Goes, Silent, Archive!vars, Archive!Fail
  <2>3. QED
    BY <2>2 DEF Archive!Next
<1>3. CASE SearchReturn(p)
  <2>1. Seen' = [Seen EXCEPT ![p] = {}]
    <3>1. proc'[p] = Idle /\ \A q \in Procs : q # p => proc'[q] = proc[q]
      BY <1>0, <1>3, ReturnFacts DEF SearchReturn, Entered
    <3>2. SeenBy(Idle) = {}
      BY DEF SeenBy, Idle
    <3>3. QED
      BY <3>1, <3>2 DEF Seen
  <2>2. CASE proc[p].pc = "found"
    <3>1. Seen[p] = {proc[p].found}
      BY <2>2 DEF Seen, SeenBy
    <3>2. Archive!Answer(p, proc[p].found)
      BY <1>3, <2>1, <2>2, <3>1, SameHeld DEF SearchReturn, store, Archive!Answer
    <3>3. QED
      BY <1>0, <3>2 DEF Archive!Next
  <2>3. CASE proc[p].pc # "found"
    <3>1. Archive!Fail(p)
      BY <1>3, <2>1, <2>3, SameHeld DEF SearchReturn, store, Archive!Fail
    <3>2. QED
      BY <3>1 DEF Archive!Next
  <2>4. QED
    BY <2>2, <2>3
<1>4. QED
  BY <1>0, <1>1, <1>2, <1>3, SearchStepClass DEF Archive!Next

\* Each step of the engine is one of the archive's, or none.
LEMMA NextIsArchived ==
  SearchesAreStored /\ IInv /\ HeldInv /\ HeldInv' /\ SearchInv /\ [Next]_vars
    => [Archive!Next]_(Archive!vars)
<1> SUFFICES ASSUME SearchesAreStored, IInv, HeldInv, HeldInv', SearchInv, [Next]_vars
             PROVE  [Archive!Next]_(Archive!vars)
  OBVIOUS
<1>1. ASSUME NEW p \in Procs, Start(p) \/ Step(p)
      PROVE  [Archive!Next]_(Archive!vars)
  BY <1>1, StartIsArchived, ApartIsArchived, SearchIsArchived DEF Step
<1>2. CASE LoadStep
  <2>1. proc' = proc /\ UNCHANGED history
    BY <1>2 DEF LoadStep, LoadNothing, LoadMemory, LoadSqlite, LoadRow
  <2>2. Seen' = Seen
    BY <2>1 DEF Seen, SeenBy
  <2>3. QED
    BY <2>1, <2>2, Settles DEF history, Archive!Work, Archive!Next
<1>3. CASE Crash
  <2>1. Seen' = [p \in Procs |-> {}]
    BY <1>3 DEF Crash, Seen, SeenBy, Idle
  <2>2. QED
    BY <1>3, <2>1, Settles DEF Crash, history, Archive!Stop, Archive!Next
<1>4. CASE UNCHANGED vars
  BY <1>4, SameHeld DEF vars, store, history, Seen, SeenBy, Archive!vars
<1>5. QED
  BY <1>1, <1>2, <1>3, <1>4 DEF Next

\* The engine starts as the archive does.
LEMMA InitIsArchived == Init => Archive!Init
<1> SUFFICES ASSUME Init PROVE Archive!Init
  OBVIOUS
<1>1. SeenBy(Idle) = {}
  BY DEF SeenBy, Idle
<1>2. Seen = [p \in Procs |-> {}]
  BY <1>1 DEF Init, Seen
<1>3. Held = [id \in Ids |-> "absent"]
  <2>1. ASSUME NEW id \in Ids, NEW l \in WriteLayers
        PROVE  content[l][id] = "none"
    BY LayerFacts DEF Init
  <2>2. QED
    BY <2>1 DEF Held, HeldOf
<1>4. QED
  BY <1>2, <1>3 DEF Init, Archive!Init

\* engine.go with its layers implements the archive: what callers are told of
\* kept, found and erased mails is what one archive without layers would tell
\* them, whatever runs side by side, fails or is restarted.
THEOREM ImplementsArchive ==
  ASSUME SearchesAreStored
  PROVE  Spec => ArchiveSpec
<1>1. Init => SearchInv /\ Archive!Init
  BY SearchInvInit, InitIsArchived
<1>2. IInv /\ SearchInv /\ [Next]_vars => SearchInv'
  BY SearchInvNext
<1>3. IInv /\ HeldInv /\ HeldInv' /\ SearchInv /\ [Next]_vars => [Archive!Next]_(Archive!vars)
  BY NextIsArchived
<1>4. QED
  BY <1>1, <1>2, <1>3, InductiveInvariant, HeldFacts, PTL DEF Spec, ArchiveSpec, Archive!Spec

\* A search of engine.go that ends well lists every mail that was acknowledged
\* before it began and that nobody asked to delete before it ended.
THEOREM SearchCompleteHolds ==
  ASSUME SearchesAreStored
  PROVE  Spec => []SearchComplete
<1>1. SearchInv => SearchComplete
  BY DEF SearchInv, SearchComplete, SeenBy
<1>2. IInv /\ SearchInv /\ [Next]_vars => SearchInv'
  BY SearchInvNext
<1>3. QED
  BY <1>1, <1>2, SearchInvInit, InductiveInvariant, PTL DEF Spec

-----------------------------------------------------------------------------
(***************************************************************************)
(* ReadsServe and ReadsSurvive hold in every behaviour of the engine, for   *)
(* any layers whose read path is given every mail. Durable speaks of the    *)
(* persistent layers only, so the invariant is carried once more for the    *)
(* MEMORY layers. They hold what is promised as long as nothing empties     *)
(* them; a start fills them again from the root alone, and it leaves them   *)
(* empty only if the root has a file that does not parse. Such a file was   *)
(* left by a Set that failed, so there is a mail nobody was promised to     *)
(* show for it, and it stays one: that is Doubt, and the caches are sure    *)
(* whenever there is none.                                                  *)
(***************************************************************************)

\* Set was accepted by a layer only if the mail parses, and returns only then.
Parsed ==
  WriteLayers # {} =>
    /\ acked \cap Malformed = {}
    /\ \A p \in Procs : proc[p].pc \in SetLabels /\ proc[p].route # WriteLayers =>
         proc[p].arg \notin Malformed

\* A file of the root that a start cannot list.
Spoilt(id) ==
  TypeOf(Root) = "FILESYSTEM" /\ content[Root][id] # "none" /\ ~Loads(Root, id)

\* Set leaves no such file behind in a root it is done with.
CleanInv ==
  \A id \in Ids : Spoilt(id) =>
    id \notin acked /\ \A p \in Procs : Setting(p, id) => Root \in proc[p].route

\* A mail nobody was promised left such a file, or somebody asked to delete it.
Doubt == \E id \in minted \ acked : Over(id) /\ (id \in touched \/ Spoilt(id))

Sure == MaxCrashes = 0 \/ (Root \in WriteLayers /\ Persistent(Root) /\ ~Doubt)

\* Passed and Durable for every writable layer, the MEMORY ones included, but
\* for those that load has yet to visit.
Given(p) ==
  proc[p].pc \in SetLabels /\ proc[p].arg \notin touched =>
    \A l \in WriteLayers :
       \/ l \in proc[p].route /\ (proc[p].pc = "verify" => ~First(proc[p].route, l))
       \/ content[l][proc[p].arg] = "whole"

Served ==
  \A id \in acked \ touched, l \in WriteLayers : l > loading => content[l][id] = "whole"

KeptInv == Served /\ \A p \in Procs : Given(p)

ServingInv ==
  /\ Parsed /\ CleanInv
  /\ MaxCrashes = 0 => loading = 0
  /\ Sure => KeptInv

\* Doubt once raised stays: the mail is not taken up again, and its file is left
\* alone unless somebody asks for its deletion.
LEMMA DoubtStays ==
  ASSUME minted \subseteq minted', touched \subseteq touched',
         \A id \in minted \ acked : Over(id) =>
           /\ id \notin acked' /\ Over(id)'
           /\ content'[Root][id] = content[Root][id] \/ id \in touched'
  PROVE  Sure' => Sure
<1>1. ASSUME NEW id \in minted \ acked, Over(id), id \in touched \/ Spoilt(id)
      PROVE  id \in minted' \ acked' /\ Over(id)' /\ (id \in touched' \/ Spoilt(id)')
  BY <1>1 DEF Spoilt, Loads
<1>2. Doubt => Doubt'
  BY <1>1 DEF Doubt
<1>3. QED
  BY <1>2 DEF Sure

-----------------------------------------------------------------------------
(* Steps that are no Set *)

\* A step of the others leaves every Set where it is and removes only mails
\* whose deletion was asked for.
Aside(p) ==
  /\ UNCHANGED <<loading, minted, acked>> /\ touched \subseteq touched'
  /\ proc[p].pc \notin SetLabels /\ proc'[p].pc \notin SetLabels
  /\ \A q \in Procs : q # p => proc'[q] = proc[q]
  /\ \A l \in LayerIds, id \in Ids :
       \/ content'[l][id] = content[l][id]
       \/ content'[l][id] = "none" /\ id \in touched

LEMMA AsideServing ==
  ASSUME IInv, ServingInv, NEW p \in Procs, Aside(p)
  PROVE  ServingInv'
<1>1. \A q \in Procs : proc'[q].pc \in SetLabels =>
         proc'[q] = proc[q] /\ proc[q].arg \in Ids
  BY Bounds DEF Aside
<1>2. Parsed'
  BY <1>1 DEF ServingInv, Parsed, Aside
<1>3. \A id \in Ids : \/ content'[Root][id] = content[Root][id]
                      \/ content'[Root][id] = "none" /\ id \in touched'
  BY Bounds DEF Aside
<1>4. CleanInv'
  <2>1. ASSUME NEW id \in Ids, Spoilt(id)'
        PROVE  Spoilt(id)
    BY <1>3, <2>1 DEF Spoilt, Loads
  <2>2. ASSUME NEW q \in Procs, NEW id, Setting(q, id)'
        PROVE  Setting(q, id) /\ proc'[q] = proc[q]
    BY <1>1, <2>2 DEF Setting
  <2>3. QED
    BY <2>1, <2>2 DEF ServingInv, CleanInv, Aside
<1>5. Sure' => Sure
  <2>1. ASSUME NEW id \in minted \ acked, Over(id)
        PROVE  Over(id)'
    BY <2>1 DEF Over, Setting, Aside
  <2>2. QED
    BY <1>3, <2>1, Bounds, DoubtStays DEF Aside
<1>6. ASSUME Sure' PROVE KeptInv'
  <2>1. KeptInv
    BY <1>5, <1>6 DEF ServingInv
  <2>2. \A id \in Ids, l \in WriteLayers :
           id \notin touched' => content'[l][id] = content[l][id]
    BY Bounds DEF Aside
  <2>3. Served'
    BY <2>1, <2>2, Bounds DEF KeptInv, Served, Aside
  <2>4. ASSUME NEW q \in Procs PROVE Given(q)'
    BY <1>1, <2>1, <2>2 DEF KeptInv, Given, Aside
  <2>5. QED
    BY <2>3, <2>4 DEF KeptInv
<1>7. QED
  BY <1>2, <1>4, <1>6 DEF ServingInv, Aside

LEMMA DeletionAside ==
  ASSUME IInv, NEW p \in Procs, DeleteStep(p) \/ DeleteAllStep(p)
  PROVE  Aside(p)
<1> USE DEF Silent, Aside, SetLabels
<1>1. /\ proc[p].pc = "delete" => proc[p].arg \in touched /\ proc[p].arg \in Ids
      /\ proc[p].pc \in PurgeLabels => minted \subseteq touched
      /\ \A l \in LayerIds, id \in Ids : content[l][id] = "none" \/ id \in minted
  BY DEF IInv, TypeOK, OriginInv, TouchInv, Present
<1>2. CASE DeleteFails(p) \/ DeletionReturns(p)
  <2>1. /\ UNCHANGED <<content, loading, minted, acked, touched>>
        /\ Entered(p, Idle) /\ proc[p].pc \notin SetLabels
    BY <1>2 DEF DeleteFails, DeletionReturns, PurgeLabels
  <2>2. QED
    BY <2>1, IdleFacts DEF Entered
<1>3. ASSUME NEW l \in LayerIds, DeletePasses(p, l)
      PROVE  Aside(p)
  BY <1>1, <1>3 DEF DeletePasses, Follows, Moved, Put, IInv, TypeOK
<1>4. ASSUME NEW l \in LayerIds, PurgePasses(p, l)
      PROVE  Aside(p)
  <2>1. /\ UNCHANGED <<loading, minted, acked, touched>>
        /\ proc[p].pc = "deleteAll" /\ proc'[p].pc = "deleteAll" /\ minted \subseteq touched
        /\ \A q \in Procs : q # p => proc'[q] = proc[q]
    BY <1>1, <1>4 DEF PurgePasses, Follows, Moved, PurgeLabels
  <2>2. \/ content' = content
        \/ \A m \in LayerIds, id \in Ids :
             content'[m][id] = IF m = l THEN "none" ELSE content[m][id]
    <3>1. \/ content' = content
          \/ content' = [content EXCEPT ![l] = [id \in Ids |-> "none"]]
      BY <1>4 DEF PurgePasses
    <3>2. content \in [LayerIds -> [Ids -> Statuses]]
      BY DEF IInv, TypeOK
    <3>3. QED
      BY <3>1, <3>2
  <2>3. ASSUME NEW m \in LayerIds, NEW id \in Ids
        PROVE  \/ content'[m][id] = content[m][id]
               \/ content'[m][id] = "none" /\ id \in touched
    BY <1>1, <2>1, <2>2
  <2>4. QED
    BY <2>1, <2>3
<1>5. ASSUME NEW l \in LayerIds, PurgeLists(p, l) \/ PurgeLeaves(p, l)
      PROVE  Aside(p)
  BY <1>5 DEF PurgeLists, PurgeLeaves, Follows, Moved
<1>6. ASSUME NEW l \in LayerIds, NEW x \in Ids, PurgeRemoves(p, l, x)
      PROVE  Aside(p)
  <2>1. /\ UNCHANGED <<loading, minted, acked, touched>>
        /\ proc[p].pc = "remove" /\ proc'[p].pc = "remove" /\ minted \subseteq touched
        /\ \A q \in Procs : q # p => proc'[q] = proc[q]
    BY <1>1, <1>6 DEF PurgeRemoves, Moved, PurgeLabels
  <2>2. \/ content' = content
        \/ \A m \in LayerIds, id \in Ids :
             content'[m][id] = IF m = l /\ id = x THEN "none" ELSE content[m][id]
    <3>1. content' = content \/ content' = [content EXCEPT ![l][x] = "none"]
      BY <1>6 DEF PurgeRemoves, Put
    <3>2. content \in [LayerIds -> [Ids -> Statuses]]
      BY DEF IInv, TypeOK
    <3>3. QED
      BY <3>1, <3>2
  <2>3. ASSUME NEW m \in LayerIds, NEW id \in Ids
        PROVE  \/ content'[m][id] = content[m][id]
               \/ content'[m][id] = "none" /\ id \in touched
    BY <1>1, <2>1, <2>2
  <2>4. QED
    BY <2>1, <2>3
<1>7. QED
  BY <1>2, <1>3, <1>4, <1>5, <1>6, DeleteClass, PurgeClass DEF IInv

LEMMA SearchAside ==
  ASSUME IInv, NEW p \in Procs, SearchStep(p)
  PROVE  Aside(p)
<1>1. CASE SearchMoves(p)
  BY <1>1 DEF SearchMoves, Silent, Moved, Aside, SetLabels
<1>2. CASE SearchReturns(p)
  <2>1. proc[p].pc \notin SetLabels
    BY DEF SearchStep, SearchTable, SearchGlob, SearchScan, SearchEnd, SearchReturn,
           At, SetLabels
  <2>2. QED
    BY <1>2, <2>1 DEF SearchReturns, Entered, Idle, Aside, SetLabels
<1>3. QED
  BY <1>1, <1>2, SearchClass DEF IInv

\* How a call begins.
Opens(p) ==
  /\ UNCHANGED <<content, lock, loading, acked, known>>
  /\ minted \subseteq minted' /\ touched \subseteq touched'
  /\ proc[p].pc = "idle" /\ proc'[p].found = {}
  /\ \A q \in Procs : q # p => proc'[q] = proc[q]
  /\ \/ /\ proc'[p].pc = "set" /\ proc'[p].route = WriteLayers
        /\ proc'[p].arg \in Ids \ minted /\ minted' = minted \cup {proc'[p].arg}
     \/ /\ minted' = minted
        /\ \/ /\ proc'[p].pc = "delete" /\ proc'[p].route = WriteLayers
              /\ proc'[p].arg \in known
           \/ proc'[p].pc = "deleteAll" /\ "DeleteAllEmails" \in Workload
           \/ proc'[p].pc = "search" /\ proc'[p].route = SearchLayers

LEMMA StartOpens ==
  ASSUME TypeOK, NEW p \in Procs, Start(p)
  PROVE  Opens(p)
<1> USE DEF store, boot, history, Begin
<1>0. ASSUME NEW c, Become(p, c)
      PROVE  proc'[p] = c /\ \A q \in Procs : q # p => proc'[q] = proc[q]
  BY <1>0 DEF Become, TypeOK
<1>1. ASSUME NEW x \in Ids, SetStart(p, x)
      PROVE  Opens(p)
  <2> DEFINE c == [Idle EXCEPT !.pc = "set", !.arg = x, !.route = WriteLayers]
  <2>1. c.pc = "set" /\ c.arg = x /\ c.route = WriteLayers /\ c.found = {}
    BY DEF Idle
  <2>2. Become(p, c)
    BY <1>1 DEF SetStart
  <2>3. QED
    BY <1>0, <1>1, <2>1, <2>2 DEF SetStart, Opens
<1>2. ASSUME NEW x \in Ids, DeleteStart(p, x)
      PROVE  Opens(p)
  <2> DEFINE c == [Idle EXCEPT !.pc = "delete", !.arg = x, !.route = WriteLayers,
                               !.owed = IF Over(x) THEN {x} ELSE {}]
  <2>1. c.pc = "delete" /\ c.arg = x /\ c.route = WriteLayers /\ c.found = {}
    BY DEF Idle
  <2>2. Become(p, c)
    BY <1>2 DEF DeleteStart
  <2>3. QED
    BY <1>0, <1>2, <2>1, <2>2 DEF DeleteStart, Opens
<1>3. CASE DeleteAllStart(p)
  <2> DEFINE c == [Idle EXCEPT !.pc = "deleteAll", !.route = WriteLayers,
                               !.owed = {id \in minted : Over(id)}]
  <2>1. c.pc = "deleteAll" /\ c.found = {}
    BY DEF Idle
  <2>2. Become(p, c)
    BY <1>3 DEF DeleteAllStart
  <2>3. QED
    BY <1>0, <1>3, <2>1, <2>2 DEF DeleteAllStart, Opens
<1>4. CASE SearchStart(p)
  <2> DEFINE c == [Idle EXCEPT !.pc = "search", !.route = SearchLayers,
                               !.owed = acked \ touched]
  <2>1. c.pc = "search" /\ c.route = SearchLayers /\ c.found = {}
    BY DEF Idle
  <2>2. Become(p, c)
    BY <1>4 DEF SearchStart
  <2>3. QED
    BY <1>0, <1>4, <2>1, <2>2 DEF SearchStart, Opens
<1>5. QED
  BY <1>1, <1>2, <1>3, <1>4 DEF Start

LEMMA StartServing ==
  ASSUME IInv, ServingInv, NEW p \in Procs, Start(p)
  PROVE  ServingInv'
<1>1. /\ UNCHANGED <<content, loading, acked>>
      /\ touched \subseteq touched' /\ minted \subseteq minted'
      /\ \A q \in Procs : q # p => proc'[q] = proc[q]
      /\ proc'[p].pc \in SetLabels => /\ proc'[p].pc = "set" /\ proc'[p].route = WriteLayers
                                      /\ proc'[p].arg \in Ids \ minted
  BY StartOpens DEF Opens, SetLabels, IInv
<1>2. Parsed'
  BY <1>1 DEF ServingInv, Parsed
<1>3. \A id : Spoilt(id)' = Spoilt(id)
  BY <1>1 DEF Spoilt, Loads
<1>4. CleanInv'
  <2>1. ASSUME NEW id \in Ids, Spoilt(id), NEW q \in Procs, Setting(q, id)'
        PROVE  Setting(q, id) /\ proc'[q] = proc[q]
    <3>1. id \in minted
      BY <2>1, LayerFacts DEF Spoilt, IInv, OriginInv, Present
    <3>2. q # p
      BY <1>1, <2>1, <3>1 DEF Setting
    <3>3. QED
      BY <1>1, <2>1, <3>2 DEF Setting
  <2>2. QED
    BY <1>1, <1>3, <2>1 DEF ServingInv, CleanInv
<1>5. Sure' => Sure
  <2>1. ASSUME NEW id \in minted \ acked, Over(id)
        PROVE  Over(id)'
    BY <1>1, <2>1 DEF Over, Setting
  <2>2. QED
    BY <1>1, <2>1, DoubtStays
<1>6. ASSUME Sure' PROVE KeptInv'
  <2>1. KeptInv
    BY <1>5, <1>6 DEF ServingInv
  <2>2. \A q \in Procs : Given(q)'
    BY <1>1, <2>1 DEF KeptInv, Given
  <2>3. QED
    BY <1>1, <2>1, <2>2 DEF KeptInv, Served
<1>7. QED
  BY <1>1, <1>2, <1>4, <1>6 DEF ServingInv

-----------------------------------------------------------------------------
(* Steps of a Set *)

\* Another goroutine's claim, and what is acknowledged, survive a step in a Set.
LEMMA InSetServing ==
  ASSUME IInv, ServingInv, NEW p \in Procs, InSet(p), KeptInv => Given(p)',
         proc'[p].pc \in SetLabels /\ proc'[p].route # WriteLayers =>
            proc[p].arg \notin Malformed,
         proc'[p].pc \in SetLabels /\ Spoilt(proc[p].arg)' => Root \in proc'[p].route
  PROVE  ServingInv'
<1>1. /\ UNCHANGED <<loading, acked, minted, touched>>
      /\ \A q \in Procs : q # p => proc'[q] = proc[q]
      /\ proc'[p].pc \in SetLabels => proc'[p].arg = proc[p].arg
      /\ proc[p].arg \in minted \ acked
  BY IdleFacts, Bounds DEF InSet, Silent, SetLabels
<1>2. Parsed'
  BY <1>1 DEF ServingInv, Parsed
<1>3. \A l \in LayerIds, id \in Ids : id # proc[p].arg => content'[l][id] = content[l][id]
  BY DEF InSet
<1>4. CleanInv'
  <2>1. ASSUME NEW id \in Ids, id # proc[p].arg
        PROVE  Spoilt(id)' = Spoilt(id)
    BY <1>3, <2>1, LayerFacts DEF Spoilt, Loads
  <2>2. ASSUME NEW id \in Ids, NEW q \in Procs, Setting(q, id)', Spoilt(id)'
        PROVE  Root \in proc'[q].route
    <3>1. CASE q = p
      BY <1>1, <2>2, <3>1 DEF Setting
    <3>2. CASE q # p
      <4>1. Setting(q, id) /\ proc'[q] = proc[q]
        BY <1>1, <2>2, <3>2 DEF Setting
      <4>2. id # proc[p].arg
        BY <3>2, <4>1 DEF InSet, Setting, IInv, SetInv
      <4>3. QED
        BY <2>1, <2>2, <4>1, <4>2 DEF ServingInv, CleanInv
    <3>3. QED
      BY <3>1, <3>2
  <2>3. QED
    BY <1>1, <2>1, <2>2 DEF ServingInv, CleanInv
<1>5. Sure' => Sure
  <2>1. ASSUME NEW id \in minted \ acked, Over(id)
        PROVE  Over(id)' /\ content'[Root][id] = content[Root][id]
    <3>1. id \in Ids /\ id # proc[p].arg
      BY <2>1, Bounds DEF Over, Setting, InSet
    <3>2. Over(id)'
      BY <2>1, <3>1, InSetNoNewSet, StillOver
    <3>3. QED
      BY <1>3, <3>1, <3>2, LayerFacts
  <2>2. QED
    BY <1>1, <2>1, DoubtStays
<1>6. ASSUME Sure' PROVE KeptInv'
  <2>1. KeptInv
    BY <1>5, <1>6 DEF ServingInv
  <2>2. Served'
    <3>1. \A id \in acked, l \in WriteLayers : content'[l][id] = content[l][id]
      BY Bounds DEF InSet
    <3>2. QED
      BY <1>1, <2>1, <3>1 DEF KeptInv, Served
  <2>3. ASSUME NEW q \in Procs, q # p
        PROVE  Given(q)'
    <3>1. CASE proc[q].pc \in SetLabels
      <4>1. proc[q].arg \in Ids /\ proc[q].arg # proc[p].arg
        BY <2>3, <3>1, Bounds DEF InSet, IInv, SetInv
      <4>2. \A l \in WriteLayers : content'[l][proc[q].arg] = content[l][proc[q].arg]
        BY <4>1, Bounds DEF InSet
      <4>3. QED
        BY <1>1, <2>1, <2>3, <4>2 DEF KeptInv, Given
    <3>2. QED
      BY <2>3, <3>1 DEF InSet, Given
  <2>4. QED
    BY <2>1, <2>2, <2>3 DEF KeptInv
<1>7. QED
  BY <1>1, <1>2, <1>4, <1>6 DEF ServingInv

LEMMA SetIsInSet ==
  ASSUME IInv, NEW p \in Procs, SetStep(p), ~SetReturn(p)
  PROVE  InSet(p)
<1>1. proc[p].pc \in SetLabels => /\ proc[p].arg \in Ids
                                 /\ proc[p].route \subseteq WriteLayers
  BY Bounds DEF IInv, SetInv
<1>2. CASE SetFails(p)
  BY <1>1, <1>2, Bounds DEF SetFails, Entered, InSet, Put, IInv, TypeOK
<1>3. ASSUME NEW l \in LayerIds, SetPasses(p, l)
      PROVE  InSet(p)
  <2>1. l \in WriteLayers
    BY <1>1, <1>3 DEF SetPasses, First
  <2>2. QED
    BY <1>1, <1>3, <2>1, Bounds
       DEF SetPasses, Follows, Moved, InSet, Put, IInv, TypeOK, SetLabels
<1>4. ASSUME NEW l \in LayerIds, SetFile(p, l)
      PROVE  InSet(p)
  <2>1. l \in WriteLayers
    BY <1>1, <1>4 DEF SetFile, First
  <2>2. QED
    BY <1>1, <1>4, <2>1, Bounds
       DEF SetFile, Follows, Moved, InSet, Put, IInv, TypeOK, SetLabels
<1>5. QED
  BY <1>2, <1>3, <1>4, SetClass DEF IInv

LEMMA SetServing ==
  ASSUME IInv, ServingInv, NEW p \in Procs, SetStep(p), ~SetReturn(p)
  PROVE  ServingInv'
<1>1. proc[p].pc \in SetLabels => /\ proc[p].arg \in Ids
                                 /\ proc[p].route \subseteq WriteLayers
  BY Bounds DEF IInv, SetInv
<1>2. CASE SetFails(p)
  <2>1. InSet(p)
    BY SetIsInSet
  <2>2. Given(p)' /\ proc'[p].pc \notin SetLabels
    BY <1>2 DEF SetFails, Entered, Given, Idle, SetLabels
  <2>3. QED
    BY <2>1, <2>2, InSetServing
<1>3. ASSUME NEW l \in LayerIds, SetPasses(p, l)
      PROVE  ServingInv'
  <2>1. l \in WriteLayers
    BY <1>1, <1>3 DEF SetPasses, First
  <2>2. InSet(p)
    BY SetIsInSet
  <2>3. KeptInv => Given(p)
    BY DEF KeptInv
  <2>4. KeptInv =>
          content'[l][proc[p].arg] = "whole" \/ proc[p].arg \in touched
    BY <1>1, <1>3, <2>1, <2>3 DEF SetPasses, Put, IInv, TypeOK, Given
  <2>5. \A m \in WriteLayers : m # l => content'[m][proc[p].arg] = content[m][proc[p].arg]
    BY <1>3, Bounds DEF SetPasses, Put, IInv, TypeOK
  <2>6. /\ proc'[p].pc = "set" /\ proc'[p].route = proc[p].route \ {l}
        /\ proc'[p].arg = proc[p].arg /\ touched' = touched
        /\ proc[p].pc \in SetLabels /\ First(proc[p].route, l)
        /\ proc[p].arg \notin Malformed
    BY <1>3 DEF SetPasses, Follows, Moved, Silent
  <2>7. KeptInv => Given(p)'
    <3>1. ASSUME KeptInv, NEW m \in WriteLayers, proc[p].arg \notin touched
          PROVE  m \in proc'[p].route \/ content'[m][proc[p].arg] = "whole"
      BY <2>3, <2>4, <2>5, <2>6, <3>1 DEF Given
    <3>2. QED
      BY <2>6, <3>1 DEF Given
  <2>8. ASSUME Spoilt(proc[p].arg)'
        PROVE  Root \in proc'[p].route
    <3>1. CASE l = Root
      BY <1>1, <1>3, <2>6, <2>8, <3>1 DEF SetPasses, Put, Spoilt, Loads, IInv, TypeOK
    <3>2. CASE l # Root
      <4>1. content'[Root][proc[p].arg] = content[Root][proc[p].arg]
        BY <1>3, <3>2, Bounds DEF SetPasses, Put, IInv, TypeOK
      <4>2. Spoilt(proc[p].arg) /\ Setting(p, proc[p].arg)
        BY <2>6, <2>8, <4>1 DEF Spoilt, Loads, Setting
      <4>3. QED
        BY <1>1, <2>6, <3>2, <4>2 DEF ServingInv, CleanInv
    <3>3. QED
      BY <3>1, <3>2
  <2>9. QED
    BY <2>2, <2>6, <2>7, <2>8, InSetServing
<1>4. ASSUME NEW l \in LayerIds, SetFile(p, l)
      PROVE  ServingInv'
  <2>1. l \in WriteLayers
    BY <1>1, <1>4 DEF SetFile, First
  <2>2. InSet(p)
    BY SetIsInSet
  <2>3. KeptInv => Given(p)
    BY DEF KeptInv
  <2>4. \A m \in WriteLayers : m # l => content'[m][proc[p].arg] = content[m][proc[p].arg]
    BY <1>4, Bounds DEF SetFile, Put, IInv, TypeOK
  <2>5. /\ proc'[p].route = proc[p].route /\ proc'[p].arg = proc[p].arg
        /\ proc'[p].pc \in {"write", "verify"} /\ touched' = touched
        /\ proc[p].pc \in SetLabels /\ First(proc[p].route, l) /\ l \in proc[p].route
    BY <1>4 DEF SetFile, Follows, Moved, Silent, First
  <2>6. proc'[p].pc = "verify" => content'[l][proc[p].arg] = "whole"
    BY <1>1, <1>4, <2>1, Bounds DEF SetFile, Put, Follows, Moved, IInv, TypeOK
  <2>7. \A m : First(proc[p].route, m) => m = l
    BY <1>1, <2>5, LayerFacts, Bounds
  <2>8. KeptInv => Given(p)'
    <3>1. ASSUME KeptInv, NEW m \in WriteLayers, proc[p].arg \notin touched
          PROVE  \/ /\ m \in proc'[p].route
                    /\ proc'[p].pc = "verify" => ~First(proc'[p].route, m)
                 \/ content'[m][proc[p].arg] = "whole"
      BY <2>3, <2>4, <2>5, <2>6, <2>7, <3>1 DEF Given
    <3>2. QED
      BY <2>5, <3>1 DEF Given
  <2>9. proc[p].route # WriteLayers => proc[p].arg \notin Malformed
    BY <2>1, <2>5 DEF ServingInv, Parsed
  <2>10. ASSUME Spoilt(proc[p].arg)'
         PROVE  Root \in proc'[p].route
    <3>1. CASE l # Root
      <4>1. content'[Root][proc[p].arg] = content[Root][proc[p].arg]
        BY <1>4, <3>1, Bounds DEF SetFile, Put, IInv, TypeOK
      <4>2. Spoilt(proc[p].arg) /\ Setting(p, proc[p].arg)
        BY <2>5, <2>10, <4>1 DEF Spoilt, Loads, Setting
      <4>3. QED
        BY <1>1, <2>5, <4>2 DEF ServingInv, CleanInv
    <3>2. QED
      BY <2>5, <3>1
  <2>11. QED
    BY <2>2, <2>5, <2>8, <2>9, <2>10, InSetServing
<1>5. QED
  BY <1>2, <1>3, <1>4, SetClass DEF IInv

LEMMA AcknowledgeServing ==
  ASSUME IInv, ServingInv, NEW p \in Procs, SetReturn(p)
  PROVE  ServingInv'
<1>1. /\ proc[p].pc = "set" /\ proc[p].route = {} /\ proc[p].pc \in SetLabels
      /\ UNCHANGED <<content, loading, minted, touched>>
      /\ acked' = acked \cup {proc[p].arg}
  BY DEF SetReturn, Done, store, boot, SetLabels
<1>2. /\ proc'[p].pc \notin SetLabels
      /\ \A q \in Procs : q # p => proc'[q] = proc[q]
  BY IdleFacts, ReturnFacts DEF SetReturn, Entered, IInv, SetLabels
<1>3. Parsed'
  BY <1>1, <1>2 DEF ServingInv, Parsed
<1>4. \A id : Spoilt(id)' = Spoilt(id)
  BY <1>1 DEF Spoilt, Loads
<1>5. CleanInv'
  <2>1. ASSUME NEW id \in Ids, Spoilt(id)
        PROVE  id \notin acked'
    <3>1. Setting(p, id) => Root \in proc[p].route
      BY <2>1 DEF ServingInv, CleanInv
    <3>2. QED
      BY <1>1, <2>1, <3>1 DEF ServingInv, CleanInv, Setting
  <2>2. ASSUME NEW id, NEW q \in Procs, Setting(q, id)'
        PROVE  Setting(q, id) /\ proc'[q] = proc[q]
    BY <1>2, <2>2 DEF Setting
  <2>3. QED
    BY <1>4, <2>1, <2>2 DEF ServingInv, CleanInv
<1>6. Sure' => Sure
  <2>1. ASSUME NEW id \in minted \ acked, Over(id)
        PROVE  id \notin acked' /\ Over(id)'
    BY <1>1, <1>2, <2>1 DEF Over, Setting
  <2>2. QED
    BY <1>1, <2>1, DoubtStays
<1>7. ASSUME Sure' PROVE KeptInv'
  <2>1. KeptInv
    BY <1>6, <1>7 DEF ServingInv
  <2>2. proc[p].arg \notin touched =>
          \A l \in WriteLayers : content[l][proc[p].arg] = "whole"
    BY <1>1, <2>1 DEF KeptInv, Given
  <2>3. Served'
    BY <1>1, <2>1, <2>2 DEF KeptInv, Served
  <2>4. \A q \in Procs : Given(q)'
    BY <1>1, <1>2, <2>1 DEF KeptInv, Given
  <2>5. QED
    BY <2>3, <2>4 DEF KeptInv
<1>8. QED
  BY <1>1, <1>3, <1>5, <1>7 DEF ServingInv

-----------------------------------------------------------------------------
(* The process stops and loads *)

\* Nobody is inside the engine: only the layers have to be looked at.
LEMMA OfflineServing ==
  ASSUME ServingInv, UNCHANGED <<minted, acked, touched>>,
         \A p \in Procs : proc'[p] = Idle,
         TypeOf(Root) = "FILESYSTEM" => content'[Root] = content[Root]
  PROVE  /\ Parsed' /\ CleanInv' /\ \A p \in Procs : Given(p)'
         /\ \A id \in minted : Over(id)'
<1>1. \A p \in Procs : proc'[p].pc \notin SetLabels
  BY IdleFacts DEF SetLabels
<1>2. Parsed'
  BY <1>1 DEF ServingInv, Parsed
<1>3. CleanInv'
  BY <1>1 DEF ServingInv, CleanInv, Spoilt, Loads, Setting
<1>4. QED
  BY <1>1, <1>2, <1>3 DEF Given, Over, Setting

LEMMA CrashServing ==
  ASSUME IInv, ServingInv, Crash
  PROVE  ServingInv'
<1>1. /\ UNCHANGED <<minted, acked, touched>> /\ \A p \in Procs : proc'[p] = Idle
      /\ loading' = Root /\ MaxCrashes # 0
      /\ TypeOf(Root) = "FILESYSTEM" => content'[Root] = content[Root]
  BY LayerFacts DEF Crash, history, Persistent, IInv, TypeOK
<1>2. Served'
  <2>1. \A l \in LayerIds : ~(l > Root)
    BY DEF LayerIds, Root
  <2>2. QED
    BY <1>1, <2>1, LayerFacts DEF Served
<1>3. QED
  BY <1>1, <1>2, OfflineServing DEF ServingInv, KeptInv

LEMMA LoadServing ==
  ASSUME IInv, ServingInv, IInv', LoadStep
  PROVE  ServingInv'
<1>1. PICK l \in LayerIds : \/ LoadNothing(l) \/ LoadMemory(l) \/ LoadSqlite(l)
                            \/ \E id \in rows : LoadRow(l, id)
  BY DEF LoadStep
<1>2. /\ loading = l /\ loading # 0 /\ UNCHANGED <<minted, acked, touched>>
      /\ proc' = proc /\ loading' \in {l, l - 1}
      /\ content'[Root] = content[Root]
      /\ MaxCrashes # 0
  <2>1. /\ loading = l /\ loading # 0 /\ UNCHANGED <<minted, acked, touched>>
        /\ proc' = proc /\ loading' \in {l, l - 1}
    BY <1>1, LayerFacts
       DEF LoadNothing, LoadMemory, LoadSqlite, LoadRow, store, history
  <2>2. content'[Root] = content[Root]
    <3>1. content \in [LayerIds -> [Ids -> Statuses]] /\ Root \in LayerIds
      BY LayerFacts DEF IInv, TypeOK
    <3>2. rows # {} => loading # Root
      BY DEF IInv, LoadInv
    <3>3. QED
      BY <1>1, <2>1, <3>1, <3>2 DEF LoadNothing, LoadMemory, LoadSqlite, LoadRow, store
  <2>3. QED
    BY <2>1, <2>2 DEF ServingInv
<1>3. \A p \in Procs : proc[p] = Idle /\ proc'[p] = Idle
  BY <1>2 DEF IInv, LoadInv
<1>4. Parsed' /\ CleanInv' /\ (\A p \in Procs : Given(p)') /\ \A id \in minted : Over(id)'
  BY <1>2, <1>3, OfflineServing
<1>5. \A id \in minted : Over(id)
  BY <1>3, IdleFacts DEF Over, Setting, SetLabels
<1>6. Sure' => Sure
  BY <1>2, <1>4, DoubtStays
<1>7. ASSUME Sure PROVE Listable(Root) /\ Root \in WriteLayers /\ Persistent(Root)
  <2>1. ASSUME NEW id \in Present(Root), Spoilt(id)
        PROVE  FALSE
    <3>1. id \in minted /\ id \notin acked
      BY <2>1, LayerFacts DEF IInv, OriginInv, Present, ServingInv, CleanInv
    <3>2. QED
      BY <1>2, <1>5, <1>7, <2>1, <3>1 DEF Sure, Doubt
  <2>2. QED
    BY <1>2, <1>7, <2>1 DEF Sure, Listable, Spoilt, Present
<1>8. ASSUME Sure' PROVE Served'
  <2>1. Served /\ Listable(Root) /\ Root \in WriteLayers /\ Persistent(Root)
    BY <1>6, <1>7, <1>8 DEF ServingInv, KeptInv
  <2>2. ASSUME NEW id \in acked' \ touched', NEW m \in WriteLayers, m > loading'
        PROVE  content'[m][id] = "whole"
    <3>1. id \in acked \ touched /\ id \in Ids /\ m \in LayerIds
      BY <1>2, <2>2, Bounds
    <3>2. CASE Persistent(m)
      BY <2>2, <3>2 DEF IInv, Durable
    <3>3. CASE ~Persistent(m) /\ m = l
      <4>1. LoadMemory(l)
        BY <1>1, <1>2, <2>1, <3>3
           DEF LoadNothing, LoadSqlite, LoadRow, Persistent, IInv, LoadInv
      <4>2. content'[m] = content[Root]
        BY <2>1, <3>1, <3>3, <4>1 DEF LoadMemory, IInv, TypeOK
      <4>3. QED
        BY <2>1, <3>1, <4>2 DEF IInv, Durable
    <3>4. CASE ~Persistent(m) /\ m # l
      <4>1. m > loading
        <5>1. m \in Nat /\ l \in Nat
          BY <3>1, LayerFacts
        <5>2. QED
          BY <1>2, <2>2, <3>4, <5>1
      <4>2. content'[m] = content[m]
        <5>1. content \in [LayerIds -> [Ids -> Statuses]]
          BY DEF IInv, TypeOK
        <5>2. QED
          BY <1>1, <3>1, <3>4, <5>1
             DEF LoadNothing, LoadMemory, LoadSqlite, LoadRow, store
      <4>3. QED
        BY <2>1, <3>1, <4>1, <4>2 DEF Served
    <3>5. QED
      BY <3>2, <3>3, <3>4
  <2>3. QED
    BY <2>2 DEF Served
<1>9. QED
  BY <1>2, <1>4, <1>8 DEF ServingInv, KeptInv

-----------------------------------------------------------------------------
(* The theorems *)

LEMMA ServingInit == Init => ServingInv
<1> SUFFICES ASSUME Init PROVE ServingInv
  OBVIOUS
<1>1. acked = {} /\ minted = {} /\ loading = 0 /\ \A p \in Procs : proc[p].pc \notin SetLabels
  BY IdleFacts DEF Init, SetLabels
<1>2. \A id \in Ids : ~Spoilt(id)
  BY LayerFacts DEF Init, Spoilt
<1>3. QED
  BY <1>1, <1>2 DEF ServingInv, Parsed, CleanInv, KeptInv, Served, Given

LEMMA ServingNext == IInv /\ IInv' /\ ServingInv /\ [Next]_vars => ServingInv'
<1> SUFFICES ASSUME IInv, IInv', ServingInv, [Next]_vars PROVE ServingInv'
  OBVIOUS
<1>1. ASSUME NEW p \in Procs, Start(p) \/ Step(p)
      PROVE  ServingInv'
  BY <1>1, StartServing, SetServing, AcknowledgeServing, DeletionAside, SearchAside,
     AsideServing DEF Step
<1>2. CASE LoadStep \/ Crash
  BY <1>2, LoadServing, CrashServing
<1>3. CASE UNCHANGED vars
  BY <1>3 DEF vars, store, boot, history, ServingInv, Parsed, CleanInv, Spoilt, Loads,
     Setting, Sure, Doubt, Over, KeptInv, Served, Given
<1>4. QED
  BY <1>1, <1>2, <1>3 DEF Next

\* While the engine serves, a layer that keeps its mails, or that a start fills
\* with all of them, holds each one that is owed.
LEMMA KeptIsServed ==
  ASSUME IInv, ServingInv, NEW l \in WriteLayers, loading = 0,
         Persistent(l) \/ Sure, NEW id \in acked \ touched
  PROVE  content[l][id] = "whole" /\ Loads(l, id)
<1>1. l > 0
  BY LayerFacts
<1>2. content[l][id] = "whole"
  BY <1>1 DEF IInv, Durable, ServingInv, KeptInv, Served
<1>3. id \notin Malformed
  BY DEF ServingInv, Parsed
<1>4. QED
  BY <1>2, <1>3 DEF Loads

\* Where each form of a mail is read from a layer that keeps what engine.Set
\* gave it, an acknowledged mail nobody asked to delete can be read in every
\* form: by the default layers for as long as the process runs, by files and
\* rows across every crash.
THEOREM ReadsServeHolds == Spec => [](KeptWhereRead => ReadsServe)
<1>1. IInv /\ ServingInv => (KeptWhereRead => ReadsServe)
  <2> SUFFICES ASSUME IInv, ServingInv, KeptWhereRead, loading = 0, NEW id \in acked \ touched
               PROVE  Readable(id)
    BY DEF ReadsServe
  <2>1. \A l : Keeps(l) => content[l][id] = "whole" /\ Loads(l, id)
    BY KeptIsServed DEF Keeps, Sure
  <2>2. ReadLayers # {} => Gets(id)
    BY <2>1 DEF KeptWhereRead, Gets
  <2>3. ReadLayers # {} => GetsRawBody(id)
    BY <2>1 DEF KeptWhereRead, GetsRawBody
  <2>4. RawLayers # {} => GetsRaw(id)
    BY <2>1 DEF KeptWhereRead, GetsRaw
  <2>5. QED
    BY <2>2, <2>3, <2>4 DEF Readable
<1>2. QED
  BY <1>1, InductiveInvariant, ServingInit, ServingNext, PTL DEF Spec

\* Where each form is read from a layer that takes every write, if only a cache
\* that load fills, and the root is such a layer and outlives the process, an
\* acknowledged mail nobody asked to delete can be read in every form after any
\* number of crashes, unless the root has a file that does not parse or a mail
\* nobody was promised was asked to be deleted.
THEOREM ReadsSurviveHolds == Spec => [](RestoredWhereRead => ReadsSurvive)
<1>1. IInv /\ ServingInv => (RestoredWhereRead => ReadsSurvive)
  <2> SUFFICES ASSUME IInv, ServingInv, RestoredWhereRead, loading = 0, Listable(Root),
                      touched \subseteq acked, NEW id \in acked \ touched
               PROVE  Readable(id)
    BY DEF ReadsSurvive
  <2>1. Sure
    <3>1. ASSUME NEW x \in minted \ acked, Spoilt(x)
          PROVE  FALSE
      BY <3>1, Bounds DEF Spoilt, Listable, Present
    <3>2. QED
      BY <3>1 DEF RestoredWhereRead, Sure, Doubt
  <2>2. \A l \in WriteLayers : content[l][id] = "whole" /\ Loads(l, id)
    BY <2>1, KeptIsServed
  <2>3. ReadLayers # {} => Gets(id)
    BY <2>2 DEF RestoredWhereRead, Gets
  <2>4. ReadLayers # {} => GetsRawBody(id)
    BY <2>2 DEF RestoredWhereRead, GetsRawBody
  <2>5. RawLayers # {} => GetsRaw(id)
    BY <2>2 DEF RestoredWhereRead, GetsRaw
  <2>6. QED
    BY <2>3, <2>4, <2>5 DEF Readable
<1>2. QED
  BY <1>1, InductiveInvariant, ServingInit, ServingNext, PTL DEF Spec

-----------------------------------------------------------------------------
(* Configurations that meet the condition *)

\* The layers of the default configuration: they keep every mail for as long as
\* the process runs, and the cache is filled from a folder when it starts again.
LEMMA ShippedLayersKeep ==
  ASSUME Layers = << [type |-> "MEMORY", scope |-> {"read", "cache"}],
                     [type |-> "FILESYSTEM", scope |-> {"all"}] >>
  PROVE  RestoredWhereRead /\ (MaxCrashes = 0 => KeptWhereRead)
<1>1. /\ LayerIds = {1, 2} /\ Root = 2
      /\ TypeOf(1) = "MEMORY" /\ TypeOf(2) = "FILESYSTEM"
      /\ EffectiveScope(1) = {"read", "cache"} /\ EffectiveScope(2) = {"all"}
  BY DEF LayerIds, Root, TypeOf, EffectiveScope
<1>2. /\ ReadLayers = {1, 2} /\ WriteLayers = {1, 2} /\ RawLayers = {2}
  BY <1>1 DEF ReadLayers, WriteLayers, RawLayers, IsWritable, HasScope
<1>3. MaxCrashes = 0 => Keeps(1) /\ Keeps(2)
  BY <1>2 DEF Keeps
<1>4. {l \in ReadLayers : TypeOf(l) # "MEMORY"} = {2}
  BY <1>1, <1>2
<1>5. First({1, 2}, 1) /\ First({2}, 2)
  BY DEF First
<1>6. Root \in WriteLayers /\ Persistent(Root)
  BY <1>1, <1>2 DEF Persistent
<1>7. QED
  BY <1>2, <1>3, <1>4, <1>5, <1>6 DEF KeptWhereRead, RestoredWhereRead

\* A folder alone, across any crash.
LEMMA FolderKeeps ==
  ASSUME Layers = << [type |-> "FILESYSTEM", scope |-> {"all"}] >>
  PROVE  KeptWhereRead
<1>1. LayerIds = {1} /\ TypeOf(1) = "FILESYSTEM" /\ EffectiveScope(1) = {"all"}
  BY DEF LayerIds, TypeOf, EffectiveScope
<1>2. ReadLayers = {1} /\ WriteLayers = {1} /\ RawLayers = {1}
  BY <1>1 DEF ReadLayers, WriteLayers, RawLayers, IsWritable, HasScope
<1>3. Keeps(1)
  BY <1>1, <1>2 DEF Keeps, Persistent
<1>4. {l \in ReadLayers : TypeOf(l) # "MEMORY"} = {1}
  BY <1>1, <1>2
<1>5. First({1}, 1)
  BY DEF First
<1>6. QED
  BY <1>2, <1>3, <1>4, <1>5 DEF KeptWhereRead

=============================================================================
