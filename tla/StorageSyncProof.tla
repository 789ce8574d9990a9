-------------------------- MODULE StorageSyncProof --------------------------
(***************************************************************************)
(* What the layers of the engine owe each other while nothing fails and the *)
(* process runs: a Set that is refused leaves nothing behind, and whenever  *)
(* nobody is inside the engine its writable layers hold the same mails.     *)
(* Both rest on the mutex of a FILESYSTEM layer: who works on its files     *)
(* holds it, so no deletion reaches a file that is being written. And, at   *)
(* the end, what the MEMORY layer owes the attachments it holds.            *)
(***************************************************************************)
EXTENDS StorageArchiveProof, MemoryLayer

Steady == ~Faults /\ MaxCrashes = 0

Holding == {"write", "verify", "remove"}

Holds(p, l) == proc[p].pc \in Holding /\ First(proc[p].route, l)

HoldInv ==
  \A p \in Procs, l \in LayerIds :
    Holds(p, l) => TypeOf(l) = "FILESYSTEM" /\ lock[l] = p

-----------------------------------------------------------------------------
(* The mutex of a layer *)

LockKept(p) ==
  /\ lock' = lock
  /\ \A l \in LayerIds : Holds(p, l)' => Holds(p, l)

LockTaken(p, l) ==
  /\ TypeOf(l) = "FILESYSTEM" /\ lock[l] = None
  /\ lock' = [lock EXCEPT ![l] = p]
  /\ \A m \in LayerIds : Holds(p, m)' => m = l

LockDropped(p, l) ==
  /\ Holds(p, l)
  /\ lock' = [lock EXCEPT ![l] = None]
  /\ \A m \in LayerIds : ~Holds(p, m)'

Locks(p) ==
  /\ \A q \in Procs : q # p => proc'[q] = proc[q]
  /\ LockKept(p) \/ \E l \in LayerIds : LockTaken(p, l) \/ LockDropped(p, l)

\* Outside a Set, the files of a layer change under its mutex only.
Guarded(p) ==
  \A l \in LayerIds :
    \/ content'[l] = content[l]
    \/ TypeOf(l) # "FILESYSTEM" \/ lock[l] = None \/ Holds(p, l)

LEMMA HoldKept ==
  ASSUME IInv, HoldInv, NEW p \in Procs, Locks(p)
  PROVE  HoldInv'
<1>0. /\ None \notin Procs /\ lock \in [LayerIds -> Procs \cup {None}]
      /\ \A q \in Procs, l \in LayerIds : q # p => (Holds(q, l)' <=> Holds(q, l))
  BY EngineAssumption DEF IInv, TypeOK, Locks, Holds
<1>1. CASE LockKept(p)
  BY <1>0, <1>1 DEF LockKept, HoldInv
<1>2. ASSUME NEW l \in LayerIds, LockTaken(p, l)
      PROVE  HoldInv'
  <2>1. lock'[l] = p /\ \A m \in LayerIds : m # l => lock'[m] = lock[m]
    BY <1>0, <1>2 DEF LockTaken
  <2>2. QED
    BY <1>0, <1>2, <2>1 DEF LockTaken, HoldInv
<1>3. ASSUME NEW l \in LayerIds, LockDropped(p, l)
      PROVE  HoldInv'
  <2>1. lock[l] = p /\ \A m \in LayerIds : m # l => lock'[m] = lock[m]
    BY <1>0, <1>3 DEF LockDropped, HoldInv
  <2>2. QED
    BY <1>0, <1>3, <2>1 DEF LockDropped, HoldInv
<1>4. QED
  BY <1>1, <1>2, <1>3 DEF Locks

\* Goroutine p ends its call, or goes on where it was: no mutex changes hands.
LEMMA LockReturn ==
  ASSUME TypeOK, NEW p \in Procs, Return(p), lock' = lock
  PROVE  Locks(p)
  BY ReturnFacts, IdleFacts DEF Entered, Locks, LockKept, Holds, Holding

LEMMA LockMoved ==
  ASSUME NEW p \in Procs, NEW pc, NEW R, NEW tasks, NEW found, NEW errs,
         Moved(p, pc, R, tasks, found, errs), lock' = lock,
         pc \in Holding => proc[p].pc \in Holding /\ R = proc[p].route
  PROVE  Locks(p)
  BY DEF Moved, Locks, LockKept, Holds

LEMMA LocksSet ==
  ASSUME TypeOK, NEW p \in Procs, SetStep(p)
  PROVE  Locks(p)
<1>1. ASSUME NEW l \in LayerIds, SetMemory(p, l) \/ SetSqlite(p, l)
      PROVE  Locks(p)
  BY <1>1, LockReturn, LockMoved, MoveAdvance
     DEF SetMemory, SetSqlite, At, Holding
<1>2. ASSUME NEW l \in LayerIds, SetCreate(p, l)
      PROVE  Locks(p)
  <2>1. CASE Return(p) /\ lock' = lock
    BY <2>1, LockReturn
  <2>2. CASE /\ lock' = [lock EXCEPT ![l] = p]
             /\ Become(p, [proc[p] EXCEPT !.pc = "write"])
    <3>1. Follows(p, "write", proc[p].route)
      BY <2>2, MovePc, LabelFacts DEF Follows
    <3>2. \A m \in LayerIds : First(proc[p].route, m) => m = l
      BY <1>2, CallFacts, LayerFacts DEF TypeOK, SetCreate, At
    <3>3. LockTaken(p, l)
      BY <1>2, <2>2, <3>1, <3>2 DEF SetCreate, Follows, Moved, LockTaken, Holds
    <3>4. QED
      BY <3>1, <3>3 DEF Follows, Moved, Locks
  <2>3. QED
    BY <1>2, <2>1, <2>2 DEF SetCreate, store
<1>3. ASSUME NEW l \in LayerIds, SetWrite(p, l)
      PROVE  Locks(p)
  <2>1. CASE Return(p) /\ Release(l)
    <3>1. Entered(p, Idle)
      BY <2>1, ReturnFacts
    <3>2. LockDropped(p, l)
      BY <1>3, <2>1, <3>1, IdleFacts
         DEF SetWrite, At, Release, Entered, LockDropped, Holds, Holding
    <3>3. QED
      BY <3>1, <3>2 DEF Entered, Locks
  <2>2. CASE Become(p, [proc[p] EXCEPT !.pc = "verify"]) /\ lock' = lock
    BY <1>3, <2>2, MovePc, LabelFacts, LockMoved DEF SetWrite, At, Holding
  <2>3. QED
    BY <1>3, <2>1, <2>2 DEF SetWrite
<1>4. ASSUME NEW l \in LayerIds, SetVerify(p, l)
      PROVE  Locks(p)
  <2>1. \/ Entered(p, Idle)
        \/ Follows(p, "set", proc[p].route \ {l})
    BY <1>4, ReturnFacts, MovePcRoute, LabelFacts DEF SetVerify, Follows
  <2>2. LockDropped(p, l)
    BY <1>4, <2>1, IdleFacts
       DEF SetVerify, At, Release, Entered, Follows, Moved, LockDropped, Holds, Holding
  <2>3. QED
    BY <2>1, <2>2 DEF Entered, Follows, Moved, Locks
<1>5. CASE SetReturn(p)
  BY <1>5, LockReturn DEF SetReturn, store
<1>6. QED
  BY <1>1, <1>2, <1>3, <1>4, <1>5 DEF SetStep

LEMMA LocksDelete ==
  ASSUME TypeOK, NEW p \in Procs, DeleteStep(p)
  PROVE  Locks(p) /\ Guarded(p)
<1>1. ASSUME NEW l \in LayerIds,
             DeleteMemory(p, l) \/ DeleteSqlite(p, l) \/ DeleteFilesystem(p, l)
      PROVE  Locks(p) /\ Guarded(p)
  <2>1. Locks(p)
    BY <1>1, LockReturn, LockMoved, MoveAdvance
       DEF DeleteMemory, DeleteSqlite, DeleteFilesystem, DeletePersistent, At, Holding
  <2>2. \A m \in LayerIds : m # l => content'[m] = content[m]
    BY <1>1 DEF DeleteMemory, DeleteSqlite, DeleteFilesystem, DeletePersistent, TypeOK
  <2>3. TypeOf(l) # "FILESYSTEM" \/ lock[l] = None
    BY <1>1 DEF DeleteMemory, DeleteSqlite, DeleteFilesystem
  <2>4. QED
    BY <2>1, <2>2, <2>3 DEF Guarded
<1>2. CASE DeleteReturn(p)
  BY <1>2, LockReturn DEF DeleteReturn, store, Guarded
<1>3. QED
  BY <1>1, <1>2 DEF DeleteStep

LEMMA LocksPurge ==
  ASSUME TypeOK, NEW p \in Procs, DeleteAllStep(p)
  PROVE  Locks(p) /\ Guarded(p)
<1>1. ASSUME NEW l \in LayerIds, DeleteAllMemory(p, l) \/ DeleteAllSqlite(p, l)
      PROVE  Locks(p) /\ Guarded(p)
  <2>1. Locks(p)
    BY <1>1, LockMoved, MoveAdvance, MoveRouteErrs
       DEF DeleteAllMemory, DeleteAllSqlite, At, Holding
  <2>2. TypeOf(l) # "FILESYSTEM" /\ \A m \in LayerIds : m # l => content'[m] = content[m]
    BY <1>1 DEF DeleteAllMemory, DeleteAllSqlite, TypeOK
  <2>3. QED
    BY <2>1, <2>2 DEF Guarded
<1>2. ASSUME NEW l \in LayerIds, DeleteAllGlob(p, l)
      PROVE  Locks(p) /\ Guarded(p)
  <2>1. Moved(p, "remove", proc[p].route, Present(l), proc[p].found, proc[p].errs)
    BY <1>2, MovePcTodo, LabelFacts DEF DeleteAllGlob, Present
  <2>2. \A m \in LayerIds : First(proc[p].route, m) => m = l
    BY <1>2, CallFacts, LayerFacts DEF TypeOK, DeleteAllGlob, At
  <2>3. LockTaken(p, l)
    BY <1>2, <2>1, <2>2 DEF DeleteAllGlob, Moved, LockTaken, Holds
  <2>4. QED
    BY <1>2, <2>1, <2>3 DEF DeleteAllGlob, Moved, Locks, Guarded
<1>3. ASSUME NEW l \in LayerIds, NEW id \in proc[p].todo, DeleteAllRemove(p, l, id)
      PROVE  Locks(p) /\ Guarded(p)
  <2>1. id \in Ids
    BY CallFacts DEF TypeOK
  <2>2. Locks(p)
    BY <1>3, <2>1, LockMoved, MoveTodo, MoveTodoErrs DEF DeleteAllRemove, At, Holding
  <2>3. Holds(p, l) /\ \A m \in LayerIds : m # l => content'[m] = content[m]
    BY <1>3 DEF DeleteAllRemove, At, TypeOK, Holds, Holding
  <2>4. QED
    BY <2>2, <2>3 DEF Guarded
<1>4. ASSUME NEW l \in LayerIds, DeleteAllUnlock(p, l)
      PROVE  Locks(p) /\ Guarded(p)
  <2>1. Follows(p, "deleteAll", proc[p].route \ {l})
    BY <1>4, MovePcRoute, LabelFacts DEF DeleteAllUnlock, Follows
  <2>2. LockDropped(p, l)
    BY <1>4, <2>1
       DEF DeleteAllUnlock, At, Release, Follows, Moved, LockDropped, Holds, Holding
  <2>3. QED
    BY <1>4, <2>1, <2>2 DEF DeleteAllUnlock, Follows, Moved, Locks, Guarded
<1>5. CASE DeleteAllReturn(p)
  BY <1>5, LockReturn DEF DeleteAllReturn, store, Guarded
<1>6. QED
  BY <1>1, <1>2, <1>3, <1>4, <1>5 DEF DeleteAllStep

LEMMA LocksSearch ==
  ASSUME TypeOK, NEW p \in Procs, SearchStep(p)
  PROVE  Locks(p) /\ Guarded(p)
<1>1. content' = content /\ lock' = lock
  BY DEF SearchStep, SearchTable, SearchGlob, SearchScan, SearchEnd, SearchReturn, store
<1>2. CASE SearchMoves(p)
  BY <1>1, <1>2, LockMoved DEF SearchMoves, Holding, Guarded
<1>3. CASE SearchReturns(p)
  BY <1>1, <1>3, IdleFacts
     DEF SearchReturns, Entered, Locks, LockKept, Holds, Holding, Guarded
<1>4. QED
  BY <1>2, <1>3, SearchClass

LEMMA LocksStart ==
  ASSUME TypeOK, NEW p \in Procs, Start(p)
  PROVE  Locks(p)
  BY StartOpens DEF Opens, Locks, LockKept, Holds, Holding

LEMMA HoldInit == Init => HoldInv
  BY IdleFacts DEF Init, HoldInv, Holds, Holding

LEMMA HoldNext == IInv /\ HoldInv /\ [Next]_vars => HoldInv'
<1> SUFFICES ASSUME IInv, HoldInv, [Next]_vars PROVE HoldInv'
  OBVIOUS
<1>1. ASSUME NEW p \in Procs, Start(p) \/ Step(p)
      PROVE  HoldInv'
  BY <1>1, LocksStart, LocksSet, LocksDelete, LocksPurge, LocksSearch, HoldKept
     DEF Step, IInv
<1>2. CASE LoadStep
  <2>1. proc' = proc /\ lock' = lock
    BY <1>2 DEF LoadStep, LoadNothing, LoadMemory, LoadSqlite, LoadRow, store
  <2>2. QED
    BY <2>1 DEF HoldInv, Holds
<1>3. CASE Crash
  BY <1>3, IdleFacts DEF Crash, HoldInv, Holds, Holding
<1>4. CASE UNCHANGED vars
  BY <1>4 DEF vars, store, HoldInv, Holds
<1>5. QED
  BY <1>1, <1>2, <1>3, <1>4 DEF Next

\* Nobody else touches the file a Set is writing.
LEMMA FilesGuarded ==
  ASSUME IInv, HoldInv, NEW p \in Procs, Guarded(p), NEW q \in Procs, q # p,
         NEW l \in LayerIds, Holds(q, l)
  PROVE  content'[l] = content[l]
  BY EngineAssumption DEF Guarded, HoldInv

-----------------------------------------------------------------------------
(* A refused Set *)

\* A mail that does not parse is only in the file its Set is about to read back.
\* Without failures a mail that was not acknowledged is such a mail, or its Set
\* is on its way.
RefusedInv ==
  /\ \A id \in Malformed, l \in LayerIds : content[l][id] # "none" =>
       \E p \in Procs : Setting(p, id) /\ Holds(p, l)
  /\ \A id \in minted \ acked : id \in Malformed \/ \E p \in Procs : Setting(p, id)
  /\ \A p \in Procs, l \in LayerIds : Holds(p, l) =>
       /\ proc[p].pc = "verify" => content[l][proc[p].arg] = "whole"
       /\ proc[p].pc = "write" => content[l][proc[p].arg] = "torn"

LEMMA AsideRefused ==
  ASSUME IInv, HoldInv, RefusedInv, NEW p \in Procs, Aside(p), Guarded(p)
  PROVE  RefusedInv'
<1>1. \A q \in Procs, id \in Ids : Setting(q, id) => q # p /\ Setting(q, id)'
  BY DEF Aside, Setting
<1>2. \A q \in Procs, l \in LayerIds : q # p => (Holds(q, l)' <=> Holds(q, l))
  BY DEF Aside, Holds
<1>3. \A id \in Malformed, l \in LayerIds : content'[l][id] # "none" =>
         \E q \in Procs : Setting(q, id)' /\ Holds(q, l)'
  BY <1>1, <1>2, EngineAssumption DEF RefusedInv, Aside
<1>4. \A id \in minted' \ acked' : id \in Malformed \/ \E q \in Procs : Setting(q, id)'
  BY <1>1, Bounds DEF RefusedInv, Aside
<1>5. ASSUME NEW q \in Procs, NEW l \in LayerIds, Holds(q, l)'
      PROVE  /\ proc'[q].pc = "verify" => content'[l][proc'[q].arg] = "whole"
             /\ proc'[q].pc = "write" => content'[l][proc'[q].arg] = "torn"
  <2>1. CASE q = p
    BY <2>1 DEF Aside, SetLabels
  <2>2. CASE q # p
    BY <1>2, <1>5, <2>2, FilesGuarded DEF RefusedInv, Aside
  <2>3. QED
    BY <2>1, <2>2
<1>6. QED
  BY <1>3, <1>4, <1>5 DEF RefusedInv

\* A step inside a Set keeps RefusedInv if its own mail does: refused, it is
\* nowhere; going on, it is only in the file the Set holds.
LEMMA InSetRefused ==
  ASSUME IInv, RefusedInv, NEW p \in Procs, InSet(p), NEW id, id = proc[p].arg,
         id \in Malformed => \A l \in LayerIds : content'[l][id] # "none" =>
                                Setting(p, id)' /\ Holds(p, l)',
         id \in Malformed \/ Setting(p, id)',
         \A l \in LayerIds : Holds(p, l)' =>
            /\ proc'[p].pc = "verify" => content'[l][id] = "whole"
            /\ proc'[p].pc = "write" => content'[l][id] = "torn"
  PROVE  RefusedInv'
<1>1. /\ id \in minted /\ proc[p].pc \in SetLabels
      /\ minted' = minted /\ acked' = acked
      /\ \A q \in Procs : q # p => proc'[q] = proc[q]
      /\ \A x \in Ids, l \in LayerIds : x # id => content'[l][x] = content[l][x]
  BY Bounds DEF InSet, Silent
<1>2. \A q \in Procs, x \in Ids : x # id /\ Setting(q, x) => q # p /\ Setting(q, x)'
  BY <1>1 DEF Setting
<1>3. \A q \in Procs, l \in LayerIds : q # p => (Holds(q, l)' <=> Holds(q, l))
  BY <1>1 DEF Holds
<1>4. \A x \in Malformed, l \in LayerIds : content'[l][x] # "none" =>
         \E q \in Procs : Setting(q, x)' /\ Holds(q, l)'
  BY <1>1, <1>2, <1>3, EngineAssumption DEF RefusedInv
<1>5. \A x \in minted' \ acked' : x \in Malformed \/ \E q \in Procs : Setting(q, x)'
  BY <1>1, <1>2, Bounds DEF RefusedInv
<1>6. ASSUME NEW q \in Procs, NEW l \in LayerIds, Holds(q, l)'
      PROVE  /\ proc'[q].pc = "verify" => content'[l][proc'[q].arg] = "whole"
             /\ proc'[q].pc = "write" => content'[l][proc'[q].arg] = "torn"
  <2>1. CASE q = p
    BY <1>6, <2>1, IdleFacts DEF InSet
  <2>2. CASE q # p /\ proc[q].pc \in SetLabels
    <3>1. proc[q].arg # id /\ proc[q].arg \in Ids
      BY <1>1, <2>2, Bounds DEF IInv, SetInv
    <3>2. QED
      BY <1>1, <1>3, <1>6, <2>2, <3>1 DEF RefusedInv
  <2>3. CASE q # p /\ proc[q].pc \notin SetLabels
    BY <1>1, <2>3 DEF SetLabels
  <2>4. QED
    BY <2>1, <2>2, <2>3
<1>7. QED
  BY <1>4, <1>5, <1>6 DEF RefusedInv

\* How a Set goes on when nothing fails: the mail is refused for good, or the
\* next layer takes it.
SetRefused(p) ==
  /\ proc'[p] = Idle /\ proc[p].arg \in Malformed
  /\ \A l \in LayerIds : content'[l][proc[p].arg] = "none"

SetGoes(p, l) ==
  /\ First(proc[p].route, l)
  /\ \/ /\ proc[p].pc = "set" /\ proc[p].arg \notin Malformed
        /\ Follows(p, "set", proc[p].route \ {l}) /\ Put(l, proc[p].arg, "whole")
     \/ /\ proc[p].pc = "set"
        /\ Follows(p, "write", proc[p].route) /\ Put(l, proc[p].arg, "torn")
     \/ /\ proc[p].pc = "write"
        /\ Follows(p, "verify", proc[p].route) /\ Put(l, proc[p].arg, "whole")
     \/ /\ proc[p].pc = "verify" /\ proc[p].arg \notin Malformed
        /\ Follows(p, "set", proc[p].route \ {l}) /\ content' = content

\* Where a mail being set that does not parse can be.
LEMMA OwnFile ==
  ASSUME IInv, RefusedInv, NEW p \in Procs, proc[p].pc \in SetLabels,
         proc[p].arg \in Malformed, NEW l \in LayerIds, ~Holds(p, l)
  PROVE  content[l][proc[p].arg] = "none"
  BY DEF RefusedInv, IInv, SetInv, Setting

LEMMA SetSteady ==
  ASSUME IInv, RefusedInv, ~Faults, NEW p \in Procs, SetStep(p), ~SetReturn(p)
  PROVE  SetRefused(p) \/ \E l \in LayerIds : SetGoes(p, l)
<1> USE DEF Put
<1>1. /\ TypeOK /\ content \in [LayerIds -> [Ids -> Statuses]]
      /\ Return(p) => proc'[p] = Idle
  BY ReturnFacts DEF IInv, TypeOK, Entered
<1>2. ASSUME NEW l \in LayerIds, SetMemory(p, l) \/ SetSqlite(p, l)
      PROVE  SetRefused(p) \/ SetGoes(p, l)
  <2>1. CASE proc[p].arg \in Malformed
    BY <1>1, <1>2, <2>1, OwnFile
       DEF SetMemory, SetSqlite, At, SetRefused, SetLabels, Holds, Holding
  <2>2. CASE proc[p].arg \notin Malformed
    <3>1. /\ proc[p].pc = "set" /\ First(proc[p].route, l) /\ Advance(p, l)
          /\ Put(l, proc[p].arg, "whole")
      BY <1>2, <2>2 DEF SetMemory, SetSqlite, At
    <3>2. Follows(p, "set", proc[p].route \ {l})
      BY <1>1, <3>1, MoveAdvance DEF Follows
    <3>3. QED
      BY <2>2, <3>1, <3>2 DEF SetGoes
  <2>3. QED
    BY <2>1, <2>2
<1>3. ASSUME NEW l \in LayerIds, SetCreate(p, l)
      PROVE  SetGoes(p, l)
  BY <1>1, <1>3, MovePc, LabelFacts DEF SetCreate, At, SetGoes, Follows
<1>4. ASSUME NEW l \in LayerIds, SetWrite(p, l)
      PROVE  SetGoes(p, l)
  BY <1>1, <1>4, MovePc, LabelFacts DEF SetWrite, At, SetGoes, Follows
<1>5. ASSUME NEW l \in LayerIds, SetVerify(p, l)
      PROVE  SetRefused(p) \/ SetGoes(p, l)
  <2>1. /\ proc[p].pc = "verify" /\ First(proc[p].route, l) /\ proc[p].arg \in Ids
        /\ Loads(l, proc[p].arg) <=> proc[p].arg \notin Malformed
        /\ \A m \in LayerIds : Holds(p, m) => m = l
    <3>1. content[l][proc[p].arg] = "whole"
      BY <1>5 DEF SetVerify, At, RefusedInv, Holds, Holding
    <3>2. proc[p].arg \in Ids /\ \A m \in LayerIds : Holds(p, m) => m = l
      BY <1>5, CallFacts, LayerFacts, Bounds
         DEF IInv, TypeOK, SetVerify, At, Holds, SetLabels
    <3>3. QED
      BY <1>5, <3>1, <3>2 DEF SetVerify, At, Loads
  <2>2. CASE Loads(l, proc[p].arg)
    BY <1>1, <1>5, <2>1, <2>2, MovePcRoute, LabelFacts DEF SetVerify, SetGoes, Follows
  <2>3. CASE ~Loads(l, proc[p].arg)
    <3>1. Return(p) /\ content' = [content EXCEPT ![l][proc[p].arg] = "none"]
      BY <1>5, <2>3 DEF SetVerify
    <3>2. ASSUME NEW m \in LayerIds
          PROVE  content'[m][proc[p].arg] = "none"
      <4>1. CASE m = l
        BY <1>1, <2>1, <3>1, <4>1
      <4>2. CASE m # l
        BY <1>1, <2>1, <2>3, <3>1, <4>2, OwnFile DEF SetLabels
      <4>3. QED
        BY <4>1, <4>2
    <3>3. QED
      BY <1>1, <2>1, <2>3, <3>1, <3>2 DEF SetRefused
  <2>4. QED
    BY <2>2, <2>3
<1>6. QED
  BY <1>2, <1>3, <1>4, <1>5 DEF SetStep

LEMMA SetKeepsRefused ==
  ASSUME IInv, RefusedInv, ~Faults, NEW p \in Procs, SetStep(p), ~SetReturn(p)
  PROVE  RefusedInv'
<1>1. InSet(p) /\ proc[p].arg \in Ids
  BY SetIsInSet, Bounds DEF InSet
<1>2. CASE SetRefused(p)
  BY <1>1, <1>2, InSetRefused, IdleFacts DEF SetRefused, Holds, Holding
<1>3. ASSUME NEW l \in LayerIds, SetGoes(p, l)
      PROVE  RefusedInv'
  <2>1. /\ First(proc[p].route, l) /\ proc[p].pc \in SetLabels
        /\ content \in [LayerIds -> [Ids -> Statuses]]
        /\ \A m \in LayerIds : First(proc[p].route, m) => m = l
        /\ proc[p].arg \in Malformed =>
             \A m \in LayerIds : m # l => content[m][proc[p].arg] = "none"
    <3>1. \A m \in LayerIds : First(proc[p].route, m) => m = l
      BY <1>3, CallFacts, LayerFacts DEF IInv, TypeOK, SetGoes
    <3>2. QED
      BY <1>1, <1>3, <3>1, OwnFile DEF InSet, SetGoes, Holds, IInv, TypeOK
  <2>2. CASE /\ proc[p].arg \notin Malformed
             /\ Follows(p, "set", proc[p].route \ {l})
    BY <1>1, <2>2, InSetRefused DEF Follows, Moved, Setting, SetLabels, Holds, Holding
  <2>3. CASE Follows(p, "write", proc[p].route) /\ Put(l, proc[p].arg, "torn")
    <3>1. /\ proc'[p].pc = "write" /\ proc'[p].route = proc[p].route
          /\ proc'[p].arg = proc[p].arg
      BY <2>3 DEF Follows, Moved
    <3>2. /\ content'[l][proc[p].arg] = "torn"
          /\ \A m \in LayerIds : m # l => content'[m] = content[m]
      BY <1>1, <2>1, <2>3 DEF Put
    <3>3. \A m \in LayerIds : Holds(p, m)' <=> m = l
      BY <2>1, <3>1 DEF Holds, Holding
    <3>4. proc[p].arg \in Malformed => \A m \in LayerIds :
             content'[m][proc[p].arg] # "none" => Holds(p, m)'
      BY <2>1, <3>2, <3>3
    <3>5. \A m \in LayerIds : Holds(p, m)' => content'[m][proc[p].arg] = "torn"
      BY <3>2, <3>3
    <3>6. QED
      BY <1>1, <3>1, <3>4, <3>5, InSetRefused DEF Setting, SetLabels
  <2>4. CASE Follows(p, "verify", proc[p].route) /\ Put(l, proc[p].arg, "whole")
    <3>1. /\ proc'[p].pc = "verify" /\ proc'[p].route = proc[p].route
          /\ proc'[p].arg = proc[p].arg
      BY <2>4 DEF Follows, Moved
    <3>2. /\ content'[l][proc[p].arg] = "whole"
          /\ \A m \in LayerIds : m # l => content'[m] = content[m]
      BY <1>1, <2>1, <2>4 DEF Put
    <3>3. \A m \in LayerIds : Holds(p, m)' <=> m = l
      BY <2>1, <3>1 DEF Holds, Holding
    <3>4. proc[p].arg \in Malformed => \A m \in LayerIds :
             content'[m][proc[p].arg] # "none" => Holds(p, m)'
      BY <2>1, <3>2, <3>3
    <3>5. \A m \in LayerIds : Holds(p, m)' => content'[m][proc[p].arg] = "whole"
      BY <3>2, <3>3
    <3>6. QED
      BY <1>1, <3>1, <3>4, <3>5, InSetRefused DEF Setting, SetLabels
  <2>5. QED
    BY <1>3, <2>2, <2>3, <2>4 DEF SetGoes
<1>4. QED
  BY <1>2, <1>3, SetSteady

LEMMA AcknowledgeRefused ==
  ASSUME IInv, RefusedInv, NEW p \in Procs, SetReturn(p)
  PROVE  RefusedInv'
<1>1. /\ proc[p].pc = "set" /\ UNCHANGED <<content, minted>>
      /\ acked' = acked \cup {proc[p].arg}
      /\ proc'[p] = Idle /\ \A q \in Procs : q # p => proc'[q] = proc[q]
  BY ReturnFacts DEF SetReturn, Done, store, Entered, IInv
<1>2. \A q \in Procs, l \in LayerIds : Holds(q, l)' => q # p /\ Holds(q, l)
  BY <1>1, IdleFacts DEF Holds, Holding
<1>3. \A q \in Procs, l \in LayerIds : Holds(q, l) => q # p /\ Holds(q, l)'
  BY <1>1 DEF Holds, Holding
<1>4. \A q \in Procs, id \in Ids :
         Setting(q, id) => (q = p /\ id = proc[p].arg) \/ Setting(q, id)'
  BY <1>1 DEF Setting
<1>5. \A id \in Malformed, l \in LayerIds : content'[l][id] # "none" =>
         \E q \in Procs : Setting(q, id)' /\ Holds(q, l)'
  BY <1>1, <1>3, <1>4, EngineAssumption DEF RefusedInv
<1>6. \A id \in minted' \ acked' : id \in Malformed \/ \E q \in Procs : Setting(q, id)'
  BY <1>1, <1>4, Bounds DEF RefusedInv
<1>7. QED
  BY <1>1, <1>2, <1>5, <1>6 DEF RefusedInv

LEMMA StartRefused ==
  ASSUME IInv, RefusedInv, NEW p \in Procs, Start(p)
  PROVE  RefusedInv'
<1>1. Opens(p)
  BY StartOpens DEF IInv
<1>2. \A q \in Procs, id \in Ids : Setting(q, id) => q # p /\ Setting(q, id)'
  BY <1>1 DEF Opens, Setting, SetLabels
<1>3. \A q \in Procs, l \in LayerIds : Holds(q, l) <=> Holds(q, l)'
  BY <1>1 DEF Opens, Holds, Holding
<1>4. \A id \in Malformed, l \in LayerIds : content'[l][id] # "none" =>
         \E q \in Procs : Setting(q, id)' /\ Holds(q, l)'
  BY <1>1, <1>2, <1>3, EngineAssumption DEF Opens, RefusedInv
<1>5. \A id \in minted' \ acked' : id \in Malformed \/ \E q \in Procs : Setting(q, id)'
  BY <1>1, <1>2, Bounds DEF RefusedInv, Opens, Setting, SetLabels
<1>6. \A q \in Procs, l \in LayerIds : Holds(q, l) => q # p
  BY <1>1 DEF Opens, Holds, Holding
<1>7. QED
  BY <1>1, <1>3, <1>4, <1>5, <1>6 DEF RefusedInv, Opens

\* With no crash there is nothing to load.
LEMMA NoBoot ==
  ASSUME IInv, ServingInv, MaxCrashes = 0
  PROVE  ~LoadStep /\ ~Crash
<1>1. ~Crash
  BY DEF Crash, IInv, TypeOK
<1>2. ~LoadStep
  BY LayerFacts
     DEF LoadStep, LoadNothing, LoadMemory, LoadSqlite, LoadRow, ServingInv, KeptInv
<1>3. QED
  BY <1>1, <1>2

LEMMA RefusedInit == Init => RefusedInv
  BY IdleFacts, EngineAssumption DEF Init, RefusedInv, Holds, Holding

LEMMA RefusedNext ==
  IInv /\ ServingInv /\ HoldInv /\ Steady /\ RefusedInv /\ [Next]_vars => RefusedInv'
<1> SUFFICES ASSUME IInv, ServingInv, HoldInv, Steady, RefusedInv, [Next]_vars
             PROVE  RefusedInv'
  OBVIOUS
<1>1. ASSUME NEW p \in Procs, Start(p) \/ Step(p)
      PROVE  RefusedInv'
  BY <1>1, StartRefused, SetKeepsRefused, AcknowledgeRefused, AsideRefused,
     DeletionAside, SearchAside, LocksDelete, LocksPurge, LocksSearch
     DEF Step, IInv, Steady
<1>2. CASE LoadStep \/ Crash
  BY <1>2, NoBoot DEF Steady
<1>3. CASE UNCHANGED vars
  BY <1>3 DEF vars, store, history, RefusedInv, Setting, Holds
<1>4. QED
  BY <1>1, <1>2, <1>3 DEF Next

\* While nothing fails and the process runs, a mail whose Set was refused is in
\* no layer, for any layers: the parts of it that were written are gone before
\* the SMTP client gets its error, whatever deletions and searches run beside.
THEOREM RefusedLeavesNothingHolds == Spec => [](Steady => RefusedLeavesNothing)
<1>1. ASSUME IInv, RefusedInv
      PROVE  RefusedLeavesNothing
  <2> SUFFICES ASSUME NEW id \in minted \ acked, NEW l \in LayerIds, Over(id)
               PROVE  content[l][id] = "none"
    BY DEF RefusedLeavesNothing
  <2>1. \A p \in Procs : ~Setting(p, id)
    BY DEF Over
  <2>2. QED
    BY <1>1, <2>1 DEF RefusedInv
<1>2. CASE Steady
  BY <1>1, <1>2, InductiveInvariant, ServingInit, ServingNext, HoldInit, HoldNext,
     RefusedInit, RefusedNext, PTL DEF Spec
<1>3. CASE ~Steady
  BY <1>3, PTL
<1>4. QED
  BY <1>2, <1>3

-----------------------------------------------------------------------------
(* The layers in step *)

\* A search that answers from the last layer a Set visits lists a mail only
\* once no earlier layer lacks it.
FoundLast ==
  \A l \in WriteLayers : First(SearchLayers, l) => \A m \in WriteLayers : m <= l

\* Somebody knows of the mail, or is about to.
Learned(id) == id \in known \/ \E p \in Procs : id \in proc[p].found

\* A Set has nothing left to do but to read back its last file.
Complete(p) ==
  \/ proc[p].route = {}
  \/ proc[p].pc = "verify" /\ \E l \in LayerIds : proc[p].route = {l}

\* The layers a call has left are the last ones.
RouteInv ==
  \A p \in Procs :
    /\ proc[p].pc \in SetLabels \cup {"delete"} =>
         /\ proc[p].route \subseteq WriteLayers
         /\ \A l \in proc[p].route, m \in WriteLayers : l <= m => m \in proc[p].route
    /\ proc[p].pc \in {"search", "scan"} => proc[p].route = SearchLayers
    /\ proc[p].pc \notin PurgeLabels

PutInv ==
  /\ \A l \in LayerIds \ WriteLayers, id \in Ids : content[l][id] = "none"
  /\ \A p \in Procs : proc[p].pc \in SetLabels =>
       /\ \A l \in proc[p].route : content[l][proc[p].arg] = "none" \/ Holds(p, l)
       /\ Learned(proc[p].arg) => Complete(p)
       /\ proc[p].arg \notin known =>
            \A l \in WriteLayers \ proc[p].route : content[l][proc[p].arg] # "none"

RemoveInv ==
  \A p \in Procs : proc[p].pc = "delete" =>
    /\ proc[p].arg \in known
    /\ \A l \in WriteLayers \ proc[p].route : content[l][proc[p].arg] = "none"

\* Layer l lacks a mail that layer m has because a Set has l ahead of it, or a
\* deletion is between the two.
Between(id, l, m) ==
  \/ \E p \in Procs : Setting(p, id) /\ l \in proc[p].route
  \/ \E p \in Procs : /\ proc[p].pc = "delete" /\ proc[p].arg = id
                      /\ l \notin proc[p].route /\ m \in proc[p].route

ApartInv ==
  \A id \in Ids, l, m \in WriteLayers :
    content[l][id] = "none" /\ content[m][id] # "none" => Between(id, l, m)

SyncInv == RouteInv /\ PutInv /\ RemoveInv /\ ApartInv

\* A step inside a Set keeps SyncInv if its own mail stays in step.
LEMMA InSetSync ==
  ASSUME IInv, SyncInv, NEW p \in Procs, InSet(p), NEW id, id = proc[p].arg,
         proc'[p].pc \notin SetLabels => \A l \in LayerIds : content'[l][id] = "none",
         proc'[p].pc \in SetLabels =>
           /\ \A l \in proc'[p].route, m \in WriteLayers : l <= m => m \in proc'[p].route
           /\ \A l \in proc'[p].route : content'[l][id] = "none" \/ Holds(p, l)'
           /\ Learned(id) => /\ Complete(p)'
                             /\ \A l \in LayerIds : content'[l][id] = content[l][id]
                             /\ \A l \in proc[p].route : content[l][id] # "none"
           /\ id \notin known =>
                \A l \in WriteLayers \ proc'[p].route : content'[l][id] # "none"
  PROVE  SyncInv'
<1>0. Idle.pc \notin SetLabels
  BY IdleFacts DEF SetLabels
<1>1. /\ id \in Ids /\ proc[p].pc \in SetLabels /\ known' = known
      /\ \A q \in Procs : q # p => proc'[q] = proc[q]
      /\ \A x \in Ids, l \in LayerIds : x # id \/ l \notin WriteLayers =>
           content'[l][x] = content[l][x]
      /\ WriteLayers \subseteq LayerIds
      /\ proc'[p].pc \in SetLabels =>
           proc'[p].arg = id /\ proc'[p].route \subseteq proc[p].route
      /\ proc'[p].pc \notin SetLabels => proc'[p].pc = "idle"
  BY <1>0, Bounds, IdleFacts DEF InSet, Silent
<1>2. \A x : Learned(x)' => Learned(x)
  BY <1>1 DEF Learned, InSet, Idle
<1>3. \A q \in Procs : q # p /\ proc[q].pc \in SetLabels => proc[q].arg \in Ids \ {id}
  BY <1>1, Bounds DEF IInv, SetInv
<1>4. RouteInv'
  BY <1>1 DEF SyncInv, RouteInv, SetLabels, PurgeLabels
<1>5. PutInv'
  <2>1. ASSUME NEW q \in Procs, q # p, proc[q].pc \in SetLabels
        PROVE  /\ \A l \in proc[q].route : content'[l][proc[q].arg] = "none" \/ Holds(q, l)'
               /\ Learned(proc[q].arg)' => Complete(q)'
               /\ proc[q].arg \notin known =>
                    \A l \in WriteLayers \ proc[q].route : content'[l][proc[q].arg] # "none"
    <3>1. /\ proc'[q] = proc[q] /\ proc[q].route \subseteq LayerIds
          /\ \A l \in LayerIds : content'[l][proc[q].arg] = content[l][proc[q].arg]
      BY <1>1, <1>3, <2>1 DEF SyncInv, RouteInv
    <3>2. Learned(proc[q].arg)' => Learned(proc[q].arg)
      BY <1>2, <3>1
    <3>3. QED
      BY <1>1, <2>1, <3>1, <3>2 DEF SyncInv, PutInv, Holds, Complete
  <2>2. Learned(id)' => Learned(id)
    BY <1>2
  <2>3. QED
    BY <1>1, <1>2, <2>1, <2>2 DEF SyncInv, PutInv
<1>6. RemoveInv'
  <2>1. ASSUME NEW q \in Procs, proc'[q].pc = "delete"
        PROVE  /\ proc'[q].arg \in known'
               /\ \A l \in WriteLayers \ proc'[q].route : content'[l][proc'[q].arg] = "none"
    <3>1. q # p /\ proc'[q] = proc[q] /\ proc[q].pc = "delete"
      BY <1>1, <2>1 DEF SetLabels
    <3>2. proc[q].arg \in known /\ proc[q].arg \in Ids
      BY <3>1 DEF SyncInv, RemoveInv, IInv, TypeOK
    <3>3. \A l \in WriteLayers : \/ content'[l][proc[q].arg] = content[l][proc[q].arg]
                                \/ content'[l][proc[q].arg] = "none"
      BY <1>1, <3>2 DEF Learned
    <3>4. QED
      BY <1>1, <3>1, <3>2, <3>3 DEF SyncInv, RemoveInv
  <2>2. QED
    BY <2>1 DEF RemoveInv
<1>7. ApartInv'
  <2> SUFFICES ASSUME NEW x \in Ids, NEW l \in WriteLayers, NEW m \in WriteLayers,
                      content'[l][x] = "none", content'[m][x] # "none"
               PROVE  Between(x, l, m)'
    BY DEF ApartInv
  <2>1. CASE x # id
    <3>1. content[l][x] = "none" /\ content[m][x] # "none"
      BY <1>1, <2>1
    <3>2. Between(x, l, m)
      BY <3>1 DEF SyncInv, ApartInv
    <3>3. QED
      BY <1>1, <2>1, <3>2 DEF Between, Setting, SetLabels
  <2>2. CASE x = id
    <3>1. proc'[p].pc \in SetLabels
      BY <1>1, <2>2
    <3>2. CASE ~Learned(id)
      BY <1>1, <2>2, <3>1, <3>2 DEF Learned, Between, Setting
    <3>3. CASE Learned(id)
      <4>1. content[l][id] = "none" /\ content[m][id] # "none"
        BY <1>1, <2>2, <3>1, <3>3
      <4>2. Between(id, l, m)
        BY <1>1, <4>1 DEF SyncInv, ApartInv
      <4>3. \A q \in Procs : Setting(q, id) /\ l \in proc[q].route => q # p
        BY <3>1, <3>3, <4>1
      <4>4. \A q \in Procs : Setting(q, id) => q = p
        BY <1>3 DEF Setting
      <4>5. PICK q \in Procs : /\ proc[q].pc = "delete" /\ proc[q].arg = id
                               /\ l \notin proc[q].route /\ m \in proc[q].route
        BY <4>2, <4>3, <4>4 DEF Between
      <4>6. q # p
        BY <1>1, <4>5 DEF SetLabels
      <4>7. QED
        BY <1>1, <2>2, <4>5, <4>6 DEF Between
    <3>4. QED
      BY <3>2, <3>3
  <2>3. QED
    BY <2>1, <2>2
<1>8. QED
  BY <1>4, <1>5, <1>6, <1>7 DEF SyncInv

LEMMA SetKeepsSync ==
  ASSUME IInv, RefusedInv, SyncInv, ~Faults, NEW p \in Procs, SetStep(p), ~SetReturn(p)
  PROVE  SyncInv'
<1>1. /\ InSet(p) /\ proc[p].arg \in Ids /\ proc[p].pc \in SetLabels
      /\ proc[p].route \subseteq WriteLayers
      /\ WriteLayers \subseteq LayerIds /\ LayerIds \subseteq Nat
      /\ content \in [LayerIds -> [Ids -> Statuses]]
  BY SetIsInSet, Bounds, LayerFacts DEF InSet, SyncInv, RouteInv, IInv, TypeOK
<1>2. CASE SetRefused(p)
  <2>1. proc'[p].pc \notin SetLabels
    BY <1>2, IdleFacts DEF SetRefused, SetLabels
  <2>2. QED
    BY <1>1, <1>2, <2>1, InSetSync DEF SetRefused
<1>3. ASSUME NEW l \in LayerIds, SetGoes(p, l)
      PROVE  SyncInv'
  <2>1. /\ l \in proc[p].route /\ l \in WriteLayers
        /\ \A m \in proc[p].route : l <= m
        /\ \A m \in LayerIds : Holds(p, m) => m = l
        /\ \A m \in proc[p].route, n \in WriteLayers : m <= n => n \in proc[p].route
    BY <1>1, <1>3, LayerFacts DEF SetGoes, First, Holds, SyncInv, RouteInv
  <2>2. /\ \A m \in proc[p].route \ {l} : content[m][proc[p].arg] = "none"
        /\ Learned(proc[p].arg) => proc[p].pc = "verify" /\ proc[p].route = {l}
        /\ proc[p].arg \notin known =>
             \A m \in WriteLayers \ proc[p].route : content[m][proc[p].arg] # "none"
    BY <1>1, <2>1 DEF SyncInv, PutInv, Complete
  <2>3. \A m \in proc[p].route \ {l}, n \in WriteLayers :
           m <= n => n \in proc[p].route \ {l}
    <3>1. ASSUME NEW m \in proc[p].route \ {l}, m <= l
          PROVE  FALSE
      <4>1. m \in Nat /\ l \in Nat /\ l <= m /\ m # l
        BY <1>1, <2>1
      <4>2. QED
        BY <3>1, <4>1
    <3>2. QED
      BY <2>1, <3>1
  <2>4. CASE /\ Follows(p, "set", proc[p].route \ {l})
             /\ \/ proc[p].pc = "set" /\ Put(l, proc[p].arg, "whole")
                \/ proc[p].pc = "verify" /\ content' = content
    <3>1. /\ proc'[p].pc \in SetLabels /\ proc'[p].route = proc[p].route \ {l}
      BY <2>4 DEF Follows, Moved, SetLabels
    <3>2. /\ content'[l][proc[p].arg] = "whole"
          /\ \A m \in LayerIds : m # l => content'[m] = content[m]
          /\ proc[p].pc = "verify" => content' = content
      <4>1. CASE proc[p].pc = "set" /\ Put(l, proc[p].arg, "whole")
        BY <1>1, <4>1 DEF Put
      <4>2. CASE proc[p].pc = "verify" /\ content' = content
        BY <1>3, <4>2 DEF SetGoes, RefusedInv, Holds, Holding
      <4>3. QED
        BY <2>4, <4>1, <4>2
    <3>3. Learned(proc[p].arg) =>
            /\ Complete(p)' /\ content' = content
            /\ \A m \in proc[p].route : content[m][proc[p].arg] # "none"
      BY <2>2, <3>1, <3>2 DEF Complete
    <3>4. \A m \in proc'[p].route : content'[m][proc[p].arg] = "none"
      BY <1>1, <2>2, <3>1, <3>2
    <3>5. proc[p].arg \notin known =>
             \A m \in WriteLayers \ proc'[p].route : content'[m][proc[p].arg] # "none"
      BY <1>1, <2>2, <3>1, <3>2
    <3>6. QED
      BY <1>1, <2>3, <3>1, <3>3, <3>4, <3>5, InSetSync
  <2>5. CASE /\ proc[p].pc # "verify"
             /\ \/ Follows(p, "write", proc[p].route) /\ Put(l, proc[p].arg, "torn")
                \/ Follows(p, "verify", proc[p].route) /\ Put(l, proc[p].arg, "whole")
    <3>1. /\ proc'[p].pc \in SetLabels \cap Holding /\ proc'[p].route = proc[p].route
          /\ \A m \in LayerIds : m # l => content'[m] = content[m]
          /\ ~Learned(proc[p].arg)
      BY <1>1, <2>2, <2>5 DEF Follows, Moved, Put, SetLabels, Holding
    <3>2. Holds(p, l)'
      BY <2>1, <3>1 DEF Holds, First
    <3>3. \A m \in proc'[p].route : content'[m][proc[p].arg] = "none" \/ Holds(p, m)'
      BY <1>1, <2>2, <3>1, <3>2
    <3>4. proc[p].arg \notin known =>
             \A m \in WriteLayers \ proc'[p].route : content'[m][proc[p].arg] # "none"
      BY <1>1, <2>1, <2>2, <3>1
    <3>5. QED
      BY <1>1, <2>1, <3>1, <3>3, <3>4, InSetSync
  <2>6. QED
    BY <1>3, <2>4, <2>5 DEF SetGoes
<1>4. QED
  BY <1>2, <1>3, SetSteady

LEMMA AcknowledgeSync ==
  ASSUME IInv, SyncInv, NEW p \in Procs, SetReturn(p)
  PROVE  SyncInv'
<1>1. /\ proc[p].pc = "set" /\ proc[p].route = {} /\ content' = content
      /\ known' = known \cup {proc[p].arg}
      /\ proc'[p] = Idle /\ \A q \in Procs : q # p => proc'[q] = proc[q]
  BY ReturnFacts DEF SetReturn, Done, store, Entered, IInv
<1>2. \A q \in Procs : q # p /\ proc[q].pc \in SetLabels => proc[q].arg # proc[p].arg
  BY <1>1 DEF IInv, SetInv, SetLabels
<1>3. \A x : Learned(x)' /\ x # proc[p].arg => Learned(x)
  BY <1>1 DEF Learned, Idle
<1>4. RouteInv'
  BY <1>1, IdleFacts DEF SyncInv, RouteInv, SetLabels, PurgeLabels
<1>5. PutInv'
  <2>1. ASSUME NEW q \in Procs, proc'[q].pc \in SetLabels
        PROVE  q # p /\ proc'[q] = proc[q]
    BY <1>1, <2>1, IdleFacts DEF SetLabels
  <2>2. \A q \in Procs : q # p => /\ Complete(q) => Complete(q)'
                                 /\ \A l : Holds(q, l) => Holds(q, l)'
    BY <1>1 DEF Complete, Holds
  <2>3. QED
    BY <1>1, <1>2, <1>3, <2>1, <2>2 DEF SyncInv, PutInv
<1>6. RemoveInv'
  BY <1>1, IdleFacts DEF SyncInv, RemoveInv
<1>7. ApartInv'
  BY <1>1 DEF SyncInv, ApartInv, Between, Setting
<1>8. QED
  BY <1>4, <1>5, <1>6, <1>7 DEF SyncInv

\* A call that only reads, or begins, keeps SyncInv if every mail it learns of
\* is complete.
LEMMA ReadSync ==
  ASSUME IInv, SyncInv, NEW p \in Procs, content' = content,
         \A q \in Procs : q # p => proc'[q] = proc[q],
         proc[p].pc \notin SetLabels \cup {"delete"}, proc'[p].pc \notin PurgeLabels,
         proc'[p].pc \in {"search", "scan"} => proc'[p].route = SearchLayers,
         proc'[p].pc \in SetLabels =>
           /\ proc'[p].route = WriteLayers /\ proc'[p].arg \in Ids \ minted
           /\ known' = known /\ proc'[p].found = {},
         proc'[p].pc = "delete" =>
           proc'[p].route = WriteLayers /\ proc'[p].arg \in known,
         known \subseteq known',
         \A x : x \in known' \/ x \in proc'[p].found =>
           Learned(x) \/ \A q \in Procs : Setting(q, x) => Complete(q)
  PROVE  SyncInv'
<1>1. \A q \in Procs : q # p => /\ Complete(q) => Complete(q)'
                               /\ \A l : Holds(q, l) => Holds(q, l)'
                               /\ \A x : Setting(q, x)' <=> Setting(q, x)
  BY DEF Complete, Holds, Setting
<1>2. RouteInv'
  BY DEF SyncInv, RouteInv
<1>3. PutInv'
  <2>1. ASSUME NEW q \in Procs, proc'[q].pc \in SetLabels
        PROVE  /\ \A l \in proc'[q].route :
                    content'[l][proc'[q].arg] = "none" \/ Holds(q, l)'
               /\ Learned(proc[q].arg)' => Complete(q)'
               /\ proc'[q].arg \notin known' =>
                    \A l \in WriteLayers \ proc'[q].route : content'[l][proc'[q].arg] # "none"
    <3>1. CASE q = p
      <4>1. \A l \in LayerIds : content[l][proc'[q].arg] = "none"
        BY <2>1, <3>1 DEF IInv, OriginInv, Present
      <4>2. ~Learned(proc[q].arg)'
        BY <2>1, <3>1 DEF Learned, IInv, OriginInv
      <4>3. QED
        BY <2>1, <3>1, <4>1, <4>2, Bounds
    <3>2. CASE q # p
      <4>1. proc'[q] = proc[q] /\ Setting(q, proc[q].arg)
        BY <2>1, <3>2 DEF Setting
      <4>2. Learned(proc[q].arg)' => Complete(q)
        <5>1. ASSUME Learned(proc[q].arg)', ~Learned(proc[q].arg)
              PROVE  proc[q].arg \in known' \/ proc[q].arg \in proc'[p].found
          BY <4>1, <5>1 DEF Learned
        <5>2. QED
          BY <2>1, <4>1, <5>1 DEF SyncInv, PutInv
      <4>3. QED
        BY <1>1, <2>1, <3>2, <4>1, <4>2 DEF SyncInv, PutInv
    <3>3. QED
      BY <3>1, <3>2
  <2>2. QED
    BY <2>1 DEF SyncInv, PutInv
<1>4. RemoveInv'
  BY DEF SyncInv, RemoveInv
<1>5. ApartInv'
  <2>1. \A q \in Procs : \A x : Setting(q, x) => q # p
    BY DEF Setting
  <2>2. ASSUME NEW x, NEW l, NEW m, Between(x, l, m)
        PROVE  Between(x, l, m)'
    <3>1. PICK q \in Procs : \/ Setting(q, x) /\ l \in proc[q].route
                             \/ /\ proc[q].pc = "delete" /\ proc[q].arg = x
                                /\ l \notin proc[q].route /\ m \in proc[q].route
      BY <2>2 DEF Between
    <3>2. q # p /\ proc'[q] = proc[q]
      BY <2>1, <3>1
    <3>3. QED
      BY <3>1, <3>2 DEF Between, Setting
  <2>3. QED
    BY <2>2 DEF SyncInv, ApartInv
<1>6. QED
  BY <1>2, <1>3, <1>4, <1>5 DEF SyncInv

LEMMA StartSync ==
  ASSUME IInv, SyncInv, "DeleteAllEmails" \notin Workload, NEW p \in Procs, Start(p)
  PROVE  SyncInv'
<1>1. Opens(p)
  BY StartOpens DEF IInv
<1>2. /\ content' = content /\ known' = known /\ proc'[p].found = {}
      /\ \A q \in Procs : q # p => proc'[q] = proc[q]
      /\ proc[p].pc \notin SetLabels \cup {"delete"}
      /\ proc'[p].pc \notin PurgeLabels
      /\ proc'[p].pc \in {"search", "scan"} => proc'[p].route = SearchLayers
      /\ proc'[p].pc \in SetLabels =>
           proc'[p].route = WriteLayers /\ proc'[p].arg \in Ids \ minted
      /\ proc'[p].pc = "delete" => proc'[p].route = WriteLayers /\ proc'[p].arg \in known
  BY <1>1 DEF Opens, SetLabels, PurgeLabels
<1>3. \A x : x \in known' \/ x \in proc'[p].found => Learned(x)
  BY <1>2 DEF Learned
<1>4. QED
  BY <1>2, <1>3, ReadSync

\* A mail a search comes upon in the last layer a Set visits is complete.
LEMMA FoundComplete ==
  ASSUME IInv, RefusedInv, SyncInv, FoundLast, NEW l \in LayerIds,
         First(SearchLayers, l), NEW x \in Ids, content[l][x] # "none",
         TypeOf(l) = "FILESYSTEM" => Loads(l, x),
         HoldInv, NEW q \in Procs, Setting(q, x)
  PROVE  Complete(q)
<1>1. /\ proc[q].pc \in SetLabels /\ proc[q].arg = x
      /\ proc[q].route \subseteq WriteLayers /\ WriteLayers \subseteq LayerIds
      /\ \A m \in proc[q].route, n \in WriteLayers : m <= n => n \in proc[q].route
      /\ \A m \in proc[q].route : content[m][x] = "none" \/ Holds(q, m)
  BY Bounds DEF Setting, SyncInv, RouteInv, PutInv
<1>2. l \in WriteLayers /\ \A m \in WriteLayers : m <= l
  BY DEF SyncInv, PutInv, FoundLast
<1>3. CASE l \notin proc[q].route
  BY <1>1, <1>2, <1>3 DEF Complete
<1>4. CASE l \in proc[q].route
  <2>1. Holds(q, l) /\ Loads(l, x)
    BY <1>1, <1>4 DEF HoldInv
  <2>2. proc[q].pc = "verify"
    BY <1>1, <2>1 DEF Holds, Holding, SetLabels, Loads, RefusedInv
  <2>3. \A m \in proc[q].route : m = l
    <3>1. \A m \in proc[q].route : m \in Nat /\ l \in Nat /\ l <= m /\ m <= l
      BY <1>1, <1>2, <2>1, LayerFacts DEF Holds, First
    <3>2. QED
      BY <3>1
  <2>4. QED
    BY <1>4, <2>2, <2>3 DEF Complete
<1>5. QED
  BY <1>3, <1>4

LEMMA SearchKeepsSync ==
  ASSUME IInv, HoldInv, RefusedInv, SyncInv, FoundLast, NEW p \in Procs, SearchStep(p)
  PROVE  SyncInv'
<1> USE DEF At, store, boot, history
<1>1. /\ TypeOK /\ proc[p].found \subseteq Ids /\ proc[p].todo \subseteq Ids
      /\ proc[p].pc \in {"search", "scan"} => proc[p].route = SearchLayers
      /\ \A x \in proc[p].found : Learned(x)
  BY CallFacts DEF IInv, TypeOK, SyncInv, RouteInv, Learned
<1>2. ASSUME NEW pc \in {"scan", "found", "failed"}, NEW tasks, NEW found,
             Moved(p, pc, proc[p].route, tasks, found, proc[p].errs),
             proc[p].pc \in {"search", "scan"}, UNCHANGED <<content, known>>,
             \A x \in found : Learned(x) \/ \A q \in Procs : Setting(q, x) => Complete(q)
      PROVE  SyncInv'
  <2>1. /\ proc[p].pc \notin SetLabels \cup {"delete"}
        /\ proc'[p].pc \notin SetLabels \cup PurgeLabels \cup {"delete"}
        /\ proc'[p].route = SearchLayers /\ proc'[p].found = found
        /\ \A q \in Procs : q # p => proc'[q] = proc[q]
    BY <1>1, <1>2 DEF Moved, SetLabels, PurgeLabels
  <2>2. \A x : x \in known' \/ x \in proc'[p].found =>
             Learned(x) \/ \A q \in Procs : Setting(q, x) => Complete(q)
    BY <1>2, <2>1 DEF Learned
  <2>3. QED
    BY <1>2, <2>1, <2>2, ReadSync
<1>3. ASSUME NEW l \in LayerIds, SearchTable(p, l)
      PROVE  SyncInv'
  <2>1. Moved(p, "found", proc[p].route, proc[p].todo, Present(l), proc[p].errs)
    BY <1>1, <1>3, MovePcFound, LabelFacts DEF SearchTable, Present
  <2>2. \A x \in Present(l), q \in Procs : Setting(q, x) => Complete(q)
    BY <1>1, <1>3, FoundComplete DEF SearchTable, Present
  <2>3. QED
    BY <1>2, <1>3, <2>1, <2>2 DEF SearchTable
<1>4. ASSUME NEW l \in LayerIds, SearchGlob(p, l)
      PROVE  SyncInv'
  <2>1. Moved(p, "scan", proc[p].route, Present(l), proc[p].found, proc[p].errs)
    BY <1>1, <1>4, MovePcTodo, LabelFacts DEF SearchGlob, Present
  <2>2. QED
    BY <1>1, <1>2, <1>4, <2>1 DEF SearchGlob
<1>5. ASSUME NEW l \in LayerIds, NEW id \in proc[p].todo, SearchScan(p, l, id)
      PROVE  SyncInv'
  <2>1. CASE /\ Loads(l, id)
             /\ Become(p, [proc[p] EXCEPT !.todo = @ \ {id}, !.found = @ \cup {id}])
    <3>1. Moved(p, "scan", proc[p].route, proc[p].todo \ {id}, proc[p].found \cup {id},
                proc[p].errs)
      BY <1>1, <1>5, <2>1, MoveTodoFound DEF SearchScan
    <3>2. \A q \in Procs : Setting(q, id) => Complete(q)
      BY <1>1, <1>5, <2>1, FoundComplete DEF SearchScan, Loads
    <3>3. QED
      BY <1>1, <1>2, <1>5, <3>1, <3>2 DEF SearchScan
  <2>2. CASE Become(p, [proc[p] EXCEPT !.pc = "failed"])
    <3>1. Follows(p, "failed", proc[p].route)
      BY <1>1, <2>2, MovePc, LabelFacts DEF Follows
    <3>2. QED
      BY <1>1, <1>2, <1>5, <3>1 DEF SearchScan, Follows
  <2>3. QED
    BY <1>5, <2>1, <2>2 DEF SearchScan
<1>6. CASE SearchEnd(p)
  <2>1. Follows(p, "found", proc[p].route)
    BY <1>1, <1>6, MovePc, LabelFacts DEF SearchEnd, Follows
  <2>2. QED
    BY <1>1, <1>2, <1>6, <2>1 DEF SearchEnd, Follows
<1>7. CASE SearchReturn(p)
  <2>1. /\ proc'[p] = Idle /\ \A q \in Procs : q # p => proc'[q] = proc[q]
        /\ content' = content /\ known \subseteq known'
        /\ \A x \in known' : x \in known \/ x \in proc[p].found
    BY <1>1, <1>7, ReturnFacts DEF SearchReturn, Entered
  <2>2. /\ proc[p].pc \notin SetLabels \cup {"delete"}
        /\ proc'[p].pc = "idle" /\ proc'[p].found = {}
    BY <1>7, <2>1 DEF SearchReturn, SetLabels, Idle
  <2>3. \A x : x \in known' \/ x \in proc'[p].found => Learned(x)
    BY <1>1, <2>1, <2>2 DEF Learned
  <2>4. "idle" \notin SetLabels \cup PurgeLabels
    BY DEF SetLabels, PurgeLabels
  <2>5. QED
    BY <2>1, <2>2, <2>3, <2>4, ReadSync
<1>8. QED
  BY <1>3, <1>4, <1>5, <1>6, <1>7 DEF SearchStep

\* Without failures a deletion stops early only at a layer that lacks the mail.
LEMMA DeleteSteady ==
  ASSUME TypeOK, ~Faults, NEW p \in Procs, DeleteStep(p)
  PROVE  \/ DeletionReturns(p)
         \/ \E l \in LayerIds :
              \/ DeletePasses(p, l)
              \/ /\ DeleteFails(p) /\ First(proc[p].route, l)
                 /\ content[l][proc[p].arg] = "none"
<1>1. ASSUME NEW l \in LayerIds,
             DeleteMemory(p, l) \/ DeleteSqlite(p, l) \/ DeleteFilesystem(p, l)
      PROVE  \/ DeletePasses(p, l)
             \/ /\ DeleteFails(p) /\ First(proc[p].route, l)
                /\ content[l][proc[p].arg] = "none"
  BY <1>1, ReturnFacts, MoveAdvance
     DEF DeleteMemory, DeleteSqlite, DeleteFilesystem, DeletePersistent, At,
         DeleteFails, DeletePasses, Follows, Put, Silent, boot, history
<1>2. CASE DeleteReturn(p)
  BY <1>2, ReturnFacts
     DEF DeleteReturn, Done, DeletionReturns, PurgeLabels, store, boot
<1>3. QED
  BY <1>1, <1>2 DEF DeleteStep

\* A step of a deletion keeps SyncInv, but for the layers that differ in its
\* own mail.
LEMMA DeleteSync ==
  ASSUME IInv, SyncInv, NEW p \in Procs, proc[p].pc = "delete",
         NEW id \in Ids, id = proc[p].arg,
         known' = known, \A q \in Procs : q # p => proc'[q] = proc[q],
         \A l \in LayerIds, x \in Ids :
            \/ content'[l][x] = content[l][x]
            \/ content'[l][x] = "none" /\ x = id,
         proc'[p].found \subseteq proc[p].found,
         \/ proc'[p].pc = "idle"
         \/ /\ proc'[p].pc = "delete" /\ proc'[p].arg = id
            /\ proc'[p].route \subseteq proc[p].route
            /\ \A l \in proc'[p].route, m \in WriteLayers : l <= m => m \in proc'[p].route
            /\ \A l \in WriteLayers \ proc'[p].route : content'[l][id] = "none",
         \A l, m \in WriteLayers :
            content'[l][id] = "none" /\ content'[m][id] # "none" => Between(id, l, m)'
  PROVE  SyncInv'
<1>1. /\ WriteLayers \subseteq LayerIds /\ id \in known
      /\ proc'[p].pc \notin SetLabels \cup PurgeLabels \cup {"search", "scan"}
  BY Bounds DEF SyncInv, RemoveInv, SetLabels, PurgeLabels
<1>2. \A x : Learned(x)' => Learned(x)
  BY DEF Learned
<1>3. RouteInv'
  BY <1>1 DEF SyncInv, RouteInv
<1>4. PutInv'
  <2>1. ASSUME NEW q \in Procs, proc'[q].pc \in SetLabels
        PROVE  /\ \A l \in proc'[q].route :
                    content'[l][proc'[q].arg] = "none" \/ Holds(q, l)'
               /\ Learned(proc[q].arg)' => Complete(q)'
               /\ proc'[q].arg \notin known' =>
                    \A l \in WriteLayers \ proc'[q].route : content'[l][proc'[q].arg] # "none"
    <3>1. /\ q # p /\ proc'[q] = proc[q] /\ proc[q].arg \in Ids
          /\ proc[q].route \subseteq LayerIds /\ proc[q].pc \in SetLabels
      BY <1>1, <2>1, Bounds DEF SyncInv, RouteInv
    <3>2. \A l \in LayerIds : content[l][proc[q].arg] = "none" =>
             content'[l][proc[q].arg] = "none"
      BY <3>1
    <3>3. \A l : Holds(q, l) => Holds(q, l)'
      BY <3>1 DEF Holds
    <3>4. Learned(proc[q].arg)' => Complete(q)'
      BY <1>2, <3>1 DEF SyncInv, PutInv, Complete
    <3>5. proc[q].arg \notin known =>
             \A l \in LayerIds : content'[l][proc[q].arg] = content[l][proc[q].arg]
      BY <1>1, <3>1
    <3>6. QED
      BY <1>1, <3>1, <3>2, <3>3, <3>4, <3>5 DEF SyncInv, PutInv
  <2>2. \A q \in Procs : proc'[q].pc \in SetLabels => proc'[q].arg = proc[q].arg
    BY <1>1
  <2>3. \A l \in LayerIds \ WriteLayers, x \in Ids : content'[l][x] = "none"
    BY DEF SyncInv, PutInv
  <2>4. QED
    BY <2>1, <2>2, <2>3 DEF PutInv
<1>5. RemoveInv'
  <2>1. ASSUME NEW q \in Procs, proc'[q].pc = "delete"
        PROVE  /\ proc'[q].arg \in known
               /\ \A l \in WriteLayers \ proc'[q].route : content'[l][proc'[q].arg] = "none"
    <3>1. CASE q = p
      BY <1>1, <2>1, <3>1
    <3>2. CASE q # p
      <4>1. /\ proc'[q] = proc[q] /\ proc[q].arg \in Ids /\ proc[q].arg \in known
            /\ \A l \in WriteLayers \ proc[q].route : content[l][proc[q].arg] = "none"
        BY <2>1, <3>2 DEF IInv, TypeOK, SyncInv, RemoveInv
      <4>2. QED
        BY <1>1, <4>1
    <3>3. QED
      BY <3>1, <3>2
  <2>2. QED
    BY <2>1 DEF RemoveInv
<1>6. ApartInv'
  <2> SUFFICES ASSUME NEW x \in Ids, NEW l \in WriteLayers, NEW m \in WriteLayers,
                      content'[l][x] = "none", content'[m][x] # "none"
               PROVE  Between(x, l, m)'
    BY DEF ApartInv
  <2>1. CASE x # id
    <3>1. content[l][x] = "none" /\ content[m][x] # "none"
      BY <1>1, <2>1
    <3>2. Between(x, l, m)
      BY <3>1 DEF SyncInv, ApartInv
    <3>3. PICK q \in Procs : \/ Setting(q, x) /\ l \in proc[q].route
                             \/ /\ proc[q].pc = "delete" /\ proc[q].arg = x
                                /\ l \notin proc[q].route /\ m \in proc[q].route
      BY <3>2 DEF Between
    <3>4. q # p /\ proc'[q] = proc[q]
      BY <2>1, <3>3 DEF Setting
    <3>5. QED
      BY <3>3, <3>4 DEF Between, Setting
  <2>2. CASE x = id
    BY <2>2
  <2>3. QED
    BY <2>1, <2>2
<1>7. QED
  BY <1>3, <1>4, <1>5, <1>6 DEF SyncInv

LEMMA DeleteKeepsSync ==
  ASSUME IInv, RefusedInv, HoldInv, SyncInv, ~Faults, NEW p \in Procs, DeleteStep(p)
  PROVE  SyncInv'
<1> SUFFICES ASSUME NEW id, id = proc[p].arg PROVE SyncInv'
  OBVIOUS
<1>1. /\ WriteLayers \subseteq LayerIds /\ LayerIds \subseteq Nat
      /\ content \in [LayerIds -> [Ids -> Statuses]]
      /\ proc[p].pc = "delete" =>
           /\ id \in Ids /\ id \in known
           /\ proc[p].route \subseteq WriteLayers
           /\ \A l \in proc[p].route, m \in WriteLayers : l <= m => m \in proc[p].route
           /\ \A l \in WriteLayers \ proc[p].route : content[l][id] = "none"
      /\ \A l, m \in WriteLayers :
           proc[p].pc = "delete" /\ content[l][id] = "none" /\ content[m][id] # "none" =>
             Between(id, l, m)
  BY Bounds, LayerFacts DEF IInv, TypeOK, SyncInv, RouteInv, RemoveInv, ApartInv
\* What of Between outlives the step of p.
<1>2. ASSUME NEW l, NEW m, Between(id, l, m), proc[p].pc = "delete",
             \A q \in Procs : q # p => proc'[q] = proc[q],
             l \in proc[p].route \/ m \notin proc[p].route
      PROVE  \/ \E q \in Procs : /\ q # p /\ proc'[q] = proc[q]
                                /\ Setting(q, id) /\ l \in proc[q].route
             \/ \E q \in Procs : /\ q # p /\ proc'[q] = proc[q]
                                /\ proc[q].pc = "delete" /\ proc[q].arg = id
                                /\ l \notin proc[q].route /\ m \in proc[q].route
  BY <1>2 DEF Between, Setting, SetLabels
<1>3. ASSUME NEW l \in LayerIds, DeletePasses(p, l)
      PROVE  SyncInv'
  <2>1. /\ proc[p].pc = "delete" /\ First(proc[p].route, l) /\ known' = known
        /\ proc'[p].pc = "delete" /\ proc'[p].arg = id
        /\ proc'[p].route = proc[p].route \ {l} /\ proc'[p].found = proc[p].found
        /\ \A q \in Procs : q # p => proc'[q] = proc[q]
    BY <1>3 DEF DeletePasses, Silent, Follows, Moved
  <2>2. /\ content'[l][id] = "none"
        /\ \A m \in LayerIds : m # l => content'[m] = content[m]
        /\ \A m \in LayerIds, x \in Ids :
             \/ content'[m][x] = content[m][x]
             \/ content'[m][x] = "none" /\ x = id
    BY <1>1, <1>3, <2>1 DEF DeletePasses, Put
  <2>3. \A m \in proc'[p].route, n \in WriteLayers : m <= n => n \in proc'[p].route
    <3>1. ASSUME NEW m \in proc[p].route \ {l}
          PROVE  m \in Nat /\ l \in Nat /\ l <= m /\ m # l
      BY <1>1, <2>1 DEF First
    <3>2. \A m \in proc[p].route \ {l} : ~(m <= l)
      BY <3>1
    <3>3. QED
      BY <1>1, <2>1, <3>2
  <2>4. \A m \in WriteLayers \ proc'[p].route : content'[m][id] = "none"
    BY <1>1, <2>1, <2>2
  <2>5. ASSUME NEW m \in WriteLayers, NEW n \in WriteLayers,
               content'[m][id] = "none", content'[n][id] # "none"
        PROVE  Between(id, m, n)'
    <3>1. n \in proc'[p].route
      BY <2>4, <2>5
    <3>2. CASE m \notin proc'[p].route
      BY <2>1, <3>1, <3>2 DEF Between
    <3>3. CASE m \in proc'[p].route
      <4>1. Between(id, m, n) /\ m \in proc[p].route
        BY <1>1, <2>1, <2>2, <2>5, <3>1, <3>3
      <4>2. QED
        BY <1>2, <2>1, <4>1 DEF Between, Setting
    <3>4. QED
      BY <3>2, <3>3
  <2>6. QED
    BY <1>1, <2>1, <2>2, <2>3, <2>4, <2>5, DeleteSync
<1>4. ASSUME NEW l \in LayerIds, DeleteFails(p), First(proc[p].route, l),
             content[l][id] = "none"
      PROVE  SyncInv'
  <2>1. /\ proc[p].pc = "delete" /\ known' = known /\ content' = content
        /\ proc'[p] = Idle /\ \A q \in Procs : q # p => proc'[q] = proc[q]
        /\ l \in proc[p].route /\ l \in WriteLayers
    BY <1>1, <1>4 DEF DeleteFails, Silent, Entered, First
  <2>2. ASSUME NEW m \in WriteLayers, NEW n \in WriteLayers,
               content[m][id] = "none", content[n][id] # "none"
        PROVE  Between(id, m, n)'
    <3>1. n \in proc[p].route /\ Between(id, m, n) /\ Between(id, l, n)
      BY <1>1, <1>4, <2>1, <2>2
    <3>2. CASE m \in proc[p].route
      BY <1>2, <2>1, <3>1, <3>2 DEF Between, Setting
    <3>3. CASE m \notin proc[p].route
      <4>1. m <= l
        <5>1. m \in Nat /\ l \in Nat /\ ~(l <= m)
          BY <1>1, <2>1, <3>3
        <5>2. QED
          BY <5>1
      \* No Set has layer l ahead of it: it would hold the file p found missing.
      <4>2. \A q \in Procs : Setting(q, id) => l \notin proc[q].route
        <5>1. ASSUME NEW q \in Procs, Setting(q, id), l \in proc[q].route
              PROVE  FALSE
          <6>1. /\ proc[q].pc = "verify" /\ proc[q].route = {l}
                /\ proc[q].arg = id
            BY <1>1, <2>1, <5>1 DEF SyncInv, PutInv, Setting, Learned, Complete
          <6>2. Holds(q, l)
            BY <1>1, <2>1, <6>1 DEF Holds, Holding, First
          <6>3. QED
            BY <1>4, <6>1, <6>2 DEF RefusedInv
        <5>2. QED
          BY <5>1
      <4>3. PICK q \in Procs : /\ q # p /\ proc'[q] = proc[q]
                               /\ proc[q].pc = "delete" /\ proc[q].arg = id
                               /\ l \notin proc[q].route /\ n \in proc[q].route
        BY <1>2, <2>1, <3>1, <4>2
      <4>4. m \notin proc[q].route
        BY <2>1, <4>1, <4>3 DEF SyncInv, RouteInv
      <4>5. QED
        BY <2>1, <4>3, <4>4 DEF Between
    <3>4. QED
      BY <3>2, <3>3
  <2>3. proc'[p].pc = "idle" /\ proc'[p].found = {}
    BY <2>1 DEF Idle
  <2>4. QED
    BY <1>1, <2>1, <2>2, <2>3, DeleteSync
<1>5. CASE DeletionReturns(p)
  <2>1. /\ proc[p].pc = "delete" /\ proc[p].route = {}
        /\ known' = known /\ content' = content
        /\ proc'[p] = Idle /\ \A q \in Procs : q # p => proc'[q] = proc[q]
    BY <1>5 DEF DeletionReturns, Entered, SyncInv, RouteInv
  <2>2. ASSUME NEW m \in WriteLayers, NEW n \in WriteLayers,
               content[m][id] = "none", content[n][id] # "none"
        PROVE  Between(id, m, n)'
    BY <1>1, <2>1, <2>2
  <2>3. proc'[p].pc = "idle" /\ proc'[p].found = {}
    BY <2>1 DEF Idle
  <2>4. QED
    BY <1>1, <2>1, <2>2, <2>3, DeleteSync
<1>6. QED
  BY <1>3, <1>4, <1>5, DeleteSteady DEF IInv

-----------------------------------------------------------------------------
(* The theorem *)

Orderly == Steady /\ FoundLast /\ "DeleteAllEmails" \notin Workload

LEMMA SyncInit == Init => SyncInv
<1> SUFFICES ASSUME Init PROVE SyncInv
  OBVIOUS
<1>1. /\ \A l \in LayerIds, id \in Ids : content[l][id] = "none"
      /\ \A p \in Procs : proc[p].pc = "idle"
  BY IdleFacts DEF Init
<1>2. WriteLayers \subseteq LayerIds
  BY LayerFacts
<1>3. QED
  BY <1>1, <1>2 DEF SyncInv, RouteInv, PutInv, RemoveInv, ApartInv, SetLabels, PurgeLabels

LEMMA SyncNext ==
  /\ IInv /\ ServingInv /\ HoldInv /\ RefusedInv /\ Orderly
  /\ SyncInv /\ [Next]_vars
  => SyncInv'
<1> SUFFICES ASSUME IInv, ServingInv, HoldInv, RefusedInv, Orderly, SyncInv, [Next]_vars
             PROVE  SyncInv'
  OBVIOUS
<1> USE DEF Orderly, Steady
<1>1. ASSUME NEW p \in Procs, DeleteAllStep(p)
      PROVE  FALSE
  <2>1. proc[p].pc \in PurgeLabels
    BY <1>1
       DEF DeleteAllStep, DeleteAllMemory, DeleteAllSqlite, DeleteAllGlob,
           DeleteAllRemove, DeleteAllUnlock, DeleteAllReturn, At, Done, PurgeLabels
  <2>2. QED
    BY <2>1 DEF SyncInv, RouteInv
<1>2. ASSUME NEW p \in Procs, Start(p) \/ Step(p)
      PROVE  SyncInv'
  BY <1>1, <1>2, StartSync, SetKeepsSync, AcknowledgeSync, DeleteKeepsSync,
     SearchKeepsSync DEF Step
<1>3. CASE LoadStep \/ Crash
  BY <1>3, NoBoot
<1>4. CASE UNCHANGED vars
  BY <1>4 DEF vars, store, history, SyncInv, RouteInv, PutInv, RemoveInv, ApartInv,
     Between, Setting, Holds, Learned, Complete
<1>5. QED
  BY <1>2, <1>3, <1>4 DEF Next

\* While nothing fails and the process runs, and nobody empties the engine as a
\* whole, the writable layers hold the same mails whenever no call is under way:
\* Sets, deletions by id and searches in any number and any order leave them in
\* step, if a search answers from the last layer that takes writes.
THEOREM InSyncHolds == Spec => [](Orderly => InSync)
<1>1. ASSUME IInv, SyncInv
      PROVE  InSync
  <2> SUFFICES ASSUME Quiet, NEW l \in WriteLayers, NEW m \in WriteLayers,
                      NEW id \in Ids, content[l][id] # "none"
               PROVE  content[m][id] # "none"
    BY DEF InSync, Present
  <2>1. ~Between(id, m, l)
    BY DEF Quiet, Between, Setting, SetLabels
  <2>2. QED
    BY <1>1, <2>1 DEF SyncInv, ApartInv
<1>2. CASE Orderly
  <2>1. Steady
    BY <1>2 DEF Orderly
  <2>2. QED
    BY <1>1, <1>2, <2>1, InductiveInvariant, ServingInit, ServingNext, HoldInit,
       HoldNext, RefusedInit, RefusedNext, SyncInit, SyncNext, PTL DEF Spec
<1>3. CASE ~Orderly
  BY <1>3, PTL
<1>4. QED
  BY <1>2, <1>3

\* The condition is met by the default layers: the cache answers no search.
LEMMA ShippedLayersFoundLast ==
  ASSUME Layers = << [type |-> "MEMORY", scope |-> {"read", "cache"}],
                     [type |-> "FILESYSTEM", scope |-> {"all"}] >>
  PROVE  FoundLast /\ WriteLayers = {1, 2}
<1>1. /\ LayerIds = {1, 2}
      /\ EffectiveScope(1) = {"read", "cache"} /\ EffectiveScope(2) = {"all"}
  BY DEF LayerIds, EffectiveScope
<1>2. SearchLayers = {2} /\ WriteLayers = {1, 2}
  BY <1>1 DEF SearchLayers, WriteLayers, IsWritable, HasScope
<1>3. QED
  BY <1>2 DEF FoundLast, First

-----------------------------------------------------------------------------
(* The MEMORY layer by itself: its attachments, for any mails. The invariant *)
(* is stronger than AttachmentsMatch, which looks at mails that are listed,  *)
(* which they are from one step to the next. What the layer holds of each    *)
(* attachment says what it will then be.                                     *)

\* An attachment of a mail that is being stored is yet to come, there, or lost.
StoringInv(id, att) ==
  progress[id] = "storing" =>
    /\ id \notin headers
    /\ att \in todo[id] => /\ att \in AttachmentsOf[id]
                           /\ <<id, att>> \notin attachment \cup lost
    /\ att \in AttachmentsOf[id] \ todo[id] =>
         (<<id, att>> \in attachment <=> <<id, att>> \notin lost)

\* What there is of an attachment is of a mail that has it.
OwnedInv(id, att) ==
  /\ <<id, att>> \in attachment =>
       /\ att \in AttachmentsOf[id]
       /\ <<id, att>> \in attachments \/ progress[id] = "storing"
  /\ <<id, att>> \in attachments => id \in headers
  /\ progress[id] = "new" =>
       id \notin headers /\ <<id, att>> \notin attachment \cup lost

ListedInv(id, att) ==
  <<id, att>> \in attachments => (<<id, att>> \in attachment <=> <<id, att>> \notin lost)

MemoryInv ==
  /\ MemoryTypeOK
  /\ \A id \in Mails, att \in Attachments :
       StoringInv(id, att) /\ OwnedInv(id, att) /\ ListedInv(id, att)

USE MemoryAssumption

\* The pairs of a mail, member by member.
LEMMA Pairs ==
  ASSUME NEW id \in Mails
  PROVE  /\ PairsOf(id) \subseteq Mails \X Attachments
         /\ \A m \in Mails, att \in Attachments :
              <<m, att>> \in PairsOf(id) <=> m = id /\ att \in AttachmentsOf[id]
BY DEF PairsOf

\* What hydration leaves, when found is what it enters and listed the mails whose
\* attachments it could list.
Loaded(found, listed) ==
  /\ listed \subseteq found
  /\ headers' = found /\ rawEmails' \subseteq found
  /\ attachments' = UNION {PairsOf(id) : id \in listed}
  /\ attachment' \subseteq attachments' /\ lost' = attachments' \ attachment'
  /\ progress' = [id \in Mails |-> IF id \in found THEN "over" ELSE "new"]

LEMMA LoadFacts ==
  LoadCache => \E found \in SUBSET Mails, listed \in SUBSET Mails : Loaded(found, listed)
BY DEF LoadCache, Loaded

\* At the start there is nothing.
LEMMA MemoryInitInv == MemoryInit => MemoryInv
BY DEF MemoryInit, MemoryInv, MemoryTypeOK, StoringInv, OwnedInv, ListedInv

\* Each step leaves the types as they are.
LEMMA MemoryTypeNext == MemoryTypeOK /\ [MemoryNext]_memoryVars => MemoryTypeOK'
<1> SUFFICES ASSUME MemoryTypeOK, [MemoryNext]_memoryVars PROVE MemoryTypeOK'
  OBVIOUS
<1> USE DEF MemoryTypeOK, cache
<1>1. CASE LoadCache
  <2>1. PICK found \in SUBSET Mails, listed \in SUBSET Mails : Loaded(found, listed)
    BY <1>1, LoadFacts
  <2>2. UNION {PairsOf(id) : id \in listed} \subseteq Mails \X Attachments
    BY Pairs
  <2> QED BY <1>1, <2>1, <2>2 DEF LoadCache, Loaded
<1>2. CASE DeleteAllMails  BY <1>2 DEF DeleteAllMails
<1>3. ASSUME NEW id \in Mails, SetParses(id) PROVE MemoryTypeOK'
  BY <1>3 DEF SetParses
<1>4. ASSUME NEW id \in Mails, SetMail(id) PROVE MemoryTypeOK'
  BY <1>4, Pairs DEF SetMail
<1>5. ASSUME NEW id \in Mails, DeleteMail(id) PROVE MemoryTypeOK'
  BY <1>5 DEF DeleteMail
<1>6. ASSUME NEW id \in Mails, NEW att \in Attachments, SetAttachment(id, att)
      PROVE  MemoryTypeOK'
  BY <1>6 DEF SetAttachment
<1>7. CASE UNCHANGED memoryVars  BY <1>7 DEF memoryVars
<1> QED BY <1>1, <1>2, <1>3, <1>4, <1>5, <1>6, <1>7 DEF MemoryNext

\* Hydration: what is listed is opened or lost, and nothing is being stored.
LEMMA CacheLoadKeeps ==
  ASSUME MemoryTypeOK, LoadCache, NEW m \in Mails, NEW att \in Attachments
  PROVE  (StoringInv(m, att) /\ OwnedInv(m, att) /\ ListedInv(m, att))'
<1>1. PICK found \in SUBSET Mails, listed \in SUBSET Mails : Loaded(found, listed)
  BY LoadFacts
<1>2. <<m, att>> \in attachments' => m \in listed /\ att \in AttachmentsOf[m]
  BY <1>1, Pairs DEF Loaded
<1>3. attachment' \subseteq attachments' /\ lost' = attachments' \ attachment'
  BY <1>1 DEF Loaded
<1>4. /\ progress'[m] = IF m \in found THEN "over" ELSE "new"
      /\ headers' = found /\ listed \subseteq found
  BY <1>1 DEF Loaded
<1> QED BY <1>1, <1>2, <1>3, <1>4 DEF StoringInv, OwnedInv, ListedInv

\* Every step keeps what the invariant says of each attachment.
LEMMA MemoryInvNext == MemoryInv /\ [MemoryNext]_memoryVars => MemoryInv'
<1> SUFFICES ASSUME MemoryInv, [MemoryNext]_memoryVars,
                    NEW m \in Mails, NEW att \in Attachments
             PROVE  (StoringInv(m, att) /\ OwnedInv(m, att) /\ ListedInv(m, att))'
  BY MemoryTypeNext DEF MemoryInv
<1>0. MemoryTypeOK /\ StoringInv(m, att) /\ OwnedInv(m, att) /\ ListedInv(m, att)
  BY DEF MemoryInv
<1> DEFINE Kept == (StoringInv(m, att) /\ OwnedInv(m, att) /\ ListedInv(m, att))'
<1> USE <1>0 DEF MemoryTypeOK, cache, StoringInv, OwnedInv, ListedInv
<1>1. CASE LoadCache  BY <1>1, CacheLoadKeeps
<1>2. CASE DeleteAllMails  BY <1>2 DEF DeleteAllMails
<1>3. ASSUME NEW id \in Mails, SetParses(id) PROVE Kept
  BY <1>3 DEF SetParses
<1>4. ASSUME NEW id \in Mails, SetMail(id) PROVE Kept
  BY <1>4, Pairs DEF SetMail
<1>5. ASSUME NEW id \in Mails, DeleteMail(id) PROVE Kept
  BY <1>5 DEF DeleteMail
<1>6. ASSUME NEW id \in Mails, NEW new \in Attachments, SetAttachment(id, new)
      PROVE  Kept
  BY <1>6 DEF SetAttachment
<1>7. CASE UNCHANGED memoryVars  BY <1>7 DEF memoryVars
<1> QED BY <1>1, <1>2, <1>3, <1>4, <1>5, <1>6, <1>7 DEF MemoryNext

-----------------------------------------------------------------------------
\* Whatever mails arrive while others are deleted one by one or all at once, the
\* attachments the MEMORY layer lists are those it can open, but for the lost
\* ones, and it keeps none that nobody lists.
THEOREM AttachmentsMatchHolds == MemorySpec => []AttachmentsMatch
<1>1. MemoryInv => AttachmentsMatch
  BY DEF MemoryInv, MemoryTypeOK, OwnedInv, ListedInv, AttachmentsMatch, Lists, Serves
<1> QED BY MemoryInitInv, MemoryInvNext, <1>1, PTL DEF MemorySpec
=============================================================================
