------------------------- MODULE StorageEngineSafety -------------------------
(***************************************************************************)
(* TypeOK, Durable and ErasedStaysErased hold in every behaviour of the     *)
(* engine, for any layers, any mails and any goroutines, with and without   *)
(* failures and crashes. The proof goes through IInv, the inductive         *)
(* invariant of StorageEngineProps: the actions are first put into a few    *)
(* classes by their effect, and each class keeps each part of IInv.         *)
(***************************************************************************)
EXTENDS StorageEngineProps, TLAPS

\* Facts about the constants that every proof below needs.
LEMMA LayerFacts ==
  /\ Root \in LayerIds /\ Root \in Nat /\ LayerIds \subseteq Nat /\ 0 \notin LayerIds
  /\ WriteLayers \subseteq LayerIds /\ SearchLayers \subseteq LayerIds
  /\ \A l \in LayerIds : l - 1 \in 0..Root
  /\ \A R \in SUBSET LayerIds : \A l, m : First(R, l) /\ First(R, m) => l = m
<1>1. Len(Layers) \in Nat \ {0}
  BY LayersAssumption
<1>2. /\ Root \in LayerIds /\ Root \in Nat /\ LayerIds \subseteq Nat /\ 0 \notin LayerIds
      /\ \A l \in LayerIds : l - 1 \in 0..Root
  BY <1>1 DEF Root, LayerIds
<1>3. WriteLayers \subseteq LayerIds /\ SearchLayers \subseteq LayerIds
  BY DEF WriteLayers, SearchLayers
<1>4. ASSUME NEW R \in SUBSET LayerIds, NEW l, NEW m, First(R, l), First(R, m)
      PROVE  l = m
  <2>1. l \in Nat /\ m \in Nat /\ l <= m /\ m <= l
    BY <1>2, <1>4 DEF First
  <2>2. QED
    BY <2>1
<1>5. QED
  BY <1>2, <1>3, <1>4

LEMMA IdleFacts == Idle \in Call /\ Idle.pc = "idle"
  BY DEF Idle, Call, Labels

\* The record of a call keeps its type under every update an action makes.
LEMMA CallFacts ==
  ASSUME NEW c \in Call
  PROVE  /\ c.pc \in Labels /\ c.arg \in Ids \cup {None} /\ c.errs \in BOOLEAN
         /\ c.route \subseteq LayerIds
         /\ c.todo \subseteq Ids /\ c.found \subseteq Ids /\ c.owed \subseteq Ids
  BY DEF Call

LEMMA CallUpdates ==
  ASSUME NEW c \in Call, NEW x \in Labels, NEW R \in SUBSET LayerIds,
         NEW S \in SUBSET Ids, NEW T \in SUBSET Ids
  PROVE  /\ [c EXCEPT !.pc = x] \in Call
         /\ [c EXCEPT !.route = R] \in Call
         /\ [c EXCEPT !.pc = x, !.route = R] \in Call
         /\ [c EXCEPT !.route = R, !.errs = TRUE] \in Call
         /\ [c EXCEPT !.pc = x, !.todo = S] \in Call
         /\ [c EXCEPT !.pc = x, !.found = S] \in Call
         /\ [c EXCEPT !.todo = S] \in Call
         /\ [c EXCEPT !.todo = S, !.errs = TRUE] \in Call
         /\ [c EXCEPT !.todo = S, !.found = T] \in Call
  BY DEF Call

LEMMA FreshCalls ==
  ASSUME NEW x \in Labels, NEW R \in SUBSET LayerIds, NEW S \in SUBSET Ids
  PROVE  /\ [Idle EXCEPT !.pc = x, !.route = R, !.owed = S] \in Call
         /\ \A id \in Ids : /\ [Idle EXCEPT !.pc = x, !.arg = id, !.route = R] \in Call
                           /\ [Idle EXCEPT !.pc = x, !.arg = id, !.route = R, !.owed = S] \in Call
  BY DEF Idle, Call, Labels

LEMMA LabelFacts ==
  {"idle", "set", "write", "verify", "delete", "deleteAll", "remove",
   "search", "scan", "found", "failed"} = Labels
  BY DEF Labels

-----------------------------------------------------------------------------
(* How an action changes the call of its goroutine *)

\* Goroutine p goes on with its call: where it is, the layers it has left, its
\* lists and its error flag become the arguments; the rest of it stays.
Moved(p, pc, route, todo, found, errs) ==
  /\ proc' \in [Procs -> Call]
  /\ \A q \in Procs : q # p => proc'[q] = proc[q]
  /\ proc'[p].pc = pc /\ proc'[p].route = route /\ proc'[p].todo = todo
  /\ proc'[p].found = found /\ proc'[p].errs = errs
  /\ proc'[p].arg = proc[p].arg /\ proc'[p].owed = proc[p].owed

\* Goroutine p has left the engine, or enters it with call c.
Entered(p, c) ==
  /\ proc' \in [Procs -> Call]
  /\ \A q \in Procs : q # p => proc'[q] = proc[q]
  /\ proc'[p] = c

LEMMA BecomeFacts ==
  ASSUME TypeOK, NEW p \in Procs, NEW c \in Call, Become(p, c)
  PROVE  Entered(p, c)
  BY DEF TypeOK, Become, Entered

LEMMA ReturnFacts ==
  ASSUME TypeOK, NEW p \in Procs, Return(p)
  PROVE  Entered(p, Idle)
  BY IdleFacts, BecomeFacts DEF Return

\* The assignments of the actions, one form after the other.
LEMMA MovedFacts ==
  ASSUME TypeOK, NEW p \in Procs, NEW d \in Call, Become(p, d),
         d.arg = proc[p].arg, d.owed = proc[p].owed
  PROVE  Moved(p, d.pc, d.route, d.todo, d.found, d.errs)
  BY BecomeFacts DEF Entered, Moved

LEMMA MovePc ==
  ASSUME TypeOK, NEW p \in Procs, NEW x \in Labels,
         Become(p, [proc[p] EXCEPT !.pc = x])
  PROVE  Moved(p, x, proc[p].route, proc[p].todo, proc[p].found, proc[p].errs)
<1> DEFINE d == [proc[p] EXCEPT !.pc = x]
<1>1. proc[p] \in Call
  BY DEF TypeOK
<1>2. d \in Call
  BY <1>1, CallUpdates, LayerFacts
<1>3. /\ d.pc = x /\ d.route = proc[p].route /\ d.todo = proc[p].todo
      /\ d.found = proc[p].found /\ d.errs = proc[p].errs
      /\ d.arg = proc[p].arg /\ d.owed = proc[p].owed
  BY <1>1 DEF Call
<1>4. QED
  BY <1>2, <1>3, MovedFacts

LEMMA MoveAdvance ==
  ASSUME TypeOK, NEW p \in Procs, NEW l \in LayerIds, Advance(p, l)
  PROVE  Moved(p, proc[p].pc, proc[p].route \ {l}, proc[p].todo, proc[p].found, proc[p].errs)
<1> DEFINE d == [proc[p] EXCEPT !.route = @ \ {l}]
<1>1. proc[p] \in Call
  BY DEF TypeOK
<1>2. d \in Call
  BY <1>1, CallUpdates, CallFacts, LabelFacts, LayerFacts
<1>3. /\ d.pc = proc[p].pc /\ d.route = proc[p].route \ {l} /\ d.todo = proc[p].todo
      /\ d.found = proc[p].found /\ d.errs = proc[p].errs
      /\ d.arg = proc[p].arg /\ d.owed = proc[p].owed
  BY <1>1 DEF Call
<1>4. QED
  BY <1>2, <1>3, MovedFacts DEF Advance

LEMMA MovePcRoute ==
  ASSUME TypeOK, NEW p \in Procs, NEW x \in Labels, NEW l \in LayerIds,
         Become(p, [proc[p] EXCEPT !.pc = x, !.route = @ \ {l}])
  PROVE  Moved(p, x, proc[p].route \ {l}, proc[p].todo, proc[p].found, proc[p].errs)
<1> DEFINE d == [proc[p] EXCEPT !.pc = x, !.route = @ \ {l}]
<1>1. proc[p] \in Call
  BY DEF TypeOK
<1>2. d \in Call
  BY <1>1, CallUpdates, CallFacts, LabelFacts, LayerFacts
<1>3. /\ d.pc = x /\ d.route = proc[p].route \ {l} /\ d.todo = proc[p].todo
      /\ d.found = proc[p].found /\ d.errs = proc[p].errs
      /\ d.arg = proc[p].arg /\ d.owed = proc[p].owed
  BY <1>1 DEF Call
<1>4. QED
  BY <1>2, <1>3, MovedFacts

LEMMA MoveRouteErrs ==
  ASSUME TypeOK, NEW p \in Procs, NEW l \in LayerIds,
         Become(p, [proc[p] EXCEPT !.route = @ \ {l}, !.errs = TRUE])
  PROVE  Moved(p, proc[p].pc, proc[p].route \ {l}, proc[p].todo, proc[p].found, TRUE)
<1> DEFINE d == [proc[p] EXCEPT !.route = @ \ {l}, !.errs = TRUE]
<1>1. proc[p] \in Call
  BY DEF TypeOK
<1>2. d \in Call
  BY <1>1, CallUpdates, CallFacts, LabelFacts, LayerFacts
<1>3. /\ d.pc = proc[p].pc /\ d.route = proc[p].route \ {l} /\ d.todo = proc[p].todo
      /\ d.found = proc[p].found /\ d.errs = TRUE
      /\ d.arg = proc[p].arg /\ d.owed = proc[p].owed
  BY <1>1 DEF Call
<1>4. QED
  BY <1>2, <1>3, MovedFacts

LEMMA MovePcTodo ==
  ASSUME TypeOK, NEW p \in Procs, NEW x \in Labels, NEW S \in SUBSET Ids,
         Become(p, [proc[p] EXCEPT !.pc = x, !.todo = S])
  PROVE  Moved(p, x, proc[p].route, S, proc[p].found, proc[p].errs)
<1> DEFINE d == [proc[p] EXCEPT !.pc = x, !.todo = S]
<1>1. proc[p] \in Call
  BY DEF TypeOK
<1>2. d \in Call
  BY <1>1, CallUpdates, CallFacts, LabelFacts, LayerFacts
<1>3. /\ d.pc = x /\ d.route = proc[p].route /\ d.todo = S
      /\ d.found = proc[p].found /\ d.errs = proc[p].errs
      /\ d.arg = proc[p].arg /\ d.owed = proc[p].owed
  BY <1>1 DEF Call
<1>4. QED
  BY <1>2, <1>3, MovedFacts

LEMMA MovePcFound ==
  ASSUME TypeOK, NEW p \in Procs, NEW x \in Labels, NEW S \in SUBSET Ids,
         Become(p, [proc[p] EXCEPT !.pc = x, !.found = S])
  PROVE  Moved(p, x, proc[p].route, proc[p].todo, S, proc[p].errs)
<1> DEFINE d == [proc[p] EXCEPT !.pc = x, !.found = S]
<1>1. proc[p] \in Call
  BY DEF TypeOK
<1>2. d \in Call
  BY <1>1, CallUpdates, CallFacts, LabelFacts, LayerFacts
<1>3. /\ d.pc = x /\ d.route = proc[p].route /\ d.todo = proc[p].todo
      /\ d.found = S /\ d.errs = proc[p].errs
      /\ d.arg = proc[p].arg /\ d.owed = proc[p].owed
  BY <1>1 DEF Call
<1>4. QED
  BY <1>2, <1>3, MovedFacts

LEMMA MoveTodo ==
  ASSUME TypeOK, NEW p \in Procs, NEW id \in Ids,
         Become(p, [proc[p] EXCEPT !.todo = @ \ {id}])
  PROVE  Moved(p, proc[p].pc, proc[p].route, proc[p].todo \ {id}, proc[p].found, proc[p].errs)
<1> DEFINE d == [proc[p] EXCEPT !.todo = @ \ {id}]
<1>1. proc[p] \in Call
  BY DEF TypeOK
<1>2. d \in Call
  BY <1>1, CallUpdates, CallFacts, LabelFacts, LayerFacts
<1>3. /\ d.pc = proc[p].pc /\ d.route = proc[p].route /\ d.todo = proc[p].todo \ {id}
      /\ d.found = proc[p].found /\ d.errs = proc[p].errs
      /\ d.arg = proc[p].arg /\ d.owed = proc[p].owed
  BY <1>1 DEF Call
<1>4. QED
  BY <1>2, <1>3, MovedFacts

LEMMA MoveTodoErrs ==
  ASSUME TypeOK, NEW p \in Procs, NEW id \in Ids,
         Become(p, [proc[p] EXCEPT !.todo = @ \ {id}, !.errs = TRUE])
  PROVE  Moved(p, proc[p].pc, proc[p].route, proc[p].todo \ {id}, proc[p].found, TRUE)
<1> DEFINE d == [proc[p] EXCEPT !.todo = @ \ {id}, !.errs = TRUE]
<1>1. proc[p] \in Call
  BY DEF TypeOK
<1>2. d \in Call
  BY <1>1, CallUpdates, CallFacts, LabelFacts, LayerFacts
<1>3. /\ d.pc = proc[p].pc /\ d.route = proc[p].route /\ d.todo = proc[p].todo \ {id}
      /\ d.found = proc[p].found /\ d.errs = TRUE
      /\ d.arg = proc[p].arg /\ d.owed = proc[p].owed
  BY <1>1 DEF Call
<1>4. QED
  BY <1>2, <1>3, MovedFacts

LEMMA MoveTodoFound ==
  ASSUME TypeOK, NEW p \in Procs, NEW id \in Ids,
         Become(p, [proc[p] EXCEPT !.todo = @ \ {id}, !.found = @ \cup {id}])
  PROVE  Moved(p, proc[p].pc, proc[p].route, proc[p].todo \ {id}, proc[p].found \cup {id}, proc[p].errs)
<1> DEFINE d == [proc[p] EXCEPT !.todo = @ \ {id}, !.found = @ \cup {id}]
<1>1. proc[p] \in Call
  BY DEF TypeOK
<1>2. d \in Call
  <2>1. proc[p].todo \ {id} \subseteq Ids /\ proc[p].found \cup {id} \subseteq Ids
    BY <1>1, CallFacts
  <2>2. QED
    BY <1>1, <2>1, CallUpdates, LabelFacts, LayerFacts
<1>3. /\ d.pc = proc[p].pc /\ d.route = proc[p].route /\ d.todo = proc[p].todo \ {id}
      /\ d.found = proc[p].found \cup {id} /\ d.errs = proc[p].errs
      /\ d.arg = proc[p].arg /\ d.owed = proc[p].owed
  BY <1>1 DEF Call
<1>4. QED
  BY <1>2, <1>3, MovedFacts

-----------------------------------------------------------------------------
(* Type correctness *)

LEMMA TypeInit == Init => TypeOK
<1> SUFFICES ASSUME Init PROVE TypeOK
  OBVIOUS
<1>1. content \in [LayerIds -> [Ids -> Statuses]]
  BY DEF Init, Statuses
<1>2. /\ proc \in [Procs -> Call]
      /\ \A p \in Procs : proc[p].pc = "idle"
  BY IdleFacts DEF Init
<1>3. QED
  BY <1>1, <1>2, LayerFacts, EngineAssumption DEF Init, TypeOK, SetLabels

\* The calls keep their type when one of them moves on or is replaced.
CallsOK ==
  /\ proc \in [Procs -> Call]
  /\ \A p \in Procs : proc[p].pc \in SetLabels \cup {"delete"} => proc[p].arg \in Ids

LEMMA CallsMoved ==
  ASSUME TypeOK, NEW p \in Procs, NEW pc, NEW route, NEW todo, NEW found, NEW errs,
         Moved(p, pc, route, todo, found, errs),
         pc \in SetLabels \cup {"delete"} => proc[p].arg \in Ids
  PROVE  CallsOK'
  BY DEF TypeOK, CallsOK, Moved

LEMMA CallsEntered ==
  ASSUME TypeOK, NEW p \in Procs, NEW c, Entered(p, c),
         c.pc \in SetLabels \cup {"delete"} => c.arg \in Ids
  PROVE  CallsOK'
  BY DEF TypeOK, CallsOK, Entered

LEMMA CallsReturned ==
  ASSUME TypeOK, NEW p \in Procs, Return(p)
  PROVE  CallsOK'
  BY ReturnFacts, CallsEntered, IdleFacts DEF SetLabels

LEMMA TypeSet ==
  ASSUME TypeOK, NEW p \in Procs, SetStep(p)
  PROVE  TypeOK'
<1>1. CallsOK'
  <2>1. proc[p].pc \in SetLabels /\ proc[p].arg \in Ids
    BY DEF TypeOK, SetStep, SetMemory, SetSqlite, SetCreate, SetWrite,
       SetVerify, SetReturn, At, Done, SetLabels
  <2>2. \/ Return(p)
        \/ \E l \in LayerIds : Advance(p, l)
        \/ \E l \in LayerIds : Become(p, [proc[p] EXCEPT !.pc = "set", !.route = @ \ {l}])
        \/ Become(p, [proc[p] EXCEPT !.pc = "write"])
        \/ Become(p, [proc[p] EXCEPT !.pc = "verify"])
    BY DEF SetStep, SetMemory, SetSqlite, SetCreate, SetWrite, SetVerify, SetReturn
  <2>3. ASSUME NEW l \in LayerIds, Advance(p, l) PROVE CallsOK'
    BY <2>1, <2>3, CallsMoved, MoveAdvance
  <2>4. "set" \in Labels /\ "write" \in Labels /\ "verify" \in Labels
    BY LabelFacts
  <2>5. ASSUME NEW l \in LayerIds,
               Become(p, [proc[p] EXCEPT !.pc = "set", !.route = @ \ {l}])
        PROVE  CallsOK'
    BY <2>1, <2>4, <2>5, CallsMoved, MovePcRoute
  <2>6. ASSUME NEW x \in {"write", "verify"}, Become(p, [proc[p] EXCEPT !.pc = x])
        PROVE  CallsOK'
    BY <2>1, <2>4, <2>6, CallsMoved, MovePc
  <2>7. CASE Return(p)
    BY <2>7, CallsReturned
  <2>8. QED
    BY <2>2, <2>3, <2>5, <2>6, <2>7
<1>2. content' \in [LayerIds -> [Ids -> Statuses]]
  <2>1. \/ content' = content
        \/ \E l \in LayerIds, s \in Statuses : content' = [content EXCEPT ![l][proc[p].arg] = s]
    BY DEF Statuses, SetStep, SetMemory, SetSqlite, SetCreate, SetWrite,
       SetVerify, SetReturn, store
  <2>2. QED
    BY <2>1 DEF TypeOK
<1>3. lock' \in [LayerIds -> Procs \cup {None}]
  BY DEF TypeOK, SetStep, SetMemory, SetSqlite, SetCreate, SetWrite,
     SetVerify, SetReturn, store, Release
<1>4. (/\ loading \in 0..Root /\ rows \subseteq Ids /\ crashes \in 0..MaxCrashes
       /\ minted \subseteq Ids /\ acked \subseteq Ids /\ known \subseteq Ids
       /\ touched \subseteq Ids /\ erased \subseteq Ids)'
  BY DEF TypeOK, SetStep, SetMemory, SetSqlite, SetCreate, SetWrite, SetVerify,
     SetReturn, boot, history, Done, SetLabels
<1>5. QED
  BY <1>1, <1>2, <1>3, <1>4 DEF TypeOK, CallsOK

LEMMA TypeDelete ==
  ASSUME TypeOK, NEW p \in Procs, DeleteStep(p)
  PROVE  TypeOK'
<1> USE DEF DeleteStep, DeleteMemory, DeleteSqlite, DeleteFilesystem,
        DeletePersistent, DeleteReturn
<1>1. CallsOK'
  <2>1. proc[p].arg \in Ids
    BY DEF TypeOK, At, Done
  <2>2. Return(p) \/ \E l \in LayerIds : Advance(p, l)
    OBVIOUS
  <2>3. QED
    BY <2>1, <2>2, CallsReturned, CallsMoved, MoveAdvance
<1>2. content' \in [LayerIds -> [Ids -> Statuses]]
  <2>1. \/ content' = content
        \/ \E l \in LayerIds : content' = [content EXCEPT ![l][proc[p].arg] = "none"]
    BY DEF store
  <2>2. QED
    BY <2>1 DEF TypeOK, Statuses
<1>3. /\ UNCHANGED <<lock, boot, minted, acked, known, touched>>
      /\ erased' = erased \/ erased' = erased \cup proc[p].owed
  BY DEF store, history
<1>4. proc[p].owed \subseteq Ids
  BY CallFacts DEF TypeOK
<1>5. QED
  BY <1>1, <1>2, <1>3, <1>4 DEF TypeOK, CallsOK, boot

LEMMA TypeDeleteAll ==
  ASSUME TypeOK, NEW p \in Procs, DeleteAllStep(p)
  PROVE  TypeOK'
<1>1. proc[p].owed \subseteq Ids /\ proc[p].todo \subseteq Ids
  BY CallFacts DEF TypeOK
<1>2. CallsOK'
  <2>1. proc[p].pc \in PurgeLabels
    BY DEF DeleteAllStep, DeleteAllMemory, DeleteAllSqlite, DeleteAllGlob,
       DeleteAllRemove, DeleteAllUnlock, DeleteAllReturn, At, Done, PurgeLabels
  <2>2. \A l \in LayerIds : Present(l) \subseteq Ids
    BY DEF Present
  <2>3. \/ Return(p)
        \/ \E l \in LayerIds :
             \/ Advance(p, l)
             \/ Become(p, [proc[p] EXCEPT !.route = @ \ {l}, !.errs = TRUE])
             \/ Become(p, [proc[p] EXCEPT !.pc = "remove", !.todo = Present(l)])
             \/ Become(p, [proc[p] EXCEPT !.pc = "deleteAll", !.route = @ \ {l}])
        \/ \E id \in Ids :
             \/ Become(p, [proc[p] EXCEPT !.todo = @ \ {id}])
             \/ Become(p, [proc[p] EXCEPT !.todo = @ \ {id}, !.errs = TRUE])
    <3>1. ASSUME NEW l \in LayerIds, NEW id \in proc[p].todo, DeleteAllRemove(p, l, id)
          PROVE  \E i \in Ids : \/ Become(p, [proc[p] EXCEPT !.todo = @ \ {i}])
                               \/ Become(p, [proc[p] EXCEPT !.todo = @ \ {i}, !.errs = TRUE])
      BY <1>1, <3>1 DEF DeleteAllRemove
    <3>2. ASSUME NEW l \in LayerIds,
                 \/ DeleteAllMemory(p, l) \/ DeleteAllSqlite(p, l)
                 \/ DeleteAllGlob(p, l) \/ DeleteAllUnlock(p, l)
          PROVE  \/ Advance(p, l)
                 \/ Become(p, [proc[p] EXCEPT !.route = @ \ {l}, !.errs = TRUE])
                 \/ Become(p, [proc[p] EXCEPT !.pc = "remove", !.todo = Present(l)])
                 \/ Become(p, [proc[p] EXCEPT !.pc = "deleteAll", !.route = @ \ {l}])
      BY <3>2 DEF DeleteAllMemory, DeleteAllSqlite, DeleteAllGlob, DeleteAllUnlock
    <3>3. DeleteAllReturn(p) => Return(p)
      BY DEF DeleteAllReturn
    <3>4. QED
      BY <3>1, <3>2, <3>3 DEF DeleteAllStep
  <2>4. Return(p) => CallsOK'
    BY CallsReturned
  <2>5. ASSUME NEW l \in LayerIds
        PROVE  /\ Advance(p, l) => CallsOK'
               /\ Become(p, [proc[p] EXCEPT !.route = @ \ {l}, !.errs = TRUE]) => CallsOK'
               /\ Become(p, [proc[p] EXCEPT !.pc = "remove", !.todo = Present(l)]) => CallsOK'
               /\ Become(p, [proc[p] EXCEPT !.pc = "deleteAll", !.route = @ \ {l}]) => CallsOK'
    <3>1. Become(p, [proc[p] EXCEPT !.pc = "remove", !.todo = Present(l)]) =>
            Moved(p, "remove", proc[p].route, Present(l), proc[p].found, proc[p].errs)
      BY <2>2, MovePcTodo, LabelFacts
    <3>2. Become(p, [proc[p] EXCEPT !.pc = "deleteAll", !.route = @ \ {l}]) =>
            Moved(p, "deleteAll", proc[p].route \ {l}, proc[p].todo, proc[p].found, proc[p].errs)
      BY MovePcRoute, LabelFacts
    <3>3. QED
      BY <2>1, <3>1, <3>2, CallsMoved, MoveAdvance, MoveRouteErrs DEF SetLabels, PurgeLabels
  <2>6. ASSUME NEW id \in Ids
        PROVE  /\ Become(p, [proc[p] EXCEPT !.todo = @ \ {id}]) => CallsOK'
               /\ Become(p, [proc[p] EXCEPT !.todo = @ \ {id}, !.errs = TRUE]) => CallsOK'
    BY <2>1, CallsMoved, MoveTodo, MoveTodoErrs DEF SetLabels, PurgeLabels
  <2>7. QED
    BY <2>3, <2>4, <2>5, <2>6
<1>3. content' \in [LayerIds -> [Ids -> Statuses]]
  <2>1. \/ content' = content
        \/ \E l \in LayerIds : content' = [content EXCEPT ![l] = [id \in Ids |-> "none"]]
        \/ \E l \in LayerIds, id \in Ids : content' = [content EXCEPT ![l][id] = "none"]
    <3>1. ASSUME NEW l \in LayerIds, NEW id \in proc[p].todo, DeleteAllRemove(p, l, id)
          PROVE  content' = content \/ content' = [content EXCEPT ![l][id] = "none"]
      BY <3>1 DEF DeleteAllRemove
    <3>2. ASSUME NEW l \in LayerIds,
                 \/ DeleteAllMemory(p, l) \/ DeleteAllSqlite(p, l)
                 \/ DeleteAllGlob(p, l) \/ DeleteAllUnlock(p, l)
          PROVE  content' = content \/ content' = [content EXCEPT ![l] = [id \in Ids |-> "none"]]
      BY <3>2 DEF DeleteAllMemory, DeleteAllSqlite, DeleteAllGlob, DeleteAllUnlock
    <3>3. DeleteAllReturn(p) => content' = content
      BY DEF DeleteAllReturn, store
    <3>4. QED
      BY <1>1, <3>1, <3>2, <3>3 DEF DeleteAllStep
  <2>2. QED
    BY <2>1 DEF TypeOK, Statuses
<1>4. lock' \in [LayerIds -> Procs \cup {None}]
  BY DEF TypeOK, DeleteAllStep, DeleteAllMemory, DeleteAllSqlite, DeleteAllGlob,
     DeleteAllRemove, DeleteAllUnlock, DeleteAllReturn, store, Release
<1>5. /\ UNCHANGED <<boot, minted, acked, known, touched>>
      /\ erased' = erased \/ erased' = erased \cup proc[p].owed
  BY DEF DeleteAllStep, DeleteAllMemory, DeleteAllSqlite, DeleteAllGlob,
     DeleteAllRemove, DeleteAllUnlock, DeleteAllReturn, history
<1>6. QED
  BY <1>1, <1>2, <1>3, <1>4, <1>5 DEF TypeOK, CallsOK, boot

LEMMA TypeSearch ==
  ASSUME TypeOK, NEW p \in Procs, SearchStep(p)
  PROVE  TypeOK'
<1>1. proc[p].found \subseteq Ids /\ proc[p].todo \subseteq Ids
  BY CallFacts DEF TypeOK
<1>2. CallsOK'
  <2>1. proc[p].pc \in {"search", "scan", "found", "failed"}
    BY DEF SearchStep, SearchTable, SearchGlob, SearchScan, SearchEnd, SearchReturn, At
  <2>2. \A l \in LayerIds : Present(l) \subseteq Ids
    BY DEF Present
  <2>3. \/ Return(p)
        \/ \E l \in LayerIds :
             \/ Become(p, [proc[p] EXCEPT !.pc = "found", !.found = Present(l)])
             \/ Become(p, [proc[p] EXCEPT !.pc = "scan", !.todo = Present(l)])
        \/ \E id \in Ids :
             Become(p, [proc[p] EXCEPT !.todo = @ \ {id}, !.found = @ \cup {id}])
        \/ Become(p, [proc[p] EXCEPT !.pc = "failed"])
        \/ Become(p, [proc[p] EXCEPT !.pc = "found"])
    <3>1. ASSUME NEW l \in LayerIds, NEW id \in proc[p].todo, SearchScan(p, l, id)
          PROVE  \/ \E i \in Ids :
                      Become(p, [proc[p] EXCEPT !.todo = @ \ {i}, !.found = @ \cup {i}])
                 \/ Become(p, [proc[p] EXCEPT !.pc = "failed"])
      BY <1>1, <3>1 DEF SearchScan
    <3>2. ASSUME NEW l \in LayerIds, SearchTable(p, l) \/ SearchGlob(p, l)
          PROVE  \/ Become(p, [proc[p] EXCEPT !.pc = "found", !.found = Present(l)])
                 \/ Become(p, [proc[p] EXCEPT !.pc = "scan", !.todo = Present(l)])
      BY <3>2 DEF SearchTable, SearchGlob
    <3>3. /\ SearchEnd(p) => Become(p, [proc[p] EXCEPT !.pc = "found"])
          /\ SearchReturn(p) => Return(p)
      BY DEF SearchEnd, SearchReturn
    <3>4. QED
      BY <3>1, <3>2, <3>3 DEF SearchStep
  <2>4. ASSUME NEW l \in LayerIds
        PROVE  /\ Become(p, [proc[p] EXCEPT !.pc = "found", !.found = Present(l)]) => CallsOK'
               /\ Become(p, [proc[p] EXCEPT !.pc = "scan", !.todo = Present(l)]) => CallsOK'
    <3>1. Become(p, [proc[p] EXCEPT !.pc = "found", !.found = Present(l)]) =>
            Moved(p, "found", proc[p].route, proc[p].todo, Present(l), proc[p].errs)
      BY <2>2, MovePcFound, LabelFacts
    <3>2. Become(p, [proc[p] EXCEPT !.pc = "scan", !.todo = Present(l)]) =>
            Moved(p, "scan", proc[p].route, Present(l), proc[p].found, proc[p].errs)
      BY <2>2, MovePcTodo, LabelFacts
    <3>3. QED
      BY <3>1, <3>2, CallsMoved DEF SetLabels
  <2>5. ASSUME NEW id \in Ids,
               Become(p, [proc[p] EXCEPT !.todo = @ \ {id}, !.found = @ \cup {id}])
        PROVE  CallsOK'
    BY <2>1, <2>5, CallsMoved, MoveTodoFound DEF SetLabels
  <2>6. /\ Become(p, [proc[p] EXCEPT !.pc = "failed"]) => CallsOK'
        /\ Become(p, [proc[p] EXCEPT !.pc = "found"]) => CallsOK'
    BY CallsMoved, MovePc, LabelFacts DEF SetLabels
  <2>7. QED
    BY <2>3, <2>4, <2>5, <2>6, CallsReturned
<1>3. /\ UNCHANGED <<store, boot, minted, acked, touched, erased>>
      /\ known' = known \/ known' = known \cup proc[p].found
  BY DEF SearchStep, SearchTable, SearchGlob, SearchScan, SearchEnd, SearchReturn, history
<1>4. QED
  BY <1>1, <1>2, <1>3 DEF TypeOK, CallsOK, boot, store

LEMMA TypeStart ==
  ASSUME TypeOK, NEW p \in Procs, Start(p)
  PROVE  TypeOK'
<1>1. ASSUME NEW id \in Ids, SetStart(p, id)
      PROVE  TypeOK'
  <2> DEFINE c == [Idle EXCEPT !.pc = "set", !.arg = id, !.route = WriteLayers]
  <2>1. c \in Call /\ c.arg = id
    BY LayerFacts, LabelFacts, FreshCalls DEF Idle
  <2>2. CallsOK'
    BY <1>1, <2>1, BecomeFacts, CallsEntered DEF SetStart
  <2>3. QED
    BY <1>1, <2>2 DEF SetStart, TypeOK, CallsOK, store, boot
<1>2. ASSUME NEW id \in Ids, DeleteStart(p, id)
      PROVE  TypeOK'
  <2> DEFINE S == IF Over(id) THEN {id} ELSE {}
             c == [Idle EXCEPT !.pc = "delete", !.arg = id, !.route = WriteLayers,
                               !.owed = S]
  <2>1. S \subseteq Ids
    OBVIOUS
  <2> HIDE DEF S
  <2>2. c \in Call /\ c.arg = id
    BY <2>1, LayerFacts, LabelFacts, FreshCalls DEF Idle
  <2>3. CallsOK'
    BY <1>2, <2>2, BecomeFacts, CallsEntered DEF DeleteStart, S
  <2>4. QED
    BY <1>2, <2>3 DEF DeleteStart, TypeOK, CallsOK, store, boot
<1>3. CASE DeleteAllStart(p)
  <2> DEFINE S == {id \in minted : Over(id)}
             c == [Idle EXCEPT !.pc = "deleteAll", !.route = WriteLayers, !.owed = S]
  <2>1. S \subseteq Ids
    BY DEF TypeOK
  <2> HIDE DEF S
  <2>2. c \in Call /\ c.pc = "deleteAll"
    <3>1. c.pc = "deleteAll"
      BY DEF Idle
    <3>2. QED
      BY <2>1, <3>1, LayerFacts, LabelFacts, FreshCalls
  <2>3. CallsOK'
    BY <1>3, <2>2, BecomeFacts, CallsEntered DEF DeleteAllStart, S, SetLabels
  <2>4. QED
    BY <1>3, <2>3 DEF DeleteAllStart, TypeOK, CallsOK, store, boot
<1>4. CASE SearchStart(p)
  <2> DEFINE S == acked \ touched
             c == [Idle EXCEPT !.pc = "search", !.route = SearchLayers, !.owed = S]
  <2>1. S \subseteq Ids
    BY DEF TypeOK
  <2> HIDE DEF S
  <2>2. c \in Call /\ c.pc = "search"
    <3>1. c.pc = "search"
      BY DEF Idle
    <3>2. QED
      BY <2>1, <3>1, LayerFacts, LabelFacts, FreshCalls
  <2>3. CallsOK'
    BY <1>4, <2>2, BecomeFacts, CallsEntered DEF SearchStart, S, SetLabels
  <2>4. QED
    BY <1>4, <2>3 DEF SearchStart, TypeOK, CallsOK, store, boot, history
<1>5. QED
  BY <1>1, <1>2, <1>3, <1>4 DEF Start

LEMMA TypeLoad ==
  ASSUME TypeOK, LoadStep
  PROVE  TypeOK'
<1>1. PICK l \in LayerIds : \/ LoadNothing(l) \/ LoadMemory(l) \/ LoadSqlite(l)
                            \/ \E id \in rows : LoadRow(l, id)
  BY DEF LoadStep
<1>2. l - 1 \in 0..Root /\ l \in 0..Root
  BY LayerFacts DEF LayerIds, Root
<1>3. CASE LoadNothing(l)
  BY <1>2, <1>3 DEF LoadNothing, TypeOK, store, history
<1>4. CASE LoadMemory(l)
  BY <1>2, <1>4, LayerFacts DEF LoadMemory, TypeOK, history
<1>5. CASE LoadSqlite(l)
  BY <1>2, <1>5 DEF LoadSqlite, TypeOK, store, history, Present
<1>6. ASSUME NEW id \in rows, LoadRow(l, id)
      PROVE  TypeOK'
  BY <1>2, <1>6, LayerFacts DEF LoadRow, TypeOK, history
<1>7. QED
  BY <1>1, <1>3, <1>4, <1>5, <1>6

LEMMA TypeCrash ==
  ASSUME TypeOK, Crash
  PROVE  TypeOK'
<1>1. content' \in [LayerIds -> [Ids -> Statuses]]
  BY DEF Crash, TypeOK, Statuses
<1>2. /\ proc' \in [Procs -> Call]
      /\ \A p \in Procs : proc'[p].pc \notin SetLabels \cup {"delete"}
  BY IdleFacts DEF Crash, SetLabels
<1>3. loading' \in 0..Root /\ crashes' \in 0..MaxCrashes
  BY LayerFacts, EngineAssumption DEF Crash, TypeOK
<1>4. QED
  BY <1>1, <1>2, <1>3 DEF Crash, TypeOK, history

\* Every action keeps the types, and so does a step in which nothing happens.
LEMMA TypeNext == TypeOK /\ [Next]_vars => TypeOK'
<1> SUFFICES ASSUME TypeOK, [Next]_vars PROVE TypeOK'
  OBVIOUS
<1>1. ASSUME NEW p \in Procs, Start(p) \/ Step(p)
      PROVE  TypeOK'
  BY <1>1, TypeStart, TypeSet, TypeDelete, TypeDeleteAll, TypeSearch DEF Step
<1>2. CASE LoadStep
  BY <1>2, TypeLoad
<1>3. CASE Crash
  BY <1>3, TypeCrash
<1>4. CASE UNCHANGED vars
  BY <1>4 DEF vars, store, boot, history, TypeOK
<1>5. QED
  BY <1>1, <1>2, <1>3, <1>4 DEF Next

\* The engine's state has its type, whatever the configuration: every file and
\* row is in one of its states, every call is at one of its places.
THEOREM TypeCorrect == Spec => []TypeOK
<1>1. QED
  BY TypeInit, TypeNext, PTL DEF Spec

-----------------------------------------------------------------------------
(* The classes of steps inside a call *)

Put(l, id, status) == content' = [content EXCEPT ![l][id] = status]

\* Nothing a caller was told changes, and load is not at work.
Silent == UNCHANGED <<loading, rows, minted, acked, known, touched, erased>>

Follows(p, pc, route) ==
  Moved(p, pc, route, proc[p].todo, proc[p].found, proc[p].errs)

\* Set fails at layer l, with whatever it leaves there of its own mail.
SetFails(p) ==
  /\ Silent /\ proc[p].pc \in SetLabels
  /\ Entered(p, Idle)
  /\ content' = content \/ \E l \in proc[p].route, s \in Statuses : Put(l, proc[p].arg, s)

\* Set is done with layer l, which now holds the whole mail: it was parsed.
SetPasses(p, l) ==
  /\ Silent /\ proc[p].pc \in SetLabels /\ First(proc[p].route, l)
  /\ proc[p].arg \notin Malformed
  /\ Follows(p, "set", proc[p].route \ {l})
  /\ \/ Put(l, proc[p].arg, "whole")
     \/ proc[p].pc = "verify" /\ Loads(l, proc[p].arg) /\ content' = content

\* Set works on the file of layer l.
SetFile(p, l) ==
  /\ Silent /\ proc[p].pc \in SetLabels /\ First(proc[p].route, l)
  /\ \/ Follows(p, "write", proc[p].route) /\ Put(l, proc[p].arg, "torn")
     \/ Follows(p, "verify", proc[p].route) /\ Put(l, proc[p].arg, "whole")

\* DeleteEmailByID removes its mail from layer l, or stops with an error.
DeletePasses(p, l) ==
  /\ Silent /\ proc[p].pc = "delete" /\ First(proc[p].route, l)
  /\ Follows(p, "delete", proc[p].route \ {l})
  /\ Put(l, proc[p].arg, "none")

DeleteFails(p) ==
  /\ Silent /\ proc[p].pc = "delete"
  /\ Entered(p, Idle)
  /\ content' = content

\* DeleteAllEmails empties layer l at once, or collects an error.
PurgePasses(p, l) ==
  /\ Silent /\ proc[p].pc = "deleteAll" /\ First(proc[p].route, l)
  /\ \/ /\ Follows(p, "deleteAll", proc[p].route \ {l})
        /\ content' = [content EXCEPT ![l] = [id \in Ids |-> "none"]]
     \/ /\ Moved(p, "deleteAll", proc[p].route \ {l}, proc[p].todo, proc[p].found, TRUE)
        /\ content' = content

\* DeleteAllEmails lists the files of layer l, removes one, leaves the layer.
PurgeLists(p, l) ==
  /\ Silent /\ proc[p].pc = "deleteAll" /\ First(proc[p].route, l)
  /\ Moved(p, "remove", proc[p].route, Present(l), proc[p].found, proc[p].errs)
  /\ content' = content

PurgeRemoves(p, l, id) ==
  /\ Silent /\ proc[p].pc = "remove" /\ First(proc[p].route, l) /\ id \in proc[p].todo
  /\ \/ /\ Moved(p, "remove", proc[p].route, proc[p].todo \ {id}, proc[p].found, proc[p].errs)
        /\ Put(l, id, "none")
     \/ /\ Moved(p, "remove", proc[p].route, proc[p].todo \ {id}, proc[p].found, TRUE)
        /\ content' = content

PurgeLeaves(p, l) ==
  /\ Silent /\ proc[p].pc = "remove" /\ First(proc[p].route, l) /\ proc[p].todo = {}
  /\ Follows(p, "deleteAll", proc[p].route \ {l})
  /\ content' = content

\* A deletion returns and, unless it collected an error, confirms what it owes.
DeletionReturns(p) ==
  /\ UNCHANGED <<loading, rows, content, minted, acked, known, touched>>
  /\ proc[p].pc \in PurgeLabels \cup {"delete"} /\ proc[p].route = {}
  /\ Entered(p, Idle)
  /\ \/ erased' = erased
     \/ /\ erased' = erased \cup proc[p].owed
        /\ proc[p].pc \in PurgeLabels => ~proc[p].errs

\* A search only reads: it learns ids that are in some layer.
SearchMoves(p) ==
  /\ Silent /\ content' = content
  /\ proc[p].pc \in {"search", "scan"}
  /\ \E pc \in {"scan", "found", "failed"}, todo \in SUBSET Ids, found \in SUBSET Ids :
       /\ Moved(p, pc, proc[p].route, todo, found, proc[p].errs)
       /\ found \subseteq proc[p].found \cup UNION {Present(l) : l \in LayerIds}

SearchReturns(p) ==
  /\ UNCHANGED <<loading, rows, content, minted, acked, touched, erased>>
  /\ known' = known \/ known' = known \cup proc[p].found
  /\ Entered(p, Idle)

-----------------------------------------------------------------------------
(* Every step inside a call belongs to a class *)

LEMMA SetClass ==
  ASSUME TypeOK, NEW p \in Procs, SetStep(p)
  PROVE  \/ SetFails(p) \/ SetReturn(p)
         \/ \E l \in LayerIds : SetPasses(p, l) \/ SetFile(p, l)
<1> USE DEF Silent, store, boot, history
<1>1. ASSUME NEW l \in LayerIds, SetMemory(p, l)
      PROVE  SetFails(p) \/ SetPasses(p, l)
  BY <1>1, ReturnFacts, MoveAdvance
     DEF SetMemory, At, SetFails, SetPasses, Follows, Put, SetLabels
<1>2. ASSUME NEW l \in LayerIds, SetSqlite(p, l)
      PROVE  SetFails(p) \/ SetPasses(p, l)
  BY <1>2, ReturnFacts, MoveAdvance
     DEF SetSqlite, At, SetFails, SetPasses, Follows, Put, SetLabels
<1>3. ASSUME NEW l \in LayerIds, SetCreate(p, l)
      PROVE  SetFails(p) \/ SetFile(p, l)
  BY <1>3, ReturnFacts, MovePc, LabelFacts
     DEF SetCreate, At, SetFails, SetFile, Follows, Put, SetLabels
<1>4. ASSUME NEW l \in LayerIds, SetWrite(p, l)
      PROVE  SetFails(p) \/ SetFile(p, l)
  <2>1. proc[p].pc = "write" /\ First(proc[p].route, l) /\ Silent
    BY <1>4 DEF SetWrite, At
  <2>2. CASE Return(p)
    <3>1. \E s \in Statuses : Put(l, proc[p].arg, s)
      <4>1. "torn" \in Statuses /\ "cut" \in Statuses /\ "whole" \in Statuses
        BY DEF Statuses
      <4>2. QED
        BY <1>4, <4>1 DEF SetWrite, Put
    <3>2. QED
      BY <2>1, <2>2, <3>1, ReturnFacts DEF SetFails, SetLabels, First
  <2>3. CASE Become(p, [proc[p] EXCEPT !.pc = "verify"]) /\ Put(l, proc[p].arg, "whole")
    BY <2>1, <2>3, MovePc, LabelFacts DEF SetFile, Follows, SetLabels
  <2>4. QED
    BY <1>4, <2>2, <2>3 DEF SetWrite, Put
<1>5. ASSUME NEW l \in LayerIds, SetVerify(p, l)
      PROVE  SetFails(p) \/ SetPasses(p, l)
  <2>1. proc[p].pc = "verify" /\ First(proc[p].route, l) /\ Silent
    BY <1>5 DEF SetVerify, At
  <2>2. CASE Return(p) /\ (content' = content \/ Put(l, proc[p].arg, "none"))
    <3>1. "none" \in Statuses
      BY DEF Statuses
    <3>2. QED
      BY <2>1, <2>2, <3>1, ReturnFacts DEF SetFails, SetLabels, First
  <2>3. CASE /\ Become(p, [proc[p] EXCEPT !.pc = "set", !.route = @ \ {l}])
             /\ content' = content /\ Loads(l, proc[p].arg)
    <3>1. proc[p].arg \notin Malformed
      BY <2>3 DEF Loads
    <3>2. QED
      BY <2>1, <2>3, <3>1, MovePcRoute, LabelFacts DEF SetPasses, Follows, SetLabels
  <2>4. QED
    BY <1>5, <2>2, <2>3 DEF SetVerify, Put
<1>6. QED
  BY <1>1, <1>2, <1>3, <1>4, <1>5 DEF SetStep

LEMMA DeleteClass ==
  ASSUME TypeOK, NEW p \in Procs, DeleteStep(p)
  PROVE  DeleteFails(p) \/ DeletionReturns(p) \/ \E l \in LayerIds : DeletePasses(p, l)
<1>1. ASSUME NEW l \in LayerIds,
             DeleteMemory(p, l) \/ DeleteSqlite(p, l) \/ DeleteFilesystem(p, l)
      PROVE  DeleteFails(p) \/ DeletePasses(p, l)
  BY <1>1, ReturnFacts, MoveAdvance
     DEF DeleteMemory, DeleteSqlite, DeleteFilesystem, DeletePersistent, At,
         DeleteFails, DeletePasses, Follows, Put, Silent, boot, history
<1>2. CASE DeleteReturn(p)
  BY <1>2, ReturnFacts
     DEF DeleteReturn, Done, DeletionReturns, PurgeLabels, store, boot
<1>3. QED
  BY <1>1, <1>2 DEF DeleteStep

LEMMA PurgeClass ==
  ASSUME TypeOK, NEW p \in Procs, DeleteAllStep(p)
  PROVE  \/ DeletionReturns(p)
         \/ \E l \in LayerIds :
              \/ PurgePasses(p, l) \/ PurgeLists(p, l) \/ PurgeLeaves(p, l)
              \/ \E id \in Ids : PurgeRemoves(p, l, id)
<1> USE DEF Silent, At, boot, history
<1>1. ASSUME NEW l \in LayerIds, DeleteAllMemory(p, l)
      PROVE  PurgePasses(p, l)
  BY <1>1, MoveAdvance DEF DeleteAllMemory, PurgePasses, Follows
<1>2. ASSUME NEW l \in LayerIds, DeleteAllSqlite(p, l)
      PROVE  PurgePasses(p, l)
  BY <1>2, MoveAdvance, MoveRouteErrs DEF DeleteAllSqlite, PurgePasses, Follows
<1>3. ASSUME NEW l \in LayerIds, DeleteAllGlob(p, l)
      PROVE  PurgeLists(p, l)
  <2>1. Present(l) \subseteq Ids
    BY DEF Present
  <2>2. QED
    BY <1>3, <2>1, MovePcTodo, LabelFacts DEF DeleteAllGlob, PurgeLists
<1>4. ASSUME NEW l \in LayerIds, NEW id \in proc[p].todo, DeleteAllRemove(p, l, id)
      PROVE  id \in Ids /\ PurgeRemoves(p, l, id)
  <2>1. id \in Ids
    BY CallFacts DEF TypeOK
  <2>2. QED
    BY <1>4, <2>1, MoveTodo, MoveTodoErrs DEF DeleteAllRemove, PurgeRemoves, Put
<1>5. ASSUME NEW l \in LayerIds, DeleteAllUnlock(p, l)
      PROVE  PurgeLeaves(p, l)
  BY <1>5, MovePcRoute, LabelFacts DEF DeleteAllUnlock, PurgeLeaves, Follows
<1>6. CASE DeleteAllReturn(p)
  BY <1>6, ReturnFacts
     DEF DeleteAllReturn, Done, DeletionReturns, PurgeLabels, store
<1>7. QED
  BY <1>1, <1>2, <1>3, <1>4, <1>5, <1>6 DEF DeleteAllStep

LEMMA SearchClass ==
  ASSUME TypeOK, NEW p \in Procs, SearchStep(p)
  PROVE  SearchMoves(p) \/ SearchReturns(p)
<1> USE DEF Silent, At, store, boot, history
<1>0. /\ proc[p].todo \in SUBSET Ids /\ proc[p].found \in SUBSET Ids
      /\ \A l \in LayerIds : Present(l) \in SUBSET Ids
      /\ \A id \in Ids : /\ proc[p].todo \ {id} \in SUBSET Ids
                         /\ proc[p].found \cup {id} \in SUBSET Ids
  BY CallFacts DEF TypeOK, Present
<1>1. ASSUME NEW l \in LayerIds, SearchTable(p, l)
      PROVE  SearchMoves(p)
  <2>1. Present(l) \subseteq Ids
    BY DEF Present
  <2>2. Moved(p, "found", proc[p].route, proc[p].todo, Present(l), proc[p].errs)
    BY <1>1, <2>1, MovePcFound, LabelFacts DEF SearchTable
  <2>3. QED
    BY <1>0, <1>1, <2>2 DEF SearchTable, SearchMoves
<1>2. ASSUME NEW l \in LayerIds, SearchGlob(p, l)
      PROVE  SearchMoves(p)
  <2>1. Present(l) \subseteq Ids
    BY DEF Present
  <2>2. Moved(p, "scan", proc[p].route, Present(l), proc[p].found, proc[p].errs)
    BY <1>2, <2>1, MovePcTodo, LabelFacts DEF SearchGlob
  <2>3. QED
    BY <1>0, <1>2, <2>2 DEF SearchGlob, SearchMoves
<1>3. ASSUME NEW l \in LayerIds, NEW id \in proc[p].todo, SearchScan(p, l, id)
      PROVE  SearchMoves(p)
  <2>1. id \in Ids
    BY CallFacts DEF TypeOK
  <2>2. CASE /\ Loads(l, id)
             /\ Become(p, [proc[p] EXCEPT !.todo = @ \ {id}, !.found = @ \cup {id}])
    <3>1. id \in Present(l)
      BY <2>1, <2>2 DEF Loads, Present
    <3>2. Moved(p, "scan", proc[p].route, proc[p].todo \ {id}, proc[p].found \cup {id},
                proc[p].errs)
      BY <1>3, <2>1, <2>2, MoveTodoFound DEF SearchScan
    <3>3. QED
      BY <1>0, <1>3, <2>1, <3>1, <3>2 DEF SearchScan, SearchMoves
  <2>3. CASE Become(p, [proc[p] EXCEPT !.pc = "failed"])
    <3>1. Follows(p, "failed", proc[p].route)
      BY <2>3, MovePc, LabelFacts DEF Follows
    <3>2. QED
      BY <1>0, <1>3, <3>1 DEF SearchScan, SearchMoves, Follows
  <2>4. QED
    BY <1>3, <2>2, <2>3 DEF SearchScan
<1>4. CASE SearchEnd(p)
  <2>1. Follows(p, "found", proc[p].route)
    BY <1>4, MovePc, LabelFacts DEF SearchEnd, Follows
  <2>2. QED
    BY <1>0, <1>4, <2>1 DEF SearchEnd, SearchMoves, Follows
<1>5. CASE SearchReturn(p)
  BY <1>5, ReturnFacts DEF SearchReturn, SearchReturns
<1>6. QED
  BY <1>1, <1>2, <1>3, <1>4, <1>5 DEF SearchStep

-----------------------------------------------------------------------------
(* Each class keeps each part of the invariant *)

\* Somebody is inside the engine: load is over.
LEMMA Serving ==
  ASSUME IInv, NEW p \in Procs, proc[p].pc # "idle"
  PROVE  loading = 0 /\ rows = {}
  BY IdleFacts DEF IInv, LoadInv

LEMMA Bounds ==
  ASSUME IInv
  PROVE  /\ minted \subseteq Ids /\ acked \subseteq minted /\ erased \subseteq minted
         /\ \A p \in Procs : proc[p] \in Call /\ proc[p].owed \subseteq Ids
         /\ \A p \in Procs : proc[p].pc \in SetLabels => proc[p].arg \in minted \ acked
         /\ \A id : Over(id) => id \in minted
         /\ WriteLayers \subseteq LayerIds /\ Root \in LayerIds
  BY CallFacts, LayerFacts DEF IInv, TypeOK, OriginInv, SetInv, Over

\* A mail that a Set is done with is not taken up by a Set again.
NoNewSet ==
  /\ minted \subseteq minted'
  /\ \A q \in Procs, id \in minted : Setting(q, id)' => Setting(q, id)

LEMMA StillOver ==
  ASSUME NoNewSet, NEW id \in Ids, Over(id)
  PROVE  Over(id)'
  BY DEF NoNewSet, Over

\* What all the steps of a Set that has not returned share: they touch their own
\* mail, in layers that take writes, and the call goes on or ends.
InSet(p) ==
  /\ Silent
  /\ proc[p].pc \in SetLabels
  /\ \A q \in Procs : q # p => proc'[q] = proc[q]
  /\ \/ proc'[p] = Idle
     \/ /\ proc'[p].pc \in SetLabels /\ proc'[p].arg = proc[p].arg
        /\ proc'[p].route \subseteq proc[p].route /\ proc'[p].found = proc[p].found
  /\ \A l \in LayerIds, id \in Ids :
       content'[l][id] # content[l][id] => id = proc[p].arg /\ l \in WriteLayers

LEMMA InSetNoNewSet ==
  ASSUME NEW p \in Procs, InSet(p)
  PROVE  NoNewSet
  BY DEF InSet, Silent, NoNewSet, Setting, Idle, SetLabels

\* Deletions and confirmed deletions do not notice a step inside a Set.
LEMMA SweptBySet ==
  ASSUME IInv, NEW p \in Procs, InSet(p)
  PROVE  SweptInv' /\ ErasedInv'
<1>0. NoNewSet /\ \A q \in Procs : q # p => proc'[q] = proc[q]
  BY InSetNoNewSet DEF InSet
<1>1. ASSUME NEW id \in Ids, Over(id), NEW l \in LayerIds
      PROVE  content'[l][id] = content[l][id]
  BY <1>1 DEF InSet, Over, Setting
<1>2. ASSUME NEW q \in Procs PROVE Swept(q)'
  <2>1. CASE q = p
    BY <2>1 DEF InSet, Swept, Idle, SetLabels, PurgeLabels
  <2>2. CASE q # p /\ proc[q].pc \in PurgeLabels \cup {"delete"}
    <3>1. proc'[q] = proc[q] /\ Swept(q)
      BY <1>0, <2>2 DEF IInv, SweptInv
    <3>2. \A id \in proc[q].owed : id \in Ids /\ Over(id) /\ Over(id)'
      BY <1>0, <2>2, <3>1, Bounds, StillOver DEF Swept
    <3>3. \A id \in proc[q].owed, l \in WriteLayers : content'[l][id] = content[l][id]
      BY <1>1, <3>2, Bounds
    <3>4. QED
      BY <2>2, <3>1, <3>2, <3>3 DEF Swept
  <2>3. QED
    BY <1>0, <2>1, <2>2 DEF Swept
<1>3. ErasedInv'
  <2>1. \A id \in erased : id \in Ids /\ Over(id) /\ Over(id)'
    BY <1>0, Bounds, StillOver DEF IInv, ErasedInv
  <2>2. \A id \in erased, l \in WriteLayers : content'[l][id] = content[l][id]
    BY <1>1, <2>1, Bounds
  <2>3. QED
    BY <2>1, <2>2 DEF IInv, ErasedInv, ErasedStaysErased, InSet, Silent
<1>4. QED
  BY <1>2, <1>3 DEF SweptInv

\* A step inside a Set keeps the invariant if it keeps what its own Set claims.
LEMMA InSetKeeps ==
  ASSUME IInv, TypeOK', NEW p \in Procs, InSet(p), Passed(p)'
  PROVE  IInv'
<1>1. LoadInv'
  BY Serving DEF InSet, Silent, SetLabels, LoadInv
<1>2. OriginInv'
  <2>1. \A l \in LayerIds : Present(l)' \subseteq Present(l) \cup minted
    BY Bounds DEF InSet, Present
  <2>2. Root \notin WriteLayers => Present(Root)' = Present(Root)
    BY Bounds DEF InSet, Present
  <2>3. \A q \in Procs : proc'[q].found \subseteq minted
    BY DEF InSet, IInv, OriginInv, Idle
  <2>4. QED
    BY <2>1, <2>2, <2>3 DEF InSet, Silent, IInv, OriginInv
<1>3. SetInv'
  BY DEF InSet, Silent, IInv, SetInv, Idle, SetLabels
<1>4. TouchInv'
  BY DEF InSet, Silent, IInv, TouchInv, Idle, SetLabels, PurgeLabels
<1>5. PassedInv'
  <2>1. ASSUME NEW q \in Procs, q # p
        PROVE  Passed(q)'
    <3>1. CASE proc[q].pc \in SetLabels
      <4>1. proc[q].arg \in Ids /\ proc[q].arg # proc[p].arg
        BY <2>1, <3>1, Bounds DEF InSet, IInv, SetInv
      <4>2. \A l \in WriteLayers : content'[l][proc[q].arg] = content[l][proc[q].arg]
        BY <4>1, Bounds DEF InSet
      <4>3. QED
        BY <2>1, <4>2 DEF InSet, Silent, IInv, PassedInv, Passed
    <3>2. QED
      BY <2>1, <3>1 DEF InSet, Passed
  <2>2. QED
    BY <2>1 DEF PassedInv
<1>6. Durable'
  <2>1. \A id \in acked, l \in WriteLayers : content'[l][id] = content[l][id]
    BY Bounds DEF InSet
  <2>2. QED
    BY <2>1 DEF InSet, Silent, IInv, Durable
<1>7. QED
  BY <1>1, <1>2, <1>3, <1>4, <1>5, <1>6, SweptBySet DEF IInv

LEMMA SetKeeps ==
  ASSUME IInv, TypeOK', NEW p \in Procs, SetStep(p), ~SetReturn(p)
  PROVE  IInv'
<1>1. proc[p].pc \in SetLabels => /\ proc[p].arg \in Ids /\ Passed(p)
                                 /\ proc[p].route \subseteq WriteLayers
  BY Bounds DEF IInv, SetInv, PassedInv
<1>2. CASE SetFails(p)
  <2>1. InSet(p)
    BY <1>1, <1>2, Bounds DEF SetFails, Entered, InSet, Put, IInv, TypeOK
  <2>2. Passed(p)'
    BY <1>2 DEF SetFails, Entered, Passed, Idle, SetLabels
  <2>3. QED
    BY <2>1, <2>2, InSetKeeps
<1>3. ASSUME NEW l \in LayerIds, SetPasses(p, l)
      PROVE  IInv'
  <2>1. l \in WriteLayers
    BY <1>1, <1>3 DEF SetPasses, First
  <2>2. InSet(p)
    BY <1>1, <1>3, <2>1, Bounds
       DEF SetPasses, Follows, Moved, InSet, Put, IInv, TypeOK, SetLabels
  <2>3. content'[l][proc[p].arg] = "whole" \/ proc[p].arg \in touched \/ ~Persistent(l)
    BY <1>1, <1>3, <2>1 DEF SetPasses, Put, IInv, TypeOK, Passed
  <2>4. \A m \in WriteLayers : m # l => content'[m][proc[p].arg] = content[m][proc[p].arg]
    BY <1>3, Bounds DEF SetPasses, Put, IInv, TypeOK
  <2>5. Passed(p)'
    <3>1. /\ proc'[p].pc = "set" /\ proc'[p].route = proc[p].route \ {l}
          /\ proc'[p].arg = proc[p].arg /\ touched' = touched
          /\ proc[p].pc \in SetLabels /\ First(proc[p].route, l)
      BY <1>3 DEF SetPasses, Follows, Moved, Silent
    <3>2. ASSUME NEW m \in WriteLayers, Persistent(m), proc[p].arg \notin touched
          PROVE  m \in proc'[p].route \/ content'[m][proc[p].arg] = "whole"
      BY <1>1, <2>3, <2>4, <3>1, <3>2 DEF Passed
    <3>3. QED
      BY <3>1, <3>2 DEF Passed
  <2>6. QED
    BY <2>2, <2>5, InSetKeeps
<1>4. ASSUME NEW l \in LayerIds, SetFile(p, l)
      PROVE  IInv'
  <2>1. l \in WriteLayers
    BY <1>1, <1>4 DEF SetFile, First
  <2>2. InSet(p)
    BY <1>1, <1>4, <2>1, Bounds
       DEF SetFile, Follows, Moved, InSet, Put, IInv, TypeOK, SetLabels
  <2>3. \A m \in WriteLayers : m # l => content'[m][proc[p].arg] = content[m][proc[p].arg]
    BY <1>4, Bounds DEF SetFile, Put, IInv, TypeOK
  <2>4. Passed(p)'
    <3>1. /\ proc'[p].route = proc[p].route /\ proc'[p].arg = proc[p].arg
          /\ proc'[p].pc \in {"write", "verify"} /\ touched' = touched
          /\ proc[p].pc \in SetLabels /\ First(proc[p].route, l) /\ l \in proc[p].route
      BY <1>4 DEF SetFile, Follows, Moved, Silent, First
    <3>2. proc'[p].pc = "verify" => content'[l][proc[p].arg] = "whole"
      BY <1>1, <1>4, <2>1, Bounds DEF SetFile, Put, Follows, Moved, IInv, TypeOK
    <3>3. \A m : First(proc[p].route, m) => m = l
      BY <1>1, <3>1, LayerFacts, Bounds
    <3>4. ASSUME NEW m \in WriteLayers, Persistent(m), proc[p].arg \notin touched
          PROVE  \/ /\ m \in proc'[p].route
                    /\ proc'[p].pc = "verify" => ~First(proc'[p].route, m)
                 \/ content'[m][proc[p].arg] = "whole"
      BY <1>1, <2>3, <3>1, <3>2, <3>3, <3>4 DEF Passed
    <3>5. QED
      BY <3>1, <3>4 DEF Passed
  <2>5. QED
    BY <2>2, <2>4, InSetKeeps
<1>5. QED
  BY <1>2, <1>3, <1>4, SetClass DEF IInv

\* A mail is acknowledged when every persistent layer has it.
LEMMA AcknowledgeKeeps ==
  ASSUME IInv, TypeOK', NEW p \in Procs, SetReturn(p)
  PROVE  IInv'
<1>1. /\ proc[p].pc = "set" /\ proc[p].route = {} /\ proc[p].arg \in minted \ acked
      /\ UNCHANGED <<content, loading, rows, minted, touched, erased>>
      /\ acked' = acked \cup {proc[p].arg} /\ known' = known \cup {proc[p].arg}
      /\ proc[p].pc \in SetLabels /\ Passed(p)
  BY Bounds DEF SetReturn, Done, store, boot, IInv, PassedInv, SetLabels
<1>2. /\ proc'[p] = Idle
      /\ \A q \in Procs : q # p => proc'[q] = proc[q]
  BY ReturnFacts DEF SetReturn, Entered, IInv
<1>3. NoNewSet
  BY <1>1, <1>2 DEF NoNewSet, Setting, Idle, SetLabels
<1>4. LoadInv'
  BY <1>1, Serving DEF LoadInv
<1>5. OriginInv'
  BY <1>1, <1>2 DEF IInv, OriginInv, Present, Idle
<1>6. SetInv'
  BY <1>1, <1>2 DEF IInv, SetInv, Idle, SetLabels
<1>7. TouchInv'
  BY <1>1, <1>2 DEF IInv, TouchInv, Idle, PurgeLabels
<1>8. PassedInv'
  BY <1>1, <1>2 DEF IInv, PassedInv, Passed, Idle, SetLabels
<1>9. Durable'
  <2>1. proc[p].arg \notin touched =>
          \A l \in WriteLayers : Persistent(l) => content[l][proc[p].arg] = "whole"
    BY <1>1 DEF Passed
  <2>2. QED
    BY <1>1, <2>1 DEF IInv, Durable
<1>10. SweptInv'
  <2>1. ASSUME NEW q \in Procs PROVE Swept(q)'
    <3>1. CASE q = p
      BY <1>2, <3>1 DEF Swept, Idle, PurgeLabels
    <3>2. CASE q # p
      <4>1. proc'[q] = proc[q] /\ Swept(q) /\ proc[q].owed \subseteq Ids
        BY <1>2, <3>2, Bounds DEF IInv, SweptInv
      <4>2. proc[q].pc \in PurgeLabels \cup {"delete"} => \A id \in proc[q].owed : Over(id)'
        BY <1>3, <4>1, StillOver DEF Swept
      <4>3. QED
        BY <1>1, <4>1, <4>2 DEF Swept
    <3>3. QED
      BY <3>1, <3>2
  <2>2. QED
    BY <2>1 DEF SweptInv
<1>11. ErasedInv'
  <2>1. \A id \in erased : Over(id)'
    BY <1>3, Bounds, StillOver DEF IInv, ErasedInv
  <2>2. QED
    BY <1>1, <2>1 DEF IInv, ErasedInv, ErasedStaysErased
<1>12. QED
  BY <1>4, <1>5, <1>6, <1>7, <1>8, <1>9, <1>10, <1>11 DEF IInv

\* A step of a call that is no Set, or of one that begins: it removes at most
\* mails whose deletion was asked for.
Beside(p) ==
  /\ loading = 0 /\ rows = {}
  /\ UNCHANGED <<loading, rows, minted, acked>>
  /\ touched \subseteq touched' /\ known' \subseteq minted
  /\ proc[p].pc \notin SetLabels /\ proc'[p].pc \notin SetLabels
  /\ \A q \in Procs : q # p => proc'[q] = proc[q]
  /\ proc'[p].found \subseteq minted
  /\ proc'[p].pc = "delete" => proc'[p].arg \in touched'
  /\ proc'[p].pc \in PurgeLabels => minted \subseteq touched'
  /\ \A l \in LayerIds, id \in Ids :
       \/ content'[l][id] = content[l][id]
       \/ content'[l][id] = "none" /\ id \in touched

LEMMA BesideNoNewSet ==
  ASSUME NEW p \in Procs, Beside(p)
  PROVE  NoNewSet
  BY DEF Beside, NoNewSet, Setting

\* What a deletion found empty stays empty.
LEMMA BesideErased ==
  ASSUME IInv, NEW p \in Procs, Beside(p), erased' = erased
  PROVE  ErasedInv'
<1>1. \A id \in erased : id \in Ids /\ Over(id)'
  BY Bounds, BesideNoNewSet, StillOver DEF IInv, ErasedInv
<1>2. \A id \in erased, l \in WriteLayers : content'[l][id] = "none"
  BY <1>1, Bounds DEF Beside, IInv, ErasedInv, ErasedStaysErased
<1>3. QED
  BY <1>1, <1>2 DEF ErasedInv, ErasedStaysErased

LEMMA BesideKeeps ==
  ASSUME IInv, TypeOK', NEW p \in Procs, Beside(p), Swept(p)', ErasedInv'
  PROVE  IInv'
<1>1. LoadInv'
  BY DEF Beside, LoadInv
<1>2. OriginInv'
  <2>1. \A l \in LayerIds : Present(l)' \subseteq Present(l)
    BY DEF Beside, Present
  <2>2. erased' \subseteq minted'
    BY DEF ErasedInv, Over
  <2>3. \A q \in Procs : proc'[q].found \subseteq minted
    BY DEF Beside, IInv, OriginInv
  <2>4. Root \in LayerIds
    BY Bounds
  <2>5. QED
    BY <2>1, <2>2, <2>3, <2>4 DEF Beside, IInv, OriginInv
<1>3. SetInv'
  BY DEF Beside, IInv, SetInv
<1>4. TouchInv'
  BY DEF Beside, IInv, TouchInv
<1>5. PassedInv'
  <2>1. ASSUME NEW q \in Procs, q # p, proc[q].pc \in SetLabels
        PROVE  Passed(q)'
    <3>1. proc'[q] = proc[q] /\ Passed(q) /\ proc[q].arg \in Ids
      BY <2>1, Bounds DEF Beside, IInv, PassedInv
    <3>2. proc[q].arg \notin touched' =>
            \A l \in WriteLayers : content'[l][proc[q].arg] = content[l][proc[q].arg]
      BY <3>1, Bounds DEF Beside
    <3>3. QED
      BY <3>1, <3>2 DEF Passed, Beside
  <2>2. QED
    BY <2>1 DEF PassedInv, Passed, Beside
<1>6. Durable'
  <2>1. \A id \in acked \ touched', l \in WriteLayers : content'[l][id] = content[l][id]
    BY Bounds DEF Beside
  <2>2. QED
    BY <2>1 DEF Beside, IInv, Durable
<1>7. SweptInv'
  <2>1. ASSUME NEW q \in Procs, q # p
        PROVE  Swept(q)'
    <3>1. proc'[q] = proc[q] /\ Swept(q) /\ proc[q].owed \subseteq Ids
      BY <2>1, Bounds DEF Beside, IInv, SweptInv
    <3>2. proc[q].pc \in PurgeLabels \cup {"delete"} => \A id \in proc[q].owed : Over(id)'
      BY <3>1, BesideNoNewSet, StillOver DEF Swept
    <3>3. \A id \in proc[q].owed, l \in WriteLayers :
            content[l][id] = "none" => content'[l][id] = "none"
      BY <3>1, Bounds DEF Beside
    <3>4. QED
      BY <3>1, <3>2, <3>3 DEF Swept
  <2>2. QED
    BY <2>1 DEF SweptInv
<1>8. QED
  BY <1>1, <1>2, <1>3, <1>4, <1>5, <1>6, <1>7 DEF IInv

LEMMA DeleteKeeps ==
  ASSUME IInv, TypeOK', NEW p \in Procs, DeleteStep(p) \/ DeleteAllStep(p)
  PROVE  IInv'
<1> USE DEF Silent
<1>1. /\ proc[p] \in Call /\ proc[p].route \subseteq LayerIds /\ proc[p].owed \subseteq Ids
      /\ proc[p].found \subseteq minted /\ known \subseteq minted
      /\ Swept(p)
      /\ proc[p].pc = "delete" => proc[p].arg \in touched /\ proc[p].arg \in Ids
      /\ proc[p].pc \in PurgeLabels => minted \subseteq touched
      /\ \A l \in LayerIds : Present(l) \subseteq minted
      /\ \A l \in LayerIds : \A m : First(proc[p].route, l) /\ First(proc[p].route, m) => l = m
  BY CallFacts, LayerFacts DEF IInv, TypeOK, OriginInv, TouchInv, SweptInv
<1>2. proc[p].pc # "idle" => loading = 0 /\ rows = {}
  BY Serving
<1>3. CASE DeleteFails(p)
  <2>1. Beside(p)
    BY <1>1, <1>2, <1>3 DEF DeleteFails, Entered, Beside, Idle, SetLabels, PurgeLabels
  <2>2. Swept(p)'
    BY <1>3 DEF DeleteFails, Entered, Swept, Idle, PurgeLabels
  <2>3. QED
    BY <1>3, <2>1, <2>2, BesideErased, BesideKeeps DEF DeleteFails
<1>4. ASSUME NEW l \in LayerIds, DeletePasses(p, l)
      PROVE  IInv'
  <2>1. \A m \in LayerIds, id \in Ids :
          content'[m][id] = IF m = l /\ id = proc[p].arg THEN "none" ELSE content[m][id]
    BY <1>4 DEF DeletePasses, Put, IInv, TypeOK
  <2>2. Beside(p)
    BY <1>1, <1>2, <1>4, <2>1
       DEF DeletePasses, Follows, Moved, Beside, SetLabels, PurgeLabels
  <2>3. Swept(p)'
    <3>1. \A id \in proc[p].owed : Over(id)' /\ id = proc[p].arg
      BY <1>1, <1>4, <2>2, BesideNoNewSet, StillOver DEF Swept, DeletePasses
    <3>2. ASSUME NEW id \in proc[p].owed, NEW m \in WriteLayers
          PROVE  m \in proc[p].route \ {l} \/ content'[m][id] = "none"
      BY <1>1, <1>4, <2>1, <3>1, Bounds DEF Swept, DeletePasses
    <3>3. QED
      BY <1>4, <3>1, <3>2 DEF Swept, DeletePasses, Follows, Moved
  <2>4. QED
    BY <1>4, <2>2, <2>3, BesideErased, BesideKeeps DEF DeletePasses
<1>5. CASE DeletionReturns(p)
  <2>1. Beside(p)
    BY <1>1, <1>2, <1>5
       DEF DeletionReturns, Entered, Beside, Idle, SetLabels, PurgeLabels
  <2>2. Swept(p)'
    BY <1>5 DEF DeletionReturns, Entered, Swept, Idle, PurgeLabels
  <2>3. ErasedInv'
    <3>1. CASE erased' = erased
      BY <2>1, <3>1, BesideErased
    <3>2. CASE erased' = erased \cup proc[p].owed /\ (proc[p].pc \in PurgeLabels => ~proc[p].errs)
      <4>1. \A id \in erased' : Over(id)'
        BY <1>1, <1>5, <2>1, <3>2, Bounds, BesideNoNewSet, StillOver
           DEF Swept, DeletionReturns, IInv, ErasedInv
      <4>2. \A id \in proc[p].owed, m \in WriteLayers : content[m][id] = "none"
        BY <1>1, <1>5, <3>2 DEF Swept, DeletionReturns
      <4>3. QED
        BY <1>5, <3>2, <4>1, <4>2
           DEF ErasedInv, ErasedStaysErased, DeletionReturns, IInv
    <3>3. QED
      BY <1>5, <3>1, <3>2 DEF DeletionReturns
  <2>4. QED
    BY <2>1, <2>2, <2>3, BesideKeeps
<1>6. ASSUME NEW l \in LayerIds, PurgePasses(p, l)
      PROVE  IInv'
  <2>1. \/ \A m \in LayerIds, id \in Ids :
             content'[m][id] = IF m = l THEN "none" ELSE content[m][id]
        \/ content' = content /\ proc'[p].errs
    BY <1>6 DEF PurgePasses, Moved, IInv, TypeOK
  <2>2. Beside(p)
    <3>1. \A m \in LayerIds, id \in Ids :
            \/ content'[m][id] = content[m][id]
            \/ content'[m][id] = "none" /\ id \in touched
      BY <1>1, <1>6, <2>1 DEF PurgePasses, Present, PurgeLabels
    <3>2. QED
      BY <1>1, <1>2, <1>6, <3>1
         DEF PurgePasses, Follows, Moved, Beside, SetLabels, PurgeLabels
  <2>3. Swept(p)'
    <3>1. \A id \in proc[p].owed : Over(id)'
      BY <1>1, <1>6, <2>2, BesideNoNewSet, StillOver DEF Swept, PurgePasses, PurgeLabels
    <3>2. ASSUME NEW id \in proc[p].owed, NEW m \in WriteLayers, ~proc'[p].errs
          PROVE  m \in proc[p].route \ {l} \/ content'[m][id] = "none"
      BY <1>1, <1>6, <2>1, <3>2, Bounds
         DEF Swept, PurgePasses, Follows, Moved, PurgeLabels
    <3>3. QED
      BY <1>6, <3>1, <3>2 DEF Swept, PurgePasses, Follows, Moved
  <2>4. QED
    BY <1>6, <2>2, <2>3, BesideErased, BesideKeeps DEF PurgePasses
<1>7. ASSUME NEW l \in LayerIds, PurgeLists(p, l) \/ PurgeLeaves(p, l)
      PROVE  IInv'
  <2>1. Beside(p)
    BY <1>1, <1>2, <1>7
       DEF PurgeLists, PurgeLeaves, Follows, Moved, Beside, SetLabels, PurgeLabels
  <2>2. Swept(p)'
    <3>1. \A id \in proc[p].owed : Over(id)'
      BY <1>1, <1>7, <2>1, BesideNoNewSet, StillOver
         DEF Swept, PurgeLists, PurgeLeaves, PurgeLabels
    <3>2. CASE PurgeLists(p, l)
      <4>1. ASSUME NEW id \in proc[p].owed, NEW m \in WriteLayers, ~proc[p].errs
            PROVE  \/ /\ m \in proc[p].route
                      /\ ~First(proc[p].route, m) \/ id \in Present(l)
                   \/ content[m][id] = "none"
        BY <1>1, <3>2, <4>1, Bounds DEF Swept, PurgeLists, PurgeLabels, Present
      <4>2. QED
        BY <3>1, <3>2, <4>1 DEF Swept, PurgeLists, Moved
    <3>3. CASE PurgeLeaves(p, l)
      <4>1. ASSUME NEW id \in proc[p].owed, NEW m \in WriteLayers, ~proc[p].errs
            PROVE  m \in proc[p].route \ {l} \/ content[m][id] = "none"
        BY <1>1, <3>3, <4>1, Bounds DEF Swept, PurgeLeaves, PurgeLabels
      <4>2. QED
        BY <3>1, <3>3, <4>1 DEF Swept, PurgeLeaves, Follows, Moved
    <3>4. QED
      BY <1>7, <3>2, <3>3
  <2>3. QED
    BY <1>7, <2>1, <2>2, BesideErased, BesideKeeps DEF PurgeLists, PurgeLeaves
<1>8. ASSUME NEW l \in LayerIds, NEW x \in Ids, PurgeRemoves(p, l, x)
      PROVE  IInv'
  <2>1. \/ \A m \in LayerIds, id \in Ids :
             content'[m][id] = IF m = l /\ id = x THEN "none" ELSE content[m][id]
        \/ content' = content /\ proc'[p].errs
    BY <1>8 DEF PurgeRemoves, Put, Moved, IInv, TypeOK
  <2>2. Beside(p)
    <3>1. \A m \in LayerIds, id \in Ids :
            \/ content'[m][id] = content[m][id]
            \/ content'[m][id] = "none" /\ id \in touched
      BY <1>1, <1>8, <2>1 DEF PurgeRemoves, Present, PurgeLabels
    <3>2. QED
      BY <1>1, <1>2, <1>8, <3>1
         DEF PurgeRemoves, Moved, Beside, SetLabels, PurgeLabels
  <2>3. Swept(p)'
    <3>1. \A id \in proc[p].owed : Over(id)'
      BY <1>1, <1>8, <2>2, BesideNoNewSet, StillOver DEF Swept, PurgeRemoves, PurgeLabels
    <3>2. ASSUME NEW id \in proc[p].owed, NEW m \in WriteLayers, ~proc'[p].errs
          PROVE  \/ /\ m \in proc[p].route
                    /\ ~First(proc[p].route, m) \/ id \in proc[p].todo \ {x}
                 \/ content'[m][id] = "none"
      BY <1>1, <1>8, <2>1, <3>2, Bounds DEF Swept, PurgeRemoves, Moved, PurgeLabels
    <3>3. QED
      BY <1>8, <3>1, <3>2 DEF Swept, PurgeRemoves, Moved
  <2>4. QED
    BY <1>8, <2>2, <2>3, BesideErased, BesideKeeps DEF PurgeRemoves
<1>9. QED
  BY <1>3, <1>4, <1>5, <1>6, <1>7, <1>8, DeleteClass, PurgeClass DEF IInv

LEMMA SearchKeeps ==
  ASSUME IInv, TypeOK', NEW p \in Procs, SearchStep(p)
  PROVE  IInv'
<1>1. /\ proc[p].found \subseteq minted /\ known \subseteq minted
      /\ \A l \in LayerIds : Present(l) \subseteq minted
  BY DEF IInv, OriginInv
<1>2. /\ proc[p].pc \in {"search", "scan", "found", "failed"}
      /\ loading = 0 /\ rows = {}
  BY Serving DEF SearchStep, SearchTable, SearchGlob,
     SearchScan, SearchEnd, SearchReturn, At
<1>3. CASE SearchMoves(p)
  <2>1. PICK pc \in {"scan", "found", "failed"}, todo \in SUBSET Ids, found \in SUBSET Ids :
           /\ Moved(p, pc, proc[p].route, todo, found, proc[p].errs)
           /\ found \subseteq proc[p].found \cup UNION {Present(l) : l \in LayerIds}
    BY <1>3 DEF SearchMoves
  <2>2. found \subseteq minted
    BY <1>1, <2>1
  <2>3. Beside(p) /\ Swept(p)' /\ erased' = erased
    BY <1>1, <1>2, <1>3, <2>1, <2>2
       DEF SearchMoves, Silent, Moved, Beside, Swept, SetLabels, PurgeLabels
  <2>4. QED
    BY <2>3, BesideErased, BesideKeeps
<1>4. CASE SearchReturns(p)
  <2>1. Beside(p) /\ Swept(p)' /\ erased' = erased
    BY <1>1, <1>2, <1>4
       DEF SearchReturns, Entered, Beside, Swept, Idle, SetLabels, PurgeLabels
  <2>2. QED
    BY <2>1, BesideErased, BesideKeeps
<1>5. QED
  BY <1>3, <1>4, SearchClass DEF IInv

-----------------------------------------------------------------------------
(* Calls begin *)

LEMMA SetStartKeeps ==
  ASSUME IInv, TypeOK', NEW p \in Procs, NEW x \in Ids, SetStart(p, x)
  PROVE  IInv'
<1> DEFINE c == [Idle EXCEPT !.pc = "set", !.arg = x, !.route = WriteLayers]
<1>1. c \in Call /\ c.pc = "set" /\ c.arg = x /\ c.route = WriteLayers /\ c.found = {}
  BY LayerFacts, LabelFacts, FreshCalls DEF Idle
<1>2. /\ loading = 0 /\ proc[p].pc = "idle" /\ x \notin minted
      /\ minted' = minted \cup {x}
      /\ touched \subseteq touched' /\ touched' \subseteq touched \cup {x}
      /\ (\E q \in Procs : proc[q].pc \in PurgeLabels) => x \in touched'
      /\ UNCHANGED <<content, loading, rows, acked, known, erased>>
  BY DEF SetStart, Begin, store, boot
<1>3. /\ proc'[p] = c
      /\ \A q \in Procs : q # p => proc'[q] = proc[q]
  BY <1>1, BecomeFacts DEF SetStart, Entered, IInv
<1> HIDE DEF c
<1>4. NoNewSet
  BY <1>1, <1>2, <1>3 DEF NoNewSet, Setting
<1>5. LoadInv'
  BY <1>2 DEF IInv, LoadInv
<1>6. OriginInv'
  BY <1>1, <1>2, <1>3 DEF IInv, OriginInv, Present
<1>7. SetInv'
  BY <1>1, <1>2, <1>3, Bounds DEF IInv, SetInv, SetLabels
<1>8. TouchInv'
  BY <1>1, <1>2, <1>3 DEF IInv, TouchInv, PurgeLabels
<1>9. PassedInv'
  <2>1. Passed(p)'
    BY <1>1, <1>3 DEF Passed
  <2>2. ASSUME NEW q \in Procs, q # p PROVE Passed(q)'
    BY <1>2, <1>3, <2>2 DEF IInv, PassedInv, Passed
  <2>3. QED
    BY <2>1, <2>2 DEF PassedInv
<1>10. Durable'
  BY <1>2 DEF IInv, Durable
<1>11. SweptInv'
  <2>1. ASSUME NEW q \in Procs PROVE Swept(q)'
    <3>1. CASE q = p
      BY <1>1, <1>3, <3>1 DEF Swept, PurgeLabels
    <3>2. CASE q # p
      <4>1. proc'[q] = proc[q] /\ Swept(q) /\ proc[q].owed \subseteq Ids
        BY <1>3, <3>2, Bounds DEF IInv, SweptInv
      <4>2. proc[q].pc \in PurgeLabels \cup {"delete"} => \A id \in proc[q].owed : Over(id)'
        BY <1>4, <4>1, StillOver DEF Swept
      <4>3. QED
        BY <1>2, <4>1, <4>2 DEF Swept
    <3>3. QED
      BY <3>1, <3>2
  <2>2. QED
    BY <2>1 DEF SweptInv
<1>12. ErasedInv'
  <2>1. \A id \in erased : Over(id)'
    BY <1>4, Bounds, StillOver DEF IInv, ErasedInv
  <2>2. QED
    BY <1>2, <2>1 DEF IInv, ErasedInv, ErasedStaysErased
<1>13. QED
  BY <1>5, <1>6, <1>7, <1>8, <1>9, <1>10, <1>11, <1>12 DEF IInv

LEMMA StartKeeps ==
  ASSUME IInv, TypeOK', NEW p \in Procs, Start(p)
  PROVE  IInv'
<1>1. /\ known \subseteq minted /\ minted \subseteq Ids /\ acked \subseteq Ids
      /\ \A id : Over(id) => id \in minted
  BY Bounds DEF IInv, OriginInv
<1>2. loading = 0 => rows = {}
  BY DEF IInv, LoadInv
<1>3. ASSUME NEW x \in Ids, DeleteStart(p, x)
      PROVE  IInv'
  <2> DEFINE S == IF Over(x) THEN {x} ELSE {}
             c == [Idle EXCEPT !.pc = "delete", !.arg = x, !.route = WriteLayers,
                               !.owed = S]
  <2>1. S \subseteq {x} /\ S \subseteq Ids /\ \A id \in S : Over(id)
    OBVIOUS
  <2>2. Become(p, c) /\ Begin(p, "DeleteEmailByID") /\ touched' = touched \cup {x}
        /\ UNCHANGED <<content, loading, rows, minted, acked, known, erased>>
    BY <1>3 DEF DeleteStart, store, boot
  <2> HIDE DEF S
  <2>3. /\ c \in Call /\ c.pc = "delete" /\ c.arg = x /\ c.route = WriteLayers
        /\ c.found = {} /\ c.owed = S
    BY <2>1, LayerFacts, LabelFacts, FreshCalls DEF Idle
  <2>4. Entered(p, c)
    BY <2>2, <2>3, BecomeFacts DEF IInv
  <2> HIDE DEF c
  <2>5. Beside(p)
    BY <1>1, <1>2, <2>2, <2>3, <2>4
       DEF Begin, Entered, Beside, SetLabels, PurgeLabels
  <2>6. Swept(p)'
    <3>1. \A id \in S : Over(id)'
      BY <1>1, <2>1, <2>5, BesideNoNewSet, StillOver
    <3>2. QED
      BY <2>1, <2>3, <2>4, <3>1 DEF Entered, Swept
  <2>7. QED
    BY <2>2, <2>5, <2>6, BesideErased, BesideKeeps
<1>4. CASE DeleteAllStart(p)
  <2> DEFINE S == {id \in minted : Over(id)}
             c == [Idle EXCEPT !.pc = "deleteAll", !.route = WriteLayers, !.owed = S]
  <2>1. S \subseteq Ids /\ \A id \in S : Over(id)
    BY <1>1
  <2>2. Become(p, c) /\ Begin(p, "DeleteAllEmails") /\ touched' = touched \cup minted
        /\ UNCHANGED <<content, loading, rows, minted, acked, known, erased>>
    BY <1>4 DEF DeleteAllStart, store, boot
  <2> HIDE DEF S
  <2>3. /\ c \in Call /\ c.pc = "deleteAll" /\ c.route = WriteLayers
        /\ c.found = {} /\ c.owed = S
    BY <2>1, LayerFacts, LabelFacts, FreshCalls DEF Idle
  <2>4. Entered(p, c)
    BY <2>2, <2>3, BecomeFacts DEF IInv
  <2> HIDE DEF c
  <2>5. Beside(p)
    BY <1>1, <1>2, <2>2, <2>3, <2>4
       DEF Begin, Entered, Beside, SetLabels, PurgeLabels
  <2>6. Swept(p)'
    <3>1. \A id \in S : Over(id)'
      BY <1>1, <2>1, <2>5, BesideNoNewSet, StillOver
    <3>2. QED
      BY <2>1, <2>3, <2>4, <3>1 DEF Entered, Swept
  <2>7. QED
    BY <2>2, <2>5, <2>6, BesideErased, BesideKeeps
<1>5. CASE SearchStart(p)
  <2> DEFINE S == acked \ touched
             c == [Idle EXCEPT !.pc = "search", !.route = SearchLayers, !.owed = S]
  <2>1. S \subseteq Ids
    BY <1>1
  <2>2. Become(p, c) /\ Begin(p, "SearchEmails")
        /\ UNCHANGED <<content, loading, rows, minted, acked, known, touched, erased>>
    BY <1>5 DEF SearchStart, store, boot, history
  <2> HIDE DEF S
  <2>3. c \in Call /\ c.pc = "search" /\ c.found = {}
    BY <2>1, LayerFacts, LabelFacts, FreshCalls DEF Idle
  <2>4. Entered(p, c)
    BY <2>2, <2>3, BecomeFacts DEF IInv
  <2> HIDE DEF c
  <2>5. Beside(p) /\ Swept(p)'
    BY <1>1, <1>2, <2>2, <2>3, <2>4
       DEF Begin, Entered, Beside, Swept, SetLabels, PurgeLabels
  <2>6. QED
    BY <2>2, <2>5, BesideErased, BesideKeeps
<1>6. QED
  BY <1>3, <1>4, <1>5, SetStartKeeps DEF Start

-----------------------------------------------------------------------------
(* The process stops and loads *)

\* While nobody is served, only the stores have to be looked at.
LEMMA OfflineKeeps ==
  ASSUME IInv, UNCHANGED history, LoadInv', Durable', ErasedStaysErased',
         \A p \in Procs : proc'[p] = Idle,
         \A l \in LayerIds : Present(l)' \subseteq minted,
         Root \notin WriteLayers => Present(Root)' = {},
         TypeOK'
  PROVE  IInv'
<1>1. OriginInv'
  BY DEF IInv, OriginInv, history, Idle
<1>2. SetInv' /\ TouchInv' /\ PassedInv' /\ SweptInv'
  BY DEF SetInv, TouchInv, PassedInv, Passed, SweptInv, Swept, Idle, SetLabels, PurgeLabels
<1>3. ErasedInv'
  <2>1. \A id \in erased : Over(id)'
    BY DEF IInv, OriginInv, history, Over, Setting, Idle, SetLabels
  <2>2. QED
    BY <2>1 DEF ErasedInv, history
<1>4. QED
  BY <1>1, <1>2, <1>3 DEF IInv

LEMMA CrashKeeps ==
  ASSUME IInv, TypeOK', Crash
  PROVE  IInv'
<1>1. /\ UNCHANGED history /\ rows' = {}
      /\ \A p \in Procs : proc'[p] = Idle
      /\ \A l \in LayerIds, id \in Ids :
           content'[l][id] = IF Persistent(l) THEN content[l][id] ELSE "none"
  BY DEF Crash
<1>2. /\ WriteLayers \subseteq LayerIds /\ Root \in LayerIds
      /\ acked \subseteq Ids /\ erased \subseteq Ids
  BY Bounds
<1>3. LoadInv'
  BY <1>1 DEF LoadInv
<1>4. Durable'
  BY <1>1, <1>2 DEF IInv, Durable, history
<1>5. ErasedStaysErased'
  BY <1>1, <1>2 DEF IInv, ErasedInv, ErasedStaysErased, history
<1>6. \A l \in LayerIds : Present(l)' \subseteq Present(l)
  BY <1>1 DEF Present
<1>7. /\ \A l \in LayerIds : Present(l)' \subseteq minted
      /\ Root \notin WriteLayers => Present(Root)' = {}
  BY <1>2, <1>6 DEF IInv, OriginInv
<1>8. QED
  BY <1>1, <1>3, <1>4, <1>5, <1>7, OfflineKeeps

LEMMA LoadKeeps ==
  ASSUME IInv, TypeOK', LoadStep
  PROVE  IInv'
<1>1. PICK l \in LayerIds : \/ LoadNothing(l) \/ LoadMemory(l) \/ LoadSqlite(l)
                            \/ \E id \in rows : LoadRow(l, id)
  BY DEF LoadStep
<1>2. /\ loading = l /\ loading # 0 /\ UNCHANGED history /\ proc' = proc
      /\ l - 1 # l
  BY <1>1, LayerFacts DEF LoadNothing, LoadMemory, LoadSqlite, LoadRow, store
<1>3. /\ \A p \in Procs : proc'[p] = Idle
      /\ rows # {} => /\ l # Root /\ TypeOf(l) = "SQLITE" /\ rows \subseteq Present(Root)
                      /\ l \in WriteLayers => acked \subseteq touched
  BY <1>2 DEF IInv, LoadInv
<1>4. /\ WriteLayers \subseteq LayerIds /\ Root \in LayerIds
      /\ acked \subseteq Ids /\ erased \subseteq Ids
      /\ Durable /\ ErasedStaysErased
      /\ \A m \in LayerIds : Present(m) \subseteq minted
      /\ Root \notin WriteLayers => Present(Root) = {}
  BY Bounds DEF IInv, ErasedInv, OriginInv
<1>5. CASE content' = content /\ LoadInv'
  <2>1. Durable' /\ ErasedStaysErased'
    BY <1>2, <1>4, <1>5 DEF Durable, ErasedStaysErased, history
  <2>2. \A m \in LayerIds : Present(m)' = Present(m)
    BY <1>5 DEF Present
  <2>3. QED
    BY <1>2, <1>3, <1>4, <1>5, <2>1, <2>2, OfflineKeeps
<1>6. CASE LoadNothing(l)
  <2>1. rows = {}
    BY <1>3, <1>6 DEF LoadNothing
  <2>2. LoadInv'
    BY <1>3, <1>6, <2>1 DEF LoadNothing, LoadInv
  <2>3. QED
    BY <1>5, <1>6, <2>2 DEF LoadNothing, store
<1>7. CASE LoadMemory(l)
  <2>1. rows' = {} /\ l # Root /\ ~Persistent(l)
    BY <1>3, <1>7 DEF LoadMemory, Persistent
  <2>2. LoadInv'
    BY <1>3, <2>1 DEF LoadInv
  <2>3. CASE content' = content
    BY <1>5, <2>2, <2>3
  <2>4. CASE content' = [content EXCEPT ![l] = content[Root]]
    <3>1. \A m \in LayerIds, id \in Ids :
            content'[m][id] = IF m = l THEN content[Root][id] ELSE content[m][id]
      BY <2>4 DEF IInv, TypeOK
    <3>2. Durable'
      BY <1>2, <1>4, <2>1, <3>1 DEF Durable, history
    <3>3. \A id \in erased : content[Root][id] = "none"
      BY <1>4 DEF ErasedStaysErased, Present
    <3>4. ErasedStaysErased'
      BY <1>2, <1>4, <3>1, <3>3 DEF ErasedStaysErased, history
    <3>5. \A m \in LayerIds : Present(m)' = IF m = l THEN Present(Root) ELSE Present(m)
      BY <3>1 DEF Present
    <3>6. QED
      BY <1>2, <1>3, <1>4, <2>1, <2>2, <3>2, <3>4, <3>5, OfflineKeeps
  <2>5. QED
    BY <1>7, <2>3, <2>4 DEF LoadMemory
<1>8. CASE LoadSqlite(l)
  <2>1. /\ content' = content /\ l # Root /\ TypeOf(l) = "SQLITE"
        /\ rows' # {} => rows' = Present(Root) /\ Present(l) = {} /\ loading' = l
    BY <1>8 DEF LoadSqlite, store
  <2>2. rows' # {} /\ l \in WriteLayers => acked \subseteq touched
    BY <1>4, <2>1 DEF Durable, Persistent, Present
  <2>3. Present(Root)' = Present(Root)
    BY <2>1 DEF Present
  <2>4. LoadInv'
    BY <1>2, <1>3, <2>1, <2>2, <2>3, LayerFacts DEF LoadInv, history
  <2>5. QED
    BY <1>5, <2>1, <2>4
<1>9. ASSUME NEW x \in rows, LoadRow(l, x)
      PROVE  IInv'
  <2>1. /\ l # Root /\ x \in Ids /\ content[Root][x] # "none"
        /\ l \in WriteLayers => acked \subseteq touched
        /\ rows' \subseteq rows
        /\ rows' # {} => loading' = l
        /\ TypeOf(l) = "SQLITE" /\ rows \subseteq Present(Root)
    BY <1>3, <1>9 DEF LoadRow, Present
  <2>2. \A m \in LayerIds, id \in Ids :
          \/ content'[m][id] = content[m][id]
          \/ m = l /\ id = x
    BY <1>9, <2>1 DEF LoadRow, IInv, TypeOK
  <2>3. Present(Root)' = Present(Root)
    BY <1>4, <2>1, <2>2 DEF Present
  <2>4. LoadInv'
    <3>1. l # 0
      BY LayerFacts
    <3>2. rows' \subseteq Present(Root) /\ acked' = acked /\ touched' = touched
      BY <1>2, <2>1 DEF history
    <3>3. QED
      BY <1>3, <2>1, <2>3, <3>1, <3>2 DEF LoadInv
  <2>5. Durable'
    BY <1>2, <1>4, <2>1, <2>2 DEF Durable, history
  <2>6. x \notin erased
    BY <1>4, <2>1 DEF ErasedStaysErased, Present
  <2>7. ErasedStaysErased'
    BY <1>2, <1>4, <2>2, <2>6 DEF ErasedStaysErased, history
  <2>8. \A m \in LayerIds : Present(m)' \subseteq Present(m) \cup Present(Root)
    BY <2>1, <2>2 DEF Present
  <2>9. QED
    BY <1>2, <1>3, <1>4, <2>3, <2>4, <2>5, <2>7, <2>8, OfflineKeeps
<1>10. QED
  BY <1>1, <1>6, <1>7, <1>8, <1>9

-----------------------------------------------------------------------------
(* The invariant *)

LEMMA IInvInit == Init => IInv
<1> SUFFICES ASSUME Init PROVE IInv
  OBVIOUS
<1>1. /\ TypeOK /\ \A p \in Procs : proc[p] = Idle
      /\ minted = {} /\ acked = {} /\ known = {} /\ erased = {} /\ rows = {}
      /\ \A l \in LayerIds : Present(l) = {}
  BY TypeInit DEF Init, Present
<1>2. LoadInv
  BY <1>1 DEF LoadInv
<1>3. OriginInv /\ SetInv /\ TouchInv
  BY <1>1, LayerFacts DEF OriginInv, SetInv, TouchInv, Idle, SetLabels, PurgeLabels
<1>4. PassedInv /\ Durable /\ SweptInv /\ ErasedInv
  BY <1>1 DEF PassedInv, Passed, Durable, SweptInv, Swept, ErasedInv,
     ErasedStaysErased, Idle, SetLabels, PurgeLabels
<1>5. QED
  BY <1>1, <1>2, <1>3, <1>4 DEF IInv

LEMMA IInvNext == IInv /\ [Next]_vars => IInv'
<1> SUFFICES ASSUME IInv, [Next]_vars PROVE IInv'
  OBVIOUS
<1>1. TypeOK'
  BY TypeNext DEF IInv
<1>2. ASSUME NEW p \in Procs, Start(p) \/ Step(p)
      PROVE  IInv'
  BY <1>1, <1>2, StartKeeps, SetKeeps, AcknowledgeKeeps, DeleteKeeps, SearchKeeps DEF Step
<1>3. CASE LoadStep \/ Crash
  BY <1>1, <1>3, LoadKeeps, CrashKeeps
<1>4. CASE UNCHANGED vars
  <2>1. /\ UNCHANGED <<content, proc, loading, rows, minted, acked, known, touched, erased>>
        /\ \A l \in LayerIds : Present(l)' = Present(l)
        /\ \A id : Over(id)' = Over(id)
    BY <1>4 DEF vars, store, boot, history, Present, Over, Setting
  <2>2. (LoadInv /\ OriginInv /\ SetInv /\ TouchInv)'
    BY <2>1, LayerFacts DEF IInv, LoadInv, OriginInv, SetInv, TouchInv
  <2>3. (PassedInv /\ Durable /\ SweptInv /\ ErasedInv)'
    BY <2>1 DEF IInv, PassedInv, Passed, Durable, SweptInv, Swept, ErasedInv,
       ErasedStaysErased
  <2>4. QED
    BY <1>1, <2>2, <2>3 DEF IInv
<1>5. QED
  BY <1>2, <1>3, <1>4 DEF Next

\* The strengthening holds in every reachable state, for any layers, mails and
\* goroutines: while load runs nobody is served, no two Sets share a mail, and
\* every call has done what it owes in the layers it has left behind.
THEOREM InductiveInvariant == Spec => []IInv
<1>1. QED
  BY IInvInit, IInvNext, PTL DEF Spec

\* An acknowledged mail nobody asked to delete is complete in every persistent
\* writable layer, whatever engine.Set and its rivals do and whatever crashes.
THEOREM DurableHolds == Spec => []Durable
<1>1. IInv => Durable
  BY DEF IInv
<1>2. QED
  BY <1>1, InductiveInvariant, PTL

\* What DeleteEmailByID or DeleteAllEmails confirmed is never in a writable
\* layer again: no Set, no hydration and no restart brings it back.
THEOREM ErasedStaysErasedHolds == Spec => []ErasedStaysErased
<1>1. IInv => ErasedStaysErased
  BY DEF IInv, ErasedInv
<1>2. QED
  BY <1>1, InductiveInvariant, PTL

=============================================================================
