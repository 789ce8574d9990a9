--------------------------- MODULE StorageEngine ---------------------------
(***************************************************************************)
(* The storage engine of mock-my-mta: one Go value, called by the SMTP      *)
(* handler (Set) and by the HTTP handlers (SearchEmails, DeleteEmailByID,   *)
(* DeleteAllEmails, the reads by id), each on a goroutine of its own, that  *)
(* forwards every call to a list of layers.                                 *)
(*                                                                          *)
(* The engine itself takes no lock. A call visits its layers one after the  *)
(* other, so two calls interleave between layers; inside a layer            *)
(*   - MEMORY works under its RWMutex: one step per call;                   *)
(*   - SQLITE runs one statement: one step per call;                        *)
(*   - FILESYSTEM writes and deletes under its mutex, a file at a time, and *)
(*     its readers take no lock at all: every file operation is a step.     *)
(*                                                                          *)
(* The process may stop between any two steps. Files and rows survive, and  *)
(* the next start runs load before it serves anybody.                       *)
(*                                                                          *)
(* Source: storage/engine.go, storage/storage_memory.go,                    *)
(*         storage/storage_filesystem.go, storage/storage_sqlite.go         *)
(***************************************************************************)
EXTENDS StorageLayers, FiniteSets

CONSTANTS
  Ids,            \* the ids Set may mint, each one once (they hold a fresh UUID)
  Procs,          \* the goroutines that call the engine
  None,           \* neither an id nor a goroutine
  Malformed,      \* the ids of the mails multipart.New refuses to parse
  Workload,       \* the operations the callers use
  Faults,         \* whether an operation that writes or removes may fail
  MaxCrashes      \* bound on the number of times the process stops

Operations ==
  {"Set", "DeleteEmailByID", "DeleteAllEmails", "SearchEmails"}

ASSUME EngineAssumption ==
  /\ None \notin Ids /\ None \notin Procs
  /\ Malformed \subseteq Ids
  /\ Workload \subseteq Operations
  /\ Faults \in BOOLEAN
  /\ MaxCrashes \in Nat

VARIABLES
  content,        \* content[l][id]: what layer l holds of mail id
  lock,           \* lock[l]: the goroutine that holds the mutex of layer l
  proc,           \* proc[p]: where goroutine p is in its call
  loading,        \* the layer load is at, 0 once the engine serves
  rows,           \* ids the SQLITE layer being loaded still has to insert
  crashes         \* how often the process stopped

\* What callers were told and asked for. No code reads these.
VARIABLES
  minted,         \* ids some Set generated
  acked,          \* ids whose Set returned without an error
  known,          \* ids a caller learned, from Set or from a search
  touched,        \* ids a deletion was asked for, or a DeleteAllEmails overlapped
  erased          \* ids a deletion, asked for after Set was over, was confirmed for

store   == <<content, lock>>
boot    == <<loading, rows, crashes>>
history == <<minted, acked, known, touched, erased>>
vars    == <<store, proc, boot, history>>

\* "torn": a file that os.Create made and that holds no complete header yet.
\* "cut":  a file whose Write failed after the header: it parses, it is not
\*         the mail that was sent.
Statuses == {"none", "torn", "cut", "whole"}

Labels ==
  {"idle", "set", "write", "verify",       \* setWithID
   "delete",                               \* DeleteEmailByID
   "deleteAll", "remove",                  \* DeleteAllEmails
   "search", "scan", "found", "failed"}    \* SearchEmails

Call == [pc    : Labels,
         arg   : Ids \cup {None},          \* the id the call is about
         route : SUBSET LayerIds,          \* layers the loop has yet to visit
         todo  : SUBSET Ids,               \* files listed and not yet handled
         found : SUBSET Ids,               \* results so far
         owed  : SUBSET Ids,               \* ids the call owes its caller
         errs  : BOOLEAN]                  \* an error was collected

Idle == [pc |-> "idle", arg |-> None, route |-> {}, todo |-> {},
         found |-> {}, owed |-> {}, errs |-> FALSE]

SetLabels == {"set", "write", "verify"}
PurgeLabels == {"deleteAll", "remove"}

Setting(p, id) == proc[p].pc \in SetLabels /\ proc[p].arg = id

\* The Set that minted id has returned, or died with the process.
Over(id) == id \in minted /\ \A p \in Procs : ~Setting(p, id)

Present(l) == {id \in Ids : content[l][id] # "none"}

\* loadEmailFromID succeeds: the file is there and parses.
Loads(l, id) == content[l][id] \in {"cut", "whole"} /\ id \notin Malformed

\* What SearchEmails("") answers for layer l when nothing runs beside it.
Listable(l) == TypeOf(l) = "FILESYSTEM" => \A id \in Present(l) : Loads(l, id)

Init ==
  /\ content = [l \in LayerIds |-> [id \in Ids |-> "none"]]
  /\ lock = [l \in LayerIds |-> None]
  /\ proc = [p \in Procs |-> Idle]
  /\ loading = 0 /\ rows = {} /\ crashes = 0
  /\ minted = {} /\ acked = {} /\ known = {} /\ touched = {} /\ erased = {}

-----------------------------------------------------------------------------
(* The layer a call is at, and how a call ends. *)

At(p, label, l) == proc[p].pc = label /\ First(proc[p].route, l)

Done(p, label) == proc[p].pc = label /\ proc[p].route = {}

Begin(p, operation) ==
  loading = 0 /\ proc[p].pc = "idle" /\ operation \in Workload

Become(p, call) == proc' = [proc EXCEPT ![p] = call]

Return(p) == Become(p, Idle)

\* The layer is done with: the loop moves on to the next one.
Advance(p, l) == Become(p, [proc[p] EXCEPT !.route = @ \ {l}])

Release(l) == lock' = [lock EXCEPT ![l] = None]

-----------------------------------------------------------------------------
(* Mistakes the code could contain. None of them is part of the model: each *)
(* stands in for an action of its name to show that a property notices.     *)

\* The cache takes the mail before it is parsed.
SetMemoryUnparsed(p, l) ==
  /\ At(p, "set", l) /\ TypeOf(l) = "MEMORY"
  /\ content' = [content EXCEPT ![l][proc[p].arg] = "whole"]
  /\ Advance(p, l)
  /\ UNCHANGED <<lock, boot, history>>

\* A failed INSERT is only logged.
SetSqliteSwallows(p, l) ==
  /\ At(p, "set", l) /\ TypeOf(l) = "SQLITE"
  /\ \/ Faults /\ UNCHANGED content
     \/ content' = [content EXCEPT ![l][proc[p].arg] = "whole"]
  /\ Advance(p, l)
  /\ UNCHANGED <<lock, boot, history>>

\* A failed Write is only logged.
SetWriteSwallows(p, l) ==
  /\ At(p, "write", l)
  /\ \E rest \in {"whole"} \cup (IF Faults THEN {"torn", "cut"} ELSE {}) :
       content' = [content EXCEPT ![l][proc[p].arg] = rest]
  /\ Become(p, [proc[p] EXCEPT !.pc = "verify"])
  /\ UNCHANGED <<lock, boot, history>>

\* A file that does not parse is refused and left in the folder.
SetVerifyLeaves(p, l) ==
  /\ At(p, "verify", l)
  /\ Release(l)
  /\ IF Loads(l, proc[p].arg)
       THEN Become(p, [proc[p] EXCEPT !.pc = "set", !.route = @ \ {l}])
       ELSE Return(p)
  /\ UNCHANGED <<content, boot, history>>

\* The path that refuses the mail returns without unlocking.
SetVerifyKeepsLock(p, l) ==
  /\ At(p, "verify", l)
  /\ \/ /\ Loads(l, proc[p].arg)
        /\ Release(l)
        /\ Become(p, [proc[p] EXCEPT !.pc = "set", !.route = @ \ {l}])
        /\ UNCHANGED content
     \/ /\ ~Loads(l, proc[p].arg)
        /\ content' = [content EXCEPT ![l][proc[p].arg] = "none"]
        /\ Return(p)
        /\ UNCHANGED lock
  /\ UNCHANGED <<boot, history>>

\* A failed removal counts as done, like the one of a mail that is not there.
DeletePersistentSwallows(p, l) ==
  /\ \/ content' = [content EXCEPT ![l][proc[p].arg] = "none"]
     \/ Faults /\ UNCHANGED content
  /\ Advance(p, l)

DeleteAllSqliteSwallows(p, l) ==
  /\ At(p, "deleteAll", l) /\ TypeOf(l) = "SQLITE"
  /\ \/ content' = [content EXCEPT ![l] = [id \in Ids |-> "none"]]
     \/ Faults /\ UNCHANGED content
  /\ Advance(p, l)
  /\ UNCHANGED <<lock, boot, history>>

\* A file that does not load ends the scan with the mails found so far.
SearchScanBreaks(p, l, id) ==
  /\ At(p, "scan", l)
  /\ id \in proc[p].todo
  /\ IF Loads(l, id)
       THEN Become(p, [proc[p] EXCEPT !.todo = @ \ {id}, !.found = @ \cup {id}])
       ELSE Become(p, [proc[p] EXCEPT !.pc = "found"])
  /\ UNCHANGED <<store, boot, history>>

\* The cache asks its root for a page and not for everything.
LoadMemoryOnePage(l) ==
  /\ loading = l /\ l # Root /\ TypeOf(l) = "MEMORY"
  /\ \E page \in SUBSET Present(Root) :
       /\ Cardinality(page) <= 1 /\ (page = {} => Present(Root) = {})
       /\ content' = [content EXCEPT ![l] =
                        [id \in Ids |-> IF id \in page THEN content[Root][id] ELSE "none"]]
  /\ loading' = l - 1
  /\ UNCHANGED <<lock, proc, rows, crashes, history>>

\* The database is emptied and filled anew at every start, as the cache is.
LoadSqliteAnew(l) ==
  /\ loading = l /\ l # Root /\ TypeOf(l) = "SQLITE" /\ rows = {}
  /\ content' = [content EXCEPT ![l] = [id \in Ids |-> "none"]]
  /\ LET wanted == IF Listable(Root) THEN Present(Root) ELSE {}
     IN  /\ rows' = wanted
         /\ loading' = IF wanted = {} THEN l - 1 ELSE l
  /\ UNCHANGED <<lock, proc, crashes, history>>

-----------------------------------------------------------------------------
(* Set *)

\* A DeleteAllEmails that is under way may or may not reach the new mail.
SetStart(p, id) ==
  /\ Begin(p, "Set")
  /\ id \notin minted
  /\ minted' = minted \cup {id}
  /\ touched' = IF \E q \in Procs : proc[q].pc \in PurgeLabels
                  THEN touched \cup {id} ELSE touched
  /\ Become(p, [Idle EXCEPT !.pc = "set", !.arg = id,
                                 !.route = WriteLayers])
  /\ UNCHANGED <<store, boot, acked, known, erased>>

\* The whole mail is parsed before anything is stored. The attachments enter
\* their map one by one ahead of the header; a mail is in the layer once its
\* header is.
SetMemory(p, l) ==
  /\ At(p, "set", l) /\ TypeOf(l) = "MEMORY"
  /\ \/ /\ proc[p].arg \in Malformed
        /\ Return(p)
        /\ UNCHANGED content
     \/ /\ proc[p].arg \notin Malformed
        /\ content' = [content EXCEPT ![l][proc[p].arg] = "whole"]
        /\ Advance(p, l)
  /\ UNCHANGED <<lock, boot, history>>

SetSqlite(p, l) ==
  /\ At(p, "set", l) /\ TypeOf(l) = "SQLITE"
  /\ \/ /\ proc[p].arg \in Malformed \/ Faults
        /\ Return(p)
        /\ UNCHANGED content
     \/ /\ proc[p].arg \notin Malformed
        /\ content' = [content EXCEPT ![l][proc[p].arg] = "whole"]
        /\ Advance(p, l)
  /\ UNCHANGED <<lock, boot, history>>

\* mu.Lock and os.Create. When Create fails the deferred Unlock follows.
SetCreate(p, l) ==
  /\ At(p, "set", l) /\ TypeOf(l) = "FILESYSTEM"
  /\ lock[l] = None
  /\ \/ /\ Faults
        /\ Return(p)
        /\ UNCHANGED store
     \/ /\ lock' = [lock EXCEPT ![l] = p]
        /\ content' = [content EXCEPT ![l][proc[p].arg] = "torn"]
        /\ Become(p, [proc[p] EXCEPT !.pc = "write"])
  /\ UNCHANGED <<boot, history>>

\* A Write that fails returns at once and leaves what it wrote in the folder.
SetWrite(p, l) ==
  /\ At(p, "write", l)
  /\ \/ /\ Faults
        /\ \E rest \in {"torn", "cut"} :
             content' = [content EXCEPT ![l][proc[p].arg] = rest]
        /\ Return(p)
        /\ Release(l)
     \/ /\ content' = [content EXCEPT ![l][proc[p].arg] = "whole"]
        /\ Become(p, [proc[p] EXCEPT !.pc = "verify"])
        /\ UNCHANGED lock
  /\ UNCHANGED <<boot, history>>

\* The file is read back. One that does not parse is removed, and the error of
\* that os.Remove is ignored.
SetVerify(p, l) ==
  /\ At(p, "verify", l)
  /\ Release(l)
  /\ \/ /\ Loads(l, proc[p].arg)
        /\ Become(p, [proc[p] EXCEPT !.pc = "set", !.route = @ \ {l}])
        /\ UNCHANGED content
     \/ /\ ~Loads(l, proc[p].arg)
        /\ \/ content' = [content EXCEPT ![l][proc[p].arg] = "none"]
           \/ Faults /\ UNCHANGED content
        /\ Return(p)
  /\ UNCHANGED <<boot, history>>

\* Set returns the id: the SMTP client gets its 250, the browsers an event.
SetReturn(p) ==
  /\ Done(p, "set")
  /\ acked' = acked \cup {proc[p].arg}
  /\ known' = known \cup {proc[p].arg}
  /\ Return(p)
  /\ UNCHANGED <<store, boot, minted, touched, erased>>

SetStep(p) ==
  \/ \E l \in LayerIds : \/ SetMemory(p, l) \/ SetSqlite(p, l)
                         \/ SetCreate(p, l) \/ SetWrite(p, l) \/ SetVerify(p, l)
  \/ SetReturn(p)

-----------------------------------------------------------------------------
(* DeleteEmailByID: the first real error ends the loop *)

DeleteStart(p, id) ==
  /\ Begin(p, "DeleteEmailByID")
  /\ id \in known
  /\ touched' = touched \cup {id}
  /\ Become(p, [Idle EXCEPT
                 !.pc = "delete", !.arg = id, !.route = WriteLayers,
                 !.owed = IF Over(id) THEN {id} ELSE {}])
  /\ UNCHANGED <<store, boot, minted, acked, known, erased>>

\* Removing what is not there is no error for MEMORY, and one for the others.
DeleteMemory(p, l) ==
  /\ At(p, "delete", l) /\ TypeOf(l) = "MEMORY"
  /\ content' = [content EXCEPT ![l][proc[p].arg] = "none"]
  /\ Advance(p, l)
  /\ UNCHANGED <<lock, boot, history>>

DeletePersistent(p, l) ==
  \/ /\ content[l][proc[p].arg] # "none"
     /\ content' = [content EXCEPT ![l][proc[p].arg] = "none"]
     /\ Advance(p, l)
  \/ /\ content[l][proc[p].arg] = "none" \/ Faults
     /\ Return(p)
     /\ UNCHANGED content

DeleteSqlite(p, l) ==
  /\ At(p, "delete", l) /\ TypeOf(l) = "SQLITE"
  /\ DeletePersistent(p, l)
  /\ UNCHANGED <<lock, boot, history>>

DeleteFilesystem(p, l) ==
  /\ At(p, "delete", l) /\ TypeOf(l) = "FILESYSTEM"
  /\ lock[l] = None
  /\ DeletePersistent(p, l)
  /\ UNCHANGED <<lock, boot, history>>

DeleteReturn(p) ==
  /\ Done(p, "delete")
  /\ erased' = erased \cup proc[p].owed
  /\ Return(p)
  /\ UNCHANGED <<store, boot, minted, acked, known, touched>>

DeleteStep(p) ==
  \/ \E l \in LayerIds :
       DeleteMemory(p, l) \/ DeleteSqlite(p, l) \/ DeleteFilesystem(p, l)
  \/ DeleteReturn(p)

-----------------------------------------------------------------------------
(* DeleteAllEmails: errors are collected, every layer is visited *)

DeleteAllStart(p) ==
  /\ Begin(p, "DeleteAllEmails")
  /\ touched' = touched \cup minted
  /\ Become(p, [Idle EXCEPT
                 !.pc = "deleteAll", !.route = WriteLayers,
                 !.owed = {id \in minted : Over(id)}])
  /\ UNCHANGED <<store, boot, minted, acked, known, erased>>

DeleteAllMemory(p, l) ==
  /\ At(p, "deleteAll", l) /\ TypeOf(l) = "MEMORY"
  /\ content' = [content EXCEPT ![l] = [id \in Ids |-> "none"]]
  /\ Advance(p, l)
  /\ UNCHANGED <<lock, boot, history>>

DeleteAllSqlite(p, l) ==
  /\ At(p, "deleteAll", l) /\ TypeOf(l) = "SQLITE"
  /\ \/ /\ content' = [content EXCEPT ![l] = [id \in Ids |-> "none"]]
        /\ Advance(p, l)
     \/ /\ Faults
        /\ Become(p, [proc[p] EXCEPT !.route = @ \ {l}, !.errs = TRUE])
        /\ UNCHANGED content
  /\ UNCHANGED <<lock, boot, history>>

\* mu.Lock, then the folder is listed once.
DeleteAllGlob(p, l) ==
  /\ At(p, "deleteAll", l) /\ TypeOf(l) = "FILESYSTEM"
  /\ lock[l] = None
  /\ lock' = [lock EXCEPT ![l] = p]
  /\ Become(p, [proc[p] EXCEPT !.pc = "remove", !.todo = Present(l)])
  /\ UNCHANGED <<content, boot, history>>

DeleteAllRemove(p, l, id) ==
  /\ At(p, "remove", l)
  /\ id \in proc[p].todo
  /\ \/ /\ content' = [content EXCEPT ![l][id] = "none"]
        /\ Become(p, [proc[p] EXCEPT !.todo = @ \ {id}])
     \/ /\ Faults
        /\ Become(p, [proc[p] EXCEPT !.todo = @ \ {id}, !.errs = TRUE])
        /\ UNCHANGED content
  /\ UNCHANGED <<lock, boot, history>>

DeleteAllUnlock(p, l) ==
  /\ At(p, "remove", l)
  /\ proc[p].todo = {}
  /\ Release(l)
  /\ Become(p, [proc[p] EXCEPT !.pc = "deleteAll", !.route = @ \ {l}])
  /\ UNCHANGED <<content, boot, history>>

DeleteAllReturn(p) ==
  /\ Done(p, "deleteAll")
  /\ erased' = IF proc[p].errs THEN erased ELSE erased \cup proc[p].owed
  /\ Return(p)
  /\ UNCHANGED <<store, boot, minted, acked, known, touched>>

DeleteAllStep(p) ==
  \/ \E l \in LayerIds :
       \/ DeleteAllMemory(p, l) \/ DeleteAllSqlite(p, l)
       \/ DeleteAllGlob(p, l) \/ DeleteAllUnlock(p, l)
       \/ \E id \in proc[p].todo : DeleteAllRemove(p, l, id)
  \/ DeleteAllReturn(p)

-----------------------------------------------------------------------------
(* SearchEmails (and GetMailboxes, which lists the same way): the first     *)
(* search layer answers, since every layer implements the method            *)

\* The caller may expect the mails that are acknowledged and that nobody
\* asked to delete. Without a search layer the engine only returns an error.
SearchStart(p) ==
  /\ Begin(p, "SearchEmails")
  /\ SearchLayers # {}
  /\ Become(p, [Idle EXCEPT
                 !.pc = "search", !.route = SearchLayers,
                 !.owed = acked \ touched])
  /\ UNCHANGED <<store, boot, history>>

\* MEMORY lists its headers under the read lock, SQLITE in one SELECT.
SearchTable(p, l) ==
  /\ At(p, "search", l) /\ TypeOf(l) # "FILESYSTEM"
  /\ Become(p, [proc[p] EXCEPT !.pc = "found", !.found = Present(l)])
  /\ UNCHANGED <<store, boot, history>>

\* filepath.Glob, without the lock ...
SearchGlob(p, l) ==
  /\ At(p, "search", l) /\ TypeOf(l) = "FILESYSTEM"
  /\ Become(p, [proc[p] EXCEPT !.pc = "scan", !.todo = Present(l)])
  /\ UNCHANGED <<store, boot, history>>

\* ... then the files one after the other; one that does not load ends it all.
SearchScan(p, l, id) ==
  /\ At(p, "scan", l)
  /\ id \in proc[p].todo
  /\ \/ /\ Loads(l, id)
        /\ Become(p, [proc[p] EXCEPT !.todo = @ \ {id}, !.found = @ \cup {id}])
     \/ /\ ~Loads(l, id)
        /\ Become(p, [proc[p] EXCEPT !.pc = "failed"])
  /\ UNCHANGED <<store, boot, history>>

SearchEnd(p) ==
  /\ proc[p].pc = "scan" /\ proc[p].todo = {}
  /\ Become(p, [proc[p] EXCEPT !.pc = "found"])
  /\ UNCHANGED <<store, boot, history>>

SearchReturn(p) ==
  /\ proc[p].pc \in {"found", "failed"}
  /\ known' = IF proc[p].pc = "found" THEN known \cup proc[p].found ELSE known
  /\ Return(p)
  /\ UNCHANGED <<store, boot, minted, acked, touched, erased>>

SearchStep(p) ==
  \/ \E l \in LayerIds :
       \/ SearchTable(p, l) \/ SearchGlob(p, l)
       \/ \E id \in proc[p].todo : SearchScan(p, l, id)
  \/ SearchEnd(p) \/ SearchReturn(p)

-----------------------------------------------------------------------------
(* Reads by id: one layer is consulted, in one step, and nothing changes    *)

\* GetEmailByID, GetBodyVersion of a parsed version, GetAttachments: the first
\* read layer decides, for a mail it does not hold is an error like any other.
Gets(id) ==
  \E l \in ReadLayers : First(ReadLayers, l) /\ Loads(l, id)

\* GetBodyVersion("raw"): MEMORY declares itself unimplemented and is skipped.
GetsRawBody(id) ==
  LET able == {l \in ReadLayers : TypeOf(l) # "MEMORY"}
  IN  \E l \in able : First(able, l) /\ content[l][id] # "none"

\* GetRawEmail: no parsing, any file that can be opened is served.
GetsRaw(id) ==
  \E l \in RawLayers : First(RawLayers, l) /\ content[l][id] # "none"

-----------------------------------------------------------------------------
(* The process stops, and starts again *)

Crash ==
  /\ crashes < MaxCrashes
  /\ crashes' = crashes + 1
  /\ content' = [l \in LayerIds |->
                   IF Persistent(l) THEN content[l] ELSE [id \in Ids |-> "none"]]
  /\ lock' = [l \in LayerIds |-> None]
  /\ proc' = [p \in Procs |-> Idle]
  /\ loading' = Root
  /\ rows' = {}
  /\ UNCHANGED history

\* The root loads nothing; a FILESYSTEM reads its folder on every call anyway.
LoadNothing(l) ==
  /\ loading = l
  /\ l = Root \/ TypeOf(l) = "FILESYSTEM"
  /\ loading' = l - 1
  /\ UNCHANGED <<store, proc, rows, crashes, history>>

\* A root whose search fails is only worth a warning: the cache stays empty.
LoadMemory(l) ==
  /\ loading = l /\ l # Root /\ TypeOf(l) = "MEMORY"
  /\ content' = IF Listable(Root)
                  THEN [content EXCEPT ![l] = content[Root]] ELSE content
  /\ loading' = l - 1
  /\ UNCHANGED <<lock, proc, rows, crashes, history>>

\* A database that holds any row is taken to be complete.
LoadSqlite(l) ==
  /\ loading = l /\ l # Root /\ TypeOf(l) = "SQLITE" /\ rows = {}
  /\ LET wanted == IF Present(l) = {} /\ Listable(Root) THEN Present(Root) ELSE {}
     IN  /\ rows' = wanted
         /\ loading' = IF wanted = {} THEN l - 1 ELSE l
  /\ UNCHANGED <<store, proc, crashes, history>>

\* One INSERT per mail of the root, its error ignored.
LoadRow(l, id) ==
  /\ loading = l /\ id \in rows
  /\ \/ content' = [content EXCEPT ![l][id] = content[Root][id]]
     \/ Faults /\ UNCHANGED content
  /\ rows' = rows \ {id}
  /\ loading' = IF rows = {id} THEN l - 1 ELSE l
  /\ UNCHANGED <<lock, proc, crashes, history>>

LoadStep ==
  \E l \in LayerIds : \/ LoadNothing(l) \/ LoadMemory(l) \/ LoadSqlite(l)
                      \/ \E id \in rows : LoadRow(l, id)

-----------------------------------------------------------------------------
Start(p) ==
  \/ \E id \in Ids : SetStart(p, id) \/ DeleteStart(p, id)
  \/ DeleteAllStart(p) \/ SearchStart(p)

Step(p) == SetStep(p) \/ DeleteStep(p) \/ DeleteAllStep(p) \/ SearchStep(p)

Next ==
  \/ \E p \in Procs : Start(p) \/ Step(p)
  \/ LoadStep
  \/ Crash

\* A goroutine that can run runs, and Go's mutex lets no waiter starve; load
\* runs to its end. Nobody has to call the engine, and nothing has to crash.
Fairness == WF_vars(LoadStep) /\ \A p \in Procs : SF_vars(Step(p))

Spec == Init /\ [][Next]_vars

FairSpec == Spec /\ Fairness

=============================================================================
