# mock-my-mta: specifications and proofs

mock-my-mta is one Go process: an SMTP server that takes every mail it is sent,
a storage engine that keeps the mails in a stack of layers, an HTTP API and a
web client that show, delete and release them, and a WebSocket hub that tells
the open pages what happens. This directory holds TLA+ models of these parts,
the configurations that TLC checks, and theorems that the TLA+ proof system
checks. Paths below are relative to the repository's `src/`.

Contents: [the system](#1-the-system-and-its-hard-parts),
[the modules](#2-modules-and-how-they-follow-the-code),
[the runs](#3-runs-properties-and-bounds), [fairness](#4-fairness),
[the proofs](#5-proofs), [what the code does that a reader may not
expect](#6-behaviours-to-know-about), [what is not
modelled](#7-what-is-not-modelled), [the plan](#8-plan).

## 1. The system and its hard parts

| Component | State it keeps | Operations | Hard parts |
|---|---|---|---|
| Layer configuration (`storage/configuration.go`, `NewEngine`) | the scopes of each layer, routing tables `readLayers`, `searchLayers`, `writeLayers`, `rawLayers`, the root | derived once at start | a scope that routes searches to a layer and no writes |
| Engine (`storage/engine.go`) | none of its own; no lock | `Set`, `DeleteEmailByID`, `DeleteAllEmails`, `SearchEmails`, `GetMailboxes`, reads by id, `load` at start | calls interleave between layers; one layer of several fails; crash between two layers |
| MEMORY (`storage_memory.go`) | maps of mails and attachments under an RWMutex | all of the above | a cache rebuilt from the root at start, or not; attachments entered one by one, the lock dropped in between |
| SQLITE (`storage_sqlite.go`) | rows of a database | one statement per operation | rows outlive the process; filled only when empty |
| FILESYSTEM (`storage_filesystem.go`) | a folder of files, a mutex for writers | create, write, close, read back; list and open without the mutex | half files, vanishing files, a mutex with many error exits |
| MIME parser (`storage/multipart`) | none; a tree per mail | bodies, attachments, content ids | nested containers with different rules |
| Query language (`storage/matcher`) | none | tokens, filters, durations | the same letter means two units |
| SMTP front end (`smtp/`) | behaviour settings, per-session progress | the handler of one mail | settings that change while a mail is delayed; order of store, announce, relay, answer |
| HTTP API (`http/httpd.go`, `settings.go`) | read marks (a `sync.Map`), the settings behind an RWMutex | lists and their pages, deletions, bulk actions, marks, relays with a sender of their own, `wait` | partial failures of bulk actions; a `select` between a deadline and a ticker; a header that is parsed twice, by two parsers |
| WebSocket hub (`http/websocket.go`) | `hub.clients` under an RWMutex, two goroutines per connection | register, unregister, broadcast, ping | a write without deadline under the read lock; overlapping broadcasts; map changes under a read lock |
| Web client (`http/static/script.js`) | rows, ticked boxes, `selectedEmailIds`, the page number, the mail on the screen and its panels, a dialog, a socket | refresh, turn pages, open a mail and its tabs, tick, delete, release, bulk actions, reconnect | answers and events in any order; one dialog and one button for two purposes |
| Start and stop (`cmd/server/main.go`) | the two servers | signal, `Shutdown`, fatal exit | requests in flight when the process ends |
| Logging, profiler, static files, sanitiser, mail analyser | none another part reads | | not modelled |

How they interact. An SMTP session runs the handler of `smtp/smtpd.go` on a
goroutine of its own: settings, delay, rejection, `multipart.New`,
`Engine.Set`, `BroadcastEvent("new_email")`, automatic relays, answer. Every
HTTP request is a goroutine too: it calls the engine, then `BroadcastEvent`, then
answers. `BroadcastEvent` writes to the sockets of all pages on the caller's
goroutine. A page answers an event with a new list request. A signal makes
`main` call `http.Server.Shutdown`.

What makes each part correct:

- *Engine and layers*: a mail whose sender got its 250 is kept until somebody
  asks for its deletion; a confirmed deletion is final; a search misses nothing
  it should know; the cache agrees with the folder; every call returns.
- *Hub*: it knows exactly the connections served; a connected page hears of
  every event, and of none twice; no page delays a sender for ever; a page that
  is gone leaves nothing behind.
- *SMTP front end and HTTP API*: an answer tells the truth about what was
  stored, announced and relayed, under the settings in force; nothing but a browser
  or a relay that hangs keeps anybody from an answer; a stop is as graceful as announced.
- *Web client*: the list settles on what the server has, page by page; what is on the
  screen is of one mail; an action acts on what the user ticked, or what the dialog shows.
- *Parser and search*: what is listed of a mail can be opened, and is of that mail; what
  is shown can be found; a longer query finds less.

The hazards behind these, each at its line, are in `PROJECT.json`.

## 2. Modules and how they follow the code

| Module | Models |
|---|---|
| `StorageLayers` | scopes, `isWritable`, routing tables, root |
| `StorageEngine` | the engine's calls over the three layer types, start, crash |
| `StorageEngineProps` | its properties and the inductive invariant |
| `MailArchive` | the abstract specification: what the engine promises, without layers |
| `StorageArchive` | the refinement mapping, and `ArchiveSpec` |
| `MemoryLayer` | the MEMORY layer at the grain of its lock |
| `MCStorageEngine`, `MCDefaultEngine`, `Engine_*.cfg` | instances |
| `StorageEngineSafety`, `StorageArchiveProof`, `StorageSyncProof` | proofs, the last with that of `MemoryLayer` |
| `WsHub`, `WsHubProps`, `MCWsHub`, `Hub_*.cfg` | the hub |
| `WsHubSafety` | proofs |
| `MailServer`, `MailServerProps`, `MCMailServer`, `Server_*.cfg` | SMTP handler, settings, relays, `waitForEmail`, stop |
| `SenderRewrite`, `MCRelayedMail` | the mail a release sends, header line by header line |
| `MailServerSafety` | proofs for these |
| `WebClient`, `WebClientProps` | the list on pages, and the handlers they call |
| `MailView`, `ReleaseDialog`, `MailViewProps` | a mail on the screen; the release dialog |
| `WebClientSafety` | proofs for these |
| `MCWebClient`, `Client_list.cfg`; `MCHubView`, `Hub_race.cfg` | instances of these |
| `MimeTree` | reading a mail part by part; bodies, preview, attachments, content ids |
| `MailSearch`, `MailSearchProps` | the query language, over `MimeTree` |
| `MailPages`, `MailPagesProps` | pages of a list: cut by the layers, turned by the client |
| `MCMailSearch`, `Search_mails.cfg` | an instance of these |
| `MailSearchSafety` | proofs for these |
| `Induction` | induction over numbers and sequences, for the proofs about loops and walks |

**StorageEngine.** A goroutine `p` of `Procs` is in one call; `proc[p].route`
is what is left of the loop over a routing table. `content[l][id]` is what layer
`l` holds of a mail: a file may be `torn` (created, not written), `cut` (a failed
write after the header) or `whole`. A call to MEMORY is one step, since the layer
holds its lock throughout; so is one to SQLITE, a single statement. FILESYSTEM
takes a step per file operation: `SetCreate`, the write, the read-back, each
removal of `DeleteAllEmails`, each file a search opens, the last without the
mutex as in the code. `Crash` empties MEMORY and every call; `LoadStep` is
`Engine.load`, from the root's neighbour upwards. `Faults` lets every operation that
writes or removes fail. Ids are fresh in the code (a UUID), so `minted` uses each
once. The history variables `minted`, `acked`, `known`, `touched`, `erased`
record what callers were told; no action reads `acked` or `erased`.

**MailArchive.** `Keep`, `Erase` and `Look` are single steps on all of a mail; `loose` mails (on
their way in, half refused, or condemned) may come and go. `StorageArchive` maps the engine's layers
to `held`, the weakest of what the layers that take writes have, and a search under way to what
it *listed*, not to what it has loaded so far: the moment a FILESYSTEM search listed its
folder is the moment it answers for.

**MemoryLayer.** `StorageEngine` enters a mail in MEMORY in one step; `setWithID` takes the lock once per
attachment, in the order of a Go map, and once more for the header and the list of
attachments. `SetAttachment` and `SetMail` are these turns, the other methods hold the lock throughout.
The list and the map of attachments are two sets of pairs. A mail's id is known to nobody
before the mail is listed, so a deletion of one mail meets no `setWithID` of it; `DeleteAllMails` does.

**WsHub.** One handler and one pinger per connection, one `cast` per sender.
`writer`, `readers`, `waiting` are Go's `RWMutex` with its rule that a waiting
writer keeps new readers out. gorilla/websocket is external: a second writer on
one connection panics, a write to a closed socket fails, a read ends when the
peer leaves or the pong deadline passes. A panic in an HTTP handler is recovered by
net/http, one in an SMTP session ends the process (`down`).

**MailServer.** `session[m]` follows `Server.handler`, one step per visible
effect. `request[h]` is a PUT of settings, a release or a bulk release, `waiter[w]`
a caller of `waitForEmail`. The deadline of a waiter may pass between any two of
its steps, so `WaitExpires` and `WaitTicks` compete. `Signal`, `ServerClosed`
and `ShutdownReturns` are the three parties at the end of `main`. Of the engine `Store` keeps
what the servers can tell: `Set` stores the mail (`stored`), or it fails and may leave it in the layers before
the one that failed, or as the file of a `Write` that failed (`leftover`). What is left over is in some layers and
not in others, so a release or a waiting caller may find it and may miss it (`MayBeRead`). Nothing is deleted.

**SenderRewrite.** `rewriteSenderHeader` parses the header with net/mail into a map and writes it in the
order of a second parse, by hand, of the raw text. A mail is a sequence of lines (fields,
continuations, lines with a colon in front, or without one, blank lines), so that the two
parsers can disagree; values are sequences of words. Both parsers and the writer are loops (`Loop`), a round for
each line or key: `ReadLine` is that of net/mail, `SeenKeys` the one by hand. The mail is written line by line by
the one action, and `RewriteSenderHeader` is an operator on it.

**WebClient.** `calls[c]` are requests under way, each with the phase its
handler is in; answers are taken in any order. `Refresh` is `refreshEmailList`: the
selection goes at once, the rows later, in `ListArrives`. A client that is not
a page stands for scripts and tests. `behind[p]` remembers that page `p` was not told
of something. The engine and the hub are taken at their word.

**MailPages.** `searcher` is the kind of layer that answers and `order` how it reads its folder or table at
present; each has its own idea of mails of one date. `RefusePage` is `parsePageParameters`, `Answered` and
`SelectPage` the cut of the page, `Screen` what `pagination` makes of it; the client's half is `#page-start`, the two buttons and the
refresh on events. SQLITE without filters counts in one step and selects in the next.

**MailView.** A click on a row asks for the header, the attachments and a body by requests of their own,
each answered by an action or by its failure; `told` remembers which answers came since something was last
asked for. `panels` is what text each panel holds, `visible` which are not hidden. A
change of the address routes, and the 200 ms timer clicks the tab it names.

**ReleaseDialog.** The dialog is one record; `OneArrives` and `BulkArrives` fill it and say what its button does.
`shown` in a request is the dialog whose button sent it; no action reads it.

**MimeTree.** `parseMail` is a recursion over the parts of a mail: `ReadLeaf`,
`ReadMultipart` and `EndOfParts` are its turns, `open` its stack, `ParseFails` its error
exits. The tree is the sequence `nodes` in the order the headers are read, each with the
multipart it is part of; this is also the order of `walkNodes`, so a walk that can be stopped
is one pass over positions: `WalkNodes`, a recursive function, with the closure of each caller as a
visit per position. `GetBody`, `GetPreview`, `GetAttachment` and the others are
operators on such a sequence. A header is what distinguishes the code's tests: the media
type `ParseMediaType` finds (lower case, whole) and the text type the raw value begins with
(as written), which differ for `Text/HTML`. Of a body count whether it has bytes and decodes to
more than the empty string (`body`), the words that stand in it after decoding (`words`), and those `stripHTMLTags`
leaves (`shown`): a text of blanks or tags is taken like any other, an entity is decoded for the preview and not for the
search. `PreviewLeaf` is the walk of `GetPreview`, `Displayed` what a preview shows of the text it found.

**MailSearch.** `Type` adds a piece to the query, `KeyValuePairs` and `PlainTexts` are the
tokeniser's two results, `ParseQuery` the filters, `Found` whether a mail is listed. A key
followed by a blank takes the next piece, as the regular expression has it. Time is in whole
minutes; `Wrapped` is the 64 bit product of `parseCustomDuration`.

The modules meet at their interfaces: what `StorageEngine` proves of `Set`
(`Durable`) is what `MailServer` assumes of a `Store` that succeeds; what `WsHub` checks of
`BroadcastEvent` (`NoneMissed`) is what `WebClient` assumes of `Broadcast`. `MailServer` assumes nothing of when a
broadcast ends. Where the assumption fails (overlapping
broadcasts, a stalled page) section 6 says so. `MailArchive` is the form in which the engine's promise
can be used by the rest.

Definitions under the heading "Mistakes the code could contain", and those whose
comment begins "A mistake for the checks", are not part of any model. Each is the
form a definition would take with a plausible bug; `PROJECT.json` lists which
property notices it.

## 3. Runs, properties and bounds

| Run | Question | Bounds | States |
|---|---|---|---|
| `Engine_default` | Do MEMORY and FILESYSTEM agree at rest and serve every acknowledged mail, in the shipped configuration? Does MEMORY open the attachments it lists, and keep no others? | 3 mails (1 malformed), 3 goroutines, no failures, no `DeleteAllEmails`; the layer alone: 3 mails, 2 attachments, all operations | 137 989 |
| `Engine_minimal` | Does a single FILESYSTEM layer leave nothing of a refused mail, give its mutex back on every path, and search completely beside writers? | 3 mails (1 malformed), 2 goroutines, all operations | 97 841 |
| `Engine_stack` | Does an acknowledged mail stay, and can it be found and read by id after a restart, and does an erased one stay away, with three writable layers, failing operations and crashes? Is all of it one `MailArchive`? | 2 mails, 2 goroutines, 2 crashes | 664 068 |
| `Engine_fullstack` | (violation) Does the documented full stack search what it was given? | 1 mail, 1 goroutine | |
| `Engine_restart` | (violation) Can every acknowledged mail be read after a crash? | 2 mails, 1 crash | |
| `Hub_race` | Are the hub's map, sockets and lock right under two overlapping broadcasts, stalls and departures, and is no page told twice? Is all there is on the screen of one mail? Does the dialog release what it shows? | 2 connections, 2 senders (one SMTP), 2 events; the view: 2 mails, 2 requests when one is sent, 3 clicks; the dialog: 2 mails, 3 requests, 4 clicks | 2.0 million |
| `Hub_live` | Does every connected page hear every event, does every broadcast end, is a gone page released? | 2 connections, 1 sender, 2 events, no stalls | 38 946 |
| `Hub_stall` | (violation) The same with a page that stops reading | 2 connections, 1 event | |
| `Server_mails` | Is an answer true, are settings obeyed, does a release account for its mails, and is every waiting caller answered, and every sender unless a browser or a relay holds it up for ever? Does a refused mail go nowhere, with a `Set` that failed half way? Is what a relay is given the stored mail but for its From? | 2 mails (1 unreadable), 1 request that may be repeated, 1 waiter, 3 relays, 3 settings; mails of at most 4 lines out of 9 | 408 150 |
| `Server_stop` | (violation) Does a stop wait for requests in flight? | as `Server_mails` | |
| `Client_list` | Does the list settle on the server's, is the selection recent? | 1 page, 1 other client, 1 mail, 2 requests under way, 3 actions | 2.0 million |
| `Search_mails` | Do bodies, preview, attachments and links of a mail agree with one another and with the mail, and do filters combine as one expects? Is the page on the screen the one it says, and does turning the pages miss nothing? | 5 parts of 12 kinds, among them a text of blanks, HTML of tags alone and HTML with an entity; 3 pieces out of 20 over mails of at most 2 parts, 4 envelopes; 3 mails in pages of 2, 2 list requests, 3 turns or changes | 1.8 million |

Four runs check components that share no variable: `Engine_default` the engine and the MEMORY layer by
itself, `Server_mails` the servers and the mail a release sends, `Hub_race` the hub, the view and the
dialog of a page, `Search_mails` the search and the pages. In these one component moves while the
others are in their initial states; since none reads the others' variables, this is the same as
checking each alone, without the product of their states.

Why the bounds are enough for the cases that matter. Two goroutines give every
interleaving of two calls; the third in `Engine_default` lets a search run beside a
`Set` and a deletion. Two mails tell "this mail" from "another one", and the
malformed one reaches the read-back's exits. Two crashes cover a start that was
itself cut short. In the hub two connections are one that fails and one that must
not suffer, two senders are what overlaps. The relays of `Server_*` are an
automatic one, one that is switched off and one whose mechanism is misspelt; the
settings have a rate beyond the range, a middle rate and a delay. In `Client_list` each
property speaks of one mail at a time; three actions let a page act, another
client act, and a socket drop in one behaviour. With two mails and two actions
(5 million states, five minutes) the result is the same. The view's two mails are the one that is left
and the one that is opened, of which the first has a body and the other only the raw text; a
third request under way changes nothing (1.6 million states). Three mails in pages of two
make a second page that a deletion can empty. In the MEMORY layer two attachments let a
`DeleteAllEmails` come between them. Five parts in `Search_mails` reach the
shapes that mail programs write (a mixed mail of an alternative and an attachment, an
alternative of a text and of a related part with HTML and an image) and every nesting of two
alternatives; three pieces let a key take a key that would have taken a word.

The four violations are disagreements between the code and what its documents or
comments say; `PROJECT.json` quotes both sides under "findings".

- `Engine_fullstack`: SQLITE with the scope `["search"]` takes no writes, so it never
  sees a mail received after the start (`docs/storage-layer-design.md:24`).
- `Engine_restart`: one file that does not parse makes hydration fail, and reads by
  id stop at the empty cache (`docs/storage-layer-design.md:165`).
- `Hub_stall`: a write without deadline under the read lock; the handler that would
  close the socket waits for the write lock (`http/websocket.go:95,107`).
- `Server_stop`: `Shutdown` makes `ListenAndServe` return `ErrServerClosed`, which its
  goroutine logs as FATAL, an `os.Exit` (`cmd/server/main.go:107,112`).

`CHECK_DEADLOCK FALSE` appears where the system really comes to rest: connections,
mails, requests and actions are used up. The engine's callers never stop, and its runs
check for deadlock.

## 4. Fairness

- *Engine*: weak fairness of `LoadStep`, strong fairness of each goroutine's `Step`.
  A step waits only for the FILESYSTEM mutex, and Go's `sync.Mutex` hands itself to a
  waiter after a millisecond of starvation, so one that asks again and again gets it.
  Starting a call is not fair: nobody need call.
- *Hub*: strong fairness of handlers and senders for the same reason (`RWMutex` starves
  neither side), weak fairness of the pinger, whose ticker fires. Browsers are not
  fair: they may stay, leave or stall as they like.
- *Server*: weak fairness of the steps of a mail that wait only for what returns: the delay's timer, the
  decision, the parser, the engine (`CallsReturn`), the answer once nothing is left to do. None for `Notify` and
  `RelayMail`: the write to a browser (`http/websocket.go:107`) and `smtp.SendMail` (`smtp/smtpd.go:209`) have no
  deadline, and `Hub_stall` shows the first of them never returning. `SendersAreAnswered` therefore has the
  exception `[]HeldUp(m)`. Weak fairness of the looks and ticks of a waiting caller. Strong fairness of `WaitExpires`: `select` draws at random among
  the channels that are ready, so the deadline is not put off for ever by the
  ticker. No fairness of arrivals, requests or the signal.
- *Web client, parser, search, pages, MEMORY layer*: safety only; no fairness.

## 5. Proofs

`StorageEngineSafety` proves `Spec => []TypeOK`, `Spec => []IInv`, and from the latter
`DurableHolds` and `ErasedStaysErasedHolds`, for every list of layers, every set of mails and goroutines, with or without failures, and any number of
crashes. The assumptions are those of the modules (`LayersAssumption`,
`EngineAssumption`); TLC evaluates them in each run.

Why the properties need a strengthening. `Durable` speaks of acknowledged mails only,
but a mail becomes acknowledged at the end of a `Set`, so `PassedInv` says what a `Set`
under way has achieved: the mail is whole in each persistent layer the loop has left
behind. `ErasedStaysErased` needs the mirror image, `SweptInv`, for deletions that
are under way: what the call owes its caller is gone from each layer it is done with. Both
would be spoiled by another call on the same id: `SetInv` (two `Set`s never share an id,
nor does one work on an acknowledged id) and `TouchInv` (a deletion only removes
what is marked as asked for) exclude that. `OriginInv` and `LoadInv` exclude
that hydration brings anything back: it reads the root, and fills a database only when no
mail in it was promised. `Over` in `SweptInv` and `ErasedInv` matters because a `Set` that
still runs may put a mail back into a layer a deletion has passed; that is why `erased`
only holds mails whose `Set` was over when the deletion was asked for.

Layout. `BecomeFacts`, `MovedFacts` and the `Move...` lemmas say what one assignment to
`proc[p]` does to its fields, so that the large record stays folded. Each action then
has a lemma that classifies it (`SetClass`, `DeleteClass`, `PurgeClass`, `SearchClass`): which
mails it can change, in which layers. The `...Keeps` lemmas derive the conjuncts of
`IInv'` from the class, and `IInvNext` collects them by the disjuncts of `Next`.

**The engine is an archive.** `StorageArchiveProof` proves `Spec => ArchiveSpec`, and with it
`SearchComplete`, under one assumption on the configuration, `SearchesAreStored`: the first layer that
serves searches takes every write and outlives the process. The shipped configuration satisfies it;
the full stack of the design document does not, which is what `Engine_fullstack` finds. The argument:
`IInv` at both ends of a step says that a promised mail is whole and an erased one absent
(`HeldInv`), so that whatever the step does to the layers, it only moves what is `loose`
(`Settles`). What is left are the steps that tell a caller something, each a step of the
archive, and those of a search, for which `SearchInv` says that what a search owes is among what it
has listed: the file it has yet to load cannot be one that vanished, or the search fails.

**What was accepted can be read.** `StorageArchiveProof` proves `Spec => [](KeptWhereRead => ReadsServe)`, with
failures and any number of goroutines. `KeptWhereRead` is about the configuration only: the layer that
answers each form of a read takes every write and keeps it, because it is persistent or because the process never
stops. The shipped layers meet it within one life of the process (`ShippedLayersKeep`). A FILESYSTEM alone meets it
across any crash (`FolderKeeps`). `Durable` says nothing of MEMORY layers, so `ServingInv` carries it once more
for every writable layer, and adds that no mail is acknowledged that does not parse: the
first layer a `Set` has passed has parsed it.

After a restart the MEMORY layer of the shipped configuration is as good as what hydration put there, and reads stop
at it. The same module proves `Spec => [](RestoredWhereRead => ReadsSurvive)`: with any crashes and failures, where
each form is read from a layer that takes every write and the root outlives the process, every promised mail can be
read while the root can be listed and nobody was given leave to delete a mail that was not promised. The second
condition is needed: a file that does not parse may have been there at the start, leaving the cache empty, and been
deleted since, so that the root alone no longer tells. The argument turns that into an invariant. A file of the root
that does not parse belongs to a mail that was never promised (`CleanInv`: a `Set` that is done with the root has had
its file read back), and such a mail stays one that is over and not promised, with its file or with a deletion asked
for (`Doubt`, which `DoubtStays` shows no step undoes). So while there is no doubt there has been none since the
beginning, every start could list its root, and each MEMORY layer that `load` is done with holds what is promised
(`Served`), because the root does (`Durable`).

**The layers agree.** `StorageSyncProof` proves `RefusedLeavesNothing` and `InSync`. Both are about a process that
runs (no crash) and whose operations do not fail (`Steady`): after a failure the code promises neither, since a
`Set` that failed in the second layer is not undone in the first. `HoldInv`, which needs neither condition, is what
the mutex of a FILESYSTEM layer does: whoever is between the creation of a file and its
read-back, or removes files, holds it, so that no deletion meets a half file. `RefusedInv` follows a `Set`
to each of its error exits: a mail that does not parse has left at most the file the read-back is about to remove.
`InSync` has two conditions more, in `Orderly`. One is on the calls: nobody empties the engine, because a
`DeleteAllEmails` beside a `Set` does leave layers apart (section 6). The other is on the configuration
(`FoundLast`): searches are answered by the last layer that takes writes. A caller deletes what it found, so
then a deletion starts when the `Set` is through with every layer; the shipped layers satisfy it
(`ShippedLayersFoundLast`). `SyncInv` adds to `HoldInv` where each call stands: which layers a
`Set` has put its mail into and which are to come (`PutInv`), which a deletion has cleared (`RemoveInv`), that the two
never concern one mail (`ApartInv`), and that what is left of a route is an end of it (`RouteInv`).

**The MEMORY layer.** `StorageSyncProof`, at its end, proves `AttachmentsMatch` for any mails and attachments. It speaks
of mails that are listed, which a mail becomes in its last step; `StoringInv` says before that
which of its attachments are yet to come, there, or lost, and `OwnedInv` that what there is of an
attachment has an owner.

**The hub.** `WsHubSafety` proves `SafeInv`, for any connections and senders, with pages that stall or
leave at any moment: types, `HubKnowsTheServed`, `NoWriteDuringClose`, and the reason for them, `LockInv`,
which says what the RWMutex promises its users: who is about to change the map is the one writer, who walks
over it is a reader. `AtMostOnce` needs `SaidInv` besides: a page on the list of a broadcast has not been told
its event by it. `NoneMissed` is proved from `TellInv` under
`OneCast`, that there is one sender: with two, the second may find the write of the first
on a connection, which panics in gorilla, and the pages behind it on its list miss the event.
That is what the code does; section 6 names it.

**The servers.** `MailServerSafety` proves `ServerInv`, for any mails, relays, settings, requests and waiting
callers, with or without failures of the storage. It has one conjunct per kind of handler, which says what
the handler has done at each of its places: `MailInv` (nothing stored before "store", nothing left over but of a readable mail whose `Set` failed, nothing announced before
"notify", what has been given to which relay while it goes through them), `RateInv` (the settings a mail is judged by
were in force after it came), `RequestInv` (a release's mails are done, or failed, or left) and `WaiterInv`
(what a caller that waits has seen). `TypeOK`, `AcceptedIsComplete`, `RefusedGoesNowhere`, `AnnouncedIsStored`,
`RatesAreObeyed`, `ReleaseIsExact` and `WaitIsHonest` follow. `RefusedGoesNowhere` is about other actors as well: a
mail that was rejected, or could not be parsed, is sent by no release and given to no waiting caller. Of one whose
`Set` failed that cannot be said, since it may be left over; it is neither announced nor given to an automatic
relay.

**What a release sends.** `MailServerSafety` also proves `RewriteIsExact`, for mails of any length, any lines, keys
and values, and any sender. That the mail is a sequence of lines is all the invariant there is; the rest is about what two parsers
and a writer compute. `LoopOverMore` says what one more round makes of a loop, and `HoldsOfSequences` turns that into three facts.
`SeenAreReadHolds`: the parser by hand finds exactly the keys net/mail has values for, once each, although one goes on after a
line that begins with a colon and the other joins continuations. `WrittenBackHolds`: what is written for some keys, each once, is read
back, by either, as those keys in that order with those values; From alone can be new (`AllKeysWritten`), which is
why the order in which Go walks the map does not matter. `CutFacts`: fields, a blank line and a body come apart where they were
joined, whatever the body looks like. Of the lines only `RewriteAssumption` is assumed: a field has a key.

**The web client.** `WebClientSafety` has one invariant per property.

- `SelectionIsRecent`: every step ticks, clears, or leaves alone what a page has selected (`UserSteps`, `PageSteps`,
  `HandlerSteps`, `OtherSteps`), and only the steps of the page itself do the first two; `TickInv` is the
  property for the pages there are.
- `TypeOK`: requests are taken out of the middle of a queue, so the lemmas `QueueOf`, `Appended`, `Removed` and
  `RemovedKeeps` say what that does to a sequence; `TypeInv` adds to the types which phase a request can be in
  and how many there may be.
- `ListIsCurrent`: for each page, `FreshInv` says that either something is yet to come that makes
  it ask again (`Coming`: an event on its way, a handler that will broadcast, a request that will call for a
  list), or the page is `Settled`. The second is the heart of it: answers come in any order, so no single list
  under way is the one that will stay. Of those the server has made, the newest is right or known to be
  stale; an older one that arrives after it finds itself marked stale, one that arrives before it is overwritten;
  and if none is under way the rows are right, or `behind` says what was missed.
- `ViewAgrees`: a request that is not outdated asks for the mail and the tab last clicked (`Asked`); what the last answer
  of each kind drew is where it belongs (`LinksInv`, `PanelInv`); a click hides the panels of other tabs, so that
  one answer leaves one visible (`VisibleInv`).
- `ReleasesWhatIsShown`: a dialog for one mail carries its id, one for a selection the count of what was
  selected when it opened, and while it is open the selection is that or was emptied (`DialogInv`); a request under way
  says what the dialog showed when its button was clicked (`Exact`).

`SelectionIsRecent`, `TypeOK` and `ListIsCurrent` are proved for any mails, pages, other callers and number of
requests. A page begins with a request for the list, hence the assumption that `MaxCalls` is not 0.

**The parser and the search.** `MailSearchSafety` reasons about recursive functions, for which the induction
theorems of the library cannot be used (they take an operator). The lemmas of `Induction` do instead. `LeastExists`, from the
well-foundedness of the naturals, gives `HoldsUpTo`: a *set* of numbers that has 0, and with each number below n the next, has
all up to n; `HoldsOfSequences` is the same for the empty sequence and one more element. `WalkExists` uses them to
show that the function `WalkNodes` chooses exists, and `WalkFacts` what it is: its start, and
at each position the visit of what was there before. `TreeInv` is the one invariant of the reader: the first
node is the root, and every other is part of an earlier one; the rest are lemmas on any such tree.

- `AttachmentsAgree`: two walks are followed side by side. `FoundTo` says that the search for one number has found the
  attachment the list has under it, or counted exactly those listed so far (`AttachmentStep`).
- `PreviewIsFirstText`: `PreviewTo` says that what a walk has taken is the first text up to here, and that
  it stops only with a plain text in hand, so what it leaves out could not have been taken (`PreviewStep`). A text is taken if it decodes to more than the
  empty string, so one of blanks counts, here and in the code.
- `TabsHaveBodies`: `BodyAtFacts` says that each text gives a body where it is met, and that nothing met earlier gives it;
  the place where the walk stops is then one that has it, or the alternative that `Hidden` speaks of.
  `SiblingsAreShown` follows: an alternative with one text of siblings has them all. The text the preview is cut
  from is one of them, so its words are those of a body that is listed, which is what the search reads.
- `TypingNarrows` and `AgesAreOrdered`: `TakenStays` says that what is typed at the end does not change which pieces a
  key has taken, hence (`TypedOn`) every filter but that of a dangling key stays what it was. For the
  ages, `SpanLength` computes each unit: the product does not wrap as long as the span is one that
  `time.Duration` holds.

**The pages.** `PagerIsCurrent` is proved for any number of mails, requests and turns, and any page numbers. `PagerInv`
says that the latest change is not heard of yet, or on its way in a request, or known to the latest answer
(`Reaches`); and that what a request or the screen says is true of the state of the storage it was read in, for as long as
the storage is in that state (`CallInv`, `ScreenInv`). A mail that comes or goes puts the storage into a state it was never in,
so it only makes such statements void (`StorageMoves`). `PageIsCut` says that the arithmetic of the two cuts, in
integers that wrap, yields the page of that number as long as its end is a number the server can count to.

`WalkMissesNone` is proved for the same. A page under way was cut out of a list that nobody may be able to make again, so
the invariant has to speak of lists that are gone: `WalkInv` says that there is a function `h`, how the folder or the table
was read in each state of the storage, with which (`WalkReads`) every answer under way is a page of a list of the state it
was read in, and the walk has met all it has to up to the end of the page on the screen, in the list of that state. A state
never comes back, so a change of the storage may set `h` for the new one (`WalkStorage`). States that are
remembered are ordered by time, whatever the order of the answers. `KeepsPlace` is the count: between two lists a mail moves
forward by no more places than mails have left, because those listed before it that stay are still before it; this is where mails
of one date would break it. So the next page (`WalkGoesOn`) begins no later than where the last one ended.
Both theorems assume that an `int` counts beyond the mails there are by a page.

Model-checked only: all liveness, which the prover does not reach, nor ENABLED. Every invariant and action property that a passing
run checks is the statement of a theorem.

The theorems `TypeCorrect` of the engine, `TypeOKHolds` of the hub and of the servers, `SafeInvHolds` and
`AnnouncedIsStoredHolds` state invariants no run repeats.

## 6. Behaviours to know about

Things the code does that no property forbids and a reader may not expect.

- A `Set` beside a `DeleteAllEmails` can leave a mail in MEMORY only: served by id,
  in no list (`storage/engine.go:239`). This is why `Engine_default` leaves
  `DeleteAllEmails` out of `InSync`'s workload.
- A search that meets a file being written, or one that vanished, fails as a whole, and
  `/api/health` answers 503 for that moment (`storage/storage_filesystem.go:227`,
  `http/httpd.go:746`).
- Two broadcasts that overlap on one connection make gorilla panic; the other pages miss
  that event, and in an SMTP session the process ends (`http/websocket.go:107`).
- `waitForEmail` may answer 408 although a mail came after its last look and before the
  deadline, and treats a failing search as an empty one (`http/httpd.go:816,840`).
- Two PUTs of the settings may be broadcast in the other order; no page listens
  (`http/settings.go:74`).
- An answer to an old list request can overwrite a newer list, a page that connects again
  does not ask for what it missed, and bulk actions tell nobody: `ListIsCurrent` names
  these as its only exceptions.
- A row ticked while a list request is under way stays selected after the answer has drawn
  it with an empty box (`http/static/script.js:828`).
- A bulk action of which nothing succeeded gets `succeeded: null`, at which its callback
  stops: the selection stays and the list is not refreshed (`http/static/script.js:678`).
- SQLITE sorts by the date as text, in the time zone of its sender (`storage/storage_sqlite.go:155`);
  MEMORY's order of two mails of one date changes from request to request, so that turning the page may
  show one twice and the other never (`storage/storage_memory.go:258`). `WalkMissesNone` excludes such mails.
- A page number beyond the largest int over 20 makes MEMORY and FILESYSTEM panic; SQLITE answers with the
  first page (`storage/storage_filesystem.go:247`).
- The number of the page changes when the button is clicked, ahead of the answer: after a request that fails it is
  not that of the rows, and a second click before the answer turns two pages (`http/static/script.js:524`).
  Whoever deletes mails between two pages and turns the page before the list is drawn again skips as many.
- The body of another mail may stay on the screen when the request for a body fails, and two panels are visible
  when tabs are clicked faster than they are answered (`http/static/script.js:949`). `ViewAgrees` excludes these.
- Deleting the mail on the screen forgets its id at once: if the deletion fails, the view stays and its
  buttons do nothing (`http/static/script.js:325`). Its answer brings back the list over whatever is shown by then.
- The button of the release dialog stays enabled: a second click sends the mails again. The answer to an earlier
  release closes a dialog opened since, and that to a bulk release clears ticks made since
  (`http/static/script.js:755`).
- The bulk release dialog offers the addresses of the first selected mail of the moment of the click, which may not be
  among those it releases.
- A release goes out with fields of one key next to one another, with folded fields on one line and without a line
  that begins with a colon; only if nothing is to be changed are these kept (`http/httpd.go:926`). If the first of two
  From fields is the relay's sender, both go out.
- A `DeleteAllEmails` in the middle of a `Set` leaves MEMORY with a mail that lists attachments it cannot open;
  so does hydration of an attachment that the root could not read (`storage/storage_memory.go:145`).
- The bulk release dialog sends the selection of the moment its button is clicked; an
  event that came in between has emptied it (`http/static/script.js:755`).
- A body that is nested inside an alternative which has text of its own is listed and never
  shown. In the common mail of a plain text and a related part with HTML and images, the HTML tab
  opens first and is blank (`storage/multipart/multipart.go:389`, `http/static/script.js:949`).
  `TabsHaveBodies` says exactly which bodies these are.
- A header spelt `Text/HTML` is no text to the list of tabs and to the search, though `GetBody`
  would find it (`storage/multipart/leaf_node.go:107`).
- A `text/plain` of blanks is a text to `GetPreview`, which compares with the empty string and trims afterwards: it ends
  the walk in an alternative, and the list shows no preview although the HTML beside it has words
  (`storage/multipart/multipart.go:259`). HTML that is all tags does the same to later HTML.
- The preview of HTML has its entities decoded and the search reads the body as it was sent: `don&#39;t` is previewed
  as `don't`, which does not find the mail (`storage/multipart/multipart.go:525`, `multipart_matcher.go:26`).
- `older_than:1m` is one minute; `README.md:187` of the repository and the suggestions put `m` beside days,
  weeks and years (`storage/matcher/parser.go:124`, `http/filter_suggestions.go:93`).
- `older_than:300y` overflows and lists everything (`storage/matcher/parser.go:120`).
- A quoted phrase with a colon, or an address such as `http://...`, is read as a filter with an unknown
  key, and the query is refused (`storage/matcher/parser.go:139`).
- `after:2024-06-01` includes that day from its first second past midnight, and a mail without a
  readable date is before every date (`storage/multipart/multipart_matcher.go:54`).
- `smtp.SendMail` has no timeout, nor has the write to a browser: one that hangs keeps the sender waiting
  (`HeldUp`). The SMTP server is never shut down.
- A mail whose sender was told of an error may still be listed, released or given to a waiting caller: `Set` does
  not take it back from the layers before the one that failed (`storage/engine.go:291`), nor its file from the
  folder when `Write` fails (`storage/storage_filesystem.go:310`).

## 7. What is not modelled

- *MEMORY's attachments one by one*, and *pages*, are modules of their own: in `StorageEngine` a mail enters
  MEMORY in one step and a search lists everything; clients in `WebClient` see one page.
- *Read marks during a reset*: `resetReadStatus` overwrites the `sync.Map` without synchronisation
  (`http/httpd.go:756`). What a concurrent `Store` or `Load` meets depends on the internals of that map
  in the version of Go; `WebClient` takes the reset for one step.
- *Web client*: suggestions, the settings page and the mailbox list; the polling fallback is never
  entered. `routerSuppressHashChange` is taken to work: a change of the address by the page itself routes
  nowhere (`http/static/script.js:211` re-enables the listener by a timer of 0 ms).
- *Read errors* of files and database, and failures to serialise a mail: only operations
  that write or remove may fail.
- `BounceRate` (`http/settings.go:17`) is stored and never used by the handler.
- *Decoding* of bodies, headers, charsets and addresses is the library's; a preview is not cut to
  its 100 bytes, nor are words joined where a lone carriage return is removed (`storage/multipart/multipart.go:289`). The 32 bit limit on the number in a span is left out.
- *Relay mechanisms, TLS, authentication, the checkers that log*: they keep no state; a
  relay takes a mail or does not.
- *Logging, profiler, static files, sanitiser, mail analyser, test data loading*: no state that
  another part reads.

## 8. Plan

Done, in this order: `StorageLayers`, `StorageEngine`, its proofs; `WsHub`; `MailServer`; `WebClient`;
`MimeTree` and `MailSearch`; `MailArchive` with the refinement and its proof; the proofs for `WsHub`,
`MailServer` and `WebClient`; `MailPages`; `MailView` and `ReleaseDialog`; `MemoryLayer` with its proof; `SenderRewrite`;
the proofs of `ReadsServe` and `ReadsSurvive`, of `InSync` and `RefusedLeavesNothing`, of the
list, the view and the dialog of a page, of the parser, the search and the pages, of what a release sends.

What would come next, the most important first:

1. The list, the view and the dialog of a page as one machine, with the events they share.
2. `MemoryLayer` composed with the engine, so that a search meets a mail half stored.
