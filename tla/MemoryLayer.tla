---------------------------- MODULE MemoryLayer ----------------------------
(***************************************************************************)
(* The MEMORY layer at the grain of its lock. Its methods hold m.mu from    *)
(* end to end, save one: setWithID takes and drops it for every attachment  *)
(* of the mail before it enters the mail itself. StorageEngine enters a     *)
(* mail in one step; this module is about what the difference can do.       *)
(*                                                                          *)
(* A map of attachment lists and the map of attachments are both kept as    *)
(* sets of pairs of a mail and one of its attachments: an attachment that   *)
(* is listed, and one that can be opened.                                   *)
(***************************************************************************)
EXTENDS FiniteSets

CONSTANTS Mails,         \* ids, each given out once
          Attachments,   \* the attachment ids a mail can have
          AttachmentsOf, \* those the parser finds in each mail
          Unparsed       \* mails the parser refuses

ASSUME MemoryAssumption ==
  /\ AttachmentsOf \in [Mails -> SUBSET Attachments]
  /\ Unparsed \subseteq Mails

VARIABLES
  headers,      \* mails the layer lists and serves
  attachments,  \* m.attachments
  attachment,   \* m.attachment
  rawEmails,
  progress,     \* of the setWithID of each mail
  todo,         \* the attachments it has yet to enter
  loaded,       \* hydration is over
  lost          \* attachments that were removed, or could not be read, before
                \* the mail they belong to was entered; nothing reads it

cache == <<headers, attachments, attachment, rawEmails>>
memoryVars == <<cache, progress, todo, loaded, lost>>

PairsOf(id) == {id} \X AttachmentsOf[id]

MemoryTypeOK ==
  /\ headers \subseteq Mails /\ rawEmails \subseteq Mails
  /\ attachments \subseteq Mails \X Attachments
  /\ attachment \subseteq Mails \X Attachments
  /\ progress \in [Mails -> {"new", "storing", "over"}]
  /\ todo \in [Mails -> SUBSET Attachments]
  /\ loaded \in BOOLEAN
  /\ lost \subseteq Mails \X Attachments

MemoryInit ==
  /\ headers = {} /\ attachments = {} /\ attachment = {} /\ rawEmails = {}
  /\ progress = [id \in Mails |-> "new"]
  /\ todo = [id \in Mails |-> {}]
  /\ loaded = FALSE /\ lost = {}

-----------------------------------------------------------------------------
(* Mistakes the code could contain; none is part of the model. *)

\* The list of attachments goes before it is walked.
DeleteMailListFirst(id) ==
  /\ progress[id] = "over"
  /\ headers' = headers \ {id} /\ rawEmails' = rawEmails \ {id}
  /\ attachments' = attachments \ PairsOf(id)
  /\ UNCHANGED <<attachment, progress, todo, loaded, lost>>

-----------------------------------------------------------------------------
\* Hydration, under the lock, before anything is served. What the root lists is
\* entered; a list of attachments, an attachment or a raw mail it then fails to
\* read is left out.
LoadCache ==
  /\ ~loaded
  /\ \E found \in SUBSET (Mails \ Unparsed) :
     \E listed \in SUBSET found, raw \in SUBSET found :
     \E opened \in SUBSET UNION {PairsOf(id) : id \in listed} :
       /\ headers' = found
       /\ attachments' = UNION {PairsOf(id) : id \in listed}
       /\ attachment' = opened
       /\ lost' = attachments' \ opened
       /\ rawEmails' = raw
       /\ progress' = [id \in Mails |-> IF id \in found THEN "over" ELSE "new"]
  /\ loaded' = TRUE
  /\ UNCHANGED todo

\* The mail is parsed as a whole before the layer is touched.
SetParses(id) ==
  /\ loaded /\ progress[id] = "new"
  /\ IF id \in Unparsed
       THEN /\ progress' = [progress EXCEPT ![id] = "over"]
            /\ UNCHANGED todo
       ELSE /\ progress' = [progress EXCEPT ![id] = "storing"]
            /\ todo' = [todo EXCEPT ![id] = AttachmentsOf[id]]
  /\ UNCHANGED <<cache, loaded, lost>>

\* One turn of the loop over a Go map: the attachments come in any order.
SetAttachment(id, att) ==
  /\ progress[id] = "storing" /\ att \in todo[id]
  /\ attachment' = attachment \cup {<<id, att>>}
  /\ todo' = [todo EXCEPT ![id] = @ \ {att}]
  /\ UNCHANGED <<headers, attachments, rawEmails, progress, loaded, lost>>

SetMail(id) ==
  /\ progress[id] = "storing" /\ todo[id] = {}
  /\ headers' = headers \cup {id}
  /\ attachments' = attachments \cup PairsOf(id)
  /\ rawEmails' = rawEmails \cup {id}
  /\ progress' = [progress EXCEPT ![id] = "over"]
  /\ UNCHANGED <<attachment, todo, loaded, lost>>

DeleteAllMails ==
  /\ loaded
  /\ headers' = {} /\ attachments' = {} /\ attachment' = {} /\ rawEmails' = {}
  /\ lost' = lost \cup {pair \in attachment : progress[pair[1]] = "storing"}
  /\ UNCHANGED <<progress, todo, loaded>>

\* An id is known to callers once the mail is listed, so that its setWithID is
\* over; it may be deleted more than once. The entries removed are those of the
\* list.
DeleteMail(id) ==
  /\ progress[id] = "over"
  /\ attachment' = attachment \ {pair \in attachments : pair[1] = id}
  /\ headers' = headers \ {id} /\ rawEmails' = rawEmails \ {id}
  /\ attachments' = {pair \in attachments : pair[1] # id}
  /\ UNCHANGED <<progress, todo, loaded, lost>>

MemoryNext ==
  \/ LoadCache
  \/ DeleteAllMails
  \/ \E id \in Mails :
       \/ SetParses(id) \/ SetMail(id) \/ DeleteMail(id)
       \/ \E att \in Attachments : SetAttachment(id, att)

MemorySpec == MemoryInit /\ [][MemoryNext]_memoryVars

-----------------------------------------------------------------------------
\* GetAttachments and GetAttachment of a mail that is listed.
Lists(id, att) == id \in headers /\ <<id, att>> \in attachments
Serves(id, att) == <<id, att>> \in attachment

\* An attachment that the layer lists can be opened, save those that a
\* DeleteAllEmails removed while their mail was still being entered and those
\* that hydration could not read; and no attachment is kept that no listed mail
\* and no setWithID under way has: deletions, which go by the list, leave
\* nothing behind.
AttachmentsMatch ==
  /\ \A id \in Mails, att \in Attachments :
       Lists(id, att) => (Serves(id, att) <=> <<id, att>> \notin lost)
  /\ \A pair \in attachment :
       Lists(pair[1], pair[2]) \/ progress[pair[1]] = "storing"
=============================================================================
