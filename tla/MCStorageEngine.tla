--------------------------- MODULE MCStorageEngine ---------------------------
(***************************************************************************)
(* Configurations of the storage engine for TLC.                            *)
(***************************************************************************)
EXTENDS StorageArchive, TLC

CONSTANTS a, b, c,       \* mails
          p1, p2, p3     \* goroutines

Layer(type, scope) == [type |-> type, scope |-> scope]

\* cmd/server/config/default.json, and "Fast reads" of the design document.
DefaultLayers == << Layer("MEMORY", {"read", "cache"}),
                    Layer("FILESYSTEM", {"all"}) >>

\* "Minimal" of the design document.
MinimalLayers == << Layer("FILESYSTEM", {"all"}) >>

\* "Full stack" of the design document.
FullStackLayers == << Layer("MEMORY", {"read", "cache"}),
                      Layer("SQLITE", {"search"}),
                      Layer("FILESYSTEM", {"all"}) >>

\* The full stack with a database that takes writes.
WrittenStackLayers == << Layer("MEMORY", {"read", "cache"}),
                         Layer("SQLITE", {"search", "cache"}),
                         Layer("FILESYSTEM", {"all"}) >>

AllOperations == Operations
WithoutDeleteAll == Operations \ {"DeleteAllEmails"}
SetAndSearch == {"Set", "SearchEmails"}

Symmetry == Permutations({a, b}) \cup Permutations({p1, p2, p3})

=============================================================================
