--------------------------- MODULE StorageLayers ---------------------------
(***************************************************************************)
(* The configuration of the storage engine and the routing tables NewEngine *)
(* derives from it: which layers answer reads, searches and raw reads, and  *)
(* which ones every write and every deletion visits.                        *)
(*                                                                          *)
(* Source: storage/configuration.go and the constructor in storage/engine.go*)
(***************************************************************************)
EXTENDS Integers, Sequences

CONSTANT Layers         \* the "storages" array of the configuration, in order

LayerTypes == {"MEMORY", "SQLITE", "FILESYSTEM"}

ScopeNames == {"read", "search", "write", "raw", "cache", "all"}

\* One entry of the array. The parameters (folder, database, file type) never
\* decide anything the model tells apart.
LayerConfiguration == [type : LayerTypes, scope : SUBSET ScopeNames]

\* An unknown type is refused by NewEngine before the engine exists.
ASSUME LayersAssumption ==
  /\ Layers \in Seq(LayerConfiguration)
  /\ Len(Layers) > 0

LayerIds == 1..Len(Layers)

\* The last layer of the array: every other layer hydrates from it.
Root == Len(Layers)

TypeOf(l) == Layers[l].type

\* "If no scope specified, default to all".
EffectiveScope(l) ==
  IF Layers[l].scope = {} THEN {"all"} ELSE Layers[l].scope

HasScope(l, s) == EffectiveScope(l) \cap {s, "all"} # {}

\* A mistake for the checks: a layer in the "cache" scope takes no writes.
IsWritableUncached(l) == \E s \in {"write", "all"} : HasScope(l, s)

IsWritable(l) == \E s \in {"write", "cache", "all"} : HasScope(l, s)

ReadLayers   == {l \in LayerIds : HasScope(l, "read")}
SearchLayers == {l \in LayerIds : HasScope(l, "search")}
WriteLayers  == {l \in LayerIds : IsWritable(l)}
RawLayers    == {l \in LayerIds : HasScope(l, "raw")}

\* Layers whose contents outlive the process: files and database rows.
Persistent(l) == TypeOf(l) # "MEMORY"

\* First(R, l): l is the layer a loop over the table R visits next.
First(R, l) == l \in R /\ \A m \in R : l <= m

=============================================================================
