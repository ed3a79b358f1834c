---------------------------- MODULE KeyManifest ----------------------------
(***************************************************************************)
(* CacheManager over a custom cache without allKeys(): the SDK keeps its   *)
(* own list of the keys in use under one more key of that cache            *)
(* (key-manifest.ts), read and rewritten as a whole around each write.     *)
(* Every await of a cache method is a step; Serial says whether another    *)
(* operation can run between two steps of one operation.                   *)
(***************************************************************************)
EXTENDS Naturals

CONSTANTS
  Procs,      \* operations that can be under way at one time
  Keys,       \* keys of entries, and the one of the id token
  Serial

ASSUME ConstantsAssumption == Serial \in BOOLEAN /\ Keys # {}

VARIABLES
  stored,     \* keys that have an entry
  manifest,   \* keys the manifest lists; {} = there is no manifest entry
  pc,
  reg         \* of each operation: its key, and the keys it read

vars == <<stored, manifest, pc, reg>>

NoReg == [key |-> CHOOSE k \in Keys : TRUE, keys |-> {}]

Init ==
  /\ stored = {}
  /\ manifest = {}
  /\ pc = [p \in Procs |-> "idle"]
  /\ reg = [p \in Procs |-> NoReg]

Turn(p) == Serial => \A q \in Procs \ {p} : pc[q] = "idle"

Step(p, from, to) ==
  /\ pc[p] = from
  /\ Turn(p)
  /\ pc' = [pc EXCEPT ![p] = to]

Key(p) == reg[p].key

Forget(p) == reg' = [reg EXCEPT ![p] = NoReg]

-----------------------------------------------------------------------------
\* set and setIdToken: the entry first, then CacheKeyManifest.add.
Set(p, k) ==
  /\ Step(p, "idle", "addGet")
  /\ stored' = stored \cup {k}
  /\ reg' = [reg EXCEPT ![p].key = k]
  /\ UNCHANGED manifest

AddGet(p) ==
  /\ Step(p, "addGet", "addSet")
  /\ reg' = [reg EXCEPT ![p].keys = manifest \cup {Key(p)}]
  /\ UNCHANGED <<stored, manifest>>

AddSet(p) ==
  /\ Step(p, "addSet", "idle")
  /\ manifest' = reg[p].keys
  /\ Forget(p)
  /\ UNCHANGED stored

\* get finds an expired entry without refresh token: it removes the entry ...
GetExpired(p, k) ==
  /\ Step(p, "idle", "expired")
  /\ k \in stored
  /\ reg' = [reg EXCEPT ![p].key = k]
  /\ UNCHANGED <<stored, manifest>>

RemoveExpired(p) ==
  /\ Step(p, "expired", "removeGet")
  /\ stored' = stored \ {Key(p)}
  /\ UNCHANGED <<manifest, reg>>

\* A remove that drops the whole manifest.
RemoveGetAll(p) ==
  /\ Step(p, "removeGet", "idle")
  /\ manifest' = {}
  /\ UNCHANGED <<stored, reg>>

\* ... then CacheKeyManifest.remove, a no-op if there is no manifest.
RemoveGet(p) ==
  /\ Step(p, "removeGet", IF manifest = {} THEN "idle" ELSE "removeSet")
  /\ reg' = [reg EXCEPT ![p].keys = manifest \ {Key(p)}]
  /\ UNCHANGED <<stored, manifest>>

RemoveSet(p) ==
  /\ Step(p, "removeSet", "idle")
  /\ manifest' = reg[p].keys
  /\ Forget(p)
  /\ UNCHANGED stored

\* CacheManager.remove leaves the manifest as it is.
Remove(p, k) ==
  /\ Step(p, "idle", "idle")
  /\ stored' = stored \ {k}
  /\ UNCHANGED <<manifest, reg>>

\* clear: list, remove one by one, then CacheKeyManifest.clear.
Clear(p) ==
  /\ Step(p, "idle", IF manifest = {} THEN "idle" ELSE "clear")
  /\ reg' = [reg EXCEPT ![p].keys = manifest]
  /\ UNCHANGED <<stored, manifest>>

ClearKey(p) ==
  /\ Step(p, "clear", "clear")
  /\ \E k \in reg[p].keys :
       /\ stored' = stored \ {k}
       /\ reg' = [reg EXCEPT ![p].keys = @ \ {k}]
  /\ UNCHANGED manifest

\* The manifest goes before the entries are gone.
ClearManifestEarly(p) ==
  /\ Step(p, "clear", "idle")
  /\ manifest' = {}
  /\ UNCHANGED <<stored, reg>>

ClearManifest(p) ==
  /\ reg[p].keys = {}
  /\ Step(p, "clear", "idle")
  /\ manifest' = {}
  /\ Forget(p)
  /\ UNCHANGED stored

Next ==
  \E p \in Procs :
    \/ \E k \in Keys : Set(p, k) \/ GetExpired(p, k) \/ Remove(p, k)
    \/ AddGet(p) \/ AddSet(p)
    \/ RemoveExpired(p) \/ RemoveGet(p) \/ RemoveSet(p)
    \/ Clear(p) \/ ClearKey(p) \/ ClearManifest(p)

Spec == Init /\ [][Next]_vars

-----------------------------------------------------------------------------
\* Types of the state.
TypeOK ==
  /\ stored \subseteq Keys /\ manifest \subseteq Keys
  /\ pc \in [Procs -> {"idle", "addGet", "addSet", "expired", "removeGet", "removeSet", "clear"}]
  /\ reg \in [Procs -> [key : Keys, keys : SUBSET Keys]]

\* Between operations the manifest lists every stored key: the lookups, the
\* rotation and logout, which go by the manifest, miss nothing.
Listed == (\A p \in Procs : pc[p] = "idle") => stored \subseteq manifest

\* When clear ends, no entry is left in the cache.
ClearEmpties ==
  [][\A p \in Procs : pc[p] = "clear" /\ pc'[p] = "idle" => stored' = {}]_vars
=============================================================================
