------------------------------ MODULE KeyCache ------------------------------
(***************************************************************************)
(* The key cache of a "dir" signer (executor/apdeliver/signer.go): many    *)
(* deliveries of one actor load its key at the same time, while the        *)
(* operator rotates the file under the same key id.                        *)
(*                                                                         *)
(* A key is the number of the rotation that wrote it. What os.Stat shows   *)
(* of a file is its modification time and its size; every whole key has    *)
(* the same size, and a file that is still being written has another.      *)
(***************************************************************************)
EXTENDS Naturals

CONSTANTS
  Loaders,  \* concurrent calls of dirSigner.load for one key id
  MaxKeys,  \* bound: keys the operator writes
  MaxTime,  \* bound: modification times
  Coarse    \* whether two writes may leave the same modification time

ASSUME KeyCacheAssumption ==
  /\ MaxKeys \in Nat /\ MaxTime \in Nat /\ Coarse \in BOOLEAN

VARIABLES
  body,    \* the file: "absent", "part" (being written) or "whole"
  key,     \* the key in the file, or the last one that was
  mtime,   \* the modification time of the file
  cached,  \* dirSigner.cached[keyID]
  pc,      \* where each load is
  st,      \* what a load saw in its stat
  got,     \* the key a load has read or returns
  since    \* history: the key in the file when the load began

vars == <<body, key, mtime, cached, pc, st, got, since>>
fileVars == <<body, key, mtime>>
loadVars == <<cached, pc, st, got, since>>

Keys  == 0..MaxKeys
Stats == [mtime : 0..MaxTime, size : {"part", "whole"}]

(* What os.Stat returns. Two stats are compared field by field. *)
Stat == [mtime |-> mtime, size |-> body]

NoStat == [mtime |-> 0, size |-> "part"]

TypeOK ==
  /\ body \in {"absent", "part", "whole"}
  /\ key \in Keys
  /\ mtime \in 0..MaxTime
  /\ cached \in [ok : BOOLEAN, key : Keys, st : Stats, since : Keys]
  /\ pc \in [Loaders -> {"idle", "lookup", "read", "store", "key", "unknown", "error"}]
  /\ st \in [Loaders -> Stats]
  /\ got \in [Loaders -> Keys]
  /\ since \in [Loaders -> Keys]

(* newDirSigner: an empty cache. *)
Init ==
  /\ body = "whole"
  /\ key = 0
  /\ mtime = 0
  /\ cached = [ok |-> FALSE, key |-> 0, st |-> NoStat, since |-> 0]
  /\ pc = [l \in Loaders |-> "idle"]
  /\ st = [l \in Loaders |-> NoStat]
  /\ got = [l \in Loaders |-> 0]
  /\ since = [l \in Loaders |-> 0]

----------------------------------------------------------------------------
(***************************************************************************)
(* The operator.                                                           *)
(***************************************************************************)

(* The file system stamps a write. *)
Touch ==
  /\ mtime' \in (IF Coarse THEN {mtime, mtime + 1} ELSE {mtime + 1})
  /\ mtime' <= MaxTime

(* A new key is moved into place. *)
Rename ==
  /\ key < MaxKeys
  /\ key' = key + 1
  /\ body' = "whole"
  /\ Touch
  /\ UNCHANGED loadVars

(* The file is opened for writing in place, or created. *)
Truncate ==
  /\ body' = "part"
  /\ Touch
  /\ UNCHANGED <<key, loadVars>>

(* The new key is written. *)
Write ==
  /\ body = "part" /\ key < MaxKeys
  /\ key' = key + 1
  /\ body' = "whole"
  /\ Touch
  /\ UNCHANGED loadVars

(* The key is withdrawn. *)
Remove ==
  /\ body # "absent"
  /\ body' = "absent"
  /\ UNCHANGED <<key, mtime, loadVars>>

----------------------------------------------------------------------------
(***************************************************************************)
(* dirSigner.load.                                                         *)
(***************************************************************************)

(* The load ends at pc, with the key k when it has one. *)
Ends(l, end, k) ==
  /\ pc' = [pc EXCEPT ![l] = end]
  /\ got' = [got EXCEPT ![l] = k]

(* os.Stat: a missing file is an unknown key, other errors are retried. *)
LoadStats(l) ==
  /\ pc[l] = "idle"
  /\ since' = [since EXCEPT ![l] = key]
  /\ IF body = "absent"
     THEN Ends(l, "unknown", 0) /\ UNCHANGED st
     ELSE \/ Ends(l, "error", 0) /\ UNCHANGED st
          \/ Ends(l, "lookup", 0) /\ st' = [st EXCEPT ![l] = Stat]
  /\ UNCHANGED <<fileVars, cached>>

(* The cache, under the read lock: a hit needs the same time and size. *)
LoadLooksUp(l) ==
  /\ pc[l] = "lookup"
  /\ IF cached.ok /\ cached.st = st[l]
     THEN Ends(l, "key", cached.key)
     ELSE Ends(l, "read", 0)
  /\ UNCHANGED <<fileVars, cached, st, since>>

(* A read that takes whatever fails for a key that does not exist. *)
LoadReadsOrGivesUp(l) ==
  /\ pc[l] = "read"
  /\ IF body = "whole" THEN Ends(l, "store", key) ELSE Ends(l, "unknown", 0)
  /\ UNCHANGED <<fileVars, cached, st, since>>

(* os.ReadFile and ParsePrivateKey: a key half written does not parse. *)
LoadReads(l) ==
  /\ pc[l] = "read"
  /\ \/ body = "absent" /\ Ends(l, "unknown", 0)
     \/ body # "absent" /\ Ends(l, "error", 0)
     \/ body = "whole" /\ Ends(l, "store", key)
  /\ UNCHANGED <<fileVars, cached, st, since>>

(* A store that stats the file again, after it was read. *)
LoadStoresLateStat(l) ==
  /\ pc[l] = "store"
  /\ cached' = IF body = "absent" THEN cached
               ELSE [ok |-> TRUE, key |-> got[l], st |-> Stat, since |-> since[l]]
  /\ Ends(l, "key", got[l])
  /\ UNCHANGED <<fileVars, st, since>>

(* The key is cached, under the lock, with the stat taken before the read. *)
LoadStores(l) ==
  /\ pc[l] = "store"
  /\ cached' = [ok |-> TRUE, key |-> got[l], st |-> st[l], since |-> since[l]]
  /\ Ends(l, "key", got[l])
  /\ UNCHANGED <<fileVars, st, since>>

(* The delivery is over; another begins. *)
Again(l) ==
  /\ pc[l] \in {"key", "unknown", "error"}
  /\ Ends(l, "idle", 0)
  /\ UNCHANGED <<fileVars, cached, st, since>>

Load(l) == LoadStats(l) \/ LoadLooksUp(l) \/ LoadReads(l) \/ LoadStores(l) \/ Again(l)

Next ==
  \/ Rename \/ Truncate \/ Write \/ Remove
  \/ \E l \in Loaders : Load(l)

Spec == Init /\ [][Next]_vars

----------------------------------------------------------------------------
(***************************************************************************)
(* Properties.                                                             *)
(***************************************************************************)

(* A rotated key takes effect without a restart: a load never returns a    *)
(* key older than the one that was in the file when the load began,        *)
(* whatever other loads have left in the cache meanwhile.                  *)
NoStaleKey ==
  \A l \in Loaders : pc[l] = "key" => got[l] >= since[l]

(* A stat taken when the file held key k is not from the future, and is of *)
(* the present key if the file has not been written since.                 *)
Dated(s, k) ==
  /\ k <= key /\ s.mtime <= mtime
  /\ s.mtime = mtime => k = key

(* The loads that hold a stat. *)
Stated == {l \in Loaders : pc[l] \in {"lookup", "read", "store"}}

(* The inductive form of NoStaleKey when every write has a time of its     *)
(* own: the modification time in a stat tells which key was in the file,   *)
(* so that two stats that look the same, the cached one and a load's, were *)
(* of the same key; and a cached key is no older than its stat's.          *)
CacheInv ==
  /\ TypeOK
  /\ cached.ok => cached.key >= cached.since /\ Dated(cached.st, cached.since)
  /\ \A l \in Stated :
       /\ Dated(st[l], since[l])
       /\ cached.ok /\ cached.st.mtime = st[l].mtime => cached.since = since[l]
       /\ \A m \in Stated : st[l].mtime = st[m].mtime => since[l] = since[m]
  /\ \A l \in Loaders : pc[l] \in {"store", "key"} => got[l] >= since[l]

============================================================================
