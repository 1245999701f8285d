---------------------------- MODULE SecureStorage ----------------------------
(***************************************************************************)
(* The private data library (hardware/libhardware/libsec_storage): an item *)
(* is written to the private partition (fetch_env.c) and then to the       *)
(* secure storage (secure_storage.c, eMMC variant), where a map block and  *)
(* one object block per item are kept in two copies.  The system may lose  *)
(* power at any point, and block writes and reads of the map may fail.     *)
(*                                                                         *)
(* sec_mutex is held from sunxi_secure_storage_init to                     *)
(* sunxi_secure_storage_exit; the private partition has no lock.  A block  *)
(* that was written and not yet synced is old, new or torn after a crash.  *)
(***************************************************************************)
EXTENDS Integers, Sequences, FiniteSets

CONSTANTS Threads,
          Names,       \* items; no name is a prefix of another one
          Values,
          None,        \* no value: an item that is not found
          Junk,        \* a map entry that is no item, left by garbage
          Torn,        \* a block or a value that was written in part
          MaxItem,     \* the last object block (31)
          PrivMax,     \* USER_DATA_PARAMETER_MAX_COUNT
          Supported,   \* /dev/sunxi_soc_info exists
          MaxOps,      \* bound: calls of the library
          MaxCrashes,  \* bound: power losses
          MaxFaults    \* bound: failing block operations

ASSUME StorageAssumption ==
  /\ MaxItem \in Nat \ {0} /\ PrivMax \in Nat \ {0} /\ Supported \in BOOLEAN
  /\ MaxOps \in Nat /\ MaxCrashes \in Nat /\ MaxFaults \in Nat
  /\ None \notin Threads /\ Junk \notin Names
  /\ None \notin Values /\ Torn \notin Values /\ None # Torn

Items  == 1 .. MaxItem
Copies == {0, 1}

VARIABLES
  priv, privMedia,  \* the private partition, as read and as synced
  mapC, mapMedia,   \* the two copies of the map block, as read and as synced
  objC, objMedia,   \* the two copies of each object block
  map,              \* secure_storage_map
  inited,           \* secure_storage_inited
  dirty,            \* map_dirty
  mutex,            \* holder of sec_mutex
  pc, op,           \* program point and call of each thread
  item, val,        \* its arguments
  env,              \* its copy of the private partition
  blk,              \* the object block it writes
  after,            \* where sunxi_secure_storage_exit returns to
  res,              \* what its read returns
  ops, crashes, faults,
  allowed,          \* history: the values a read of an item may return
  may,              \* history: the values the running read may return
  raced,            \* history: a stale copy of the private partition was written
  bothCut,          \* history: a power loss hit an unsynced private entry and map
  skipped           \* history: a write succeeded without the secure storage

disk  == <<priv, privMedia, mapC, mapMedia, objC, objMedia>>
memory == <<map, inited, dirty, mutex>>
locals == <<op, item, val, env, blk, after, res>>
bounds == <<ops, crashes, faults>>
hist  == <<allowed, may, raced, bothCut, skipped>>
vars  == <<disk, memory, pc, locals, bounds, hist>>

\* A map block: its entries and what check_secure_storage_map says of it.
MapBlock(st, m) == [st |-> st, m |-> m]
BlankMap == MapBlock("nomagic", <<>>)

Init ==
  /\ priv = <<>> /\ privMedia = <<>>
  /\ mapC = [c \in Copies |-> BlankMap] /\ mapMedia = mapC
  /\ objC = [i \in Items |-> [c \in Copies |-> Torn]] /\ objMedia = objC
  /\ map = <<>> /\ inited = FALSE /\ dirty = FALSE /\ mutex = None
  /\ pc = [t \in Threads |-> "idle"] /\ op = [t \in Threads |-> "none"]
  /\ item \in [Threads -> {CHOOSE n \in Names : TRUE}]
  /\ val = [t \in Threads |-> None] /\ res = [t \in Threads |-> None]
  /\ env = [t \in Threads |-> <<>>] /\ blk = [t \in Threads |-> 0]
  /\ after = [t \in Threads |-> "idle"]
  /\ ops = 0 /\ crashes = 0 /\ faults = 0
  /\ allowed = [n \in Names |-> {None}] /\ may = [t \in Threads |-> {}]
  /\ raced = FALSE /\ bothCut = FALSE /\ skipped = FALSE

Goto(t, p) == pc' = [pc EXCEPT ![t] = p]
MinOf(a, b) == IF a < b THEN a ELSE b
-----------------------------------------------------------------------------
(* The private partition: a table of at most PrivMax + 1 entries, of which *)
(* PrivMax are looked at.                                                  *)

\* The entries of table p for item n that the loops can find.
EnvIndex(p, n) == {i \in 1 .. MinOf(Len(p), PrivMax) : p[i][1] = n}

check_env_parameter(p, n) ==
  IF EnvIndex(p, n) = {} THEN None ELSE p[CHOOSE i \in EnvIndex(p, n) : TRUE][2]

modify_env_parameter(p, n, v) ==
  IF EnvIndex(p, n) # {}
  THEN [p EXCEPT ![CHOOSE i \in EnvIndex(p, n) : TRUE] = <<n, v>>]
  ELSE IF Len(p) <= PrivMax THEN Append(p, <<n, v>>) ELSE p

env_read(t) ==
  /\ pc[t] = "envRead"
  /\ env' = [env EXCEPT ![t] = priv]
  /\ Goto(t, "envWrite")
  /\ UNCHANGED <<disk, memory, op, item, val, blk, after, res, bounds, hist>>

env_write(t) ==
  /\ pc[t] = "envWrite"
  /\ priv' = modify_env_parameter(env[t], item[t], val[t])
  /\ raced' = (raced \/ env[t] # priv)
  /\ Goto(t, "envSync")
  /\ UNCHANGED <<privMedia, mapC, mapMedia, objC, objMedia, memory, locals,
                 bounds, allowed, may, bothCut, skipped>>

\* fsync, and on to the secure storage.
EnvSync(t) ==
  /\ pc[t] = "envSync" /\ Goto(t, IF Supported THEN "support" ELSE "written")
  /\ privMedia' = priv
  /\ env' = [env EXCEPT ![t] = <<>>]
  /\ UNCHANGED <<priv, mapC, mapMedia, objC, objMedia, memory, op, item, val,
                 blk, after, res, bounds, hist>>

\* The private partition cannot be opened, read or written: the call fails.
PrivateFails(t) ==
  /\ pc[t] \in {"envRead", "envWrite", "private"}
  /\ faults < MaxFaults /\ faults' = faults + 1
  /\ Goto(t, "failed")
  /\ UNCHANGED <<disk, memory, locals, ops, crashes, hist>>
-----------------------------------------------------------------------------
(* sunxi_secure_storage_init and _exit.                                    *)

\* sd_read_map followed by the checks of sunxi_secure_storage_init: the map
\* that may result from the two copies.  With copy 0 bad by its CRC and copy 1
\* without magic, the code uses an uninitialized buffer.
sd_read_map(c0, c1) ==
  CASE c0.st = "good" -> {c0.m}
    [] c0.st # "good" /\ c1.st = "good" -> {c1.m}
    [] c0.st = "nomagic" /\ c1.st = "nomagic" -> {c0.m}
    [] c0.st = "torn" /\ c1.st = "nomagic" -> {<<>>, <<Junk>>}
    [] c0.st # "good" /\ c1.st = "torn" -> {<<>>}

\* secure_storage_support calls init and exit before the call's own init.
sunxi_secure_storage_init(t) ==
  /\ pc[t] \in {"support", "init"} /\ mutex = None
  /\ mutex' = t /\ inited' = TRUE
  /\ map' \in IF inited THEN {map} ELSE sd_read_map(mapC[0], mapC[1])
  /\ \/ pc[t] = "support" /\ Goto(t, "exit") /\ after' = [after EXCEPT ![t] = "init"]
     \/ pc[t] = "init" /\ Goto(t, "object") /\ UNCHANGED after
  /\ UNCHANGED <<disk, dirty, op, item, val, env, blk, res, bounds, hist>>

\* The map cannot be read.  In secure_storage_support this says "no secure
\* storage": a read goes to the private partition, a write is done.
InitFails(t) ==
  /\ pc[t] \in {"support", "init"} /\ mutex = None /\ ~inited
  /\ faults < MaxFaults /\ faults' = faults + 1
  /\ Goto(t, CASE op[t] = "read" -> "private"
               [] op[t] = "write" /\ pc[t] = "support" -> "written"
               [] op[t] = "write" /\ pc[t] = "init" -> "failed")
  /\ skipped' = (skipped \/ (op[t] = "write" /\ pc[t] = "support"))
  /\ UNCHANGED <<disk, memory, locals, ops, crashes, allowed, may, raced,
                 bothCut>>

\* Nothing to save: the map is dropped.
sunxi_secure_storage_exit(t) ==
  /\ pc[t] = "exit"
  /\ \/ /\ dirty /\ Goto(t, "map0") /\ UNCHANGED <<inited, map, mutex, after>>
     \/ /\ ~dirty /\ Goto(t, after[t]) /\ after' = [after EXCEPT ![t] = "idle"]
        /\ inited' = FALSE /\ map' = <<>> /\ mutex' = None
  /\ UNCHANGED <<disk, dirty, op, item, val, env, blk, res, bounds, hist>>

\* Where a failing exit leads: its result is ignored in
\* secure_storage_support, a read turns to the private partition, a write fails.
AfterFailedExit(t) ==
  CASE after[t] \in {"written", "failed"} -> "failed"
    [] after[t] \in {"done", "private"} -> "private"
    [] after[t] = "init" -> "init"

\* Mutant: the error path of exit keeps the mutex.
MapFailsLocked(t) ==
  /\ pc[t] \in {"map0", "map1"} /\ faults < MaxFaults /\ faults' = faults + 1
  /\ Goto(t, AfterFailedExit(t)) /\ after' = [after EXCEPT ![t] = "idle"]
  /\ UNCHANGED <<disk, map, inited, dirty, mutex, op, item, val, env, blk, res,
                 ops, crashes, hist>>

\* A write of the map fails: the mutex is released, the map stays in memory.
MapFails(t) ==
  /\ pc[t] \in {"map0", "map1"} /\ faults < MaxFaults /\ faults' = faults + 1
  /\ mutex' = None
  /\ Goto(t, AfterFailedExit(t)) /\ after' = [after EXCEPT ![t] = "idle"]
  /\ UNCHANGED <<disk, map, inited, dirty, op, item, val, env, blk, res, ops,
                 crashes, hist>>

\* _sd_write of item 0: copy 0, copy 1, fsync; then exit releases the mutex.
MapWrite(t) ==
  /\ \/ /\ pc[t] = "map0" /\ Goto(t, "map1")
        /\ mapC' = [mapC EXCEPT ![0] = MapBlock("good", map)]
        /\ UNCHANGED <<privMedia, mapMedia, objMedia, memory, after>>
     \/ /\ pc[t] = "map1" /\ Goto(t, "mapSync")
        /\ mapC' = [mapC EXCEPT ![1] = MapBlock("good", map)]
        /\ UNCHANGED <<privMedia, mapMedia, objMedia, memory, after>>
     \/ /\ pc[t] = "mapSync" /\ Goto(t, after[t])
        /\ after' = [after EXCEPT ![t] = "idle"]
        /\ mapMedia' = mapC /\ objMedia' = objC
        /\ inited' = FALSE /\ map' = <<>> /\ dirty' = FALSE /\ mutex' = None
        /\ UNCHANGED <<mapC, privMedia>>
  /\ UNCHANGED <<priv, objC, op, item, val, env, blk, res, bounds, hist>>
-----------------------------------------------------------------------------
(* The objects.                                                            *)

\* The map entries that match n: the comparison stops at the length of n, and
\* no name is a prefix of another one.
Matches(n) == {i \in 1 .. Len(map) : map[i] = n}

\* sd_read_key, unwrap_secure_object: the first copy with a good CRC.
sd_read_key(i) ==
  CASE objC[i][0] # Torn -> objC[i][0]
    [] objC[i][0] = Torn -> objC[i][1]

\* sunxi_secure_object_read.
ObjectRead(t) ==
  /\ pc[t] = "object" /\ op[t] = "read"
  /\ Goto(t, "exit")
  /\ \/ /\ \E i \in Matches(item[t]) :
             sd_read_key(i) # Torn /\ res' = [res EXCEPT ![t] = sd_read_key(i)]
        /\ after' = [after EXCEPT ![t] = "done"]
     \/ /\ \A i \in Matches(item[t]) : sd_read_key(i) = Torn
        /\ after' = [after EXCEPT ![t] = "private"] /\ UNCHANGED res
  /\ UNCHANGED <<disk, memory, op, item, val, env, blk, bounds, hist>>

\* Mutant: an item that is in the map already gets another block.
FillAlwaysAppends(n) == Len(map) + 1

\* __fill_name_in_map: the block of n, a new one at the end.
fill_name_in_map(n) ==
  IF Matches(n) # {} THEN CHOOSE i \in Matches(n) : TRUE ELSE Len(map) + 1

\* sunxi_secure_object_write up to the block write; the map is full at
\* MaxItem entries.
ObjectFill(t) ==
  /\ pc[t] = "object" /\ op[t] = "write"
  /\ LET i == fill_name_in_map(item[t]) IN
       \/ /\ i <= MaxItem
          /\ blk' = [blk EXCEPT ![t] = i]
          /\ map' = IF i > Len(map) THEN Append(map, item[t]) ELSE map
          /\ Goto(t, "obj0") /\ UNCHANGED after
       \/ /\ i > MaxItem
          /\ after' = [after EXCEPT ![t] = "failed"]
          /\ Goto(t, "exit") /\ UNCHANGED <<blk, map>>
  /\ UNCHANGED <<disk, inited, dirty, mutex, op, item, val, env, res, bounds,
                 hist>>

\* A copy cannot be written: the call fails, the name stays in the map.
ObjectFails(t) ==
  /\ pc[t] \in {"obj0", "obj1"} /\ faults < MaxFaults /\ faults' = faults + 1
  /\ Goto(t, "exit") /\ after' = [after EXCEPT ![t] = "failed"]
  /\ blk' = [blk EXCEPT ![t] = 0]
  /\ UNCHANGED <<disk, memory, op, item, val, env, res, ops, crashes, hist>>

\* _sd_write of the object, then set_map_dirty.
ObjectWrite(t) ==
  /\ \/ /\ pc[t] = "obj0" /\ Goto(t, "obj1")
        /\ objC' = [objC EXCEPT ![blk[t]][0] = val[t]]
        /\ UNCHANGED <<objMedia, mapMedia, dirty, after, blk>>
     \/ /\ pc[t] = "obj1" /\ Goto(t, "objSync")
        /\ objC' = [objC EXCEPT ![blk[t]][1] = val[t]]
        /\ UNCHANGED <<objMedia, mapMedia, dirty, after, blk>>
     \/ /\ pc[t] = "objSync" /\ Goto(t, "exit")
        /\ objMedia' = objC /\ mapMedia' = mapC
        /\ dirty' = TRUE /\ after' = [after EXCEPT ![t] = "written"]
        /\ blk' = [blk EXCEPT ![t] = 0]
        /\ UNCHANGED objC
  /\ UNCHANGED <<priv, privMedia, mapC, map, inited, mutex, op, item, val, env,
                 res, bounds, hist>>
-----------------------------------------------------------------------------
(* The library's two calls.                                                *)

\* Callers do not write one item from two threads at a time.
StartWrite(t, n, v) ==
  /\ pc[t] = "idle" /\ ops < MaxOps /\ ops' = ops + 1
  /\ \A u \in Threads : ~(pc[u] # "idle" /\ op[u] = "write" /\ item[u] = n)
  /\ op' = [op EXCEPT ![t] = "write"] /\ item' = [item EXCEPT ![t] = n]
  /\ val' = [val EXCEPT ![t] = v] /\ Goto(t, "envRead")
  /\ allowed' = [allowed EXCEPT ![n] = @ \cup {v}]
  /\ may' = [u \in Threads |-> IF op[u] = "read" /\ item[u] = n
                               THEN may[u] \cup {v} ELSE may[u]]
  /\ UNCHANGED <<disk, memory, env, blk, after, res, crashes, faults, raced,
                 bothCut, skipped>>

StartRead(t, n) ==
  /\ pc[t] = "idle" /\ ops < MaxOps /\ ops' = ops + 1
  /\ op' = [op EXCEPT ![t] = "read"] /\ item' = [item EXCEPT ![t] = n]
  /\ Goto(t, IF Supported THEN "support" ELSE "private")
  /\ may' = [may EXCEPT ![t] = allowed[n]]
  /\ UNCHANGED <<disk, memory, val, env, blk, after, res, crashes, faults,
                 allowed, raced, bothCut, skipped>>

\* private_data_read, from the label Next on.
PrivateRead(t) ==
  /\ pc[t] = "private" /\ Goto(t, "done")
  /\ res' = [res EXCEPT ![t] = check_env_parameter(priv, item[t])]
  /\ UNCHANGED <<disk, memory, op, item, val, env, blk, after, bounds, hist>>

\* The call returns.  A write that succeeded is what reads must return now.
Return(t) ==
  /\ pc[t] \in {"written", "failed", "done"} /\ Goto(t, "idle")
  /\ allowed' = IF pc[t] = "written"
                THEN [allowed EXCEPT ![item[t]] = {val[t]}] ELSE allowed
  /\ op' = [op EXCEPT ![t] = "none"] /\ val' = [val EXCEPT ![t] = None]
  /\ res' = [res EXCEPT ![t] = None] /\ may' = [may EXCEPT ![t] = {}]
  /\ UNCHANGED <<disk, memory, item, env, blk, after, bounds, raced, bothCut,
                 skipped>>
-----------------------------------------------------------------------------
(* Power loss.                                                             *)

\* What a block may hold after the crash, by what was synced and written.
MapAfterCrash(media, cache) ==
  IF media = cache THEN {media}
  ELSE {media, cache, MapBlock("torn", <<>>)}
         \cup (IF media.st = "nomagic" THEN {MapBlock("nomagic", cache.m)} ELSE {})

\* The private partition has no checksum: an entry may be cut, or counted
\* without having been written.
PrivAfterCrash ==
  {privMedia, priv}
    \cup (IF Len(priv) > Len(privMedia) THEN {Append(privMedia, <<Junk, Torn>>)} ELSE {})
    \cup {modify_env_parameter(priv, item[t], Torn) :
            t \in {u \in Threads : pc[u] = "envSync"}}

Crash ==
  /\ crashes < MaxCrashes /\ crashes' = crashes + 1
  /\ \E p \in PrivAfterCrash : priv' = p /\ privMedia' = p
  /\ \E m0 \in MapAfterCrash(mapMedia[0], mapC[0]) :
     \E m1 \in MapAfterCrash(mapMedia[1], mapC[1]) :
       mapC' = [c \in Copies |-> IF c = 0 THEN m0 ELSE m1]
  /\ mapMedia' = mapC'
  /\ \E d \in [{b \in Items \X Copies : objC[b[1]][b[2]] # objMedia[b[1]][b[2]]}
                 -> {"old", "new", "torn"}] :
       objC' = [i \in Items |-> [c \in Copies |->
                  CASE <<i, c>> \notin DOMAIN d -> objC[i][c]
                    [] <<i, c>> \in DOMAIN d /\ d[<<i, c>>] = "old" -> objMedia[i][c]
                    [] <<i, c>> \in DOMAIN d /\ d[<<i, c>>] = "new" -> objC[i][c]
                    [] <<i, c>> \in DOMAIN d /\ d[<<i, c>>] = "torn" -> Torn]]
  /\ objMedia' = objC'
  /\ map' = <<>> /\ inited' = FALSE /\ dirty' = FALSE /\ mutex' = None
  /\ pc' = [t \in Threads |-> "idle"] /\ op' = [t \in Threads |-> "none"]
  /\ val' = [t \in Threads |-> None] /\ res' = [t \in Threads |-> None]
  /\ env' = [t \in Threads |-> <<>>] /\ blk' = [t \in Threads |-> 0]
  /\ after' = [t \in Threads |-> "idle"] /\ may' = [t \in Threads |-> {}]
  /\ bothCut' = (bothCut \/ \E t, u \in Threads : pc[t] = "envSync" /\ pc[u] = "mapSync")
  /\ UNCHANGED <<item, ops, faults, allowed, raced, skipped>>
-----------------------------------------------------------------------------
Step(t) ==
  \/ env_read(t) \/ env_write(t) \/ EnvSync(t)
  \/ sunxi_secure_storage_init(t) \/ sunxi_secure_storage_exit(t) \/ MapWrite(t)
  \/ ObjectRead(t) \/ ObjectFill(t) \/ ObjectWrite(t)
  \/ PrivateRead(t) \/ Return(t)

Fault(t) == InitFails(t) \/ MapFails(t) \/ ObjectFails(t) \/ PrivateFails(t)

Call(t) ==
  \E n \in Names : StartRead(t, n) \/ \E v \in Values : StartWrite(t, n, v)

Next == (\E t \in Threads : Step(t) \/ Fault(t) \/ Call(t)) \/ Crash

Spec == Init /\ [][Next]_vars
-----------------------------------------------------------------------------
Entries == Names \cup {Junk}
Blocks == Values \cup {Torn}
MapBlocks == [st : {"good", "torn", "nomagic"}, m : Seq(Entries)]

\* Type invariant.
TypeOK ==
  /\ priv \in Seq(Entries \X Blocks) /\ privMedia \in Seq(Entries \X Blocks)
  /\ mapC \in [Copies -> MapBlocks] /\ mapMedia \in [Copies -> MapBlocks]
  /\ objC \in [Items -> [Copies -> Blocks]] /\ objMedia \in [Items -> [Copies -> Blocks]]
  /\ map \in Seq(Entries) /\ Len(map) <= MaxItem
  /\ inited \in BOOLEAN /\ dirty \in BOOLEAN /\ mutex \in Threads \cup {None}
  /\ blk \in [Threads -> 0 .. MaxItem]
  /\ raced \in BOOLEAN /\ bothCut \in BOOLEAN /\ skipped \in BOOLEAN

\* A thread that is inside the secure storage holds sec_mutex, and a thread
\* that has left it, on whatever path, does not: sunxi_secure_storage_init
\* locks, sunxi_secure_storage_exit unlocks, and every return in between is
\* followed by an exit.
InSecure == {"exit", "map0", "map1", "mapSync", "object", "obj0", "obj1", "objSync"}
OneInside == \A t \in Threads : pc[t] \in InSecure <=> mutex = t

\* With at most one power loss and one failing block operation, private_data_read
\* returns what the last successful private_data_write of the item stored, or
\* the value of a write that failed, was cut off by the power loss or is still
\* running: an item never disappears, and a read never returns an older value
\* or another item's.  A torn value is read only from the private partition,
\* which has no checksum: for an item whose first write was cut off, when the
\* secure storage failed too, or when the power failed while one thread was
\* syncing its private entry and another one the map.  Not covered are the two
\* ways the stores come apart: a write that skipped the secure storage, and
\* threads that overwrote each other's private partition, once a failure makes
\* it the only source.
ReadsCommitted ==
  /\ crashes <= 1 /\ faults <= 1
  /\ ~skipped /\ (raced => crashes = 0 /\ faults = 0)
  => \A t \in Threads : pc[t] = "done" =>
       \/ res[t] \in may[t]
       \/ res[t] = Torn /\ (None \in may[t] \/ faults > 0 \/ bothCut)

Idle == \A t \in Threads : pc[t] = "idle"

\* What a read of n would find in the secure storage now.
SecureValues(n) ==
  {sd_read_key(i) : i \in {j \in Items : \E m \in sd_read_map(mapC[0], mapC[1]) :
                                           j <= Len(m) /\ m[j] = n}}

\* private_data_write writes "the key data to secure storage and private
\* partition" (api.h:5): when it has returned 0, both have it.
SavedInBoth ==
  Idle /\ crashes = 0 => \A n \in Names : \A v \in Values :
    allowed[n] = {v} => check_env_parameter(priv, n) = v /\ SecureValues(n) = {v}

\* private_data_read is documented to "read private area firstly. If the
\* private area read fail, then try the secure storage" (api.c:59).
ReadsPrivateFirst ==
  \A t \in Threads :
    pc[t] = "done" /\ ~raced /\ check_env_parameter(priv, item[t]) \in Values
      => res[t] = check_env_parameter(priv, item[t])
=============================================================================
