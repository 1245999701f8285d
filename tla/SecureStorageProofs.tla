------------------------- MODULE SecureStorageProofs -------------------------
(***************************************************************************)
(* For every set of threads, items and values and every bound: sec_mutex   *)
(* is held exactly by the thread that is inside the secure storage, the    *)
(* state keeps its types, and a read returns a value it is allowed to.     *)
(***************************************************************************)
EXTENDS SecureStorage, FiniteSetTheorems, TLAPS

\* Where sunxi_secure_storage_exit may return to; "idle" outside.
Returns == {"init", "written", "failed", "done", "private"}

\* Program points at which an exit is ahead whose result is decided.
Leaving == {"exit", "map0", "map1", "mapSync"}

Outside == {"idle", "envRead", "envWrite", "envSync", "support", "init",
            "private", "written", "failed", "done"}

\* The inductive invariant: the return of an exit is decided before the exit is
\* entered, and it leads out of the secure storage.
ExitInv ==
  /\ pc \in [Threads -> InSecure \cup Outside]
  /\ after \in [Threads -> Returns \cup {"idle"}]
  /\ op \in [Threads -> {"none", "read", "write"}]
  /\ \A t \in Threads : pc[t] \in Leaving => after[t] \in Returns
  /\ \A t \in Threads : pc[t] \notin {"idle"} => op[t] \in {"read", "write"}
  /\ mutex \in Threads \cup {None}

MutexInv == ExitInv /\ OneInside

\* Nobody is inside initially.
LEMMA MutexInit == Init => MutexInv
  BY StorageAssumption DEF Init, MutexInv, ExitInv, OneInside, InSecure, Outside, Leaving, Returns

\* The steps of a thread that change neither the mutex nor where an exit returns.
LEMMA OutsideSteps ==
  ASSUME MutexInv, NEW t \in Threads,
         \/ env_read(t) \/ env_write(t) \/ EnvSync(t) \/ PrivateRead(t) \/ Return(t) \/ PrivateFails(t)
         \/ Call(t) \/ InitFails(t)
  PROVE  MutexInv'
  <1> USE StorageAssumption DEF MutexInv, ExitInv, OneInside, InSecure, Outside, Leaving, Returns, Goto
  <1>1. CASE env_read(t) BY <1>1 DEF env_read, memory
  <1>2. CASE env_write(t) BY <1>2 DEF env_write, memory, locals
  <1>3. CASE EnvSync(t) BY <1>3 DEF EnvSync, memory
  <1>4. CASE PrivateRead(t) BY <1>4 DEF PrivateRead, memory
  <1>5. CASE Return(t) BY <1>5 DEF Return, memory
  <1>6. CASE Call(t) BY <1>6 DEF Call, StartRead, StartWrite, memory
  <1>7. CASE InitFails(t) BY <1>7 DEF InitFails, memory, locals
  <1>8. CASE PrivateFails(t) BY <1>8 DEF PrivateFails, memory, locals
  <1> QED BY <1>1, <1>2, <1>3, <1>4, <1>5, <1>6, <1>7, <1>8

\* The steps from sunxi_secure_storage_init to sunxi_secure_storage_exit.
LEMMA InsideSteps ==
  ASSUME MutexInv, NEW t \in Threads,
         \/ sunxi_secure_storage_init(t) \/ sunxi_secure_storage_exit(t) \/ MapWrite(t)
         \/ MapFails(t) \/ ObjectRead(t) \/ ObjectFill(t) \/ ObjectWrite(t) \/ ObjectFails(t)
  PROVE  MutexInv'
  <1> USE StorageAssumption DEF MutexInv, ExitInv, OneInside, InSecure, Outside, Leaving, Returns, Goto
  <1>1. CASE sunxi_secure_storage_init(t) BY <1>1 DEF sunxi_secure_storage_init
  <1>2. CASE sunxi_secure_storage_exit(t) BY <1>2 DEF sunxi_secure_storage_exit
  <1>3. CASE MapWrite(t) BY <1>3 DEF MapWrite, memory
  <1>4. CASE MapFails(t) BY <1>4 DEF MapFails, AfterFailedExit
  <1>5. CASE ObjectRead(t) BY <1>5 DEF ObjectRead, memory
  <1>6. CASE ObjectFill(t) BY <1>6 DEF ObjectFill
  <1>7. CASE ObjectWrite(t) BY <1>7 DEF ObjectWrite
  <1>8. CASE ObjectFails(t) BY <1>8 DEF ObjectFails, memory
  <1> QED BY <1>1, <1>2, <1>3, <1>4, <1>5, <1>6, <1>7, <1>8

\* sec_mutex is locked exactly while a thread is between
\* sunxi_secure_storage_init and sunxi_secure_storage_exit: no error path keeps
\* it, no path releases it twice, and no two threads are inside at once.
THEOREM StorageMutex == Spec => []OneInside
  <1>1. MutexInv /\ [Next]_vars => MutexInv'
    <2> SUFFICES ASSUME MutexInv, [Next]_vars PROVE MutexInv' OBVIOUS
    <2>1. CASE UNCHANGED vars
      BY <2>1 DEF vars, memory, locals, MutexInv, ExitInv, OneInside
    <2>2. CASE Crash
      BY <2>2, StorageAssumption
         DEF Crash, MutexInv, ExitInv, OneInside, InSecure, Outside, Leaving, Returns
    <2>3. ASSUME NEW t \in Threads, Step(t) \/ Fault(t) \/ Call(t) PROVE MutexInv'
      BY <2>3, OutsideSteps, InsideSteps DEF Step, Fault
    <2> QED BY <2>1, <2>2, <2>3 DEF Next
  <1> QED BY <1>1, MutexInit, PTL DEF Spec, MutexInv

-----------------------------------------------------------------------------
(***************************************************************************)
(* What a read returns.  The invariant has a part that always holds (types,*)
(* the control of the calls, the cached map, the tables) and a part that   *)
(* holds as long as the failures are those ReadsCommitted is about (Live). *)
(***************************************************************************)

Live ==
  /\ crashes <= 1 /\ faults <= 1
  /\ ~skipped /\ (raced => crashes = 0 /\ faults = 0)

\* Types of every variable; no copy of the map has more entries than there are
\* object blocks.
TypesInv ==
  /\ TypeOK
  /\ \A c \in Copies : Len(mapC[c].m) <= MaxItem /\ Len(mapMedia[c].m) <= MaxItem
  /\ item \in [Threads -> Names \cup {CHOOSE n \in Names : TRUE}]
  /\ val \in [Threads -> Values \cup {None}]
  /\ res \in [Threads -> Blocks \cup {None}]
  /\ env \in [Threads -> Seq(Entries \X Blocks)]
  /\ ops \in Nat /\ crashes \in Nat /\ faults \in Nat
  /\ allowed \in [Names -> SUBSET (Values \cup {None})]
  /\ may \in [Threads -> SUBSET (Values \cup {None})]

Saving == {"obj0", "obj1", "objSync"}

WritePoints == {"envRead", "envWrite", "envSync", "support", "init", "object",
                "written", "failed"} \cup Saving \cup Leaving

ReadPoints == {"support", "init", "object", "private", "done", "failed"} \cup Leaving

\* A call is a write or a read, at a point of its own path; the value of a
\* running write may be read, and a running read may return what is allowed now.
CallInv ==
  /\ \A t \in Threads : pc[t] = "idle" <=> op[t] = "none"
  /\ \A t \in Threads : pc[t] \notin Leaving => after[t] = "idle"
  /\ \A t \in Threads : op[t] = "write" =>
       /\ pc[t] \in WritePoints /\ item[t] \in Names
       /\ after[t] \in {"idle", "init", "written", "failed"}
       /\ val[t] \in Values /\ val[t] \in allowed[item[t]]
  /\ \A t \in Threads : op[t] = "read" =>
       /\ pc[t] \in ReadPoints /\ item[t] \in Names
       /\ after[t] \in {"idle", "init", "done", "private"}
       /\ allowed[item[t]] \subseteq may[t]
  /\ \A t, u \in Threads :
       op[t] = "write" /\ op[u] = "write" /\ item[t] = item[u] => t = u

\* The entry of map m for item n is block i.
At(m, i, n) == i \in 1 .. Len(m) /\ m[i] = n

AllGood == \A c \in Copies : mapC[c].st = "good" /\ mapMedia[c].st = "good"

\* Copies of the map that differ, or differ from what is synced, are those of a
\* map that is dirty.
SameCopies ==
  /\ mapC[0] = mapC[1] /\ mapMedia[0] = mapC[0] /\ mapMedia[1] = mapC[0]
  /\ mapC[0].st # "torn"

\* The cached map is dropped with the mutex unless its write failed; the copies
\* that the exit has written are the cached map; a block that is not synced is
\* being written.
CacheInv ==
  /\ ~inited => map = <<>> /\ ~dirty /\ mutex = None
  /\ inited /\ mutex = None => dirty
  /\ \A t \in Threads : pc[t] \in {"map0", "map1", "mapSync"} => dirty
  /\ \A t \in Threads : after[t] = "written" => dirty
  /\ \A t \in Threads : pc[t] \in {"map1", "mapSync"} => mapC[0] = MapBlock("good", map)
  /\ \A t \in Threads : pc[t] = "mapSync" => mapC[1] = MapBlock("good", map)
  /\ \A t \in Threads : pc[t] \in Saving => At(map, blk[t], item[t])
  /\ \A t \in Threads : pc[t] \in {"obj1", "objSync"} => objC[blk[t]][0] = val[t]
  /\ \A t \in Threads : pc[t] = "objSync" => objC[blk[t]][1] = val[t]
  /\ (\A t \in Threads : pc[t] # "mapSync") => mapC[1] = mapMedia[1]
  /\ faults = 0 => \A i \in Items : \A c \in Copies :
       objC[i][c] # objMedia[i][c] => \E t \in Threads : pc[t] \in Saving /\ blk[t] = i
  /\ faults = 0 /\ dirty => \E t \in Threads : after[t] = "written"
  /\ crashes = 0 /\ ~dirty => SameCopies
  /\ bothCut => crashes > 0

\* Tables of the private partition: at most one entry per item.
Tables ==
  {p \in Seq(Entries \X Blocks) :
     \A i, j \in 1 .. Len(p) : p[i][1] = p[j][1] => i = j}

\* Tables that no power loss has damaged.
WholeTables == {p \in Tables : \A i \in 1 .. Len(p) : p[i][1] \in Names /\ p[i][2] \in Values}

TableInv ==
  /\ crashes <= 1 =>
       priv \in Tables /\ privMedia \in Tables /\ \A t \in Threads : env[t] \in Tables
  /\ crashes = 0 =>
       /\ priv \in WholeTables /\ privMedia \in WholeTables
       /\ \A t \in Threads : env[t] \in WholeTables

\* The maps a call may find when the cached one is dropped, and as long as the
\* power has not failed, the ones that a power loss may leave.
DiskMaps ==
  sd_read_map(mapC[0], mapC[1])
    \cup (IF crashes = 0 THEN {mapC[0].m, mapC[1].m, mapMedia[0].m, mapMedia[1].m}
                         ELSE {})

NamesOnce(m) ==
  \A i, j \in 1 .. Len(m) : m[i] = m[j] /\ m[i] \in Names => i = j

NamePrefix(m, l) ==
  \A i \in 1 .. Len(m) : m[i] \in Names => i <= Len(l) /\ l[i] = m[i]

\* Block i holds nothing but values that a read of n may return.
Owned(i, n) ==
  \A c \in Copies : /\ objC[i][c] \in allowed[n] \cup {Torn}
                    /\ objMedia[i][c] \in allowed[n] \cup {Torn}

\* The block of n in map m holds v, synced.
Holds(m, n, v) ==
  \E i \in 1 .. Len(m) :
    m[i] = n /\ \A c \in Copies : objC[i][c] = v /\ objMedia[i][c] = v

\* A read that uses map m finds a value of n.
Readable(m, n) == \E i \in 1 .. Len(m) : m[i] = n /\ sd_read_key(i) # Torn

SecureHas(n) ==
  /\ \A m \in DiskMaps : Readable(m, n)
  /\ inited => Readable(map, n)

Committed(n) == None \notin allowed[n]

\* The call that appended to the map has failed and the map is being dropped.
Dropping(t) == pc[t] = "exit" /\ after[t] = "failed" /\ ~dirty

\* Names keep their blocks, and a block that is in a map belongs to its name.
MapInv ==
  /\ \A m \in DiskMaps : NamesOnce(m)
  /\ inited => NamesOnce(map) /\ \A m \in DiskMaps : NamePrefix(m, map)

OwnInv ==
  /\ \A m \in DiskMaps : \A i \in Items : \A n \in Names : At(m, i, n) => Owned(i, n)
  /\ (\A t \in Threads : ~Dropping(t)) =>
       \A i \in Items : \A n \in Names : At(map, i, n) =>
         Owned(i, n) \/ \E t \in Threads : pc[t] \in Saving /\ blk[t] = i

\* From the sync of the object on, a write has its value in the secure storage,
\* and once it has returned successfully the map of every copy names it.
SavedInv ==
  /\ \A t \in Threads : after[t] = "written" => Holds(map, item[t], val[t])
  /\ \A t \in Threads : pc[t] = "written" =>
       /\ \A m \in DiskMaps : Holds(m, item[t], val[t])
       /\ inited => Holds(map, item[t], val[t])
       /\ crashes = 0 => AllGood
  /\ crashes = 0 => \A n \in Names : Committed(n) =>
       /\ AllGood
       /\ \A m \in DiskMaps : \E i \in 1 .. Len(m) : m[i] = n
  /\ faults = 0 /\ ~bothCut => \A n \in Names :
       Committed(n) /\ (crashes = 0 \/ check_env_parameter(priv, n) = Torn) => SecureHas(n)

Synced == {"support", "init", "object", "written"} \cup Saving \cup Leaving

\* The private partition: what is allowed or torn for an item that no write has
\* stored yet, whoever overwrote whom; for every item without overwriting.
PrivInv ==
  /\ \A n \in Names : None \in allowed[n] =>
       /\ check_env_parameter(priv, n) \in allowed[n] \cup {Torn}
       /\ check_env_parameter(privMedia, n) \in allowed[n] \cup {Torn}
       /\ \A t \in Threads : check_env_parameter(env[t], n) \in allowed[n] \cup {Torn}
  /\ ~raced => \A n \in Names :
       /\ check_env_parameter(priv, n) \in allowed[n] \cup {Torn}
       /\ check_env_parameter(privMedia, n) \in allowed[n] \cup {Torn}
  /\ ~raced => \A t \in Threads : op[t] = "write" =>
       /\ pc[t] \in Synced \cup {"envSync"} => check_env_parameter(priv, item[t]) = val[t]
       /\ pc[t] \in Synced => check_env_parameter(privMedia, item[t]) = val[t]

\* A read that turns to the private partition because the secure storage does
\* not have the item.
Turned(t) == pc[t] = "private" \/ after[t] = "private"

ReadInv ==
  /\ \A t \in Threads : after[t] = "done" => res[t] \in may[t]
  /\ faults = 0 /\ crashes = 0 => \A t \in Threads : Turned(t) =>
       /\ None \in may[t] /\ check_env_parameter(priv, item[t]) \in may[t]
       /\ \A u \in Threads :
            /\ check_env_parameter(env[u], item[t]) \in may[t]
            /\ op[u] = "write" /\ item[u] = item[t] => val[u] \in may[t]
  /\ faults = 0 /\ ~bothCut => \A t \in Threads :
       Turned(t) /\ check_env_parameter(priv, item[t]) = Torn => None \in may[t]
  /\ \A t \in Threads : pc[t] = "done" =>
       \/ res[t] \in may[t]
       \/ res[t] = Torn /\ (None \in may[t] \/ faults > 0 \/ bothCut)

LiveInv == MapInv /\ OwnInv /\ SavedInv /\ PrivInv /\ ReadInv

\* The inductive invariant of ReadsCommitted.
StoreInv ==
  /\ MutexInv /\ TypesInv /\ CallInv /\ CacheInv /\ TableInv
  /\ Live => LiveInv

-----------------------------------------------------------------------------
(* The tables of the private partition.                                    *)

\* Every item has room in the private table, with an entry that a power loss
\* left (USER_DATA_PARAMETER_MAX_COUNT is 30).
ItemsFit == IsFiniteSet(Names) /\ Cardinality(Names) < PrivMax

\* The names and the entry that is no item fit into the private table.
LEMMA EntriesFit ==
  ASSUME ItemsFit
  PROVE  IsFiniteSet(Entries) /\ Cardinality(Entries) <= PrivMax /\ Cardinality(Entries) \in Nat
  <1>1. Cardinality(Names) \in Nat BY FS_CardinalityType DEF ItemsFit
  <1>2. IsFiniteSet(Names \cup {Junk}) /\ Cardinality(Names \cup {Junk}) = Cardinality(Names) + 1
    BY StorageAssumption, FS_AddElement DEF ItemsFit
  <1> QED BY <1>1, <1>2, StorageAssumption DEF ItemsFit, Entries

\* No table has more than PrivMax entries: the loops see all of them.
LEMMA TableLen ==
  ASSUME ItemsFit, NEW p \in Tables
  PROVE  Len(p) \in Nat /\ Len(p) <= PrivMax
  <1> DEFINE f == [i \in 1 .. Len(p) |-> p[i][1]]
  <1>1. IsFiniteSet(Entries) /\ Cardinality(Entries) <= PrivMax /\ Cardinality(Entries) \in Nat
    BY EntriesFit
  <1>3. f \in Injection(1 .. Len(p), Entries)
    <2>1. f \in [1 .. Len(p) -> Entries] BY DEF Tables
    <2>2. \A a, b \in 1 .. Len(p) : f[a] = f[b] => a = b BY DEF Tables
    <2> HIDE DEF f
    <2> QED BY <2>1, <2>2, Zenon DEF Injection, IsInjective
  <1>4. Cardinality(1 .. Len(p)) <= Cardinality(Entries)
    BY <1>1, <1>3, FS_Injection
  <1>5. Len(p) \in Nat BY DEF Tables
  <1>6. Cardinality(1 .. Len(p)) = Len(p)
    <2>1. 1 \in Int /\ Len(p) \in Int BY <1>5
    <2> QED BY <1>5, <2>1, FS_Interval
  <1> QED BY <1>1, <1>4, <1>5, <1>6, StorageAssumption

\* check_env_parameter finds the entry of an item, and None without one.
LEMMA CheckEntry ==
  ASSUME ItemsFit, NEW p \in Tables, NEW i \in 1 .. Len(p)
  PROVE  EnvIndex(p, p[i][1]) = {i} /\ check_env_parameter(p, p[i][1]) = p[i][2]
  <1>1. Len(p) \in Nat /\ Len(p) <= PrivMax BY TableLen
  <1>2. EnvIndex(p, p[i][1]) = {i}
    BY <1>1, StorageAssumption DEF EnvIndex, MinOf, Tables
  <1> QED BY <1>2 DEF check_env_parameter

\* Without an entry of the item check_env_parameter finds nothing.
LEMMA CheckMissing ==
  ASSUME ItemsFit, NEW p \in Tables, NEW n, \A i \in 1 .. Len(p) : p[i][1] # n
  PROVE  EnvIndex(p, n) = {} /\ check_env_parameter(p, n) = None
  <1>1. Len(p) \in Nat /\ Len(p) <= PrivMax BY TableLen
  <1>2. EnvIndex(p, n) = {} BY <1>1, StorageAssumption DEF EnvIndex, MinOf
  <1> QED BY <1>2 DEF check_env_parameter

\* check_env_parameter yields the content of an entry, or None.
LEMMA CheckType ==
  ASSUME ItemsFit, NEW p \in Tables, NEW n
  PROVE  check_env_parameter(p, n) \in Blocks \cup {None}
  <1>1. CASE \A i \in 1 .. Len(p) : p[i][1] # n BY <1>1, CheckMissing
  <1>2. ASSUME NEW i \in 1 .. Len(p), p[i][1] = n PROVE check_env_parameter(p, n) \in Blocks
    BY <1>2, CheckEntry DEF Tables
  <1> QED BY <1>1, <1>2

\* In a table that no power loss has damaged no entry is torn.
LEMMA CheckWhole ==
  ASSUME ItemsFit, NEW p \in WholeTables, NEW n
  PROVE  check_env_parameter(p, n) # Torn
  <1>1. CASE \A i \in 1 .. Len(p) : p[i][1] # n
    BY <1>1, CheckMissing, StorageAssumption DEF WholeTables
  <1>2. ASSUME NEW i \in 1 .. Len(p), p[i][1] = n PROVE check_env_parameter(p, n) # Torn
    BY <1>2, CheckEntry, StorageAssumption DEF WholeTables
  <1> QED BY <1>1, <1>2

\* Appending an entry of a new name.
LEMMA AppendTable ==
  ASSUME ItemsFit, NEW p \in Tables, NEW n \in Entries, NEW v \in Blocks,
         \A i \in 1 .. Len(p) : p[i][1] # n
  PROVE  /\ Append(p, <<n, v>>) \in Tables
         /\ check_env_parameter(Append(p, <<n, v>>), n) = v
         /\ \A k : k # n => check_env_parameter(Append(p, <<n, v>>), k) = check_env_parameter(p, k)
  <1> DEFINE q == Append(p, <<n, v>>)
  <1>1. q \in Seq(Entries \X Blocks) /\ Len(p) \in Nat /\ Len(q) = Len(p) + 1
        /\ q[Len(q)] = <<n, v>> /\ \A i \in 1 .. Len(p) : q[i] = p[i]
    BY DEF Tables
  <1> HIDE DEF q
  <1>2. q \in Tables
    <2> SUFFICES ASSUME NEW i \in 1 .. Len(q), NEW j \in 1 .. Len(q), q[i][1] = q[j][1]
                 PROVE  i = j
      BY <1>1 DEF Tables
    <2>1. q[Len(q)][1] = n BY <1>1
    <2> QED BY <1>1, <2>1 DEF Tables
  <1>3. check_env_parameter(q, n) = v
    <2>1. Len(q) \in 1 .. Len(q) /\ q[Len(q)][1] = n /\ q[Len(q)][2] = v BY <1>1
    <2> QED BY <1>2, <2>1, CheckEntry
  <1>4. ASSUME NEW k, k # n PROVE check_env_parameter(q, k) = check_env_parameter(p, k)
    <2>1. CASE \A i \in 1 .. Len(p) : p[i][1] # k
      <3>1. \A i \in 1 .. Len(q) : q[i][1] # k BY <1>1, <1>4, <2>1
      <3> QED BY <2>1, <3>1, <1>2, CheckMissing
    <2>2. ASSUME NEW i \in 1 .. Len(p), p[i][1] = k
          PROVE check_env_parameter(q, k) = check_env_parameter(p, k)
      <3>1. i \in 1 .. Len(q) /\ q[i] = p[i] BY <1>1
      <3> QED BY <2>2, <3>1, <1>2, CheckEntry
    <2> QED BY <2>1, <2>2
  <1> QED BY <1>2, <1>3, <1>4 DEF q

\* modify_env_parameter stores v for n and changes no other item.
LEMMA ModifyTable ==
  ASSUME ItemsFit, NEW p \in Tables, NEW n \in Entries, NEW v \in Blocks
  PROVE  /\ modify_env_parameter(p, n, v) \in Tables
         /\ check_env_parameter(modify_env_parameter(p, n, v), n) = v
         /\ \A k : k # n =>
              check_env_parameter(modify_env_parameter(p, n, v), k) = check_env_parameter(p, k)
  <1>0. Len(p) \in Nat /\ Len(p) <= PrivMax /\ PrivMax \in Nat
    BY TableLen, StorageAssumption
  <1>1. CASE \A i \in 1 .. Len(p) : p[i][1] # n
    <2>1. modify_env_parameter(p, n, v) = Append(p, <<n, v>>)
      BY <1>0, <1>1, CheckMissing DEF modify_env_parameter
    <2> QED BY <1>1, <2>1, AppendTable
  <1>2. ASSUME NEW i \in 1 .. Len(p), p[i][1] = n
        PROVE  /\ modify_env_parameter(p, n, v) \in Tables
               /\ check_env_parameter(modify_env_parameter(p, n, v), n) = v
               /\ \A k : k # n =>
                    check_env_parameter(modify_env_parameter(p, n, v), k)
                      = check_env_parameter(p, k)
    <2> DEFINE q == [p EXCEPT ![i] = <<n, v>>]
    <2>1. modify_env_parameter(p, n, v) = q
      <3>1. EnvIndex(p, n) = {i} BY <1>2, CheckEntry
      <3> QED BY <3>1 DEF modify_env_parameter
    <2>2. q \in Seq(Entries \X Blocks) /\ Len(q) = Len(p) /\ q[i] = <<n, v>>
          /\ \A j \in 1 .. Len(p) : j # i => q[j] = p[j]
      BY DEF Tables
    <2> HIDE DEF q
    <2>3. \A j \in 1 .. Len(p) : q[j][1] = p[j][1] BY <1>2, <2>2
    <2>4. q \in Tables BY <2>2, <2>3 DEF Tables
    <2>5. check_env_parameter(q, n) = v
      <3>1. q[i][1] = n /\ q[i][2] = v /\ i \in 1 .. Len(q) BY <2>2
      <3> QED BY <3>1, <2>4, CheckEntry
    <2>6. ASSUME NEW k, k # n PROVE check_env_parameter(q, k) = check_env_parameter(p, k)
      <3>1. CASE \A j \in 1 .. Len(p) : p[j][1] # k
        <4>1. \A j \in 1 .. Len(q) : q[j][1] # k BY <2>2, <2>3, <3>1
        <4> QED BY <3>1, <4>1, <2>4, CheckMissing
      <3>2. ASSUME NEW j \in 1 .. Len(p), p[j][1] = k
            PROVE check_env_parameter(q, k) = check_env_parameter(p, k)
        <4>1. j \in 1 .. Len(q) /\ q[j] = p[j] BY <1>2, <2>2, <2>6, <3>2
        <4> QED BY <3>2, <4>1, <2>4, CheckEntry
      <3> QED BY <3>1, <3>2
    <2> QED BY <2>1, <2>4, <2>5, <2>6
  <1> QED BY <1>1, <1>2

\* An undamaged table stays undamaged.
LEMMA ModifyWhole ==
  ASSUME ItemsFit, NEW p \in WholeTables, NEW n \in Names, NEW v \in Values
  PROVE  modify_env_parameter(p, n, v) \in WholeTables
  <1>0. Len(p) \in Nat /\ Len(p) <= PrivMax /\ PrivMax \in Nat /\ p \in Tables
    BY TableLen, StorageAssumption DEF WholeTables
  <1>1. modify_env_parameter(p, n, v) \in Tables
    BY <1>0, ModifyTable DEF Entries, Blocks
  <1>2. CASE \A i \in 1 .. Len(p) : p[i][1] # n
    <2>1. modify_env_parameter(p, n, v) = Append(p, <<n, v>>)
      BY <1>0, <1>2, CheckMissing DEF modify_env_parameter
    <2>2. p \in Seq(Entries \X Blocks) BY <1>0 DEF Tables
    <2> DEFINE q == Append(p, <<n, v>>)
    <2>3. Len(q) = Len(p) + 1 /\ q[Len(q)] = <<n, v>> /\ \A i \in 1 .. Len(p) : q[i] = p[i]
      BY <2>2
    <2> HIDE DEF q
    <2>4. q[Len(q)][1] = n /\ q[Len(q)][2] = v BY <2>3
    <2>5. \A i \in 1 .. Len(q) : q[i][1] \in Names /\ q[i][2] \in Values
      BY <1>0, <2>3, <2>4 DEF WholeTables
    <2> QED BY <1>1, <2>1, <2>5 DEF WholeTables, q
  <1>3. ASSUME NEW i \in 1 .. Len(p), p[i][1] = n
        PROVE  modify_env_parameter(p, n, v) \in WholeTables
    <2>1. modify_env_parameter(p, n, v) = [p EXCEPT ![i] = <<n, v>>]
      <3>1. EnvIndex(p, n) = {i} BY <1>0, <1>3, CheckEntry
      <3> QED BY <3>1 DEF modify_env_parameter
    <2>2. p \in Seq(Entries \X Blocks) BY <1>0 DEF Tables
    <2> QED BY <1>0, <1>1, <2>1, <2>2 DEF WholeTables
  <1> QED BY <1>2, <1>3

-----------------------------------------------------------------------------
(* The map copies.                                                         *)

\* What sd_read_map makes of two copies.
LEMMA ReadMap ==
  ASSUME NEW c0 \in MapBlocks, NEW c1 \in MapBlocks
  PROVE  /\ c0.st = "good" => sd_read_map(c0, c1) = {c0.m}
         /\ c0.st # "good" /\ c1.st = "good" => sd_read_map(c0, c1) = {c1.m}
         /\ c0.st = "nomagic" /\ c1.st = "nomagic" => sd_read_map(c0, c1) = {c0.m}
         /\ sd_read_map(c0, c1) \in SUBSET {c0.m, c1.m, <<>>, <<Junk>>}
         /\ \/ c0.st = "good" \/ c1.st = "good" \/ (c0.st = "nomagic" /\ c1.st = "nomagic")
            \/ sd_read_map(c0, c1) \subseteq {<<>>, <<Junk>>}
         /\ sd_read_map(c0, c1) # {}
  <1>0. c0.st \in {"good", "torn", "nomagic"} /\ c1.st \in {"good", "torn", "nomagic"}
    BY DEF MapBlocks
  <1>1. CASE c0.st = "good" BY <1>1 DEF sd_read_map
  <1>2. CASE c0.st # "good" /\ c1.st = "good" BY <1>2 DEF sd_read_map
  <1>3. CASE c0.st = "nomagic" /\ c1.st = "nomagic" BY <1>3 DEF sd_read_map
  <1>4. CASE c0.st = "torn" /\ c1.st = "nomagic" BY <1>4 DEF sd_read_map
  <1>5. CASE c0.st # "good" /\ c1.st = "torn" BY <1>5 DEF sd_read_map
  <1> QED BY <1>0, <1>1, <1>2, <1>3, <1>4, <1>5

\* The map that sd_read_map yields is one of entries, and not too long.
LEMMA ReadMapType ==
  ASSUME NEW c0 \in MapBlocks, NEW c1 \in MapBlocks, Len(c0.m) <= MaxItem, Len(c1.m) <= MaxItem,
         NEW m \in sd_read_map(c0, c1)
  PROVE  m \in Seq(Entries) /\ Len(m) <= MaxItem
  <1>1. c0.m \in Seq(Entries) /\ c1.m \in Seq(Entries) BY DEF MapBlocks
  <1>2. <<>> \in Seq(Entries) /\ Len(<<>>) = 0 /\ <<Junk>> \in Seq(Entries) /\ Len(<<Junk>>) = 1
    BY DEF Entries
  <1>3. MaxItem \in Nat /\ MaxItem >= 1 BY StorageAssumption
  <1>4. m \in {c0.m, c1.m, <<>>, <<Junk>>} BY ReadMap
  <1>5. CASE m = c0.m BY <1>1, <1>5
  <1>6. CASE m = c1.m BY <1>1, <1>6
  <1>7. CASE m = <<>> BY <1>2, <1>3, <1>7
  <1>8. CASE m = <<Junk>> BY <1>2, <1>3, <1>8
  <1> QED BY <1>4, <1>5, <1>6, <1>7, <1>8

\* modify_env_parameter yields a table, full or not.
LEMMA ModifyType ==
  ASSUME NEW p \in Seq(Entries \X Blocks), NEW n \in Entries, NEW v \in Blocks
  PROVE  modify_env_parameter(p, n, v) \in Seq(Entries \X Blocks)
  <1>1. CASE EnvIndex(p, n) = {} BY <1>1 DEF modify_env_parameter
  <1>2. CASE EnvIndex(p, n) # {}
    <2>1. (CHOOSE i \in EnvIndex(p, n) : TRUE) \in EnvIndex(p, n) BY <1>2
    <2> DEFINE i == CHOOSE i \in EnvIndex(p, n) : TRUE
    <2>2. i \in 1 .. Len(p) BY <2>1, StorageAssumption DEF EnvIndex, MinOf
    <2>3. modify_env_parameter(p, n, v) = [p EXCEPT ![i] = <<n, v>>]
      BY <1>2 DEF modify_env_parameter
    <2> HIDE DEF i
    <2>4. [p EXCEPT ![i] = <<n, v>>] \in Seq(Entries \X Blocks) BY <2>2
    <2> QED BY <2>3, <2>4
  <1> QED BY <1>1, <1>2

\* The block that __fill_name_in_map gives an item.
LEMMA FillBlock ==
  ASSUME TypesInv, NEW n \in Names
  PROVE  LET i == fill_name_in_map(n) IN
           /\ i \in 1 .. Len(map) + 1
           /\ i <= Len(map) => map[i] = n
           /\ i > Len(map) => \A j \in 1 .. Len(map) : map[j] # n
  <1>0. Len(map) \in Nat BY DEF TypesInv, TypeOK
  <1>1. CASE Matches(n) = {}
    BY <1>0, <1>1 DEF fill_name_in_map, Matches
  <1>2. CASE Matches(n) # {}
    <2>1. (CHOOSE i \in Matches(n) : TRUE) \in Matches(n) BY <1>2
    <2>2. fill_name_in_map(n) \in Matches(n) BY <1>2, <2>1 DEF fill_name_in_map
    <2> QED BY <1>0, <2>2 DEF Matches
  <1> QED BY <1>1, <1>2

\* The pc of a thread tells what its call is.
LEMMA CallOf ==
  ASSUME MutexInv, CallInv, NEW t \in Threads
  PROVE  /\ pc[t] \in Saving \cup {"envRead", "envWrite", "envSync", "written"}
              => op[t] = "write"
         /\ pc[t] \in {"private", "done"} => op[t] = "read"
         /\ pc[t] # "idle" => op[t] \in {"read", "write"} /\ item[t] \in Names
         /\ op[t] = "write" => val[t] \in Values /\ item[t] \in Names
  <1>1. op[t] \in {"none", "read", "write"} BY DEF MutexInv, ExitInv
  <1> QED BY <1>1 DEF CallInv, WritePoints, ReadPoints, Saving, Leaving

-----------------------------------------------------------------------------
(* The parts of the invariant that do not depend on the failures.          *)

\* The erased storage satisfies the invariant.
LEMMA StoreInit == Init => StoreInv
  <1> SUFFICES ASSUME Init PROVE StoreInv OBVIOUS
  <1>1. MutexInv BY MutexInit
  <1>2. BlankMap \in MapBlocks /\ BlankMap.m = <<>> /\ BlankMap.st = "nomagic"
    BY DEF BlankMap, MapBlock, MapBlocks
  <1>3. sd_read_map(BlankMap, BlankMap) = {<<>>} BY <1>2, ReadMap
  <1>4. mapC[0] = BlankMap /\ mapC[1] = BlankMap /\ mapMedia[0] = BlankMap /\ mapMedia[1] = BlankMap
    BY DEF Init, Copies
  <1>5. TypesInv
    <2>1. mapC \in [Copies -> MapBlocks] /\ mapMedia = mapC BY <1>2 DEF Init
    <2>2. \A c \in Copies : Len(mapC[c].m) = 0 BY <1>2 DEF Init
    <2>3. objC \in [Items -> [Copies -> Blocks]] /\ objMedia = objC BY DEF Init, Blocks
    <2>4. blk \in [Threads -> 0 .. MaxItem] /\ MaxItem \in Nat BY StorageAssumption DEF Init
    <2>5. \A c \in Copies : Len(mapC[c].m) <= MaxItem /\ Len(mapMedia[c].m) <= MaxItem
      BY <2>1, <2>2, <2>4
    <2>6. TypeOK
      <3>1. priv \in Seq(Entries \X Blocks) /\ privMedia \in Seq(Entries \X Blocks)
        BY DEF Init
      <3>2. map \in Seq(Entries) /\ Len(map) <= MaxItem BY <2>4 DEF Init
      <3> QED BY <2>1, <2>3, <2>4, <3>1, <3>2 DEF Init, TypeOK
    <2>7. item \in [Threads -> Names \cup {CHOOSE n \in Names : TRUE}] BY DEF Init
    <2> QED BY <2>5, <2>6, <2>7 DEF Init, TypesInv
  <1>6. CallInv BY DEF Init, CallInv
  <1>7. CacheInv
    BY <1>2, <1>4 DEF Init, CacheInv, SameCopies, Saving, Items, Copies
  <1>8. TableInv
    <2>1. <<>> \in WholeTables BY DEF WholeTables, Tables
    <2> QED BY <2>1 DEF Init, TableInv, WholeTables
  <1>9. LiveInv
    <2>1. DiskMaps = {<<>>} BY <1>2, <1>3, <1>4 DEF DiskMaps
    <2>2. \A n : check_env_parameter(<<>>, n) = None
      BY StorageAssumption DEF check_env_parameter, EnvIndex, MinOf
    <2>3. MapInv /\ OwnInv BY <2>1 DEF Init, MapInv, OwnInv, NamesOnce, At
    <2>4. SavedInv BY <2>1 DEF Init, SavedInv, Committed
    <2>5. PrivInv BY <2>2 DEF Init, PrivInv
    <2>6. ReadInv BY DEF Init, ReadInv, Turned
    <2> QED BY <2>3, <2>4, <2>5, <2>6 DEF LiveInv
  <1> QED BY <1>1, <1>5, <1>6, <1>7, <1>8, <1>9 DEF StoreInv

\* Every thread step keeps the types.
LEMMA TypesStep ==
  ASSUME MutexInv, TypesInv, CallInv, NEW t \in Threads, Step(t) \/ Fault(t) \/ Call(t)
  PROVE  TypesInv'
  <1> USE DEF disk, memory, locals, bounds, hist
  <1>0. MaxItem \in Nat /\ None \notin Values /\ Torn \notin Values /\ None # Torn
    BY StorageAssumption
  <1>00. <<>> \in Seq(Entries) /\ Len(<<>>) <= MaxItem BY <1>0
  <1>1. CASE env_read(t) BY <1>1 DEF env_read, TypesInv, TypeOK
  <1>2. CASE env_write(t)
    <2>1. priv' \in Seq(Entries \X Blocks)
      <3>1. item[t] \in Entries /\ val[t] \in Blocks
        BY <1>2, CallOf DEF env_write, Entries, Blocks
      <3>2. env[t] \in Seq(Entries \X Blocks) BY DEF TypesInv
      <3> QED BY <1>2, <3>1, <3>2, ModifyType DEF env_write
    <2>2. raced' \in BOOLEAN BY <1>2 DEF env_write, TypesInv, TypeOK
    <2> QED BY <1>2, <2>1, <2>2 DEF env_write, TypesInv, TypeOK
  <1>3. CASE EnvSync(t) BY <1>3 DEF EnvSync, TypesInv, TypeOK
  <1>4. CASE sunxi_secure_storage_init(t)
    <2>1. map' \in Seq(Entries) /\ Len(map') <= MaxItem
      <3>1. mapC[0] \in MapBlocks /\ mapC[1] \in MapBlocks
            /\ Len(mapC[0].m) <= MaxItem /\ Len(mapC[1].m) <= MaxItem
        BY DEF TypesInv, TypeOK, Copies
      <3>2. CASE inited BY <1>4, <3>2 DEF sunxi_secure_storage_init, TypesInv, TypeOK
      <3>3. CASE ~inited
        BY <1>4, <3>1, <3>3, ReadMapType DEF sunxi_secure_storage_init
      <3> QED BY <3>2, <3>3
    <2> QED BY <1>4, <2>1 DEF sunxi_secure_storage_init, TypesInv, TypeOK
  <1>5. CASE sunxi_secure_storage_exit(t)
    <2>1. map' \in Seq(Entries) /\ Len(map') <= MaxItem /\ mutex' \in Threads \cup {None}
          /\ inited' \in BOOLEAN
      <3>1. map' \in {map, <<>>} /\ mutex' \in {mutex, None} /\ inited' \in {inited, FALSE}
        BY <1>5 DEF sunxi_secure_storage_exit
      <3> QED BY <1>0, <1>00, <3>1, Zenon DEF TypesInv, TypeOK
    <2> QED BY <1>5, <2>1 DEF sunxi_secure_storage_exit, TypesInv, TypeOK
  <1>6. CASE MapWrite(t)
    <2>1. MapBlock("good", map) \in MapBlocks /\ MapBlock("good", map).m = map
          /\ Len(map) <= MaxItem
      BY DEF MapBlock, MapBlocks, TypesInv, TypeOK
    <2>2. mapC' \in [Copies -> MapBlocks] /\ mapMedia' \in [Copies -> MapBlocks]
          /\ \A c \in Copies : Len(mapC[c].m)' <= MaxItem /\ Len(mapMedia[c].m)' <= MaxItem
      <3>1. CASE pc[t] = "map0"
        <4>1. mapC' = [mapC EXCEPT ![0] = MapBlock("good", map)] /\ mapMedia' = mapMedia
          BY <1>6, <3>1 DEF MapWrite
        <4> QED BY <2>1, <4>1 DEF TypesInv, TypeOK
      <3>2. CASE pc[t] = "map1"
        <4>1. mapC' = [mapC EXCEPT ![1] = MapBlock("good", map)] /\ mapMedia' = mapMedia
          BY <1>6, <3>2 DEF MapWrite
        <4> QED BY <2>1, <4>1 DEF TypesInv, TypeOK
      <3>3. CASE pc[t] = "mapSync"
        BY <1>6, <3>3 DEF MapWrite, TypesInv, TypeOK
      <3> QED BY <1>6, <3>1, <3>2, <3>3 DEF MapWrite
    <2>3. map' \in Seq(Entries) /\ Len(map') <= MaxItem /\ mutex' \in Threads \cup {None}
          /\ inited' \in BOOLEAN /\ dirty' \in BOOLEAN
      <3>1. map' \in {map, <<>>} /\ mutex' \in {mutex, None} /\ inited' \in {inited, FALSE}
            /\ dirty' \in {dirty, FALSE}
        BY <1>6 DEF MapWrite
      <3> QED BY <1>0, <1>00, <3>1, Zenon DEF TypesInv, TypeOK
    <2>4. objMedia' \in [Items -> [Copies -> Blocks]] /\ objC' = objC
          /\ priv' = priv /\ privMedia' = privMedia
      BY <1>6 DEF MapWrite, TypesInv, TypeOK
    <2> QED BY <1>6, <2>2, <2>3, <2>4 DEF MapWrite, TypesInv, TypeOK
  <1>7. CASE ObjectRead(t)
    <2>1. res' \in [Threads -> Blocks \cup {None}]
      <3>1. ASSUME NEW i \in Matches(item[t]) PROVE sd_read_key(i) \in Blocks
        <4>1. i \in Items BY <1>0 DEF Matches, Items, TypesInv, TypeOK
        <4> QED BY <4>1 DEF sd_read_key, TypesInv, TypeOK, Copies
      <3> QED BY <1>7, <3>1 DEF ObjectRead, TypesInv
    <2> QED BY <1>7, <2>1 DEF ObjectRead, TypesInv, TypeOK
  <1>8. CASE ObjectFill(t)
    <2>1. item[t] \in Names BY <1>8, CallOf DEF ObjectFill
    <2>2. map' \in Seq(Entries) /\ Len(map') <= MaxItem /\ blk' \in [Threads -> 0 .. MaxItem]
      <3> DEFINE i == fill_name_in_map(item[t])
      <3>1. i \in 1 .. Len(map) + 1 BY <2>1, FillBlock
      <3>2. map \in Seq(Entries) /\ Len(map) \in Nat /\ item[t] \in Entries /\ Len(map) <= MaxItem
            /\ blk \in [Threads -> 0 .. MaxItem]
        BY <2>1 DEF TypesInv, TypeOK, Entries
      <3>3. \/ i <= MaxItem /\ blk' = [blk EXCEPT ![t] = i]
               /\ map' = IF i > Len(map) THEN Append(map, item[t]) ELSE map
            \/ blk' = blk /\ map' = map
        BY <1>8 DEF ObjectFill
      <3> HIDE DEF i
      <3>4. CASE i > Len(map)
        <4>1. Append(map, item[t]) \in Seq(Entries) /\ Len(Append(map, item[t])) = Len(map) + 1
          BY <3>2
        <4>2. CASE blk' = blk /\ map' = map BY <3>2, <4>2
        <4>3. CASE i <= MaxItem /\ blk' = [blk EXCEPT ![t] = i] /\ map' = Append(map, item[t])
          BY <1>0, <3>1, <3>2, <3>4, <4>1, <4>3
        <4> QED BY <3>3, <3>4, <4>2, <4>3
      <3>5. CASE i <= Len(map) BY <1>0, <3>1, <3>2, <3>3, <3>5
      <3> QED BY <3>1, <3>2, <3>4, <3>5
    <2> QED BY <1>8, <2>2 DEF ObjectFill, TypesInv, TypeOK
  <1>9. CASE ObjectWrite(t)
    <2>1. val[t] \in Blocks BY <1>9, CallOf DEF ObjectWrite, Blocks, Saving
    <2>2. objC' \in [Items -> [Copies -> Blocks]] /\ objMedia' \in [Items -> [Copies -> Blocks]]
      <3>1. CASE pc[t] = "obj0"
        <4>1. objC' = [objC EXCEPT ![blk[t]][0] = val[t]] /\ objMedia' = objMedia
          BY <1>9, <3>1 DEF ObjectWrite
        <4> QED BY <2>1, <4>1 DEF TypesInv, TypeOK
      <3>2. CASE pc[t] = "obj1"
        <4>1. objC' = [objC EXCEPT ![blk[t]][1] = val[t]] /\ objMedia' = objMedia
          BY <1>9, <3>2 DEF ObjectWrite
        <4> QED BY <2>1, <4>1 DEF TypesInv, TypeOK
      <3>3. CASE pc[t] = "objSync" BY <1>9, <3>3 DEF ObjectWrite, TypesInv, TypeOK
      <3> QED BY <1>9, <3>1, <3>2, <3>3 DEF ObjectWrite
    <2>3. mapMedia' \in [Copies -> MapBlocks] /\ dirty' \in BOOLEAN
          /\ blk' \in [Threads -> 0 .. MaxItem] /\ mapC' = mapC
          /\ \A c \in Copies : Len(mapMedia[c].m)' <= MaxItem
      <3>1. mapMedia' \in {mapC, mapMedia} /\ mapC' = mapC /\ dirty' \in {dirty, TRUE}
            /\ blk' \in {blk, [blk EXCEPT ![t] = 0]}
        BY <1>9 DEF ObjectWrite
      <3>2. [blk EXCEPT ![t] = 0] \in [Threads -> 0 .. MaxItem] BY <1>0 DEF TypesInv, TypeOK
      <3> QED BY <3>1, <3>2, Zenon DEF TypesInv, TypeOK
    <2> QED BY <1>9, <2>2, <2>3 DEF ObjectWrite, TypesInv, TypeOK
  <1>10. CASE PrivateRead(t)
    <2>1. check_env_parameter(priv, item[t]) \in Blocks \cup {None}
      <3>1. CASE EnvIndex(priv, item[t]) = {} BY <3>1 DEF check_env_parameter
      <3>2. CASE EnvIndex(priv, item[t]) # {}
        <4>1. (CHOOSE i \in EnvIndex(priv, item[t]) : TRUE) \in EnvIndex(priv, item[t]) BY <3>2
        <4> QED BY <3>2, <4>1, StorageAssumption
               DEF check_env_parameter, EnvIndex, MinOf, TypesInv, TypeOK
      <3> QED BY <3>1, <3>2
    <2> QED BY <1>10, <2>1 DEF PrivateRead, TypesInv, TypeOK
  <1>11. CASE Return(t)
    <2>1. pc[t] = "written" => item[t] \in Names /\ val[t] \in Values BY CallOf
    <2>2. allowed' \in [Names -> SUBSET (Values \cup {None})]
      BY <1>11, <2>1 DEF Return, TypesInv
    <2>3. may' \in [Threads -> SUBSET (Values \cup {None})] BY <1>11 DEF Return, TypesInv
    <2> QED BY <1>11, <2>2, <2>3 DEF Return, TypesInv, TypeOK
  <1>12. CASE InitFails(t) BY <1>12 DEF InitFails, TypesInv, TypeOK
  <1>13. CASE MapFails(t) BY <1>13 DEF MapFails, TypesInv, TypeOK
  <1>14. CASE ObjectFails(t) BY <1>0, <1>14 DEF ObjectFails, TypesInv, TypeOK
  <1>17. CASE PrivateFails(t) BY <1>0, <1>17 DEF PrivateFails, TypesInv, TypeOK
  <1>15. ASSUME NEW n \in Names, StartRead(t, n) PROVE TypesInv'
    <2>1. may' \in [Threads -> SUBSET (Values \cup {None})] BY <1>15 DEF StartRead, TypesInv
    <2> QED BY <1>15, <2>1 DEF StartRead, TypesInv, TypeOK
  <1>16. ASSUME NEW n \in Names, NEW v \in Values, StartWrite(t, n, v) PROVE TypesInv'
    <2>1. may' \in [Threads -> SUBSET (Values \cup {None})] BY <1>16 DEF StartWrite, TypesInv
    <2>2. allowed' \in [Names -> SUBSET (Values \cup {None})] BY <1>16 DEF StartWrite, TypesInv
    <2> QED BY <1>16, <2>1, <2>2 DEF StartWrite, TypesInv, TypeOK
  <1> QED BY <1>1, <1>2, <1>3, <1>4, <1>5, <1>6, <1>7, <1>8, <1>9, <1>10, <1>11, <1>12,
             <1>13, <1>14, <1>15, <1>16, <1>17 DEF Step, Fault, Call

\* What a power loss makes of a copy of the map and of the object blocks.
LEMMA CrashMap ==
  ASSUME TypesInv, Crash, NEW c \in Copies
  PROVE  /\ mapC'[c] \in MapBlocks /\ mapMedia' = mapC' /\ mapC' \in [Copies -> MapBlocks]
         /\ mapC'[c].m \in {mapC[c].m, mapMedia[c].m, <<>>}
         /\ mapC[c] = mapMedia[c] => mapC'[c] = mapC[c]
         /\ mapC[c].st = "good" /\ mapMedia[c].st = "good" =>
              \/ mapC'[c].st = "good" /\ mapC'[c].m \in {mapC[c].m, mapMedia[c].m}
              \/ mapC'[c].st = "torn"
  <1>0. \A d \in Copies : mapC[d] \in MapBlocks /\ mapMedia[d] \in MapBlocks
    BY DEF TypesInv, TypeOK
  <1>1. mapC'[0] \in MapAfterCrash(mapMedia[0], mapC[0]) /\ mapC'[1] \in MapAfterCrash(mapMedia[1], mapC[1])
        /\ mapC' = [d \in Copies |-> mapC'[d]] /\ mapMedia' = mapC'
    BY DEF Crash, Copies
  <1>2. \A d \in Copies : mapC'[d] \in MapAfterCrash(mapMedia[d], mapC[d])
    BY <1>1 DEF Copies
  <1>3. ASSUME NEW d \in Copies, NEW b \in MapAfterCrash(mapMedia[d], mapC[d])
        PROVE  /\ b \in MapBlocks /\ b.m \in {mapC[d].m, mapMedia[d].m, <<>>}
               /\ mapC[d] = mapMedia[d] => b = mapC[d]
               /\ mapC[d].st = "good" /\ mapMedia[d].st = "good" =>
                    \/ b.st = "good" /\ b.m \in {mapC[d].m, mapMedia[d].m}
                    \/ b.st = "torn"
    <2>1. CASE b = mapMedia[d] BY <1>0, <2>1
    <2>2. CASE b = mapC[d] BY <1>0, <2>2
    <2>3. CASE b = MapBlock("torn", <<>>) /\ mapC[d] # mapMedia[d]
      BY <2>3 DEF MapBlock, MapBlocks
    <2>4. CASE b = MapBlock("nomagic", mapC[d].m) /\ mapC[d] # mapMedia[d] /\ mapMedia[d].st = "nomagic"
      BY <1>0, <2>4 DEF MapBlock, MapBlocks
    <2> QED BY <1>3, <2>1, <2>2, <2>3, <2>4 DEF MapAfterCrash
  <1> QED BY <1>1, <1>2, <1>3

\* An object copy that was not synced is old, new or torn; a synced one stays.
LEMMA CrashObj ==
  ASSUME TypesInv, Crash
  PROVE  /\ objMedia' = objC' /\ objC' \in [Items -> [Copies -> Blocks]]
         /\ \A i \in Items : \A c \in Copies :
              /\ objC'[i][c] \in {objC[i][c], objMedia[i][c], Torn}
              /\ objC[i][c] = objMedia[i][c] => objC'[i][c] = objC[i][c]
  <1> DEFINE D == {b \in Items \X Copies : objC[b[1]][b[2]] # objMedia[b[1]][b[2]]}
             New(d, i, c) == CASE <<i, c>> \notin DOMAIN d -> objC[i][c]
                    [] <<i, c>> \in DOMAIN d /\ d[<<i, c>>] = "old" -> objMedia[i][c]
                    [] <<i, c>> \in DOMAIN d /\ d[<<i, c>>] = "new" -> objC[i][c]
                    [] <<i, c>> \in DOMAIN d /\ d[<<i, c>>] = "torn" -> Torn
  <1>1. PICK d \in [D -> {"old", "new", "torn"}] :
          objC' = [i \in Items |-> [c \in Copies |-> New(d, i, c)]]
    BY DEF Crash
  <1>2. ASSUME NEW i \in Items, NEW c \in Copies
        PROVE  /\ New(d, i, c) \in {objC[i][c], objMedia[i][c], Torn} /\ New(d, i, c) \in Blocks
               /\ objC[i][c] = objMedia[i][c] => New(d, i, c) = objC[i][c]
    <2>1. objC[i][c] \in Blocks /\ objMedia[i][c] \in Blocks /\ Torn \in Blocks
      BY DEF TypesInv, TypeOK, Blocks
    <2>2. CASE <<i, c>> \notin DOMAIN d BY <2>1, <2>2
    <2>3. CASE <<i, c>> \in DOMAIN d
      <3>1. <<i, c>> \in D /\ d[<<i, c>>] \in {"old", "new", "torn"} BY <2>3
      <3>2. objC[i][c] # objMedia[i][c] BY <3>1
      <3> HIDE DEF D
      <3> QED BY <2>1, <2>3, <3>1, <3>2
    <2> QED BY <2>2, <2>3
  <1> HIDE DEF New
  <1> QED BY <1>1, <1>2 DEF Crash

\* What it makes of the private partition: an entry that was being synced may be
\* torn, and an entry may be counted that was not written.
LEMMA CrashPriv ==
  ASSUME Crash
  PROVE  /\ privMedia' = priv'
         /\ \/ priv' = privMedia \/ priv' = priv \/ priv' = Append(privMedia, <<Junk, Torn>>)
            \/ \E t \in Threads : pc[t] = "envSync" /\ priv' = modify_env_parameter(priv, item[t], Torn)
  BY DEF Crash, PrivAfterCrash

\* A power loss keeps the types.
LEMMA TypesCrash ==
  ASSUME MutexInv, TypesInv, CallInv, Crash
  PROVE  TypesInv'
  <1>0. MaxItem \in Nat BY StorageAssumption
  <1>1. priv' \in Seq(Entries \X Blocks) /\ privMedia' = priv'
    <2>1. <<Junk, Torn>> \in Entries \X Blocks BY DEF Entries, Blocks
    <2>2. Append(privMedia, <<Junk, Torn>>) \in Seq(Entries \X Blocks)
      BY <2>1 DEF TypesInv, TypeOK
    <2>3. ASSUME NEW t \in Threads, pc[t] = "envSync"
          PROVE  modify_env_parameter(priv, item[t], Torn) \in Seq(Entries \X Blocks)
      <3>1. item[t] \in Entries /\ Torn \in Blocks BY <2>3, CallOf DEF Entries, Blocks
      <3> QED BY <3>1, ModifyType DEF TypesInv, TypeOK
    <2> QED BY <2>2, <2>3, CrashPriv DEF TypesInv, TypeOK
  <1>2. mapC' \in [Copies -> MapBlocks] /\ mapMedia' = mapC'
        /\ \A c \in Copies : Len(mapC'[c].m) <= MaxItem
    <2>1. 0 \in Copies BY DEF Copies
    <2>2. mapC' \in [Copies -> MapBlocks] /\ mapMedia' = mapC' BY <2>1, CrashMap
    <2>3. ASSUME NEW c \in Copies PROVE Len(mapC'[c].m) <= MaxItem
      <3>1. mapC'[c].m \in {mapC[c].m, mapMedia[c].m, <<>>} BY CrashMap
      <3>2. Len(<<>>) <= MaxItem BY <1>0
      <3> QED BY <3>1, <3>2, Zenon DEF TypesInv
    <2> QED BY <2>2, <2>3
  <1>3. objMedia' = objC' /\ objC' \in [Items -> [Copies -> Blocks]] BY CrashObj
  <1>4. map' \in Seq(Entries) /\ Len(map') <= MaxItem BY <1>0 DEF Crash
  <1>5. blk' \in [Threads -> 0 .. MaxItem] BY <1>0 DEF Crash
  <1>6. bothCut' \in BOOLEAN BY DEF Crash, TypesInv, TypeOK
  <1>7. TypeOK'
    BY <1>1, <1>2, <1>3, <1>4, <1>5, <1>6 DEF Crash, TypesInv, TypeOK
  <1>8. env' \in [Threads -> Seq(Entries \X Blocks)] BY DEF Crash
  <1> QED BY <1>2, <1>7, <1>8 DEF Crash, TypesInv

\* A thread step that starts or ends no call.
LEMMA CallMoves ==
  ASSUME MutexInv, TypesInv, CallInv, NEW t \in Threads, op' = op, item' = item, val' = val,
         allowed' = allowed, may' = may, pc' = [pc EXCEPT ![t] = pc'[t]],
         after' = [after EXCEPT ![t] = after'[t]],
         pc[t] # "idle", pc'[t] # "idle", pc'[t] \notin Leaving => after'[t] = "idle",
         op[t] = "write" => pc'[t] \in WritePoints
                            /\ after'[t] \in {"idle", "init", "written", "failed"},
         op[t] = "read" => pc'[t] \in ReadPoints
                           /\ after'[t] \in {"idle", "init", "done", "private"}
  PROVE  CallInv'
  <1>1. \A u \in Threads : u # t => pc'[u] = pc[u] /\ after'[u] = after[u]
    BY DEF MutexInv, ExitInv
  <1> QED BY <1>1 DEF CallInv

\* Every thread step keeps calls on their paths.
LEMMA CallStep ==
  ASSUME MutexInv, TypesInv, CallInv, NEW t \in Threads, Step(t) \/ Fault(t) \/ Call(t)
  PROVE  CallInv'
  <1> USE DEF disk, memory, locals, bounds, hist
  <1>0. /\ op[t] \in {"none", "read", "write"} /\ (pc[t] = "idle" <=> op[t] = "none")
        /\ pc[t] \notin Leaving => after[t] = "idle"
        /\ op[t] = "write" => pc[t] \in WritePoints
                              /\ after[t] \in {"idle", "init", "written", "failed"}
        /\ op[t] = "read" => pc[t] \in ReadPoints
                             /\ after[t] \in {"idle", "init", "done", "private"}
        /\ pc \in [Threads -> InSecure \cup Outside] /\ after \in [Threads -> Returns \cup {"idle"}]
        /\ pc[t] \in Leaving => after[t] \in Returns
    BY DEF MutexInv, ExitInv, CallInv
  <1> USE DEF Leaving, Saving, WritePoints, ReadPoints, Returns, Goto
  <1>1. CASE env_read(t) BY <1>0, <1>1, CallMoves DEF env_read
  <1>2. CASE env_write(t) BY <1>0, <1>2, CallMoves DEF env_write
  <1>3. CASE EnvSync(t) BY <1>0, <1>3, CallMoves DEF EnvSync
  <1>4. CASE sunxi_secure_storage_init(t) BY <1>0, <1>4, CallMoves DEF sunxi_secure_storage_init
  <1>5. CASE sunxi_secure_storage_exit(t) BY <1>0, <1>5, CallMoves DEF sunxi_secure_storage_exit
  <1>6. CASE MapWrite(t) BY <1>0, <1>6, CallMoves DEF MapWrite
  <1>7. CASE ObjectRead(t) BY <1>0, <1>7, CallMoves DEF ObjectRead
  <1>8. CASE ObjectFill(t) BY <1>0, <1>8, CallMoves DEF ObjectFill
  <1>9. CASE ObjectWrite(t) BY <1>0, <1>9, CallMoves DEF ObjectWrite
  <1>10. CASE PrivateRead(t) BY <1>0, <1>10, CallMoves DEF PrivateRead
  <1>12. CASE InitFails(t) BY <1>0, <1>12, CallMoves DEF InitFails
  <1>13. CASE MapFails(t)
    <2>1. AfterFailedExit(t) = CASE after[t] \in {"written", "failed"} -> "failed"
                                 [] after[t] \in {"done", "private"} -> "private"
                                 [] after[t] = "init" -> "init"
      BY DEF AfterFailedExit
    <2>2. after[t] \in Returns BY <1>0, <1>13 DEF MapFails
    <2>3. /\ op[t] = "write" => AfterFailedExit(t) \in {"failed", "init"}
          /\ op[t] = "read" => AfterFailedExit(t) \in {"private", "init"}
      BY <1>0, <2>1, <2>2
    <2>4. op[t] \in {"read", "write"} BY <1>0, <1>13 DEF MapFails
    <2> HIDE DEF Returns
    <2> QED BY <1>0, <1>13, <2>3, <2>4, CallMoves DEF MapFails
  <1>14. CASE ObjectFails(t) BY <1>0, <1>14, CallMoves DEF ObjectFails
  <1>17. CASE PrivateFails(t) BY <1>0, <1>17, CallMoves DEF PrivateFails
  <1>11. CASE Return(t)
    <2>1. \A u \in Threads : u # t => pc'[u] = pc[u] /\ op'[u] = op[u] /\ val'[u] = val[u]
                                      /\ may'[u] = may[u]
      BY <1>11 DEF Return, MutexInv, ExitInv, TypesInv
    <2>2. pc'[t] = "idle" /\ op'[t] = "none" /\ item' = item /\ after' = after /\ after[t] = "idle"
      BY <1>0, <1>11 DEF Return, MutexInv, ExitInv
    <2>3. ASSUME NEW n \in Names
          PROVE  allowed'[n] = allowed[n]
                 \/ (op[t] = "write" /\ n = item[t] /\ val[t] \in allowed[n] /\ allowed'[n] = {val[t]})
      <3>1. CASE pc[t] # "written" BY <1>11, <3>1 DEF Return
      <3>2. CASE pc[t] = "written"
        <4>1. op[t] = "write" /\ item[t] \in Names /\ val[t] \in allowed[item[t]]
          BY <3>2, CallOf DEF CallInv
        <4>2. allowed' = [allowed EXCEPT ![item[t]] = {val[t]}] BY <1>11, <3>2 DEF Return
        <4> QED BY <4>1, <4>2 DEF TypesInv
      <3> QED BY <3>1, <3>2
    <2> QED BY <2>1, <2>2, <2>3 DEF CallInv
  <1>15. ASSUME NEW n \in Names, StartRead(t, n) PROVE CallInv'
    <2>1. \A u \in Threads : u # t => pc'[u] = pc[u] /\ op'[u] = op[u] /\ item'[u] = item[u]
                                      /\ may'[u] = may[u]
      BY <1>15 DEF StartRead, MutexInv, ExitInv, TypesInv
    <2>2. pc'[t] \in {"support", "private"} /\ op'[t] = "read" /\ item'[t] = n /\ may'[t] = allowed[n]
          /\ after[t] = "idle"
      BY <1>0, <1>15 DEF StartRead, MutexInv, ExitInv, TypesInv
    <2>3. allowed' = allowed /\ val' = val /\ after' = after BY <1>15 DEF StartRead
    <2> QED BY <2>1, <2>2, <2>3 DEF CallInv
  <1>16. ASSUME NEW n \in Names, NEW v \in Values, StartWrite(t, n, v) PROVE CallInv'
    <2>1. \A u \in Threads : u # t => pc'[u] = pc[u] /\ op'[u] = op[u] /\ item'[u] = item[u]
                                      /\ val'[u] = val[u]
      BY <1>16 DEF StartWrite, MutexInv, ExitInv, TypesInv
    <2>2. pc'[t] = "envRead" /\ op'[t] = "write" /\ item'[t] = n /\ val'[t] = v /\ after[t] = "idle"
          /\ after' = after
      BY <1>0, <1>16 DEF StartWrite, MutexInv, ExitInv, TypesInv
    <2>3. \A k \in Names : allowed'[k] = IF k = n THEN allowed[k] \cup {v} ELSE allowed[k]
      BY <1>16 DEF StartWrite, TypesInv
    <2>4. \A u \in Threads : may'[u] = IF op[u] = "read" /\ item[u] = n
                                       THEN may[u] \cup {v} ELSE may[u]
      BY <1>16 DEF StartWrite
    <2>5. \A u \in Threads : ~(pc[u] # "idle" /\ op[u] = "write" /\ item[u] = n)
      BY <1>16 DEF StartWrite
    <2>6. \A u \in Threads : op[u] = "write" => item[u] # n BY <2>5 DEF CallInv
    <2>7. \A u \in Threads : op'[u] = "write" =>
            /\ pc'[u] \in WritePoints /\ item'[u] \in Names
            /\ after'[u] \in {"idle", "init", "written", "failed"}
            /\ val'[u] \in Values /\ val'[u] \in allowed'[item'[u]]
      <3> SUFFICES ASSUME NEW u \in Threads, op'[u] = "write"
                   PROVE  /\ pc'[u] \in WritePoints /\ item'[u] \in Names
                          /\ after'[u] \in {"idle", "init", "written", "failed"}
                          /\ val'[u] \in Values /\ val'[u] \in allowed'[item'[u]]
        OBVIOUS
      <3>1. CASE u = t BY <2>2, <2>3, <3>1
      <3>2. CASE u # t
        <4>1. op[u] = "write" /\ item'[u] = item[u] /\ val'[u] = val[u] /\ pc'[u] = pc[u]
          BY <2>1, <3>2
        <4>2. /\ item[u] \in Names /\ pc[u] \in WritePoints /\ val[u] \in Values
              /\ after[u] \in {"idle", "init", "written", "failed"}
              /\ val[u] \in allowed[item[u]]
          BY <4>1 DEF CallInv
        <4>3. val[u] \in allowed'[item[u]] BY <2>3, <4>2
        <4> QED BY <2>2, <4>1, <4>2, <4>3
      <3> QED BY <3>1, <3>2
    <2>8. \A u \in Threads : op'[u] = "read" =>
            /\ pc'[u] \in ReadPoints /\ item'[u] \in Names
            /\ after'[u] \in {"idle", "init", "done", "private"}
            /\ allowed'[item'[u]] \subseteq may'[u]
      <3> SUFFICES ASSUME NEW u \in Threads, op'[u] = "read"
                   PROVE  /\ pc'[u] \in ReadPoints /\ item'[u] \in Names
                          /\ after'[u] \in {"idle", "init", "done", "private"}
                          /\ allowed'[item'[u]] \subseteq may'[u]
        OBVIOUS
      <3>1. u # t /\ op[u] = "read" /\ item'[u] = item[u] /\ pc'[u] = pc[u] BY <2>1, <2>2
      <3>2. item[u] \in Names /\ allowed[item[u]] \subseteq may[u] BY <3>1 DEF CallInv
      <3>3. allowed'[item[u]] \subseteq may'[u] BY <2>3, <2>4, <3>1, <3>2
      <3> QED BY <2>2, <3>1, <3>2, <3>3 DEF CallInv
    <2> QED BY <2>1, <2>2, <2>6, <2>7, <2>8 DEF CallInv
  <1> QED BY <1>1, <1>2, <1>3, <1>4, <1>5, <1>6, <1>7, <1>8, <1>9, <1>10, <1>11, <1>12,
             <1>13, <1>14, <1>15, <1>16, <1>17 DEF Step, Fault, Call

\* After a power loss no call is running.
LEMMA CallCrash ==
  ASSUME Crash
  PROVE  CallInv'
  BY DEF Crash, CallInv

\* Only the holder of the mutex is inside the secure storage.
LEMMA Alone ==
  ASSUME MutexInv, CallInv, NEW t \in Threads, pc[t] \in InSecure \/ mutex = None
  PROVE  \A u \in Threads : u # t => pc[u] \notin InSecure /\ after[u] = "idle"
  <1>1. \A u \in Threads : u # t => pc[u] \notin InSecure
    BY StorageAssumption DEF MutexInv, OneInside
  <1> QED BY <1>1 DEF CallInv, InSecure, Leaving

\* A step of a thread outside the secure storage.
LEMMA CacheOutside ==
  ASSUME MutexInv, CacheInv, CallInv, NEW t \in Threads, after[t] = "idle",
         pc' = [pc EXCEPT ![t] = pc'[t]], pc[t] \notin InSecure, pc'[t] \notin InSecure,
         \A u \in Threads : u # t => item'[u] = item[u] /\ val'[u] = val[u],
         faults' = 0 => faults = 0,
         UNCHANGED <<mapC, mapMedia, objC, objMedia, map, inited, dirty, mutex, blk, after,
                     crashes, bothCut>>
  PROVE  CacheInv'
  <1>1. \A u \in Threads : u # t => pc'[u] = pc[u] BY DEF MutexInv, ExitInv
  <1>2. \A u \in Threads : pc'[u] \in InSecure <=> pc[u] \in InSecure BY <1>1
  <1>3. \A u \in Threads : pc[u] \in InSecure => u # t /\ pc'[u] = pc[u] BY <1>1
  <1>4. Saving \subseteq InSecure /\ {"map0", "map1", "mapSync", "obj1", "objSync"} \subseteq InSecure
    BY DEF Saving, InSecure
  <1>5. SameCopies' <=> SameCopies BY DEF SameCopies
  <1>6. /\ ~inited' => map' = <<>> /\ ~dirty' /\ mutex' = None
        /\ inited' /\ mutex' = None => dirty'
        /\ \A u \in Threads : after'[u] = "written" => dirty'
        /\ faults' = 0 /\ dirty' => \E u \in Threads : after'[u] = "written"
        /\ crashes' = 0 /\ ~dirty' => SameCopies'
        /\ bothCut' => crashes' > 0
    BY <1>5 DEF CacheInv
  <1>7. /\ \A u \in Threads : pc'[u] \in {"map0", "map1", "mapSync"} => dirty'
        /\ \A u \in Threads : pc'[u] \in {"map1", "mapSync"} => mapC'[0] = MapBlock("good", map')
        /\ \A u \in Threads : pc'[u] = "mapSync" => mapC'[1] = MapBlock("good", map')
        /\ (\A u \in Threads : pc'[u] # "mapSync") => mapC'[1] = mapMedia'[1]
    BY <1>2, <1>3, <1>4 DEF CacheInv
  <1>8. /\ \A u \in Threads : pc'[u] \in Saving => At(map', blk'[u], item'[u])
        /\ \A u \in Threads : pc'[u] \in {"obj1", "objSync"} => objC'[blk'[u]][0] = val'[u]
        /\ \A u \in Threads : pc'[u] = "objSync" => objC'[blk'[u]][1] = val'[u]
    <2> SUFFICES ASSUME NEW u \in Threads
                 PROVE  /\ pc'[u] \in Saving => At(map', blk'[u], item'[u])
                        /\ pc'[u] \in {"obj1", "objSync"} => objC'[blk'[u]][0] = val'[u]
                        /\ pc'[u] = "objSync" => objC'[blk'[u]][1] = val'[u]
      OBVIOUS
    <2>1. CASE pc'[u] \in InSecure
      <3>1. u # t /\ pc'[u] = pc[u] /\ item'[u] = item[u] /\ val'[u] = val[u] BY <1>2, <1>3, <2>1
      <3> QED BY <3>1 DEF CacheInv, At
    <2>2. CASE pc'[u] \notin InSecure BY <1>4, <2>2
    <2> QED BY <2>1, <2>2
  <1>9. faults' = 0 => \A i \in Items : \A c \in Copies :
          objC'[i][c] # objMedia'[i][c] => \E u \in Threads : pc'[u] \in Saving /\ blk'[u] = i
    <2> SUFFICES ASSUME faults = 0, NEW i \in Items, NEW c \in Copies, objC[i][c] # objMedia[i][c]
                 PROVE  \E u \in Threads : pc'[u] \in Saving /\ blk[u] = i
      OBVIOUS
    <2>1. PICK u \in Threads : pc[u] \in Saving /\ blk[u] = i BY DEF CacheInv
    <2> QED BY <1>3, <1>4, <2>1
  <1> QED BY <1>6, <1>7, <1>8, <1>9 DEF CacheInv, At

\* CacheInv when every other thread is outside.
CacheOf(t) ==
  /\ ~inited => map = <<>> /\ ~dirty /\ mutex = None
  /\ inited /\ mutex = None => dirty
  /\ pc[t] \in {"map0", "map1", "mapSync"} => dirty
  /\ after[t] = "written" => dirty
  /\ pc[t] \in {"map1", "mapSync"} => mapC[0] = MapBlock("good", map)
  /\ pc[t] = "mapSync" => mapC[1] = MapBlock("good", map)
  /\ pc[t] \in Saving => At(map, blk[t], item[t])
  /\ pc[t] \in {"obj1", "objSync"} => objC[blk[t]][0] = val[t]
  /\ pc[t] = "objSync" => objC[blk[t]][1] = val[t]
  /\ pc[t] # "mapSync" => mapC[1] = mapMedia[1]
  /\ faults = 0 => \A i \in Items : \A c \in Copies :
       objC[i][c] # objMedia[i][c] => pc[t] \in Saving /\ blk[t] = i
  /\ faults = 0 /\ dirty => after[t] = "written"
  /\ crashes = 0 /\ ~dirty => SameCopies
  /\ bothCut => crashes > 0

\* For the thread inside the secure storage, or any one when nobody is, CacheInv
\* is about that thread only.
LEMMA CacheToOne ==
  ASSUME MutexInv, CallInv, CacheInv, NEW t \in Threads, pc[t] \in InSecure \/ mutex = None
  PROVE  CacheOf(t)
  <1>1. \A u \in Threads : u # t => pc[u] \notin InSecure /\ after[u] = "idle" BY Alone
  <1>2. \A u \in Threads : u # t => pc[u] \notin Saving /\ pc[u] # "mapSync" /\ after[u] # "written"
    BY <1>1 DEF Saving, InSecure
  <1> QED BY <1>2 DEF CacheInv, CacheOf

\* And the other way round.
LEMMA CacheFromOne ==
  ASSUME NEW t \in Threads, CacheOf(t)',
         \A u \in Threads : u # t => pc'[u] \notin InSecure /\ after'[u] = "idle"
  PROVE  CacheInv'
  <1>1. \A u \in Threads : u # t => pc'[u] \notin Saving \cup {"map0", "map1", "mapSync"}
                                    /\ after'[u] # "written"
    BY DEF Saving, InSecure
  <1>2. \A u \in Threads : u # t => pc'[u] \notin {"obj1", "objSync"} BY <1>1 DEF Saving
  <1> QED BY <1>1, <1>2 DEF CacheInv, CacheOf

\* Every thread step keeps the cached map and the copies in step.
LEMMA CacheStep ==
  ASSUME MutexInv, TypesInv, CallInv, CacheInv, NEW t \in Threads, Step(t) \/ Fault(t) \/ Call(t)
  PROVE  CacheInv'
  <1> USE DEF disk, memory, locals, bounds, hist, Goto
  <1>0. /\ pc \in [Threads -> InSecure \cup Outside] /\ after \in [Threads -> Returns \cup {"idle"}]
        /\ pc[t] \notin InSecure => after[t] = "idle"
        /\ pc[t] \in Leaving => after[t] \in Returns
        /\ faults \in Nat /\ mutex \in Threads \cup {None} /\ None \notin Threads
    BY StorageAssumption DEF MutexInv, ExitInv, CallInv, TypesInv, Leaving, InSecure
  <1>o. ASSUME \/ env_read(t) \/ env_write(t) \/ EnvSync(t) \/ PrivateRead(t) \/ Return(t) \/ PrivateFails(t)
               \/ InitFails(t)
               \/ \E n \in Names : StartRead(t, n) \/ \E v \in Values : StartWrite(t, n, v)
        PROVE  CacheInv'
    <2>1. UNCHANGED <<mapC, mapMedia, objC, objMedia, map, inited, dirty, mutex, blk, after,
                      crashes, bothCut>>
      BY <1>o DEF env_read, env_write, EnvSync, PrivateRead, PrivateFails, Return, InitFails, StartRead, StartWrite
    <2>2. pc[t] \notin InSecure /\ (faults' = 0 => faults = 0)
      BY <1>0, <1>o DEF env_read, env_write, EnvSync, PrivateRead, PrivateFails, Return, InitFails, StartRead,
                        StartWrite, InSecure
    <2>3. pc' = [pc EXCEPT ![t] = pc'[t]] /\ pc'[t] \notin InSecure
      <3>1. CASE InitFails(t)
        <4>1. op[t] \in {"read", "write"} BY <3>1, CallOf DEF InitFails
        <4> QED BY <1>0, <3>1, <4>1 DEF InitFails, InSecure
      <3>2. CASE ~InitFails(t)
        BY <1>0, <1>o, <3>2 DEF env_read, env_write, EnvSync, PrivateRead, PrivateFails, Return, StartRead,
                          StartWrite, InSecure
      <3> QED BY <3>1, <3>2
    <2>4. \A u \in Threads : u # t => item'[u] = item[u] /\ val'[u] = val[u]
      BY <1>o DEF env_read, env_write, EnvSync, PrivateRead, PrivateFails, Return, InitFails, StartRead, StartWrite,
                  TypesInv
    <2> QED BY <1>0, <2>1, <2>2, <2>3, <2>4, CacheOutside
  <1>i. ASSUME CacheOf(t)', pc[t] \in InSecure \/ mutex = None, pc' = [pc EXCEPT ![t] = pc'[t]],
               after' = [after EXCEPT ![t] = after'[t]]
        PROVE  CacheInv'
    <2>1. \A u \in Threads : u # t => pc[u] \notin InSecure /\ after[u] = "idle"
      BY <1>i, Alone
    <2>2. \A u \in Threads : u # t => pc'[u] \notin InSecure /\ after'[u] = "idle"
      BY <1>0, <1>i, <2>1
    <2> QED BY <1>i, <2>2, CacheFromOne
  <1> USE DEF Saving, InSecure, Leaving
  <1>4. CASE sunxi_secure_storage_init(t)
    <2>1. CacheOf(t) /\ after[t] = "idle" BY <1>0, <1>4, CacheToOne DEF sunxi_secure_storage_init
    <2>2. pc'[t] \in {"exit", "object"} /\ after'[t] \in {"idle", "init"} /\ mutex' = t /\ inited'
          /\ pc' = [pc EXCEPT ![t] = pc'[t]] /\ after' = [after EXCEPT ![t] = after'[t]]
      BY <1>0, <1>4, <2>1 DEF sunxi_secure_storage_init
    <2>3. pc[t] \in {"support", "init"} /\ mutex = None
          /\ UNCHANGED <<mapC, mapMedia, objC, objMedia, dirty, blk, crashes, faults, bothCut>>
      BY <1>4 DEF sunxi_secure_storage_init
    <2>4. SameCopies' <=> SameCopies BY <2>3 DEF SameCopies
    <2>5. CacheOf(t)' BY <1>0, <2>1, <2>2, <2>3, <2>4 DEF CacheOf
    <2> QED BY <1>i, <2>2, <2>3, <2>5
  <1>5. CASE sunxi_secure_storage_exit(t)
    <2>1. CacheOf(t) /\ pc[t] = "exit" BY <1>5, CacheToOne DEF sunxi_secure_storage_exit
    <2>2. UNCHANGED <<mapC, mapMedia, objC, objMedia, dirty, blk, crashes, faults, bothCut>>
      BY <1>5 DEF sunxi_secure_storage_exit
    <2>3. SameCopies' <=> SameCopies BY <2>2 DEF SameCopies
    <2>4. pc' = [pc EXCEPT ![t] = pc'[t]] /\ after' = [after EXCEPT ![t] = after'[t]]
      BY <1>0, <1>5 DEF sunxi_secure_storage_exit
    <2>5. CASE dirty
      <3>1. pc'[t] = "map0" /\ after' = after /\ inited' = inited /\ map' = map /\ mutex' = mutex
        BY <1>0, <1>5, <2>5 DEF sunxi_secure_storage_exit
      <3>2. CacheOf(t)' BY <2>1, <2>2, <2>3, <2>5, <3>1 DEF CacheOf
      <3> QED BY <1>i, <2>1, <2>4, <3>2
    <2>6. CASE ~dirty
      <3>1. pc'[t] \in Returns /\ after'[t] = "idle" /\ inited' = FALSE /\ map' = <<>> /\ mutex' = None
        BY <1>0, <1>5, <2>1, <2>6 DEF sunxi_secure_storage_exit
      <3>2. CacheOf(t)' BY <2>1, <2>2, <2>3, <2>6, <3>1 DEF CacheOf, Returns
      <3> QED BY <1>i, <2>1, <2>4, <3>2
    <2> QED BY <2>5, <2>6
  <1>6. CASE MapWrite(t)
    <2>1. CacheOf(t) /\ pc[t] \in {"map0", "map1", "mapSync"} BY <1>6, CacheToOne DEF MapWrite
    <2>2. UNCHANGED <<objC, blk, crashes, faults, bothCut>> BY <1>6 DEF MapWrite
    <2>3. pc' = [pc EXCEPT ![t] = pc'[t]] /\ after' = [after EXCEPT ![t] = after'[t]]
      BY <1>0, <1>6 DEF MapWrite
    <2>4. mapC \in [Copies -> MapBlocks] /\ 0 \in Copies /\ 1 \in Copies
      BY DEF TypesInv, TypeOK, Copies
    <2>5. CASE pc[t] = "map0"
      <3>1. pc'[t] = "map1" /\ mapC' = [mapC EXCEPT ![0] = MapBlock("good", map)]
            /\ UNCHANGED <<objMedia, mapMedia, map, inited, dirty, mutex, after>>
        BY <1>0, <1>6, <2>5 DEF MapWrite
      <3>2. mapC'[0] = MapBlock("good", map) /\ mapC'[1] = mapC[1] BY <2>4, <3>1
      <3>3. CacheOf(t)' BY <2>1, <2>2, <2>5, <3>1, <3>2 DEF CacheOf
      <3> QED BY <1>i, <2>1, <2>3, <3>3
    <2>6. CASE pc[t] = "map1"
      <3>1. pc'[t] = "mapSync" /\ mapC' = [mapC EXCEPT ![1] = MapBlock("good", map)]
            /\ UNCHANGED <<objMedia, mapMedia, map, inited, dirty, mutex, after>>
        BY <1>0, <1>6, <2>6 DEF MapWrite
      <3>2. mapC'[1] = MapBlock("good", map) /\ mapC'[0] = mapC[0] BY <2>4, <3>1
      <3>3. CacheOf(t)' BY <2>1, <2>2, <2>6, <3>1, <3>2 DEF CacheOf
      <3> QED BY <1>i, <2>1, <2>3, <3>3
    <2>7. CASE pc[t] = "mapSync"
      <3>1. pc'[t] \in Returns /\ after'[t] = "idle" /\ mapC' = mapC /\ mapMedia' = mapC
            /\ objMedia' = objC /\ inited' = FALSE /\ map' = <<>> /\ dirty' = FALSE /\ mutex' = None
        BY <1>0, <1>6, <2>7 DEF MapWrite
      <3>2. SameCopies' BY <2>1, <2>7, <3>1 DEF SameCopies, CacheOf, MapBlock
      <3>3. CacheOf(t)' BY <2>1, <2>2, <2>7, <3>1, <3>2 DEF CacheOf, Returns
      <3> QED BY <1>i, <2>1, <2>3, <3>3
    <2> QED BY <2>1, <2>5, <2>6, <2>7
  <1>7. CASE ObjectRead(t)
    <2>1. CacheOf(t) /\ pc[t] = "object" BY <1>7, CacheToOne DEF ObjectRead
    <2>2. UNCHANGED <<mapC, mapMedia, objC, objMedia, map, inited, dirty, mutex, blk, crashes,
                      faults, bothCut>>
      BY <1>7 DEF ObjectRead
    <2>3. pc' = [pc EXCEPT ![t] = pc'[t]] /\ after' = [after EXCEPT ![t] = after'[t]]
          /\ pc'[t] = "exit" /\ after'[t] \in {"done", "private"} /\ after[t] = "idle"
      BY <1>0, <1>7 DEF ObjectRead, CallInv
    <2>4. SameCopies' <=> SameCopies BY <2>2 DEF SameCopies
    <2>5. CacheOf(t)' BY <2>1, <2>2, <2>3, <2>4 DEF CacheOf
    <2> QED BY <1>i, <2>1, <2>3, <2>5
  <1>8. CASE ObjectFill(t)
    <2>1. CacheOf(t) /\ pc[t] = "object" /\ after[t] = "idle"
      BY <1>8, CacheToOne DEF ObjectFill, CallInv
    <2>2. UNCHANGED <<mapC, mapMedia, objC, objMedia, inited, dirty, mutex, item, val, crashes,
                      faults, bothCut>>
      BY <1>8 DEF ObjectFill
    <2>3. SameCopies' <=> SameCopies BY <2>2 DEF SameCopies
    <2>4. mutex = t /\ inited
      BY <1>0, <2>1 DEF MutexInv, OneInside, CacheOf
    <2>5. item[t] \in Names BY <2>1, CallOf
    <2> DEFINE i == fill_name_in_map(item[t])
    <2>6. i \in 1 .. Len(map) + 1 /\ (i <= Len(map) => map[i] = item[t]) BY <2>5, FillBlock
    <2>7. \/ /\ blk' = [blk EXCEPT ![t] = i] /\ map' = IF i > Len(map) THEN Append(map, item[t]) ELSE map
             /\ Goto(t, "obj0") /\ after' = after
          \/ /\ after' = [after EXCEPT ![t] = "failed"] /\ Goto(t, "exit") /\ blk' = blk /\ map' = map
      BY <1>8 DEF ObjectFill
    <2> HIDE DEF i
    <2>8. map \in Seq(Entries) /\ item[t] \in Entries /\ blk \in [Threads -> 0 .. MaxItem]
      BY <2>5 DEF TypesInv, TypeOK, Entries
    <2>9. CASE after' = [after EXCEPT ![t] = "failed"] /\ Goto(t, "exit") /\ blk' = blk /\ map' = map
      <3>1. pc'[t] = "exit" /\ after'[t] = "failed" BY <1>0, <2>9
      <3>2. CacheOf(t)' BY <2>1, <2>2, <2>3, <2>9, <3>1 DEF CacheOf
      <3> QED BY <1>i, <2>1, <2>9, <3>1, <3>2
    <2>10. CASE /\ blk' = [blk EXCEPT ![t] = i]
                /\ map' = IF i > Len(map) THEN Append(map, item[t]) ELSE map
                /\ Goto(t, "obj0") /\ after' = after
      <3>1. pc'[t] = "obj0" /\ blk'[t] = i /\ after'[t] = "idle" BY <1>0, <2>1, <2>8, <2>10
      <3>2. At(map', i, item[t])
        <4>1. CASE i > Len(map)
          <5>1. i = Len(map) + 1 /\ Len(map) \in Nat BY <2>6, <2>8, <4>1
          <5> QED BY <2>8, <2>10, <4>1, <5>1 DEF At
        <4>2. CASE i <= Len(map) BY <2>6, <2>8, <2>10, <4>2 DEF At
        <4> QED BY <2>6, <2>8, <4>1, <4>2
      <3>3. At(map', blk'[t], item'[t]) BY <2>2, <3>1, <3>2
      <3>4. CacheOf(t)' BY <2>1, <2>2, <2>3, <2>4, <3>1, <3>3 DEF CacheOf, At
      <3>5. pc' = [pc EXCEPT ![t] = pc'[t]] /\ after' = [after EXCEPT ![t] = after'[t]]
        BY <1>0, <2>1, <2>10, <3>1
      <3> QED BY <1>i, <2>1, <3>4, <3>5
    <2> QED BY <2>7, <2>9, <2>10
  <1>9. CASE ObjectWrite(t)
    <2>1. CacheOf(t) /\ pc[t] \in Saving /\ after[t] = "idle"
      BY <1>9, CacheToOne DEF ObjectWrite, CallInv
    <2>2. UNCHANGED <<mapC, map, inited, mutex, item, val, crashes, faults, bothCut>>
      BY <1>9 DEF ObjectWrite
    <2>3. pc' = [pc EXCEPT ![t] = pc'[t]] /\ after' = [after EXCEPT ![t] = after'[t]]
      BY <1>0, <1>9 DEF ObjectWrite
    <2>4. mutex = t /\ inited BY <1>0, <2>1 DEF MutexInv, OneInside, CacheOf
    <2>5. /\ objC \in [Items -> [Copies -> Blocks]] /\ blk[t] \in Items /\ 0 \in Copies /\ 1 \in Copies
          /\ At(map, blk[t], item[t])
      BY <2>1, StorageAssumption DEF CacheOf, At, TypesInv, TypeOK, Items, Copies
    <2>6. CASE pc[t] = "obj0"
      <3>1. pc'[t] = "obj1" /\ objC' = [objC EXCEPT ![blk[t]][0] = val[t]]
            /\ UNCHANGED <<objMedia, mapMedia, dirty, after, blk>>
        BY <1>0, <1>9, <2>6 DEF ObjectWrite
      <3>2. objC'[blk[t]][0] = val[t] /\ \A i \in Items : i # blk[t] => objC'[i] = objC[i]
        BY <2>5, <3>1
      <3>3. SameCopies' <=> SameCopies BY <2>2, <3>1 DEF SameCopies
      <3>4. CacheOf(t)' BY <2>1, <2>2, <2>4, <2>5, <2>6, <3>1, <3>2, <3>3 DEF CacheOf, At
      <3> QED BY <1>i, <2>1, <2>3, <3>4
    <2>7. CASE pc[t] = "obj1"
      <3>1. pc'[t] = "objSync" /\ objC' = [objC EXCEPT ![blk[t]][1] = val[t]]
            /\ UNCHANGED <<objMedia, mapMedia, dirty, after, blk>>
        BY <1>0, <1>9, <2>7 DEF ObjectWrite
      <3>2. /\ objC'[blk[t]][1] = val[t] /\ objC'[blk[t]][0] = objC[blk[t]][0]
            /\ \A i \in Items : i # blk[t] => objC'[i] = objC[i]
        BY <2>5, <3>1
      <3>3. SameCopies' <=> SameCopies BY <2>2, <3>1 DEF SameCopies
      <3>4. CacheOf(t)' BY <2>1, <2>2, <2>4, <2>5, <2>7, <3>1, <3>2, <3>3 DEF CacheOf, At
      <3> QED BY <1>i, <2>1, <2>3, <3>4
    <2>8. CASE pc[t] = "objSync"
      <3>1. pc'[t] = "exit" /\ objMedia' = objC /\ mapMedia' = mapC /\ dirty' = TRUE
            /\ after'[t] = "written" /\ objC' = objC
        BY <1>0, <1>9, <2>8 DEF ObjectWrite
      <3>2. CacheOf(t)' BY <2>1, <2>2, <2>4, <2>8, <3>1 DEF CacheOf
      <3> QED BY <1>i, <2>1, <2>3, <3>2
    <2> QED BY <2>1, <2>6, <2>7, <2>8
  <1>13. CASE MapFails(t)
    <2>1. CacheOf(t) /\ pc[t] \in {"map0", "map1"} BY <1>13, CacheToOne DEF MapFails
    <2>2. UNCHANGED <<mapC, mapMedia, objC, objMedia, map, inited, dirty, crashes, bothCut>>
          /\ mutex' = None /\ faults' # 0
      BY <1>0, <1>13 DEF MapFails
    <2>3. pc' = [pc EXCEPT ![t] = pc'[t]] /\ after' = [after EXCEPT ![t] = after'[t]]
          /\ pc'[t] \in {"failed", "private", "init"} /\ after'[t] = "idle"
      BY <1>0, <1>13 DEF MapFails, AfterFailedExit, Returns
    <2>4. SameCopies' <=> SameCopies BY <2>2 DEF SameCopies
    <2>5. CacheOf(t)' BY <2>1, <2>2, <2>3, <2>4 DEF CacheOf
    <2> QED BY <1>i, <2>1, <2>3, <2>5
  <1>14. CASE ObjectFails(t)
    <2>1. CacheOf(t) /\ pc[t] \in {"obj0", "obj1"} BY <1>14, CacheToOne DEF ObjectFails
    <2>2. UNCHANGED <<mapC, mapMedia, objC, objMedia, map, inited, dirty, mutex, crashes, bothCut>>
          /\ faults' # 0
      BY <1>0, <1>14 DEF ObjectFails
    <2>3. pc' = [pc EXCEPT ![t] = pc'[t]] /\ after' = [after EXCEPT ![t] = after'[t]]
          /\ pc'[t] = "exit" /\ after'[t] = "failed"
      BY <1>0, <1>14 DEF ObjectFails
    <2>4. SameCopies' <=> SameCopies BY <2>2 DEF SameCopies
    <2>5. CacheOf(t)' BY <2>1, <2>2, <2>3, <2>4 DEF CacheOf
    <2> QED BY <1>i, <2>1, <2>3, <2>5
  <1> QED BY <1>o, <1>4, <1>5, <1>6, <1>7, <1>8, <1>9, <1>13, <1>14 DEF Step, Fault, Call

\* After a power loss nothing is cached and everything is synced.
LEMMA CacheCrash ==
  ASSUME TypesInv, Crash
  PROVE  CacheInv'
  <1>1. objMedia' = objC' /\ mapMedia' = mapC' BY CrashObj, CrashMap DEF Crash
  <1>2. crashes' > 0 BY DEF Crash, TypesInv
  <1> QED BY <1>1, <1>2 DEF Crash, CacheInv, Saving

\* Every thread step keeps one entry per item in the private table.
LEMMA TableStep ==
  ASSUME ItemsFit, MutexInv, TypesInv, CallInv, TableInv, NEW t \in Threads,
         Step(t) \/ Fault(t) \/ Call(t)
  PROVE  TableInv'
  <1> USE DEF disk, memory, locals, bounds, hist
  <1>0. WholeTables \subseteq Tables BY DEF WholeTables
  <1>1. CASE env_read(t) BY <1>1 DEF env_read, TableInv, TypesInv
  <1>2. CASE env_write(t)
    <2>1. item[t] \in Names /\ val[t] \in Values BY <1>2, CallOf DEF env_write
    <2>2. priv' = modify_env_parameter(env[t], item[t], val[t])
          /\ UNCHANGED <<privMedia, env, crashes>>
      BY <1>2 DEF env_write
    <2>3. env[t] \in Tables => priv' \in Tables
      BY <2>1, <2>2, ModifyTable DEF Entries, Blocks
    <2>4. env[t] \in WholeTables => priv' \in WholeTables BY <2>1, <2>2, ModifyWhole
    <2> QED BY <2>2, <2>3, <2>4 DEF TableInv
  <1>3. CASE EnvSync(t)
    <2>1. <<>> \in WholeTables BY DEF WholeTables, Tables
    <2>2. UNCHANGED <<priv, crashes>> /\ privMedia' = priv
          /\ \A u \in Threads : env'[u] \in {env[u], <<>>}
      BY <1>3 DEF EnvSync, TypesInv
    <2> QED BY <1>0, <2>1, <2>2 DEF TableInv
  <1>4. CASE UNCHANGED <<priv, privMedia, env, crashes>> BY <1>4 DEF TableInv
  <1>5. UNCHANGED <<priv, privMedia, env, crashes>>
        \/ env_read(t) \/ env_write(t) \/ EnvSync(t)
    BY DEF Step, Fault, Call, sunxi_secure_storage_init, sunxi_secure_storage_exit, MapWrite,
           ObjectRead, ObjectFill, ObjectWrite, PrivateRead, Return, InitFails, MapFails,
           ObjectFails, PrivateFails, StartRead, StartWrite
  <1> QED BY <1>1, <1>2, <1>3, <1>4, <1>5

\* A power loss changes what the private partition has of an item to what was
\* synced or written, or tears the entry that was being synced.
LEMMA CrashEntries ==
  ASSUME ItemsFit, MutexInv, TypesInv, CallInv, TableInv, Crash, crashes = 0
  PROVE  /\ priv' \in Tables
         /\ \A n \in Names :
              \/ check_env_parameter(priv', n) \in {check_env_parameter(priv, n),
                                                    check_env_parameter(privMedia, n)}
              \/ /\ check_env_parameter(priv', n) = Torn
                 /\ \E t \in Threads : pc[t] = "envSync" /\ item[t] = n
  <1>1. priv \in WholeTables /\ privMedia \in WholeTables BY DEF TableInv
  <1>2. priv \in Tables /\ privMedia \in Tables BY <1>1 DEF WholeTables
  <1>3. CASE priv' = privMedia \/ priv' = priv BY <1>2, <1>3
  <1>4. CASE priv' = Append(privMedia, <<Junk, Torn>>)
    <2>1. \A i \in 1 .. Len(privMedia) : privMedia[i][1] # Junk
      BY <1>1, StorageAssumption DEF WholeTables
    <2>2. Junk \in Entries /\ Torn \in Blocks /\ Junk \notin Names
      BY StorageAssumption DEF Entries, Blocks
    <2> QED BY <1>2, <1>4, <2>1, <2>2, AppendTable
  <1>5. ASSUME NEW t \in Threads, pc[t] = "envSync",
               priv' = modify_env_parameter(priv, item[t], Torn)
        PROVE  /\ priv' \in Tables
               /\ \A n \in Names :
                    \/ check_env_parameter(priv', n) = check_env_parameter(priv, n)
                    \/ check_env_parameter(priv', n) = Torn /\ item[t] = n
    <2>1. item[t] \in Entries /\ Torn \in Blocks BY <1>5, CallOf DEF Entries, Blocks
    <2> QED BY <1>2, <1>5, <2>1, ModifyTable
  <1> QED BY <1>3, <1>4, <1>5, CrashPriv

\* So does a first power loss.
LEMMA TableCrash ==
  ASSUME ItemsFit, MutexInv, TypesInv, CallInv, TableInv, Crash
  PROVE  TableInv'
  <1>1. crashes' = crashes + 1 /\ crashes \in Nat BY DEF Crash, TypesInv
  <1>2. <<>> \in Tables BY DEF Tables
  <1>3. CASE crashes = 0
    <2>1. priv' \in Tables /\ privMedia' = priv' BY <1>3, CrashEntries, CrashPriv
    <2> QED BY <1>1, <1>2, <2>1 DEF Crash, TableInv
  <1>4. CASE crashes # 0 BY <1>1, <1>4 DEF TableInv
  <1> QED BY <1>3, <1>4

-----------------------------------------------------------------------------
(* The parts that hold as long as the failures are those of ReadsCommitted. *)

\* A thread step keeps the number of power losses, failures only add up.
LEMMA LiveStep ==
  ASSUME TypesInv, NEW t \in Threads, Step(t) \/ Fault(t) \/ Call(t)
  PROVE  /\ crashes' = crashes /\ bothCut' = bothCut
         /\ faults' = faults \/ faults' = faults + 1
         /\ faults' = 0 => faults = 0
         /\ Live' => Live /\ (raced' => ~Fault(t)) /\ (~raced' => ~raced)
  <1> USE DEF disk, memory, locals, bounds, hist
  <1>0. faults \in Nat /\ raced \in BOOLEAN /\ skipped \in BOOLEAN /\ crashes \in Nat
    BY DEF TypesInv, TypeOK
  <1>1. CASE Fault(t)
    <2>1. /\ crashes' = crashes /\ faults' = faults + 1 /\ raced' = raced /\ bothCut' = bothCut
          /\ skipped => skipped'
      <3>1. CASE InitFails(t) BY <3>1 DEF InitFails
      <3>2. CASE MapFails(t) BY <3>2 DEF MapFails
      <3>3. CASE ObjectFails(t) BY <3>3 DEF ObjectFails
      <3>4. CASE PrivateFails(t) BY <3>4 DEF PrivateFails
      <3> QED BY <1>1, <3>1, <3>2, <3>3, <3>4 DEF Fault
    <2> QED BY <1>0, <2>1 DEF Live
  <1>2. CASE ~Fault(t)
    <2>1. /\ crashes' = crashes /\ faults' = faults /\ skipped' = skipped /\ bothCut' = bothCut
          /\ raced => raced'
      <3>1. CASE env_write(t) BY <3>1 DEF env_write
      <3>2. UNCHANGED <<crashes, faults, skipped, bothCut, raced>> \/ env_write(t)
        BY <1>2 DEF Step, Call, env_read, EnvSync, sunxi_secure_storage_init,
               sunxi_secure_storage_exit, MapWrite, ObjectRead, ObjectFill, ObjectWrite,
               PrivateRead, Return, StartRead, StartWrite
      <3> QED BY <3>1, <3>2
    <2> QED BY <1>0, <1>2, <2>1 DEF Live
  <1> QED BY <1>1, <1>2

\* A map on disk is a sequence of entries with a block each.
LEMMA DiskType ==
  ASSUME TypesInv, NEW m \in DiskMaps
  PROVE  m \in Seq(Entries) /\ Len(m) \in Nat /\ Len(m) <= MaxItem
  <1>1. \A c \in Copies : mapC[c].m \in Seq(Entries) /\ mapMedia[c].m \in Seq(Entries)
                          /\ mapC[c] \in MapBlocks
                          /\ Len(mapC[c].m) <= MaxItem /\ Len(mapMedia[c].m) <= MaxItem
    BY DEF TypesInv, TypeOK, MapBlocks
  <1>2. 0 \in Copies /\ 1 \in Copies BY DEF Copies
  <1>3. CASE m \in sd_read_map(mapC[0], mapC[1])
    BY <1>1, <1>2, <1>3, ReadMapType
  <1>4. CASE m \in {mapC[0].m, mapC[1].m, mapMedia[0].m, mapMedia[1].m}
    BY <1>1, <1>2, <1>4
  <1> QED BY <1>3, <1>4 DEF DiskMaps

\* The maps on disk change only when the cached map is written.
LEMMA DiskStep ==
  ASSUME MutexInv, TypesInv, CallInv, CacheInv, NEW t \in Threads, Step(t) \/ Fault(t) \/ Call(t)
  PROVE  /\ DiskMaps' \subseteq DiskMaps \cup {map}
         /\ ~MapWrite(t) => DiskMaps' \subseteq DiskMaps
         /\ MapWrite(t) => inited
         /\ MapWrite(t) /\ pc[t] = "mapSync" => DiskMaps' = {map}
         /\ crashes = 0 /\ AllGood => AllGood'
         /\ crashes = 0 /\ MapWrite(t) /\ pc[t] = "mapSync" => AllGood'
  <1> USE DEF disk, memory, locals, bounds, hist
  <1>0. crashes' = crashes BY LiveStep
  <1>1. \A c \in Copies : mapC[c] \in MapBlocks /\ mapMedia[c] \in MapBlocks
    BY DEF TypesInv, TypeOK
  <1>2. 0 \in Copies /\ 1 \in Copies /\ mapC \in [Copies -> MapBlocks] BY DEF Copies, TypesInv, TypeOK
  <1>3. MapBlock("good", map) \in MapBlocks /\ MapBlock("good", map).st = "good"
        /\ MapBlock("good", map).m = map
    BY DEF MapBlock, MapBlocks, TypesInv, TypeOK
  <1>4. CASE MapWrite(t)
    <2>1. inited
      <3>1. pc[t] \in InSecure BY <1>4 DEF MapWrite, InSecure
      <3>2. mutex = t BY <3>1 DEF MutexInv, OneInside
      <3> QED BY <3>2, StorageAssumption DEF CacheInv
    <2>2. CASE pc[t] = "map0"
      <3>1. mapC' = [mapC EXCEPT ![0] = MapBlock("good", map)] /\ mapMedia' = mapMedia
        BY <1>4, <2>2 DEF MapWrite
      <3>2. mapC'[0] = MapBlock("good", map) /\ mapC'[1] = mapC[1] BY <1>2, <3>1
      <3>3. sd_read_map(mapC'[0], mapC'[1]) = {map} BY <1>1, <1>2, <1>3, <3>2, ReadMap
      <3>4. DiskMaps' \subseteq DiskMaps \cup {map}
        BY <1>0, <1>3, <3>1, <3>2, <3>3 DEF DiskMaps
      <3>5. AllGood => AllGood' BY <1>3, <3>1, <3>2 DEF AllGood, Copies
      <3> QED BY <1>4, <2>1, <2>2, <3>4, <3>5
    <2>3. CASE pc[t] = "map1"
      <3>1. mapC' = [mapC EXCEPT ![1] = MapBlock("good", map)] /\ mapMedia' = mapMedia
        BY <1>4, <2>3 DEF MapWrite
      <3>2. mapC'[1] = MapBlock("good", map) /\ mapC'[0] = mapC[0] BY <1>2, <3>1
      <3>3. mapC[0] = MapBlock("good", map) BY <2>3 DEF CacheInv
      <3>4. sd_read_map(mapC'[0], mapC'[1]) = {map} BY <1>1, <1>2, <1>3, <3>2, <3>3, ReadMap
      <3>5. DiskMaps' \subseteq DiskMaps \cup {map}
        BY <1>0, <1>3, <3>1, <3>2, <3>4 DEF DiskMaps
      <3>6. AllGood => AllGood' BY <1>3, <3>1, <3>2 DEF AllGood, Copies
      <3> QED BY <1>4, <2>1, <2>3, <3>5, <3>6
    <2>4. CASE pc[t] = "mapSync"
      <3>1. mapC' = mapC /\ mapMedia' = mapC BY <1>4, <2>4 DEF MapWrite
      <3>2. mapC[0] = MapBlock("good", map) /\ mapC[1] = MapBlock("good", map)
        BY <2>4 DEF CacheInv
      <3>3. sd_read_map(mapC'[0], mapC'[1]) = {map} BY <1>3, <3>1, <3>2, ReadMap
      <3>4. DiskMaps' = {map} BY <1>3, <3>1, <3>2, <3>3 DEF DiskMaps
      <3>5. AllGood' BY <1>3, <3>1, <3>2 DEF AllGood, Copies
      <3> QED BY <1>4, <2>1, <3>4, <3>5
    <2> QED BY <1>4, <2>2, <2>3, <2>4 DEF MapWrite
  <1>5. CASE ~MapWrite(t)
    <2>1. mapC' = mapC /\ mapMedia' \in {mapMedia, mapC}
      BY <1>5 DEF Step, Fault, Call, env_read, env_write, EnvSync, sunxi_secure_storage_init,
             sunxi_secure_storage_exit, ObjectRead, ObjectFill, ObjectWrite, PrivateRead,
             Return, InitFails, MapFails, ObjectFails, PrivateFails, StartRead, StartWrite
    <2>2. DiskMaps' \subseteq DiskMaps BY <1>0, <2>1 DEF DiskMaps
    <2>3. AllGood => AllGood' BY <2>1 DEF AllGood
    <2> QED BY <1>5, <2>2, <2>3
  <1> QED BY <1>4, <1>5

\* The map that sunxi_secure_storage_init reads has the names of every map on disk.
LEMMA InitReads ==
  ASSUME TypesInv, CacheInv, ~inited, NEW l \in sd_read_map(mapC[0], mapC[1])
  PROVE  l \in DiskMaps /\ \A m \in DiskMaps : NamePrefix(m, l)
  <1>1. mapC[0] \in MapBlocks /\ mapC[1] \in MapBlocks BY DEF TypesInv, TypeOK, Copies
  <1>2. l \in DiskMaps BY DEF DiskMaps
  <1>3. l \in Seq(Entries) BY <1>2, DiskType
  <1>4. CASE crashes = 0
    <2>1. SameCopies BY <1>4 DEF CacheInv
    <2>2. sd_read_map(mapC[0], mapC[1]) = {mapC[0].m}
      <3>1. mapC[0].st \in {"good", "nomagic"} /\ mapC[1].st = mapC[0].st
        BY <1>1, <2>1 DEF SameCopies, MapBlocks
      <3> QED BY <1>1, <3>1, ReadMap
    <2>3. DiskMaps = {l} BY <2>1, <2>2 DEF DiskMaps, SameCopies
    <2> QED BY <1>2, <1>3, <2>3 DEF NamePrefix
  <1>5. CASE crashes # 0
    <2>1. DiskMaps = sd_read_map(mapC[0], mapC[1]) BY <1>5 DEF DiskMaps
    <2>2. CASE DiskMaps = {l} BY <1>2, <1>3, <2>2 DEF NamePrefix
    <2>3. CASE DiskMaps \subseteq {<<>>, <<Junk>>}
      <3>1. NamePrefix(<<>>, l) BY DEF NamePrefix
      <3>2. NamePrefix(<<Junk>>, l) BY StorageAssumption DEF NamePrefix
      <3> QED BY <1>2, <2>3, <3>1, <3>2
    <2> QED BY <1>1, <2>1, <2>2, <2>3, ReadMap
  <1> QED BY <1>4, <1>5

\* Every thread step keeps the names in their blocks.
LEMMA MapStep ==
  ASSUME MutexInv, TypesInv, CallInv, CacheInv, MapInv, NEW t \in Threads,
         Step(t) \/ Fault(t) \/ Call(t)
  PROVE  MapInv'
  <1> USE DEF disk, memory, locals, bounds, hist
  <1>0. map \in Seq(Entries) /\ Len(map) \in Nat BY DEF TypesInv, TypeOK
  <1>1. /\ DiskMaps' \subseteq DiskMaps \cup {map} /\ (~MapWrite(t) => DiskMaps' \subseteq DiskMaps)
        /\ (MapWrite(t) => inited)
    BY DiskStep
  <1>2. \A m \in DiskMaps' : NamesOnce(m) BY <1>1 DEF MapInv
  <1>3. CASE inited' /\ inited /\ map' = map
    <2>1. NamePrefix(map, map) BY <1>0 DEF NamePrefix
    <2> QED BY <1>1, <1>2, <1>3, <2>1 DEF MapInv
  <1>4. CASE ~inited' BY <1>2, <1>4 DEF MapInv
  <1>5. CASE sunxi_secure_storage_init(t) /\ ~inited
    <2>1. map' \in sd_read_map(mapC[0], mapC[1]) BY <1>5 DEF sunxi_secure_storage_init
    <2>2. map' \in DiskMaps /\ \A m \in DiskMaps : NamePrefix(m, map') BY <1>5, <2>1, InitReads
    <2>3. DiskMaps' \subseteq DiskMaps BY <1>1, <1>5
    <2> QED BY <1>2, <2>2, <2>3 DEF MapInv
  <1>6. CASE ObjectFill(t)
    <2>1. item[t] \in Names /\ item[t] \in Entries BY <1>6, CallOf DEF ObjectFill, Entries
    <2>2. DiskMaps' \subseteq DiskMaps BY <1>1, <1>6 DEF ObjectFill, MapWrite
    <2>3. inited
      <3>1. pc[t] \in InSecure BY <1>6 DEF ObjectFill, InSecure
      <3> QED BY <3>1, StorageAssumption DEF MutexInv, OneInside, CacheInv
    <2>4. CASE map' = map BY <1>3, <1>6, <2>3, <2>4 DEF ObjectFill
    <2>5. CASE map' = Append(map, item[t]) /\ \A j \in 1 .. Len(map) : map[j] # item[t]
      <3>1. Len(map') = Len(map) + 1 /\ map'[Len(map) + 1] = item[t]
            /\ \A j \in 1 .. Len(map) : map'[j] = map[j]
        BY <1>0, <2>1, <2>5
      <3>2. NamesOnce(map') BY <1>0, <2>3, <2>5, <3>1 DEF MapInv, NamesOnce
      <3>3. \A m \in DiskMaps : NamePrefix(m, map')
        <4> SUFFICES ASSUME NEW m \in DiskMaps, NEW i \in 1 .. Len(m), m[i] \in Names
                     PROVE  i <= Len(map') /\ map'[i] = m[i]
          BY DEF NamePrefix
        <4>1. i <= Len(map) /\ map[i] = m[i] BY <2>3 DEF MapInv, NamePrefix
        <4>2. i \in 1 .. Len(map) BY <1>0, <4>1, DiskType
        <4> QED BY <1>0, <3>1, <4>1, <4>2
      <3> QED BY <1>2, <2>2, <3>2, <3>3 DEF MapInv
    <2>6. map' = map \/ (map' = Append(map, item[t]) /\ \A j \in 1 .. Len(map) : map[j] # item[t])
      BY <1>6, <2>1, FillBlock DEF ObjectFill
    <2> QED BY <2>4, <2>5, <2>6
  <1>7. \/ inited' /\ inited /\ map' = map
        \/ ~inited'
        \/ sunxi_secure_storage_init(t) /\ ~inited
        \/ ObjectFill(t)
    BY DEF Step, Fault, Call, env_read, env_write, EnvSync, sunxi_secure_storage_init,
           sunxi_secure_storage_exit, ObjectRead, ObjectWrite, PrivateRead, MapWrite,
           Return, InitFails, MapFails, ObjectFails, PrivateFails, StartRead, StartWrite
  <1> QED BY <1>3, <1>4, <1>5, <1>6, <1>7

\* The maps that a first power loss may leave.
LEMMA DiskCrash ==
  ASSUME TypesInv, Crash, crashes = 0, NEW m \in DiskMaps'
  PROVE  m \in DiskMaps \/ m = <<>> \/ m = <<Junk>>
  <1>1. crashes' # 0 BY DEF Crash, TypesInv
  <1>2. 0 \in Copies /\ 1 \in Copies BY DEF Copies
  <1>3. m \in sd_read_map(mapC'[0], mapC'[1]) BY <1>1 DEF DiskMaps
  <1>4. mapC'[0] \in MapBlocks /\ mapC'[1] \in MapBlocks BY <1>2, CrashMap
  <1>5. m \in {mapC'[0].m, mapC'[1].m, <<>>, <<Junk>>} BY <1>3, <1>4, ReadMap
  <1>6. mapC'[0].m \in {mapC[0].m, mapMedia[0].m, <<>>} /\ mapC'[1].m \in {mapC[1].m, mapMedia[1].m, <<>>}
    BY <1>2, CrashMap
  <1>7. {mapC[0].m, mapC[1].m, mapMedia[0].m, mapMedia[1].m} \subseteq DiskMaps BY DEF DiskMaps
  <1> QED BY <1>5, <1>6, <1>7

\* So does a first power loss.
LEMMA MapCrash ==
  ASSUME TypesInv, MapInv, Crash, crashes = 0
  PROVE  MapInv'
  <1>1. NamesOnce(<<>>) BY DEF NamesOnce
  <1>2. NamesOnce(<<Junk>>) BY StorageAssumption DEF NamesOnce
  <1>3. ~inited' BY DEF Crash
  <1> QED BY <1>1, <1>2, <1>3, DiskCrash DEF MapInv

\* The steps outside the secure storage.
LEMMA OwnOutside ==
  ASSUME MutexInv, TypesInv, CallInv, CacheInv, MapInv, OwnInv, SavedInv, NEW t \in Threads,
         \/ env_read(t) \/ env_write(t) \/ EnvSync(t) \/ PrivateRead(t) \/ Return(t) \/ PrivateFails(t) \/ InitFails(t)
         \/ \E n \in Names : StartRead(t, n) \/ \E v \in Values : StartWrite(t, n, v)
  PROVE  OwnInv'
  <1> USE DEF disk, memory, locals, bounds, hist, Goto
  <1>1. UNCHANGED <<mapC, mapMedia, objC, objMedia, map, inited, dirty, mutex, blk, after, crashes>>
    BY DEF env_read, env_write, EnvSync, PrivateRead, PrivateFails, Return, InitFails, StartRead, StartWrite
  <1>2. pc[t] \notin InSecure
    BY DEF env_read, env_write, EnvSync, PrivateRead, PrivateFails, Return, InitFails, StartRead, StartWrite, InSecure
  <1>3. \A u \in Threads : u # t => pc'[u] = pc[u]
    BY DEF env_read, env_write, EnvSync, PrivateRead, PrivateFails, Return, InitFails, StartRead, StartWrite,
           MutexInv, ExitInv
  <1>4. \A u \in Threads : pc[u] \in InSecure => pc'[u] = pc[u] BY <1>2, <1>3
  <1>5. (\A u \in Threads : ~Dropping(u)') => \A u \in Threads : ~Dropping(u)
    BY <1>1, <1>4 DEF Dropping, InSecure
  <1>6. \A u \in Threads : pc[u] \in Saving => pc'[u] \in Saving BY <1>4 DEF Saving, InSecure
  <1>7. DiskMaps' = DiskMaps BY <1>1 DEF DiskMaps
  <1>8. SUFFICES ASSUME NEW i \in Items, NEW n \in Names, Owned(i, n),
                        (\E m \in DiskMaps : At(m, i, n)) \/ At(map, i, n)
                 PROVE  Owned(i, n)'
    <2>1. \A m \in DiskMaps' : \A i \in Items : \A n \in Names : At(m, i, n) => Owned(i, n)'
      BY <1>7, <1>8 DEF OwnInv
    <2>2. (\A u \in Threads : ~Dropping(u)') => \A i \in Items : \A n \in Names : At(map', i, n) =>
             Owned(i, n)' \/ \E u \in Threads : pc'[u] \in Saving /\ blk'[u] = i
      <3> SUFFICES ASSUME \A u \in Threads : ~Dropping(u), NEW i \in Items, NEW n \in Names,
                          At(map, i, n)
                   PROVE  Owned(i, n)' \/ \E u \in Threads : pc'[u] \in Saving /\ blk[u] = i
        BY <1>1, <1>5
      <3>1. Owned(i, n) \/ \E u \in Threads : pc[u] \in Saving /\ blk[u] = i BY DEF OwnInv
      <3> QED BY <1>6, <1>8, <3>1
    <2> QED BY <2>1, <2>2 DEF OwnInv, At
  <1>9. CASE allowed[n] \subseteq allowed'[n] BY <1>1, <1>8, <1>9 DEF Owned
  <1>10. CASE pc[t] = "written" /\ Return(t) /\ n = item[t]
    <2>1. item[t] \in Names /\ val[t] \in Values BY <1>10, CallOf
    <2>2. allowed' = [allowed EXCEPT ![item[t]] = {val[t]}] BY <1>10 DEF Return
    <2>3. allowed'[n] = {val[t]} BY <1>10, <2>1, <2>2 DEF TypesInv
    <2>4. ~inited => map = <<>> BY DEF CacheInv
    <2>5. PICK m : At(m, i, n) /\ (m \in DiskMaps \/ (m = map /\ inited))
      BY <1>8, <2>4 DEF At
    <2>6. Holds(m, n, val[t]) BY <1>10, <2>5 DEF SavedInv
    <2>7. NamesOnce(m) BY <2>5 DEF MapInv
    <2>8. \A c \in Copies : objC[i][c] = val[t] /\ objMedia[i][c] = val[t]
      BY <2>1, <2>5, <2>6, <2>7 DEF Holds, NamesOnce, At
    <2> QED BY <1>1, <2>3, <2>8 DEF Owned
  <1>11. allowed[n] \subseteq allowed'[n] \/ (pc[t] = "written" /\ Return(t) /\ n = item[t])
    <2>1. CASE Return(t)
      <3>1. CASE pc[t] = "written"
        <4>1. item[t] \in Names BY <3>1, CallOf
        <4>2. allowed' = [allowed EXCEPT ![item[t]] = {val[t]}] BY <2>1, <3>1 DEF Return
        <4> QED BY <2>1, <3>1, <4>1, <4>2 DEF TypesInv
      <3>2. CASE pc[t] # "written" BY <2>1, <3>2 DEF Return
      <3> QED BY <3>1, <3>2
    <2>2. CASE ~Return(t)
      <3>1. allowed' = allowed \/ \E k \in Names : \E v \in Values : StartWrite(t, k, v)
        BY <2>2 DEF env_read, env_write, EnvSync, PrivateRead, PrivateFails, InitFails, StartRead
      <3>2. ASSUME NEW k \in Names, NEW v \in Values, StartWrite(t, k, v)
            PROVE  allowed[n] \subseteq allowed'[n]
        BY <3>2 DEF StartWrite, TypesInv
      <3> QED BY <3>1, <3>2
    <2> QED BY <2>1, <2>2
  <1> QED BY <1>9, <1>10, <1>11

\* What the cached map owns, seen by the thread that is inside.
LEMMA OwnedInside ==
  ASSUME MutexInv, CallInv, OwnInv, NEW t \in Threads, pc[t] \in InSecure \/ mutex = None,
         ~Dropping(t), NEW i \in Items, NEW n \in Names, At(map, i, n)
  PROVE  Owned(i, n) \/ (pc[t] \in Saving /\ blk[t] = i)
  <1>1. \A u \in Threads : u # t => pc[u] \notin InSecure BY Alone
  <1>2. \A u \in Threads : u # t => ~Dropping(u) /\ pc[u] \notin Saving
    BY <1>1 DEF Dropping, InSecure, Saving
  <1> QED BY <1>2 DEF OwnInv

\* OwnInv when every other thread is outside.
LEMMA OwnFromOne ==
  ASSUME NEW t \in Threads, \A u \in Threads : u # t => pc'[u] \notin InSecure,
         \A m \in DiskMaps' : \A i \in Items : \A n \in Names : At(m, i, n) => Owned(i, n)',
         ~Dropping(t)' => \A i \in Items : \A n \in Names : At(map', i, n) =>
           Owned(i, n)' \/ (pc'[t] \in Saving /\ blk'[t] = i)
  PROVE  OwnInv'
  <1>1. (\A u \in Threads : ~Dropping(u)') => \A i \in Items : \A n \in Names : At(map', i, n) =>
           Owned(i, n)' \/ \E u \in Threads : pc'[u] \in Saving /\ blk'[u] = i
    OBVIOUS
  <1> QED BY <1>1 DEF OwnInv, At

\* The steps inside the secure storage: a block is overwritten only for the item it
\* belongs to, and a new block only while its writer is inside.
LEMMA OwnInside ==
  ASSUME MutexInv, TypesInv, CallInv, CacheInv, MapInv, OwnInv, Live', NEW t \in Threads,
         \/ sunxi_secure_storage_init(t) \/ sunxi_secure_storage_exit(t) \/ MapWrite(t)
         \/ ObjectRead(t) \/ ObjectFill(t) \/ ObjectWrite(t) \/ MapFails(t) \/ ObjectFails(t)
  PROVE  OwnInv'
  <1> USE DEF disk, memory, locals, bounds, hist, Goto
  <1>0. Step(t) \/ Fault(t) \/ Call(t) BY DEF Step, Fault
  <1>1. pc[t] \in InSecure \/ mutex = None
    BY DEF sunxi_secure_storage_init, sunxi_secure_storage_exit, MapWrite, ObjectRead, ObjectFill,
           ObjectWrite, MapFails, ObjectFails, PrivateFails, InSecure
  <1>2. \A u \in Threads : u # t => pc'[u] \notin InSecure
    <2>1. \A u \in Threads : u # t => pc'[u] = pc[u]
      BY DEF sunxi_secure_storage_init, sunxi_secure_storage_exit, MapWrite, ObjectRead, ObjectFill,
             ObjectWrite, MapFails, ObjectFails, PrivateFails, MutexInv, ExitInv
    <2> QED BY <1>1, <2>1, Alone
  <1>3. CacheOf(t) BY <1>1, CacheToOne
  <1>4. pc \in [Threads -> InSecure \cup Outside] /\ after \in [Threads -> Returns \cup {"idle"}]
        /\ (pc[t] \notin Leaving => after[t] = "idle")
    BY DEF MutexInv, ExitInv, CallInv
  <1>5. allowed' = allowed /\ item' = item /\ val' = val
    BY DEF sunxi_secure_storage_init, sunxi_secure_storage_exit, MapWrite, ObjectRead, ObjectFill,
           ObjectWrite, MapFails, ObjectFails, PrivateFails
  <1>6. DiskMaps' \subseteq DiskMaps \cup {map} /\ (~MapWrite(t) => DiskMaps' \subseteq DiskMaps)
    BY <1>0, DiskStep
  <1>7. map \in Seq(Entries) /\ Len(map) \in Nat BY DEF TypesInv, TypeOK
  <1>8. \A i, n : ~At(<<>>, i, n) BY DEF At
  <1>9. ASSUME objC' = objC, objMedia' \in {objMedia, objC}, NEW i \in Items, NEW n \in Names,
               Owned(i, n)
        PROVE  Owned(i, n)'
    BY <1>5, <1>9 DEF Owned
  <1>10. CASE ~MapWrite(t) /\ ~ObjectWrite(t)
    <2>1. objC' = objC /\ objMedia' = objMedia
      BY <1>10 DEF sunxi_secure_storage_init, sunxi_secure_storage_exit, ObjectRead, ObjectFill,
                   MapFails, ObjectFails, PrivateFails
    <2>2. \A i \in Items : \A n \in Names : Owned(i, n) => Owned(i, n)' BY <1>9, <2>1
    <2>3. \A m \in DiskMaps' : \A i \in Items : \A n \in Names : At(m, i, n) => Owned(i, n)'
      BY <1>6, <1>10, <2>2 DEF OwnInv
    <2>4. ~Dropping(t)' => \A i \in Items : \A n \in Names : At(map', i, n) =>
            Owned(i, n)' \/ (pc'[t] \in Saving /\ blk'[t] = i)
      <3> SUFFICES ASSUME ~Dropping(t)', NEW i \in Items, NEW n \in Names, At(map', i, n)
                   PROVE  Owned(i, n)' \/ (pc'[t] \in Saving /\ blk'[t] = i)
        OBVIOUS
      <3>0. ASSUME ~Dropping(t), map' = map, pc[t] \notin Saving PROVE Owned(i, n)'
        BY <1>1, <2>2, <3>0, OwnedInside
      <3>1. CASE sunxi_secure_storage_init(t)
        <4>1. ~Dropping(t) /\ pc[t] \notin Saving
          BY <3>1 DEF sunxi_secure_storage_init, Dropping, Saving
        <4>2. CASE inited
          BY <3>0, <3>1, <4>1, <4>2 DEF sunxi_secure_storage_init
        <4>3. CASE ~inited
          <5>1. map' \in DiskMaps BY <3>1, <4>3, InitReads DEF sunxi_secure_storage_init
          <5> QED BY <2>2, <5>1 DEF OwnInv
        <4> QED BY <4>2, <4>3
      <3>2. CASE sunxi_secure_storage_exit(t)
        <4>1. CASE dirty
          BY <3>0, <3>2, <4>1 DEF sunxi_secure_storage_exit, Dropping, Saving
        <4>2. CASE ~dirty BY <1>8, <3>2, <4>2 DEF sunxi_secure_storage_exit
        <4> QED BY <4>1, <4>2
      <3>3. CASE ObjectRead(t)
        <4>1. ~Dropping(t) /\ pc[t] \notin Saving /\ map' = map BY <3>3 DEF ObjectRead, Dropping, Saving
        <4> QED BY <3>0, <4>1
      <3>4. CASE ObjectFill(t)
        <4>1. ~Dropping(t) /\ pc[t] \notin Saving BY <3>4 DEF ObjectFill, Dropping, Saving
        <4>2. CASE map' = map BY <3>0, <4>1, <4>2
        <4>3. CASE map' # map
          <5> DEFINE b == fill_name_in_map(item[t])
          <5>1. item[t] \in Names /\ item[t] \in Entries BY <3>4, CallOf DEF ObjectFill, Entries
          <5>2. b \in 1 .. Len(map) + 1 BY <5>1, FillBlock
          <5>3. b > Len(map) /\ map' = Append(map, item[t]) /\ blk' = [blk EXCEPT ![t] = b]
                /\ pc' = [pc EXCEPT ![t] = "obj0"]
            BY <3>4, <4>3 DEF ObjectFill
          <5> HIDE DEF b
          <5>4. b = Len(map) + 1 BY <1>7, <5>2, <5>3
          <5>5. blk'[t] = b /\ pc'[t] \in Saving BY <1>4, <5>3 DEF TypesInv, TypeOK, Saving
          <5>6. CASE i = b BY <5>5, <5>6
          <5>7. CASE i # b
            <6>1. At(map, i, n) BY <1>7, <5>1, <5>3, <5>4, <5>7 DEF At
            <6> QED BY <1>1, <2>2, <4>1, <6>1, OwnedInside
          <5> QED BY <5>6, <5>7
        <4> QED BY <4>2, <4>3
      <3>5. CASE MapFails(t)
        <4>1. ~Dropping(t) /\ pc[t] \notin Saving /\ map' = map BY <3>5 DEF MapFails, Dropping, Saving
        <4> QED BY <3>0, <4>1
      <3>6. CASE ObjectFails(t)
        <4>1. pc[t] \in {"obj0", "obj1"} /\ dirty' = dirty /\ faults' = faults + 1
              /\ pc'[t] = "exit" /\ after'[t] = "failed"
          BY <1>4, <3>6 DEF ObjectFails
        <4>2. dirty BY <4>1 DEF Dropping
        <4>3. faults # 0 BY <1>3, <1>4, <4>1, <4>2 DEF CacheOf, Leaving
        <4> QED BY <4>1, <4>3 DEF Live, TypesInv
      <3> QED BY <1>10, <3>1, <3>2, <3>3, <3>4, <3>5, <3>6
    <2> QED BY <1>2, <2>3, <2>4, OwnFromOne
  <1>11. CASE MapWrite(t)
    <2>1. objC' = objC /\ objMedia' \in {objMedia, objC} /\ map' \in {map, <<>>}
      BY <1>11 DEF MapWrite
    <2>2. \A i \in Items : \A n \in Names : Owned(i, n) => Owned(i, n)' BY <1>9, <2>1
    <2>3. ~Dropping(t) /\ pc[t] \notin Saving BY <1>11 DEF MapWrite, Dropping, Saving
    <2>4. \A i \in Items : \A n \in Names : At(map, i, n) => Owned(i, n)
      BY <1>1, <2>3, OwnedInside
    <2>5. \A m \in DiskMaps' : \A i \in Items : \A n \in Names : At(m, i, n) => Owned(i, n)'
      BY <1>6, <2>2, <2>4 DEF OwnInv
    <2> QED BY <1>2, <1>8, <2>1, <2>2, <2>4, <2>5, OwnFromOne
  <1>12. CASE ObjectWrite(t)
    <2>1. pc[t] \in Saving /\ ~Dropping(t) /\ ~MapWrite(t)
      BY <1>12 DEF ObjectWrite, Saving, Dropping, MapWrite
    <2>2. At(map, blk[t], item[t]) /\ map' = map BY <1>3, <1>12, <2>1 DEF CacheOf, ObjectWrite
    <2>3. op[t] = "write" /\ val[t] \in allowed[item[t]] /\ item[t] \in Names
      BY <2>1, CallOf DEF CallInv
    <2>4. blk[t] \in Items /\ objC \in [Items -> [Copies -> Blocks]]
      BY <2>2, StorageAssumption DEF At, Items, TypesInv, TypeOK
    <2>5. inited
      <3>1. mutex = t BY <2>1 DEF MutexInv, OneInside, Saving, InSecure
      <3> QED BY <3>1, StorageAssumption DEF CacheInv
    <2>6. CASE pc[t] \in {"obj0", "obj1"}
      <3>1. PICK c \in Copies : objC' = [objC EXCEPT ![blk[t]][c] = val[t]]
        BY <1>12, <2>6 DEF ObjectWrite, Copies
      <3>2. objMedia' = objMedia /\ blk' = blk /\ pc'[t] \in Saving
        BY <1>4, <1>12, <2>6 DEF ObjectWrite, Saving
      <3>3. \A i \in Items : i # blk[t] => objC'[i] = objC[i] BY <2>4, <3>1
      <3>4. \A d \in Copies : objC'[blk[t]][d] \in {objC[blk[t]][d], val[t]} BY <2>4, <3>1
      <3>5. \A i \in Items : \A n \in Names : i # blk[t] /\ Owned(i, n) => Owned(i, n)'
        BY <1>5, <3>2, <3>3 DEF Owned
      <3>6. Owned(blk[t], item[t]) => \A c1 \in Copies :
              /\ objC'[blk[t]][c1] \in allowed'[item[t]] \cup {Torn}
              /\ objMedia'[blk[t]][c1] \in allowed'[item[t]] \cup {Torn}
        BY <1>5, <2>3, <3>2, <3>4 DEF Owned
      <3>7. \A m \in DiskMaps' : \A i \in Items : \A n \in Names : At(m, i, n) => Owned(i, n)'
        <4> SUFFICES ASSUME NEW m \in DiskMaps', NEW i \in Items, NEW n \in Names, At(m, i, n)
                     PROVE  Owned(i, n)'
          OBVIOUS
        <4>1. m \in DiskMaps /\ Owned(i, n) BY <1>6, <2>1 DEF OwnInv
        <4>2. CASE i # blk[t] BY <3>5, <4>1, <4>2
        <4>3. CASE i = blk[t]
          <5>1. n = item[t] BY <2>2, <2>5, <4>1, <4>3 DEF MapInv, NamePrefix, At
          <5> QED BY <3>6, <4>1, <4>3, <5>1 DEF Owned
        <4> QED BY <4>2, <4>3
      <3>8. \A i \in Items : \A n \in Names : At(map', i, n) =>
              Owned(i, n)' \/ (pc'[t] \in Saving /\ blk'[t] = i)
        BY <1>1, <2>1, <2>2, <3>2, <3>5, OwnedInside
      <3> QED BY <1>2, <3>7, <3>8, OwnFromOne
    <2>7. CASE pc[t] = "objSync"
      <3>1. objC' = objC /\ objMedia' = objC BY <1>12, <2>7 DEF ObjectWrite
      <3>2. \A i \in Items : \A n \in Names : Owned(i, n) => Owned(i, n)' BY <1>9, <3>1
      <3>3. \A c \in Copies : objC[blk[t]][c] = val[t] BY <1>3, <2>7 DEF CacheOf, Copies
      <3>4. \A i \in Items : \A n \in Names : i = blk[t] /\ n = item[t] => Owned(i, n)'
        BY <1>5, <2>3, <3>1, <3>3 DEF Owned
      <3>5. \A m \in DiskMaps' : \A i \in Items : \A n \in Names : At(m, i, n) => Owned(i, n)'
        BY <1>6, <2>1, <3>2 DEF OwnInv
      <3>6. \A i \in Items : \A n \in Names : At(map', i, n) => Owned(i, n)'
        <4> SUFFICES ASSUME NEW i \in Items, NEW n \in Names, At(map, i, n)
                     PROVE  Owned(i, n)'
          BY <2>2
        <4>1. CASE i = blk[t] BY <2>2, <3>4, <4>1 DEF At
        <4>2. CASE i # blk[t] BY <1>1, <2>1, <3>2, <4>2, OwnedInside
        <4> QED BY <4>1, <4>2
      <3> QED BY <1>2, <3>5, <3>6, OwnFromOne
    <2> QED BY <2>1, <2>6, <2>7 DEF Saving
  <1> QED BY <1>10, <1>11, <1>12

\* A power loss brings no foreign value into a block.
LEMMA OwnCrash ==
  ASSUME TypesInv, OwnInv, Crash, crashes = 0
  PROVE  OwnInv'
  <1>1. allowed' = allowed /\ map' = <<>> BY DEF Crash
  <1>2. \A i \in Items : \A n \in Names : Owned(i, n) => Owned(i, n)'
    BY <1>1, CrashObj DEF Owned
  <1>3. \A m \in DiskMaps' : \A i \in Items : \A n \in Names : At(m, i, n) => Owned(i, n)'
    <2> SUFFICES ASSUME NEW m \in DiskMaps', NEW i \in Items, NEW n \in Names, At(m, i, n)
                 PROVE  Owned(i, n)'
      OBVIOUS
    <2>1. m # <<>> BY DEF At
    <2>2. m # <<Junk>> BY StorageAssumption DEF At
    <2>3. m \in DiskMaps BY <2>1, <2>2, DiskCrash
    <2> QED BY <1>2, <2>3 DEF OwnInv
  <1>4. \A i \in Items : \A n \in Names : ~At(map', i, n) BY <1>1 DEF At
  <1> QED BY <1>3, <1>4 DEF OwnInv, At

\* How a thread step changes the cached map.
LEMMA CachedStep ==
  ASSUME MutexInv, TypesInv, CallInv, CacheInv, NEW t \in Threads, Step(t) \/ Fault(t) \/ Call(t),
         inited'
  PROVE  \/ inited /\ map' = map
         \/ ~inited /\ map' \in DiskMaps
         \/ /\ inited /\ Len(map') = Len(map) + 1 /\ Len(map) \in Nat
            /\ \A j \in 1 .. Len(map) : map'[j] = map[j]
  <1> USE DEF disk, memory, locals, bounds, hist
  <1>1. CASE sunxi_secure_storage_init(t) /\ ~inited
    BY <1>1, InitReads DEF sunxi_secure_storage_init
  <1>2. CASE ObjectFill(t)
    <2>1. item[t] \in Names /\ item[t] \in Entries BY <1>2, CallOf DEF ObjectFill, Entries
    <2>2. inited
      <3>1. pc[t] \in InSecure BY <1>2 DEF ObjectFill, InSecure
      <3> QED BY <3>1, StorageAssumption DEF MutexInv, OneInside, CacheInv
    <2>3. map' = map \/ map' = Append(map, item[t]) BY <1>2 DEF ObjectFill
    <2>4. map \in Seq(Entries) /\ Len(map) \in Nat BY DEF TypesInv, TypeOK
    <2>5. Len(Append(map, item[t])) = Len(map) + 1
          /\ \A j \in 1 .. Len(map) : Append(map, item[t])[j] = map[j]
      BY <2>1, <2>4
    <2> QED BY <2>2, <2>3, <2>4, <2>5
  <1>3. \/ inited /\ map' = map
        \/ ~inited'
        \/ sunxi_secure_storage_init(t) /\ ~inited
        \/ ObjectFill(t)
    BY DEF Step, Fault, Call, env_read, env_write, EnvSync, sunxi_secure_storage_init,
           sunxi_secure_storage_exit, ObjectRead, ObjectWrite, PrivateRead, MapWrite,
           Return, InitFails, MapFails, ObjectFails, PrivateFails, StartRead, StartWrite
  <1> QED BY <1>1, <1>2, <1>3

\* Item n has one of the blocks G in map m.
InBlocks(m, n, G) == \E i \in G : At(m, i, n)

\* An item that has a block of G in every map keeps one.
LEMMA NamedStep ==
  ASSUME MutexInv, TypesInv, CallInv, CacheInv, NEW t \in Threads, Step(t) \/ Fault(t) \/ Call(t),
         NEW n \in Names, NEW G,
         \A m \in DiskMaps : InBlocks(m, n, G), inited => InBlocks(map, n, G)
  PROVE  /\ \A m \in DiskMaps' : InBlocks(m, n, G)
         /\ inited' => InBlocks(map', n, G)
  <1>1. DiskMaps' \subseteq DiskMaps \cup {map} /\ (~MapWrite(t) => DiskMaps' \subseteq DiskMaps)
        /\ (MapWrite(t) => inited)
    BY DiskStep
  <1>2. \A m \in DiskMaps' : InBlocks(m, n, G) BY <1>1
  <1>3. ASSUME inited' PROVE InBlocks(map', n, G)
    BY <1>3, CachedStep DEF InBlocks, At
  <1> QED BY <1>2, <1>3

\* How a thread step changes the object blocks.
LEMMA BlockStep ==
  ASSUME MutexInv, TypesInv, CallInv, CacheInv, NEW t \in Threads, Step(t) \/ Fault(t) \/ Call(t)
  PROVE  /\ objMedia' = objMedia \/ (objMedia' = objC /\ objC' = objC)
         /\ objC' = objC \/ (pc[t] \in {"obj0", "obj1"} /\ blk[t] \in Items /\ val[t] \in Values)
         /\ \A i \in Items : objC'[i] = objC[i] \/ (pc[t] \in Saving /\ blk[t] = i)
         /\ \A i \in Items : \A c \in Copies :
              objC'[i][c] = objC[i][c] \/ (objC'[i][c] = val[t] /\ val[t] \in Values)
  <1> USE DEF disk, memory, locals, bounds, hist
  <1>1. CASE ObjectWrite(t)
    <2>1. pc[t] \in Saving BY <1>1 DEF ObjectWrite, Saving
    <2>2. val[t] \in Values BY <2>1, CallOf
    <2>3. At(map, blk[t], item[t]) BY <2>1 DEF CacheInv
    <2>4. blk[t] \in Items /\ objC \in [Items -> [Copies -> Blocks]]
      BY <2>3, StorageAssumption DEF At, Items, TypesInv, TypeOK
    <2>5. CASE pc[t] \in {"obj0", "obj1"}
      <3>1. PICK c \in Copies : objC' = [objC EXCEPT ![blk[t]][c] = val[t]]
        BY <1>1, <2>5 DEF ObjectWrite, Copies
      <3>2. objMedia' = objMedia BY <1>1, <2>5 DEF ObjectWrite
      <3>3. \A i \in Items : i # blk[t] => objC'[i] = objC[i] BY <2>4, <3>1
      <3>4. \A i \in Items : \A d \in Copies : objC'[i][d] \in {objC[i][d], val[t]} BY <2>4, <3>1
      <3> QED BY <2>1, <2>2, <2>4, <2>5, <3>2, <3>3, <3>4
    <2>6. CASE pc[t] = "objSync" BY <1>1, <2>6 DEF ObjectWrite
    <2> QED BY <2>1, <2>5, <2>6 DEF Saving
  <1>2. CASE ~ObjectWrite(t)
    <2>1. objC' = objC /\ objMedia' \in {objMedia, objC}
      BY <1>2 DEF Step, Fault, Call, env_read, env_write, EnvSync, sunxi_secure_storage_init,
             sunxi_secure_storage_exit, ObjectRead, ObjectFill, PrivateRead, MapWrite,
             Return, InitFails, MapFails, ObjectFails, PrivateFails, StartRead, StartWrite
    <2> QED BY <2>1
  <1> QED BY <1>1, <1>2

\* What the secure storage has of an item it keeps, whatever is written next.
LEMMA SecureKeeps ==
  ASSUME MutexInv, TypesInv, CallInv, CacheInv, NEW t \in Threads, Step(t) \/ Fault(t) \/ Call(t),
         NEW n \in Names, SecureHas(n)
  PROVE  SecureHas(n)'
  <1>1. PICK G : G = {i \in Items : sd_read_key(i) # Torn} OBVIOUS
  <1>2. \A m \in DiskMaps : InBlocks(m, n, G)
    <2> SUFFICES ASSUME NEW m \in DiskMaps PROVE InBlocks(m, n, G) OBVIOUS
    <2>1. Len(m) \in Nat /\ Len(m) <= MaxItem /\ MaxItem \in Nat BY DiskType, StorageAssumption
    <2> QED BY <1>1, <2>1 DEF SecureHas, Readable, InBlocks, At, Items
  <1>3. inited => InBlocks(map, n, G)
    <2>1. Len(map) \in Nat /\ Len(map) <= MaxItem /\ MaxItem \in Nat
      BY StorageAssumption DEF TypesInv, TypeOK
    <2> QED BY <1>1, <2>1 DEF SecureHas, Readable, InBlocks, At, Items
  <1>4. /\ \A m \in DiskMaps' : InBlocks(m, n, G)
        /\ inited' => InBlocks(map', n, G)
    BY <1>2, <1>3, NamedStep
  <1>5. \A i \in G : sd_read_key(i)' # Torn
    <2> SUFFICES ASSUME NEW i \in Items, sd_read_key(i) # Torn PROVE sd_read_key(i)' # Torn
      BY <1>1
    <2>1. /\ objC'[i][0] = objC[i][0] \/ objC'[i][0] # Torn
          /\ objC'[i][1] = objC[i][1] \/ objC'[i][1] # Torn
      BY BlockStep, StorageAssumption DEF Copies
    <2>2. objC[i][0] # Torn \/ objC[i][1] # Torn BY DEF sd_read_key
    <2>3. objC'[i][0] # Torn \/ objC'[i][1] # Torn BY <2>1, <2>2
    <2> QED BY <2>3 DEF sd_read_key
  <1> QED BY <1>4, <1>5 DEF SecureHas, Readable, InBlocks, At

\* And what a finished write has stored, unless the step writes the same item.
LEMMA HoldsKeeps ==
  ASSUME MutexInv, TypesInv, CallInv, CacheInv, MapInv, NEW t \in Threads,
         Step(t) \/ Fault(t) \/ Call(t), NEW n \in Names, NEW v,
         \A m \in DiskMaps : Holds(m, n, v), inited => Holds(map, n, v),
         pc[t] \in Saving => item[t] # n
  PROVE  /\ \A m \in DiskMaps' : Holds(m, n, v)'
         /\ inited' => Holds(map, n, v)'
  <1>1. PICK G : G = {i \in Items : /\ \A c \in Copies : objC[i][c] = v /\ objMedia[i][c] = v
                                    /\ ~(pc[t] \in Saving /\ blk[t] = i)}
    OBVIOUS
  <1>0. pc[t] \in Saving => inited /\ At(map, blk[t], item[t])
    BY StorageAssumption DEF MutexInv, OneInside, CacheInv, Saving, InSecure
  <1>2. \A m \in DiskMaps : InBlocks(m, n, G)
    <2> SUFFICES ASSUME NEW m \in DiskMaps PROVE InBlocks(m, n, G) OBVIOUS
    <2>1. Len(m) \in Nat /\ Len(m) <= MaxItem /\ MaxItem \in Nat BY DiskType, StorageAssumption
    <2>2. PICK i \in 1 .. Len(m) : m[i] = n /\ \A c \in Copies : objC[i][c] = v /\ objMedia[i][c] = v
      BY DEF Holds
    <2>3. ~(pc[t] \in Saving /\ blk[t] = i) BY <1>0, <2>2 DEF MapInv, NamePrefix, At
    <2> QED BY <1>1, <2>1, <2>2, <2>3 DEF InBlocks, At, Items
  <1>3. inited => InBlocks(map, n, G)
    <2> SUFFICES ASSUME inited PROVE InBlocks(map, n, G) OBVIOUS
    <2>1. Len(map) \in Nat /\ Len(map) <= MaxItem /\ MaxItem \in Nat
      BY StorageAssumption DEF TypesInv, TypeOK
    <2>2. PICK i \in 1 .. Len(map) :
            map[i] = n /\ \A c \in Copies : objC[i][c] = v /\ objMedia[i][c] = v
      BY DEF Holds
    <2>3. ~(pc[t] \in Saving /\ blk[t] = i) BY <1>0, <2>2 DEF At
    <2> QED BY <1>1, <2>1, <2>2, <2>3 DEF InBlocks, At, Items
  <1>4. /\ \A m \in DiskMaps' : InBlocks(m, n, G)
        /\ inited' => InBlocks(map', n, G)
    BY <1>2, <1>3, NamedStep
  <1>5. \A i \in G : \A c \in Copies : objC'[i][c] = v /\ objMedia'[i][c] = v
    BY <1>1, BlockStep
  <1> QED BY <1>4, <1>5 DEF Holds, InBlocks, At

\* A step that stores to the private partition does not tear an entry.
LEMMA PrivTorn ==
  ASSUME ItemsFit, MutexInv, TypesInv, CallInv, TableInv, crashes <= 1, NEW t \in Threads,
         Step(t) \/ Fault(t) \/ Call(t), ~raced', NEW n \in Names,
         check_env_parameter(priv', n) = Torn
  PROVE  check_env_parameter(priv, n) = Torn
  <1> USE DEF disk, memory, locals, bounds, hist
  <1>1. CASE env_write(t)
    <2>1. item[t] \in Names /\ val[t] \in Values BY <1>1, CallOf DEF env_write
    <2>2. priv' = modify_env_parameter(priv, item[t], val[t]) BY <1>1 DEF env_write
    <2>3. priv \in Tables BY DEF TableInv
    <2>4. val[t] # Torn BY <2>1, StorageAssumption
    <2> QED BY <2>1, <2>2, <2>3, <2>4, ModifyTable DEF Entries, Blocks
  <1>2. priv' = priv \/ env_write(t)
    BY DEF Step, Fault, Call, env_read, EnvSync, sunxi_secure_storage_init,
           sunxi_secure_storage_exit, MapWrite, ObjectRead, ObjectFill, ObjectWrite, PrivateRead,
           Return, InitFails, MapFails, ObjectFails, PrivateFails, StartRead, StartWrite
  <1> QED BY <1>1, <1>2

\* How a write of another thread or of the same one gets to its return value.
LEMMA WrittenStep ==
  ASSUME Supported, MutexInv, TypesInv, CallInv, CacheInv, ~skipped', NEW t \in Threads,
         Step(t) \/ Fault(t) \/ Call(t), NEW u \in Threads
  PROVE  /\ after'[u] = "written" =>
              \/ /\ after[u] = "written" /\ map' = map /\ item'[u] = item[u] /\ val'[u] = val[u]
                 /\ objC' = objC /\ objMedia' \in {objMedia, objC}
              \/ /\ u = t /\ ObjectWrite(t) /\ pc[t] = "objSync"
         /\ pc'[u] = "written" =>
              \/ pc[u] = "written" /\ u # t /\ item'[u] = item[u] /\ val'[u] = val[u]
              \/ u = t /\ MapWrite(t) /\ pc[t] = "mapSync" /\ after[t] = "written"
  <1> USE DEF disk, memory, locals, bounds, hist, Goto
  <1>0. pc \in [Threads -> InSecure \cup Outside] /\ after \in [Threads -> Returns \cup {"idle"}]
        /\ op \in [Threads -> {"none", "read", "write"}]
        /\ (\A w \in Threads : pc[w] \notin Leaving => after[w] = "idle")
    BY DEF MutexInv, ExitInv, CallInv
  <1>1. CASE u # t
    <2>1. item'[u] = item[u] /\ val'[u] = val[u] /\ pc'[u] = pc[u] /\ after'[u] = after[u]
      BY <1>0, <1>1 DEF Step, Fault, Call, env_read, env_write, EnvSync, sunxi_secure_storage_init,
           sunxi_secure_storage_exit, MapWrite, ObjectRead, ObjectFill, ObjectWrite, PrivateRead,
           Return, InitFails, MapFails, ObjectFails, PrivateFails, StartRead, StartWrite, TypesInv
    <2>2. ASSUME after[u] = "written"
          PROVE  map' = map /\ objC' = objC /\ objMedia' \in {objMedia, objC}
      <3>1. pc[u] \in InSecure BY <1>0, <2>2 DEF Leaving, InSecure
      <3>2. pc[t] \notin InSecure /\ mutex # None
        BY <1>1, <3>1, Alone, StorageAssumption DEF MutexInv, OneInside
      <3> QED BY <3>2 DEF Step, Fault, Call, env_read, env_write, EnvSync, sunxi_secure_storage_init,
           sunxi_secure_storage_exit, MapWrite, ObjectRead, ObjectFill, ObjectWrite, PrivateRead,
           Return, InitFails, MapFails, ObjectFails, PrivateFails, StartRead, StartWrite, InSecure
    <2> QED BY <1>1, <2>1, <2>2
  <1>2. CASE u = t
    <2>0. op[t] \in {"none", "read", "write"} /\ after[t] \in Returns \cup {"idle"} BY <1>0
    <2>1. CASE pc[t] \notin InSecure
      <3>1. after[t] = "idle" BY <1>0, <2>1 DEF Leaving, InSecure
      <3>2. after'[t] # "written" /\ pc'[t] # "written"
        <4>1. CASE InitFails(t)
          <5>1. op[t] \in {"read", "write"} BY <4>1, CallOf DEF InitFails
          <5> QED BY <1>0, <3>1, <4>1, <5>1 DEF InitFails
        <4>2. CASE ~InitFails(t)
          BY <1>0, <2>1, <3>1, <4>2 DEF Step, Fault, Call, env_read, env_write, EnvSync,
           sunxi_secure_storage_init, sunxi_secure_storage_exit, MapWrite, ObjectRead, ObjectFill,
           ObjectWrite, PrivateRead, Return, MapFails, ObjectFails, PrivateFails, StartRead, StartWrite, InSecure
        <4> QED BY <4>1, <4>2
      <3> QED BY <1>2, <3>2
    <2>2. CASE sunxi_secure_storage_exit(t)
      BY <1>0, <1>2, <2>2 DEF sunxi_secure_storage_exit, CacheInv
    <2>3. CASE MapWrite(t) BY <1>0, <1>2, <2>3 DEF MapWrite
    <2>4. CASE MapFails(t)
      <3>1. after[t] \in Returns BY <2>4 DEF MapFails, MutexInv, ExitInv, Leaving
      <3>2. AfterFailedExit(t) # "written" BY <3>1 DEF AfterFailedExit, Returns
      <3> QED BY <1>0, <1>2, <2>4, <3>2 DEF MapFails
    <2>5. CASE ObjectRead(t) BY <1>0, <1>2, <2>5 DEF ObjectRead
    <2>6. CASE ObjectFill(t) BY <1>0, <1>2, <2>6 DEF ObjectFill, Leaving
    <2>7. CASE ObjectWrite(t) BY <1>0, <1>2, <2>7 DEF ObjectWrite, Leaving
    <2>8. CASE ObjectFails(t) BY <1>0, <1>2, <2>8 DEF ObjectFails
    <2> QED BY <2>1, <2>2, <2>3, <2>4, <2>5, <2>6, <2>7, <2>8
         DEF Step, Fault, Call, env_read, env_write, EnvSync, sunxi_secure_storage_init,
             PrivateRead, PrivateFails, Return, InitFails, StartRead, StartWrite, InSecure
  <1> QED BY <1>1, <1>2

\* What a step does to the values that a read may return.
LEMMA AllowedStep ==
  ASSUME MutexInv, TypesInv, CallInv, NEW t \in Threads, Step(t) \/ Fault(t) \/ Call(t),
         NEW n \in Names
  PROVE  /\ \/ allowed[n] \subseteq allowed'[n]
            \/ /\ Return(t) /\ pc[t] = "written" /\ n = item[t]
               /\ allowed'[n] = {val[t]} /\ val[t] \in Values
         /\ None \in allowed'[n] => None \in allowed[n]
  <1> USE DEF disk, memory, locals, bounds, hist
  <1>0. None \notin Values BY StorageAssumption
  <1>1. CASE Return(t)
    <2>1. CASE pc[t] = "written"
      <3>1. item[t] \in Names /\ val[t] \in Values BY <2>1, CallOf
      <3>2. allowed' = [allowed EXCEPT ![item[t]] = {val[t]}] BY <1>1, <2>1 DEF Return
      <3> QED BY <1>0, <1>1, <2>1, <3>1, <3>2 DEF TypesInv
    <2>2. CASE pc[t] # "written" BY <1>1, <2>2 DEF Return
    <2> QED BY <2>1, <2>2
  <1>2. ASSUME NEW k \in Names, NEW v \in Values, StartWrite(t, k, v)
        PROVE  allowed[n] \subseteq allowed'[n] /\ (None \in allowed'[n] => None \in allowed[n])
    BY <1>0, <1>2 DEF StartWrite, TypesInv
  <1>3. \/ allowed' = allowed \/ Return(t)
        \/ \E k \in Names : \E v \in Values : StartWrite(t, k, v)
    BY DEF Step, Fault, Call, env_read, env_write, EnvSync, sunxi_secure_storage_init,
           sunxi_secure_storage_exit, MapWrite, ObjectRead, ObjectFill, ObjectWrite, PrivateRead,
           InitFails, MapFails, ObjectFails, PrivateFails, StartRead
  <1> QED BY <1>1, <1>2, <1>3

\* A write that has stored its object, and one that is about to return 0.
LEMMA WritesStep ==
  ASSUME Supported, MutexInv, TypesInv, CallInv, CacheInv, MapInv, SavedInv, Live',
         NEW t \in Threads, Step(t) \/ Fault(t) \/ Call(t), NEW u \in Threads
  PROVE  /\ after'[u] = "written" => Holds(map, item[u], val[u])'
         /\ pc'[u] = "written" =>
              /\ \A m \in DiskMaps' : Holds(m, item[u], val[u])'
              /\ inited' => Holds(map, item[u], val[u])'
              /\ crashes' = 0 => AllGood'
  <1>0. ~skipped' BY DEF Live
  <1>1. ASSUME after'[u] = "written" PROVE Holds(map, item[u], val[u])'
    <2>1. CASE /\ after[u] = "written" /\ map' = map /\ item'[u] = item[u] /\ val'[u] = val[u]
               /\ objC' = objC /\ objMedia' \in {objMedia, objC}
      <3>1. Holds(map, item[u], val[u]) BY <2>1 DEF SavedInv
      <3> QED BY <2>1, <3>1 DEF Holds
    <2>2. CASE u = t /\ ObjectWrite(t) /\ pc[t] = "objSync"
      <3>1. At(map, blk[t], item[t]) /\ objC[blk[t]][0] = val[t] /\ objC[blk[t]][1] = val[t]
        BY <2>2 DEF CacheInv, Saving
      <3>2. map' = map /\ item' = item /\ val' = val /\ objC' = objC /\ objMedia' = objC
        BY <2>2 DEF ObjectWrite
      <3> QED BY <2>2, <3>1, <3>2 DEF Holds, At, Copies
    <2> QED BY <1>0, <1>1, <2>1, <2>2, WrittenStep
  <1>2. ASSUME pc'[u] = "written"
        PROVE  /\ \A m \in DiskMaps' : Holds(m, item[u], val[u])'
               /\ inited' => Holds(map, item[u], val[u])'
               /\ crashes' = 0 => AllGood'
    <2>1. CASE pc[u] = "written" /\ u # t /\ item'[u] = item[u] /\ val'[u] = val[u]
      <3>1. /\ \A m \in DiskMaps : Holds(m, item[u], val[u])
            /\ inited => Holds(map, item[u], val[u])
            /\ crashes = 0 => AllGood
        BY <2>1 DEF SavedInv
      <3>2. item[u] \in Names /\ op[u] = "write" BY <2>1, CallOf
      <3>3. pc[t] \in Saving => item[t] # item[u]
        BY <2>1, <3>2, CallOf DEF CallInv
      <3>4. /\ \A m \in DiskMaps' : Holds(m, item[u], val[u])'
            /\ inited' => Holds(map, item[u], val[u])'
        <4>1. PICK n \in Names, v \in {val[u]} : n = item[u] /\ v = val[u] BY <3>2
        <4>2. /\ \A m \in DiskMaps' : Holds(m, n, v)'
              /\ inited' => Holds(map, n, v)'
          BY <3>1, <3>3, <4>1, HoldsKeeps
        <4> QED BY <2>1, <4>1, <4>2 DEF Holds
      <3>5. crashes' = 0 => AllGood' BY <3>1, DiskStep, LiveStep
      <3> QED BY <2>1, <3>4, <3>5 DEF Holds
    <2>2. CASE u = t /\ MapWrite(t) /\ pc[t] = "mapSync" /\ after[t] = "written"
      <3>1. DiskMaps' = {map} /\ (crashes' = 0 => AllGood') BY <2>2, DiskStep, LiveStep
      <3>2. Holds(map, item[t], val[t]) BY <2>2 DEF SavedInv
      <3>3. ~inited' /\ item' = item /\ val' = val /\ objC' = objC /\ objMedia' = objC
        BY <2>2 DEF MapWrite
      <3> QED BY <2>2, <3>1, <3>2, <3>3 DEF Holds
    <2> QED BY <1>0, <1>2, <2>1, <2>2, WrittenStep
  <1> QED BY <1>1, <1>2

\* An item that a write has stored is named by every copy of the map.
LEMMA NamesKept ==
  ASSUME MutexInv, TypesInv, CallInv, CacheInv, MapInv, SavedInv, NEW t \in Threads,
         Step(t) \/ Fault(t) \/ Call(t), crashes' = 0, NEW n \in Names, Committed(n)'
  PROVE  AllGood' /\ \A m \in DiskMaps' : \E i \in 1 .. Len(m) : m[i] = n
  <1>0. crashes = 0 BY LiveStep
  <1>1. AllGood /\ \A m \in DiskMaps : \E i \in 1 .. Len(m) : m[i] = n
    <2>1. CASE Committed(n) BY <1>0, <2>1 DEF SavedInv
    <2>2. CASE pc[t] = "written" /\ n = item[t] BY <1>0, <2>2 DEF SavedInv, Holds
    <2> QED BY <2>1, <2>2, AllowedStep DEF Committed
  <1>2. \A m \in DiskMaps : InBlocks(m, n, Nat)
    <2> SUFFICES ASSUME NEW m \in DiskMaps PROVE InBlocks(m, n, Nat) OBVIOUS
    <2>1. Len(m) \in Nat BY DiskType
    <2> QED BY <1>1, <2>1 DEF InBlocks, At
  <1>3. ASSUME inited PROVE InBlocks(map, n, Nat)
    <2>1. mapC[0].m \in DiskMaps BY <1>0 DEF DiskMaps
    <2>2. PICK i \in 1 .. Len(mapC[0].m) : mapC[0].m[i] = n BY <1>1, <2>1
    <2>3. Len(mapC[0].m) \in Nat BY <2>1, DiskType
    <2>4. i <= Len(map) /\ map[i] = n BY <1>3, <2>1, <2>2 DEF MapInv, NamePrefix
    <2>5. Len(map) \in Nat BY DEF TypesInv, TypeOK
    <2> QED BY <2>2, <2>3, <2>4, <2>5 DEF InBlocks, At
  <1>4. \A m \in DiskMaps' : InBlocks(m, n, Nat) BY <1>2, <1>3, NamedStep
  <1>5. AllGood' BY <1>0, <1>1, DiskStep
  <1> QED BY <1>4, <1>5 DEF InBlocks, At

\* And a read finds its value there, unless the private partition has one.
LEMMA ValueKept ==
  ASSUME ItemsFit, MutexInv, TypesInv, CallInv, CacheInv, TableInv, SavedInv, Live',
         NEW t \in Threads, Step(t) \/ Fault(t) \/ Call(t), faults' = 0, ~bothCut',
         NEW n \in Names, Committed(n)', crashes' = 0 \/ check_env_parameter(priv', n) = Torn
  PROVE  SecureHas(n)'
  <1>1. /\ faults = 0 /\ ~bothCut /\ crashes' = crashes /\ Live BY LiveStep
  <1>2. CASE Committed(n)
    <2>1. crashes = 0 \/ check_env_parameter(priv, n) = Torn
      <3>1. CASE raced' BY <1>1, <3>1 DEF Live
      <3>2. CASE ~raced'
        <4>1. crashes <= 1 BY <1>1 DEF Live
        <4> QED BY <1>1, <3>2, <4>1, PrivTorn
      <3> QED BY <3>1, <3>2
    <2>2. SecureHas(n) BY <1>1, <1>2, <2>1 DEF SavedInv
    <2> QED BY <2>2, SecureKeeps
  <1>3. CASE pc[t] = "written" /\ n = item[t]
    <2>1. val[t] \in Values /\ val[t] # Torn BY <1>3, CallOf, StorageAssumption
    <2>2. \A m : Holds(m, n, val[t]) => Readable(m, n)
      BY <2>1 DEF Holds, Readable, sd_read_key, Copies
    <2>3. SecureHas(n) BY <1>3, <2>2 DEF SavedInv, SecureHas
    <2> QED BY <2>3, SecureKeeps
  <1> QED BY <1>2, <1>3, AllowedStep DEF Committed

\* Every thread step keeps what successful writes have stored.
LEMMA SavedStep ==
  ASSUME Supported, ItemsFit, MutexInv, TypesInv, CallInv, CacheInv, TableInv, MapInv, SavedInv,
         Live', NEW t \in Threads, Step(t) \/ Fault(t) \/ Call(t)
  PROVE  SavedInv'
  <1>1. \A u \in Threads :
          /\ after'[u] = "written" => Holds(map, item[u], val[u])'
          /\ pc'[u] = "written" =>
               /\ \A m \in DiskMaps' : Holds(m, item[u], val[u])'
               /\ inited' => Holds(map, item[u], val[u])'
               /\ crashes' = 0 => AllGood'
    BY WritesStep
  <1>2. crashes' = 0 => \A n \in Names : Committed(n)' =>
          AllGood' /\ \A m \in DiskMaps' : \E i \in 1 .. Len(m) : m[i] = n
    BY NamesKept
  <1>3. faults' = 0 /\ ~bothCut' => \A n \in Names :
          Committed(n)' /\ (crashes' = 0 \/ check_env_parameter(priv', n) = Torn) => SecureHas(n)'
    BY ValueKept
  <1>4. \A n : check_env_parameter(priv', n) = check_env_parameter(priv, n)'
    BY DEF check_env_parameter, EnvIndex
  <1> QED BY <1>1, <1>2, <1>3, <1>4 DEF SavedInv

\* A power loss that tears the private entry of a stored item while the map is
\* not being synced leaves its value in the secure storage.
LEMMA SecureSurvives ==
  ASSUME MutexInv, TypesInv, CallInv, CacheInv, MapInv, SavedInv, Crash, crashes = 0, faults = 0,
         ~bothCut', NEW n \in Names, Committed(n),
         NEW u \in Threads, pc[u] = "envSync", item[u] = n
  PROVE  SecureHas(n)'
  <1>0. 0 \in Copies /\ 1 \in Copies BY DEF Copies
  <1>1. ~bothCut /\ \A w \in Threads : pc[w] # "mapSync" BY DEF Crash
  <1>2. mapC[1] = mapMedia[1] BY <1>1 DEF CacheInv
  <1>3. AllGood /\ SecureHas(n) BY <1>1 DEF SavedInv
  <1>4. mapC'[1] = mapC[1] /\ mapC'[1].st = "good" BY <1>0, <1>2, <1>3, CrashMap DEF AllGood
  <1>5. \/ mapC'[0].st = "good" /\ mapC'[0].m \in {mapC[0].m, mapMedia[0].m}
        \/ mapC'[0].st = "torn"
    BY <1>0, <1>3, CrashMap DEF AllGood
  <1>6. mapC'[0] \in MapBlocks /\ mapC'[1] \in MapBlocks BY <1>0, CrashMap
  <1>7. crashes' # 0 /\ ~inited' BY DEF Crash, TypesInv
  <1>8. DiskMaps' \subseteq DiskMaps
    <2>1. DiskMaps' = sd_read_map(mapC'[0], mapC'[1]) BY <1>7 DEF DiskMaps
    <2>2. DiskMaps' \subseteq {mapC[0].m, mapMedia[0].m, mapC[1].m}
      BY <1>4, <1>5, <1>6, <2>1, ReadMap
    <2> QED BY <2>2 DEF DiskMaps
  <1>9. ASSUME NEW m \in DiskMaps PROVE Readable(m, n)'
    <2>1. Len(m) \in Nat /\ Len(m) <= MaxItem /\ MaxItem \in Nat BY DiskType, StorageAssumption
    <2>2. PICK i \in 1 .. Len(m) : m[i] = n /\ sd_read_key(i) # Torn
      BY <1>3 DEF SecureHas, Readable
    <2>3. i \in Items BY <2>1 DEF Items
    <2>4. ASSUME NEW w \in Threads, pc[w] \in Saving, blk[w] = i PROVE FALSE
      <3>1. inited BY <2>4, StorageAssumption DEF MutexInv, OneInside, CacheInv, Saving, InSecure
      <3>2. At(map, i, item[w]) BY <2>4 DEF CacheInv
      <3>3. item[w] = n BY <2>2, <3>1, <3>2 DEF MapInv, NamePrefix, At
      <3>4. op[w] = "write" /\ op[u] = "write" BY <2>4, CallOf
      <3>5. w = u BY <3>3, <3>4 DEF CallInv
      <3> QED BY <2>4, <3>5 DEF Saving
    <2>5. objC[i][0] = objMedia[i][0] /\ objC[i][1] = objMedia[i][1]
      BY <1>0, <2>3, <2>4 DEF CacheInv
    <2>6. objC'[i][0] = objC[i][0] /\ objC'[i][1] = objC[i][1] BY <1>0, <2>3, <2>5, CrashObj
    <2>7. sd_read_key(i)' # Torn BY <2>2, <2>6 DEF sd_read_key
    <2> QED BY <2>2, <2>7 DEF Readable
  <1> QED BY <1>7, <1>8, <1>9 DEF SecureHas

\* So does a first power loss.
LEMMA SavedCrash ==
  ASSUME ItemsFit, MutexInv, TypesInv, CallInv, CacheInv, TableInv, MapInv, SavedInv, Crash,
         crashes = 0
  PROVE  SavedInv'
  <1>1. crashes' # 0 /\ ~inited' /\ allowed' = allowed /\ faults' = faults BY DEF Crash, TypesInv
  <1>2. \A t \in Threads : pc'[t] # "written" /\ after'[t] # "written" BY DEF Crash
  <1>3. ASSUME faults' = 0, ~bothCut', NEW n \in Names, Committed(n)',
               check_env_parameter(priv', n) = Torn
        PROVE  SecureHas(n)'
    <2>1. Committed(n) BY <1>1, <1>3 DEF Committed
    <2>2. priv \in WholeTables /\ privMedia \in WholeTables BY DEF TableInv
    <2>3. check_env_parameter(priv, n) # Torn /\ check_env_parameter(privMedia, n) # Torn
      BY <2>2, CheckWhole
    <2>4. PICK u \in Threads : pc[u] = "envSync" /\ item[u] = n
      BY <1>3, <2>3, CrashEntries
    <2> QED BY <1>1, <1>3, <2>1, <2>4, SecureSurvives
  <1>4. \A n : check_env_parameter(priv', n) = check_env_parameter(priv, n)'
    BY DEF check_env_parameter, EnvIndex
  <1> QED BY <1>1, <1>2, <1>3, <1>4 DEF SavedInv

\* A step of one thread leaves the locals of the others alone.
LEMMA OthersStep ==
  ASSUME MutexInv, TypesInv, NEW t \in Threads, Step(t) \/ Fault(t) \/ Call(t),
         NEW u \in Threads, u # t
  PROVE  /\ pc'[u] = pc[u] /\ op'[u] = op[u] /\ item'[u] = item[u] /\ val'[u] = val[u]
         /\ env'[u] = env[u] /\ after'[u] = after[u] /\ res'[u] = res[u] /\ blk'[u] = blk[u]
  BY DEF disk, memory, locals, bounds, hist, Goto, Step, Fault, Call, env_read, env_write, EnvSync,
         sunxi_secure_storage_init, sunxi_secure_storage_exit, MapWrite, ObjectRead, ObjectFill,
         ObjectWrite, PrivateRead, Return, InitFails, MapFails, ObjectFails, PrivateFails, StartRead, StartWrite,
         TypesInv, TypeOK, MutexInv, ExitInv

\* The steps that touch the private partition or a copy of it, and those that
\* start or end a call.
LEMMA PrivMoves ==
  ASSUME MutexInv, TypesInv, CallInv, NEW t \in Threads, Step(t) \/ Fault(t) \/ Call(t)
  PROVE  /\ \/ env_read(t) \/ env_write(t) \/ EnvSync(t)
            \/ UNCHANGED <<priv, privMedia, env>>
         /\ op'[t] = "write" => pc'[t] = "envRead" \/ (op[t] = "write" /\ item' = item /\ val' = val)
         /\ op'[t] = "write" /\ pc'[t] \in Synced \cup {"envSync"} =>
              pc[t] \in Synced \/ env_write(t) \/ EnvSync(t)
  <1> USE DEF disk, memory, locals, bounds, hist, Goto
  <1>1. \/ env_read(t) \/ env_write(t) \/ EnvSync(t)
        \/ UNCHANGED <<priv, privMedia, env>>
    BY DEF Step, Fault, Call, sunxi_secure_storage_init, sunxi_secure_storage_exit, MapWrite,
           ObjectRead, ObjectFill, ObjectWrite, PrivateRead, Return, InitFails, MapFails,
           ObjectFails, PrivateFails, StartRead, StartWrite
  <1>2. op'[t] = "write" => pc'[t] = "envRead" \/ (op[t] = "write" /\ item' = item /\ val' = val)
    <2>1. op \in [Threads -> {"none", "read", "write"}] /\ pc \in [Threads -> InSecure \cup Outside]
      BY DEF MutexInv, ExitInv
    <2> QED
      BY <2>1 DEF Step, Fault, Call, env_read, env_write, EnvSync, sunxi_secure_storage_init,
           sunxi_secure_storage_exit, MapWrite, ObjectRead, ObjectFill, ObjectWrite, PrivateRead,
           Return, InitFails, MapFails, ObjectFails, PrivateFails, StartRead, StartWrite
  <1>3. ASSUME op'[t] = "write", pc'[t] \in Synced \cup {"envSync"}
        PROVE  pc[t] \in Synced \/ env_write(t) \/ EnvSync(t)
    <2>1. op[t] = "write" BY <1>2, <1>3 DEF Synced, Saving, Leaving
    <2>2. pc[t] \in WritePoints BY <2>1 DEF CallInv
    <2>5. ~PrivateFails(t)
      <3>1. PrivateFails(t) => pc'[t] = "failed" BY DEF PrivateFails, MutexInv, ExitInv
      <3> QED BY <1>3, <3>1 DEF Synced, Saving, Leaving
    <2>3. CASE pc[t] = "envRead"
      <3>1. env_read(t)
        BY <2>3, <2>5 DEF Step, Fault, Call, env_write, EnvSync, sunxi_secure_storage_init,
           sunxi_secure_storage_exit, MapWrite, ObjectRead, ObjectFill, ObjectWrite, PrivateRead,
           Return, InitFails, MapFails, ObjectFails, StartRead, StartWrite
      <3>2. pc'[t] = "envWrite" BY <3>1 DEF env_read, MutexInv, ExitInv
      <3> QED BY <1>3, <3>2 DEF Synced, Saving, Leaving
    <2>4. CASE pc[t] \in {"envWrite", "envSync"}
      BY <2>4, <2>5 DEF Step, Fault, Call, env_read, sunxi_secure_storage_init,
           sunxi_secure_storage_exit, MapWrite, ObjectRead, ObjectFill, ObjectWrite, PrivateRead,
           Return, InitFails, MapFails, ObjectFails, StartRead, StartWrite
    <2>6. CASE pc[t] = "failed"
      <3>1. Return(t)
        BY <2>1, <2>6 DEF Step, Fault, Call, env_read, env_write, EnvSync, sunxi_secure_storage_init,
           sunxi_secure_storage_exit, MapWrite, ObjectRead, ObjectFill, ObjectWrite, PrivateRead,
           InitFails, MapFails, ObjectFails, PrivateFails, StartRead, StartWrite, Leaving
      <3> QED BY <1>3, <3>1 DEF Return, MutexInv, ExitInv, Synced, Saving, Leaving
    <2> QED BY <2>2, <2>3, <2>4, <2>6 DEF WritePoints, Synced
  <1> QED BY <1>1, <1>2, <1>3

\* What env_write leaves in the private partition, and the empty copy.
LEMMA EntryWritten ==
  ASSUME ItemsFit, MutexInv, TypesInv, CallInv, TableInv, crashes <= 1, NEW t \in Threads,
         env_write(t)
  PROVE  /\ op[t] = "write" /\ item[t] \in Names /\ val[t] \in Values /\ val[t] \in allowed[item[t]]
         /\ check_env_parameter(priv', item[t]) = val[t]
         /\ \A n : n # item[t] => check_env_parameter(priv', n) = check_env_parameter(env[t], n)
         /\ privMedia' = privMedia /\ env' = env /\ item' = item /\ val' = val /\ op' = op
         /\ allowed' = allowed
         /\ ~raced' => env[t] = priv
  <1>1. pc[t] = "envWrite" BY DEF env_write
  <1>2. op[t] = "write" /\ item[t] \in Names /\ val[t] \in Values BY <1>1, CallOf
  <1>3. val[t] \in allowed[item[t]] BY <1>2 DEF CallInv
  <1>4. priv' = modify_env_parameter(env[t], item[t], val[t]) BY DEF env_write
  <1>5. env[t] \in Tables BY DEF TableInv
  <1>6. /\ check_env_parameter(priv', item[t]) = val[t]
        /\ \A n : n # item[t] => check_env_parameter(priv', n) = check_env_parameter(env[t], n)
    BY <1>2, <1>4, <1>5, ModifyTable DEF Entries, Blocks
  <1> QED BY <1>2, <1>3, <1>6 DEF env_write, locals

\* The empty table has no item.
LEMMA CheckEmpty ==
  ASSUME NEW n
  PROVE  check_env_parameter(<<>>, n) = None
  BY StorageAssumption DEF check_env_parameter, EnvIndex, MinOf

\* What is allowed or torn stays so in the private partition and its copies.
LEMMA EntriesStep ==
  ASSUME ItemsFit, MutexInv, TypesInv, CallInv, TableInv, PrivInv, Live', NEW t \in Threads,
         Step(t) \/ Fault(t) \/ Call(t), NEW n \in Names
  PROVE  /\ None \in allowed'[n] =>
              /\ check_env_parameter(priv', n) \in allowed'[n] \cup {Torn}
              /\ check_env_parameter(privMedia', n) \in allowed'[n] \cup {Torn}
              /\ \A u \in Threads : check_env_parameter(env'[u], n) \in allowed'[n] \cup {Torn}
         /\ ~raced' =>
              /\ check_env_parameter(priv', n) \in allowed'[n] \cup {Torn}
              /\ check_env_parameter(privMedia', n) \in allowed'[n] \cup {Torn}
  <1>0. crashes <= 1 BY LiveStep DEF Live
  <1>1. ASSUME None \in allowed'[n]
        PROVE  /\ check_env_parameter(priv', n) \in allowed'[n] \cup {Torn}
               /\ check_env_parameter(privMedia', n) \in allowed'[n] \cup {Torn}
               /\ \A u \in Threads : check_env_parameter(env'[u], n) \in allowed'[n] \cup {Torn}
    <2>1. None \in allowed[n] /\ allowed[n] \subseteq allowed'[n]
      BY <1>1, AllowedStep, StorageAssumption
    <2>2. /\ check_env_parameter(priv, n) \in allowed[n] \cup {Torn}
          /\ check_env_parameter(privMedia, n) \in allowed[n] \cup {Torn}
          /\ \A u \in Threads : check_env_parameter(env[u], n) \in allowed[n] \cup {Torn}
      BY <2>1 DEF PrivInv
    <2>3. CASE env_read(t)
      <3>1. UNCHANGED <<priv, privMedia>> /\ env' = [env EXCEPT ![t] = priv]
        BY <2>3 DEF env_read, disk
      <3>2. \A u \in Threads : env'[u] \in {env[u], priv} BY <3>1 DEF TypesInv
      <3> QED BY <2>1, <2>2, <3>1, <3>2
    <2>4. CASE env_write(t) BY <1>0, <2>1, <2>2, <2>4, EntryWritten
    <2>5. CASE EnvSync(t)
      <3>1. priv' = priv /\ privMedia' = priv /\ env' = [env EXCEPT ![t] = <<>>]
        BY <2>5 DEF EnvSync
      <3>2. \A u \in Threads : env'[u] \in {env[u], <<>>} BY <3>1 DEF TypesInv
      <3> QED BY <1>1, <2>1, <2>2, <3>1, <3>2, CheckEmpty
    <2>6. CASE UNCHANGED <<priv, privMedia, env>> BY <2>1, <2>2, <2>6
    <2> QED BY <2>3, <2>4, <2>5, <2>6, PrivMoves
  <1>2. ASSUME ~raced'
        PROVE  /\ check_env_parameter(priv', n) \in allowed'[n] \cup {Torn}
               /\ check_env_parameter(privMedia', n) \in allowed'[n] \cup {Torn}
    <2>1. ~raced BY <1>2, LiveStep
    <2>2. /\ check_env_parameter(priv, n) \in allowed[n] \cup {Torn}
          /\ check_env_parameter(privMedia, n) \in allowed[n] \cup {Torn}
      BY <2>1 DEF PrivInv
    <2>3. CASE Return(t) /\ pc[t] = "written" /\ n = item[t] /\ allowed'[n] = {val[t]}
      <3>1. op[t] = "write" BY <2>3, CallOf
      <3>2. check_env_parameter(priv, n) = val[t] /\ check_env_parameter(privMedia, n) = val[t]
        BY <2>1, <2>3, <3>1 DEF PrivInv, Synced
      <3>3. UNCHANGED <<priv, privMedia>> BY <2>3 DEF Return, disk
      <3> QED BY <2>3, <3>2, <3>3
    <2>4. CASE allowed[n] \subseteq allowed'[n]
      <3>1. CASE env_read(t) BY <2>2, <2>4, <3>1 DEF env_read, disk
      <3>2. CASE env_write(t) BY <1>0, <1>2, <2>2, <3>2, EntryWritten
      <3>3. CASE EnvSync(t) BY <2>2, <2>4, <3>3 DEF EnvSync
      <3>4. CASE UNCHANGED <<priv, privMedia, env>> BY <2>2, <2>4, <3>4
      <3> QED BY <3>1, <3>2, <3>3, <3>4, PrivMoves
    <2> QED BY <2>3, <2>4, AllowedStep
  <1> QED BY <1>1, <1>2

\* A write finds its value in the private partition from its env_write on.
LEMMA OwnEntryStep ==
  ASSUME ItemsFit, MutexInv, TypesInv, CallInv, TableInv, PrivInv, Live', NEW t \in Threads,
         Step(t) \/ Fault(t) \/ Call(t), ~raced', NEW u \in Threads, op'[u] = "write"
  PROVE  /\ pc'[u] \in Synced \cup {"envSync"} => check_env_parameter(priv', item'[u]) = val'[u]
         /\ pc'[u] \in Synced => check_env_parameter(privMedia', item'[u]) = val'[u]
  <1>0. crashes <= 1 /\ ~raced BY LiveStep DEF Live
  <1>1. \A w \in Threads : op[w] = "write" =>
          /\ pc[w] \in Synced \cup {"envSync"} => check_env_parameter(priv, item[w]) = val[w]
          /\ pc[w] \in Synced => check_env_parameter(privMedia, item[w]) = val[w]
    BY <1>0 DEF PrivInv
  <1>2. CASE u = t
    <2> SUFFICES ASSUME pc'[t] \in Synced \cup {"envSync"}
                 PROVE  /\ check_env_parameter(priv', item'[t]) = val'[t]
                        /\ pc'[t] \in Synced => check_env_parameter(privMedia', item'[t]) = val'[t]
      BY <1>2
    <2>1. op[t] = "write" /\ item' = item /\ val' = val
      BY <1>2, PrivMoves DEF Synced, Saving, Leaving
    <2>2. CASE env_write(t)
      <3>1. pc'[t] = "envSync" BY <2>2 DEF env_write, Goto, MutexInv, ExitInv
      <3> QED BY <1>0, <2>1, <2>2, <3>1, EntryWritten DEF Synced, Saving, Leaving
    <2>3. CASE EnvSync(t) BY <1>1, <2>1, <2>3 DEF EnvSync
    <2>4. CASE pc[t] \in Synced /\ ~env_write(t) /\ ~EnvSync(t)
      <3>1. UNCHANGED <<priv, privMedia>>
        BY <2>4, PrivMoves DEF env_read, Synced, Saving, Leaving
      <3> QED BY <1>1, <2>1, <2>4, <3>1
    <2> QED BY <1>2, <2>2, <2>3, <2>4, PrivMoves
  <1>3. CASE u # t
    <2>1. pc'[u] = pc[u] /\ op[u] = "write" /\ item'[u] = item[u] /\ val'[u] = val[u]
      BY <1>3, OthersStep
    <2>2. CASE env_read(t) BY <1>1, <2>1, <2>2 DEF env_read, disk
    <2>3. CASE env_write(t)
      <3>1. item[u] # item[t] BY <1>0, <1>3, <2>1, <2>3, EntryWritten DEF CallInv
      <3>2. check_env_parameter(priv', item[u]) = check_env_parameter(priv, item[u])
            /\ privMedia' = privMedia
        BY <1>0, <2>3, <3>1, EntryWritten
      <3> QED BY <1>1, <2>1, <3>2
    <2>4. CASE EnvSync(t) BY <1>1, <2>1, <2>4 DEF EnvSync
    <2>5. CASE UNCHANGED <<priv, privMedia, env>> BY <1>1, <2>1, <2>5
    <2> QED BY <2>2, <2>3, <2>4, <2>5, PrivMoves
  <1> QED BY <1>2, <1>3

\* Every thread step keeps the private partition to what is allowed or torn.
LEMMA PrivStep ==
  ASSUME ItemsFit, MutexInv, TypesInv, CallInv, TableInv, PrivInv, Live', NEW t \in Threads,
         Step(t) \/ Fault(t) \/ Call(t)
  PROVE  PrivInv'
  <1>1. \A n \in Names :
          /\ None \in allowed'[n] =>
               /\ check_env_parameter(priv', n) \in allowed'[n] \cup {Torn}
               /\ check_env_parameter(privMedia', n) \in allowed'[n] \cup {Torn}
               /\ \A u \in Threads : check_env_parameter(env'[u], n) \in allowed'[n] \cup {Torn}
          /\ ~raced' =>
               /\ check_env_parameter(priv', n) \in allowed'[n] \cup {Torn}
               /\ check_env_parameter(privMedia', n) \in allowed'[n] \cup {Torn}
    BY EntriesStep
  <1>2. ~raced' => \A u \in Threads : op'[u] = "write" =>
          /\ pc'[u] \in Synced \cup {"envSync"} => check_env_parameter(priv', item'[u]) = val'[u]
          /\ pc'[u] \in Synced => check_env_parameter(privMedia', item'[u]) = val'[u]
    BY OwnEntryStep
  <1> QED BY <1>1, <1>2 DEF PrivInv

\* So does a first power loss.
LEMMA PrivCrash ==
  ASSUME ItemsFit, MutexInv, TypesInv, CallInv, TableInv, PrivInv, Crash, crashes = 0
  PROVE  PrivInv'
  <1>1. /\ allowed' = allowed /\ raced' = raced /\ privMedia' = priv'
        /\ \A t \in Threads : env'[t] = <<>> /\ op'[t] = "none"
    BY CrashPriv DEF Crash
  <1>2. \A n \in Names : (None \in allowed[n] \/ ~raced) =>
          check_env_parameter(priv', n) \in allowed[n] \cup {Torn}
    BY CrashEntries DEF PrivInv
  <1>3. \A t \in Threads : \A n : check_env_parameter(env'[t], n) = None BY <1>1, CheckEmpty
  <1> QED BY <1>1, <1>2, <1>3 DEF PrivInv

-----------------------------------------------------------------------------
(* What the reads find.                                                    *)

\* The values that a running read may return only grow, with those of the writes
\* that start.
LEMMA MayStep ==
  ASSUME MutexInv, TypesInv, CallInv, NEW t \in Threads, Step(t) \/ Fault(t) \/ Call(t),
         NEW w \in Threads, op'[w] = "read", pc[w] # "idle"
  PROVE  /\ op[w] = "read" /\ item'[w] = item[w] /\ may[w] \subseteq may'[w]
         /\ \A n \in Names : \A v \in Values : StartWrite(t, n, v) /\ item[w] = n => v \in may'[w]
  <1> USE DEF disk, memory, locals, bounds, hist
  <1>0. /\ op \in [Threads -> {"none", "read", "write"}] /\ item = [u \in Threads |-> item[u]]
        /\ may = [u \in Threads |-> may[u]]
    BY DEF MutexInv, ExitInv, TypesInv
  <1>1. ASSUME NEW n \in Names, NEW v \in Values, StartWrite(t, n, v)
        PROVE  /\ op[w] = "read" /\ item'[w] = item[w] /\ may[w] \subseteq may'[w]
               /\ item[w] = n => v \in may'[w]
    <2>1. w # t BY <1>1 DEF StartWrite
    <2>2. op[w] = "read" /\ item'[w] = item[w] BY <1>0, <1>1, <2>1 DEF StartWrite
    <2>3. may'[w] = IF op[w] = "read" /\ item[w] = n THEN may[w] \cup {v} ELSE may[w]
      BY <1>1 DEF StartWrite
    <2> QED BY <2>2, <2>3
  <1>2. ASSUME NEW n \in Names, StartRead(t, n)
        PROVE  op[w] = "read" /\ item'[w] = item[w] /\ may'[w] = may[w]
    BY <1>0, <1>2 DEF StartRead
  <1>3. ASSUME Return(t) PROVE op[w] = "read" /\ item'[w] = item[w] /\ may'[w] = may[w]
    BY <1>0, <1>3 DEF Return
  <1>4. CASE UNCHANGED <<op, item, may>> /\ ~Call(t) BY <1>4 DEF Call
  <1>5. Return(t) \/ Call(t) \/ (UNCHANGED <<op, item, may>> /\ ~Call(t))
    BY DEF Step, Fault, env_read, env_write, EnvSync, sunxi_secure_storage_init,
           sunxi_secure_storage_exit, MapWrite, ObjectRead, ObjectFill, ObjectWrite, PrivateRead,
           InitFails, MapFails, ObjectFails, PrivateFails
  <1>6. CASE \E n \in Names : StartRead(t, n)
    <2>1. op'[t] = "read" BY <1>0, <1>6 DEF StartRead
    <2>2. \A n \in Names : \A v \in Values : ~StartWrite(t, n, v) BY <1>0, <2>1 DEF StartWrite
    <2> QED BY <1>2, <1>6, <2>2
  <1>7. CASE \E n \in Names : \E v \in Values : StartWrite(t, n, v) BY <1>1, <1>7
  <1>8. CASE Return(t) /\ ~Call(t) BY <1>3, <1>8 DEF Call
  <1> QED BY <1>4, <1>5, <1>6, <1>7, <1>8 DEF Call

\* How a read gets its result and where it turns to.
LEMMA ReadMoves ==
  ASSUME Supported, MutexInv, TypesInv, CallInv, NEW t \in Threads,
         Step(t) \/ Fault(t) \/ Call(t), NEW w \in Threads
  PROVE  /\ after'[w] = "done" =>
              \/ after[w] = "done" /\ res'[w] = res[w]
              \/ /\ w = t /\ ObjectRead(t)
                 /\ \E i \in Matches(item[t]) : sd_read_key(i) # Torn /\ res'[t] = sd_read_key(i)
         /\ Turned(w)' =>
              \/ Turned(w)
              \/ Fault(t)
              \/ w = t /\ ObjectRead(t) /\ \A i \in Matches(item[t]) : sd_read_key(i) = Torn
         /\ pc'[w] = "done" =>
              \/ pc[w] = "done" /\ res'[w] = res[w]
              \/ after[w] = "done" /\ res'[w] = res[w]
              \/ w = t /\ PrivateRead(t)
  <1> USE DEF disk, memory, locals, bounds, hist, Goto
  <1>0. /\ pc \in [Threads -> InSecure \cup Outside] /\ after \in [Threads -> Returns \cup {"idle"}]
        /\ op \in [Threads -> {"none", "read", "write"}] /\ res = [u \in Threads |-> res[u]]
        /\ pc[t] \notin Leaving => after[t] = "idle"
    BY DEF MutexInv, ExitInv, CallInv, TypesInv
  <1>1. CASE w # t BY <1>1, OthersStep DEF Turned
  <1>2. CASE w = t
    <2>1. CASE env_read(t) BY <1>0, <1>2, <2>1 DEF env_read, Turned, Leaving
    <2>2. CASE env_write(t) BY <1>0, <1>2, <2>2 DEF env_write, Turned, Leaving
    <2>3. CASE EnvSync(t) BY <1>0, <1>2, <2>3 DEF EnvSync, Turned, Leaving
    <2>4. CASE sunxi_secure_storage_init(t)
      BY <1>0, <1>2, <2>4 DEF sunxi_secure_storage_init, Turned, Leaving
    <2>5. CASE sunxi_secure_storage_exit(t)
      BY <1>0, <1>2, <2>5 DEF sunxi_secure_storage_exit, Turned, Leaving
    <2>6. CASE MapWrite(t) BY <1>0, <1>2, <2>6 DEF MapWrite, Turned, Leaving
    <2>7. CASE ObjectRead(t) BY <1>0, <1>2, <2>7 DEF ObjectRead, Turned
    <2>8. CASE ObjectFill(t) BY <1>0, <1>2, <2>8 DEF ObjectFill, Turned, Leaving
    <2>9. CASE ObjectWrite(t) BY <1>0, <1>2, <2>9 DEF ObjectWrite, Turned, Leaving
    <2>10. CASE PrivateRead(t) BY <1>0, <1>2, <2>10 DEF PrivateRead, Turned, Leaving
    <2>11. CASE Return(t) BY <1>0, <1>2, <2>11 DEF Return, Turned, Leaving
    <2>12. CASE Fault(t)
      <3>1. CASE InitFails(t)
        <4>1. op[t] \in {"read", "write"} BY <3>1, CallOf DEF InitFails
        <4>2. pc'[t] # "done" /\ after'[t] # "done"
          BY <1>0, <3>1, <4>1 DEF InitFails, Leaving
        <4> QED BY <1>2, <2>12, <4>2
      <3>2. CASE MapFails(t)
        <4>1. after[t] \in Returns BY <3>2 DEF MapFails, MutexInv, ExitInv, Leaving
        <4>2. AfterFailedExit(t) # "done" BY <4>1 DEF AfterFailedExit, Returns
        <4>3. pc'[t] # "done" /\ after'[t] # "done" BY <1>0, <3>2, <4>2 DEF MapFails
        <4> QED BY <1>2, <2>12, <4>3
      <3>3. CASE ObjectFails(t) BY <1>0, <1>2, <2>12, <3>3 DEF ObjectFails
      <3>4. CASE PrivateFails(t) BY <1>0, <1>2, <2>12, <3>4 DEF PrivateFails
      <3> QED BY <2>12, <3>1, <3>2, <3>3, <3>4 DEF Fault
    <2>13. CASE Call(t)
      BY <1>0, <1>2, <2>13 DEF Call, StartRead, StartWrite, Turned, Leaving
    <2> QED BY <2>1, <2>2, <2>3, <2>4, <2>5, <2>6, <2>7, <2>8, <2>9, <2>10, <2>11, <2>12, <2>13
         DEF Step
  <1> QED BY <1>1, <1>2

\* A value that the secure storage yields is allowed.
LEMMA ObjectFound ==
  ASSUME MutexInv, TypesInv, CallInv, OwnInv, NEW t \in Threads, ObjectRead(t),
         NEW i \in Matches(item[t]), sd_read_key(i) # Torn
  PROVE  sd_read_key(i) \in may[t]
  <1>1. pc[t] = "object" /\ op[t] = "read" BY DEF ObjectRead
  <1>2. item[t] \in Names /\ allowed[item[t]] \subseteq may[t] BY <1>1 DEF CallInv
  <1>3. At(map, i, item[t]) BY DEF Matches, At
  <1>4. i \in Items
    BY <1>3, StorageAssumption DEF At, Items, TypesInv, TypeOK
  <1>5. pc[t] \in InSecure /\ ~Dropping(t) /\ pc[t] \notin Saving
    BY <1>1 DEF InSecure, Dropping, Saving
  <1>6. Owned(i, item[t]) BY <1>2, <1>3, <1>4, <1>5, OwnedInside
  <1>7. sd_read_key(i) \in allowed[item[t]] BY <1>6 DEF Owned, sd_read_key, Copies
  <1> QED BY <1>2, <1>7

\* An item that the secure storage does not yield has not been stored, unless the
\* private partition has it.
LEMMA ObjectMissing ==
  ASSUME MutexInv, CallInv, CacheInv, SavedInv, faults = 0, ~bothCut, NEW t \in Threads,
         ObjectRead(t), \A i \in Matches(item[t]) : sd_read_key(i) = Torn,
         crashes = 0 \/ check_env_parameter(priv, item[t]) = Torn
  PROVE  None \in allowed[item[t]] /\ None \in may[t]
  <1>1. pc[t] = "object" /\ op[t] = "read" BY DEF ObjectRead
  <1>2. item[t] \in Names /\ allowed[item[t]] \subseteq may[t] BY <1>1 DEF CallInv
  <1>3. inited
    <2>1. mutex = t BY <1>1 DEF MutexInv, OneInside, InSecure
    <2> QED BY <2>1, StorageAssumption DEF CacheInv
  <1>4. ~Readable(map, item[t]) BY DEF Readable, Matches
  <1>5. ~SecureHas(item[t]) BY <1>3, <1>4 DEF SecureHas
  <1>6. ~Committed(item[t]) BY <1>2, <1>5 DEF SavedInv
  <1> QED BY <1>2, <1>6 DEF Committed

\* A read that turned to the private partition without any failure may find no
\* value there, or that of a running write.
LEMMA TurnedStep ==
  ASSUME Supported, ItemsFit, MutexInv, TypesInv, CallInv, CacheInv, TableInv, SavedInv, PrivInv,
         ReadInv, CallInv', MutexInv', NEW t \in Threads, Step(t) \/ Fault(t) \/ Call(t),
         faults' = 0, crashes' = 0, NEW w \in Threads, Turned(w)'
  PROVE  /\ None \in may'[w] /\ check_env_parameter(priv', item'[w]) \in may'[w]
         /\ \A u \in Threads :
              /\ check_env_parameter(env'[u], item'[w]) \in may'[w]
              /\ op'[u] = "write" /\ item'[u] = item'[w] => val'[u] \in may'[w]
  <1>0. faults = 0 /\ crashes = 0 /\ ~bothCut BY LiveStep DEF CacheInv
  <1>1. op'[w] = "read" BY DEF Turned, CallInv, MutexInv, ExitInv, WritePoints, Saving, Leaving
  <1>2. ~Fault(t)
    <2>1. Fault(t) => faults' = faults + 1 BY DEF Fault, InitFails, MapFails, ObjectFails, PrivateFails
    <2> QED BY <1>0, <2>1
  <1>3. CASE Turned(w)
    <2>1. pc[w] # "idle" BY <1>3 DEF Turned, CallInv, Leaving
    <2>2. /\ None \in may[w] /\ check_env_parameter(priv, item[w]) \in may[w]
          /\ \A u \in Threads :
               /\ check_env_parameter(env[u], item[w]) \in may[w]
               /\ op[u] = "write" /\ item[u] = item[w] => val[u] \in may[w]
      BY <1>0, <1>3 DEF ReadInv
    <2>3. op[w] = "read" /\ item'[w] = item[w] /\ may[w] \subseteq may'[w]
      BY <1>1, <2>1, MayStep
    <2>4. CASE env_read(t)
      <3>1. UNCHANGED <<priv, op, item, val>> /\ env' = [env EXCEPT ![t] = priv]
        BY <2>4 DEF env_read, disk
      <3>2. \A u \in Threads : env'[u] \in {env[u], priv} BY <3>1 DEF TypesInv
      <3> QED BY <2>2, <2>3, <3>1, <3>2
    <2>5. CASE env_write(t)
      <3>1. crashes <= 1 BY <1>0
      <3> QED BY <2>2, <2>3, <2>5, <3>1, EntryWritten
    <2>6. CASE EnvSync(t)
      <3>1. UNCHANGED <<priv, op, item, val>> /\ env' = [env EXCEPT ![t] = <<>>]
        BY <2>6 DEF EnvSync
      <3>2. \A u \in Threads : env'[u] \in {env[u], <<>>} BY <3>1 DEF TypesInv
      <3> QED BY <2>2, <2>3, <3>1, <3>2, CheckEmpty
    <2>7. CASE UNCHANGED <<priv, privMedia, env>>
      <3>1. ASSUME NEW u \in Threads, op'[u] = "write", item'[u] = item'[w]
            PROVE  val'[u] \in may'[w]
        <4>1. CASE op[u] = "write" /\ item'[u] = item[u] /\ val'[u] = val[u]
          BY <2>2, <2>3, <3>1, <4>1
        <4>2. CASE u = t /\ pc'[t] = "envRead"
          <5>1. PICK n \in Names, v \in Values : StartWrite(t, n, v)
            <6>1. pc \in [Threads -> InSecure \cup Outside] /\ (pc[t] \notin Leaving => after[t] = "idle")
                  /\ (pc[t] \in Leaving => after[t] \in Returns)
              BY DEF MutexInv, ExitInv, CallInv
            <6> QED BY <1>2, <4>2, <6>1
                 DEF Step, Call, Goto, env_read, env_write, EnvSync, sunxi_secure_storage_init,
                     sunxi_secure_storage_exit, MapWrite, ObjectRead, ObjectFill, ObjectWrite,
                     PrivateRead, Return, StartRead, Leaving, Returns
          <5>2. item'[t] = n /\ val'[t] = v BY <5>1 DEF StartWrite, TypesInv
          <5>3. v \in may'[w] BY <1>1, <2>1, <2>3, <3>1, <4>2, <5>1, <5>2, MayStep
          <5> QED BY <4>2, <5>2, <5>3
        <4> QED BY <3>1, <4>1, <4>2, OthersStep, PrivMoves
      <3> QED BY <2>2, <2>3, <2>7, <3>1
    <2> QED BY <2>4, <2>5, <2>6, <2>7, PrivMoves
  <1>4. CASE w = t /\ ObjectRead(t) /\ \A i \in Matches(item[t]) : sd_read_key(i) = Torn
    <2>1. None \in allowed[item[t]] /\ None \in may[t] BY <1>0, <1>4, ObjectMissing
    <2>2. UNCHANGED <<priv, env, op, item, val, may>>
      BY <1>4 DEF ObjectRead, disk, hist
    <2>3. item[t] \in Names /\ allowed[item[t]] \subseteq may[t] BY <1>4 DEF ObjectRead, CallInv
    <2>4. priv \in WholeTables /\ \A u \in Threads : env[u] \in WholeTables BY <1>0 DEF TableInv
    <2>5. check_env_parameter(priv, item[t]) \in allowed[item[t]]
      BY <2>1, <2>3, <2>4, CheckWhole DEF PrivInv
    <2>6. \A u \in Threads : check_env_parameter(env[u], item[t]) \in allowed[item[t]]
      BY <2>1, <2>3, <2>4, CheckWhole DEF PrivInv
    <2>7. \A u \in Threads : op[u] = "write" /\ item[u] = item[t] => val[u] \in allowed[item[t]]
      BY DEF CallInv
    <2> QED BY <1>4, <2>1, <2>2, <2>3, <2>5, <2>6, <2>7
  <1> QED BY <1>2, <1>3, <1>4, ReadMoves

\* A read that turned to a torn entry is one of an item that was never stored.
LEMMA TornStep ==
  ASSUME Supported, ItemsFit, MutexInv, TypesInv, CallInv, CacheInv, TableInv, SavedInv, ReadInv,
         CallInv', MutexInv', Live', NEW t \in Threads, Step(t) \/ Fault(t) \/ Call(t),
         faults' = 0, ~bothCut', NEW w \in Threads, Turned(w)',
         check_env_parameter(priv', item'[w]) = Torn
  PROVE  None \in may'[w]
  <1>0. faults = 0 /\ ~bothCut /\ crashes' = crashes /\ crashes <= 1 BY LiveStep DEF Live
  <1>1. op'[w] = "read" BY DEF Turned, CallInv, MutexInv, ExitInv, WritePoints, Saving, Leaving
  <1>2. ~Fault(t)
    <2>1. Fault(t) => faults' = faults + 1 BY DEF Fault, InitFails, MapFails, ObjectFails, PrivateFails
    <2> QED BY <1>0, <2>1
  <1>3. CASE Turned(w)
    <2>1. pc[w] # "idle" BY <1>3 DEF Turned, CallInv, Leaving
    <2>2. item'[w] = item[w] /\ may[w] \subseteq may'[w] BY <1>1, <2>1, MayStep
    <2>3. CASE raced'
      <3>1. crashes = 0 BY <1>0, <2>3 DEF Live
      <3> QED BY <1>0, <1>3, <2>2, <3>1 DEF ReadInv
    <2>4. CASE ~raced'
      <3>1. item[w] \in Names BY <2>1, CallOf
      <3>2. check_env_parameter(priv, item[w]) = Torn BY <1>0, <2>2, <2>4, <3>1, PrivTorn
      <3> QED BY <1>0, <1>3, <2>2, <3>2 DEF ReadInv
    <2> QED BY <2>3, <2>4
  <1>4. CASE w = t /\ ObjectRead(t) /\ \A i \in Matches(item[t]) : sd_read_key(i) = Torn
    <2>1. UNCHANGED <<priv, item, may>> BY <1>4 DEF ObjectRead, disk, hist
    <2> QED BY <1>0, <1>4, <2>1, ObjectMissing
  <1> QED BY <1>2, <1>3, <1>4, ReadMoves

\* The result of a read, in the secure storage and when it is done.
LEMMA ResultStep ==
  ASSUME Supported, MutexInv, TypesInv, CallInv, OwnInv, PrivInv, ReadInv,
         CallInv', MutexInv', Live', NEW t \in Threads, Step(t) \/ Fault(t) \/ Call(t),
         NEW w \in Threads
  PROVE  /\ after'[w] = "done" => res'[w] \in may'[w]
         /\ pc'[w] = "done" =>
              \/ res'[w] \in may'[w]
              \/ res'[w] = Torn /\ (None \in may'[w] \/ faults' > 0 \/ bothCut')
  <1>0. /\ bothCut' = bothCut /\ Live /\ faults \in Nat /\ (faults' = faults \/ faults' = faults + 1)
        /\ crashes \in Nat
    BY LiveStep DEF TypesInv
  <1>1. after'[w] = "done" \/ pc'[w] = "done" => op'[w] = "read"
    BY DEF CallInv, MutexInv, ExitInv, WritePoints, Saving, Leaving
  <1>2. after[w] = "done" \/ pc[w] = "done" => pc[w] # "idle" BY DEF CallInv, Leaving
  <1>3. ASSUME after'[w] = "done" PROVE res'[w] \in may'[w]
    <2>1. CASE after[w] = "done" /\ res'[w] = res[w]
      <3>1. may[w] \subseteq may'[w] BY <1>1, <1>2, <1>3, <2>1, MayStep
      <3> QED BY <2>1, <3>1 DEF ReadInv
    <2>2. ASSUME w = t, ObjectRead(t), NEW i \in Matches(item[t]), sd_read_key(i) # Torn,
                 res'[t] = sd_read_key(i)
          PROVE  res'[w] \in may'[w]
      <3>1. may' = may BY <2>2 DEF ObjectRead, hist
      <3> QED BY <2>2, <3>1, ObjectFound
    <2> QED BY <1>3, <2>1, <2>2, ReadMoves
  <1>4. ASSUME pc'[w] = "done"
        PROVE  \/ res'[w] \in may'[w]
               \/ res'[w] = Torn /\ (None \in may'[w] \/ faults' > 0 \/ bothCut')
    <2>1. CASE pc[w] = "done" /\ res'[w] = res[w]
      <3>1. may[w] \subseteq may'[w] BY <1>1, <1>2, <1>4, <2>1, MayStep
      <3>2. \/ res[w] \in may[w]
            \/ res[w] = Torn /\ (None \in may[w] \/ faults > 0 \/ bothCut)
        BY <2>1 DEF ReadInv
      <3> QED BY <1>0, <2>1, <3>1, <3>2
    <2>2. CASE after[w] = "done" /\ res'[w] = res[w]
      <3>1. may[w] \subseteq may'[w] BY <1>1, <1>2, <1>4, <2>2, MayStep
      <3> QED BY <2>2, <3>1 DEF ReadInv
    <2>3. CASE w = t /\ PrivateRead(t)
      <3>1. /\ pc[t] = "private" /\ res' = [res EXCEPT ![t] = check_env_parameter(priv, item[t])]
            /\ may' = may /\ faults' = faults
        BY <2>3 DEF PrivateRead, hist, bounds
      <3>2. res'[t] = check_env_parameter(priv, item[t]) BY <3>1 DEF TypesInv
      <3>3. Turned(t) /\ op[t] = "read" BY <3>1, CallOf DEF Turned
      <3>4. item[t] \in Names /\ allowed[item[t]] \subseteq may[t] BY <3>3 DEF CallInv
      <3>5. CASE faults = 0 /\ crashes = 0 BY <2>3, <3>1, <3>2, <3>3, <3>5 DEF ReadInv
      <3>6. CASE ~raced
        <4>1. check_env_parameter(priv, item[t]) \in allowed[item[t]] \cup {Torn}
          BY <3>4, <3>6 DEF PrivInv
        <4>2. CASE check_env_parameter(priv, item[t]) = Torn
          BY <1>0, <2>3, <3>1, <3>2, <3>3, <4>2 DEF ReadInv
        <4> QED BY <2>3, <3>1, <3>2, <3>4, <4>1, <4>2
      <3> QED BY <1>0, <3>5, <3>6 DEF Live
    <2> QED BY <1>4, <2>1, <2>2, <2>3, ReadMoves
  <1> QED BY <1>3, <1>4

\* Every thread step keeps the reads to what they may return.
LEMMA ReadStep ==
  ASSUME Supported, ItemsFit, MutexInv, TypesInv, CallInv, CacheInv, TableInv, OwnInv, SavedInv,
         PrivInv, ReadInv, CallInv', MutexInv', Live', NEW t \in Threads,
         Step(t) \/ Fault(t) \/ Call(t)
  PROVE  ReadInv'
  <1>1. \A w \in Threads :
          /\ after'[w] = "done" => res'[w] \in may'[w]
          /\ pc'[w] = "done" =>
               \/ res'[w] \in may'[w]
               \/ res'[w] = Torn /\ (None \in may'[w] \/ faults' > 0 \/ bothCut')
    BY ResultStep
  <1>2. faults' = 0 /\ crashes' = 0 => \A w \in Threads : Turned(w)' =>
          /\ None \in may'[w] /\ check_env_parameter(priv', item'[w]) \in may'[w]
          /\ \A u \in Threads :
               /\ check_env_parameter(env'[u], item'[w]) \in may'[w]
               /\ op'[u] = "write" /\ item'[u] = item'[w] => val'[u] \in may'[w]
    BY TurnedStep
  <1>3. faults' = 0 /\ ~bothCut' => \A w \in Threads :
          Turned(w)' /\ check_env_parameter(priv', item'[w]) = Torn => None \in may'[w]
    BY TornStep
  <1> QED BY <1>1, <1>2, <1>3 DEF ReadInv

\* A power loss ends the reads.
LEMMA ReadCrash ==
  ASSUME Crash
  PROVE  ReadInv'
  BY DEF Crash, ReadInv, Turned

-----------------------------------------------------------------------------
(* The invariant, and what it says of the reads.                           *)

\* A step of a thread.
LEMMA StoreStep ==
  ASSUME Supported, ItemsFit, StoreInv, NEW t \in Threads, Step(t) \/ Fault(t) \/ Call(t)
  PROVE  StoreInv'
  <1> USE DEF StoreInv
  <1>1. MutexInv' BY OutsideSteps, InsideSteps DEF Step, Fault
  <1>2. TypesInv' BY TypesStep
  <1>3. CallInv' BY CallStep
  <1>4. CacheInv' BY CacheStep
  <1>5. TableInv' BY TableStep
  <1>6. ASSUME Live' PROVE LiveInv'
    <2>1. Live BY <1>6, LiveStep
    <2>2. MapInv /\ OwnInv /\ SavedInv /\ PrivInv /\ ReadInv BY <2>1 DEF LiveInv
    <2>3. MapInv' BY <2>2, MapStep
    <2>4. OwnInv' BY <1>6, <2>2, OwnOutside, OwnInside DEF Step, Fault, Call
    <2>5. SavedInv' BY <1>6, <2>2, SavedStep
    <2>6. PrivInv' BY <1>6, <2>2, PrivStep
    <2>7. ReadInv' BY <1>1, <1>3, <1>6, <2>2, ReadStep
    <2> QED BY <2>3, <2>4, <2>5, <2>6, <2>7 DEF LiveInv
  <1> QED BY <1>1, <1>2, <1>3, <1>4, <1>5, <1>6

\* A power loss: the parts that depend on the failures survive the first one.
LEMMA StoreCrash ==
  ASSUME ItemsFit, StoreInv, Crash
  PROVE  StoreInv'
  <1> USE DEF StoreInv
  <1>1. MutexInv'
    BY StorageAssumption DEF Crash, MutexInv, ExitInv, OneInside, InSecure, Outside, Leaving, Returns
  <1>2. TypesInv' BY TypesCrash
  <1>3. CallInv' BY CallCrash
  <1>4. CacheInv' BY CacheCrash
  <1>5. TableInv' BY TableCrash
  <1>6. ASSUME Live' PROVE LiveInv'
    <2>1. Live /\ crashes = 0 BY <1>6 DEF Crash, Live, TypesInv, TypeOK
    <2>2. MapInv /\ OwnInv /\ SavedInv /\ PrivInv BY <2>1 DEF LiveInv
    <2>3. MapInv' BY <2>1, <2>2, MapCrash
    <2>4. OwnInv' BY <2>1, <2>2, OwnCrash
    <2>5. SavedInv' BY <2>1, <2>2, SavedCrash
    <2>6. PrivInv' BY <2>1, <2>2, PrivCrash
    <2>7. ReadInv' BY ReadCrash
    <2> QED BY <2>3, <2>4, <2>5, <2>6, <2>7 DEF LiveInv
  <1> QED BY <1>1, <1>2, <1>3, <1>4, <1>5, <1>6

\* The invariant is inductive.
LEMMA StoreNext ==
  ASSUME Supported, ItemsFit
  PROVE  StoreInv /\ [Next]_vars => StoreInv'
  <1> SUFFICES ASSUME StoreInv, [Next]_vars PROVE StoreInv' OBVIOUS
  <1>1. CASE UNCHANGED vars
    <2>1. UNCHANGED <<priv, privMedia, mapC, mapMedia, objC, objMedia, map, inited, dirty, mutex,
                      pc, op, item, val, env, blk, after, res, ops, crashes, faults, allowed,
                      may, raced, bothCut, skipped>>
      BY <1>1 DEF vars, disk, memory, locals, bounds, hist
    <2>2. MutexInv' BY <2>1 DEF StoreInv, MutexInv, ExitInv, OneInside
    <2>3. TypesInv' BY <2>1 DEF StoreInv, TypesInv, TypeOK
    <2>4. CallInv' BY <2>1 DEF StoreInv, CallInv
    <2>5. CacheInv' BY <2>1 DEF StoreInv, CacheInv, SameCopies
    <2>6. TableInv' BY <2>1 DEF StoreInv, TableInv
    <2>7. Live' => LiveInv'
      <3>1. DiskMaps' = DiskMaps /\ (AllGood' <=> AllGood) BY <2>1 DEF DiskMaps, AllGood
      <3>2. MapInv => MapInv' BY <2>1, <3>1 DEF MapInv
      <3>3. OwnInv => OwnInv' BY <2>1, <3>1 DEF OwnInv, Owned, Dropping
      <3>4. \A m, n, v : Holds(m, n, v)' <=> Holds(m, n, v) BY <2>1 DEF Holds
      <3>5. \A n : SecureHas(n)' <=> SecureHas(n)
        BY <2>1, <3>1 DEF SecureHas, Readable, sd_read_key
      <3>6. SavedInv => SavedInv' BY <2>1, <3>1, <3>4, <3>5 DEF SavedInv, Committed, Holds
      <3>7. PrivInv => PrivInv' BY <2>1 DEF PrivInv
      <3>8. ReadInv => ReadInv' BY <2>1 DEF ReadInv, Turned
      <3>9. Live' => Live BY <2>1 DEF Live
      <3> QED BY <3>2, <3>3, <3>6, <3>7, <3>8, <3>9 DEF StoreInv, LiveInv
    <2> QED BY <2>2, <2>3, <2>4, <2>5, <2>6, <2>7 DEF StoreInv
  <1>2. CASE Crash BY <1>2, StoreCrash
  <1>3. ASSUME NEW t \in Threads, Step(t) \/ Fault(t) \/ Call(t) PROVE StoreInv'
    BY <1>3, StoreStep
  <1> QED BY <1>1, <1>2, <1>3 DEF Next

\* Whatever the threads, items, values and bounds, on a device with the secure
\* storage and with room in the private table for every item: with at most one
\* power loss and one failing block operation, private_data_read returns what the
\* last successful private_data_write of the item stored, or the value of a write
\* that failed, was cut off or is still running, never an older value or another
\* item's, and a torn one only in the cases ReadsCommitted names.
THEOREM StorageReads ==
  ASSUME Supported, ItemsFit
  PROVE  Spec => []ReadsCommitted
  <1>1. StoreInv => ReadsCommitted
    BY DEF StoreInv, LiveInv, ReadInv, Live, ReadsCommitted
  <1> QED BY <1>1, StoreInit, StoreNext, PTL DEF Spec

-----------------------------------------------------------------------------
\* Whatever fails and however often, the disk, the cached map and the blocks in
\* use keep their types; in particular __fill_name_in_map never hands out a block
\* behind the last one and the map never has more entries than there are blocks.
THEOREM StorageTypes == Spec => []TypeOK
  <1> DEFINE Inv == MutexInv /\ TypesInv /\ CallInv
  <1>1. Init => Inv BY StoreInit DEF StoreInv
  <1>2. Inv /\ [Next]_vars => Inv'
    <2> SUFFICES ASSUME Inv, [Next]_vars PROVE Inv' OBVIOUS
    <2>1. CASE UNCHANGED vars
      BY <2>1 DEF vars, disk, memory, locals, bounds, hist, MutexInv, ExitInv, OneInside, TypesInv,
                  TypeOK, CallInv
    <2>2. CASE Crash
      <3>1. MutexInv'
        BY <2>2, StorageAssumption
           DEF Crash, MutexInv, ExitInv, OneInside, InSecure, Outside, Leaving, Returns
      <3> QED BY <2>2, <3>1, TypesCrash, CallCrash
    <2>3. ASSUME NEW t \in Threads, Step(t) \/ Fault(t) \/ Call(t) PROVE Inv'
      BY <2>3, OutsideSteps, InsideSteps, TypesStep, CallStep DEF Step, Fault
    <2> QED BY <2>1, <2>2, <2>3 DEF Next
  <1>3. Inv => TypeOK BY DEF TypesInv
  <1> QED BY <1>1, <1>2, <1>3, PTL DEF Spec

-----------------------------------------------------------------------------
\* What private_data_write promises in api.h:5, as long as no block operation
\* failed and no two writers overwrote each other's private partition: the value
\* of a write that has returned 0 is in both stores.  The run secure_support
\* shows that one failing read of the map is enough to break it.
THEOREM StorageBoth ==
  ASSUME Supported, ItemsFit
  PROVE  Spec => [](faults = 0 /\ ~raced => SavedInBoth)
  <1> DEFINE SkipInv == skipped => faults > 0
  <1>1. Init => SkipInv BY DEF Init
  <1>2. TypesInv /\ SkipInv /\ [Next]_vars => SkipInv'
    <2> SUFFICES ASSUME TypesInv, SkipInv, [Next]_vars PROVE SkipInv' OBVIOUS
    <2>0. faults \in Nat BY DEF TypesInv
    <2>1. CASE UNCHANGED vars BY <2>1 DEF vars, bounds, hist
    <2>2. CASE Crash BY <2>2 DEF Crash
    <2>3. ASSUME NEW t \in Threads, Fault(t) PROVE SkipInv'
      <3>1. faults' = faults + 1 BY <2>3 DEF Fault, InitFails, MapFails, ObjectFails, PrivateFails
      <3> QED BY <2>0, <3>1
    <2>4. ASSUME NEW t \in Threads, Step(t) \/ Call(t) PROVE SkipInv'
      <3>1. UNCHANGED <<skipped, faults>>
        BY <2>4 DEF bounds, hist, Step, Call, env_read, env_write, EnvSync,
               sunxi_secure_storage_init, sunxi_secure_storage_exit, MapWrite, ObjectRead,
               ObjectFill, ObjectWrite, PrivateRead, Return, StartRead, StartWrite
      <3> QED BY <3>1
    <2> QED BY <2>1, <2>2, <2>3, <2>4 DEF Next
  <1>3. StoreInv /\ SkipInv => (faults = 0 /\ ~raced => SavedInBoth)
    <2> SUFFICES ASSUME StoreInv, SkipInv, faults = 0, ~raced, crashes = 0,
                        NEW n \in Names, NEW v \in Values, allowed[n] = {v}
                 PROVE  check_env_parameter(priv, n) = v /\ SecureValues(n) = {v}
      BY DEF SavedInBoth
    <2>1. Live BY DEF Live
    <2>2. LiveInv /\ TypesInv /\ ~bothCut BY <2>1 DEF StoreInv, CacheInv
    <2>3. None # v /\ Torn # v /\ Committed(n) BY StorageAssumption DEF Committed
    <2>4. check_env_parameter(priv, n) = v
      <3>1. priv \in WholeTables BY DEF StoreInv, TableInv
      <3>2. check_env_parameter(priv, n) \in {v, Torn} BY <2>2 DEF LiveInv, PrivInv
      <3> QED BY <3>1, <3>2, CheckWhole
    <2>5. SecureHas(n) BY <2>2, <2>3 DEF LiveInv, SavedInv
    <2>6. ASSUME NEW m \in sd_read_map(mapC[0], mapC[1])
          PROVE  /\ m \in DiskMaps
                 /\ \E i \in Items : i <= Len(m) /\ m[i] = n
                 /\ \A i \in Items : i <= Len(m) /\ m[i] = n => sd_read_key(i) = v
      <3>1. m \in DiskMaps BY DEF DiskMaps
      <3>2. Len(m) \in Nat /\ Len(m) <= MaxItem /\ MaxItem \in Nat
        BY <2>2, <3>1, DiskType, StorageAssumption
      <3>3. PICK i \in 1 .. Len(m) : m[i] = n /\ sd_read_key(i) # Torn
        BY <2>5, <3>1 DEF SecureHas, Readable
      <3>4. i \in Items /\ At(m, i, n) BY <3>2, <3>3 DEF Items, At
      <3>5. Owned(i, n) BY <2>2, <3>1, <3>4 DEF LiveInv, OwnInv
      <3>6. sd_read_key(i) = v BY <3>3, <3>5 DEF Owned, sd_read_key, Copies
      <3>7. ASSUME NEW j \in Items, j <= Len(m), m[j] = n PROVE j = i
        <4>1. j \in 1 .. Len(m) BY <3>2, <3>7 DEF Items
        <4> QED BY <2>2, <3>1, <3>3, <3>7, <4>1 DEF LiveInv, MapInv, NamesOnce
      <3> QED BY <3>1, <3>2, <3>3, <3>4, <3>6, <3>7
    <2>7. sd_read_map(mapC[0], mapC[1]) # {}
      <3>1. mapC[0] \in MapBlocks /\ mapC[1] \in MapBlocks BY <2>2 DEF TypesInv, TypeOK, Copies
      <3> QED BY <3>1, ReadMap
    <2>8. SecureValues(n) = {v} BY <2>6, <2>7 DEF SecureValues
    <2> QED BY <2>4, <2>8
  <1>4. StoreInv => TypesInv BY DEF StoreInv
  <1> QED BY <1>1, <1>2, <1>3, <1>4, StoreInit, StoreNext, PTL DEF Spec

=============================================================================
