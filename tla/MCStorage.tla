----------------------------- MODULE MCStorage -------------------------------
(***************************************************************************)
(* The components that keep a program's data: the exit buffer in front of  *)
(* a checkpoint saver, the savers, the long-term stores (their queries,    *)
(* batches and indexes), the node caches and the channels.  Each stands    *)
(* beside the others and shares no state with them: focus chooses the one  *)
(* that runs, and the others stay in an initial state.                     *)
(***************************************************************************)
EXTENDS ExitBuffer, Savers, StoreQueries, Stores, NodeCache, IndexedStore, Channels, TLC

CONSTANTS n1, n2, ch1, ch2, c1, c2, r1, r2

VARIABLE focus

-----------------------------------------------------------------------------
\* Values that the JSON round trip and the databases' own comparison tell apart
\* in different ways: an integer, a whole float, a Boolean, a word, an object.
Num(k) == [t |-> "int", n |-> k]
Word == [t |-> "word", n |-> 0]
Null == [t |-> "nil", n |-> 0]
Obj(x) == [t |-> "obj", field |-> x]
Is(x) == [op |-> "is", arg |-> x]
MCFilters ==
    {<<>>}
    \cup {[f |-> cond] : cond \in {Is(Num(1)), Is([t |-> "float", n |-> 1]),
                                   [op |-> "ne", arg |-> Num(1)], [op |-> "gt", arg |-> Num(1)]}}
    \cup {[g |-> [op |-> "nested", inner |-> Is(x)]] : x \in {Num(1), Null}}
    \cup {[f |-> Is(Word), g |-> [op |-> "nested", inner |-> [op |-> "unsupported", arg |-> Null]]]}
    \cup {[g |-> Is(Null)], [f |-> [op |-> "gt", arg |-> Num(0)], g |-> Is(Word)]}
MCSlots == {<<<<1>>, 1>>, <<<<1, 2>>, 1>>, <<<<1, 2>>, 2>>, <<<<2, 1>>, 1>>}
MCValues ==
    {[f |-> Num(1), g |-> Obj(Num(1))], [f |-> [t |-> "bool", n |-> 1], g |-> Word],
     [f |-> [t |-> "float", n |-> 1], g |-> Null], [f |-> Word, g |-> Obj(Null)]}
MCPaths == {<<>>, <<1>>, <<1, 2>>}

\* Batches that read and refresh, put with and without a time to live, put one
\* key twice, and delete.
GetOf(k) == [key |-> k, refresh |-> TRUE]
PutOf(k, v, ttl, set) == [key |-> k, val |-> v, ttl |-> ttl, set |-> set]
MCBatches ==
    { [gets |-> {GetOf(1)}, puts |-> <<>>],
      [gets |-> {}, puts |-> <<PutOf(1, "v", 1, TRUE)>>],
      [gets |-> {}, puts |-> <<PutOf(1, "v", 0, TRUE), PutOf(2, "v", 0, FALSE),
                               PutOf(1, "w", 2, TRUE)>>],
      [gets |-> {GetOf(1)}, puts |-> <<PutOf(2, "w", 0, TRUE)>>],
      [gets |-> {GetOf(2)}, puts |-> <<PutOf(1, "delete", 0, FALSE)>>] }

\* Puts with an index, without one, a deletion (0) and batches of two writes.
IndexedPut(k, v, indexed) == [key |-> k, val |-> v, indexed |-> indexed]
MCIndexBatches ==
    { <<IndexedPut(1, 1, TRUE)>>, <<IndexedPut(1, 2, TRUE), IndexedPut(2, 1, TRUE)>>,
      <<IndexedPut(1, 1, FALSE)>>,
      <<IndexedPut(2, 0, TRUE), IndexedPut(1, 1, TRUE)>>, <<IndexedPut(1, 0, TRUE)>> }

\* The nodes of the two cache keys, and a time to live for one of them.
TwoNodes == <<"n1", "n2">>
OneExpires == <<1, 0>>

\* Steps that write nothing, one value, two, a name no barrier knows, and that
\* overwrite before, after or twice among regular writes.
Regular(v) == [v |-> v, overwrite |-> FALSE]
Overwrite(v) == [v |-> v, overwrite |-> TRUE]
MCChannelWrites ==
    { <<>>, <<Regular(1)>>, <<Regular(2)>>, <<Regular(1), Regular(2)>>, <<Regular(1), Regular(3)>>,
      <<Overwrite(1)>>, <<Regular(1), Overwrite(2)>>, <<Overwrite(2), Regular(1)>>,
      <<Overwrite(1), Overwrite(2)>> }

Symmetry == Permutations({n1, n2}) \cup Permutations({ch1, ch2})

-----------------------------------------------------------------------------
StorageInit ==
    /\ focus \in {"exit", "savers", "queries", "stores", "indexes", "caches", "channels"}
    /\ Init
    /\ SaverInit /\ (focus # "savers" => saverKind = "memory")
    /\ QueryInit
    /\ StoreInit /\ (focus # "stores" => storeKind = "redis")
    /\ IndexInit
    /\ CacheInit /\ (focus # "caches" => cacheKind = "memory")
    /\ ChannelInit /\ (focus # "channels" => chanKind = "last")

StorageNext ==
    /\ UNCHANGED focus
    /\ \/ focus = "exit" /\ Next /\ UNCHANGED <<saverVars, slots, storeVars, indexVars, cacheVars,
                                                channelVars>>
       \/ focus = "savers" /\ SaverNext /\ UNCHANGED <<vars, slots, storeVars, indexVars, cacheVars,
                                                       channelVars>>
       \/ focus = "queries" /\ QueryNext /\ UNCHANGED <<vars, saverVars, storeVars, indexVars, cacheVars,
                                                     channelVars>>
       \/ focus = "stores" /\ StoreNext /\ UNCHANGED <<vars, saverVars, slots, indexVars, cacheVars,
                                                       channelVars>>
       \/ focus = "indexes" /\ IndexNext /\ UNCHANGED <<vars, saverVars, slots, storeVars, cacheVars,
                                                        channelVars>>
       \/ focus = "channels" /\ ChannelNext /\ UNCHANGED <<vars, saverVars, slots, storeVars, indexVars,
                                                           cacheVars>>
       \/ focus = "caches" /\ CacheNext /\ UNCHANGED <<vars, saverVars, slots, storeVars, indexVars,
                                                       channelVars>>

StorageSpec ==
    StorageInit /\ [][StorageNext]_<<focus, vars, saverVars, slots, storeVars, indexVars, cacheVars,
                                     channelVars>>
=============================================================================
