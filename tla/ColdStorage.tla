----------------------------- MODULE ColdStorage ----------------------------
(***************************************************************************)
(* The on-disk table of exprs (storage/cold/): a file per expr in level_0, *)
(* packed by collate_exprs into segments (an index and a data file) of     *)
(* level_1, which merge_exprs packs level by level into the next.  Puts,   *)
(* lookups and the reads of a scan each hold cold_storage_lock; a put      *)
(* changes the disk one file operation at a time, and the process may die, *)
(* or an operation may raise OSError, between any two of them.             *)
(*                                                                         *)
(* The table is content-addressed: a file holds the one expr of its key,   *)
(* whole, or torn where a write was cut off.                               *)
(***************************************************************************)
EXTENDS Naturals, Sequences, FiniteSets, FiniteSetsExt, SequencesExt, Functions, Sorting

CONSTANTS Keys,        \* expr hashes, in the order of their bytes
          Children,    \* key -> sequence of keys put before it
          Threads,     \* threads that put exprs
          BaseSize,    \* cold_storage_base_size, in exprs
          LevelFactor, \* 10 in _level_limit
          Batch,       \* ids read per lock hold of a scan
          MaxLevel, MaxPuts, MaxFaults

ASSUME ColdStorageAssumption ==
    /\ Keys \subseteq Nat /\ IsFiniteSet(Keys)      \* hashes have 32 bytes
    /\ Children \in [Keys -> Seq(Keys)]
    /\ {BaseSize, LevelFactor, Batch, MaxLevel, MaxPuts, MaxFaults} \subseteq Nat
    /\ Batch > 0 /\ MaxLevel > 0

VARIABLES level0,      \* key -> its .bin file
          index, data, \* level -> number -> the keys, the exprs of a segment
          top,         \* highest level directory
          size0,       \* node.cold_storage_level_0_size
          todo,        \* thread -> keys its put has left, children first
          lock,        \* the put in progress under cold_storage_lock
          scan,        \* iter_exprs_in_cold_storage
          stored,      \* keys whose put returned True
          torn,        \* keys with a file that was cut off
          puts, faults

disk == <<level0, index, data, top>>
history == <<stored, torn, puts, faults>>
vars == <<disk, size0, todo, lock, scan, history>>

Levels == 1..MaxLevel
NoFile == "none"
Free == [step |-> "free"]
Nobody == [step |-> "off"]

Init ==
    /\ level0 = [k \in Keys |-> NoFile]
    /\ index = [l \in Levels |-> <<>>]
    /\ data = [l \in Levels |-> <<>>]
    /\ top = 0
    /\ size0 = 0
    /\ todo = [t \in Threads |-> <<>>]
    /\ lock = Free
    /\ scan = Nobody
    /\ stored = {} /\ torn = {} /\ puts = 0 /\ faults = 0

With(f, n, file) == [m \in DOMAIN f \cup {n} |-> IF m = n THEN file ELSE f[m]]
Without(f, n) == Restrict(f, DOMAIN f \ {n})
-----------------------------------------------------------------------------
(* Lookups.  An index is searched by halving its sorted ids.               *)
(* The left and right ends of the part still searched. *)
Spans(s) == (1 .. Len(s) + 1) \X (0 .. Len(s))

(* Faulty: the search gives up when one id is left. *)
HoldsShort(ids, k) ==
    LET s == Sorted(ids)
        search[span \in Spans(s)] ==
            LET left == span[1]
                right == span[2]
                mid == (left + right) \div 2
            IN /\ left < right
               /\ \/ s[mid] = k
                  \/ s[mid] < k /\ search[<<mid + 1, right>>]
                  \/ s[mid] > k /\ search[<<left, mid - 1>>]
    IN search[<<1, Len(s)>>]

Holds(ids, k) ==
    LET s == Sorted(ids)
        search[span \in Spans(s)] ==
            LET left == span[1]
                right == span[2]
                mid == (left + right) \div 2
            IN /\ left <= right
               /\ \/ s[mid] = k
                  \/ s[mid] < k /\ search[<<mid + 1, right>>]
                  \/ s[mid] > k /\ search[<<left, mid - 1>>]
    IN search[<<1, Len(s)>>]

Segments == UNION {{<<l, n>> : n \in DOMAIN index[l]} : l \in 1..top}
Before(a, b) == a[1] < b[1] \/ (a[1] = b[1] /\ a[2] > b[2])

(* _read_data_spans followed by decoding: the spans of the index fit the   *)
(* data file only if both are of one segment.                              *)
Readable(s, k) ==
    LET file == data[s[1]] IN
    /\ s[2] \in DOMAIN file
    /\ DOMAIN file[s[2]] = index[s[1]][s[2]]
    /\ file[s[2]][k] = "whole"

(* get_expr_from_cold_storage: the first hit decides.                      *)
Lookup(k) ==
    LET hits == {s \in Segments : Holds(index[s[1]][s[2]], k)} IN
    IF level0[k] # NoFile
    THEN level0[k] = "whole"
    ELSE \E s \in hits : /\ \A r \in hits : r = s \/ Before(s, r)
                         /\ Readable(s, k)

LastOf(S) == CHOOSE s \in S : \A r \in S : r = s \/ Before(r, s)
Unread(ks) == [pending |-> {k \in ks : level0[k] = NoFile},
               found |-> {k \in ks : level0[k] = "whole"}]

(* Faulty: a key whose data cannot be read is searched in later files. *)
BatchLookupRetries(ks) ==
    LET read[S \in SUBSET Segments] ==
            IF S = {} THEN Unread(ks)
            ELSE LET s == LastOf(S)
                     acc == read[S \ {s}]
                     got == {k \in acc.pending :
                                Holds(index[s[1]][s[2]], k) /\ Readable(s, k)}
                 IN [pending |-> acc.pending \ got, found |-> acc.found \cup got]
    IN read[Segments].found

(* get_exprs_from_cold_storage: every file is opened once, a key that hit  *)
(* is no longer pending.                                                   *)
BatchLookup(ks) ==
    LET read[S \in SUBSET Segments] ==      \* once the files of S are searched
            IF S = {} THEN Unread(ks)
            ELSE LET s == LastOf(S)
                     acc == read[S \ {s}]
                     hits == {k \in acc.pending : Holds(index[s[1]][s[2]], k)}
                 IN [pending |-> acc.pending \ hits,
                     found |-> acc.found \cup {k \in hits : Readable(s, k)}]
    IN read[Segments].found
-----------------------------------------------------------------------------
(* put_expr_in_cold_storage.                                               *)
LevelBytes(l) ==
    MapThenSumSet(LAMBDA n : Cardinality(index[l][n]) + 1, DOMAIN index[l])
      + MapThenSumSet(LAMBDA n : Cardinality({k \in DOMAIN data[l][n] : data[l][n][k] = "whole"}),
                      DOMAIN data[l])
LevelLimit(l) == BaseSize * LevelFactor ^ l
NextNumber(l) == IF DOMAIN index[l] = {} THEN 0 ELSE Max(DOMAIN index[l]) + 1
OnDisk == {k \in Keys : level0[k] # NoFile}

At(step) == lock.step = step
GoTo(step) == lock' = [lock EXCEPT !.step = step]
(* The call returns; the result of a child is not looked at.               *)
Return(ok) ==
    /\ lock' = Free
    /\ stored' = IF ok THEN stored \cup {lock.key} ELSE stored

StartPut(t, k) ==
    /\ todo[t] = <<>>
    /\ ~(~At("free") /\ lock.by = t)
    /\ puts < MaxPuts
    /\ puts' = puts + 1
    /\ todo' = [todo EXCEPT ![t] = Append(Children[k], k)]
    /\ UNCHANGED <<disk, size0, lock, scan, stored, torn, faults>>

Acquire(t) ==
    /\ At("free")
    /\ todo[t] # <<>>
    /\ lock' = [step |-> "locked", by |-> t, key |-> Head(todo[t]), level |-> 0,
                sources |-> {}]
    /\ todo' = [todo EXCEPT ![t] = Tail(@)]
    /\ UNCHANGED <<disk, size0, scan, history>>

(* write_bytes truncates the file before it writes.                        *)
Truncate ==
    /\ At("locked")
    /\ level0' = [level0 EXCEPT ![lock.key] = "torn"]
    /\ GoTo("writing")
    /\ UNCHANGED <<index, data, top, size0, todo, scan, history>>

Write ==
    /\ At("writing")
    /\ level0' = [level0 EXCEPT ![lock.key] = "whole"]
    /\ size0' = size0 + 1
    /\ IF size0' > BaseSize THEN GoTo("collate") /\ UNCHANGED stored ELSE Return(TRUE)
    /\ UNCHANGED <<index, data, top, todo, scan, torn, puts, faults>>

(* collate_exprs: data, then index, then the sources are deleted.          *)
CollateData ==
    /\ At("collate")
    /\ data' = [data EXCEPT ![1] = With(@, NextNumber(1), [k \in OnDisk |-> level0[k]])]
    /\ top' = Max({top, 1})
    /\ lock' = [lock EXCEPT !.step = "collate_index", !.sources = OnDisk]
    /\ UNCHANGED <<level0, index, size0, todo, scan, history>>

CollateIndex ==
    /\ At("collate_index")
    /\ index' = [index EXCEPT ![1] = With(@, NextNumber(1), lock.sources)]
    /\ GoTo("unlink")
    /\ UNCHANGED <<level0, data, top, size0, todo, scan, history>>

Unlink ==
    /\ At("unlink")
    /\ IF lock.sources = {}
       THEN /\ size0' = 0
            /\ lock' = [lock EXCEPT !.step = "levels", !.level = 1]
            /\ UNCHANGED level0
       ELSE LET k == Min(lock.sources)
            IN /\ level0' = [level0 EXCEPT ![k] = NoFile]
               /\ lock' = [lock EXCEPT !.sources = @ \ {k}]
               /\ UNCHANGED size0
    /\ UNCHANGED <<index, data, top, todo, scan, history>>

Full(l) == LevelBytes(l) > LevelLimit(l)

NextLevel ==
    /\ At("levels")
    /\ IF lock.level > top
       THEN Return(TRUE)
       ELSE ~Full(lock.level) /\ lock' = [lock EXCEPT !.level = @ + 1] /\ UNCHANGED stored
    /\ UNCHANGED <<disk, size0, todo, scan, torn, puts, faults>>

(* merge_exprs reads the indexes in the order glob lists them; of a key in *)
(* several, the one read last is copied.                                   *)
Winner(l, order, k) ==
    order[Max({i \in DOMAIN order : k \in index[l][order[i]]})]
Merged(l, order) ==
    [k \in UNION Range(index[l]) |-> Winner(l, order, k)]

MergeData ==
    LET l == lock.level IN
    /\ At("levels") /\ l <= top /\ Full(l) /\ l < MaxLevel
    /\ top' = Max({top, l + 1})
    /\ \E order \in SetToSeqs(DOMAIN index[l]) :
         LET from == Merged(l, order) IN
         IF DOMAIN from # {} /\ \A k \in DOMAIN from : from[k] \in DOMAIN data[l]
         THEN /\ data' = [data EXCEPT ![l + 1] =
                    With(@, NextNumber(l + 1), [k \in DOMAIN from |-> data[l][from[k]][k]])]
              /\ GoTo("merge_index")
              /\ UNCHANGED stored
         ELSE Return(FALSE) /\ UNCHANGED data
    /\ UNCHANGED <<level0, index, size0, todo, scan, torn, puts, faults>>

(* Faulty: the index of the merged segment is not moved into place. *)
MergeIndexForgotten ==
    /\ At("merge_index")
    /\ GoTo("unlink_level")
    /\ UNCHANGED <<disk, size0, todo, scan, history>>

MergeIndex ==
    LET l == lock.level IN
    /\ At("merge_index")
    /\ index' = [index EXCEPT ![l + 1] =
                    With(@, NextNumber(l + 1), UNION Range(index[l]))]
    /\ GoTo("unlink_level")
    /\ UNCHANGED <<level0, data, top, size0, todo, scan, history>>

(* The files of the merged level go one by one, in the directory's order.  *)
UnlinkLevel ==
    LET l == lock.level IN
    /\ At("unlink_level")
    /\ \/ \E n \in DOMAIN index[l] :
            index' = [index EXCEPT ![l] = Without(@, n)] /\ UNCHANGED <<data, lock>>
       \/ \E n \in DOMAIN data[l] :
            data' = [data EXCEPT ![l] = Without(@, n)] /\ UNCHANGED <<index, lock>>
       \/ /\ DOMAIN index[l] = {} /\ DOMAIN data[l] = {}
          /\ lock' = [lock EXCEPT !.step = "levels", !.level = l + 1]
          /\ UNCHANGED <<index, data>>
    /\ UNCHANGED <<level0, top, size0, todo, scan, history>>

CutOff == IF At("writing") THEN {lock.key} ELSE {}

(* An operation of the put raises OSError: it returns False.               *)
IOError ==
    /\ ~At("free")
    /\ faults < MaxFaults
    /\ faults' = faults + 1
    /\ torn' = torn \cup CutOff
    /\ Return(FALSE)
    /\ UNCHANGED <<disk, size0, todo, scan, puts>>

(* The process dies; setup_storage measures level_0 when it starts again.  *)
Crash ==
    /\ faults < MaxFaults
    /\ faults' = faults + 1
    /\ torn' = torn \cup CutOff
    /\ lock' = Free
    /\ todo' = [t \in Threads |-> <<>>]
    /\ scan' = Nobody
    /\ size0' = Cardinality({k \in Keys : level0[k] = "whole"})
    /\ UNCHANGED <<disk, stored, puts>>
-----------------------------------------------------------------------------
(* iter_exprs_in_cold_storage with a batch: the lock is held for the       *)
(* listing of level_0, for the listing of each level, for each read.       *)
StartScan ==
    /\ At("free") /\ scan = Nobody
    /\ scan' = [step |-> "level", level |-> 1, files |-> <<>>, offset |-> 0,
                yielded |-> OnDisk, owed |-> stored]
    /\ UNCHANGED <<disk, size0, todo, lock, history>>

ScanLevel ==
    /\ scan.step = "level"
    /\ IF scan.level > top
       THEN scan' = [scan EXCEPT !.step = "done"]
       ELSE /\ At("free")
            /\ scan' = [scan EXCEPT !.step = "read", !.offset = 0,
                                    !.files = Sorted(DOMAIN index[scan.level])]
    /\ UNCHANGED <<disk, size0, todo, lock, history>>

(* Faulty: the scan ends at a file that is gone. *)
ScanReadStops ==
    /\ scan.step = "read"
    /\ IF scan.files = <<>>
       THEN scan' = [scan EXCEPT !.step = "level", !.level = @ + 1]
       ELSE LET n == Head(scan.files)
                here == index[scan.level]
            IN /\ At("free")
               /\ scan' = IF n \in DOMAIN here
                          THEN [scan EXCEPT !.yielded = @ \cup here[n], !.files = Tail(@)]
                          ELSE [scan EXCEPT !.step = "done"]
    /\ UNCHANGED <<disk, size0, todo, lock, history>>

ScanRead ==
    /\ scan.step = "read"
    /\ IF scan.files = <<>>
       THEN scan' = [scan EXCEPT !.step = "level", !.level = @ + 1]
       ELSE LET n == Head(scan.files)
                here == index[scan.level]
                ids == IF n \in DOMAIN here THEN Sorted(here[n]) ELSE <<>>
                got == SubSeq(ids, scan.offset + 1, Min({scan.offset + Batch, Len(ids)}))
                last == got = <<>> \/ scan.offset + Len(got) >= Len(ids)
            IN /\ At("free")
               /\ scan' = [scan EXCEPT !.yielded = @ \cup ToSet(got),
                                       !.offset = IF last THEN 0 ELSE @ + Len(got),
                                       !.files = IF last THEN Tail(@) ELSE @]
    /\ UNCHANGED <<disk, size0, todo, lock, history>>

PutStep == \/ Truncate \/ Write \/ CollateData \/ CollateIndex \/ Unlink
           \/ NextLevel \/ MergeData \/ MergeIndex \/ UnlinkLevel

Next == \/ \E t \in Threads : Acquire(t) \/ \E k \in Keys : StartPut(t, k)
        \/ PutStep \/ IOError \/ Crash
        \/ StartScan \/ ScanLevel \/ ScanRead

Spec == Init /\ [][Next]_vars
-----------------------------------------------------------------------------
HasCopy(k) == level0[k] = "whole" \/ \E s \in Segments : k \in index[s[1]][s[2]] /\ Readable(s, k)

(* Whatever was put successfully, and is not cut short by a later write of *)
(* the same file, has a whole copy that an index or a file name leads to,  *)
(* at every moment of a collation or a merge, after any crash or error     *)
(* (the order of os.replace and unlink in collate.py and merge.py).        *)
NothingLost == \A k \in stored \ (torn \cup CutOff) : HasCopy(k)

(* As long as nothing failed, a lookup that gets the lock finds every expr *)
(* whose put returned True (get_expr_from_cold_storage searches the levels *)
(* in the order the exprs move through them).                              *)
FoundOnceStored == faults = 0 /\ At("free") => \A k \in stored : Lookup(k)

(* The two read paths agree on every key, in what crashes leave behind too *)
(* (get_expr_from_cold_storage, get_exprs_from_cold_storage).              *)
BatchAgrees == At("free") => BatchLookup(Keys) = {k \in Keys : Lookup(k)}

(* A scan yields every key stored when it began, though collations and     *)
(* merges delete the files it is reading (iter.py:56-59).                  *)
ScanComplete == scan.step = "done" => scan.owed \subseteq scan.yielded

=============================================================================
