-------------------------- MODULE ColdStorageProofs -------------------------
(***************************************************************************)
(* Proofs about ColdStorage, for any keys, links between them, threads and *)
(* sizes, and any number of puts and faults.                               *)
(*                                                                         *)
(* NothingLost speaks of whole copies that can be read.  What each file    *)
(* operation keeps is simpler: a key has a file, or a segment with both an *)
(* index and a data file (Present), of which the two agree (Matched), and  *)
(* only a cut write leaves a torn file (TornKnown).  Under is what the put *)
(* in progress relies on between two operations.  ScanOK is where the keys *)
(* that a scan owes are, while puts go on between its reads.  FaultFree is *)
(* what holds until something fails: every index has its data file, so the *)
(* first index that has a key decides rightly.                             *)
(***************************************************************************)
EXTENDS ColdStorage, SumTheorems

-----------------------------------------------------------------------------
(* Types.                                                                  *)

Content == {"whole", "torn"}
Segment == UNION {[S -> Content] : S \in SUBSET Keys}
Files(V) == UNION {[D -> V] : D \in SUBSET Nat}

Steps == {"locked", "writing", "collate", "collate_index", "unlink", "levels",
          "merge_index", "unlink_level"}

TypeOK ==
    /\ level0 \in [Keys -> Content \cup {NoFile}]
    /\ index \in [Levels -> Files(SUBSET Keys)]
    /\ data \in [Levels -> Files(Segment)]
    /\ \A l \in Levels : IsFiniteSet(DOMAIN index[l])
    /\ top \in 0 .. MaxLevel
    /\ todo \in [Threads -> Seq(Keys)]
    /\ \/ lock = Free
       \/ lock \in [step: Steps, by: Threads, key: Keys, level: Nat, sources: SUBSET Keys]
    /\ stored \subseteq Keys
    /\ torn \subseteq Keys

(* The members of Files. *)
LEMMA FilesIs ==
    ASSUME NEW V, NEW f
    PROVE  f \in Files(V) <=> /\ f = [n \in DOMAIN f |-> f[n]]
                              /\ DOMAIN f \subseteq Nat
                              /\ \A n \in DOMAIN f : f[n] \in V
<1>1. ASSUME f \in Files(V)
      PROVE  /\ f = [n \in DOMAIN f |-> f[n]] /\ DOMAIN f \subseteq Nat
             /\ \A n \in DOMAIN f : f[n] \in V
  <2>1. PICK D \in SUBSET Nat : f \in [D -> V]
    BY <1>1 DEF Files
  <2> QED
    BY <2>1
<1>2. ASSUME f = [n \in DOMAIN f |-> f[n]], DOMAIN f \subseteq Nat, \A n \in DOMAIN f : f[n] \in V
      PROVE  f \in Files(V)
  <2>1. f \in [DOMAIN f -> V] /\ DOMAIN f \in SUBSET Nat
    BY <1>2
  <2> QED
    BY <2>1 DEF Files
<1> QED
  BY <1>1, <1>2

(* The members of Segment. *)
LEMMA SegmentIs ==
    ASSUME NEW f
    PROVE  f \in Segment <=> /\ f = [k \in DOMAIN f |-> f[k]]
                             /\ DOMAIN f \subseteq Keys
                             /\ \A k \in DOMAIN f : f[k] \in Content
  BY DEF Segment

(* A new file. *)
LEMMA WithFile ==
    ASSUME NEW V, NEW f \in Files(V), NEW n \in Nat, NEW v \in V
    PROVE  With(f, n, v) \in Files(V)
<1> DEFINE g == With(f, n, v)
           D == DOMAIN f
<1>1. g = [m \in D \cup {n} |-> IF m = n THEN v ELSE f[m]]
  BY DEF With
<1>2. DOMAIN g = D \cup {n} /\ g[n] = v /\ \A m \in D \ {n} : g[m] = f[m]
  BY <1>1
<1>3. D \subseteq Nat /\ \A m \in D : f[m] \in V
  BY FilesIs
<1>4. g = [m \in DOMAIN g |-> g[m]]
  BY <1>1
<1>5. DOMAIN g \subseteq Nat /\ \A m \in DOMAIN g : g[m] \in V
  BY <1>2, <1>3
<1> HIDE DEF g, D
<1>6. g \in Files(V)
  BY <1>4, <1>5, FilesIs
<1> QED
  BY <1>6 DEF g

(* A file is gone. *)
LEMMA WithoutFile ==
    ASSUME NEW V, NEW f \in Files(V), NEW n
    PROVE  Without(f, n) \in Files(V)
<1> DEFINE g == Without(f, n)
           D == DOMAIN f
<1>1. g = [m \in D \ {n} |-> f[m]]
  BY DEF Without, Restrict
<1>2. DOMAIN g = D \ {n} /\ \A m \in D \ {n} : g[m] = f[m]
  BY <1>1
<1>3. D \subseteq Nat /\ \A m \in D : f[m] \in V
  BY FilesIs
<1>4. g = [m \in DOMAIN g |-> g[m]]
  BY <1>1
<1>5. DOMAIN g \subseteq Nat /\ \A m \in DOMAIN g : g[m] \in V
  BY <1>2, <1>3
<1> HIDE DEF g, D
<1>6. g \in Files(V)
  BY <1>4, <1>5, FilesIs
<1> QED
  BY <1>6 DEF g

-----------------------------------------------------------------------------
(* Least and greatest numbers.                                             *)

(* A set of numbers has a least member. *)
LEMMA MinOf ==
    ASSUME NEW S \in SUBSET Nat, S # {}
    PROVE  Min(S) \in S
<1>1. \E m \in S : \A x \in S : m <= x
  BY LeastNat
<1> QED
  BY <1>1 DEF Min

(* A finite one has a greatest member. *)
LEMMA MaxOf ==
    ASSUME NEW S \in SUBSET Nat, IsFiniteSet(S), S # {}
    PROVE  Max(S) \in S /\ \A x \in S : x <= Max(S)
<1> DEFINE HasMax(T) == \E m \in T : \A x \in T : m >= x
           C == {T \in SUBSET S : T # {} /\ ~HasMax(T)}
<1>1. C = {}
  <2> SUFFICES ASSUME C # {} PROVE FALSE
    OBVIOUS
  <2>1. C \in SUBSET SUBSET S
    OBVIOUS
  <2>2. PICK T \in C : \A x \in T : T \ {x} \notin C
    <3> HIDE DEF C
    <3> QED
      BY <2>1, SmallestMember
  <2>3. T \in SUBSET S /\ T # {} /\ ~HasMax(T)
    OBVIOUS
  <2>4. PICK x \in T : TRUE
    BY <2>3
  <2>5. T \ {x} # {}
    <3> SUFFICES ASSUME T \ {x} = {} PROVE FALSE
      OBVIOUS
    <3>1. T = {x} /\ x \in Nat
      BY <2>3, <2>4
    <3> QED
      BY <2>3, <3>1
  <2>6. HasMax(T \ {x})
    BY <2>2, <2>3, <2>5
  <2>7. PICK m \in T \ {x} : \A y \in T \ {x} : m >= y
    BY <2>6
  <2>8. m \in Nat /\ x \in Nat /\ \A y \in T : y \in Nat
    BY <2>3, <2>4
  <2>9. CASE m >= x
    <3>1. \A y \in T : m >= y
      BY <2>7, <2>9
    <3> QED
      BY <2>3, <3>1
  <2>10. CASE ~ (m >= x)
    <3>1. \A y \in T : x >= y
      BY <2>7, <2>8, <2>10
    <3> QED
      BY <2>3, <3>1
  <2> QED
    BY <2>9, <2>10
<1>2. \E m \in S : \A x \in S : m >= x
  BY <1>1
<1>3. Max(S) \in S /\ \A x \in S : Max(S) >= x
  BY <1>2 DEF Max
<1> QED
  BY <1>3

(* The next segment gets a number no index has (_next_segment_number). *)
LEMMA Fresh ==
    ASSUME TypeOK, NEW l \in Levels
    PROVE  NextNumber(l) \in Nat \ DOMAIN index[l]
<1> DEFINE D == DOMAIN index[l]
<1>1. index[l] \in Files(SUBSET Keys) /\ IsFiniteSet(D)
  BY DEF TypeOK
<1>2. D \in SUBSET Nat
  BY <1>1, FilesIs
<1>3. NextNumber(l) = IF D = {} THEN 0 ELSE Max(D) + 1
  BY DEF NextNumber
<1> HIDE DEF D
<1>4. ASSUME D # {} PROVE Max(D) + 1 \in Nat /\ Max(D) + 1 \notin D
  <2>1. Max(D) \in D /\ \A x \in D : x <= Max(D)
    BY <1>1, <1>2, <1>4, MaxOf
  <2> DEFINE m == Max(D)
  <2>2. m \in Nat /\ \A x \in D : x \in Nat /\ x <= m
    BY <1>2, <2>1
  <2> HIDE DEF m
  <2>3. m + 1 \in Nat /\ m + 1 \notin D
    BY <2>2
  <2> QED
    BY <2>3 DEF m
<1>5. NextNumber(l) \in Nat \ D
  BY <1>3, <1>4
<1> QED
  BY <1>5 DEF D

(* A listing names every file of the directory, once. *)
LEMMA ListingIs ==
    ASSUME NEW S, IsFiniteSet(S), NEW order \in SetToSeqs(S)
    PROVE  /\ DOMAIN order \in SUBSET Nat /\ IsFiniteSet(DOMAIN order)
           /\ \A i \in DOMAIN order : order[i] \in S
           /\ \A n \in S : \E i \in DOMAIN order : order[i] = n
<1> DEFINE D == 1 .. Cardinality(S)
<1>1. /\ order \in [D -> S]
      /\ \A i, j \in D : i # j => order[i] # order[j]
  BY DEF SetToSeqs
<1>2. Cardinality(S) \in Nat
  BY FS_CardinalityType
<1>3. IsFiniteSet(D) /\ Cardinality(D) = Cardinality(S) /\ D \in SUBSET Nat
  BY <1>2, FS_Interval
<1> HIDE DEF D
<1>4. order \in Injection(D, S)
  BY <1>1 DEF Injection, IsInjective
<1>5. order \in Surjection(D, S)
  BY <1>3, <1>4, FS_Injection
<1>6. \A n \in S : \E i \in D : order[i] = n
  BY <1>5 DEF Surjection
<1>7. DOMAIN order = D
  BY <1>1
<1> QED
  BY <1>1, <1>3, <1>6, <1>7

-----------------------------------------------------------------------------
(* The invariant.                                                          *)

(* The segments of a level that have both of their files. *)
Both(l) == DOMAIN index[l] \cap DOMAIN data[l]

Present(k) == level0[k] # NoFile \/ \E l \in Levels : \E n \in Both(l) : k \in index[l][n]

(* Indexes lie in the levels that lookups search. *)
Reached == \A l \in Levels : l > top => DOMAIN index[l] = {}

(* An index names the exprs of its data file. *)
Matched == \A l \in Levels : \A n \in Both(l) : DOMAIN data[l][n] = index[l][n]

(* Only a write that was cut off leaves a torn file. *)
TornKnown ==
    /\ \A k \in Keys : level0[k] = "torn" => k \in torn \cup CutOff
    /\ \A l \in Levels : \A n \in DOMAIN data[l] : \A k \in DOMAIN data[l][n] :
          data[l][n][k] = "torn" => k \in torn

(* The data file of a segment of `ids' is written, its index is not. *)
Awaits(l, ids) ==
    /\ l \in 1 .. top
    /\ NextNumber(l) \in DOMAIN data[l]
    /\ DOMAIN data[l][NextNumber(l)] = ids

(* A segment of level l holds all of `ids'. *)
Covers(l, ids) == l \in 1 .. top /\ \E n \in Both(l) : ids \subseteq index[l][n]

Merging == lock.level \in Levels /\ lock.level + 1 \in Levels

Under ==
    /\ At("levels") => lock.level # 0
    /\ At("collate_index") => Awaits(1, lock.sources)
    /\ At("unlink") => Covers(1, lock.sources)
    /\ At("merge_index") =>
          Merging /\ Awaits(lock.level + 1, UNION Range(index[lock.level]))
    /\ At("unlink_level") =>
          Merging /\ Covers(lock.level + 1, UNION Range(index[lock.level]))

(* The key of the put in progress, once its file exists. *)
Being == IF lock.step \in {"free", "locked"} THEN {} ELSE {lock.key}

Kept == \A k \in stored \cup Being : Present(k)

Inv == TypeOK /\ Reached /\ Matched /\ TornKnown /\ Under /\ Kept

(* Indexed and readable is as good as whole. *)
LEMMA InvSafe == Inv => NothingLost
<1> SUFFICES ASSUME Inv, NEW k \in stored \ (torn \cup CutOff) PROVE HasCopy(k)
  BY DEF NothingLost
<1>1. k \in Keys /\ Present(k)
  BY DEF Inv, TypeOK, Kept
<1>2. ASSUME level0[k] # NoFile PROVE HasCopy(k)
  <2>1. level0[k] \in Content /\ level0[k] # "torn"
    BY <1>1, <1>2 DEF Inv, TypeOK, TornKnown
  <2> QED
    BY <2>1 DEF HasCopy, Content
<1>3. ASSUME NEW l \in Levels, NEW n \in Both(l), k \in index[l][n] PROVE HasCopy(k)
  <2>1. n \in DOMAIN index[l] /\ n \in DOMAIN data[l] /\ DOMAIN data[l][n] = index[l][n]
    BY DEF Both, Inv, Matched
  <2>2. l \in 1 .. top
    BY <2>1 DEF Inv, Reached, TypeOK, Levels
  <2>3. data[l][n][k] = "whole"
    <3>1. data[l] \in Files(Segment)
      BY DEF Inv, TypeOK
    <3>2. data[l][n] \in Segment
      BY <2>1, <3>1, FilesIs
    <3>3. data[l][n][k] \in Content
      BY <1>3, <2>1, <3>2, SegmentIs
    <3>4. data[l][n][k] # "torn"
      BY <1>3, <2>1 DEF Inv, TornKnown
    <3> QED
      BY <3>3, <3>4 DEF Content
  <2> DEFINE s == <<l, n>>
  <2>4. s \in Segments
    BY <2>1, <2>2 DEF Segments
  <2>5. s[1] = l /\ s[2] = n
    OBVIOUS
  <2> HIDE DEF s
  <2>6. Readable(s, k)
    BY <2>1, <2>3, <2>5 DEF Readable
  <2> QED
    BY <1>3, <2>4, <2>5, <2>6 DEF HasCopy
<1> QED
  BY <1>1, <1>2, <1>3 DEF Present

-----------------------------------------------------------------------------
(* Segments come and go.                                                   *)

(* A data file without an index disturbs nothing. *)
LEMMA NewData ==
    ASSUME Inv, NEW l \in Levels, NEW file \in Segment,
           data' = [data EXCEPT ![l] = With(data[l], NextNumber(l), file)],
           index' = index, level0' = level0
    PROVE  /\ data' \in [Levels -> Files(Segment)]
           /\ Matched'
           /\ \A k : Present(k) => Present(k)'
           /\ NextNumber(l)' \in DOMAIN data'[l]
           /\ data'[l][NextNumber(l)'] = file
           /\ \A m \in Levels : \A n \in DOMAIN data'[m] :
                 \/ n \in DOMAIN data[m] /\ data'[m][n] = data[m][n]
                 \/ data'[m][n] = file
<1> DEFINE N == NextNumber(l)
<1>1. N \in Nat /\ N \notin DOMAIN index[l]
  BY Fresh DEF Inv
<1>2. data \in [Levels -> Files(Segment)]
  BY DEF Inv, TypeOK
<1>3. NextNumber(l)' = N
  BY DEF NextNumber
<1> HIDE DEF N
<1>4. /\ data'[l] \in Files(Segment)
      /\ DOMAIN data'[l] = DOMAIN data[l] \cup {N}
      /\ data'[l][N] = file
      /\ \A m \in DOMAIN data[l] \ {N} : data'[l][m] = data[l][m]
  <2> DEFINE f == data[l]
             g == With(f, N, file)
             V == Segment
  <2>1. data'[l] = g
    BY <1>2 DEF N
  <2>5. N \in Nat
    BY <1>1
  <2>6. f \in Files(V)
    BY <1>2
  <2>7. file \in V
    OBVIOUS
  <2> HIDE DEF f, V
  <2>2. DOMAIN g = DOMAIN f \cup {N} /\ g[N] = file /\ \A m \in DOMAIN f \ {N} : g[m] = f[m]
    BY DEF With
  <2>8. g \in Files(V)
    BY <2>5, <2>6, <2>7, WithFile
  <2> HIDE DEF g
  <2> QED
    BY <2>1, <2>2, <2>8 DEF f, V
<1>5. \A m \in Levels \ {l} : data'[m] = data[m]
  BY <1>2
<1>6. data' \in [Levels -> Files(Segment)]
  BY <1>2, <1>4, <1>5
<1>7. /\ \A m \in Levels : Both(m)' = Both(m)
      /\ \A m \in Levels : \A n \in Both(m) : data'[m][n] = data[m][n]
  BY <1>1, <1>4, <1>5 DEF Both
<1>8. Matched'
  BY <1>7 DEF Inv, Matched
<1>9. \A k : Present(k) => Present(k)'
  BY <1>7 DEF Present
<1>10. \A m \in Levels : \A n \in DOMAIN data'[m] :
          \/ n \in DOMAIN data[m] /\ data'[m][n] = data[m][n]
          \/ data'[m][n] = file
  BY <1>4, <1>5
<1> QED
  BY <1>3, <1>4, <1>6, <1>8, <1>9, <1>10

(* The index of a data file that awaits it completes a segment. *)
LEMMA NewIndex ==
    ASSUME Inv, NEW l \in Levels, NEW ids \in SUBSET Keys, Awaits(l, ids),
           index' = [index EXCEPT ![l] = With(index[l], NextNumber(l), ids)],
           data' = data, level0' = level0, top' = top
    PROVE  /\ index' \in [Levels -> Files(SUBSET Keys)]
           /\ \A m \in Levels : IsFiniteSet(DOMAIN index'[m])
           /\ \A m \in Levels \ {l} : index'[m] = index[m]
           /\ Reached'
           /\ Matched'
           /\ \A k : Present(k) => Present(k)'
           /\ Covers(l, ids)'
<1> DEFINE N == NextNumber(l)
<1>1. N \in Nat /\ N \notin DOMAIN index[l]
  BY Fresh DEF Inv
<1>2. /\ index \in [Levels -> Files(SUBSET Keys)]
      /\ \A m \in Levels : IsFiniteSet(DOMAIN index[m])
  BY DEF Inv, TypeOK
<1>3. l \in 1 .. top /\ N \in DOMAIN data[l] /\ DOMAIN data[l][N] = ids
  BY DEF Awaits
<1> HIDE DEF N
<1>4. /\ index'[l] \in Files(SUBSET Keys)
      /\ DOMAIN index'[l] = DOMAIN index[l] \cup {N}
      /\ index'[l][N] = ids
      /\ \A m \in DOMAIN index[l] \ {N} : index'[l][m] = index[l][m]
      /\ IsFiniteSet(DOMAIN index'[l])
  <2> DEFINE f == index[l]
             g == With(f, N, ids)
             V == SUBSET Keys
  <2>1. index'[l] = g /\ IsFiniteSet(DOMAIN f)
    BY <1>2 DEF N
  <2>5. N \in Nat
    BY <1>1
  <2>6. f \in Files(V)
    BY <1>2
  <2>7. ids \in V
    OBVIOUS
  <2> HIDE DEF f, V
  <2>2. DOMAIN g = DOMAIN f \cup {N} /\ g[N] = ids /\ \A m \in DOMAIN f \ {N} : g[m] = f[m]
    BY DEF With
  <2>8. g \in Files(V)
    BY <2>5, <2>6, <2>7, WithFile
  <2>3. IsFiniteSet(DOMAIN f \cup {N})
    BY <2>1, FS_AddElement
  <2> HIDE DEF g
  <2>4. IsFiniteSet(DOMAIN g)
    BY <2>2, <2>3
  <2> QED
    BY <2>1, <2>2, <2>4, <2>8 DEF f, V
<1>5. \A m \in Levels \ {l} : index'[m] = index[m]
  BY <1>2
<1>6. /\ index' \in [Levels -> Files(SUBSET Keys)]
      /\ \A m \in Levels : IsFiniteSet(DOMAIN index'[m])
  BY <1>2, <1>4, <1>5
<1>7. Reached'
  <2> SUFFICES ASSUME NEW m \in Levels, m > top PROVE DOMAIN index'[m] = {}
    BY DEF Reached
  <2>1. m # l
    BY <1>3 DEF Inv, TypeOK, Levels
  <2> QED
    BY <1>5, <2>1 DEF Inv, Reached
<1>8. /\ \A m \in Levels \ {l} : Both(m)' = Both(m)
      /\ Both(l)' = Both(l) \cup {N}
      /\ \A m \in Levels : \A n \in Both(m) : index'[m][n] = index[m][n]
  BY <1>1, <1>3, <1>4, <1>5 DEF Both
<1>9. Matched'
  BY <1>3, <1>4, <1>8 DEF Inv, Matched
<1>10. \A k : Present(k) => Present(k)'
  <2> SUFFICES ASSUME NEW k, Present(k) PROVE Present(k)'
    OBVIOUS
  <2>1. \A m \in Levels : \A n \in Both(m) : n \in Both(m)' /\ index'[m][n] = index[m][n]
    BY <1>8
  <2> QED
    BY <2>1 DEF Present
<1>11. Covers(l, ids)'
  BY <1>3, <1>4, <1>8 DEF Covers
<1> QED
  BY <1>5, <1>6, <1>7, <1>9, <1>10, <1>11

(* What a merge copied may go from the level below. *)
LEMMA GoneFile ==
    ASSUME Inv, NEW l \in Levels, l + 1 \in Levels,
           Covers(l + 1, UNION Range(index[l])), NEW n,
           \/ index' = [index EXCEPT ![l] = Without(index[l], n)] /\ data' = data
           \/ data' = [data EXCEPT ![l] = Without(data[l], n)] /\ index' = index,
           level0' = level0, top' = top
    PROVE  /\ index' \in [Levels -> Files(SUBSET Keys)]
           /\ data' \in [Levels -> Files(Segment)]
           /\ \A m \in Levels : IsFiniteSet(DOMAIN index'[m])
           /\ Reached'
           /\ Matched'
           /\ \A m \in Levels : \A i \in DOMAIN data'[m] :
                 i \in DOMAIN data[m] /\ data'[m][i] = data[m][i]
           /\ \A k : Present(k) => Present(k)'
           /\ Covers(l + 1, UNION Range(index[l]))'
<1>1. /\ index \in [Levels -> Files(SUBSET Keys)]
      /\ data \in [Levels -> Files(Segment)]
      /\ \A m \in Levels : IsFiniteSet(DOMAIN index[m])
      /\ l + 1 # l
  <2>1. l + 1 # l
    BY DEF Levels
  <2> QED
    BY <2>1 DEF Inv, TypeOK
<1> DEFINE Fewer(f, g) == DOMAIN g \subseteq DOMAIN f /\ \A i \in DOMAIN g : g[i] = f[i]
<1>2. /\ index' \in [Levels -> Files(SUBSET Keys)]
      /\ data' \in [Levels -> Files(Segment)]
      /\ Fewer(index[l], index'[l])
      /\ Fewer(data[l], data'[l])
      /\ \A m \in Levels \ {l} : index'[m] = index[m] /\ data'[m] = data[m]
  <2> DEFINE f == index[l]
             d == data[l]
             V == SUBSET Keys
             W == Segment
  <2>1. \/ index' = [index EXCEPT ![l] = Without(f, n)] /\ data' = data
        \/ data' = [data EXCEPT ![l] = Without(d, n)] /\ index' = index
    OBVIOUS
  <2>7. f \in Files(V)
    BY <1>1
  <2>8. d \in Files(W)
    BY <1>1
  <2> HIDE DEF f, d, V, W
  <2>9. Without(f, n) \in Files(V)
    BY <2>7, WithoutFile
  <2>10. Without(d, n) \in Files(W)
    BY <2>8, WithoutFile
  <2>2. Without(f, n) \in Files(V) /\ Fewer(f, Without(f, n))
    BY <2>9 DEF Without, Restrict
  <2>3. Without(d, n) \in Files(W) /\ Fewer(d, Without(d, n))
    BY <2>10 DEF Without, Restrict
  <2> HIDE DEF Fewer
  <2>4. Fewer(f, f) /\ Fewer(d, d)
    BY DEF Fewer
  <2>5. ASSUME index' = [index EXCEPT ![l] = Without(f, n)], data' = data
        PROVE  /\ index' \in [Levels -> Files(V)] /\ data' \in [Levels -> Files(W)]
               /\ Fewer(f, index'[l]) /\ Fewer(d, data'[l])
               /\ \A m \in Levels \ {l} : index'[m] = index[m] /\ data'[m] = data[m]
    BY <1>1, <2>2, <2>4, <2>5 DEF V, W, d
  <2>6. ASSUME data' = [data EXCEPT ![l] = Without(d, n)], index' = index
        PROVE  /\ index' \in [Levels -> Files(V)] /\ data' \in [Levels -> Files(W)]
               /\ Fewer(f, index'[l]) /\ Fewer(d, data'[l])
               /\ \A m \in Levels \ {l} : index'[m] = index[m] /\ data'[m] = data[m]
    BY <1>1, <2>3, <2>4, <2>6 DEF V, W, f
  <2> QED
    BY <2>1, <2>5, <2>6 DEF f, d, V, W
<1>3. \A m \in Levels : Fewer(index[m], index'[m]) /\ Fewer(data[m], data'[m])
  BY <1>2
<1>4. \A m \in Levels : IsFiniteSet(DOMAIN index'[m])
  <2> SUFFICES ASSUME NEW m \in Levels PROVE IsFiniteSet(DOMAIN index'[m])
    OBVIOUS
  <2> DEFINE D == DOMAIN index[m]
             E == DOMAIN index'[m]
  <2>1. E \in SUBSET D /\ IsFiniteSet(D)
    BY <1>1, <1>3
  <2> HIDE DEF D, E
  <2>2. IsFiniteSet(E)
    BY <2>1, FS_Subset
  <2> QED
    BY <2>2 DEF E
<1>5. Reached'
  BY <1>3 DEF Inv, Reached
<1>6. Matched'
  BY <1>3 DEF Inv, Matched, Both
<1>7. \A m \in Levels \ {l} : Both(m)' = Both(m) /\ index'[m] = index[m]
  BY <1>2 DEF Both
<1>8. Covers(l + 1, UNION Range(index[l]))'
  <2>1. UNION Range(index'[l]) \subseteq UNION Range(index[l])
    BY <1>3 DEF Range
  <2> QED
    BY <1>1, <1>7, <2>1 DEF Covers
<1>9. \A k : Present(k) => Present(k)'
  <2> SUFFICES ASSUME NEW k, Present(k), level0[k] = NoFile PROVE Present(k)'
    BY DEF Present
  <2>1. PICK m \in Levels : \E i \in Both(m) : k \in index[m][i]
    BY DEF Present
  <2>2. PICK i \in Both(m) : k \in index[m][i]
    BY <2>1
  <2>3. CASE m # l
    BY <1>7, <2>2, <2>3 DEF Present
  <2>4. CASE m = l
    <3>1. k \in UNION Range(index[l])
      BY <2>2, <2>4 DEF Both, Range
    <3>2. PICK j \in Both(l + 1) : k \in index[l + 1][j]
      BY <3>1 DEF Covers
    <3> QED
      BY <1>1, <1>7, <3>2 DEF Present
  <2> QED
    BY <2>3, <2>4
<1> QED
  BY <1>2, <1>3, <1>4, <1>5, <1>6, <1>8, <1>9

-----------------------------------------------------------------------------
(* The steps of a put.                                                     *)

LockRecord == [step: Steps, by: Threads, key: Keys, level: Nat, sources: SUBSET Keys]

(* What the lock says while a put holds it. *)
LEMMA LockIs ==
    ASSUME TypeOK, NEW step \in Steps, At(step)
    PROVE  /\ lock \in LockRecord
           /\ lock.key \in Keys /\ lock.level \in Nat /\ lock.sources \in SUBSET Keys
           /\ lock.step = step /\ step # "free"
<1>1. step # "free"
  BY DEF Steps
<1>2. lock # Free
  BY <1>1 DEF At, Free
<1>3. lock \in LockRecord
  BY <1>2 DEF TypeOK, LockRecord
<1> QED
  BY <1>1, <1>3 DEF LockRecord, At

(* The next step of the put. *)
LEMMA GoToIs ==
    ASSUME lock \in LockRecord, NEW step \in Steps, lock' = [lock EXCEPT !.step = step]
    PROVE  /\ lock' \in LockRecord
           /\ lock'.step = step
           /\ lock'.key = lock.key /\ lock'.level = lock.level /\ lock'.sources = lock.sources
  BY DEF LockRecord

(* Steps that touch no file, and forget no cut write. *)
LEMMA DiskSame ==
    ASSUME Inv, UNCHANGED disk,
           torn \cup CutOff \subseteq torn' \cup CutOff', torn \subseteq torn'
    PROVE  Reached' /\ Matched' /\ TornKnown' /\ \A k : Present(k) => Present(k)'
<1>1. Reached' /\ Matched' /\ \A k : Present(k) => Present(k)'
  BY DEF disk, Inv, Reached, Matched, Both, Present
<1>2. TornKnown'
  BY DEF disk, Inv, TornKnown
<1> QED
  BY <1>1, <1>2

(* The put is over. *)
LEMMA ReturnInv ==
    ASSUME Inv, NEW ok \in BOOLEAN, Return(ok), ok => lock.step \notin {"free", "locked"},
           lock.step # "free",
           level0' \in [Keys -> Content \cup {NoFile}], data' \in [Levels -> Files(Segment)],
           UNCHANGED <<index, todo>>, top' \in 0 .. MaxLevel,
           torn' \in SUBSET Keys,
           Reached', Matched', TornKnown', \A k : Present(k) => Present(k)'
    PROVE  Inv'
<1>1. lock.key \in Keys
  BY DEF Inv, TypeOK, Free
<1>2. /\ lock' = Free
      /\ stored' \subseteq stored \cup {lock.key}
      /\ stored' \subseteq stored \cup Being
  BY DEF Return, Being
<1>3. TypeOK'
  BY <1>1, <1>2 DEF Inv, TypeOK
<1>4. Under'
  BY <1>2 DEF Under, At, Free
<1>5. Kept'
  <2>1. Being' = {}
    BY <1>2 DEF Being, Free
  <2> QED
    BY <1>2, <2>1 DEF Inv, Kept
<1> QED
  BY <1>3, <1>4, <1>5 DEF Inv

(* The file of the key is cut, and then written. *)
LEMMA TruncateInv == ASSUME Inv, Truncate PROVE Inv'
<1>1. /\ lock \in LockRecord /\ lock.key \in Keys /\ lock.step = "locked"
      /\ lock' = [lock EXCEPT !.step = "writing"]
      /\ level0' = [level0 EXCEPT ![lock.key] = "torn"]
      /\ UNCHANGED <<index, data, top, todo, stored, torn>>
  BY LockIs DEF Truncate, GoTo, Steps, Inv, history
<1>2. /\ lock' \in LockRecord /\ lock'.step = "writing" /\ lock'.key = lock.key
  BY <1>1, GoToIs DEF Steps
<1>3. TypeOK'
  BY <1>1, <1>2 DEF Inv, TypeOK, Content, LockRecord
<1>4. Reached' /\ Matched'
  BY <1>1 DEF Inv, Reached, Matched, Both
<1>5. TornKnown'
  <2>1. CutOff = {} /\ CutOff' = {lock.key}
    BY <1>1, <1>2 DEF CutOff, At
  <2>2. \A k \in Keys : level0'[k] = "torn" => k = lock.key \/ level0[k] = "torn"
    BY <1>1 DEF Inv, TypeOK
  <2> QED
    BY <1>1, <2>1, <2>2 DEF Inv, TornKnown
<1>6. Under'
  BY <1>2 DEF Under, At
<1>7. Kept'
  <2>1. Being = {} /\ Being' = {lock.key}
    BY <1>1, <1>2 DEF Being
  <2>2. Present(lock.key)'
    BY <1>1 DEF Present, Inv, TypeOK, NoFile
  <2>3. \A k \in Keys : Present(k) => Present(k)'
    BY <1>1, <2>2 DEF Present, Both, Inv, TypeOK
  <2>4. stored \subseteq Keys
    BY DEF Inv, TypeOK
  <2> QED
    BY <1>1, <2>1, <2>2, <2>3, <2>4 DEF Inv, Kept
<1> QED
  BY <1>3, <1>4, <1>5, <1>6, <1>7 DEF Inv

(* The write that makes the file whole. *)
LEMMA WriteInv == ASSUME Inv, Write PROVE Inv'
<1>1. /\ lock \in LockRecord /\ lock.key \in Keys /\ lock.step = "writing"
      /\ level0' = [level0 EXCEPT ![lock.key] = "whole"]
      /\ UNCHANGED <<index, data, top, todo, torn>>
      /\ \/ lock' = [lock EXCEPT !.step = "collate"] /\ UNCHANGED stored
         \/ Return(TRUE)
  BY LockIs DEF Write, GoTo, Steps, Inv
<1>2. Reached' /\ Matched'
  BY <1>1 DEF Inv, Reached, Matched, Both
<1>3. TornKnown'
  <2>1. CutOff = {lock.key}
    BY <1>1 DEF CutOff, At
  <2>2. \A k \in Keys : level0'[k] = "torn" => k # lock.key /\ level0[k] = "torn"
    BY <1>1 DEF Inv, TypeOK
  <2> QED
    BY <1>1, <2>1, <2>2 DEF Inv, TornKnown
<1>4. level0' \in [Keys -> Content \cup {NoFile}]
  BY <1>1 DEF Inv, TypeOK, Content
<1>5. \A k : Present(k) => Present(k)'
  <2> SUFFICES ASSUME NEW k, Present(k) PROVE Present(k)'
    OBVIOUS
  <2>1. CASE k = lock.key
    BY <1>1, <2>1 DEF Present, Inv, TypeOK, NoFile
  <2>2. CASE k # lock.key
    BY <1>1, <2>2 DEF Present, Both, Inv, TypeOK
  <2> QED
    BY <2>1, <2>2
<1>6. ASSUME Return(TRUE) PROVE Inv'
  BY <1>1, <1>2, <1>3, <1>4, <1>5, <1>6, ReturnInv DEF Inv, TypeOK
<1>7. ASSUME lock' = [lock EXCEPT !.step = "collate"], UNCHANGED stored PROVE Inv'
  <2>1. /\ lock' \in LockRecord /\ lock'.step = "collate" /\ lock'.key = lock.key
    BY <1>1, <1>7, GoToIs DEF Steps
  <2>2. TypeOK'
    BY <1>1, <1>4, <1>7, <2>1 DEF Inv, TypeOK, LockRecord
  <2>3. Under'
    BY <2>1 DEF Under, At
  <2>4. Kept'
    <3>1. Being' = Being
      BY <1>1, <2>1 DEF Being
    <3> QED
      BY <1>5, <1>7, <3>1 DEF Inv, Kept
  <2> QED
    BY <1>2, <1>3, <2>2, <2>3, <2>4 DEF Inv
<1> QED
  BY <1>1, <1>6, <1>7

(* Steps of a put that go on: the key stays present, no write is cut.      *)
LEMMA GoOn ==
    ASSUME Inv, lock \in LockRecord, lock' \in LockRecord, lock'.key = lock.key,
           lock.step \notin {"locked", "writing"}, lock'.step \notin {"locked", "writing"},
           level0' \in [Keys -> Content \cup {NoFile}],
           index' \in [Levels -> Files(SUBSET Keys)],
           data' \in [Levels -> Files(Segment)],
           \A l \in Levels : IsFiniteSet(DOMAIN index'[l]),
           top' \in 0 .. MaxLevel,
           UNCHANGED <<todo, stored, torn>>,
           Reached', Matched', Under',
           \A k \in Keys : level0'[k] = "torn" => level0[k] = "torn",
           \A l \in Levels : \A n \in DOMAIN data'[l] : \A k \in DOMAIN data'[l][n] :
              data'[l][n][k] = "torn" => k \in torn,
           \A k \in stored \cup Being : Present(k)'
    PROVE  Inv'
<1>1. TypeOK'
  BY DEF Inv, TypeOK, LockRecord
<1>2. TornKnown'
  <2>1. CutOff = {} /\ CutOff' = {}
    BY DEF CutOff, At
  <2> QED
    BY <2>1 DEF Inv, TornKnown
<1>3. Kept'
  <2>1. Being' \subseteq Being
    BY DEF Being, LockRecord, Steps
  <2> QED
    BY <2>1 DEF Kept
<1> QED
  BY <1>1, <1>2, <1>3 DEF Inv

(* The exprs in level_0 that collation packs. *)
LEMMA CollateDataInv == ASSUME Inv, CollateData PROVE Inv'
<1> DEFINE file == [k \in OnDisk |-> level0[k]]
<1>1. /\ lock \in LockRecord /\ lock.step = "collate"
      /\ lock' = [lock EXCEPT !.step = "collate_index", !.sources = OnDisk]
      /\ data' = [data EXCEPT ![1] = With(data[1], NextNumber(1), file)]
      /\ top' = Max({top, 1})
      /\ UNCHANGED <<level0, index, todo, stored, torn>>
  BY LockIs DEF CollateData, Steps, Inv, history
<1>2. 1 \in Levels /\ MaxLevel \in Nat
  BY ColdStorageAssumption DEF ColdStorageAssumption, Levels
<1>3. top' \in 0 .. MaxLevel /\ top <= top' /\ 1 <= top'
  <2>1. top \in Nat /\ top <= MaxLevel /\ 1 <= MaxLevel
    BY <1>2 DEF Inv, TypeOK, Levels
  <2> DEFINE S == {top, 1}
  <2>2. S \in SUBSET Nat /\ S # {} /\ top \in S /\ 1 \in S
    BY <2>1
  <2>3. IsFiniteSet(S)
    <3>1. IsFiniteSet({top}) /\ {top} \cup {1} = S
      BY FS_Singleton
    <3> HIDE DEF S
    <3> QED
      BY <3>1, FS_AddElement
  <2>4. S = {top, 1}
    OBVIOUS
  <2> HIDE DEF S
  <2>5. Max(S) \in S /\ \A x \in S : x <= Max(S)
    BY <2>2, <2>3, MaxOf
  <2> QED
    BY <1>1, <1>2, <2>1, <2>2, <2>4, <2>5
<1>4. OnDisk \in SUBSET Keys /\ file \in Segment /\ DOMAIN file = OnDisk
  <2>1. OnDisk \in SUBSET Keys
    BY DEF OnDisk
  <2>2. file \in [OnDisk -> Content]
    BY DEF OnDisk, Inv, TypeOK
  <2> QED
    BY <2>1, <2>2 DEF Segment
<1>5. \A k \in DOMAIN file : file[k] = "torn" => k \in torn
  <2>1. CutOff = {}
    BY <1>1 DEF CutOff, At
  <2> QED
    BY <2>1 DEF OnDisk, Inv, TornKnown
<1> HIDE DEF file
<1>6. /\ data' \in [Levels -> Files(Segment)]
      /\ Matched'
      /\ \A k : Present(k) => Present(k)'
      /\ NextNumber(1)' \in DOMAIN data'[1]
      /\ data'[1][NextNumber(1)'] = file
      /\ \A m \in Levels : \A n \in DOMAIN data'[m] :
            \/ n \in DOMAIN data[m] /\ data'[m][n] = data[m][n]
            \/ data'[m][n] = file
  BY <1>1, <1>2, <1>4, NewData
<1>7. /\ lock' \in LockRecord /\ lock'.key = lock.key
      /\ lock'.step = "collate_index" /\ lock'.sources = OnDisk
  BY <1>1, <1>4 DEF LockRecord, Steps
<1>8. Under'
  <2>1. Awaits(1, OnDisk)'
    <3>1. NextNumber(1)' \in DOMAIN data'[1] /\ DOMAIN data'[1][NextNumber(1)'] = OnDisk
      BY <1>4, <1>6
    <3>2. OnDisk' = OnDisk /\ 1 \in 1 .. top'
      BY <1>1, <1>3 DEF OnDisk
    <3> QED
      BY <3>1, <3>2 DEF Awaits
  <2>2. OnDisk' = OnDisk
    BY <1>1 DEF OnDisk
  <2> QED
    BY <1>7, <2>1, <2>2 DEF Under, At
<1>9. Reached'
  BY <1>1, <1>3 DEF Reached, Inv, TypeOK, Levels
<1>10. \A l \in Levels : \A n \in DOMAIN data'[l] : \A k \in DOMAIN data'[l][n] :
          data'[l][n][k] = "torn" => k \in torn
  BY <1>5, <1>6 DEF Inv, TornKnown
<1>11. \A k \in stored \cup Being : Present(k)'
  BY <1>6 DEF Inv, Kept
<1>12. /\ level0' \in [Keys -> Content \cup {NoFile}]
       /\ index' \in [Levels -> Files(SUBSET Keys)]
       /\ \A l \in Levels : IsFiniteSet(DOMAIN index'[l])
       /\ \A k \in Keys : level0'[k] = "torn" => level0[k] = "torn"
  BY <1>1 DEF Inv, TypeOK
<1> QED
  BY <1>1, <1>3, <1>6, <1>7, <1>8, <1>9, <1>10, <1>11, <1>12, GoOn

(* Their index. *)
LEMMA CollateIndexInv == ASSUME Inv, CollateIndex PROVE Inv'
<1>1. /\ lock \in LockRecord /\ lock.step = "collate_index" /\ lock.sources \in SUBSET Keys
      /\ lock' = [lock EXCEPT !.step = "unlink"]
      /\ index' = [index EXCEPT ![1] = With(index[1], NextNumber(1), lock.sources)]
      /\ UNCHANGED <<level0, data, top, todo, stored, torn>>
  BY LockIs DEF CollateIndex, GoTo, Steps, Inv, history
<1>2. 1 \in Levels
  BY ColdStorageAssumption DEF ColdStorageAssumption, Levels
<1>3. Awaits(1, lock.sources)
  BY <1>1 DEF Inv, Under, At
<1>4. /\ lock' \in LockRecord /\ lock'.step = "unlink" /\ lock'.key = lock.key
      /\ lock'.sources = lock.sources
  BY <1>1, GoToIs DEF Steps
<1>5. PICK ids \in SUBSET Keys : ids = lock.sources
  BY <1>1
<1>6. Awaits(1, ids) /\ index' = [index EXCEPT ![1] = With(index[1], NextNumber(1), ids)]
  BY <1>1, <1>3, <1>5
<1>7. /\ index' \in [Levels -> Files(SUBSET Keys)]
      /\ \A m \in Levels : IsFiniteSet(DOMAIN index'[m])
      /\ Reached'
      /\ Matched'
      /\ \A k : Present(k) => Present(k)'
      /\ Covers(1, ids)'
  BY <1>1, <1>2, <1>6, NewIndex
<1>8. Under'
  <2>1. Covers(1, lock.sources)'
    BY <1>4, <1>5, <1>7 DEF Covers
  <2> QED
    BY <1>4, <2>1 DEF Under, At
<1>9. \A k \in stored \cup Being : Present(k)'
  BY <1>7 DEF Inv, Kept
<1>10. /\ level0' \in [Keys -> Content \cup {NoFile}]
       /\ data' \in [Levels -> Files(Segment)]
       /\ top' \in 0 .. MaxLevel
       /\ \A k \in Keys : level0'[k] = "torn" => level0[k] = "torn"
       /\ \A l \in Levels : \A n \in DOMAIN data'[l] : \A k \in DOMAIN data'[l][n] :
             data'[l][n][k] = "torn" => k \in torn
  BY <1>1 DEF Inv, TypeOK, TornKnown
<1> QED
  BY <1>1, <1>4, <1>7, <1>8, <1>9, <1>10, GoOn

(* The packed files are deleted. *)
LEMMA UnlinkInv == ASSUME Inv, Unlink PROVE Inv'
<1>1. /\ lock \in LockRecord /\ lock.step = "unlink" /\ lock.sources \in SUBSET Keys
      /\ UNCHANGED <<index, data, top, todo, stored, torn>>
  BY LockIs DEF Unlink, Steps, Inv, history
<1>2. Covers(1, lock.sources)
  BY <1>1 DEF Inv, Under, At
<1>3. /\ index' \in [Levels -> Files(SUBSET Keys)]
      /\ data' \in [Levels -> Files(Segment)]
      /\ \A l \in Levels : IsFiniteSet(DOMAIN index'[l])
      /\ top' \in 0 .. MaxLevel
      /\ Reached' /\ Matched'
      /\ \A l \in Levels : \A n \in DOMAIN data'[l] : \A k \in DOMAIN data'[l][n] :
            data'[l][n][k] = "torn" => k \in torn
  BY <1>1 DEF Inv, TypeOK, Reached, Matched, Both, TornKnown
<1>4. CASE lock.sources = {}
  <2>1. level0' = level0 /\ lock' = [lock EXCEPT !.step = "levels", !.level = 1]
    BY <1>4 DEF Unlink
  <2>2. /\ lock' \in LockRecord /\ lock'.key = lock.key
        /\ lock'.step = "levels" /\ lock'.level = 1
    BY <1>1, <2>1 DEF LockRecord, Steps
  <2>3. Under'
    BY <2>2 DEF Under, At
  <2>4. \A k \in stored \cup Being : Present(k)'
    BY <1>1, <2>1 DEF Inv, Kept, Present, Both
  <2>5. /\ level0' \in [Keys -> Content \cup {NoFile}]
        /\ \A k \in Keys : level0'[k] = "torn" => level0[k] = "torn"
    BY <2>1 DEF Inv, TypeOK
  <2> QED
    BY <1>1, <1>3, <2>2, <2>3, <2>4, <2>5, GoOn
<1>5. CASE lock.sources # {}
  <2>1. PICK k0 : k0 = Min(lock.sources)
    OBVIOUS
  <2>2. /\ level0' = [level0 EXCEPT ![k0] = NoFile]
        /\ lock' = [lock EXCEPT !.sources = @ \ {k0}]
    BY <1>5, <2>1 DEF Unlink
  <2>3. k0 \in lock.sources
    BY <1>1, <1>5, <2>1, MinOf, ColdStorageAssumption DEF ColdStorageAssumption
  <2>4. /\ lock' \in LockRecord /\ lock'.key = lock.key
        /\ lock'.step = "unlink" /\ lock'.sources \subseteq lock.sources
    BY <1>1, <2>2 DEF LockRecord
  <2>5. Under'
    <3>1. Covers(1, lock.sources)'
      BY <1>1, <1>2, <2>4 DEF Covers, Both
    <3> QED
      BY <2>4, <3>1 DEF Under, At
  <2>6. \A k \in stored \cup Being : Present(k)'
    <3> SUFFICES ASSUME NEW k \in stored \cup Being PROVE Present(k)'
      OBVIOUS
    <3>1. Present(k)
      BY DEF Inv, Kept
    <3>2. CASE k = k0
      <4>1. 1 \in Levels
        BY ColdStorageAssumption DEF ColdStorageAssumption, Levels
      <4> QED
        BY <1>1, <1>2, <2>3, <3>2, <4>1 DEF Covers, Present, Both
    <3>3. CASE k # k0
      <4>1. level0'[k] = level0[k]
        BY <2>2, <3>3 DEF Inv, TypeOK
      <4> QED
        BY <1>1, <3>1, <4>1 DEF Present, Both
    <3> QED
      BY <3>2, <3>3
  <2>7. /\ level0' \in [Keys -> Content \cup {NoFile}]
        /\ \A k \in Keys : level0'[k] = "torn" => level0[k] = "torn"
    BY <2>2 DEF Inv, TypeOK, NoFile
  <2> QED
    BY <1>1, <1>3, <2>4, <2>5, <2>6, <2>7, GoOn
<1> QED
  BY <1>4, <1>5

(* On to the next level, or done. *)
LEMMA NextLevelInv == ASSUME Inv, NextLevel PROVE Inv'
<1>1. /\ lock \in LockRecord /\ lock.step = "levels" /\ lock.level \in Nat
      /\ UNCHANGED <<level0, index, data, top, todo, torn>>
      /\ \/ Return(TRUE)
         \/ lock' = [lock EXCEPT !.level = @ + 1] /\ UNCHANGED stored
  BY LockIs DEF NextLevel, Steps, Inv, disk
<1>2. /\ Reached' /\ Matched'
      /\ \A k : Present(k) => Present(k)'
  BY <1>1 DEF Inv, Reached, Matched, Both, Present
<1>3. ASSUME Return(TRUE) PROVE Inv'
  <2>1. TornKnown'
    <3>1. CutOff = {}
      BY <1>1 DEF CutOff, At
    <3> QED
      BY <1>1, <3>1 DEF Inv, TornKnown
  <2> QED
    BY <1>1, <1>2, <1>3, <2>1, ReturnInv DEF Inv, TypeOK
<1>4. ASSUME lock' = [lock EXCEPT !.level = @ + 1], UNCHANGED stored PROVE Inv'
  <2>1. /\ lock' \in LockRecord /\ lock'.key = lock.key
        /\ lock'.step = "levels" /\ lock'.level = lock.level + 1
    BY <1>1, <1>4 DEF LockRecord
  <2>2. Under'
    BY <1>1, <2>1 DEF Under, At
  <2>3. \A k \in stored \cup Being : Present(k)'
    BY <1>2 DEF Inv, Kept
  <2>4. /\ level0' \in [Keys -> Content \cup {NoFile}]
        /\ index' \in [Levels -> Files(SUBSET Keys)]
        /\ data' \in [Levels -> Files(Segment)]
        /\ \A l \in Levels : IsFiniteSet(DOMAIN index'[l])
        /\ top' \in 0 .. MaxLevel
        /\ \A k \in Keys : level0'[k] = "torn" => level0[k] = "torn"
        /\ \A l \in Levels : \A n \in DOMAIN data'[l] : \A k \in DOMAIN data'[l][n] :
              data'[l][n][k] = "torn" => k \in torn
    BY <1>1 DEF Inv, TypeOK, TornKnown
  <2> QED
    BY <1>1, <1>2, <1>4, <2>1, <2>2, <2>3, <2>4, GoOn
<1> QED
  BY <1>1, <1>3, <1>4

(* The index a merge copies a key from has it. *)
LEMMA WinnerIs ==
    ASSUME TypeOK, NEW l \in Levels, NEW order \in SetToSeqs(DOMAIN index[l]),
           NEW k \in UNION Range(index[l])
    PROVE  Winner(l, order, k) \in DOMAIN index[l] /\ k \in index[l][Winner(l, order, k)]
<1> DEFINE D == DOMAIN index[l]
           I == {i \in DOMAIN order : k \in index[l][order[i]]}
<1>1. IsFiniteSet(D)
  BY DEF TypeOK
<1>2. order \in SetToSeqs(D)
  OBVIOUS
<1>3. PICK n \in D : k \in index[l][n]
  BY DEF Range
<1> HIDE DEF D
<1>4. /\ DOMAIN order \in SUBSET Nat /\ IsFiniteSet(DOMAIN order)
      /\ \A i \in DOMAIN order : order[i] \in D
      /\ \A m \in D : \E i \in DOMAIN order : order[i] = m
  BY <1>1, <1>2, ListingIs
<1>5. I \in SUBSET DOMAIN order /\ I # {}
  BY <1>3, <1>4
<1>6. I \in SUBSET Nat /\ IsFiniteSet(I)
  BY <1>4, <1>5, FS_Subset
<1>7. Winner(l, order, k) = order[Max(I)]
  BY DEF Winner
<1>8. Max(I) \in I
  <2> HIDE DEF I
  <2> QED
    BY <1>5, <1>6, MaxOf
<1>9. Max(I) \in DOMAIN order /\ k \in index[l][order[Max(I)]]
  <2> DEFINE m == Max(I)
  <2>1. m \in I
    BY <1>8
  <2> HIDE DEF m
  <2>2. m \in DOMAIN order /\ k \in index[l][order[m]]
    BY <2>1
  <2> QED
    BY <2>2 DEF m
<1> HIDE DEF I
<1>10. order[Max(I)] \in D
  BY <1>4, <1>9
<1> QED
  BY <1>7, <1>9, <1>10 DEF D

(* A merge copies every key of the level into one segment above it. *)
LEMMA MergeDataInv == ASSUME Inv, MergeData PROVE Inv'
<1> DEFINE l == lock.level
<1>1. /\ lock \in LockRecord /\ lock.step = "levels" /\ lock.level \in Nat
      /\ lock.level # 0 /\ lock.level < MaxLevel
      /\ top' = Max({top, lock.level + 1})
      /\ UNCHANGED <<level0, index, todo, torn>>
  <2>1. At("levels")
    BY DEF MergeData
  <2>2. lock \in LockRecord /\ lock.step = "levels" /\ lock.level \in Nat
    BY <2>1, LockIs DEF Steps, Inv
  <2>3. lock.level # 0
    BY <2>1 DEF Inv, Under
  <2> QED
    BY <2>2, <2>3 DEF MergeData
<1>2. PICK order \in SetToSeqs(DOMAIN index[l]) :
         IF /\ DOMAIN Merged(l, order) # {}
            /\ \A k \in DOMAIN Merged(l, order) : Merged(l, order)[k] \in DOMAIN data[l]
         THEN /\ data' = [data EXCEPT ![l + 1] = With(data[l + 1], NextNumber(l + 1),
                     [k \in DOMAIN Merged(l, order) |-> data[l][Merged(l, order)[k]][k]])]
              /\ GoTo("merge_index")
              /\ UNCHANGED stored
         ELSE Return(FALSE) /\ UNCHANGED data
  BY DEF MergeData
<1>3. PICK m \in Nat : m = lock.level
  BY <1>1
<1>4. MaxLevel \in Nat
  BY ColdStorageAssumption DEF ColdStorageAssumption
<1>5. m \in Levels /\ m + 1 \in Levels
  BY <1>1, <1>3, <1>4 DEF Levels
<1>6. top' \in 0 .. MaxLevel /\ top <= top' /\ m + 1 <= top'
  <2>1. top \in Nat /\ top <= MaxLevel /\ m + 1 \in Nat /\ m + 1 <= MaxLevel
    BY <1>1, <1>3, <1>4 DEF Inv, TypeOK
  <2> DEFINE S == {top, m + 1}
  <2>2. S \in SUBSET Nat /\ S # {} /\ top \in S /\ m + 1 \in S
    BY <2>1
  <2>3. IsFiniteSet(S)
    <3>1. IsFiniteSet({top}) /\ {top} \cup {m + 1} = S
      BY FS_Singleton
    <3> HIDE DEF S
    <3> QED
      BY <3>1, FS_AddElement
  <2>4. S = {top, m + 1}
    OBVIOUS
  <2> HIDE DEF S
  <2>5. Max(S) \in S /\ \A x \in S : x <= Max(S)
    BY <2>2, <2>3, MaxOf
  <2> QED
    BY <1>1, <1>3, <1>4, <2>1, <2>2, <2>4, <2>5
<1>7. Reached'
  BY <1>1, <1>6 DEF Reached, Inv, TypeOK, Levels
<1>8. ASSUME Return(FALSE), UNCHANGED data PROVE Inv'
  <2>1. Matched' /\ \A k : Present(k) => Present(k)'
    BY <1>1, <1>8 DEF Inv, Matched, Both, Present
  <2>2. TornKnown'
    <3>1. CutOff = {}
      BY <1>1 DEF CutOff, At
    <3> QED
      BY <1>1, <1>8, <3>1 DEF Inv, TornKnown
  <2> QED
    BY <1>1, <1>6, <1>7, <1>8, <2>1, <2>2, ReturnInv DEF Inv, TypeOK
<1> DEFINE from == Merged(m, order)
           file == [k \in DOMAIN from |-> data[m][from[k]][k]]
<1>9. ASSUME \A k \in DOMAIN from : from[k] \in DOMAIN data[m],
             data' = [data EXCEPT ![m + 1] = With(data[m + 1], NextNumber(m + 1), file)],
             lock' = [lock EXCEPT !.step = "merge_index"], UNCHANGED stored
      PROVE  Inv'
  <2>1. DOMAIN from = UNION Range(index[m])
    BY DEF Merged
  <2>2. \A k \in DOMAIN from : from[k] \in DOMAIN index[m] /\ k \in index[m][from[k]]
    <3> SUFFICES ASSUME NEW k \in UNION Range(index[m])
                 PROVE  from[k] \in DOMAIN index[m] /\ k \in index[m][from[k]]
      BY <2>1
    <3>1. from[k] = Winner(m, order, k)
      BY DEF Merged
    <3>2. order \in SetToSeqs(DOMAIN index[m])
      BY <1>3
    <3>3. TypeOK
      BY DEF Inv
    <3>4. Winner(m, order, k) \in DOMAIN index[m] /\ k \in index[m][Winner(m, order, k)]
      BY <1>5, <3>2, <3>3, WinnerIs
    <3> HIDE DEF from
    <3> QED
      BY <3>1, <3>4
  <2>3. DOMAIN file = DOMAIN from /\ \A k \in DOMAIN from : file[k] = data[m][from[k]][k]
    OBVIOUS
  <2>4. file = [k \in DOMAIN file |-> file[k]]
    OBVIOUS
  <2> HIDE DEF from, file
  <2>5. \A k \in DOMAIN from : k \in DOMAIN data[m][from[k]]
    BY <1>5, <1>9, <2>2 DEF Inv, Matched, Both
  <2>6. DOMAIN from \in SUBSET Keys
    <3>1. index[m] \in Files(SUBSET Keys)
      BY <1>5 DEF Inv, TypeOK
    <3>2. \A n \in DOMAIN index[m] : index[m][n] \in SUBSET Keys
      BY <3>1, FilesIs
    <3> QED
      BY <2>2, <3>2
  <2>7. \A k \in DOMAIN from : file[k] \in Content /\ (file[k] = "torn" => k \in torn)
    <3> SUFFICES ASSUME NEW k \in DOMAIN from
                 PROVE  file[k] \in Content /\ (file[k] = "torn" => k \in torn)
      OBVIOUS
    <3>1. data[m] \in Files(Segment)
      BY <1>5 DEF Inv, TypeOK
    <3>2. data[m][from[k]] \in Segment
      BY <1>9, <3>1, FilesIs
    <3>3. data[m][from[k]][k] \in Content
      BY <2>5, <3>2, SegmentIs
    <3>4. data[m][from[k]][k] = "torn" => k \in torn
      BY <1>5, <1>9, <2>5 DEF Inv, TornKnown
    <3> QED
      BY <2>3, <3>3, <3>4
  <2>8. file \in Segment
    BY <2>3, <2>4, <2>6, <2>7, SegmentIs
  <2>9. /\ data' \in [Levels -> Files(Segment)]
        /\ Matched'
        /\ \A k : Present(k) => Present(k)'
        /\ NextNumber(m + 1)' \in DOMAIN data'[m + 1]
        /\ data'[m + 1][NextNumber(m + 1)'] = file
        /\ \A j \in Levels : \A n \in DOMAIN data'[j] :
              \/ n \in DOMAIN data[j] /\ data'[j][n] = data[j][n]
              \/ data'[j][n] = file
    <3>1. PICK u \in Levels : u = m + 1
      BY <1>5
    <3>2. data' = [data EXCEPT ![u] = With(data[u], NextNumber(u), file)]
      BY <1>9, <3>1
    <3>3. index' = index /\ level0' = level0
      BY <1>1
    <3>4. /\ data' \in [Levels -> Files(Segment)]
          /\ Matched'
          /\ \A k : Present(k) => Present(k)'
          /\ NextNumber(u)' \in DOMAIN data'[u]
          /\ data'[u][NextNumber(u)'] = file
          /\ \A j \in Levels : \A n \in DOMAIN data'[j] :
                \/ n \in DOMAIN data[j] /\ data'[j][n] = data[j][n]
                \/ data'[j][n] = file
      BY <2>8, <3>2, <3>3, NewData
    <3> QED
      BY <3>1, <3>4
  <2>10. /\ lock' \in LockRecord /\ lock'.step = "merge_index" /\ lock'.key = lock.key
         /\ lock'.level = m
    BY <1>1, <1>3, <1>9, GoToIs DEF Steps
  <2>11. Under'
    <3>1. UNION Range(index[m]) = UNION Range(index'[m])
      BY <1>1
    <3>2. Awaits(m + 1, UNION Range(index[m]))'
      BY <1>5, <1>6, <2>1, <2>3, <2>9, <3>1 DEF Awaits, Levels
    <3>3. Awaits(lock.level + 1, UNION Range(index[lock.level]))'
      BY <2>10, <3>2
    <3>4. Merging'
      BY <1>5, <2>10 DEF Merging
    <3> QED
      BY <2>10, <3>3, <3>4 DEF Under, At
  <2>12. \A j \in Levels : \A n \in DOMAIN data'[j] : \A k \in DOMAIN data'[j][n] :
            data'[j][n][k] = "torn" => k \in torn
    BY <2>3, <2>7, <2>9 DEF Inv, TornKnown
  <2>13. \A k \in stored \cup Being : Present(k)'
    BY <2>9 DEF Inv, Kept
  <2>14. /\ level0' \in [Keys -> Content \cup {NoFile}]
         /\ index' \in [Levels -> Files(SUBSET Keys)]
         /\ \A j \in Levels : IsFiniteSet(DOMAIN index'[j])
         /\ \A k \in Keys : level0'[k] = "torn" => level0[k] = "torn"
    BY <1>1 DEF Inv, TypeOK
  <2> QED
    BY <1>1, <1>6, <1>7, <1>9, <2>9, <2>10, <2>11, <2>12, <2>13, <2>14, GoOn
<1> QED
  BY <1>2, <1>3, <1>8, <1>9 DEF GoTo

(* The index of the merged segment. *)
LEMMA MergeIndexInv == ASSUME Inv, MergeIndex PROVE Inv'
<1>1. /\ lock \in LockRecord /\ lock.step = "merge_index"
      /\ lock' = [lock EXCEPT !.step = "unlink_level"]
      /\ index' = [index EXCEPT ![lock.level + 1] =
                       With(index[lock.level + 1], NextNumber(lock.level + 1),
                            UNION Range(index[lock.level]))]
      /\ UNCHANGED <<level0, data, top, todo, stored, torn>>
  BY LockIs DEF MergeIndex, GoTo, Steps, Inv, history
<1>2. Merging /\ Awaits(lock.level + 1, UNION Range(index[lock.level]))
  BY <1>1 DEF Inv, Under, At
<1>3. PICK l \in Levels : l = lock.level
  BY <1>2 DEF Merging
<1>4. PICK u \in Levels : u = l + 1
  BY <1>2, <1>3 DEF Merging
<1>5. PICK ids : ids = UNION Range(index[l])
  OBVIOUS
<1>6. ids \in SUBSET Keys
  <2>1. index[l] \in Files(SUBSET Keys)
    BY DEF Inv, TypeOK
  <2>2. \A n \in DOMAIN index[l] : index[l][n] \in SUBSET Keys
    BY <2>1, FilesIs
  <2> QED
    BY <1>5, <2>2 DEF Range
<1>7. Awaits(u, ids) /\ index' = [index EXCEPT ![u] = With(index[u], NextNumber(u), ids)]
  BY <1>1, <1>2, <1>3, <1>4, <1>5
<1>8. /\ index' \in [Levels -> Files(SUBSET Keys)]
      /\ \A m \in Levels : IsFiniteSet(DOMAIN index'[m])
      /\ \A m \in Levels \ {u} : index'[m] = index[m]
      /\ Reached'
      /\ Matched'
      /\ \A k : Present(k) => Present(k)'
      /\ Covers(u, ids)'
  BY <1>1, <1>6, <1>7, NewIndex
<1>9. /\ lock' \in LockRecord /\ lock'.step = "unlink_level" /\ lock'.key = lock.key
      /\ lock'.level = l
  BY <1>1, <1>3, GoToIs DEF Steps
<1>10. Under'
  <2>1. index'[l] = index[l]
    BY <1>4, <1>8 DEF Levels
  <2>2. Covers(l + 1, UNION Range(index[l]))'
    BY <1>4, <1>5, <1>8, <2>1 DEF Covers
  <2>3. Covers(lock.level + 1, UNION Range(index[lock.level]))'
    BY <1>9, <2>2
  <2>4. Merging'
    BY <1>4, <1>9 DEF Merging
  <2> QED
    BY <1>9, <2>3, <2>4 DEF Under, At
<1>11. \A k \in stored \cup Being : Present(k)'
  BY <1>8 DEF Inv, Kept
<1>12. /\ level0' \in [Keys -> Content \cup {NoFile}]
       /\ data' \in [Levels -> Files(Segment)]
       /\ top' \in 0 .. MaxLevel
       /\ \A k \in Keys : level0'[k] = "torn" => level0[k] = "torn"
       /\ \A j \in Levels : \A n \in DOMAIN data'[j] : \A k \in DOMAIN data'[j][n] :
             data'[j][n][k] = "torn" => k \in torn
  BY <1>1 DEF Inv, TypeOK, TornKnown
<1> QED
  BY <1>1, <1>8, <1>9, <1>10, <1>11, <1>12, GoOn

(* The files of the merged level go. *)
LEMMA UnlinkLevelInv == ASSUME Inv, UnlinkLevel PROVE Inv'
<1>1. /\ lock \in LockRecord /\ lock.step = "unlink_level" /\ lock.level \in Nat
      /\ UNCHANGED <<level0, top, todo, stored, torn>>
  BY LockIs DEF UnlinkLevel, Steps, Inv, history
<1>2. Merging /\ Covers(lock.level + 1, UNION Range(index[lock.level]))
  BY <1>1 DEF Inv, Under, At
<1>3. PICK l \in Levels : l = lock.level
  BY <1>2 DEF Merging
<1>4. l + 1 \in Levels /\ Covers(l + 1, UNION Range(index[l]))
  BY <1>2, <1>3 DEF Merging
<1>5. level0' \in [Keys -> Content \cup {NoFile}] /\ top' \in 0 .. MaxLevel
      /\ \A k \in Keys : level0'[k] = "torn" => level0[k] = "torn"
  BY <1>1 DEF Inv, TypeOK
<1>6. ASSUME NEW n, lock' = lock,
             \/ index' = [index EXCEPT ![l] = Without(index[l], n)] /\ data' = data
             \/ data' = [data EXCEPT ![l] = Without(data[l], n)] /\ index' = index
      PROVE  Inv'
  <2>1. /\ index' \in [Levels -> Files(SUBSET Keys)]
        /\ data' \in [Levels -> Files(Segment)]
        /\ \A m \in Levels : IsFiniteSet(DOMAIN index'[m])
        /\ Reached'
        /\ Matched'
        /\ \A m \in Levels : \A i \in DOMAIN data'[m] :
              i \in DOMAIN data[m] /\ data'[m][i] = data[m][i]
        /\ \A k : Present(k) => Present(k)'
        /\ Covers(l + 1, UNION Range(index[l]))'
    BY <1>1, <1>4, <1>6, GoneFile
  <2>2. Covers(lock.level + 1, UNION Range(index[lock.level]))'
    BY <1>3, <1>6, <2>1
  <2>3. Under'
    BY <1>1, <1>2, <1>6, <2>2 DEF Under, At, Merging
  <2>4. \A m \in Levels : \A i \in DOMAIN data'[m] : \A k \in DOMAIN data'[m][i] :
           data'[m][i][k] = "torn" => k \in torn
    BY <2>1 DEF Inv, TornKnown
  <2>5. \A k \in stored \cup Being : Present(k)'
    BY <2>1 DEF Inv, Kept
  <2> QED
    BY <1>1, <1>5, <1>6, <2>1, <2>3, <2>4, <2>5, GoOn
<1>7. ASSUME lock' = [lock EXCEPT !.step = "levels", !.level = l + 1], UNCHANGED <<index, data>>
      PROVE  Inv'
  <2>1. /\ lock' \in LockRecord /\ lock'.key = lock.key
        /\ lock'.step = "levels" /\ lock'.level = l + 1
    <3>1. l + 1 \in Nat
      BY <1>1, <1>3
    <3> QED
      BY <1>1, <1>7, <3>1 DEF LockRecord, Steps
  <2>2. Under'
    BY <1>1, <1>3, <2>1 DEF Under, At
  <2>3. Reached' /\ Matched' /\ \A k : Present(k) => Present(k)'
    BY <1>1, <1>7 DEF Inv, Reached, Matched, Both, Present
  <2>4. \A k \in stored \cup Being : Present(k)'
    BY <2>3 DEF Inv, Kept
  <2>5. /\ index' \in [Levels -> Files(SUBSET Keys)]
        /\ data' \in [Levels -> Files(Segment)]
        /\ \A m \in Levels : IsFiniteSet(DOMAIN index'[m])
        /\ \A m \in Levels : \A i \in DOMAIN data'[m] : \A k \in DOMAIN data'[m][i] :
              data'[m][i][k] = "torn" => k \in torn
    BY <1>7 DEF Inv, TypeOK, TornKnown
  <2> QED
    BY <1>1, <1>5, <2>1, <2>2, <2>3, <2>4, <2>5, GoOn
<1>8. \/ \E n \in DOMAIN index[l] :
            index' = [index EXCEPT ![l] = Without(index[l], n)] /\ UNCHANGED <<data, lock>>
      \/ \E n \in DOMAIN data[l] :
            data' = [data EXCEPT ![l] = Without(data[l], n)] /\ UNCHANGED <<index, lock>>
      \/ /\ lock' = [lock EXCEPT !.step = "levels", !.level = l + 1]
         /\ UNCHANGED <<index, data>>
  BY <1>3 DEF UnlinkLevel
<1> QED
  BY <1>6, <1>7, <1>8

-----------------------------------------------------------------------------
(* Faults, and steps that touch no file.                                   *)

(* A cut write is of a key. *)
LEMMA CutOffIs == ASSUME Inv PROVE CutOff \in SUBSET Keys
<1>1. CASE At("writing")
  <2>1. lock.key \in Keys
    BY <1>1, LockIs DEF Inv, Steps
  <2> QED
    BY <1>1, <2>1 DEF CutOff
<1>2. CASE ~At("writing")
  BY <1>2 DEF CutOff
<1> QED
  BY <1>1, <1>2

(* An operation of the put fails wherever it is. *)
LEMMA IOErrorInv == ASSUME Inv, IOError PROVE Inv'
<1>1. /\ lock.step # "free" /\ torn' = torn \cup CutOff
      /\ Return(FALSE)
      /\ UNCHANGED disk /\ UNCHANGED todo
  BY DEF IOError, At
<1>2. torn' \in SUBSET Keys
  BY <1>1, CutOffIs DEF Inv, TypeOK
<1>3. Reached' /\ Matched' /\ TornKnown' /\ \A k : Present(k) => Present(k)'
  BY <1>1, DiskSame
<1>4. /\ level0' \in [Keys -> Content \cup {NoFile}] /\ data' \in [Levels -> Files(Segment)]
      /\ index' = index /\ top' \in 0 .. MaxLevel
  BY <1>1 DEF disk, Inv, TypeOK
<1> QED
  BY <1>1, <1>2, <1>3, <1>4, ReturnInv

(* So does the whole process. *)
LEMMA CrashInv == ASSUME Inv, Crash PROVE Inv'
<1>1. /\ torn' = torn \cup CutOff /\ lock' = Free
      /\ todo' = [t \in Threads |-> << >>]
      /\ UNCHANGED disk /\ UNCHANGED stored
  BY DEF Crash
<1>2. torn' \in SUBSET Keys
  BY <1>1, CutOffIs DEF Inv, TypeOK
<1>3. Reached' /\ Matched' /\ TornKnown' /\ \A k : Present(k) => Present(k)'
  BY <1>1, DiskSame
<1>4. TypeOK'
  <2>1. << >> \in Seq(Keys)
    OBVIOUS
  <2>2. todo' \in [Threads -> Seq(Keys)]
    BY <1>1, <2>1
  <2> QED
    BY <1>1, <1>2, <2>2 DEF disk, Inv, TypeOK
<1>5. Under'
  BY <1>1 DEF Under, At, Free
<1>6. Kept'
  <2>1. Being' = {}
    BY <1>1 DEF Being, Free
  <2> QED
    BY <1>1, <1>3, <2>1 DEF Inv, Kept
<1> QED
  BY <1>3, <1>4, <1>5, <1>6 DEF Inv

(* A put begins, or gets the lock. *)
LEMMA StartInv == ASSUME Inv, NEW t \in Threads, NEW k \in Keys, StartPut(t, k) PROVE Inv'
<1>1. /\ todo' = [todo EXCEPT ![t] = Append(Children[k], k)]
      /\ UNCHANGED <<disk, lock, stored, torn>>
  BY DEF StartPut
<1>2. Append(Children[k], k) \in Seq(Keys)
  <2>1. Children[k] \in Seq(Keys)
    BY ColdStorageAssumption DEF ColdStorageAssumption
  <2> QED
    BY <2>1
<1>3. TypeOK'
  BY <1>1, <1>2 DEF disk, Inv, TypeOK
<1>4. Reached' /\ Matched' /\ TornKnown' /\ \A x : Present(x) => Present(x)'
  BY <1>1, DiskSame DEF CutOff, At
<1>5. Under' /\ Kept'
  BY <1>1 DEF disk, Inv, Under, At, Awaits, Covers, NextNumber, Both, Merging, Kept, Being, Present
<1> QED
  BY <1>3, <1>4, <1>5 DEF Inv

(* A put that gets the lock has done nothing yet. *)
LEMMA AcquireInv == ASSUME Inv, NEW t \in Threads, Acquire(t) PROVE Inv'
<1>1. /\ lock.step = "free" /\ todo[t] # << >>
      /\ lock' = [step |-> "locked", by |-> t, key |-> Head(todo[t]), level |-> 0, sources |-> {}]
      /\ todo' = [todo EXCEPT ![t] = Tail(@)]
      /\ UNCHANGED <<disk, stored, torn>>
  BY DEF Acquire, At, history
<1>2. todo[t] \in Seq(Keys) /\ Head(todo[t]) \in Keys /\ Tail(todo[t]) \in Seq(Keys)
  BY <1>1 DEF Inv, TypeOK
<1>3. TypeOK'
  BY <1>1, <1>2 DEF disk, Inv, TypeOK, Steps
<1>4. Reached' /\ Matched' /\ TornKnown' /\ \A x : Present(x) => Present(x)'
  BY <1>1, DiskSame DEF CutOff, At
<1>5. Under'
  BY <1>1 DEF Under, At
<1>6. Kept'
  <2>1. Being' = {}
    BY <1>1 DEF Being
  <2> QED
    BY <1>1, <1>4, <2>1 DEF Inv, Kept
<1> QED
  BY <1>3, <1>4, <1>5, <1>6 DEF Inv

(* Steps of a scan, and none. *)
LEMMA StillInv == ASSUME Inv, UNCHANGED <<disk, todo, lock, stored, torn>> PROVE Inv'
<1>1. TypeOK'
  BY DEF disk, Inv, TypeOK
<1>2. Reached' /\ Matched' /\ TornKnown' /\ \A x : Present(x) => Present(x)'
  BY DiskSame DEF CutOff, At
<1>3. Under' /\ Kept'
  BY DEF disk, Inv, Under, At, Awaits, Covers, NextNumber, Both, Merging, Kept, Being, Present
<1> QED
  BY <1>1, <1>2, <1>3 DEF Inv

-----------------------------------------------------------------------------
(* Initially there is nothing on disk. *)
LEMMA InitInv == Init => Inv
<1> SUFFICES ASSUME Init PROVE Inv
  OBVIOUS
<1>1. /\ level0 = [k \in Keys |-> NoFile] /\ top = 0 /\ lock = Free
      /\ todo = [t \in Threads |-> << >>] /\ stored = {} /\ torn = {}
      /\ \A l \in Levels : index[l] = << >> /\ data[l] = << >>
      /\ index = [l \in Levels |-> << >>] /\ data = [l \in Levels |-> << >>]
  BY DEF Init
<1>2. DOMAIN << >> = {}
  OBVIOUS
<1>3. \A V : << >> \in Files(V)
  <2> SUFFICES ASSUME NEW V PROVE << >> \in Files(V)
    OBVIOUS
  <2>1. << >> \in [{} -> V] /\ {} \in SUBSET Nat
    OBVIOUS
  <2> QED
    BY <2>1 DEF Files
<1>4. TypeOK
  <2>1. \A l \in Levels : IsFiniteSet(DOMAIN index[l])
    BY <1>1, <1>2, FS_EmptySet
  <2>2. top \in 0 .. MaxLevel
    BY <1>1, ColdStorageAssumption DEF ColdStorageAssumption
  <2>3. << >> \in Files(SUBSET Keys) /\ << >> \in Files(Segment)
    BY <1>3
  <2>4. index \in [Levels -> Files(SUBSET Keys)] /\ data \in [Levels -> Files(Segment)]
    BY <1>1, <2>3
  <2>5. todo \in [Threads -> Seq(Keys)]
    <3>1. << >> \in Seq(Keys)
      OBVIOUS
    <3> QED
      BY <1>1, <3>1
  <2>6. level0 \in [Keys -> Content \cup {NoFile}]
    BY <1>1
  <2> QED
    BY <1>1, <2>1, <2>2, <2>4, <2>5, <2>6 DEF TypeOK
<1>5. Reached /\ Matched /\ TornKnown
  BY <1>1, <1>2 DEF Reached, Matched, Both, TornKnown, NoFile
<1>6. Under /\ Kept
  BY <1>1 DEF Under, At, Free, Kept, Being
<1> QED
  BY <1>4, <1>5, <1>6 DEF Inv

(* The invariant is inductive. *)
LEMMA NextInv == ASSUME Inv, [Next]_vars PROVE Inv'
<1>1. ASSUME PutStep PROVE Inv'
  BY <1>1, TruncateInv, WriteInv, CollateDataInv, CollateIndexInv, UnlinkInv, NextLevelInv,
     MergeDataInv, MergeIndexInv, UnlinkLevelInv DEF PutStep
<1>2. ASSUME StartScan \/ ScanLevel \/ ScanRead \/ UNCHANGED vars PROVE Inv'
  <2>1. UNCHANGED <<disk, todo, lock, stored, torn>>
    BY <1>2 DEF StartScan, ScanLevel, ScanRead, vars, history
  <2> QED
    BY <2>1, StillInv
<1> QED
  BY <1>1, <1>2, StartInv, AcquireInv, IOErrorInv, CrashInv DEF Next

(* The files on disk, the locks and the puts are of their types, however   *)
(* many puts, faults and levels there are.                                 *)
THEOREM TypeCorrect == Spec => []TypeOK
<1>1. Inv => TypeOK
  BY DEF Inv
<1> QED
  BY <1>1, InitInv, NextInv, PTL DEF Spec

(* What was put successfully stays readable through every file operation   *)
(* of collate.py and merge.py, and every crash or error between two of     *)
(* them, unless a write of the same file is cut off.                       *)
THEOREM NothingEverLost == Spec => []NothingLost
<1> QED
  BY InitInv, NextInv, InvSafe, PTL DEF Spec

-----------------------------------------------------------------------------
(* Scans.                                                                  *)

ScanRecord == [step: {"level", "read", "done"}, level: Nat \ {0}, files: Seq(Nat), offset: Nat,
               yielded: SUBSET Keys, owed: SUBSET Keys]

(* An index of level L or above has the key. *)
Above(k, L) == \E l \in Levels : l >= L /\ \E n \in DOMAIN index[l] : k \in index[l][n]

(* One of the files still to be read has it; the file being read, past     *)
(* what was read of it.                                                    *)
Ahead(k) ==
    \E i \in 1 .. Len(scan.files) :
       LET n == scan.files[i] IN
       /\ n \in DOMAIN index[scan.level]
       /\ k \in index[scan.level][n]
       /\ i = 1 => \E j \in 1 .. Len(Sorted(index[scan.level][n])) :
                      j > scan.offset /\ Sorted(index[scan.level][n])[j] = k

(* What a scan owes is where it has not been yet. *)
ScanOK ==
    \/ scan = Nobody
    \/ /\ scan \in ScanRecord
       /\ scan.step = "level" => \A k \in scan.owed \ scan.yielded : Above(k, scan.level)
       /\ scan.step = "read" =>
             /\ scan.level \in Levels
             /\ \A k \in scan.owed \ scan.yielded : Above(k, scan.level + 1) \/ Ahead(k)
       /\ scan.step = "done" => scan.owed \subseteq scan.yielded

(* A file of an index stays as it is, or its keys move up.                 *)
MovesUp ==
    \A l \in Levels : \A n \in DOMAIN index[l] :
       \/ n \in DOMAIN index'[l] /\ index'[l][n] = index[l][n]
       \/ \A k \in index[l][n] : Above(k, l + 1)'

(* The sorted keys of an index are all of them, and so are the files of a *)
(* level.                                                                  *)
LEMMA IndexSorted ==
    ASSUME TypeOK, NEW l \in Levels
    PROVE  /\ Sorted(DOMAIN index[l]) \in Seq(Nat)
           /\ \A n \in DOMAIN index[l] :
                 /\ \E i \in 1 .. Len(Sorted(DOMAIN index[l])) : Sorted(DOMAIN index[l])[i] = n
                 /\ index[l][n] \subseteq Keys
                 /\ Sorted(index[l][n]) \in Seq(index[l][n])
                 /\ \A k \in index[l][n] :
                       \E j \in 1 .. Len(Sorted(index[l][n])) : Sorted(index[l][n])[j] = k
<1>1. index[l] \in Files(SUBSET Keys) /\ IsFiniteSet(DOMAIN index[l])
  BY DEF TypeOK
<1>2. DOMAIN index[l] \in SUBSET Nat /\ \A n \in DOMAIN index[l] : index[l][n] \in SUBSET Keys
  BY <1>1, FilesIs
<1>3. PICK D \in SUBSET Nat : D = DOMAIN index[l]
  BY <1>2
<1>4. /\ Sorted(D) \in Seq(D)
      /\ \A k \in D : \E j \in 1 .. Len(Sorted(D)) : Sorted(D)[j] = k
  BY <1>1, <1>3, SortedIs
<1>5. Sorted(D) \in Seq(Nat)
  <2>1. PICK s \in Seq(D) : s = Sorted(D)
    BY <1>4
  <2>2. Len(s) \in Nat /\ s \in [1 .. Len(s) -> Nat]
    <3>1. Len(s) \in Nat /\ s \in [1 .. Len(s) -> D]
      OBVIOUS
    <3>2. D \subseteq Nat
      OBVIOUS
    <3> QED
      BY <3>1, <3>2
  <2>3. s \in Seq(Nat)
    BY <2>2
  <2> QED
    BY <2>1, <2>3
<1>6. ASSUME NEW n \in D
      PROVE  /\ index[l][n] \subseteq Keys
             /\ Sorted(index[l][n]) \in Seq(index[l][n])
             /\ \A k \in index[l][n] :
                   \E j \in 1 .. Len(Sorted(index[l][n])) : Sorted(index[l][n])[j] = k
  <2>1. index[l][n] \in SUBSET Keys
    BY <1>2, <1>3
  <2>2. PICK ids : ids = index[l][n]
    OBVIOUS
  <2>3. ids \in SUBSET Keys /\ IsFiniteSet(Keys) /\ Keys \subseteq Nat
    BY <2>1, <2>2, ColdStorageAssumption DEF ColdStorageAssumption
  <2>4. ids \in SUBSET Nat /\ IsFiniteSet(ids)
    BY <2>3, FS_Subset
  <2>5. /\ Sorted(ids) \in Seq(ids)
        /\ \A k \in ids : \E j \in 1 .. Len(Sorted(ids)) : Sorted(ids)[j] = k
    BY <2>4, SortedIs
  <2> QED
    BY <2>1, <2>2, <2>5
<1> QED
  BY <1>3, <1>4, <1>5, <1>6

(* A new file changes no other. *)
LEMMA NewMovesUp ==
    ASSUME Inv, NEW l \in Levels, NEW ids,
           index' = [index EXCEPT ![l] = With(index[l], NextNumber(l), ids)]
    PROVE  MovesUp
<1>1. NextNumber(l) \notin DOMAIN index[l]
  BY Fresh DEF Inv
<1>2. index \in [Levels -> Files(SUBSET Keys)]
  BY DEF Inv, TypeOK
<1>3. \A n \in DOMAIN index[l] : n \in DOMAIN index'[l] /\ index'[l][n] = index[l][n]
  BY <1>1, <1>2 DEF With
<1>4. \A m \in Levels \ {l} : index'[m] = index[m]
  BY <1>2
<1> QED
  BY <1>3, <1>4 DEF MovesUp

(* The keys of a deleted index are in the level above. *)
LEMMA GoneMovesUp ==
    ASSUME Inv, NEW l \in Levels, l + 1 \in Levels, NEW n,
           Covers(l + 1, UNION Range(index[l])),
           index' = [index EXCEPT ![l] = Without(index[l], n)]
    PROVE  MovesUp
<1>1. index \in [Levels -> Files(SUBSET Keys)] /\ l # l + 1
  <2>1. l # l + 1
    BY DEF Levels
  <2> QED
    BY <2>1 DEF Inv, TypeOK
<1>2. \A m \in Levels \ {l} : index'[m] = index[m]
  BY <1>1
<1>3. PICK u \in Levels : u = l + 1
  OBVIOUS
<1>4. PICK c \in DOMAIN index[u] : UNION Range(index[l]) \subseteq index[u][c]
  BY <1>3 DEF Covers, Both
<1>5. index'[u] = index[u] /\ u >= l + 1
  BY <1>1, <1>2, <1>3 DEF Levels
<1>6. ASSUME NEW i \in DOMAIN index[l], NEW k \in index[l][i] PROVE Above(k, l + 1)'
  <2>1. k \in index[u][c]
    BY <1>4 DEF Range
  <2> QED
    BY <1>4, <1>5, <2>1 DEF Above
<1> QED
  BY <1>2, <1>6 DEF MovesUp

(* No step of a put takes a key from the levels a scan has to go. *)
LEMMA StepMovesUp == ASSUME Inv, [Next]_vars PROVE MovesUp
<1>1. ASSUME index' = index PROVE MovesUp
  BY <1>1 DEF MovesUp
<1>2. ASSUME CollateIndex PROVE MovesUp
  <2>1. 1 \in Levels
    BY ColdStorageAssumption DEF ColdStorageAssumption, Levels
  <2>2. PICK ids : ids = lock.sources
    OBVIOUS
  <2>3. index' = [index EXCEPT ![1] = With(index[1], NextNumber(1), ids)]
    BY <1>2, <2>2 DEF CollateIndex
  <2> QED
    BY <2>1, <2>3, NewMovesUp
<1>3. ASSUME MergeIndex PROVE MovesUp
  <2>1. lock.level + 1 \in Levels
    BY <1>3 DEF MergeIndex, Inv, Under, Merging
  <2>2. PICK u \in Levels : u = lock.level + 1
    BY <2>1
  <2>3. PICK ids : ids = UNION Range(index[lock.level])
    OBVIOUS
  <2>4. index' = [index EXCEPT ![u] = With(index[u], NextNumber(u), ids)]
    BY <1>3, <2>2, <2>3 DEF MergeIndex
  <2> QED
    BY <2>4, NewMovesUp
<1>4. ASSUME UnlinkLevel PROVE MovesUp
  <2>1. Merging /\ Covers(lock.level + 1, UNION Range(index[lock.level]))
    BY <1>4 DEF UnlinkLevel, Inv, Under
  <2>2. PICK l \in Levels : l = lock.level
    BY <2>1 DEF Merging
  <2>3. l + 1 \in Levels /\ Covers(l + 1, UNION Range(index[l]))
    BY <2>1, <2>2 DEF Merging
  <2>4. index' = index \/ \E n : index' = [index EXCEPT ![l] = Without(index[l], n)]
    BY <1>4, <2>2 DEF UnlinkLevel
  <2> QED
    BY <1>1, <2>3, <2>4, GoneMovesUp
<1>5. \/ index' = index
      \/ CollateIndex \/ MergeIndex \/ UnlinkLevel
  BY DEF Next, vars, disk, PutStep, Acquire, StartPut, Truncate, Write, CollateData, Unlink,
         NextLevel, MergeData, IOError, Crash, StartScan, ScanLevel, ScanRead
<1> QED
  BY <1>1, <1>2, <1>3, <1>4, <1>5

(* What is above a level stays above it. *)
LEMMA AboveStays ==
    ASSUME MovesUp, NEW k, NEW L \in Nat, Above(k, L)
    PROVE  Above(k, L)'
<1>1. PICK l \in Levels : l >= L /\ \E n \in DOMAIN index[l] : k \in index[l][n]
  BY DEF Above
<1>2. PICK n \in DOMAIN index[l] : k \in index[l][n]
  BY <1>1
<1>3. CASE n \in DOMAIN index'[l] /\ index'[l][n] = index[l][n]
  BY <1>1, <1>2, <1>3 DEF Above
<1>4. CASE Above(k, l + 1)'
  <2>1. PICK m \in Levels : m >= l + 1 /\ \E i \in DOMAIN index'[m] : k \in index'[m][i]
    BY <1>4 DEF Above
  <2>2. m >= L
    BY <1>1, <2>1 DEF Levels
  <2> QED
    BY <2>1, <2>2 DEF Above
<1> QED
  BY <1>2, <1>3, <1>4 DEF MovesUp

(* A scan that waits while puts go on. *)
LEMMA ScanWaits == ASSUME ScanOK, MovesUp, scan' = scan PROVE ScanOK'
<1> SUFFICES ASSUME scan # Nobody PROVE ScanOK'
  BY DEF ScanOK
<1>1. scan \in ScanRecord /\ scan.level \in Nat /\ scan.level + 1 \in Nat
  BY DEF ScanOK, ScanRecord
<1>2. scan.step = "level" => \A k \in scan.owed \ scan.yielded : Above(k, scan.level)'
  BY <1>1, AboveStays DEF ScanOK
<1>3. ASSUME scan.step = "read", NEW k \in scan.owed \ scan.yielded
      PROVE  Above(k, scan.level + 1)' \/ Ahead(k)'
  <2>1. CASE Above(k, scan.level + 1)
    BY <1>1, <2>1, AboveStays
  <2>2. CASE Ahead(k)
    <3>1. PICK l \in Levels : l = scan.level
      BY <1>3 DEF ScanOK
    <3>2. PICK i \in 1 .. Len(scan.files) :
             LET n == scan.files[i] IN
             /\ n \in DOMAIN index[l]
             /\ k \in index[l][n]
             /\ i = 1 => \E j \in 1 .. Len(Sorted(index[l][n])) :
                            j > scan.offset /\ Sorted(index[l][n])[j] = k
      BY <2>2, <3>1 DEF Ahead
    <3>3. PICK n : n = scan.files[i]
      OBVIOUS
    <3>4. ASSUME n \in DOMAIN index'[l], index'[l][n] = index[l][n] PROVE Ahead(k)'
      BY <3>1, <3>2, <3>3, <3>4 DEF Ahead
    <3> QED
      BY <3>1, <3>2, <3>3, <3>4 DEF MovesUp
  <2> QED
    BY <1>3, <2>1, <2>2 DEF ScanOK
<1> QED
  BY <1>1, <1>2, <1>3 DEF ScanOK

(* A scan begins with the files of level_0, and owes what is in a segment. *)
LEMMA StartScanOK == ASSUME Inv, StartScan PROVE ScanOK'
<1>1. /\ scan' = [step |-> "level", level |-> 1, files |-> <<>>, offset |-> 0,
                  yielded |-> OnDisk, owed |-> stored]
      /\ index' = index
  BY DEF StartScan, disk
<1>2. stored \subseteq Keys /\ OnDisk \subseteq Keys
  BY DEF Inv, TypeOK, OnDisk
<1>3. << >> \in Seq(Nat)
  OBVIOUS
<1>4. scan' \in ScanRecord
  BY <1>1, <1>2, <1>3 DEF ScanRecord
<1>5. \A k \in stored \ OnDisk : Above(k, 1)
  <2> SUFFICES ASSUME NEW k \in stored, k \notin OnDisk PROVE Above(k, 1)
    OBVIOUS
  <2>1. Present(k) /\ level0[k] = NoFile
    BY <1>2 DEF Inv, Kept, OnDisk
  <2>2. PICK l \in Levels : \E n \in Both(l) : k \in index[l][n]
    BY <2>1 DEF Present
  <2>3. l >= 1
    BY DEF Levels
  <2> QED
    BY <2>2, <2>3 DEF Above, Both
<1> QED
  BY <1>1, <1>4, <1>5 DEF ScanOK, Above

(* The scan lists a level. *)
LEMMA ScanLevelOK == ASSUME Inv, ScanOK, ScanLevel PROVE ScanOK'
<1>1. scan.step = "level" /\ index' = index
  BY DEF ScanLevel, disk
<1>2. scan \in ScanRecord /\ \A k \in scan.owed \ scan.yielded : Above(k, scan.level)
  BY <1>1 DEF ScanOK, Nobody
<1>3. scan.level \in Nat /\ scan.level # 0 /\ top \in 0 .. MaxLevel
  BY <1>2 DEF ScanRecord, Inv, TypeOK
<1>4. ASSUME scan.level > top PROVE ScanOK'
  <2>1. \A k \in scan.owed \ scan.yielded : FALSE
    BY <1>2, <1>3, <1>4 DEF Above, Inv, Reached, Levels
  <2>2. scan' = [scan EXCEPT !.step = "done"]
    BY <1>4 DEF ScanLevel
  <2>3. /\ scan' \in ScanRecord /\ scan'.step = "done"
        /\ scan'.owed = scan.owed /\ scan'.yielded = scan.yielded
    BY <1>2, <2>2 DEF ScanRecord
  <2> QED
    BY <2>1, <2>3 DEF ScanOK
<1>5. ASSUME ~ (scan.level > top) PROVE ScanOK'
  <2>1. PICK l \in Levels : l = scan.level
    <3>1. MaxLevel \in Nat
      BY ColdStorageAssumption DEF ColdStorageAssumption
    <3> QED
      BY <1>3, <1>5, <3>1 DEF Levels
  <2>2. PICK files : files = Sorted(DOMAIN index[l])
    OBVIOUS
  <2>3. /\ files \in Seq(Nat)
        /\ \A n \in DOMAIN index[l] :
              /\ \E i \in 1 .. Len(files) : files[i] = n
              /\ \A k \in index[l][n] :
                    \E j \in 1 .. Len(Sorted(index[l][n])) : Sorted(index[l][n])[j] = k
    BY <2>2, IndexSorted DEF Inv
  <2>4. scan' = [scan EXCEPT !.step = "read", !.offset = 0, !.files = files]
    BY <1>5, <2>1, <2>2 DEF ScanLevel
  <2>5. /\ scan' \in ScanRecord /\ scan'.step = "read" /\ scan'.level = l
        /\ scan'.files = files /\ scan'.offset = 0
        /\ scan'.owed = scan.owed /\ scan'.yielded = scan.yielded
    BY <1>2, <2>1, <2>3, <2>4 DEF ScanRecord
  <2>6. ASSUME NEW k, NEW n \in DOMAIN index[l], k \in index[l][n] PROVE Ahead(k)'
    <3>1. PICK i \in 1 .. Len(files) : files[i] = n
      BY <2>3
    <3>2. PICK j \in 1 .. Len(Sorted(index[l][n])) : Sorted(index[l][n])[j] = k
      BY <2>3, <2>6
    <3>3. j > 0
      OBVIOUS
    <3> QED
      BY <1>1, <2>5, <2>6, <3>1, <3>2, <3>3 DEF Ahead
  <2>7. ASSUME NEW k, Above(k, l), ~Above(k, l + 1)
        PROVE  \E n \in DOMAIN index[l] : k \in index[l][n]
    BY <2>7 DEF Above, Levels
  <2>8. \A k \in scan.owed \ scan.yielded : Above(k, l + 1) \/ Ahead(k)'
    BY <1>2, <2>1, <2>6, <2>7
  <2>9. \A k : Above(k, l + 1) => Above(k, l + 1)'
    BY <1>1 DEF Above
  <2> QED
    BY <2>5, <2>8, <2>9 DEF ScanOK
<1> QED
  BY <1>4, <1>5

(* The scan reads the next keys of a file, or that it is gone. *)
LEMMA ScanReadOK == ASSUME Inv, ScanOK, ScanRead PROVE ScanOK'
<1>1. scan.step = "read" /\ index' = index
  BY DEF ScanRead, disk
<1>2. /\ scan \in ScanRecord /\ scan.level \in Levels
      /\ \A k \in scan.owed \ scan.yielded : Above(k, scan.level + 1) \/ Ahead(k)
  BY <1>1 DEF ScanOK, Nobody
<1>3. /\ scan.files \in Seq(Nat) /\ scan.offset \in Nat
      /\ scan.yielded \subseteq Keys /\ scan.owed \subseteq Keys
  BY <1>2 DEF ScanRecord
<1>4. PICK l \in Levels : l = scan.level
  BY <1>2
<1>5. \A k : Above(k, l + 1) => Above(k, l + 1)'
  BY <1>1 DEF Above
<1>6. ASSUME scan.files = << >> PROVE ScanOK'
  <2>1. \A k \in scan.owed \ scan.yielded : Above(k, l + 1)
    <3>1. Len(scan.files) = 0
      BY <1>6
    <3> QED
      BY <1>2, <1>4, <3>1 DEF Ahead
  <2>2. scan' = [scan EXCEPT !.step = "level", !.level = @ + 1]
    BY <1>6 DEF ScanRead
  <2>3. l + 1 \in Nat \ {0}
    BY DEF Levels
  <2>4. /\ scan' \in ScanRecord /\ scan'.step = "level" /\ scan'.level = l + 1
        /\ scan'.owed = scan.owed /\ scan'.yielded = scan.yielded
    BY <1>2, <1>4, <2>2, <2>3 DEF ScanRecord
  <2> QED
    BY <1>5, <2>1, <2>4 DEF ScanOK
<1>7. ASSUME scan.files # << >> PROVE ScanOK'
  <2>1. PICK n : n = Head(scan.files)
    OBVIOUS
  <2>2. PICK ids : ids = IF n \in DOMAIN index[l] THEN Sorted(index[l][n]) ELSE << >>
    OBVIOUS
  <2>3. PICK o \in Nat : o = scan.offset
    BY <1>3
  <2>4. PICK m : m = Min({o + Batch, Len(ids)})
    OBVIOUS
  <2>5. PICK got : got = SubSeq(ids, o + 1, m)
    OBVIOUS
  <2>6. PICK last \in BOOLEAN : last = (got = << >> \/ o + Len(got) >= Len(ids))
    OBVIOUS
  <2>7. scan' = [scan EXCEPT !.yielded = @ \cup ToSet(got),
                             !.offset = IF last THEN 0 ELSE @ + Len(got),
                             !.files = IF last THEN Tail(@) ELSE @]
    BY <1>4, <1>7, <2>1, <2>2, <2>3, <2>4, <2>5, <2>6 DEF ScanRead
  <2>8. ids \in Seq(Keys)
    <3>1. << >> \in Seq(Keys)
      OBVIOUS
    <3>2. ASSUME n \in DOMAIN index[l] PROVE Sorted(index[l][n]) \in Seq(Keys)
      <4>1. index[l][n] \subseteq Keys /\ Sorted(index[l][n]) \in Seq(index[l][n])
        BY <3>2, IndexSorted DEF Inv
      <4>2. PICK T \in SUBSET Keys : T = index[l][n]
        BY <4>1
      <4>3. PICK s \in Seq(T) : s = Sorted(T)
        BY <4>1, <4>2
      <4>4. s \in Seq(Keys)
        OBVIOUS
      <4> QED
        BY <4>2, <4>3, <4>4
    <3> QED
      BY <2>2, <3>1, <3>2
  <2>9. Len(ids) \in Nat /\ Batch \in Nat /\ Batch > 0 /\ o + Batch \in Nat
    BY <2>8, ColdStorageAssumption DEF ColdStorageAssumption
  <2>10. m \in Nat /\ m <= o + Batch /\ m <= Len(ids) /\ (m = o + Batch \/ m = Len(ids))
    <3> DEFINE T == {o + Batch, Len(ids)}
    <3>1. T \in SUBSET Nat /\ T # {}
      BY <2>9
    <3>2. o + Batch <= Len(ids) \/ Len(ids) <= o + Batch
      BY <2>9
    <3>3. \E x \in T : \A y \in T : x <= y
      BY <2>9, <3>2
    <3>4. Min(T) \in T /\ \A y \in T : Min(T) <= y
      BY <3>3 DEF Min
    <3> QED
      BY <2>4, <2>9, <3>4
  <2>11. /\ got \in Seq(Keys)
         /\ Len(got) = IF m >= o + 1 THEN m - o ELSE 0
         /\ \A j \in o + 1 .. m : got[j - o] = ids[j]
    <3>1. \A j \in o + 1 .. m : j \in 1 .. Len(ids)
      BY <2>10
    <3> QED
      BY <2>5, <2>8, <2>9, <2>10, <3>1
  <2>12. ToSet(got) \subseteq Keys /\ \A j \in o + 1 .. m : ids[j] \in ToSet(got)
    <3>1. \A i \in 1 .. Len(got) : got[i] \in ToSet(got) /\ got[i] \in Keys
      BY <2>11 DEF ToSet
    <3>2. ToSet(got) \subseteq Keys
      BY <2>11 DEF ToSet
    <3>3. \A j \in o + 1 .. m : j - o \in 1 .. Len(got)
      BY <2>10, <2>11
    <3> QED
      BY <2>11, <3>1, <3>2, <3>3
  <2>13. last <=> m <= o \/ m = Len(ids)
    <3>1. got = << >> <=> Len(got) = 0
      BY <2>11
    <3>2. got = << >> <=> m <= o
      BY <2>10, <2>11, <3>1
    <3>3. ~ (m <= o) => o + Len(got) = m
      BY <2>10, <2>11
    <3>4. CASE m <= o
      BY <2>6, <3>2, <3>4
    <3>5. CASE ~ (m <= o)
      <4>1. last = (m >= Len(ids))
        BY <2>6, <3>2, <3>3, <3>5
      <4>2. m >= Len(ids) <=> m <= o \/ m = Len(ids)
        BY <2>9, <2>10, <3>5
      <4> QED
        BY <4>1, <4>2, Zenon
    <3> QED
      BY <3>4, <3>5
  <2>14. /\ scan.files \in Seq(Nat) /\ Len(scan.files) \in Nat /\ Len(scan.files) > 0
         /\ scan.files[1] = n
         /\ Tail(scan.files) \in Seq(Nat) /\ Len(Tail(scan.files)) = Len(scan.files) - 1
         /\ \A i \in 2 .. Len(scan.files) : Tail(scan.files)[i - 1] = scan.files[i]
    BY <1>3, <1>7, <2>1
  <2>15. /\ scan' \in ScanRecord /\ scan'.step = "read" /\ scan'.level = l
         /\ scan'.owed = scan.owed /\ scan'.yielded = scan.yielded \cup ToSet(got)
         /\ scan'.files = IF last THEN Tail(scan.files) ELSE scan.files
         /\ scan'.offset = IF last THEN 0 ELSE o + Len(got)
    <3>1. o + Len(got) \in Nat
      BY <2>11
    <3> QED
      BY <1>1, <1>2, <1>4, <2>3, <2>7, <2>12, <2>14, <3>1 DEF ScanRecord
  <2>16. ASSUME NEW k \in scan.owed, k \notin scan'.yielded, Ahead(k) PROVE Ahead(k)'
    <3>1. PICK i \in 1 .. Len(scan.files) :
             LET f == scan.files[i] IN
             /\ f \in DOMAIN index[l]
             /\ k \in index[l][f]
             /\ i = 1 => \E j \in 1 .. Len(Sorted(index[l][f])) :
                            j > o /\ Sorted(index[l][f])[j] = k
      BY <1>4, <2>3, <2>16 DEF Ahead
    <3>2. PICK f \in DOMAIN index[l] : f = scan.files[i] /\ k \in index[l][f]
      BY <3>1
    <3>3. \E j \in 1 .. Len(Sorted(index[l][f])) : j > 0 /\ Sorted(index[l][f])[j] = k
      <4>1. PICK j \in 1 .. Len(Sorted(index[l][f])) : Sorted(index[l][f])[j] = k
        BY <3>2, IndexSorted DEF Inv
      <4>2. j > 0
        OBVIOUS
      <4> QED
        BY <4>1, <4>2
    <3>4. ASSUME i # 1, last PROVE Ahead(k)'
      <4>1. i - 1 \in 1 .. Len(scan'.files) /\ scan'.files[i - 1] = f /\ scan'.offset = 0
        BY <2>14, <2>15, <3>2, <3>4
      <4> QED
        BY <1>1, <2>15, <3>2, <3>3, <4>1 DEF Ahead
    <3>5. ASSUME i # 1, ~last PROVE Ahead(k)'
      <4>1. i \in 1 .. Len(scan'.files) /\ scan'.files[i] = f
        BY <2>15, <3>2, <3>5
      <4> QED
        BY <1>1, <2>15, <3>2, <3>5, <4>1 DEF Ahead
    <3>6. ASSUME i = 1 PROVE Ahead(k)'
      <4>1. f = n /\ ids = Sorted(index[l][f])
        BY <2>2, <2>14, <3>2, <3>6
      <4>2. PICK j \in 1 .. Len(ids) : j > o /\ ids[j] = k
        BY <3>1, <3>2, <3>6, <4>1
      <4>3. ~ (j <= m)
        <5>1. k \notin ToSet(got)
          BY <2>15, <2>16
        <5> QED
          BY <2>9, <2>10, <2>12, <4>2, <5>1
      <4>4. ~last /\ j > o + Len(got)
        BY <2>9, <2>10, <2>11, <2>13, <4>2, <4>3
      <4>5. /\ i \in 1 .. Len(scan'.files) /\ scan'.files[i] = f
            /\ j > scan'.offset
        BY <2>15, <3>2, <4>4
      <4> QED
        BY <1>1, <2>15, <3>2, <4>1, <4>2, <4>5 DEF Ahead
    <3> QED
      BY <3>4, <3>5, <3>6
  <2>17. \A k \in scan'.owed \ scan'.yielded : Above(k, l + 1)' \/ Ahead(k)'
    BY <1>2, <1>4, <1>5, <2>15, <2>16
  <2>18. \A k \in scan'.owed \ scan'.yielded : Above(k, scan.level + 1)' \/ Ahead(k)'
    BY <2>15, <2>17
  <2> QED
    BY <2>15, <2>18 DEF ScanOK
<1> QED
  BY <1>6, <1>7

(* Together with the invariant of the table, ScanOK is inductive. *)
LEMMA ScanNext == ASSUME Inv, ScanOK, [Next]_vars PROVE ScanOK'
<1>1. ASSUME scan' = scan PROVE ScanOK'
  BY <1>1, StepMovesUp, ScanWaits
<1>2. ASSUME Crash PROVE ScanOK'
  BY <1>2 DEF Crash, ScanOK
<1>3. scan' = scan \/ Crash \/ StartScan \/ ScanLevel \/ ScanRead
  BY DEF Next, vars, PutStep, Acquire, StartPut, Truncate, Write, CollateData, CollateIndex, Unlink,
         NextLevel, MergeData, MergeIndex, UnlinkLevel, IOError
<1> QED
  BY <1>1, <1>2, <1>3, StartScanOK, ScanLevelOK, ScanReadOK

(* A scan yields every key stored when it began, whatever collations and   *)
(* merges do to the files between its reads, and whatever fails.           *)
THEOREM ScansComplete == Spec => []ScanComplete
<1>1. Init => ScanOK
  BY DEF Init, ScanOK
<1>2. ScanOK => ScanComplete
  BY DEF ScanOK, ScanComplete, Nobody
<1> QED
  BY <1>1, <1>2, InitInv, NextInv, ScanNext, PTL DEF Spec

-----------------------------------------------------------------------------
(* The search of an index.                                                 *)

(* What the search of a span gives, from what it gives for narrower ones. *)
Halve(f, s, k, left, right) ==
    LET mid == (left + right) \div 2
    IN /\ left <= right
       /\ \/ s[mid] = k
          \/ s[mid] < k /\ f[<<mid + 1, right>>]
          \/ s[mid] > k /\ f[<<left, mid - 1>>]

Halving(f, s, k) == f = [span \in Spans(s) |-> Halve(f, s, k, span[1], span[2])]

(* What it ought to give. *)
Lies(s, k, left, right) == \E i \in left .. right : s[i] = k

(* A span is narrower than another, or empty. *)
Narrower(t, left, right) == t[1] > t[2] \/ t[2] - t[1] < right - left

(* Halving a span loses nothing. *)
LEMMA HalveIs ==
    ASSUME NEW s \in Seq(Nat), Increasing(s), NEW k \in Nat, NEW g,
           NEW left \in 1 .. Len(s) + 1, NEW right \in 0 .. Len(s),
           \A t \in Spans(s) : Narrower(t, left, right) => (g[t] <=> Lies(s, k, t[1], t[2]))
    PROVE  Halve(g, s, k, left, right) <=> Lies(s, k, left, right)
<1>1. CASE left > right
  <2>1. ~ (left <= right) /\ left .. right = {}
    BY <1>1
  <2>2. ~Halve(g, s, k, left, right)
    BY <2>1, Zenon DEF Halve
  <2>3. ~Lies(s, k, left, right)
    BY <2>1 DEF Lies
  <2> QED
    BY <2>2, <2>3
<1>2. CASE left <= right
  <2>1. PICK mid : mid = (left + right) \div 2
    OBVIOUS
  <2>2. /\ mid \in left .. right /\ mid \in 1 .. Len(s)
        /\ mid + 1 \in 1 .. Len(s) + 1 /\ mid - 1 \in 0 .. Len(s)
    BY <1>2, <2>1
  <2>3. \A i \in left .. right : i \in 1 .. Len(s)
    OBVIOUS
  <2>4. \A i \in 1 .. Len(s) : s[i] \in Nat
    OBVIOUS
  <2>5. g[<<mid + 1, right>>] <=> Lies(s, k, mid + 1, right)
    <3>1. <<mid + 1, right>> \in Spans(s)
      BY <2>2 DEF Spans
    <3>2. Narrower(<<mid + 1, right>>, left, right)
      BY <2>2 DEF Narrower
    <3> QED
      BY <3>1, <3>2, Zenon
  <2>6. g[<<left, mid - 1>>] <=> Lies(s, k, left, mid - 1)
    <3>1. <<left, mid - 1>> \in Spans(s)
      BY <2>2 DEF Spans
    <3>2. Narrower(<<left, mid - 1>>, left, right)
      BY <2>2 DEF Narrower
    <3> QED
      BY <3>1, <3>2, Zenon
  <2>7. Halve(g, s, k, left, right) <=> \/ s[mid] = k
                                        \/ s[mid] < k /\ Lies(s, k, mid + 1, right)
                                        \/ s[mid] > k /\ Lies(s, k, left, mid - 1)
    BY <1>2, <2>1, <2>5, <2>6, Zenon DEF Halve
  <2>8. CASE s[mid] = k
    <3>1. Lies(s, k, left, right)
      BY <2>2, <2>8 DEF Lies
    <3> QED
      BY <2>7, <2>8, <3>1, Zenon
  <2>9. CASE s[mid] < k
    <3>1. ASSUME NEW i \in left .. right, s[i] = k PROVE i \in mid + 1 .. right
      <4>1. i \in 1 .. Len(s) /\ i # mid
        BY <2>3, <2>4, <2>2, <2>9, <3>1
      <4>2. ~ (i < mid)
        <5>1. i < mid => s[i] < s[mid]
          BY <2>2, <4>1 DEF Increasing
        <5> QED
          BY <2>2, <2>4, <2>9, <3>1, <5>1
      <4> QED
        BY <2>2, <4>1, <4>2
    <3>2. mid + 1 .. right \subseteq left .. right
      BY <2>2
    <3>3. Lies(s, k, left, right) <=> Lies(s, k, mid + 1, right)
      BY <3>1, <3>2, Zenon DEF Lies
    <3>4. ~ (s[mid] = k) /\ ~ (s[mid] > k)
      BY <2>2, <2>4, <2>9
    <3> QED
      BY <2>7, <2>9, <3>3, <3>4, Zenon
  <2>10. CASE s[mid] > k
    <3>1. ASSUME NEW i \in left .. right, s[i] = k PROVE i \in left .. mid - 1
      <4>1. i \in 1 .. Len(s) /\ i # mid
        BY <2>3, <2>4, <2>2, <2>10, <3>1
      <4>2. ~ (mid < i)
        <5>1. mid < i => s[mid] < s[i]
          BY <2>2, <4>1 DEF Increasing
        <5> QED
          BY <2>2, <2>4, <2>10, <3>1, <5>1
      <4> QED
        BY <2>2, <4>1, <4>2
    <3>2. left .. mid - 1 \subseteq left .. right
      BY <2>2
    <3>3. Lies(s, k, left, right) <=> Lies(s, k, left, mid - 1)
      BY <3>1, <3>2, Zenon DEF Lies
    <3>4. ~ (s[mid] = k) /\ ~ (s[mid] < k)
      BY <2>2, <2>4, <2>10
    <3> QED
      BY <2>7, <2>10, <3>3, <3>4, Zenon
  <2>11. s[mid] = k \/ s[mid] < k \/ s[mid] > k
    BY <2>2, <2>4
  <2> QED
    BY <2>8, <2>9, <2>10, <2>11
<1> QED
  BY <1>1, <1>2

(* The recursion has a solution. *)
LEMMA HalvingExists ==
    ASSUME NEW s \in Seq(Nat), Increasing(s), NEW k \in Nat
    PROVE  \E f : Halving(f, s, k)
<1> DEFINE f == [span \in Spans(s) |-> Lies(s, k, span[1], span[2])]
<1>1. \A t \in Spans(s) : f[t] <=> Lies(s, k, t[1], t[2])
  BY Zenon
<1>2. DOMAIN f = Spans(s)
  BY Zenon
<1> HIDE DEF f
<1>3. \A t \in Spans(s) : Lies(s, k, t[1], t[2]) <=> Halve(f, s, k, t[1], t[2])
  <2> SUFFICES ASSUME NEW t \in Spans(s)
               PROVE  Lies(s, k, t[1], t[2]) <=> Halve(f, s, k, t[1], t[2])
    BY Zenon
  <2>1. PICK left \in 1 .. Len(s) + 1, right \in 0 .. Len(s) : t = <<left, right>>
    BY DEF Spans
  <2>2. Halve(f, s, k, left, right) <=> Lies(s, k, left, right)
    BY <1>1, HalveIs
  <2> QED
    BY <2>1, <2>2
<1>4. \A t \in Spans(s) : Lies(s, k, t[1], t[2]) = Halve(f, s, k, t[1], t[2])
  BY <1>3, Zenon DEF Lies, Halve
<1>5. f = [span \in Spans(s) |-> Halve(f, s, k, span[1], span[2])]
  BY <1>4, Zenon DEF f
<1> QED
  BY <1>5 DEF Halving

(* And every solution finds what there is. *)
LEMMA HalvingFinds ==
    ASSUME NEW s \in Seq(Nat), Increasing(s), NEW k \in Nat, NEW f, Halving(f, s, k)
    PROVE  \A left \in 1 .. Len(s) + 1, right \in 0 .. Len(s) :
              f[<<left, right>>] <=> Lies(s, k, left, right)
<1>1. \A t \in Spans(s) : f[t] = Halve(f, s, k, t[1], t[2])
  BY Zenon DEF Halving
<1> DEFINE Right(t) == f[t] <=> Lies(s, k, t[1], t[2])
           Bad == {n \in Nat : \E t \in Spans(s) : t[2] - t[1] = n /\ ~Right(t)}
<1>2. \A t \in Spans(s) : t[1] \in Nat /\ t[2] \in Nat
  BY DEF Spans
<1>3. ASSUME NEW t \in Spans(s), t[1] > t[2] PROVE Right(t)
  <2>1. ~Halve(f, s, k, t[1], t[2])
    BY <1>2, <1>3 DEF Halve
  <2>2. ~Lies(s, k, t[1], t[2])
    BY <1>2, <1>3 DEF Lies
  <2> QED
    BY <1>1, <2>1, <2>2, Zenon
<1>4. Bad = {}
  <2> SUFFICES ASSUME Bad # {} PROVE FALSE
    OBVIOUS
  <2> HIDE DEF Right
  <2>1. PICK n \in Bad : \A m \in Bad : n <= m
    BY LeastNat
  <2>2. PICK t \in Spans(s) : t[2] - t[1] = n /\ ~Right(t)
    OBVIOUS
  <2>3. PICK left \in 1 .. Len(s) + 1, right \in 0 .. Len(s) : t = <<left, right>>
    BY DEF Spans
  <2>4. ASSUME NEW u \in Spans(s), Narrower(u, left, right) PROVE Right(u)
    <3>1. CASE u[1] > u[2]
      BY <1>3, <3>1
    <3>2. CASE ~ (u[1] > u[2])
      <4>1. u[2] - u[1] < right - left
        BY <2>4, <3>2, Zenon DEF Narrower
      <4>2. right - left = n
        BY <2>2, <2>3
      <4>3. u[2] - u[1] \in Nat
        BY <1>2, <3>2
      <4>4. u[2] - u[1] < n
        BY <4>1, <4>2
      <4>5. u[2] - u[1] \notin Bad
        BY <2>1, <4>3, <4>4
      <4> QED
        BY <4>3, <4>5
    <3> QED
      BY <3>1, <3>2
  <2>5. \A u \in Spans(s) : Narrower(u, left, right) => (f[u] <=> Lies(s, k, u[1], u[2]))
    BY <2>4, Zenon DEF Right
  <2>6. Halve(f, s, k, left, right) <=> Lies(s, k, left, right)
    BY <2>5, HalveIs
  <2>7. f[t] <=> Lies(s, k, left, right)
    BY <1>1, <2>3, <2>6, Zenon
  <2>8. t[1] = left /\ t[2] = right
    BY <2>3
  <2>9. Right(t)
    BY <2>7, <2>8, Zenon DEF Right
  <2> QED
    BY <2>2, <2>9
<1>5. ASSUME NEW left \in 1 .. Len(s) + 1, NEW right \in 0 .. Len(s)
      PROVE  f[<<left, right>>] <=> Lies(s, k, left, right)
  <2>1. <<left, right>> \in Spans(s)
    BY DEF Spans
  <2>2. PICK t \in Spans(s) : t = <<left, right>> /\ t[1] = left /\ t[2] = right
    BY <2>1
  <2> HIDE DEF Right
  <2>3. Right(t)
    <3>1. CASE t[1] > t[2]
      BY <1>3, <3>1
    <3>2. CASE ~ (t[1] > t[2])
      <4>1. t[2] - t[1] \in Nat
        BY <1>2, <3>2
      <4> QED
        BY <1>4, <4>1
    <3> QED
      BY <3>1, <3>2
  <2> QED
    BY <2>2, <2>3, Zenon DEF Right
<1> QED
  BY <1>5, Zenon

(* The binary search of find.py finds a key in an index iff it is there. *)
LEMMA HoldsIs ==
    ASSUME NEW ids \in SUBSET Nat, IsFiniteSet(ids), NEW k \in Nat
    PROVE  Holds(ids, k) <=> k \in ids
<1>1. PICK s : s = Sorted(ids)
  OBVIOUS
<1>2. /\ s \in Seq(ids) /\ Increasing(s)
      /\ \A x \in ids : \E j \in 1 .. Len(s) : s[j] = x
  BY <1>1, SortedIs, SortedGrows
<1>3. s \in Seq(Nat) /\ Len(s) \in Nat /\ \A i \in 1 .. Len(s) : s[i] \in ids
  <2>1. Len(s) \in Nat /\ s \in [1 .. Len(s) -> ids]
    BY <1>2
  <2>2. s \in [1 .. Len(s) -> Nat]
    BY <2>1
  <2> QED
    BY <2>1, <2>2
<1>4. PICK f : Halving(f, s, k) /\ f = CHOOSE g : Halving(g, s, k)
  BY <1>2, <1>3, HalvingExists
<1>5. Holds(ids, k) = f[<<1, Len(s)>>]
  <2>1. Holds(ids, k) = (CHOOSE g : Halving(g, Sorted(ids), k))[<<1, Len(Sorted(ids))>>]
    BY Zenon DEF Holds, Halving, Halve
  <2> QED
    BY <1>1, <1>4, <2>1, Zenon
<1>6. f[<<1, Len(s)>>] <=> Lies(s, k, 1, Len(s))
  <2>1. 1 \in 1 .. Len(s) + 1 /\ Len(s) \in 0 .. Len(s)
    BY <1>3
  <2> QED
    BY <1>2, <1>3, <1>4, <2>1, HalvingFinds
<1>7. Lies(s, k, 1, Len(s)) <=> k \in ids
  BY <1>2, <1>3 DEF Lies
<1> QED
  BY <1>5, <1>6, <1>7, Zenon

-----------------------------------------------------------------------------
(* Lookups while nothing has failed.                                       *)

(* The number of a data file whose index is not written yet. *)
Extra(l) ==
    IF (At("collate_index") /\ l = 1) \/ (At("merge_index") /\ l = lock.level + 1)
    THEN {NextNumber(l)} ELSE {}

(* Every index has its data file, and every data file its index, but for   *)
(* the segment that is being written and the level that is being deleted.  *)
Paired ==
    \A l \in Levels : ~(At("unlink_level") /\ l = lock.level) =>
        DOMAIN data[l] = DOMAIN index[l] \cup Extra(l)

FaultFree == faults \in Nat /\ (faults = 0 => torn = {} /\ Paired)

(* Steps that leave the segments alone. *)
LEMMA PairedSame ==
    ASSUME Paired, UNCHANGED <<index, data>>,
           lock.step \notin {"collate_index", "merge_index", "unlink_level"},
           lock'.step \notin {"collate_index", "merge_index", "unlink_level"}
    PROVE  Paired'
  BY DEF Paired, Extra, At

(* A data file is written, its index is to come. *)
LEMMA PairedData ==
    ASSUME Inv, Paired, At("collate") \/ At("levels"), NEW l \in Levels, NEW file,
           data' = [data EXCEPT ![l] = With(data[l], NextNumber(l), file)], index' = index,
           \A m \in Levels : Extra(m)' = IF m = l THEN {NextNumber(m)'} ELSE {}
    PROVE  Paired'
<1>1. \A m \in Levels : DOMAIN data[m] = DOMAIN index[m]
  BY DEF Paired, Extra, At
<1>2. data \in [Levels -> Files(Segment)]
  BY DEF Inv, TypeOK
<1>3. PICK N : N = NextNumber(l)
  OBVIOUS
<1>4. DOMAIN data'[l] = DOMAIN data[l] \cup {N} /\ NextNumber(l)' = N
  BY <1>2, <1>3 DEF With, NextNumber
<1>5. \A m \in Levels \ {l} : data'[m] = data[m]
  BY <1>2
<1> QED
  BY <1>1, <1>4, <1>5 DEF Paired

(* Its index is written. *)
LEMMA PairedIndex ==
    ASSUME Inv, NEW l \in Levels, NEW ids,
           index' = [index EXCEPT ![l] = With(index[l], NextNumber(l), ids)], data' = data,
           DOMAIN data[l] = DOMAIN index[l] \cup {NextNumber(l)},
           \A m \in Levels \ {l} : DOMAIN data[m] = DOMAIN index[m],
           lock'.step \notin {"collate_index", "merge_index"}
    PROVE  Paired'
<1>1. index \in [Levels -> Files(SUBSET Keys)]
  BY DEF Inv, TypeOK
<1>2. PICK N : N = NextNumber(l)
  OBVIOUS
<1>3. DOMAIN index'[l] = DOMAIN index[l] \cup {N}
  BY <1>1, <1>2 DEF With
<1>4. \A m \in Levels \ {l} : index'[m] = index[m]
  BY <1>1
<1>5. \A m \in Levels : DOMAIN data'[m] = DOMAIN index'[m]
  BY <1>2, <1>3, <1>4
<1>6. \A m \in Levels : Extra(m)' = {}
  BY DEF Extra, At
<1> QED
  BY <1>5, <1>6 DEF Paired

(* Each step of a put keeps the files paired, or is about to pair them. *)
LEMMA PutPaired == ASSUME Inv, Paired, PutStep PROVE Paired'
<1>1. 1 \in Levels
  BY ColdStorageAssumption DEF ColdStorageAssumption, Levels
<1>2. ASSUME Truncate \/ Write \/ Unlink \/ NextLevel PROVE Paired'
  <2>1. lock.step \in {"locked", "writing", "unlink", "levels"} /\ lock.step \in Steps
    BY <1>2 DEF Truncate, Write, Unlink, NextLevel, At, Steps
  <2>2. lock \in LockRecord
    BY <2>1, LockIs DEF Inv, At
  <2>3. lock'.step \in {"free", "writing", "collate", "unlink", "levels"}
    <3>1. ASSUME NEW ok, Return(ok) PROVE lock'.step = "free"
      BY <3>1 DEF Return, Free
    <3>2. ASSUME NEW step, GoTo(step) PROVE lock'.step = step
      BY <2>2, <3>2 DEF GoTo, LockRecord
    <3>3. ASSUME Truncate PROVE lock'.step = "writing"
      BY <3>2, <3>3 DEF Truncate
    <3>4. ASSUME Write PROVE lock'.step \in {"collate", "free"}
      BY <3>1, <3>2, <3>4 DEF Write
    <3>5. ASSUME Unlink PROVE lock'.step \in {"unlink", "levels"}
      BY <2>2, <3>5 DEF Unlink, LockRecord, At
    <3>6. ASSUME NextLevel PROVE lock'.step \in {"free", "levels"}
      BY <2>2, <3>1, <3>6 DEF NextLevel, LockRecord, At
    <3> QED
      BY <1>2, <3>3, <3>4, <3>5, <3>6
  <2>4. UNCHANGED <<index, data>>
    BY <1>2 DEF Truncate, Write, Unlink, NextLevel, disk
  <2> QED
    BY <2>1, <2>3, <2>4, PairedSame
<1>3. ASSUME CollateData PROVE Paired'
  <2>1. PICK file : file = [k \in OnDisk |-> level0[k]]
    OBVIOUS
  <2>2. /\ lock \in LockRecord /\ At("collate")
        /\ lock' = [lock EXCEPT !.step = "collate_index", !.sources = OnDisk]
        /\ data' = [data EXCEPT ![1] = With(data[1], NextNumber(1), file)]
        /\ index' = index
    BY <1>3, <2>1, LockIs DEF CollateData, Steps, Inv
  <2>3. lock'.step = "collate_index"
    BY <2>2 DEF LockRecord
  <2>4. \A m \in Levels : Extra(m)' = IF m = 1 THEN {NextNumber(m)'} ELSE {}
    BY <2>3 DEF Extra, At
  <2> QED
    BY <1>1, <2>2, <2>4, PairedData
<1>4. ASSUME CollateIndex PROVE Paired'
  <2>1. /\ lock \in LockRecord /\ lock.step = "collate_index"
        /\ lock' = [lock EXCEPT !.step = "unlink"]
        /\ data' = data
    BY <1>4, LockIs DEF CollateIndex, GoTo, Steps, Inv, At
  <2>2. lock'.step = "unlink"
    BY <2>1 DEF LockRecord
  <2>3. PICK ids : ids = lock.sources
    OBVIOUS
  <2>4. index' = [index EXCEPT ![1] = With(index[1], NextNumber(1), ids)]
    BY <1>4, <2>3 DEF CollateIndex
  <2>5. /\ DOMAIN data[1] = DOMAIN index[1] \cup {NextNumber(1)}
        /\ \A m \in Levels \ {1} : DOMAIN data[m] = DOMAIN index[m]
    BY <1>1, <2>1 DEF Paired, Extra, At
  <2> QED
    BY <1>1, <2>1, <2>2, <2>4, <2>5, PairedIndex
<1>5. ASSUME MergeData PROVE Paired'
  <2>1. /\ lock \in LockRecord /\ At("levels") /\ lock.level \in Nat /\ lock.level # 0
        /\ lock.level < MaxLevel /\ index' = index
    <3>1. At("levels") /\ lock.level < MaxLevel /\ index' = index
      BY <1>5 DEF MergeData
    <3>2. lock \in LockRecord /\ lock.level \in Nat
      BY <3>1, LockIs DEF Steps, Inv
    <3> QED
      BY <3>1, <3>2 DEF Inv, Under
  <2>2. PICK u \in Levels : u = lock.level + 1
    BY <2>1, ColdStorageAssumption DEF ColdStorageAssumption, Levels
  <2>3. \/ /\ \E file : data' = [data EXCEPT ![u] = With(data[u], NextNumber(u), file)]
           /\ lock' = [lock EXCEPT !.step = "merge_index"]
        \/ lock' = Free /\ UNCHANGED data
    BY <1>5, <2>2 DEF MergeData, GoTo, Return
  <2>4. ASSUME NEW file, data' = [data EXCEPT ![u] = With(data[u], NextNumber(u), file)],
               lock' = [lock EXCEPT !.step = "merge_index"]
        PROVE  Paired'
    <3>1. lock'.step = "merge_index" /\ lock'.level = lock.level
      BY <2>1, <2>4 DEF LockRecord
    <3>2. \A m \in Levels : Extra(m)' = IF m = u THEN {NextNumber(m)'} ELSE {}
      BY <2>2, <3>1 DEF Extra, At
    <3> QED
      BY <2>1, <2>4, <3>2, PairedData
  <2>5. ASSUME lock' = Free, UNCHANGED data PROVE Paired'
    BY <2>1, <2>5, PairedSame DEF Free, At
  <2> QED
    BY <2>3, <2>4, <2>5
<1>6. ASSUME MergeIndex PROVE Paired'
  <2>1. /\ lock \in LockRecord /\ lock.step = "merge_index"
        /\ lock' = [lock EXCEPT !.step = "unlink_level"]
        /\ data' = data /\ Merging
    BY <1>6, LockIs DEF MergeIndex, GoTo, Steps, Inv, Under, At
  <2>2. lock'.step = "unlink_level"
    BY <2>1 DEF LockRecord
  <2>3. PICK u \in Levels : u = lock.level + 1
    BY <2>1 DEF Merging
  <2>4. PICK ids : ids = UNION Range(index[lock.level])
    OBVIOUS
  <2>5. index' = [index EXCEPT ![u] = With(index[u], NextNumber(u), ids)]
    BY <1>6, <2>3, <2>4 DEF MergeIndex
  <2>6. /\ DOMAIN data[u] = DOMAIN index[u] \cup {NextNumber(u)}
        /\ \A m \in Levels \ {u} : DOMAIN data[m] = DOMAIN index[m]
    BY <2>1, <2>3 DEF Paired, Extra, At
  <2> QED
    BY <2>1, <2>2, <2>5, <2>6, PairedIndex
<1>7. ASSUME UnlinkLevel PROVE Paired'
  <2>1. lock \in LockRecord /\ lock.step = "unlink_level"
    BY <1>7, LockIs DEF UnlinkLevel, Steps, Inv
  <2>2. PICK l \in Levels : l = lock.level
    BY <1>7 DEF UnlinkLevel, Inv, Under, Merging
  <2>3. \A m \in Levels \ {l} : DOMAIN data[m] = DOMAIN index[m]
    BY <2>1, <2>2 DEF Paired, Extra, At
  <2>4. /\ index \in [Levels -> Files(SUBSET Keys)]
        /\ data \in [Levels -> Files(Segment)]
    BY DEF Inv, TypeOK
  <2>5. \/ /\ lock' = lock
           /\ \A m \in Levels \ {l} : data'[m] = data[m] /\ index'[m] = index[m]
        \/ /\ DOMAIN index[l] = {} /\ DOMAIN data[l] = {}
           /\ lock' = [lock EXCEPT !.step = "levels", !.level = l + 1]
           /\ UNCHANGED <<index, data>>
    BY <1>7, <2>2, <2>4 DEF UnlinkLevel
  <2>6. ASSUME lock' = lock,
               \A m \in Levels \ {l} : data'[m] = data[m] /\ index'[m] = index[m]
        PROVE  Paired'
    BY <2>1, <2>2, <2>3, <2>6 DEF Paired, Extra, At
  <2>7. ASSUME DOMAIN index[l] = {}, DOMAIN data[l] = {}, UNCHANGED <<index, data>>,
               lock' = [lock EXCEPT !.step = "levels", !.level = l + 1]
        PROVE  Paired'
    <3>1. lock'.step = "levels"
      BY <2>1, <2>7 DEF LockRecord
    <3>2. \A m \in Levels : DOMAIN data'[m] = DOMAIN index'[m]
      BY <2>3, <2>7
    <3> QED
      BY <3>1, <3>2 DEF Paired, Extra, At
  <2> QED
    BY <2>5, <2>6, <2>7
<1> QED
  BY <1>2, <1>3, <1>4, <1>5, <1>6, <1>7 DEF PutStep

(* As long as nothing fails. *)
LEMMA FaultFreeNext == ASSUME Inv, FaultFree, [Next]_vars PROVE FaultFree'
<1>1. ASSUME PutStep PROVE FaultFree'
  <2>1. faults' = faults /\ torn' = torn
    BY <1>1 DEF PutStep, Truncate, Write, CollateData, CollateIndex, Unlink, NextLevel,
                MergeData, MergeIndex, UnlinkLevel, history
  <2> QED
    BY <1>1, <2>1, PutPaired DEF FaultFree
<1>2. ASSUME IOError \/ Crash PROVE FaultFree'
  <2>1. faults \in Nat /\ faults' = faults + 1
    BY <1>2 DEF IOError, Crash, FaultFree
  <2>2. faults' \in Nat /\ faults' # 0
    BY <2>1
  <2> QED
    BY <2>2 DEF FaultFree
<1>3. ASSUME NEW t \in Threads, Acquire(t) PROVE FaultFree'
  <2>1. /\ lock.step = "free" /\ lock'.step = "locked"
        /\ UNCHANGED <<index, data, torn, faults>>
    BY <1>3 DEF Acquire, At, disk, history
  <2> QED
    BY <2>1, PairedSame DEF FaultFree
<1>4. ASSUME UNCHANGED <<index, data, lock, torn, faults>> PROVE FaultFree'
  BY <1>4 DEF FaultFree, Paired, Extra, At, NextNumber
<1>5. ASSUME \/ \E t \in Threads, k \in Keys : StartPut(t, k)
             \/ StartScan \/ ScanLevel \/ ScanRead \/ UNCHANGED vars
      PROVE  UNCHANGED <<index, data, lock, torn, faults>>
  BY <1>5 DEF StartPut, StartScan, ScanLevel, ScanRead, vars, disk, history
<1> QED
  BY <1>1, <1>2, <1>3, <1>4, <1>5 DEF Next

(* Of some segments, one is searched first: of the lowest level with any,  *)
(* the newest.                                                             *)
LEMMA FirstHit ==
    ASSUME Inv, NEW H \in SUBSET Segments, H # {}
    PROVE  \E s \in H : \A r \in H : r = s \/ Before(s, r)
<1>1. \A s \in H : \E l \in Levels : \E n \in DOMAIN index[l] : s = <<l, n>>
  <2> SUFFICES ASSUME NEW s \in H PROVE \E l \in Levels : \E n \in DOMAIN index[l] : s = <<l, n>>
    OBVIOUS
  <2>1. PICK l \in 1 .. top : \E n \in DOMAIN index[l] : s = <<l, n>>
    BY DEF Segments
  <2>2. l \in Levels
    BY ColdStorageAssumption DEF ColdStorageAssumption, Levels, Inv, TypeOK
  <2> QED
    BY <2>1, <2>2
<1>2. \A l \in Levels : DOMAIN index[l] \in SUBSET Nat /\ IsFiniteSet(DOMAIN index[l])
  <2> SUFFICES ASSUME NEW l \in Levels
               PROVE  DOMAIN index[l] \in SUBSET Nat /\ IsFiniteSet(DOMAIN index[l])
    OBVIOUS
  <2>1. index[l] \in Files(SUBSET Keys)
    BY DEF Inv, TypeOK
  <2> QED
    BY <2>1, FilesIs DEF Inv, TypeOK
<1> DEFINE L == {l \in Levels : \E n \in DOMAIN index[l] : <<l, n>> \in H}
<1>3. L \in SUBSET Nat /\ L # {}
  BY <1>1 DEF Levels
<1>4. PICK l \in L : \A m \in L : l <= m
  BY <1>3, LeastNat
<1> DEFINE N == {n \in DOMAIN index[l] : <<l, n>> \in H}
<1>5. l \in Levels /\ N # {}
  OBVIOUS
<1>6. N \in SUBSET Nat /\ IsFiniteSet(N)
  <2>1. N \subseteq DOMAIN index[l]
    OBVIOUS
  <2> HIDE DEF N
  <2> QED
    BY <1>2, <1>5, <2>1, FS_Subset
<1>7. PICK n \in N : \A m \in N : m <= n
  <2> HIDE DEF N
  <2> QED
    BY <1>5, <1>6, MaxOf
<1>8. ASSUME NEW r \in H PROVE r = <<l, n>> \/ Before(<<l, n>>, r)
  <2>1. PICK m \in Levels : \E i \in DOMAIN index[m] : r = <<m, i>>
    BY <1>1
  <2>2. PICK i \in DOMAIN index[m] : r = <<m, i>>
    BY <2>1
  <2>3. l <= m
    BY <1>4, <2>1, <2>2
  <2>4. l \in Nat /\ m \in Nat /\ n \in Nat /\ i \in Nat
    BY <1>2, <1>5, <1>6, <2>1 DEF Levels
  <2>5. CASE l = m
    <3>1. i \in N
      BY <2>2, <2>5
    <3>2. i <= n
      BY <1>7, <3>1
    <3> QED
      BY <2>2, <2>4, <2>5, <3>2 DEF Before
  <2>6. CASE l # m
    <3>1. l < m
      BY <2>3, <2>4, <2>6
    <3> QED
      BY <2>2, <3>1 DEF Before
  <2> QED
    BY <2>5, <2>6
<1>9. <<l, n>> \in H
  OBVIOUS
<1> QED
  BY <1>8, <1>9

(* What is stored is found at the first file that has it. *)
LEMMA FoundSafe == Inv /\ FaultFree => FoundOnceStored
<1> SUFFICES ASSUME Inv, FaultFree, faults = 0, At("free"), NEW k \in stored
             PROVE  Lookup(k)
  BY DEF FoundOnceStored
<1>1. k \in Keys /\ k \in Nat /\ Present(k)
  BY ColdStorageAssumption DEF ColdStorageAssumption, Inv, TypeOK, Kept
<1>2. torn = {} /\ CutOff = {}
  BY DEF FaultFree, At, CutOff
<1>3. \A l \in Levels : DOMAIN data[l] = DOMAIN index[l]
  BY DEF FaultFree, Paired, Extra, At
<1>4. ASSUME level0[k] # NoFile PROVE level0[k] = "whole"
  BY <1>1, <1>2, <1>4 DEF Inv, TypeOK, TornKnown, Content
<1>5. ASSUME level0[k] = NoFile
      PROVE  \E s \in {r \in Segments : Holds(index[r[1]][r[2]], k)} :
                /\ \A r \in {q \in Segments : Holds(index[q[1]][q[2]], k)} :
                      r = s \/ Before(s, r)
                /\ Readable(s, k)
  <2> DEFINE H == {r \in Segments : Holds(index[r[1]][r[2]], k)}
  <2>1. \A s \in Segments :
           \E l \in Levels : \E n \in DOMAIN index[l] :
              s = <<l, n>> /\ s[1] = l /\ s[2] = n
    <3> SUFFICES ASSUME NEW s \in Segments
                 PROVE  \E l \in Levels : \E n \in DOMAIN index[l] :
                           s = <<l, n>> /\ s[1] = l /\ s[2] = n
      OBVIOUS
    <3>1. PICK l \in 1 .. top : \E n \in DOMAIN index[l] : s = <<l, n>>
      BY DEF Segments
    <3>2. l \in Levels
      BY ColdStorageAssumption DEF ColdStorageAssumption, Levels, Inv, TypeOK
    <3> QED
      BY <3>1, <3>2
  <2>2. ASSUME NEW l \in Levels, NEW n \in DOMAIN index[l]
        PROVE  Holds(index[l][n], k) <=> k \in index[l][n]
    <3>1. index[l] \in Files(SUBSET Keys)
      BY DEF Inv, TypeOK
    <3>2. PICK ids \in SUBSET Keys : ids = index[l][n]
      BY <3>1, FilesIs
    <3>3. ids \in SUBSET Nat /\ IsFiniteSet(ids)
      BY <3>2, FS_Subset, ColdStorageAssumption DEF ColdStorageAssumption
    <3>4. Holds(ids, k) <=> k \in ids
      BY <1>1, <3>3, HoldsIs
    <3> QED
      BY <3>2, <3>4
  <2>3. H # {}
    <3>1. PICK l \in Levels : \E n \in Both(l) : k \in index[l][n]
      BY <1>1, <1>5 DEF Present
    <3>2. PICK n \in DOMAIN index[l] : k \in index[l][n]
      BY <3>1 DEF Both
    <3>3. l \in 1 .. top
      BY <3>2 DEF Inv, Reached, TypeOK, Levels
    <3>4. PICK s : s = <<l, n>>
      OBVIOUS
    <3>5. s[1] = l /\ s[2] = n
      BY <3>4
    <3>6. s \in Segments
      BY <3>3, <3>4 DEF Segments
    <3>7. Holds(index[s[1]][s[2]], k)
      BY <2>2, <3>2, <3>5
    <3> QED
      BY <3>6, <3>7
  <2>4. H \in SUBSET Segments
    OBVIOUS
  <2>5. \A s \in H : Holds(index[s[1]][s[2]], k) /\ s \in Segments
    OBVIOUS
  <2> HIDE DEF H
  <2>6. PICK s \in H : \A r \in H : r = s \/ Before(s, r)
    BY <2>3, <2>4, FirstHit
  <2>7. Readable(s, k)
    <3>1. PICK l \in Levels : \E n \in DOMAIN index[l] : s = <<l, n>> /\ s[1] = l /\ s[2] = n
      BY <2>1, <2>5
    <3>2. PICK n \in DOMAIN index[l] : s = <<l, n>> /\ s[1] = l /\ s[2] = n
      BY <3>1
    <3>3. k \in index[l][n]
      BY <2>2, <2>5, <3>2
    <3>4. n \in DOMAIN data[l] /\ DOMAIN data[l][n] = index[l][n]
      BY <1>3, <3>2 DEF Inv, Matched, Both
    <3>5. data[l] \in Files(Segment)
      BY DEF Inv, TypeOK
    <3>6. data[l][n] \in Segment
      BY <3>4, <3>5, FilesIs
    <3>7. data[l][n][k] \in Content
      BY <3>3, <3>4, <3>6, SegmentIs
    <3>8. data[l][n][k] # "torn"
      BY <1>2, <3>3, <3>4 DEF Inv, TornKnown
    <3>9. data[l][n][k] = "whole"
      BY <3>7, <3>8 DEF Content
    <3> QED
      BY <3>2, <3>4, <3>9 DEF Readable
  <2> QED
    BY <2>6, <2>7 DEF H
<1> QED
  BY <1>4, <1>5 DEF Lookup

(* As long as nothing failed, a lookup that gets the lock finds every expr *)
(* whose put returned True: the level it finds it in first has both files  *)
(* of the segment, and they are whole.                                     *)
THEOREM FoundAtOnce == Spec => []FoundOnceStored
<1>1. Init => FaultFree
  <2> SUFFICES ASSUME Init PROVE FaultFree
    OBVIOUS
  <2>1. \A l \in Levels : index[l] = << >> /\ data[l] = << >>
    BY DEF Init
  <2>2. lock.step = "free"
    BY DEF Init, Free
  <2> QED
    BY <2>1, <2>2 DEF Init, FaultFree, Paired, Extra, At
<1> QED
  BY <1>1, InitInv, NextInv, FaultFreeNext, FoundSafe, PTL DEF Spec

-----------------------------------------------------------------------------
(* Lookups of many keys.                                                   *)

(* A segment is a level and a number. *)
LEMMA SegmentIn ==
    ASSUME TypeOK, NEW s \in Segments
    PROVE  \E l \in Levels : \E n \in DOMAIN index[l] :
              l \in Nat /\ n \in Nat /\ s = <<l, n>> /\ s[1] = l /\ s[2] = n
<1>1. PICK l \in 1 .. top : \E n \in DOMAIN index[l] : s = <<l, n>>
  BY DEF Segments
<1>2. PICK n \in DOMAIN index[l] : s = <<l, n>>
  BY <1>1
<1>3. l \in Levels /\ l \in Nat
  BY ColdStorageAssumption DEF ColdStorageAssumption, Levels, TypeOK
<1>4. index[l] \in Files(SUBSET Keys)
  BY <1>3 DEF TypeOK
<1>5. n \in Nat
  BY <1>2, <1>4, FilesIs
<1> QED
  BY <1>2, <1>3, <1>5

(* Of two segments one is searched first. *)
LEMMA BeforeOrder ==
    ASSUME TypeOK, NEW r \in Segments, NEW s \in Segments, Before(r, s)
    PROVE  ~Before(s, r) /\ r # s
<1>1. PICK l \in Nat, n \in Nat : s[1] = l /\ s[2] = n
  BY SegmentIn
<1>2. PICK m \in Nat, i \in Nat : r[1] = m /\ r[2] = i
  BY SegmentIn
<1> QED
  BY <1>1, <1>2 DEF Before

(* Of some segments, one is searched last. *)
LEMMA LastIs ==
    ASSUME TypeOK, NEW S \in SUBSET Segments, S # {}
    PROVE  LastOf(S) \in S /\ \A r \in S : r = LastOf(S) \/ Before(r, LastOf(S))
<1>1. \A s \in S : \E l \in Levels : \E n \in DOMAIN index[l] :
         l \in Nat /\ n \in Nat /\ s = <<l, n>>
  BY SegmentIn
<1> DEFINE L == {l \in Levels : \E n \in Nat : <<l, n>> \in S}
<1>2. L \in SUBSET Nat /\ IsFiniteSet(L) /\ L # {}
  <2>1. L \subseteq Levels /\ IsFiniteSet(Levels) /\ Levels \subseteq Nat
    <3>1. 1 \in Int /\ MaxLevel \in Int /\ Levels = 1 .. MaxLevel
      BY ColdStorageAssumption DEF ColdStorageAssumption, Levels
    <3>2. IsFiniteSet(1 .. MaxLevel) /\ 1 .. MaxLevel \subseteq Nat
      BY <3>1, FS_Interval
    <3> QED
      BY <3>1, <3>2
  <2>2. L # {}
    BY <1>1
  <2> HIDE DEF L
  <2> QED
    BY <2>1, <2>2, FS_Subset
<1>3. PICK l \in L : \A m \in L : m <= l
  <2> HIDE DEF L
  <2> QED
    BY <1>2, MaxOf
<1> DEFINE N == {n \in Nat : <<l, n>> \in S}
<1>4. N \in SUBSET Nat /\ N # {}
  OBVIOUS
<1>5. PICK n \in N : \A m \in N : n <= m
  <2> HIDE DEF N
  <2> QED
    BY <1>4, LeastNat
<1>6. ASSUME NEW r \in S PROVE r = <<l, n>> \/ Before(r, <<l, n>>)
  <2>1. PICK m \in Levels : \E i \in DOMAIN index[m] : m \in Nat /\ i \in Nat /\ r = <<m, i>>
    BY <1>1
  <2>2. PICK i \in Nat : r = <<m, i>>
    BY <2>1
  <2>3. m \in L /\ m <= l /\ l \in Nat /\ m \in Nat
    BY <1>2, <1>3, <2>1, <2>2
  <2>4. CASE l = m
    <3>1. n <= i
      BY <1>5, <2>2, <2>4
    <3> QED
      BY <2>2, <2>3, <2>4, <3>1 DEF Before
  <2>5. CASE l # m
    <3>1. m < l
      BY <2>3, <2>5
    <3> QED
      BY <2>2, <3>1 DEF Before
  <2> QED
    BY <2>4, <2>5
<1>7. \E s \in S : \A r \in S : r = s \/ Before(r, s)
  <2>1. <<l, n>> \in S
    OBVIOUS
  <2> QED
    BY <1>6, <2>1
<1> QED
  BY <1>7 DEF LastOf

Hit(s, k) == Holds(index[s[1]][s[2]], k)

(* The first of S that has k has it whole. *)
FirstWhole(S, k) ==
    \E s \in S : /\ Hit(s, k) /\ Readable(s, k)
                 /\ \A r \in S : Hit(r, k) => r = s \/ Before(s, r)

(* One file more is searched. *)
Read(f, ks, S) ==
    IF S = {} THEN Unread(ks)
    ELSE LET s == LastOf(S)
             acc == f[S \ {s}]
             hits == {k \in acc.pending : Hit(s, k)}
         IN [pending |-> acc.pending \ hits,
             found |-> acc.found \cup {k \in hits : Readable(s, k)}]

Reads(f, ks) == f = [S \in SUBSET Segments |-> Read(f, ks, S)]

(* What is left, and what is found, once the files of S are searched. *)
Left(ks, S) == {k \in ks : level0[k] = NoFile /\ ~ \E s \in S : Hit(s, k)}
Got(ks, S) == {k \in ks : level0[k] = "whole"}
                \cup {k \in ks : level0[k] = NoFile /\ FirstWhole(S, k)}

(* A file searched after others gives what none of them had. *)
LEMMA ReadIs ==
    ASSUME TypeOK, NEW ks, NEW f, NEW S \in SUBSET Segments,
           S # {} => f[S \ {LastOf(S)}] = [pending |-> Left(ks, S \ {LastOf(S)}),
                                          found |-> Got(ks, S \ {LastOf(S)})]
    PROVE  Read(f, ks, S) = [pending |-> Left(ks, S), found |-> Got(ks, S)]
<1>1. CASE S = {}
  <2>1. Left(ks, S) = Unread(ks).pending
    BY <1>1 DEF Left, Unread
  <2>2. Got(ks, S) = Unread(ks).found
    BY <1>1 DEF Got, Unread, FirstWhole
  <2>3. Read(f, ks, S) = Unread(ks)
    BY <1>1 DEF Read
  <2>4. Unread(ks) = [pending |-> Unread(ks).pending, found |-> Unread(ks).found]
    BY DEF Unread
  <2> QED
    BY <2>1, <2>2, <2>3, <2>4, Zenon
<1>2. CASE S # {}
  <2>1. PICK s : s = LastOf(S)
    OBVIOUS
  <2>2. PICK T : T = S \ {s}
    OBVIOUS
  <2>3. s \in S /\ \A r \in S : r = s \/ Before(r, s)
    BY <1>2, <2>1, LastIs
  <2> DEFINE hits == {k \in Left(ks, T) : Hit(s, k)}
  <2>4. Read(f, ks, S) = [pending |-> Left(ks, T) \ hits,
                          found |-> Got(ks, T) \cup {k \in hits : Readable(s, k)}]
    <3>1. PICK acc : acc = f[S \ {s}]
      OBVIOUS
    <3>2. acc.pending = Left(ks, T) /\ acc.found = Got(ks, T)
      BY <1>2, <2>1, <2>2, <3>1
    <3>3. Read(f, ks, S) = [pending |-> acc.pending \ {k \in acc.pending : Hit(s, k)},
                            found |-> acc.found \cup {k \in {x \in acc.pending : Hit(s, x)} :
                                                         Readable(s, k)}]
      BY <1>2, <2>1, <3>1, Zenon DEF Read
    <3> QED
      BY <3>2, <3>3, Zenon
  <2>5. Left(ks, T) \ hits = Left(ks, S)
    <3>1. \A k : (\E r \in S : Hit(r, k)) <=> Hit(s, k) \/ \E r \in T : Hit(r, k)
      BY <2>2, <2>3, Zenon
    <3>2. \A k : k \in Left(ks, T) \ hits <=> k \in Left(ks, S)
      BY <3>1, Zenon DEF Left
    <3> QED
      BY <3>2, Zenon
  <2>6. \A k : FirstWhole(S, k) <=> \/ FirstWhole(T, k)
                                    \/ /\ Hit(s, k) /\ Readable(s, k)
                                       /\ ~ \E r \in T : Hit(r, k)
    <3> SUFFICES ASSUME NEW k
                 PROVE  FirstWhole(S, k) <=> \/ FirstWhole(T, k)
                                             \/ /\ Hit(s, k) /\ Readable(s, k)
                                                /\ ~ \E r \in T : Hit(r, k)
      OBVIOUS
    <3>1. \A r \in T : r \in S /\ r # s /\ Before(r, s) /\ ~Before(s, r)
      BY <2>2, <2>3, BeforeOrder
    <3>2. ASSUME FirstWhole(S, k), ~FirstWhole(T, k)
          PROVE  Hit(s, k) /\ Readable(s, k) /\ ~ \E r \in T : Hit(r, k)
      <4>1. PICK q \in S : /\ Hit(q, k) /\ Readable(q, k)
                           /\ \A r \in S : Hit(r, k) => r = q \/ Before(q, r)
        BY <3>2 DEF FirstWhole
      <4>2. q \notin T
        BY <3>1, <3>2, <4>1 DEF FirstWhole
      <4>3. q = s
        BY <2>2, <4>2
      <4> QED
        BY <3>1, <4>1, <4>3
    <3>3. ASSUME FirstWhole(T, k) PROVE FirstWhole(S, k)
      <4>1. PICK q \in T : /\ Hit(q, k) /\ Readable(q, k)
                           /\ \A r \in T : Hit(r, k) => r = q \/ Before(q, r)
        BY <3>3 DEF FirstWhole
      <4>2. q \in S /\ Before(q, s)
        BY <3>1
      <4>3. \A r \in S : r \in T \/ r = s
        BY <2>2
      <4> QED
        BY <4>1, <4>2, <4>3 DEF FirstWhole
    <3>4. ASSUME Hit(s, k), Readable(s, k), ~ \E r \in T : Hit(r, k) PROVE FirstWhole(S, k)
      <4>1. \A r \in S : r \in T \/ r = s
        BY <2>2
      <4> QED
        BY <2>3, <3>4, <4>1 DEF FirstWhole
    <3> QED
      BY <3>2, <3>3, <3>4
  <2>7. Got(ks, T) \cup {k \in hits : Readable(s, k)} = Got(ks, S)
    <3>1. \A k : k \in Got(ks, T) \cup {x \in hits : Readable(s, x)} <=> k \in Got(ks, S)
      BY <2>6, Zenon DEF Got, Left
    <3> QED
      BY <3>1, Zenon
  <2> HIDE DEF hits
  <2> QED
    BY <2>4, <2>5, <2>7, Zenon
<1> QED
  BY <1>1, <1>2

(* The recursion of the read has a solution. *)
LEMMA ReadsExists == ASSUME TypeOK, NEW ks PROVE \E f : Reads(f, ks)
<1> DEFINE f == [S \in SUBSET Segments |-> [pending |-> Left(ks, S), found |-> Got(ks, S)]]
<1>1. \A S \in SUBSET Segments : f[S] = [pending |-> Left(ks, S), found |-> Got(ks, S)]
  BY Zenon
<1> HIDE DEF f
<1>2. \A S \in SUBSET Segments : Read(f, ks, S) = [pending |-> Left(ks, S), found |-> Got(ks, S)]
  <2> SUFFICES ASSUME NEW S \in SUBSET Segments
               PROVE  Read(f, ks, S) = [pending |-> Left(ks, S), found |-> Got(ks, S)]
    BY Zenon
  <2>1. S \ {LastOf(S)} \in SUBSET Segments
    OBVIOUS
  <2>2. f[S \ {LastOf(S)}] = [pending |-> Left(ks, S \ {LastOf(S)}),
                              found |-> Got(ks, S \ {LastOf(S)})]
    BY <1>1, <2>1, Zenon
  <2> QED
    BY <2>2, ReadIs
<1>3. f = [S \in SUBSET Segments |-> Read(f, ks, S)]
  BY <1>2, Zenon DEF f
<1> QED
  BY <1>3 DEF Reads

(* There are finitely many segments. *)
LEMMA SegmentsFinite == ASSUME TypeOK PROVE IsFiniteSet(Segments)
<1> DEFINE f == [l \in Levels |-> DOMAIN index[l]]
           U == {f[l] : l \in Levels}
<1>1. IsFiniteSet(Levels)
  BY FS_Interval, ColdStorageAssumption DEF ColdStorageAssumption, Levels
<1>2. \A T \in U : IsFiniteSet(T)
  BY DEF TypeOK
<1>3. \A s \in Segments : s \in Levels \X UNION U
  <2> SUFFICES ASSUME NEW s \in Segments PROVE s \in Levels \X UNION U
    OBVIOUS
  <2>1. PICK l \in Levels : \E n \in DOMAIN index[l] : s = <<l, n>>
    BY SegmentIn
  <2>2. PICK n \in DOMAIN index[l] : s = <<l, n>>
    BY <2>1
  <2>3. DOMAIN index[l] \in U
    OBVIOUS
  <2>4. n \in UNION U
    BY <2>3
  <2> QED
    BY <2>2, <2>4
<1>4. f \in Surjection(Levels, U)
  BY DEF Surjection
<1> HIDE DEF f, U
<1>5. IsFiniteSet(U)
  BY <1>1, <1>4, FS_Surjection
<1>6. IsFiniteSet(UNION U)
  BY <1>2, <1>5, FS_UNION
<1> DEFINE P == Levels \X UNION U
<1>7. IsFiniteSet(P) /\ Segments \in SUBSET P
  BY <1>1, <1>3, <1>6, FS_Product
<1> HIDE DEF P
<1> QED
  BY <1>7, FS_Subset

(* Every solution finds what lookups find. *)
LEMMA ReadsFinds ==
    ASSUME TypeOK, NEW ks, NEW f, Reads(f, ks)
    PROVE  f[Segments].found = Got(ks, Segments)
<1> DEFINE Sound(S) == f[S] = [pending |-> Left(ks, S), found |-> Got(ks, S)]
           Bad == {S \in SUBSET Segments : ~Sound(S)}
<1>1. \A S \in SUBSET Segments : f[S] = Read(f, ks, S)
  BY Zenon DEF Reads
<1>2. Bad = {}
  <2> SUFFICES ASSUME Bad # {} PROVE FALSE
    OBVIOUS
  <2>1. Bad \in SUBSET SUBSET Segments /\ IsFiniteSet(Segments)
    BY SegmentsFinite
  <2>2. PICK S \in Bad : \A x \in S : S \ {x} \notin Bad
    <3> HIDE DEF Bad
    <3> QED
      BY <2>1, SmallestMember
  <2>3. S \in SUBSET Segments /\ ~Sound(S)
    OBVIOUS
  <2>4. S # {} => Sound(S \ {LastOf(S)})
    <3> SUFFICES ASSUME S # {} PROVE Sound(S \ {LastOf(S)})
      OBVIOUS
    <3>1. LastOf(S) \in S
      BY <2>3, LastIs
    <3>2. S \ {LastOf(S)} \notin Bad /\ S \ {LastOf(S)} \in SUBSET Segments
      BY <2>2, <2>3, <3>1
    <3> HIDE DEF Sound
    <3> QED
      BY <3>2
  <2>5. Read(f, ks, S) = [pending |-> Left(ks, S), found |-> Got(ks, S)]
    BY <2>3, <2>4, ReadIs
  <2> QED
    BY <1>1, <2>3, <2>5
<1>3. Sound(Segments)
  <2> HIDE DEF Sound
  <2> QED
    BY <1>2
<1> QED
  BY <1>3

(* The batch finds what the first file with a key has whole. *)
LEMMA BatchIs == ASSUME TypeOK, NEW ks PROVE BatchLookup(ks) = Got(ks, Segments)
<1>1. PICK f : Reads(f, ks) /\ f = CHOOSE g : Reads(g, ks)
  BY ReadsExists
<1>2. BatchLookup(ks) = (CHOOSE g : Reads(g, ks))[Segments].found
  BY Zenon DEF BatchLookup, Reads, Read, Hit
<1>3. f[Segments].found = Got(ks, Segments)
  BY <1>1, ReadsFinds
<1> QED
  BY <1>1, <1>2, <1>3, Zenon

(* And so does a lookup. *)
LEMMA BatchSafe == Inv => BatchAgrees
<1> SUFFICES ASSUME TypeOK PROVE BatchLookup(Keys) = {k \in Keys : Lookup(k)}
  BY DEF Inv, BatchAgrees
<1>1. \A k \in Keys : level0[k] # NoFile => (Lookup(k) <=> level0[k] = "whole")
  BY Zenon DEF Lookup
<1>2. ASSUME NEW k \in Keys, level0[k] = NoFile PROVE Lookup(k) <=> FirstWhole(Segments, k)
  <2> DEFINE H == {s \in Segments : Holds(index[s[1]][s[2]], k)}
  <2>1. Lookup(k) <=> \E s \in H : (\A r \in H : r = s \/ Before(s, r)) /\ Readable(s, k)
    BY <1>2, Zenon DEF Lookup
  <2>2. \A s : s \in H <=> s \in Segments /\ Hit(s, k)
    BY Zenon DEF Hit
  <2> HIDE DEF H
  <2> QED
    BY <2>1, <2>2, Zenon DEF FirstWhole
<1>3. NoFile # "whole"
  BY DEF NoFile
<1>4. ASSUME NEW k PROVE k \in Got(Keys, Segments) <=> k \in {x \in Keys : Lookup(x)}
  <2>1. k \in Got(Keys, Segments) <=>
           k \in Keys /\ (level0[k] = "whole" \/ (level0[k] = NoFile /\ FirstWhole(Segments, k)))
    BY Zenon DEF Got
  <2>2. CASE k \in Keys /\ level0[k] = NoFile
    <3>1. level0[k] # "whole"
      BY <1>3, <2>2, Zenon
    <3> QED
      BY <1>2, <2>1, <2>2, <3>1, Zenon
  <2>3. CASE k \in Keys /\ level0[k] # NoFile
    BY <1>1, <2>1, <2>3, Zenon
  <2>4. CASE k \notin Keys
    BY <2>1, <2>4, Zenon
  <2> QED
    BY <2>2, <2>3, <2>4
<1> QED
  BY <1>4, BatchIs, Zenon

(* A read of many keys and a lookup of each agree on every key, whatever   *)
(* collations, merges, crashes and errors left on disk: that a key stays   *)
(* pending through the files without it, and no longer, is the same as     *)
(* that the first file with it decides.                                    *)
THEOREM BatchesAgree == Spec => []BatchAgrees
<1> QED
  BY InitInv, NextInv, BatchSafe, PTL DEF Spec
=============================================================================
