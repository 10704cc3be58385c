---------------------------- MODULE Server_proofs ---------------------------
(***************************************************************************)
(* Whatever the handlers, sweeps, receivers, crashes and restarts of the   *)
(* server do, in any number and any order, they use the repository as its  *)
(* specification allows, and every variable keeps its type.                *)
(***************************************************************************)
EXTENDS Server, Store_proofs, SequenceTheorems

-----------------------------------------------------------------------------
(* What the operations on payload directories and segment files keep,      *)
(* whoever calls them.                                                     *)

\* LayoutTypeOK, and what it leaves open: the type of the inode tables, that a
\* directory refers to inodes that were made, and that a path in live either
\* exists or holds nothing.
FilesOK ==
    /\ LayoutTypeOK
    /\ file \in [Transfer -> [Segment -> Seq(Seq(BOOLEAN))]]
    /\ \A t \in Transfer, s \in Segment :
            /\ staging[t].seg[s] <= Len(file[t][s])
            /\ staging[t].pay[s] <= Len(file[t][s])
            /\ live[t].seg[s] <= Len(file[t][s])
            /\ live[t].pay[s] <= Len(file[t][s])
    /\ \A t \in Transfer : live[t].here \/ live[t] = Absent

\* The directory d refers to inodes of transfer t that were made.
Refers(t, d) ==
    /\ d \in Dir
    /\ \A s \in Segment : d.seg[s] <= Len(file[t][s]) /\ d.pay[s] <= Len(file[t][s])

-----------------------------------------------------------------------------
(* Values.                                                                 *)

\* The directories the operations make are directories.
LEMMA AbsentDir == Absent \in Dir /\ ~Absent.here /\ Prepared \in Dir /\ Prepared.here
  BY DEF Absent, Prepared, Dir, NoFile

\* A whole segment is a file of the declared length.
LEMMA WholeFile == Whole \in Seq(BOOLEAN) /\ Len(Whole) = SegLen
  BY SegLenAssumption DEF Whole

\* A change of one element keeps a sequence and its length; an index outside
\* changes nothing.
LEMMA SeqUpdate ==
  ASSUME NEW S, NEW f \in Seq(S), NEW i, NEW v \in S
  PROVE  /\ [f EXCEPT ![i] = v] \in Seq(S)
         /\ Len([f EXCEPT ![i] = v]) = Len(f)
         /\ \A j \in 1..Len(f) : [f EXCEPT ![i] = v][j] = IF j = i THEN v ELSE f[j]
<1>0. Len(f) \in Nat /\ DOMAIN f = 1..Len(f) /\ f \in [1..Len(f) -> S]
  BY LenProperties
<1>1. CASE i \in 1..Len(f)
  BY <1>1, ExceptSeq
<1>2. CASE i \notin 1..Len(f)
  <2>1. [f EXCEPT ![i] = v] = f
    BY <1>0, <1>2
  <2>. QED  BY <1>2, <2>1
<1>. QED  BY <1>1, <1>2

\* Truncation gives a file of the length asked for.
LEMMA AlignedFile ==
  ASSUME NEW f \in Seq(BOOLEAN), NEW n \in Nat
  PROVE  /\ Aligned(f, n) \in Seq(BOOLEAN) /\ Len(Aligned(f, n)) = n
         /\ \A b \in 1..n : Aligned(f, n)[b] = IF b <= Len(f) THEN f[b] ELSE FALSE
<1>0. Len(f) \in Nat /\ f \in [1..Len(f) -> BOOLEAN]
  BY LenProperties
<1>1. \A i \in 1..n : (IF i <= Len(f) THEN f[i] ELSE FALSE) \in BOOLEAN
  <2>1. \A i \in 1..n : i <= Len(f) => i \in 1..Len(f)
    BY <1>0
  <2>. QED  BY <1>0, <2>1, Zenon
<1>2. Aligned(f, n) \in [1..n -> BOOLEAN]
  BY <1>1 DEF Aligned
<1>3. Aligned(f, n) \in Seq(BOOLEAN) /\ Len(Aligned(f, n)) = n
  BY <1>2
<1>. QED  BY <1>3 DEF Aligned

\* The file after one byte was written at offset n.
Written(f, n) ==
    [j \in 1..(IF Len(f) > n THEN Len(f) ELSE n + 1) |->
        IF j = n + 1 THEN TRUE ELSE IF j <= Len(f) THEN f[j] ELSE FALSE]

\* A write inside the declared length keeps the file within it.
LEMMA WrittenFile ==
  ASSUME NEW f \in Seq(BOOLEAN), NEW n \in Nat
  PROVE  /\ Written(f, n) \in Seq(BOOLEAN)
         /\ Len(Written(f, n)) = IF Len(f) > n THEN Len(f) ELSE n + 1
         /\ \A b \in 1..Len(Written(f, n)) :
               Written(f, n)[b] = IF b = n + 1 THEN TRUE ELSE IF b <= Len(f) THEN f[b] ELSE FALSE
<1>. DEFINE m == IF Len(f) > n THEN Len(f) ELSE n + 1
<1>a. Len(f) \in Nat /\ f \in [1..Len(f) -> BOOLEAN]
  BY LenProperties
<1>0. m \in Nat
  BY <1>a
<1>1. \A j \in 1..m : (IF j = n + 1 THEN TRUE ELSE IF j <= Len(f) THEN f[j] ELSE FALSE) \in BOOLEAN
  <2>1. \A j \in 1..m : j <= Len(f) => j \in 1..Len(f)
    BY <1>a
  <2>. HIDE DEF m
  <2>. QED  BY <1>a, <2>1, Zenon
<1>. HIDE DEF m
<1>2. Written(f, n) \in [1..m -> BOOLEAN]
  BY <1>1 DEF Written, m
<1>3. Written(f, n) \in Seq(BOOLEAN) /\ Len(Written(f, n)) = m
  BY <1>0, <1>2
<1>. QED  BY <1>3 DEF Written, m

-----------------------------------------------------------------------------
(* Directories.                                                            *)

\* A directory that is not there refers to nothing.
LEMMA AbsentRefers ==
  ASSUME FilesOK, NEW t \in Transfer
  PROVE  /\ Refers(t, Absent) /\ Refers(t, Prepared)
         /\ Refers(t, staging[t]) /\ Refers(t, live[t])
<1>1. \A s \in Segment : Len(file[t][s]) \in Nat
  BY LenProperties DEF FilesOK
<1>2. Refers(t, Absent) /\ Refers(t, Prepared)
  BY <1>1, AbsentDir DEF Refers, Absent, Prepared, NoFile
<1>3. Refers(t, staging[t]) /\ Refers(t, live[t])
  BY DEF FilesOK, LayoutTypeOK, Refers
<1>. QED  BY <1>2, <1>3

\* A staging directory changes, the files being left alone.
LEMMA StagingStep ==
  ASSUME FilesOK, UNCHANGED <<file, live, trash>>, NEW t \in Transfer, NEW d, Refers(t, d),
         staging' = [staging EXCEPT ![t] = d]
  PROVE  FilesOK'
<1>1. d \in Dir /\ staging' \in [Transfer -> Dir]
  BY DEF Refers, FilesOK, LayoutTypeOK
<1>2. \A u \in Transfer : staging'[u] = IF u = t THEN d ELSE staging[u]
  BY DEF FilesOK, LayoutTypeOK
<1>. QED  BY <1>1, <1>2 DEF Refers, FilesOK, LayoutTypeOK

\* A rename between the trees, the files being left alone.
LEMMA TreeStep ==
  ASSUME FilesOK, UNCHANGED file, trash' \in [Transfer -> Dir],
         NEW t \in Transfer, NEW d, NEW e, Refers(t, d), Refers(t, e), e.here \/ e = Absent,
         staging' = [staging EXCEPT ![t] = d], live' = [live EXCEPT ![t] = e]
  PROVE  FilesOK'
<1>1. d \in Dir /\ staging' \in [Transfer -> Dir] /\ e \in Dir /\ live' \in [Transfer -> Dir]
  BY DEF Refers, FilesOK, LayoutTypeOK
<1>2. \A u \in Transfer : /\ staging'[u] = IF u = t THEN d ELSE staging[u]
                          /\ live'[u] = IF u = t THEN e ELSE live[u]
  BY DEF FilesOK, LayoutTypeOK
<1>. QED  BY <1>1, <1>2 DEF Refers, FilesOK, LayoutTypeOK

LEMMA EmptyTrashOK ==
  ASSUME FilesOK, EmptyTrash
  PROVE  FilesOK'
  BY AbsentDir DEF EmptyTrash, FilesOK, LayoutTypeOK

\* One lemma for every operation on directories.
LEMMA DirOps ==
  ASSUME FilesOK, NEW t \in Transfer,
         \/ PrepareStaging(t) \/ MkdirAll(t) \/ RemoveStaging(t) \/ WriteManifest(t)
         \/ PublishDir(t) \/ TrashLive(t) \/ TrashStaging(t) \/ EmptyTrash \/ RemoveSegdir(t)
  PROVE  FilesOK'
<1>. DEFINE d == staging[t]
            m == [d EXCEPT !.here = TRUE]
            w == [d EXCEPT !.manifest = TRUE]
            g == [d EXCEPT !.segdir = FALSE]
<1>0. /\ d \in Dir /\ live[t] \in Dir /\ staging \in [Transfer -> Dir]
      /\ live \in [Transfer -> Dir] /\ trash \in [Transfer -> Dir]
  BY DEF FilesOK, LayoutTypeOK
<1>1. Refers(t, Absent) /\ Refers(t, Prepared) /\ Refers(t, d)
  BY AbsentRefers
<1>2. Refers(t, m) /\ Refers(t, w) /\ Refers(t, g)
  <2>. HIDE DEF d
  <2>1. m \in Dir /\ w \in Dir /\ g \in Dir
    BY <1>0 DEF Dir
  <2>2. m.seg = d.seg /\ m.pay = d.pay /\ w.seg = d.seg /\ w.pay = d.pay /\ g.seg = d.seg /\ g.pay = d.pay
    BY <1>0 DEF Dir
  <2>. HIDE DEF m, w, g
  <2>. QED  BY <1>1, <2>1, <2>2 DEF Refers
<1>3. Refers(t, live[t]) /\ (live[t].here \/ live[t] = Absent)
  BY AbsentRefers DEF FilesOK
<1>4. CASE PrepareStaging(t)
  BY <1>1, <1>4, StagingStep DEF PrepareStaging
<1>5. CASE MkdirAll(t)
  <2>1. staging' = [staging EXCEPT ![t] = m]
    BY <1>5 DEF MkdirAll
  <2>. HIDE DEF m
  <2>. QED  BY <1>2, <1>5, <2>1, StagingStep DEF MkdirAll
<1>6. CASE RemoveStaging(t)
  BY <1>1, <1>6, StagingStep DEF RemoveStaging
<1>7. CASE WriteManifest(t)
  <2>1. staging' = [staging EXCEPT ![t] = w]
    BY <1>7 DEF WriteManifest
  <2>. HIDE DEF w
  <2>. QED  BY <1>2, <1>7, <2>1, StagingStep DEF WriteManifest
<1>8. CASE RemoveSegdir(t)
  <2>1. staging' = [staging EXCEPT ![t] = g]
    BY <1>8 DEF RemoveSegdir
  <2>. HIDE DEF g
  <2>. QED  BY <1>2, <1>8, <2>1, StagingStep DEF RemoveSegdir
<1>9. CASE PublishDir(t)
  <2>1. CASE live[t].here
    BY <1>9, <2>1 DEF PublishDir, FilesOK, LayoutTypeOK
  <2>2. CASE ~live[t].here
    <3>1. d.here /\ staging' = [staging EXCEPT ![t] = Absent] /\ live' = [live EXCEPT ![t] = d]
      BY <1>9, <2>2 DEF PublishDir, CanPublish
    <3>2. UNCHANGED <<trash, file>>
      BY <1>9 DEF PublishDir
    <3>. HIDE DEF d
    <3>. QED  BY <1>0, <1>1, <3>1, <3>2, TreeStep
  <2>. QED  BY <2>1, <2>2
<1>10. CASE TrashLive(t)
  <2>1. staging' = [staging EXCEPT ![t] = d] /\ live' = [live EXCEPT ![t] = Absent] /\ UNCHANGED file
    BY <1>0, <1>10 DEF TrashLive
  <2>2. trash' \in [Transfer -> Dir]
    BY <1>0, <1>10 DEF TrashLive
  <2>. HIDE DEF d
  <2>. QED  BY <1>1, <2>1, <2>2, TreeStep
<1>11. CASE TrashStaging(t)
  <2>1. staging' = [staging EXCEPT ![t] = Absent] /\ live' = [live EXCEPT ![t] = live[t]] /\ UNCHANGED file
    BY <1>0, <1>11 DEF TrashStaging
  <2>2. trash' \in [Transfer -> Dir]
    BY <1>0, <1>11 DEF TrashStaging
  <2>. QED  BY <1>1, <1>3, <2>1, <2>2, TreeStep
<1>12. CASE EmptyTrash
  BY <1>12, EmptyTrashOK
<1>. QED  BY <1>4, <1>5, <1>6, <1>7, <1>8, <1>9, <1>10, <1>11, <1>12

\* A staged segment that becomes a payload file.
LEMMA PlaceSegmentOK ==
  ASSUME FilesOK, NEW t \in Transfer, NEW s \in Segment, PlaceSegment(t, s)
  PROVE  FilesOK'
<1>. DEFINE d == staging[t]
            p == [d.pay EXCEPT ![s] = d.seg[s]]
            g == [d.seg EXCEPT ![s] = NoFile]
            e == [d EXCEPT !.pay = p, !.seg = g]
<1>1. d \in Dir
  BY DEF FilesOK, LayoutTypeOK
<1>2. p \in [Segment -> Nat] /\ g \in [Segment -> Nat]
  BY <1>1 DEF Dir, NoFile
<1>3. e \in Dir
  <2>. HIDE DEF d, p, g
  <2>. QED  BY <1>1, <1>2 DEF Dir
<1>4. staging' = [staging EXCEPT ![t] = e]
  BY <1>1 DEF PlaceSegment, FilesOK, LayoutTypeOK, Dir
<1>5. Refers(t, e)
  <2>1. Refers(t, d)
    BY AbsentRefers
  <2>2. \A v \in Segment : Len(file[t][v]) \in Nat
    BY LenProperties DEF FilesOK
  <2>3. e.pay = p /\ e.seg = g
    <3>. HIDE DEF d, p, g
    <3>. QED  BY <1>1 DEF Dir
  <2>4. \A v \in Segment : p[v] <= Len(file[t][v]) /\ g[v] <= Len(file[t][v])
    <3>1. \A v \in Segment : d.seg[v] <= Len(file[t][v]) /\ d.pay[v] <= Len(file[t][v])
      BY <2>1 DEF Refers
    <3>2. d.seg \in [Segment -> Nat] /\ d.pay \in [Segment -> Nat]
      BY <1>1 DEF Dir
    <3>. HIDE DEF d
    <3>. QED  BY <2>2, <3>1, <3>2 DEF NoFile
  <2>. HIDE DEF e, p, g, d
  <2>. QED  BY <1>3, <2>3, <2>4 DEF Refers
<1>. HIDE DEF e
<1>. QED  BY <1>4, <1>5, StagingStep DEF PlaceSegment

-----------------------------------------------------------------------------
(* Files.                                                                  *)

\* The table of one segment changes, and no inode goes away.
LEMMA FileLens ==
  ASSUME FilesOK, NEW t \in Transfer, NEW s \in Segment, NEW x \in Seq(Seq(BOOLEAN)),
         Len(file[t][s]) <= Len(x), file' = [file EXCEPT ![t][s] = x]
  PROVE  /\ file' \in [Transfer -> [Segment -> Seq(Seq(BOOLEAN))]]
         /\ \A u \in Transfer, v \in Segment :
               /\ file'[u][v] = IF u = t /\ v = s THEN x ELSE file[u][v]
               /\ Len(file[u][v]) \in Nat /\ Len(file'[u][v]) \in Nat
               /\ Len(file[u][v]) <= Len(file'[u][v])
               /\ staging[u].seg[v] <= Len(file'[u][v]) /\ staging[u].pay[v] <= Len(file'[u][v])
               /\ live[u].seg[v] <= Len(file'[u][v]) /\ live[u].pay[v] <= Len(file'[u][v])
<1>1. file' = [file EXCEPT ![t] = [file[t] EXCEPT ![s] = x]]
  OBVIOUS
<1>2. file' \in [Transfer -> [Segment -> Seq(Seq(BOOLEAN))]]
  BY <1>1 DEF FilesOK
<1>3. \A u \in Transfer, v \in Segment : file'[u][v] = IF u = t /\ v = s THEN x ELSE file[u][v]
  BY <1>1 DEF FilesOK
<1>4. \A u \in Transfer, v \in Segment :
        /\ Len(file[u][v]) \in Nat /\ Len(file'[u][v]) \in Nat
        /\ live[u].seg[v] \in Nat /\ live[u].pay[v] \in Nat
        /\ staging[u].seg[v] \in Nat /\ staging[u].pay[v] \in Nat
  BY <1>2, LenProperties DEF FilesOK, LayoutTypeOK, Dir
<1>5. \A u \in Transfer, v \in Segment : Len(file[u][v]) <= Len(file'[u][v])
  BY <1>3, <1>4
<1>6. \A u \in Transfer, v \in Segment :
        /\ staging[u].seg[v] <= Len(file'[u][v]) /\ staging[u].pay[v] <= Len(file'[u][v])
        /\ live[u].seg[v] <= Len(file'[u][v]) /\ live[u].pay[v] <= Len(file'[u][v])
  BY <1>4, <1>5 DEF FilesOK
<1>. QED  BY <1>2, <1>3, <1>4, <1>5, <1>6

\* The files stay within the declared length.
LEMMA FileStep ==
  ASSUME FilesOK, NEW t \in Transfer, NEW s \in Segment, NEW x \in Seq(Seq(BOOLEAN)),
         \A i \in 1..Len(x) : Len(x[i]) <= SegLen,
         Len(file[t][s]) <= Len(x),
         file' = [file EXCEPT ![t][s] = x], UNCHANGED <<live, trash>>,
         staging' \in [Transfer -> Dir],
         \A u \in Transfer, v \in Segment :
            /\ staging'[u].seg[v] <= Len(file'[u][v])
            /\ staging'[u].pay[v] <= Len(file'[u][v])
  PROVE  FilesOK'
<1>1. DOMAIN x = 1..Len(x) /\ \A i \in 1..Len(x) : x[i] \in Seq(BOOLEAN)
  BY LenProperties
<1>2. /\ file' \in [Transfer -> [Segment -> Seq(Seq(BOOLEAN))]]
      /\ \A u \in Transfer, v \in Segment :
            /\ file'[u][v] = IF u = t /\ v = s THEN x ELSE file[u][v]
            /\ live[u].seg[v] <= Len(file'[u][v]) /\ live[u].pay[v] <= Len(file'[u][v])
  BY FileLens
<1>. QED  BY <1>1, <1>2 DEF FilesOK, LayoutTypeOK

\* Another inode, which a directory may then refer to.
LEMMA NewFile ==
  ASSUME FilesOK, NEW t \in Transfer, NEW s \in Segment, NEW f \in Seq(BOOLEAN), Len(f) <= SegLen
  PROVE  /\ Append(file[t][s], f) \in Seq(Seq(BOOLEAN))
         /\ \A i \in 1..Len(Append(file[t][s], f)) : Len(Append(file[t][s], f)[i]) <= SegLen
         /\ Len(file[t][s]) + 1 \in Nat
<1>. DEFINE x == file[t][s]
            y == Append(x, f)
<1>1. x \in Seq(Seq(BOOLEAN)) /\ \A i \in 1..Len(x) : Len(x[i]) <= SegLen
  <2>1. x \in Seq(Seq(BOOLEAN))
    BY DEF FilesOK
  <2>2. DOMAIN x = 1..Len(x)
    BY <2>1, LenProperties
  <2>. QED  BY <2>1, <2>2 DEF FilesOK, LayoutTypeOK
<1>2. /\ y \in Seq(Seq(BOOLEAN)) /\ Len(y) = Len(x) + 1 /\ Len(x) \in Nat
      /\ \A i \in 1..Len(x) : y[i] = x[i]
      /\ y[Len(x) + 1] = f
  <2>. HIDE DEF x
  <2>1. Len(x) \in Nat
    BY <1>1, LenProperties
  <2>. QED  BY <1>1, <2>1, AppendProperties
<1>. HIDE DEF x, y
<1>3. \A i \in 1..Len(y) : Len(y[i]) <= SegLen
  <2>1. \A i \in 1..Len(y) : i \in 1..Len(x) \/ i = Len(x) + 1
    BY <1>2
  <2>. QED  BY <1>1, <1>2, <2>1, Zenon
<1>4. y \in Seq(Seq(BOOLEAN)) /\ (\A i \in 1..Len(y) : Len(y[i]) <= SegLen) /\ Len(x) + 1 \in Nat
  BY <1>2, <1>3
<1>. QED  BY <1>4, Zenon DEF x, y

\* One inode is overwritten.
LEMMA InodeStep ==
  ASSUME FilesOK, NEW t \in Transfer, NEW s \in Segment, NEW i, NEW f \in Seq(BOOLEAN), Len(f) <= SegLen,
         file' = [file EXCEPT ![t][s][i] = f], UNCHANGED <<staging, live, trash>>
  PROVE  FilesOK'
<1>. DEFINE x == file[t][s]
            y == [x EXCEPT ![i] = f]
<1>1. x \in Seq(Seq(BOOLEAN)) /\ \A k \in 1..Len(x) : Len(x[k]) <= SegLen
  <2>1. x \in Seq(Seq(BOOLEAN))
    BY DEF FilesOK
  <2>2. DOMAIN x = 1..Len(x)
    BY <2>1, LenProperties
  <2>. QED  BY <2>1, <2>2 DEF FilesOK, LayoutTypeOK
<1>2. y \in Seq(Seq(BOOLEAN)) /\ Len(y) = Len(x) /\ \A k \in 1..Len(x) : y[k] = IF k = i THEN f ELSE x[k]
  BY <1>1, SeqUpdate
<1>3. file' = [file EXCEPT ![t][s] = y]
  OBVIOUS
<1>. HIDE DEF x, y
<1>4. \A k \in 1..Len(y) : Len(y[k]) <= SegLen
  BY <1>1, <1>2
<1>5. Len(x) \in Nat
  BY <1>1, LenProperties
<1>6. Len(file[t][s]) <= Len(y)
  BY <1>2, <1>5 DEF x
<1>7. \A u \in Transfer, v \in Segment :
        /\ staging'[u].seg[v] <= Len(file'[u][v])
        /\ staging'[u].pay[v] <= Len(file'[u][v])
  BY <1>2, <1>3, <1>6, FileLens
<1>. QED  BY <1>2, <1>3, <1>4, <1>6, <1>7, FileStep DEF FilesOK, LayoutTypeOK

\* An inode number outside the table: a write goes nowhere.
LEMMA NoInodeStep ==
  ASSUME FilesOK, NEW t \in Transfer, NEW s \in Segment, NEW i, NEW f,
         i \notin 1..Len(file[t][s]),
         file' = [file EXCEPT ![t][s][i] = f], UNCHANGED <<staging, live, trash>>
  PROVE  UNCHANGED fileVars
<1>1. file[t] \in [Segment -> Seq(Seq(BOOLEAN))] /\ file[t][s] \in Seq(Seq(BOOLEAN))
  BY DEF FilesOK
<1>2. DOMAIN file[t][s] = 1..Len(file[t][s]) /\ file[t][s] \in [1..Len(file[t][s]) -> Seq(BOOLEAN)]
  BY <1>1, LenProperties
<1>3. [file[t][s] EXCEPT ![i] = f] = file[t][s]
  BY <1>2
<1>4. file' = [file EXCEPT ![t] = [file[t] EXCEPT ![s] = [file[t][s] EXCEPT ![i] = f]]]
  OBVIOUS
<1>5. [file[t] EXCEPT ![s] = file[t][s]] = file[t]
  BY <1>1
<1>6. file' = file
  BY <1>3, <1>4, <1>5 DEF FilesOK
<1>. QED  BY <1>6 DEF fileVars

\* Truncate and Write, inside the declared length.
LEMMA DescriptorOps ==
  ASSUME FilesOK, NEW t \in Transfer, NEW s \in Segment, NEW i, NEW n \in 0..SegLen,
         Truncate(t, s, i, n) \/ (n < SegLen /\ Write(t, s, i, n))
  PROVE  FilesOK'
<1>. DEFINE f == file[t][s][i]
<1>0. n \in Nat /\ SegLen \in Nat
  BY SegLenAssumption
<1>1. file[t][s] \in Seq(Seq(BOOLEAN))
  BY DEF FilesOK
<1>2. CASE i \notin 1..Len(file[t][s])
  <2>1. UNCHANGED fileVars
    BY <1>2, NoInodeStep DEF Truncate, Write
  <2>. QED  BY <2>1 DEF FilesOK, LayoutTypeOK, fileVars
<1>3. CASE i \in 1..Len(file[t][s])
  <2>1. f \in Seq(BOOLEAN)
    BY <1>1, <1>3, LenProperties
  <2>2. Len(f) \in Nat /\ Len(f) <= SegLen
    <3>1. DOMAIN file[t][s] = 1..Len(file[t][s])
      BY <1>1, LenProperties
    <3>. QED  BY <1>3, <2>1, <3>1, LenProperties DEF FilesOK, LayoutTypeOK
  <2>3. CASE Truncate(t, s, i, n)
    <3>1. file' = [file EXCEPT ![t][s][i] = Aligned(f, n)] /\ UNCHANGED <<staging, live, trash>>
      BY <2>3 DEF Truncate
    <3>. HIDE DEF f
    <3>2. Aligned(f, n) \in Seq(BOOLEAN) /\ Len(Aligned(f, n)) = n
      BY <1>0, <2>1, AlignedFile
    <3>3. Len(Aligned(f, n)) <= SegLen
      BY <1>0, <3>2
    <3>. QED  BY <3>1, <3>2, <3>3, InodeStep
  <2>4. CASE n < SegLen /\ Write(t, s, i, n)
    <3>1. file' = [file EXCEPT ![t][s][i] = Written(f, n)] /\ UNCHANGED <<staging, live, trash>>
      BY <2>4 DEF Write, Written
    <3>. HIDE DEF f
    <3>2. Written(f, n) \in Seq(BOOLEAN) /\ Len(Written(f, n)) = IF Len(f) > n THEN Len(f) ELSE n + 1
      BY <1>0, <2>1, WrittenFile
    <3>3. Len(Written(f, n)) <= SegLen
      BY <1>0, <2>2, <2>4, <3>2
    <3>. QED  BY <3>1, <3>2, <3>3, InodeStep
  <2>. QED  BY <2>3, <2>4
<1>. QED  BY <1>2, <1>3

\* A new inode, and a staging directory that refers to it.
LEMMA NewFileStep ==
  ASSUME FilesOK, NEW t \in Transfer, NEW s \in Segment, NEW f \in Seq(BOOLEAN), Len(f) <= SegLen,
         NEW d \in Dir, staging' = [staging EXCEPT ![t] = d], UNCHANGED <<live, trash>>,
         file' = [file EXCEPT ![t][s] = Append(file[t][s], f)],
         \A v \in Segment : d.seg[v] = staging[t].seg[v] \/ (v = s /\ d.seg[v] = Len(file[t][s]) + 1),
         \A v \in Segment : d.pay[v] = staging[t].pay[v] \/ (v = s /\ d.pay[v] = Len(file[t][s]) + 1)
  PROVE  FilesOK'
<1>1. PICK x : x = Append(file[t][s], f)
  OBVIOUS
<1>2. /\ x \in Seq(Seq(BOOLEAN)) /\ \A i \in 1..Len(x) : Len(x[i]) <= SegLen
      /\ Len(file[t][s]) \in Nat /\ Len(x) = Len(file[t][s]) + 1
  <2>1. file[t][s] \in Seq(Seq(BOOLEAN))
    BY DEF FilesOK
  <2>2. Len(file[t][s]) \in Nat
    BY <2>1, LenProperties
  <2>3. x \in Seq(Seq(BOOLEAN)) /\ \A i \in 1..Len(x) : Len(x[i]) <= SegLen
    BY <1>1, NewFile
  <2>4. PICK y \in Seq(Seq(BOOLEAN)) : y = file[t][s]
    BY <2>1
  <2>5. Len(Append(y, f)) = Len(y) + 1
    BY AppendProperties
  <2>. QED  BY <1>1, <2>2, <2>3, <2>4, <2>5
<1>3. Len(file[t][s]) <= Len(x) /\ file' = [file EXCEPT ![t][s] = x]
  BY <1>1, <1>2
<1>4. /\ \A u \in Transfer, v \in Segment : file'[u][v] = IF u = t /\ v = s THEN x ELSE file[u][v]
      /\ \A u \in Transfer, v \in Segment :
            staging[u].seg[v] <= Len(file'[u][v]) /\ staging[u].pay[v] <= Len(file'[u][v])
  <2>1. x \in Seq(Seq(BOOLEAN))
    BY <1>2
  <2>2. \A u \in Transfer, v \in Segment :
           /\ file'[u][v] = IF u = t /\ v = s THEN x ELSE file[u][v]
           /\ Len(file[u][v]) \in Nat /\ Len(file'[u][v]) \in Nat
           /\ Len(file[u][v]) <= Len(file'[u][v])
           /\ staging[u].seg[v] <= Len(file'[u][v]) /\ staging[u].pay[v] <= Len(file'[u][v])
           /\ live[u].seg[v] <= Len(file'[u][v]) /\ live[u].pay[v] <= Len(file'[u][v])
    BY <1>3, <2>1, FileLens, Zenon
  <2>. QED  BY <2>2, Zenon
<1>5. \A u \in Transfer : staging'[u] = IF u = t THEN d ELSE staging[u]
  BY DEF FilesOK, LayoutTypeOK
<1>6. staging' \in [Transfer -> Dir]
  BY DEF FilesOK, LayoutTypeOK
<1>7. \A u \in Transfer, v \in Segment :
        /\ staging'[u].seg[v] <= Len(file'[u][v])
        /\ staging'[u].pay[v] <= Len(file'[u][v])
  BY <1>2, <1>4, <1>5
<1>. QED  BY <1>2, <1>3, <1>6, <1>7, FileStep

\* A payload file is added, or a staged segment is opened.
LEMMA NewFileOps ==
  ASSUME FilesOK, NEW t \in Transfer, NEW s \in Segment, AddPayloadFile(t, s) \/ OpenSegment(t, s)
  PROVE  FilesOK'
<1>. DEFINE d == staging[t]
            n == Len(file[t][s]) + 1
            p == [d EXCEPT !.pay = [d.pay EXCEPT ![s] = n]]
            g == [d EXCEPT !.seg = [d.seg EXCEPT ![s] = n]]
<1>0. <<>> \in Seq(BOOLEAN) /\ Len(<<>>) <= SegLen /\ Whole \in Seq(BOOLEAN) /\ Len(Whole) <= SegLen
  BY SegLenAssumption, WholeFile
<1>1. d \in Dir /\ n \in Nat
  BY <1>0, NewFile DEF FilesOK, LayoutTypeOK
<1>2. [d.pay EXCEPT ![s] = n] \in [Segment -> Nat] /\ [d.seg EXCEPT ![s] = n] \in [Segment -> Nat]
  BY <1>1 DEF Dir
<1>3. /\ p \in Dir /\ g \in Dir
      /\ p.seg = d.seg /\ p.pay = [d.pay EXCEPT ![s] = n]
      /\ g.pay = d.pay /\ g.seg = [d.seg EXCEPT ![s] = n]
  <2>. HIDE DEF d, n
  <2>. QED  BY <1>1, <1>2 DEF Dir
<1>4. CASE AddPayloadFile(t, s)
  <2>1. staging' = [staging EXCEPT ![t] = p]
    BY <1>4 DEF AddPayloadFile
  <2>2. file' = [file EXCEPT ![t][s] = Append(file[t][s], Whole)] /\ UNCHANGED <<live, trash>>
    BY <1>4 DEF AddPayloadFile
  <2>3. /\ \A v \in Segment : p.seg[v] = d.seg[v] \/ (v = s /\ p.seg[v] = n)
        /\ \A v \in Segment : p.pay[v] = d.pay[v] \/ (v = s /\ p.pay[v] = n)
    <3>1. d.pay \in [Segment -> Nat]
      BY <1>1 DEF Dir
    <3>. HIDE DEF p, g, d, n
    <3>. QED  BY <1>3, <3>1
  <2>4. p \in Dir
    BY <1>3
  <2>. HIDE DEF p
  <2>. QED  BY <1>0, <2>1, <2>2, <2>3, <2>4, NewFileStep, Zenon
<1>5. CASE OpenSegment(t, s) /\ staging[t].seg[s] = NoFile
  <2>1. staging' = [staging EXCEPT ![t] = g]
    BY <1>5 DEF OpenSegment
  <2>2. file' = [file EXCEPT ![t][s] = Append(file[t][s], <<>>)] /\ UNCHANGED <<live, trash>>
    BY <1>5 DEF OpenSegment
  <2>3. /\ \A v \in Segment : g.seg[v] = d.seg[v] \/ (v = s /\ g.seg[v] = n)
        /\ \A v \in Segment : g.pay[v] = d.pay[v] \/ (v = s /\ g.pay[v] = n)
    <3>1. d.seg \in [Segment -> Nat]
      BY <1>1 DEF Dir
    <3>. HIDE DEF p, g, d, n
    <3>. QED  BY <1>3, <3>1
  <2>4. g \in Dir
    BY <1>3
  <2>. HIDE DEF g
  <2>. QED  BY <1>0, <2>1, <2>2, <2>3, <2>4, NewFileStep, Zenon
<1>6. CASE OpenSegment(t, s) /\ staging[t].seg[s] # NoFile
  BY <1>6 DEF OpenSegment, FilesOK, LayoutTypeOK
<1>. QED  BY <1>4, <1>5, <1>6

-----------------------------------------------------------------------------
(* The types of the server.                                                *)

\* A row has a lifetime some caller asked for.
RowTTL == \A t \in Transfer : Exists(t) => ttl[t] \in TTL

RequestTypes ==
    /\ DOMAIN pc = Request
    /\ gone \in [Request -> BOOLEAN]
    /\ want \in [Request -> Nat]
    /\ parts \in [Request -> SUBSET Segment]
    /\ result \in [Request -> Code \cup {NoCode}]
    /\ until \in [Request -> Nat]

\* A request that has begun to prepare a publication knows its lifetime.
RequestTTL ==
    /\ \A r \in SimpleReq \cup CreateReq : pc[r] # "idle" => want[r] \in TTL
    /\ \A r \in CommitReq : pc[r] \notin {"idle", "done"} => want[r] \in TTL

PatchTypes ==
    /\ off \in [PatchReq -> 0..SegLen]
    /\ pos \in [PatchReq -> 0..SegLen]
    /\ fd \in [PatchReq -> Nat]
    /\ first \in [PatchReq -> BOOLEAN]
    /\ acked \in [Transfer -> [Segment -> 0..SegLen]]

\* A sweep that is deleting has a transfer to delete, and works from a clock
\* reading of the past.
SweepTypes ==
    /\ DOMAIN jpc = Sweeper
    /\ jnow \in [Sweeper -> Nat]
    /\ \A j \in Sweeper : jnow[j] <= now
    /\ jlist \in [Sweeper -> SUBSET Transfer]
    /\ jid \in [Sweeper -> Transfer \cup {NoTransfer}]
    /\ \A j \in Sweeper :
            jpc[j] \in {"invalidate", "trashLive", "trashStaging", "purge"} => jid[j] \in Transfer

\* A receiver past its lookup has found a transfer.
ReceiverTypes ==
    /\ DOMAIN cpc = Receiver
    /\ found \in [Receiver -> Transfer \cup {NoTransfer}]
    /\ \A c \in Receiver : cpc[c] # "idle" => found[c] \in Transfer
    /\ fetches \in [Claim -> Nat]
    /\ served \in [Claim -> Served]
    /\ streamed \in [Download -> SUBSET (Segment \X BOOLEAN)]

ReconcileTypes ==
    /\ phase \in Phase /\ step \in Step /\ todo \subseteq Transfer
    /\ known \in [Transfer -> State \cup {NoRow}]
    /\ subject \in Transfer \cup {NoTransfer}

ServerTypes ==
    /\ StoreInv /\ RowTTL
    /\ FilesOK
    /\ now \in 0..MaxTime
    /\ RequestTypes /\ RequestTTL /\ PatchTypes
    /\ SweepTypes /\ ReceiverTypes /\ ReconcileTypes

-----------------------------------------------------------------------------
(* The repository, called by the server.                                   *)

StoreStep == [StoreNext]_storeVars

\* Whatever is called, the rows stay consistent.
LEMMA StoreStepKeeps ==
  ASSUME StoreInv, RowTTL, StoreStep
  PROVE  StoreInv' /\ RowTTL'
<1>1. StoreInv'
  BY StoreNextInv DEF StoreStep
<1>2. RowTTL'
  <2>. USE DEF StoreInv, StoreTypeOK, RowTTL, Exists
  <2>1. CASE \E u \in Transfer, at \in Time, minutes \in TTL : CreateTransfer(u, at, minutes)
    BY <2>1 DEF CreateTransfer
  <2>2. CASE \E u \in Transfer, new \in State :
               /\ state' = (IF Exists(u) THEN [state EXCEPT ![u] = new] ELSE state)
               /\ UNCHANGED ttl
    BY <2>2
  <2>3. CASE \E u \in Transfer, minutes \in TTL : SetNoteAndTTL(u, minutes)
    BY <2>3 DEF SetNoteAndTTL
  <2>4. CASE \E u \in Transfer, at \in Time, minutes \in TTL, c \in Code :
                Allocate(u, at, minutes, c)
    BY <2>4 DEF Allocate, PublishNew, PreCommit, NoRow
  <2>5. CASE \E u \in Transfer : Purge(u)
    BY <2>5 DEF Purge
  <2>6. CASE \E at \in Time : ExpireDue(at)
    BY <2>6 DEF ExpireDue, NoRow
  <2>7. CASE UNCHANGED <<state, ttl>>
    BY <2>7
  <2>8. SetStateTarget \subseteq State /\ "FAILED" \in State
    BY DEF SetStateTarget, State, PreCommit, Terminal
  <2>. QED
    BY <2>1, <2>2, <2>3, <2>4, <2>5, <2>6, <2>7, <2>8 DEF StoreStep, StoreNext, SetState, Fail,
       InsertSegment, SetSegmentProgress, CreateClaim, RenewClaim, CompleteClaim,
       transferVars, storeVars
<1>. QED  BY <1>1, <1>2

\* A call with arguments of the right types is a step of the repository.
LEMMA StoreCalls ==
  /\ \A t \in Transfer, at \in Time, minutes \in TTL : CreateTransfer(t, at, minutes) => StoreStep
  /\ \A t \in Transfer, new \in SetStateTarget : SetState(t, new) => StoreStep
  /\ \A t \in Transfer : (Fail(t) => StoreStep) /\ (Purge(t) => StoreStep)
  /\ \A t \in Transfer, minutes \in TTL : SetNoteAndTTL(t, minutes) => StoreStep
  /\ \A t \in Transfer, at \in Time, minutes \in TTL, c \in Code :
        Allocate(t, at, minutes, c) => StoreStep
  /\ \A t \in Transfer, s \in Segment : InsertSegment(t, s) => StoreStep
  /\ \A t \in Transfer, s \in Segment, offset \in 0..SegLen :
        SetSegmentProgress(t, s, offset) => StoreStep
  /\ \A at \in Time : ExpireDue(at) => StoreStep
  /\ \A t \in Transfer, c \in Claim, at \in Time :
        (CreateClaim(c, t, at) => StoreStep) /\ (RenewClaim(c, at) => StoreStep)
  /\ \A c \in Claim : CompleteClaim(c) => StoreStep
  /\ UNCHANGED storeVars => StoreStep
  BY Zenon DEF StoreStep, StoreNext

-----------------------------------------------------------------------------
(* Requests.                                                               *)

\* The request a step belongs to is the only one it moves.
LEMMA AdvanceTypes ==
  ASSUME RequestTypes, NEW r \in Request, NEW next, Advance(r, next)
  PROVE  DOMAIN pc' = Request /\ \A q \in Request : q # r => pc'[q] = pc[q]
  BY DEF RequestTypes, Advance

\* A request that knows its lifetime when it needs one.
Knows(r) ==
    /\ r \in SimpleReq \cup CreateReq => pc[r] # "idle"
    /\ r \in CommitReq => pc[r] \notin {"idle", "done"}

\* A step that only moves a request on.
LEMMA MoveTypes ==
  ASSUME RequestTypes, RequestTTL, NEW r \in Request, NEW next, Advance(r, next), Knows(r),
         UNCHANGED <<gone, want>>, parts' \in [Request -> SUBSET Segment],
         result' \in [Request -> Code \cup {NoCode}], until' \in [Request -> Nat]
  PROVE  RequestTypes' /\ RequestTTL'
<1>1. DOMAIN pc' = Request /\ \A q \in Request : q # r => pc'[q] = pc[q]
  BY AdvanceTypes
<1>2. RequestTypes'
  BY <1>1 DEF RequestTypes
<1>3. SimpleReq \cup CreateReq \cup CommitReq \subseteq Request
  BY DEF Request
<1>4. RequestTTL'
  BY <1>1, <1>3, Zenon DEF RequestTTL, Knows
<1>. QED  BY <1>2, <1>4

LEMMA ExitTypes ==
  ASSUME RequestTypes, RequestTTL, NEW r \in Request, ErrorExit(r), Knows(r),
         UNCHANGED <<gone, want, parts, result, until>>
  PROVE  RequestTypes' /\ RequestTTL'
<1>1. PICK next : Advance(r, next)
  BY DEF ErrorExit
<1>. QED  BY <1>1, MoveTypes DEF RequestTypes

\* publish, the part a simple upload and a commit share.
LEMMA PublishTypes ==
  ASSUME ServerTypes, NEW r \in SimpleReq \cup CommitReq, Publish(r)
  PROVE  StoreStep /\ FilesOK' /\ now' = now /\ RequestTypes' /\ RequestTTL'
<1>. DEFINE t == Target[r]
<1>0. /\ r \in Request /\ t \in Transfer /\ now \in Time
      /\ StoreInv /\ FilesOK /\ RequestTypes /\ RequestTTL
      /\ r \notin CreateReq /\ r \notin PatchReq
  BY RequestAssumption, ServiceAssumption DEF ServerTypes, Request
<1>1. ASSUME UNCHANGED <<gone, want, parts, result, until>>, NEW next, Advance(r, next), 
             pc[r] \notin {"idle", "done"}
      PROVE  RequestTypes' /\ RequestTTL'
  BY <1>0, <1>1, MoveTypes DEF RequestTypes, Knows
<1>2. ASSUME UNCHANGED <<gone, want, parts, result, until>>, ErrorExit(r), pc[r] \notin {"idle", "done"}
      PROVE  RequestTypes' /\ RequestTTL'
  BY <1>0, <1>2, ExitTypes DEF Knows
<1>. HIDE DEF t
<1>3. UNCHANGED fileVars => FilesOK'
  BY <1>0 DEF FilesOK, LayoutTypeOK, fileVars
<1>4. CASE MarkVerifying(r)
  <2>1. SetState(t, "VERIFYING") => StoreStep
    BY <1>0, StoreCalls DEF SetStateTarget
  <2>. QED  BY <1>1, <1>2, <1>3, <1>4, <2>1, StoreCalls DEF MarkVerifying, Record, t
<1>5. CASE RecordNoteAndTTL(r)
  <2>1. want[r] \in TTL
    BY <1>0, <1>5 DEF RecordNoteAndTTL, RequestTTL
  <2>2. SetNoteAndTTL(t, want[r]) => StoreStep
    BY <1>0, <2>1, StoreCalls
  <2>. QED  BY <1>1, <1>2, <1>3, <1>5, <2>2, StoreCalls DEF RecordNoteAndTTL, Record, t
<1>6. CASE StoreManifest(r)
  <2>1. WriteManifest(t) => FilesOK'
    BY <1>0, DirOps
  <2>. QED  BY <1>1, <1>2, <1>3, <1>6, <2>1, StoreCalls DEF StoreManifest, t
<1>7. CASE RenameToLive(r)
  <2>1. PublishDir(t) => FilesOK'
    BY <1>0, DirOps
  <2>. QED  BY <1>1, <1>2, <1>3, <1>7, <2>1, StoreCalls DEF RenameToLive, t
<1>8. CASE AllocateCode(r)
  <2>1. want[r] \in TTL /\ want[r] \in Nat
    BY <1>0, <1>8, StoreAssumption DEF AllocateCode, RequestTTL
  <2>2. FilesOK' /\ now' = now
    BY <1>3, <1>8 DEF AllocateCode
  <2>3. ASSUME NEW c \in Code \cup {NoCode}, NEW at \in Nat, Answer(r, c, at)
        PROVE  RequestTypes' /\ RequestTTL'
    BY <1>0, <1>8, <2>3 DEF AllocateCode, Answer, Advance, RequestTypes, RequestTTL, Request
  <2>4. ASSUME NEW c \in Code, Allocate(t, now, want[r], c), Answer(r, c, now + want[r])
        PROVE  StoreStep /\ RequestTypes' /\ RequestTTL'
    <3>1. now + want[r] \in Nat
      BY <1>0, <2>1, StoreAssumption
    <3>2. StoreStep
      BY <1>0, <2>1, <2>4, StoreCalls
    <3>. QED  BY <2>3, <2>4, <3>1, <3>2
  <2>5. ASSUME Answer(r, code[t], expires[t]), UNCHANGED storeVars
        PROVE  StoreStep /\ RequestTypes' /\ RequestTTL'
    <3>1. code[t] \in Code \cup {NoCode} /\ expires[t] \in Nat
      BY <1>0 DEF StoreInv, StoreTypeOK
    <3>. QED  BY <2>3, <2>5, <3>1, StoreCalls
  <2>6. ASSUME ErrorExit(r), UNCHANGED <<result, until, storeVars, cached>>
        PROVE  StoreStep /\ RequestTypes' /\ RequestTTL'
    BY <1>2, <1>8, <2>6, StoreCalls DEF AllocateCode
  <2>. QED  BY <1>8, <2>2, <2>4, <2>5, <2>6 DEF AllocateCode, t
<1>. QED  BY <1>4, <1>5, <1>6, <1>7, <1>8 DEF Publish

\* The abort of an upload session, and the undoing of a creation.
LEMMA AbortTypes ==
  ASSUME ServerTypes, NEW r \in SimpleReq \cup CreateReq, Abort(r)
  PROVE  StoreStep /\ FilesOK' /\ now' = now /\ RequestTypes' /\ RequestTTL'
<1>0. /\ r \in Request /\ Target[r] \in Transfer
      /\ StoreInv /\ FilesOK /\ RequestTypes /\ RequestTTL
      /\ r \notin CommitReq
  BY RequestAssumption DEF ServerTypes, Request
<1>1. RequestTypes' /\ RequestTTL' /\ now' = now
  BY <1>0 DEF Abort, AbortStaging, AbortPurge, RequestTypes, RequestTTL, Advance, Request
<1>2. CASE AbortStaging(r)
  <2>1. FilesOK'
    BY <1>0, <1>2, DirOps DEF AbortStaging
  <2>. QED  BY <1>1, <1>2, <2>1, StoreCalls DEF AbortStaging
<1>3. CASE AbortPurge(r)
  <2>1. FilesOK'
    BY <1>0, <1>3 DEF AbortPurge, FilesOK, LayoutTypeOK, fileVars
  <2>. QED  BY <1>0, <1>1, <1>3, <2>1, StoreCalls DEF AbortPurge
<1>. QED  BY <1>2, <1>3 DEF Abort

\* Simple uploads and creations: the steps before the publication.
LEMMA SimpleTypes ==
  ASSUME ServerTypes, NEW r \in SimpleReq, SimpleStep(r)
  PROVE  StoreStep /\ FilesOK' /\ now' = now /\ RequestTypes' /\ RequestTTL'
<1>. DEFINE t == Target[r]
<1>0. /\ r \in Request /\ t \in Transfer /\ now \in Time
      /\ StoreInv /\ FilesOK /\ RequestTypes /\ RequestTTL
      /\ r \notin CommitReq
  BY RequestAssumption, ServiceAssumption DEF ServerTypes, Request
<1>. HIDE DEF t
<1>1. UNCHANGED fileVars => FilesOK'
  BY <1>0 DEF FilesOK, LayoutTypeOK, fileVars
<1>2. CASE BeginSimple(r)
  <2>1. FilesOK' /\ StoreStep
    BY <1>0, <1>2, DirOps, StoreCalls DEF BeginSimple, t
  <2>. QED
    BY <1>0, <1>2, <2>1, StoreAssumption
    DEF BeginSimple, RequestTypes, RequestTTL, Advance, Request
<1>3. CASE CreateSimple(r)
  <2>1. FilesOK' /\ StoreStep
    BY <1>0, <1>1, <1>3, DirOps, StoreCalls, ServiceAssumption DEF CreateSimple, t
  <2>. QED
    BY <1>0, <1>3, <2>1 DEF CreateSimple, RequestTypes, RequestTTL, Advance, Request
<1>4. CASE \E s \in Segment : AddFile(r, s)
  <2>1. FilesOK' /\ StoreStep
    BY <1>0, <1>4, NewFileOps, StoreCalls DEF AddFile, t
  <2>. QED
    BY <1>0, <1>4, <2>1 DEF AddFile, RequestTypes, RequestTTL, Request
<1>5. CASE AddFileFails(r) \/ CommitSimple(r)
  <2>1. FilesOK' /\ StoreStep
    BY <1>1, <1>5, StoreCalls DEF AddFileFails, CommitSimple
  <2>. QED
    BY <1>0, <1>5, <2>1
    DEF AddFileFails, CommitSimple, ErrorExit, RequestTypes, RequestTTL, Advance, Request
<1>. QED  BY <1>2, <1>3, <1>4, <1>5, PublishTypes, AbortTypes DEF SimpleStep

LEMMA CreateTypes ==
  ASSUME ServerTypes, NEW r \in CreateReq, CreateStep(r)
  PROVE  StoreStep /\ FilesOK' /\ now' = now /\ RequestTypes' /\ RequestTTL'
<1>. DEFINE t == Target[r]
<1>0. /\ r \in Request /\ t \in Transfer /\ now \in Time
      /\ StoreInv /\ FilesOK /\ RequestTypes /\ RequestTTL
      /\ r \notin CommitReq
  BY RequestAssumption, ServiceAssumption DEF ServerTypes, Request
<1>. HIDE DEF t
<1>1. UNCHANGED fileVars => FilesOK'
  BY <1>0 DEF FilesOK, LayoutTypeOK, fileVars
<1>2. CASE CreateStaging(r)
  <2>1. FilesOK' /\ StoreStep
    BY <1>0, <1>2, DirOps, StoreCalls DEF CreateStaging, t
  <2>. QED
    BY <1>0, <1>2, <2>1, StoreAssumption
    DEF CreateStaging, RequestTypes, RequestTTL, Advance, Request
<1>3. CASE CreateRow(r)
  <2>0. want[r] \in TTL
    BY <1>0, <1>3 DEF CreateRow, RequestTTL
  <2>1. FilesOK' /\ StoreStep
    BY <1>0, <1>1, <1>3, <2>0, DirOps, StoreCalls DEF CreateRow, t
  <2>. QED
    BY <1>0, <1>3, <2>1 DEF CreateRow, RequestTypes, RequestTTL, Advance, Request
<1>4. CASE \E s \in Segment : CreateSegment(r, s)
  <2>1. FilesOK' /\ StoreStep
    BY <1>0, <1>1, <1>4, StoreCalls DEF CreateSegment, t
  <2>. QED
    BY <1>0, <1>4, <2>1
    DEF CreateSegment, ErrorExit, RequestTypes, RequestTTL, Advance, Request
<1>. QED  BY <1>2, <1>3, <1>4, AbortTypes DEF CreateStep

\* UploadPatch: it writes inside the declared length, whatever it finds.
LEMMA PatchStepTypes ==
  ASSUME ServerTypes, NEW r \in PatchReq, PatchStep(r)
  PROVE  StoreStep /\ FilesOK' /\ now' = now /\ RequestTypes' /\ RequestTTL' /\ PatchTypes'
<1>. DEFINE t == Target[r]
            s == PatchSegment[r]
<1>0. /\ r \in Request /\ t \in Transfer /\ s \in Segment
      /\ StoreInv /\ FilesOK /\ RequestTypes /\ RequestTTL /\ PatchTypes
      /\ Knows(r) /\ SegLen \in Nat
  BY RequestAssumption, SegLenAssumption DEF ServerTypes, Request, Knows
<1>. HIDE DEF t, s
<1>1. UNCHANGED fileVars => FilesOK'
  BY <1>0 DEF FilesOK, LayoutTypeOK, fileVars
<1>2. ASSUME UNCHANGED <<gone, want, parts, result, until>>, NEW next, Advance(r, next)
      PROVE  RequestTypes' /\ RequestTTL'
  BY <1>0, <1>2, MoveTypes DEF RequestTypes
<1>3. CASE PatchReadSegment(r)
  <2>1. received[t][s] \in 0..SegLen
    BY <1>0 DEF StoreInv, StoreTypeOK
  <2>2. PatchTypes'
    BY <1>0, <1>3, <2>1 DEF PatchReadSegment, PatchTypes, t, s
  <2>. QED  BY <1>1, <1>2, <1>3, <2>2, StoreCalls DEF PatchReadSegment
<1>4. CASE PatchReadTransfer(r)
  <2>1. (state[t] = "CREATED") \in BOOLEAN
    OBVIOUS
  <2>2. first' \in [PatchReq -> BOOLEAN]
    BY <1>0, <1>4, <2>1, Zenon DEF PatchReadTransfer, PatchTypes, t
  <2>3. PatchTypes'
    BY <1>0, <1>4, <2>2 DEF PatchReadTransfer, PatchTypes
  <2>. QED  BY <1>1, <1>2, <1>4, <2>3, StoreCalls DEF PatchReadTransfer
<1>5. CASE PatchOpen(r)
  <2>1. FilesOK'
    BY <1>0, <1>1, <1>5, NewFileOps DEF PatchOpen, t, s
  <2>2. staging'[t].seg[s] \in Nat
    BY <1>0, <2>1 DEF FilesOK, LayoutTypeOK, Dir
  <2>3. PatchTypes'
    BY <1>0, <1>5, <2>2 DEF PatchOpen, PatchTypes, t, s
  <2>. QED  BY <1>2, <1>5, <2>1, <2>3, StoreCalls DEF PatchOpen
<1>6. CASE PatchTruncate(r)
  <2>1. FilesOK'
    <3>1. off[r] \in 0..SegLen
      BY <1>0 DEF PatchTypes
    <3>. QED  BY <1>0, <1>6, <3>1, DescriptorOps DEF PatchTruncate, t, s
  <2>2. PatchTypes'
    BY <1>0, <1>6 DEF PatchTruncate, PatchTypes, patchVars
  <2>. QED  BY <1>2, <1>6, <2>1, <2>2, StoreCalls DEF PatchTruncate
<1>7. CASE PatchMark(r)
  <2>1. StoreStep
    BY <1>0, <1>7, StoreCalls DEF PatchMark, SetStateTarget, t
  <2>2. PatchTypes'
    BY <1>0, <1>7 DEF PatchMark, PatchTypes, patchVars
  <2>. QED  BY <1>1, <1>2, <1>7, <2>1, <2>2 DEF PatchMark
<1>8. CASE PatchWrite(r)
  <2>1. pos[r] \in 0..SegLen /\ pos[r] < SegLen
    BY <1>0, <1>8 DEF PatchTypes, PatchWrite
  <2>2. FilesOK'
    BY <1>0, <1>8, <2>1, DescriptorOps DEF PatchWrite, t, s
  <2>3. pos[r] + 1 \in 0..SegLen
    BY <1>0, <2>1
  <2>4. PatchTypes'
    BY <1>0, <1>8, <2>3 DEF PatchWrite, PatchTypes
  <2>5. RequestTypes' /\ RequestTTL'
    BY <1>0, <1>8 DEF PatchWrite, requestVars, RequestTypes, RequestTTL
  <2>. QED  BY <1>8, <2>2, <2>4, <2>5, StoreCalls DEF PatchWrite
<1>9. CASE PatchStop(r)
  <2>1. PatchTypes'
    BY <1>0, <1>9 DEF PatchStop, PatchTypes, patchVars
  <2>. QED  BY <1>1, <1>2, <1>9, <2>1, StoreCalls DEF PatchStop
<1>10. CASE PatchFinish(r)
  <2>1. pos[r] \in 0..SegLen
    BY <1>0 DEF PatchTypes
  <2>2. StoreStep
    BY <1>0, <1>10, <2>1, StoreCalls DEF PatchFinish, t, s
  <2>3. acked' \in [Transfer -> [Segment -> 0..SegLen]]
    <3>1. PICK a : a = IF acked[t][s] > pos[r] THEN acked[t][s] ELSE pos[r]
      OBVIOUS
    <3>2. a \in 0..SegLen
      BY <1>0, <2>1, <3>1 DEF PatchTypes
    <3>3. acked' = acked \/ acked' = [acked EXCEPT ![t] = [acked[t] EXCEPT ![s] = a]]
      BY <1>10, <3>1 DEF PatchFinish, t, s
    <3>. QED  BY <1>0, <3>2, <3>3 DEF PatchTypes
  <2>4. PatchTypes'
    BY <1>0, <1>10, <2>3 DEF PatchFinish, PatchTypes
  <2>. QED  BY <1>1, <1>2, <1>10, <2>2, <2>4 DEF PatchFinish
<1>. QED
  BY <1>3, <1>4, <1>5, <1>6, <1>7, <1>8, <1>9, <1>10 DEF PatchStep

\* Service.Commit and the materialization.
LEMMA CommitTypes ==
  ASSUME ServerTypes, NEW r \in CommitReq, CommitStep(r)
  PROVE  StoreStep /\ FilesOK' /\ now' = now /\ RequestTypes' /\ RequestTTL'
<1>. DEFINE t == Target[r]
<1>0. /\ r \in Request /\ t \in Transfer
      /\ StoreInv /\ RowTTL /\ FilesOK /\ RequestTypes /\ RequestTTL
      /\ r \notin SimpleReq /\ r \notin CreateReq
  BY RequestAssumption DEF ServerTypes, Request
<1>. HIDE DEF t
<1>1. UNCHANGED fileVars => FilesOK'
  BY <1>0 DEF FilesOK, LayoutTypeOK, fileVars
<1>2. ASSUME UNCHANGED <<gone, want, result, until>>, parts' \in [Request -> SUBSET Segment],
             NEW next, Advance(r, next), pc[r] \notin {"idle", "done"}
      PROVE  RequestTypes' /\ RequestTTL'
  BY <1>0, <1>2, MoveTypes DEF RequestTypes, Knows
<1>3. parts \in [Request -> SUBSET Segment]
  BY <1>0 DEF RequestTypes
<1>4. CASE CommitRead(r)
  <2>1. StoreStep /\ FilesOK' /\ now' = now
    BY <1>1, <1>4, StoreCalls DEF CommitRead
  <2>2. \A q \in Request : q # r => pc'[q] = pc[q] /\ want'[q] = want[q]
    BY <1>0, <1>4 DEF CommitRead, Advance, Answer, RequestTypes
  <2>3. DOMAIN pc' = Request /\ UNCHANGED <<gone, parts>>
    BY <1>0, <1>4 DEF CommitRead, Advance, Answer, RequestTypes
  <2>4. /\ result' \in [Request -> Code \cup {NoCode}] /\ until' \in [Request -> Nat]
        /\ want' \in [Request -> Nat]
    <3>1. code[t] \in Code \cup {NoCode} /\ expires[t] \in Nat /\ ttl[t] \in Nat
      BY <1>0 DEF StoreInv, StoreTypeOK
    <3>. QED  BY <1>0, <1>4, <3>1 DEF CommitRead, Advance, Answer, RequestTypes, t
  <2>5. pc'[r] = "done" \/ want'[r] \in TTL
    <3>1. state[t] \in PreCommit => ttl[t] \in TTL
      BY <1>0 DEF RowTTL, Exists, PreCommit, NoRow
    <3>. QED  BY <1>0, <1>4, <3>1 DEF CommitRead, Advance, Answer, RequestTypes, t
  <2>6. RequestTypes'
    BY <1>0, <2>3, <2>4 DEF RequestTypes
  <2>7. SimpleReq \cup CreateReq \cup CommitReq \subseteq Request
    BY DEF Request
  <2>8. RequestTTL'
    BY <1>0, <2>2, <2>5, <2>7 DEF RequestTTL
  <2>. QED  BY <2>1, <2>6, <2>8
<1>5. CASE CommitList(r)
  <2>1. parts' \in [Request -> SUBSET Segment]
    BY <1>0, <1>3, <1>5 DEF CommitList
  <2>. QED  BY <1>1, <1>2, <1>5, <2>1, StoreCalls DEF CommitList
<1>6. CASE CommitMkdir(r)
  <2>1. FilesOK'
    BY <1>0, <1>6, DirOps DEF CommitMkdir, t
  <2>. QED  BY <1>2, <1>3, <1>6, <2>1, StoreCalls DEF CommitMkdir
<1>7. CASE CommitVerify(r)
  BY <1>1, <1>2, <1>3, <1>7, StoreCalls DEF CommitVerify
<1>8. CASE CommitMark(r)
  <2>1. parts' \in [Request -> SUBSET Segment]
    BY <1>0, <1>3, <1>8 DEF CommitMark
  <2>2. StoreStep
    BY <1>0, <1>8, StoreCalls DEF CommitMark, Record, SetStateTarget, t
  <2>. QED  BY <1>1, <1>2, <1>8, <2>1, <2>2 DEF CommitMark, Record, ErrorExit
<1>9. CASE MaterializeMkdir(r)
  <2>1. FilesOK'
    BY <1>0, <1>9, DirOps DEF MaterializeMkdir, t
  <2>. QED  BY <1>2, <1>3, <1>9, <2>1, StoreCalls DEF MaterializeMkdir
<1>10. ASSUME NEW s \in Segment, Place(r, s)
       PROVE  StoreStep /\ FilesOK' /\ now' = now /\ RequestTypes' /\ RequestTTL'
  <2>1. parts' \in [Request -> SUBSET Segment]
    BY <1>0, <1>3, <1>10 DEF Place
  <2>2. FilesOK'
    BY <1>0, <1>1, <1>10, PlaceSegmentOK DEF Place, t
  <2>3. CASE UNCHANGED pc
    BY <1>0, <1>10, <2>1, <2>2, <2>3, StoreCalls DEF Place, RequestTypes, RequestTTL
  <2>4. CASE Advance(r, "fail")
    BY <1>2, <1>10, <2>1, <2>2, <2>4, StoreCalls DEF Place
  <2>. QED  BY <1>10, <2>3, <2>4 DEF Place
<1>11. CASE MaterializeFinish(r)
  <2>1. FilesOK'
    BY <1>0, <1>1, <1>11, DirOps DEF MaterializeFinish, t
  <2>. QED  BY <1>2, <1>3, <1>11, <2>1, StoreCalls DEF MaterializeFinish
<1>12. CASE CommitFail(r)
  <2>1. StoreStep
    BY <1>0, <1>12, StoreCalls DEF CommitFail, t
  <2>. QED  BY <1>1, <1>2, <1>3, <1>12, <2>1 DEF CommitFail
<1>13. CASE Publish(r)
  BY <1>13, PublishTypes
<1>. QED
  BY <1>4, <1>5, <1>6, <1>7, <1>8, <1>9, <1>10, <1>11, <1>12, <1>13 DEF CommitStep

-----------------------------------------------------------------------------
(* Sweeps and receivers.                                                   *)

LEMMA SweepStepTypes ==
  ASSUME ServerTypes, NEW j \in Sweeper, SweepStep(j)
  PROVE  StoreStep /\ FilesOK' /\ now' = now /\ SweepTypes'
<1>0. /\ StoreInv /\ FilesOK /\ SweepTypes /\ now \in Nat /\ 0 <= now
      /\ jnow[j] \in Time
  <2>1. now \in 0..MaxTime /\ MaxTime \in Nat /\ 0..MaxTime \subseteq Time
    BY ServiceAssumption DEF ServerTypes
  <2>2. SweepTypes
    BY DEF ServerTypes
  <2>3. jnow[j] \in 0..MaxTime
    BY <2>1, <2>2 DEF SweepTypes
  <2>. QED  BY <2>1, <2>2, <2>3 DEF ServerTypes
<1>1. UNCHANGED fileVars => FilesOK'
  BY <1>0 DEF FilesOK, LayoutTypeOK, fileVars
<1>2. CASE SweepInvalidate(j)
  BY <1>0, <1>1, <1>2, StoreCalls DEF SweepInvalidate, JGoto, SweepTypes
<1>3. CASE SweepStart(j)
  BY <1>0, <1>1, <1>3, StoreCalls DEF SweepStart, JGoto, SweepTypes
<1>4. CASE SweepExpire(j)
  BY <1>0, <1>1, <1>4, StoreCalls DEF SweepExpire, JGoto, SweepTypes
<1>5. CASE SweepStale(j)
  <2>1. StaleStaging(jnow[j], StagingTTL) \in SUBSET Transfer
    BY DEF StaleStaging
  <2>. QED  BY <1>0, <1>1, <1>5, <2>1, StoreCalls DEF SweepStale, JGoto, SweepTypes
<1>6. CASE SweepUnpinned(j)
  <2>1. UnpinnedExpired(jnow[j]) \in SUBSET Transfer
    BY DEF UnpinnedExpired
  <2>. QED  BY <1>0, <1>1, <1>6, <2>1, StoreCalls DEF SweepUnpinned, JGoto, SweepTypes
<1>7. ASSUME NEW t \in Transfer, SweepAbandon(j, t)
      PROVE  StoreStep /\ FilesOK' /\ now' = now /\ SweepTypes'
  <2>1. StoreStep
    BY <1>7, StoreCalls DEF SweepAbandon, SetStateTarget
  <2>. QED  BY <1>0, <1>1, <1>7, <2>1 DEF SweepAbandon, SweepTypes
<1>8. ASSUME NEW t \in Transfer, SweepDelete(j, t)
      PROVE  StoreStep /\ FilesOK' /\ now' = now /\ SweepTypes'
  <2>1. StoreStep
    BY <1>8, StoreCalls DEF SweepDelete, SetStateTarget
  <2>. QED  BY <1>0, <1>1, <1>8, <2>1 DEF SweepDelete, JGoto, SweepTypes
<1>9. CASE SweepTrashLive(j) \/ SweepTrashStaging(j)
  <2>1. jid[j] \in Transfer
    BY <1>0, <1>9 DEF SweepTrashLive, SweepTrashStaging, SweepTypes
  <2>2. FilesOK'
    BY <1>0, <1>9, <2>1, DirOps DEF SweepTrashLive, SweepTrashStaging
  <2>. QED
    BY <1>0, <1>9, <2>1, <2>2, StoreCalls DEF SweepTrashLive, SweepTrashStaging, JGoto, SweepTypes
<1>10. CASE SweepDeleteFails(j)
  BY <1>0, <1>1, <1>10, StoreCalls DEF SweepDeleteFails, JGoto, SweepTypes
<1>11. CASE SweepPurge(j)
  <2>1. jid[j] \in Transfer
    BY <1>0, <1>11 DEF SweepPurge, SweepTypes
  <2>2. StoreStep
    BY <1>11, <2>1, StoreCalls DEF SweepPurge
  <2>. QED  BY <1>0, <1>1, <1>11, <2>2 DEF SweepPurge, JGoto, SweepTypes
<1>12. CASE SweepEmptyTrash(j)
  <2>1. FilesOK'
    BY <1>0, <1>12, EmptyTrashOK DEF SweepEmptyTrash
  <2>. QED  BY <1>0, <1>12, <2>1, StoreCalls DEF SweepEmptyTrash, JGoto, SweepTypes
<1>. QED
  BY <1>2, <1>3, <1>4, <1>5, <1>6, <1>7, <1>8, <1>9, <1>10, <1>11, <1>12 DEF SweepStep

\* A receiver past its lookup moves on.
LEMMA ReceiverMove ==
  ASSUME ReceiverTypes, NEW c \in Receiver, NEW next, CGoto(c, next), found[c] \in Transfer,
         UNCHANGED found, fetches' \in [Claim -> Nat], served' \in [Claim -> Served],
         streamed' \in [Download -> SUBSET (Segment \X BOOLEAN)]
  PROVE  ReceiverTypes'
  BY DEF ReceiverTypes, CGoto

\* The steps that claims and downloads share: lookup and manifest.
LEMMA LookupTypes ==
  ASSUME ServerTypes, NEW c \in Receiver,
         \/ \E t \in Transfer : Lookup(c, t)
         \/ LookupExpire(c) \/ ManifestGet(c) \/ ManifestRead(c) \/ ManifestPut(c)
  PROVE  StoreStep /\ FilesOK' /\ now' = now /\ ReceiverTypes'
<1>0. StoreInv /\ FilesOK /\ ReceiverTypes
  BY DEF ServerTypes
<1>1. UNCHANGED fileVars => FilesOK'
  BY <1>0 DEF FilesOK, LayoutTypeOK, fileVars
<1>2. ASSUME NEW t \in Transfer, Lookup(c, t)
      PROVE  StoreStep /\ FilesOK' /\ now' = now /\ ReceiverTypes'
  <2>1. DOMAIN cpc' = Receiver /\ \A d \in Receiver : d # c => cpc'[d] = cpc[d]
    BY <1>0, <1>2 DEF Lookup, CGoto, ReceiverTypes
  <2>2. ReceiverTypes'
    BY <1>0, <1>2, <2>1 DEF Lookup, ReceiverTypes
  <2>. QED  BY <1>1, <1>2, <2>2, StoreCalls DEF Lookup
<1>3. CASE LookupExpire(c)
  <2>1. found[c] \in Transfer
    BY <1>0, <1>3 DEF LookupExpire, ReceiverTypes
  <2>2. StoreStep
    BY <1>3, <2>1, StoreCalls DEF LookupExpire, SetStateTarget
  <2>3. ReceiverTypes'
    BY <1>0, <1>3, <2>1, ReceiverMove DEF LookupExpire, ReceiverTypes
  <2>. QED  BY <1>1, <1>3, <2>2, <2>3 DEF LookupExpire
<1>4. CASE ManifestGet(c) \/ ManifestRead(c) \/ ManifestPut(c)
  <2>1. found[c] \in Transfer
    BY <1>0, <1>4 DEF ManifestGet, ManifestRead, ManifestPut, ReceiverTypes
  <2>2. PICK next : CGoto(c, next)
    BY <1>4 DEF ManifestGet, ManifestRead, ManifestPut
  <2>3. UNCHANGED <<found, fetches, served, streamed, storeVars, fileVars, now>>
    BY <1>4 DEF ManifestGet, ManifestRead, ManifestPut
  <2>4. ReceiverTypes'
    BY <1>0, <2>1, <2>2, <2>3, ReceiverMove DEF ReceiverTypes
  <2>. QED  BY <1>1, <2>3, <2>4, StoreCalls
<1>. QED  BY <1>2, <1>3, <1>4

LEMMA ClaimTypes ==
  ASSUME ServerTypes, NEW c \in Claim, ClaimStep(c)
  PROVE  StoreStep /\ FilesOK' /\ now' = now /\ ReceiverTypes'
<1>0. StoreInv /\ FilesOK /\ ReceiverTypes /\ c \in Receiver
  BY DEF ServerTypes, Receiver
<1>1. UNCHANGED fileVars => FilesOK'
  BY <1>0 DEF FilesOK, LayoutTypeOK, fileVars
<1>2. ASSUME cpc[c] # "idle", UNCHANGED <<found, streamed>>, NEW next, CGoto(c, next),
             fetches' \in [Claim -> Nat], served' \in [Claim -> Served]
      PROVE  ReceiverTypes'
  BY <1>0, <1>2, ReceiverMove DEF ReceiverTypes
<1>3. fetches \in [Claim -> Nat] /\ served \in [Claim -> Served]
  BY <1>0 DEF ReceiverTypes
<1>4. CASE StatPayload(c)
  BY <1>1, <1>2, <1>3, <1>4, StoreCalls DEF StatPayload
<1>5. CASE OpenClaim(c)
  <2>1. found[c] \in Transfer
    BY <1>0, <1>5 DEF OpenClaim, ReceiverTypes
  <2>2. StoreStep
    BY <1>5, <2>1, StoreCalls DEF OpenClaim
  <2>. QED  BY <1>1, <1>2, <1>3, <1>5, <2>2 DEF OpenClaim
<1>6. CASE Fetch(c)
  <2>1. fetches' \in [Claim -> Nat]
    BY <1>3, <1>6 DEF Fetch
  <2>. QED  BY <1>1, <1>2, <1>3, <1>6, <2>1, StoreCalls DEF Fetch
<1>7. ASSUME NEW s \in Segment, OpenFile(c, s)
      PROVE  StoreStep /\ FilesOK' /\ now' = now /\ ReceiverTypes'
  <2>1. served' \in [Claim -> Served]
    BY <1>3, <1>7 DEF OpenFile, Served
  <2>. QED  BY <1>1, <1>2, <1>3, <1>7, <2>1, StoreCalls DEF OpenFile
<1>8. CASE Renew(c)
  <2>1. found[c] \in Transfer
    BY <1>0, <1>8 DEF Renew, ReceiverTypes
  <2>2. StoreStep
    BY <1>8, <2>1, StoreCalls DEF Renew
  <2>. QED  BY <1>1, <1>2, <1>3, <1>8, <2>2 DEF Renew
<1>9. CASE Complete(c)
  <2>1. StoreStep
    BY <1>9, StoreCalls DEF Complete
  <2>. QED  BY <1>1, <1>2, <1>3, <1>9, <2>1 DEF Complete
<1>. QED
  BY <1>0, <1>4, <1>5, <1>6, <1>7, <1>8, <1>9, LookupTypes DEF ClaimStep

LEMMA DownloadTypes ==
  ASSUME ServerTypes, NEW d \in Download, DownloadStep(d)
  PROVE  StoreStep /\ FilesOK' /\ now' = now /\ ReceiverTypes'
<1>0. StoreInv /\ FilesOK /\ ReceiverTypes /\ d \in Receiver
  BY DEF ServerTypes, Receiver
<1>1. UNCHANGED fileVars => FilesOK'
  BY <1>0 DEF FilesOK, LayoutTypeOK, fileVars
<1>2. CASE StartStream(d) \/ CutStream(d) \/ EndStream(d)
  <2>1. cpc[d] # "idle" /\ UNCHANGED <<found, fetches, served, streamed, storeVars, fileVars, now>>
    BY <1>2 DEF StartStream, CutStream, EndStream
  <2>2. PICK next : CGoto(d, next)
    BY <1>2 DEF StartStream, CutStream, EndStream
  <2>3. ReceiverTypes'
    BY <1>0, <2>1, <2>2, ReceiverMove DEF ReceiverTypes
  <2>. QED  BY <1>1, <2>1, <2>3, StoreCalls
<1>3. ASSUME NEW s \in Segment, StreamEntry(d, s)
      PROVE  StoreStep /\ FilesOK' /\ now' = now /\ ReceiverTypes'
  <2>1. PICK w : w = (PayloadFile(found[d], live[found[d]], s) = Whole)
    OBVIOUS
  <2>2. w \in BOOLEAN
    BY <2>1
  <2>3. <<s, w>> \in Segment \X BOOLEAN
    BY <2>2
  <2>4. streamed' = [streamed EXCEPT ![d] = @ \cup {<<s, w>>}]
    BY <1>3, <2>1, Zenon DEF StreamEntry
  <2>5. streamed' \in [Download -> SUBSET (Segment \X BOOLEAN)]
    BY <1>0, <2>3, <2>4 DEF ReceiverTypes
  <2>. QED  BY <1>0, <1>1, <1>3, <2>5, StoreCalls DEF StreamEntry, ReceiverTypes
<1>. QED  BY <1>0, <1>2, <1>3, LookupTypes DEF DownloadStep

-----------------------------------------------------------------------------
(* Reconciliation, the clock and crashes.                                  *)

LEMMA ReconcileStepTypes ==
  ASSUME ServerTypes, ReconcileStep
  PROVE  StoreStep /\ FilesOK' /\ now' = now /\ ReconcileTypes'
<1>0. StoreInv /\ RowTTL /\ FilesOK /\ ReconcileTypes /\ now \in Time
  BY ServiceAssumption DEF ServerTypes
<1>1. UNCHANGED fileVars => FilesOK'
  BY <1>0 DEF FilesOK, LayoutTypeOK, fileVars
<1>. USE DEF ReconcileTypes, Phase, Step
<1>2. CASE Begin
  BY <1>0, <1>1, <1>2, StoreCalls DEF Begin, AllTransferIDs, StoreInv, StoreTypeOK
<1>3. CASE ListLive \/ ListStaging \/ ToTrashLoop
  BY <1>0, <1>1, <1>3, StoreCalls
  DEF ListLive, ListStaging, ToTrashLoop, NextLoop, ListLiveIDs, ListStagingIDs
<1>4. CASE Finish
  <2>1. FilesOK'
    BY <1>0, <1>4, EmptyTrashOK DEF Finish
  <2>. QED  BY <1>0, <1>4, <2>1, StoreCalls DEF Finish
<1>5. ASSUME NEW t \in Transfer, Visit(t)
      PROVE  StoreStep /\ FilesOK' /\ now' = now /\ ReconcileTypes'
  <2>1. Decision(t) \in Step
    BY DEF Decision, DecideCommitted, DecidePreCommit
  <2>. QED  BY <1>0, <1>1, <1>5, <2>1, StoreCalls DEF Visit, Visited, Goto
<1>6. ASSUME NEW t \in Transfer, CompleteInterruptedPublish(t)
      PROVE  StoreStep /\ FilesOK' /\ now' = now /\ ReconcileTypes'
  <2>1. PublishNew(t) => ttl[t] \in TTL
    BY <1>0 DEF PublishNew, RowTTL, Exists, PreCommit, NoRow
  <2>2. StoreStep
    BY <1>0, <1>6, <2>1, StoreCalls DEF CompleteInterruptedPublish, Allocate
  <2>. QED  BY <1>0, <1>1, <1>6, <2>2 DEF CompleteInterruptedPublish, Visited
<1>7. ASSUME NEW t \in Transfer, FailRow(t) \/ PurgeRow(t)
      PROVE  StoreStep /\ FilesOK' /\ now' = now /\ ReconcileTypes'
  <2>1. StoreStep
    BY <1>7, StoreCalls DEF FailRow, PurgeRow
  <2>. QED  BY <1>0, <1>1, <1>7, <2>1 DEF FailRow, PurgeRow, Visited, Goto
<1>8. ASSUME NEW t \in Transfer, DiscardLive(t) \/ DiscardStaging(t) \/ RemoveOrphan(t)
      PROVE  StoreStep /\ FilesOK' /\ now' = now /\ ReconcileTypes'
  <2>1. FilesOK'
    BY <1>0, <1>8, DirOps DEF DiscardLive, DiscardStaging, RemoveOrphan
  <2>. QED  BY <1>0, <1>8, <2>1, StoreCalls DEF DiscardLive, DiscardStaging, RemoveOrphan, Visited, Goto
<1>9. ASSUME NEW t \in Transfer, TrashOrphan(t)
      PROVE  StoreStep /\ FilesOK' /\ now' = now /\ ReconcileTypes'
  BY <1>0, <1>1, <1>9, StoreCalls DEF TrashOrphan, Goto
<1>. QED
  BY <1>2, <1>3, <1>4, <1>5, <1>6, <1>7, <1>8, <1>9 DEF ReconcileStep

-----------------------------------------------------------------------------
(* The server.                                                             *)

LEMMA ServerInitTypes == ServerInit => ServerTypes
<1>. SUFFICES ASSUME ServerInit PROVE ServerTypes
  OBVIOUS
<1>0. SegLen \in Nat /\ 0 \in 0..SegLen /\ 0 \in 0..MaxTime
  BY SegLenAssumption, ServiceAssumption
<1>1. StoreInv /\ RowTTL
  BY StoreInitInv DEF ServerInit, StoreInit, RowTTL, Exists
<1>2. FilesOK
  <2>1. file \in [Transfer -> [Segment -> Seq(Seq(BOOLEAN))]]
    BY DEF ServerInit, LayoutInit
  <2>2. \A t \in Transfer, s \in Segment : DOMAIN file[t][s] = {}
    BY DEF ServerInit, LayoutInit
  <2>3. \A t \in Transfer : staging[t] = Absent /\ live[t] = Absent
    BY DEF ServerInit, LayoutInit
  <2>4. \A t \in Transfer, s \in Segment : Len(file[t][s]) = 0
    BY DEF ServerInit, LayoutInit
  <2>5. \A s \in Segment : Absent.seg[s] = 0 /\ Absent.pay[s] = 0
    BY DEF Absent, NoFile
  <2>6. LayoutTypeOK
    BY <2>2, AbsentDir DEF ServerInit, LayoutInit, LayoutTypeOK
  <2>. QED  BY <2>1, <2>3, <2>4, <2>5, <2>6 DEF FilesOK
<1>3. RequestTypes /\ RequestTTL
  BY DEF ServerInit, RequestInit, RequestTypes, RequestTTL, Request
<1>4. PatchTypes
  BY <1>0 DEF ServerInit, PatchInit, PatchTypes, NoFile
<1>5. SweepTypes
  BY DEF ServerInit, JanitorInit, SweepTypes
<1>6. ReceiverTypes
  BY DEF ServerInit, ClaimsInit, ReceiverTypes, Served
<1>7. ReconcileTypes
  BY DEF ServerInit, ReconcileTypes, Phase, Step
<1>8. now \in 0..MaxTime
  BY <1>0 DEF ServerInit
<1>. QED  BY <1>1, <1>2, <1>3, <1>4, <1>5, <1>6, <1>7, <1>8 DEF ServerTypes

\* What a component leaves alone keeps its type.
LEMMA TypeFrames ==
  ASSUME ServerTypes
  PROVE  /\ UNCHANGED fileVars => FilesOK'
         /\ UNCHANGED requestVars => RequestTypes' /\ RequestTTL'
         /\ UNCHANGED patchVars => PatchTypes'
         /\ UNCHANGED <<janitorVars, now>> => SweepTypes'
         /\ UNCHANGED receiverVars => ReceiverTypes'
         /\ UNCHANGED reconcileVars => ReconcileTypes'
<1>1. UNCHANGED fileVars => FilesOK'
  BY DEF ServerTypes, FilesOK, LayoutTypeOK, fileVars
<1>2. UNCHANGED requestVars => RequestTypes' /\ RequestTTL'
  BY DEF ServerTypes, RequestTypes, RequestTTL, requestVars
<1>3. UNCHANGED patchVars => PatchTypes'
  BY DEF ServerTypes, PatchTypes, patchVars
<1>4. UNCHANGED <<janitorVars, now>> => SweepTypes'
  BY DEF ServerTypes, SweepTypes, janitorVars
<1>5. UNCHANGED receiverVars => ReceiverTypes'
  BY DEF ServerTypes, ReceiverTypes, receiverVars
<1>6. UNCHANGED reconcileVars => ReconcileTypes'
  BY DEF ServerTypes, ReconcileTypes, reconcileVars
<1>. QED  BY <1>1, <1>2, <1>3, <1>4, <1>5, <1>6

\* Every step of the server is a step of the repository and keeps the types.
LEMMA ServerNextTypes ==
  ASSUME ServerTypes, [ServerNext]_serverVars
  PROVE  StoreStep /\ ServerTypes'
<1>0. StoreInv /\ RowTTL /\ now \in 0..MaxTime /\ MaxTime \in Nat
  BY ServiceAssumption DEF ServerTypes
<1>. DEFINE Rest == FilesOK' /\ now' \in 0..MaxTime /\ RequestTypes' /\ RequestTTL' /\ PatchTypes'
                    /\ SweepTypes' /\ ReceiverTypes' /\ ReconcileTypes'
<1>1. ASSUME StoreStep, Rest PROVE StoreStep /\ ServerTypes'
  BY <1>0, <1>1, StoreStepKeeps DEF ServerTypes
<1>2. CASE UNCHANGED serverVars
  <2>1. UNCHANGED <<storeVars, fileVars, now, reconcileVars, requestVars, patchVars,
                    janitorVars, receiverVars>>
    BY <1>2 DEF serverVars
  <2>. QED  BY <1>0, <1>1, <2>1, TypeFrames, StoreCalls
<1>3. ASSUME NEW r \in SimpleReq, HandleSimple(r) PROVE StoreStep /\ Rest
  <2>1. SimpleStep(r) /\ UNCHANGED <<reconcileVars, patchVars, janitorVars, receiverVars>>
    BY <1>3 DEF HandleSimple, SimpleStep
  <2>. QED  BY <1>0, <2>1, SimpleTypes, TypeFrames
<1>4. ASSUME NEW r \in CreateReq, HandleCreate(r) PROVE StoreStep /\ Rest
  <2>1. CreateStep(r) /\ UNCHANGED <<reconcileVars, patchVars, janitorVars, receiverVars>>
    BY <1>4 DEF HandleCreate, CreateStep
  <2>. QED  BY <1>0, <2>1, CreateTypes, TypeFrames
<1>5. ASSUME NEW r \in PatchReq, HandlePatch(r) PROVE StoreStep /\ Rest
  <2>1. PatchStep(r) /\ UNCHANGED <<reconcileVars, janitorVars, receiverVars>>
    BY <1>5 DEF HandlePatch
  <2>. QED  BY <1>0, <2>1, PatchStepTypes, TypeFrames
<1>6. ASSUME NEW r \in CommitReq, HandleCommit(r) PROVE StoreStep /\ Rest
  <2>1. CommitStep(r) /\ UNCHANGED <<reconcileVars, patchVars, janitorVars, receiverVars>>
    BY <1>6 DEF HandleCommit
  <2>. QED  BY <1>0, <2>1, CommitTypes, TypeFrames
<1>7. ASSUME NEW r \in Request, ClientLeaves(r) PROVE StoreStep /\ Rest
  <2>1. /\ gone' = [gone EXCEPT ![r] = TRUE] /\ UNCHANGED <<pc, want, parts, result, until>>
        /\ UNCHANGED <<storeVars, fileVars, now, reconcileVars, patchVars, janitorVars, receiverVars>>
    BY <1>7 DEF ClientLeaves, Disconnect
  <2>2. gone' \in [Request -> BOOLEAN]
    BY <2>1 DEF ServerTypes, RequestTypes
  <2>3. RequestTypes' /\ RequestTTL'
    BY <2>1, <2>2 DEF ServerTypes, RequestTypes, RequestTTL
  <2>. QED  BY <1>0, <2>1, <2>3, StoreCalls, TypeFrames
<1>8. ASSUME NEW j \in Sweeper, Sweep(j) PROVE StoreStep /\ Rest
  <2>1. SweepStep(j) /\ UNCHANGED <<reconcileVars, requestVars, patchVars, receiverVars>>
    BY <1>8 DEF Sweep
  <2>. QED  BY <1>0, <2>1, SweepStepTypes, TypeFrames
<1>9. ASSUME NEW c \in Claim, HandleClaim(c) PROVE StoreStep /\ Rest
  <2>1. ClaimStep(c) /\ UNCHANGED <<reconcileVars, requestVars, patchVars, janitorVars>>
    BY <1>9 DEF HandleClaim
  <2>. QED  BY <1>0, <2>1, ClaimTypes, TypeFrames
<1>10. ASSUME NEW d \in Download, HandleDownload(d) PROVE StoreStep /\ Rest
  <2>1. DownloadStep(d) /\ UNCHANGED <<reconcileVars, requestVars, patchVars, janitorVars>>
    BY <1>10 DEF HandleDownload
  <2>. QED  BY <1>0, <2>1, DownloadTypes, TypeFrames
<1>11. CASE Restart
  <2>1. ReconcileStep /\ UNCHANGED <<requestVars, patchVars, janitorVars, receiverVars>>
    BY <1>11 DEF Restart
  <2>. QED  BY <1>0, <1>1, <2>1, ReconcileStepTypes, TypeFrames
<1>12. CASE TimePasses
  <2>1. /\ now < MaxTime /\ now' = now + 1
        /\ UNCHANGED <<storeVars, fileVars, reconcileVars, requestVars, patchVars, janitorVars, receiverVars>>
    BY <1>12 DEF TimePasses, Tick
  <2>2. now' \in 0..MaxTime
    BY <1>0, <2>1
  <2>3. SweepTypes'
    BY <1>0, <2>1 DEF ServerTypes, SweepTypes, janitorVars
  <2>. QED  BY <1>1, <2>1, <2>2, <2>3, StoreCalls, TypeFrames
<1>13. CASE ProcessDies
  <2>1. Crash /\ KillRequests /\ KillSweeps /\ KillReceivers /\ UNCHANGED patchVars
    BY <1>13 DEF ProcessDies
  <2>2. RequestTypes'
    BY <2>1 DEF KillRequests, ServerTypes, RequestTypes
  <2>3. RequestTTL'
    BY <2>1 DEF KillRequests, ServerTypes, RequestTypes, RequestTTL, Resting, Request
  <2>4. SweepTypes'
    BY <1>0, <2>1 DEF KillSweeps, SweepTypes, Crash
  <2>5. ReceiverTypes'
    BY <2>1 DEF KillReceivers, ServerTypes, ReceiverTypes, AtRest
  <2>6. ReconcileTypes'
    BY <2>1 DEF Crash, Stop, ReconcileTypes, Phase, Step
  <2>7. UNCHANGED <<storeVars, fileVars, now>>
    BY <2>1 DEF Crash
  <2>. QED  BY <1>0, <1>1, <2>1, <2>2, <2>3, <2>4, <2>5, <2>6, <2>7, StoreCalls, TypeFrames
<1>. HIDE DEF Rest
<1>. QED
  BY <1>1, <1>2, <1>3, <1>4, <1>5, <1>6, <1>7, <1>8, <1>9, <1>10, <1>11, <1>12, <1>13
  DEF ServerNext

\* The inductive invariant holds in every reachable state of the server.
LEMMA ServerTypesAlways == ServerSpec => []ServerTypes
<1>1. ServerTypes /\ [ServerNext]_serverVars => ServerTypes'
  BY ServerNextTypes
<1>. QED  BY <1>1, ServerInitTypes, PTL DEF ServerSpec

\* Every variable of every component keeps its type, and no segment file grows
\* past the declared length, through crashes and restarts too.
THEOREM ServerTypeCorrect == ServerSpec => []ServerTypeOK
<1>1. ServerTypes => ServerTypeOK
  BY DEF ServerTypes, ServerTypeOK, StoreInv, FilesOK, RequestTypes, PatchTypes, SweepTypes,
         ReceiverTypes, ReconcileTypes
<1>. QED  BY <1>1, ServerTypesAlways, PTL

\* The server calls the repository only in the ways its specification allows, so
\* whatever is proved of the repository under arbitrary callers holds in it.
THEOREM ServerUsesStore == ServerSpec => StoreSpec
<1>1. ServerInit => StoreInit
  BY DEF ServerInit
<1>2. ServerTypes /\ [ServerNext]_serverVars => [StoreNext]_storeVars
  BY ServerNextTypes DEF StoreStep
<1>. QED  BY <1>1, <1>2, ServerTypesAlways, PTL DEF ServerSpec, StoreSpec

\* In the running server a public code names at most one transfer, a committed
\* row has its code and expiry, and a row keeps them until it is purged.
THEOREM ServerKeepsCodes ==
  ServerSpec => []CodesUnique /\ []CommittedHasCode /\ CodeStable /\ NeverCommittedTwice
  BY ServerUsesStore, StoreCodesUnique, StoreCommittedHasCode, StoreCodeStable,
     StoreNeverCommittedTwice, PTL
=============================================================================
