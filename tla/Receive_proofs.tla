--------------------------- MODULE Receive_proofs ---------------------------
(***************************************************************************)
(* `ss recv' for any number of runs, segments and groups.  The theorems    *)
(* about contents are for runs that do not overlap in time: nothing in the *)
(* code keeps two runs out of one working directory (run receive_overlap). *)
(***************************************************************************)
EXTENDS Receive, FiniteSetTheorems, WellFoundedInduction, SequenceTheorems, TLAPS

-----------------------------------------------------------------------------
(* The inductive invariant.                                                *)

Dir == [Segment -> Nat]
PartialDir == [here : BOOLEAN, segdir : BOOLEAN, paydir : BOOLEAN, seg : Dir, pay : Dir]
DestDir == [here : BOOLEAN, pay : Dir, of : Byte]

Place == Ended \cup {"idle", "mkdir", "fetch", "place", "verify", "segdir", "lstat", "rename", "clear", "sweep"}

JobAt == InFlight \cup Finished \cup {"none", "queued"}
Job == [at : JobAt, fd : Nat, offset : Nat, stream : Int, attempts : Nat]

DirsOK == partial \in PartialDir /\ dest \in DestDir

\* The length of a file is that of a segment of some handoff, or less.
Fits(s, f) == \E h \in Handoff : Len(f) <= Length[h][s]
FilesOK ==
    /\ file \in [Segment -> Seq(Seq(Byte))]
    /\ \A s \in Segment : \A i \in 1..Len(file[s]) : Fits(s, file[s][i])

\* Names and descriptors refer to files that were made.
RefsOK ==
    \A s \in Segment :
        /\ partial.seg[s] <= Len(file[s]) /\ partial.pay[s] <= Len(file[s]) /\ dest.pay[s] <= Len(file[s])
        /\ \A r \in Receiver : job[r][s].fd <= Len(file[s])

\* A download stays within its segment and its attempts.
Bounded(r, s, j) ==
    /\ j.offset <= SegLen(r, s)
    /\ NoStream <= j.stream /\ j.stream <= SegLen(r, s)
    /\ j.attempts <= MaxAttempts
    /\ j.at \in {"repair", "write"} => j.attempts < MaxAttempts
JobsOK ==
    /\ job \in [Receiver -> [Segment -> Job]]
    /\ \A r \in Receiver, s \in Segment : Bounded(r, s, job[r][s])

RunsOK ==
    /\ pc \in [Receiver -> Place]
    /\ todo \in [Receiver -> SUBSET Segment]
    /\ \A r \in Receiver : pc[r] = "place" => todo[r] # {}
    /\ kills \in 0..MaxKills /\ unproved \in BOOLEAN

RecvTypes == DirsOK /\ FilesOK /\ RefsOK /\ JobsOK /\ RunsOK

-----------------------------------------------------------------------------
\* Runs one after the other: one runs, only a run that fetches has downloads, and
\* a destination that exists was made by a run that now only clears up.
Solo ==
    /\ \A r, o \in Receiver : Running(r) /\ Running(o) => r = o
    /\ \A r \in Receiver : pc[r] # "fetch" => job[r] = NoJobs
    /\ dest.here => \A r \in Receiver : Running(r) => pc[r] = "sweep"

\* Between the verification of a payload and its rename nothing touches it.
Right(r) == \A s \in Files[Of[r]] : partial.pay[s] # NoFile /\ file[s][partial.pay[s]] = Whole(Of[r], s)
Verified == \A r \in Receiver : pc[r] \in {"segdir", "lstat", "rename"} => Right(r)

DestInv == Solo /\ Verified /\ DestWhole /\ (dest.here => dest.of \in Handoff)

\* All runs receive one handoff.
OneHandoff == \A r, o \in Receiver : Of[r] = Of[o]

\* f is a beginning of segment s of the handoff.
Begun(r, s, f) == Len(f) <= SegLen(r, s) /\ \A i \in 1..Len(f) : f[i] = Of[r]
Authentic == \A r \in Receiver, s \in Segment : partial.seg[s] # NoFile => Begun(r, s, SegFile(s))

\* How far the file is at the statements of a download.
Progress(r, s) ==
    LET j == job[r][s] IN
    /\ j.at \in {"trim", "loop", "repair", "write"} => j.fd = partial.seg[s] /\ j.fd # NoFile
    /\ j.at = "trim" => j.offset = GroupFloor(Len(SegFile(s)))
    /\ j.at \in {"loop", "repair", "write"} => j.offset = Len(SegFile(s))
    /\ j.at \in {"get", "copy"} => j.offset < SegLen(r, s)
    /\ j.at \in {"hash", "ok"} => partial.seg[s] # NoFile /\ Len(SegFile(s)) = SegLen(r, s)

FetchInv == ~unproved => Authentic /\ \A r \in Receiver, s \in Segment : Progress(r, s)

-----------------------------------------------------------------------------
(* Facts about the operators of the model.                                 *)

LEMMA MaxOfTwo ==
  ASSUME NEW a \in Nat, NEW b \in Nat
  PROVE  Max({a, b}) = IF a >= b THEN a ELSE b
<1>1. PICK m \in {a, b} : \A y \in {a, b} : m >= y
  <2>1. CASE a >= b
    BY <2>1
  <2>2. CASE b >= a
    BY <2>2
  <2>. QED  BY <2>1, <2>2
<1>2. Max({a, b}) \in {a, b} /\ \A y \in {a, b} : Max({a, b}) >= y
  BY <1>1, Zenon DEF Max
<1>. QED  BY <1>2

LEMMA MinOfTwo ==
  ASSUME NEW a \in Nat, NEW b \in Nat
  PROVE  Min({a, b}) = IF a <= b THEN a ELSE b
<1>1. PICK m \in {a, b} : \A y \in {a, b} : m <= y
  <2>1. CASE a <= b
    BY <2>1
  <2>2. CASE b <= a
    BY <2>2
  <2>. QED  BY <2>1, <2>2
<1>2. Min({a, b}) \in {a, b} /\ \A y \in {a, b} : Min({a, b}) <= y
  BY <1>1, Zenon DEF Min
<1>. QED  BY <1>2

LEMMA MinIn == ASSUME NEW S, S \subseteq Nat, S # {} PROVE Min(S) \in S
<1>. DEFINE R == OpToRel(<, Nat)
<1>1. IsWellFoundedOn(R, Nat)
  BY NatLessThanWellFounded
<1>. HIDE DEF R
<1>2. PICK x \in S : \A y \in S : ~ (<<y, x>> \in R)
  BY <1>1, WFMin
<1>3. \A y \in S : ~(y < x)
  BY <1>2 DEF R, OpToRel
<1>4. \A y \in S : x <= y
  BY <1>3
<1>. QED  BY <1>4, Zenon DEF Min

\* A sequence given by its elements.
LEMMA SeqOf ==
  ASSUME NEW n \in Nat, NEW S, NEW f, f \in [1..n -> S]
  PROVE  f \in Seq(S) /\ Len(f) = n
<1>1. \A i \in 1..n : f[i] \in S
  OBVIOUS
<1>2. f = [i \in 1..n |-> f[i]]
  OBVIOUS
<1>3. [i \in 1..n |-> f[i]] \in Seq(S)
  BY <1>1, IsASeq
<1>4. f \in Seq(S)
  BY <1>2, <1>3
<1>5. Len(f) \in Nat /\ DOMAIN f = 1..Len(f) /\ DOMAIN f = 1..n
  BY <1>4, LenProperties
<1>. QED  BY <1>4, <1>5

LEMMA SeqUpdate ==
  ASSUME NEW S, NEW f \in Seq(S), NEW i, NEW v \in S
  PROVE  /\ [f EXCEPT ![i] = v] \in Seq(S)
         /\ Len([f EXCEPT ![i] = v]) = Len(f)
         /\ \A j \in 1..Len(f) : [f EXCEPT ![i] = v][j] = IF j = i THEN v ELSE f[j]
<1>0. Len(f) \in Nat /\ DOMAIN f = 1..Len(f) /\ f \in [1..Len(f) -> S]
  BY LenProperties
<1>1. [f EXCEPT ![i] = v] \in [1..Len(f) -> S] /\ \A j \in 1..Len(f) : [f EXCEPT ![i] = v][j] = IF j = i THEN v ELSE f[j]
  BY <1>0
<1>. QED  BY <1>0, <1>1, SeqOf

LEMMA WholeIs ==
  ASSUME NEW h \in Handoff, NEW s \in Segment
  PROVE  /\ Whole(h, s) \in Seq(Byte) /\ Len(Whole(h, s)) = Length[h][s]
         /\ \A i \in 1..Length[h][s] : Whole(h, s)[i] = h
<1>1. Length[h][s] \in Nat
  BY ReceiveAssumption
<1>2. Whole(h, s) \in [1..Length[h][s] -> Byte] /\ \A i \in 1..Length[h][s] : Whole(h, s)[i] = h
  BY DEF Whole, Byte
<1>. QED  BY <1>1, <1>2, SeqOf

LEMMA SplicedIs ==
  ASSUME NEW f \in Seq(Byte), NEW o \in Nat, NEW n \in Nat, NEW b \in Byte
  PROVE  /\ Spliced(f, o, n, b) \in Seq(Byte)
         /\ Len(Spliced(f, o, n, b)) = IF Len(f) >= o + n THEN Len(f) ELSE o + n
         /\ \A i \in 1..Len(Spliced(f, o, n, b)) :
                Spliced(f, o, n, b)[i] = IF i > o /\ i <= o + n THEN b ELSE IF i <= Len(f) THEN f[i] ELSE Junk
<1>1. Len(f) \in Nat /\ o + n \in Nat /\ \A i \in 1..Len(f) : f[i] \in Byte
  BY LenProperties
<1>2. PICK m \in Nat : m = Max({Len(f), o + n}) /\ m = IF Len(f) >= o + n THEN Len(f) ELSE o + n
  BY <1>1, MaxOfTwo
<1>3. /\ Spliced(f, o, n, b) \in [1..m -> Byte]
      /\ \A i \in 1..m : Spliced(f, o, n, b)[i] = IF i > o /\ i <= o + n THEN b ELSE IF i <= Len(f) THEN f[i] ELSE Junk
  <2>1. \A i \in 1..m : (IF i > o /\ i <= o + n THEN b ELSE IF i <= Len(f) THEN f[i] ELSE Junk) \in Byte
    BY <1>1 DEF Byte
  <2>. QED  BY <1>2, <2>1 DEF Spliced
<1>. QED  BY <1>2, <1>3, SeqOf

LEMMA TruncatedIs ==
  ASSUME NEW f \in Seq(Byte), NEW n \in Nat
  PROVE  /\ Truncated(f, n) \in Seq(Byte) /\ Len(Truncated(f, n)) = n
         /\ \A i \in 1..n : Truncated(f, n)[i] = IF i <= Len(f) THEN f[i] ELSE Junk
<1>1. Len(f) \in Nat /\ \A i \in 1..Len(f) : f[i] \in Byte
  BY LenProperties
<1>2. /\ Truncated(f, n) \in [1..n -> Byte]
      /\ \A i \in 1..n : Truncated(f, n)[i] = IF i <= Len(f) THEN f[i] ELSE Junk
  BY <1>1 DEF Truncated, Byte
<1>. QED  BY <1>2, SeqOf

\* The last group boundary.
LEMMA DivMod ==
  ASSUME NEW n \in Nat, NEW g \in Nat \ {0}
  PROVE  /\ n % g \in 0..(g - 1)
         /\ \E q \in Nat : n = g * q + (n % g)
<1>1. n % g \in 0..(g - 1)
  OBVIOUS
<1>2. n \div g \in Nat
  OBVIOUS
<1>3. n = g * (n \div g) + (n % g)
  OBVIOUS
<1>. QED  BY <1>1, <1>2, <1>3

LEMMA NoRemainder == ASSUME NEW q \in Nat, NEW g \in Nat \ {0} PROVE (g * q) % g = 0
  OBVIOUS

LEMMA GroupFloorIs ==
  ASSUME NEW n \in Nat
  PROVE  GroupFloor(n) \in Nat /\ GroupFloor(n) <= n /\ GroupFloor(GroupFloor(n)) = GroupFloor(n)
<1>1. PICK g \in Nat \ {0} : g = GroupSize
  BY ReceiveAssumption
<1>2. PICK q \in Nat, m \in 0..(g - 1) : m = n % g /\ n = g * q + m
  BY DivMod
<1>3. GroupFloor(n) = n - m /\ n - m = g * q /\ g * q \in Nat
  BY <1>1, <1>2 DEF GroupFloor
<1>4. GroupFloor(g * q) = g * q - ((g * q) % g)
  BY <1>1 DEF GroupFloor
<1>5. (g * q) % g = 0
  BY NoRemainder
<1>6. GroupFloor(g * q) = g * q
  BY <1>3, <1>4, <1>5
<1>. QED  BY <1>2, <1>3, <1>6

LEMMA GroupFloorGrows ==
  ASSUME NEW n \in Nat, NEW m \in Nat, n <= m
  PROVE  GroupFloor(n) <= GroupFloor(m)
<1>1. PICK g \in Nat \ {0} : g = GroupSize
  BY ReceiveAssumption
<1>2. PICK a \in Nat, c \in 0..(g - 1) : c = n % g /\ n = g * a + c
  BY DivMod
<1>3. PICK b \in Nat, d \in 0..(g - 1) : d = m % g /\ m = g * b + d
  BY DivMod
<1>4. GroupFloor(n) = g * a /\ GroupFloor(m) = g * b
  BY <1>1, <1>2, <1>3 DEF GroupFloor
<1>5. a <= b
  <2>. SUFFICES ASSUME a >= b + 1 PROVE FALSE
    OBVIOUS
  <2>1. PICK x \in Nat : a = b + 1 + x
    <3>1. a - b - 1 \in Nat /\ a = b + 1 + (a - b - 1)
      OBVIOUS
    <3>. QED  BY <3>1
  <2>2. g * a = g * b + g + g * x /\ g * x >= 0
    BY <2>1
  <2>. QED  BY <1>2, <1>3, <2>2
<1>6. g * a <= g * b
  <2>1. PICK x \in Nat : b = a + x
    <3>1. b - a \in Nat /\ b = a + (b - a)
      BY <1>5
    <3>. QED  BY <3>1
  <2>2. g * b = g * a + g * x /\ g * x >= 0
    BY <2>1
  <2>. QED  BY <2>2
<1>. QED  BY <1>4, <1>6

-----------------------------------------------------------------------------
(* Directories and files.                                                  *)

LEMMA SegSet ==
  ASSUME NEW d \in PartialDir, NEW s \in Segment, NEW x \in Nat, NEW e, e = [d EXCEPT !.seg[s] = x]
  PROVE  /\ e \in PartialDir /\ e.pay = d.pay /\ e.here = d.here /\ e.segdir = d.segdir /\ e.paydir = d.paydir
         /\ \A v \in Segment : e.seg[v] = IF v = s THEN x ELSE d.seg[v]
<1>1. PICK g : g = [d.seg EXCEPT ![s] = x]
  OBVIOUS
<1>2. g \in Dir /\ \A v \in Segment : g[v] = IF v = s THEN x ELSE d.seg[v]
  BY <1>1 DEF PartialDir, Dir
<1>3. e = [d EXCEPT !.seg = g]
  BY <1>1
<1>. QED  BY <1>2, <1>3 DEF PartialDir

LEMMA PaySet ==
  ASSUME NEW d \in PartialDir, NEW s \in Segment, NEW x \in Nat, NEW e, e = [d EXCEPT !.pay[s] = x]
  PROVE  /\ e \in PartialDir /\ e.seg = d.seg /\ e.here = d.here /\ e.segdir = d.segdir /\ e.paydir = d.paydir
         /\ \A v \in Segment : e.pay[v] = IF v = s THEN x ELSE d.pay[v]
<1>1. PICK g : g = [d.pay EXCEPT ![s] = x]
  OBVIOUS
<1>2. g \in Dir /\ \A v \in Segment : g[v] = IF v = s THEN x ELSE d.pay[v]
  BY <1>1 DEF PartialDir, Dir
<1>3. e = [d EXCEPT !.pay = g]
  BY <1>1
<1>. QED  BY <1>2, <1>3 DEF PartialDir

\* The number of the next file is that of no file anybody can still reach.
LEMMA NewInodeIs ==
  ASSUME RecvTypes, NEW s \in Segment
  PROVE  NewInode(s) \in 1..(Len(file[s]) + 1) /\ NewInode(s) \notin Held(s)
<1>1. Len(file[s]) \in Nat
  BY LenProperties DEF RecvTypes, FilesOK
<1>2. \A i \in Held(s) : i \in Nat /\ i <= Len(file[s])
  <2>1. partial.seg[s] \in Nat /\ partial.pay[s] \in Nat /\ dest.pay[s] \in Nat
    BY DEF RecvTypes, DirsOK, PartialDir, DestDir, Dir
  <2>2. \A r \in Receiver : job[r][s].fd \in Nat
    BY DEF RecvTypes, JobsOK, Job
  <2>. QED  BY <2>1, <2>2 DEF Held, RecvTypes, RefsOK
<1>3. Len(file[s]) + 1 \in (1..(Len(file[s]) + 1)) \ Held(s)
  BY <1>1, <1>2
<1>4. (1..(Len(file[s]) + 1)) \ Held(s) \subseteq Nat
  OBVIOUS
<1>5. NewInode(s) \in (1..(Len(file[s]) + 1)) \ Held(s)
  BY <1>3, <1>4, MinIn DEF NewInode
<1>. QED  BY <1>5

\* Files that are there stay; inode i of s has bytes c.
Makes(s, i, c) ==
    /\ FilesOK'
    /\ \A v \in Segment : Len(file[v]) \in Nat /\ Len(file'[v]) \in Nat /\ Len(file[v]) <= Len(file'[v])
    /\ i \in 1..Len(file'[s]) => file'[s][i] = c
    /\ \A v \in Segment : \A j \in 1..Len(file[v]) : (v = s /\ j = i) \/ file'[v][j] = file[v][j]

LEMMA TableMakes ==
  ASSUME FilesOK, NEW s \in Segment, NEW i, NEW c, NEW x \in Seq(Seq(Byte)), Len(file[s]) <= Len(x),
         \A j \in 1..Len(x) : Fits(s, x[j]),
         i \in 1..Len(x) => x[i] = c, \A j \in 1..Len(file[s]) : j = i \/ x[j] = file[s][j],
         file' = [file EXCEPT ![s] = x]
  PROVE  Makes(s, i, c)
<1>1. file' \in [Segment -> Seq(Seq(Byte))] /\ \A v \in Segment : file'[v] = IF v = s THEN x ELSE file[v]
  BY DEF FilesOK
<1>2. \A v \in Segment : Len(file[v]) \in Nat /\ Len(file'[v]) \in Nat
  BY <1>1, LenProperties DEF FilesOK
<1>3. FilesOK'
  BY <1>1 DEF FilesOK, Fits
<1>4. \A v \in Segment : Len(file[v]) <= Len(file'[v])
  BY <1>1, <1>2
<1>. QED  BY <1>1, <1>2, <1>3, <1>4 DEF Makes

LEMMA CreateMakes ==
  ASSUME RecvTypes, NEW s \in Segment, NEW c \in Seq(Byte), Fits(s, c), Create(s, c)
  PROVE  Makes(s, NewInode(s), c) /\ NewInode(s) \in 1..Len(file'[s])
<1>0. file[s] \in Seq(Seq(Byte)) /\ FilesOK /\ \A j \in 1..Len(file[s]) : Fits(s, file[s][j])
  BY DEF RecvTypes, FilesOK
<1>1. PICK n \in Nat : n = Len(file[s]) /\ DOMAIN file[s] = 1..n /\ \A j \in 1..n : file[s][j] \in Seq(Byte)
  BY <1>0, LenProperties
<1>2. PICK i \in 1..(n + 1) : i = NewInode(s)
  BY <1>1, NewInodeIs
<1>3. PICK m \in Nat : m = Max({n, i}) /\ n <= m /\ i <= m /\ \A j \in 1..m : j = i \/ j \in 1..n
  <2>1. Max({n, i}) = IF n >= i THEN n ELSE i
    BY MaxOfTwo
  <2>. QED  BY <2>1
<1>4. PICK x : x = [j \in 1..m |-> IF j = i THEN c ELSE file[s][j]]
  OBVIOUS
<1>5. x \in [1..m -> Seq(Byte)]
  BY <1>1, <1>3, <1>4
<1>6. x \in Seq(Seq(Byte)) /\ Len(x) = m
  BY <1>5, SeqOf
<1>7. file' = [file EXCEPT ![s] = x]
  BY <1>0, <1>1, <1>2, <1>3, <1>4 DEF Create, FilesOK
<1>8. \A j \in 1..m : x[j] = IF j = i THEN c ELSE file[s][j]
  BY <1>4
<1>9. \A j \in 1..Len(x) : Fits(s, x[j])
  BY <1>0, <1>1, <1>3, <1>6, <1>8
<1>10. Makes(s, i, c)
  <2>1. Len(file[s]) <= Len(x) /\ (i \in 1..Len(x) => x[i] = c)
    BY <1>1, <1>3, <1>6, <1>8
  <2>2. \A j \in 1..Len(file[s]) : j \in 1..m
    BY <1>1, <1>3
  <2>3. \A j \in 1..Len(file[s]) : j = i \/ x[j] = file[s][j]
    BY <1>8, <2>2
  <2>. QED  BY <1>0, <1>6, <1>7, <1>9, <2>1, <2>3, TableMakes
<1>11. file'[s] = x
  BY <1>0, <1>7 DEF FilesOK
<1>. QED  BY <1>2, <1>3, <1>6, <1>10, <1>11

LEMMA WriteMakes ==
  ASSUME FilesOK, NEW s \in Segment, NEW i, NEW f, i \in 1..Len(file[s]) => f \in Seq(Byte) /\ Fits(s, f),
         file' = [file EXCEPT ![s][i] = f]
  PROVE  Makes(s, i, f)
<1>0. file[s] \in Seq(Seq(Byte)) /\ Len(file[s]) \in Nat /\ DOMAIN file[s] = 1..Len(file[s])
  BY LenProperties DEF FilesOK
<1>1. PICK x : x = [file[s] EXCEPT ![i] = f]
  OBVIOUS
<1>2. file' = [file EXCEPT ![s] = x]
  BY <1>1
<1>3. x \in Seq(Seq(Byte)) /\ Len(x) = Len(file[s]) /\ \A j \in 1..Len(x) : x[j] = IF j = i THEN f ELSE file[s][j]
  <2>1. CASE i \in 1..Len(file[s])
    BY <1>0, <1>1, <2>1, SeqUpdate
  <2>2. CASE i \notin 1..Len(file[s])
    <3>1. x = file[s]
      BY <1>0, <1>1, <2>2
    <3>. QED  BY <1>0, <2>2, <3>1
  <2>. QED  BY <2>1, <2>2
<1>4. \A j \in 1..Len(x) : Fits(s, x[j])
  BY <1>3 DEF FilesOK
<1>5. /\ Len(file[s]) <= Len(x) /\ (i \in 1..Len(x) => x[i] = f)
      /\ \A j \in 1..Len(file[s]) : j = i \/ x[j] = file[s][j]
  BY <1>0, <1>3
<1>. QED  BY <1>2, <1>3, <1>4, <1>5, TableMakes

-----------------------------------------------------------------------------
(* What a step of a download may do.  The download takes the value k.      *)

\* It goes on without touching the disk.
Turns(r, s, k) ==
    LET j == job[r][s] IN
    /\ UNCHANGED <<partial, file, unproved>>
    /\ k.fd \in {NoFile, j.fd}
    /\ \/ k.at \in {"tree", "dropped", "open", "stat", "failed"}
       \/ /\ j.at \in {"loop", "repair"} /\ k.at \in {"loop", "repair", "write"}
          /\ k.fd = j.fd /\ k.offset = j.offset
       \/ j.at = "loop" /\ k.at = "ok" /\ j.offset = SegLen(r, s)
       \/ j.at = "copy" /\ k.at = "hash" /\ j.offset = SegLen(r, s)
       \/ j.at = "hash" /\ k.at = "ok" /\ partial.seg[s] # NoFile /\ SegFile(s) = Whole(Of[r], s)

\* It looks at the size of the segment file, and removes one that is too long.
SizeOf(s) == IF partial.seg[s] = NoFile THEN 0 ELSE Len(SegFile(s))
Looks(r, s, k) ==
    /\ k.fd = job[r][s].fd /\ k.offset <= SegLen(r, s)
    /\ k.at = IF k.offset < SegLen(r, s) THEN "get" ELSE "hash"
    /\ IF SizeOf(s) > SegLen(r, s)
       THEN k.offset = 0 /\ partial' = [partial EXCEPT !.seg[s] = NoFile]
       ELSE k.offset = SizeOf(s) /\ UNCHANGED partial
    /\ UNCHANGED <<file, unproved>>

\* It opens the segment file.
Opens(r, s, k) ==
    LET j == job[r][s] IN
    /\ OpenSegment(s) /\ k.fd = Opened(s) /\ UNCHANGED unproved
    /\ \/ /\ k.at = "trim"
          /\ k.offset = IF GroupFloor(SizeOf(s)) > SegLen(r, s)
                        THEN GroupFloor(SegLen(r, s)) ELSE GroupFloor(SizeOf(s))
       \/ j.at = "get" /\ k.at = "copy" /\ k.offset = j.offset

\* It cuts the file at its offset.
Trims(r, s, k) ==
    LET j == job[r][s] IN
    /\ j.at = "trim" /\ k.at = "loop" /\ k.fd = j.fd /\ k.offset = j.offset
    /\ file' = [file EXCEPT ![s][j.fd] = Truncated(file[s][j.fd], j.offset)]
    /\ UNCHANGED <<partial, unproved>>

\* n proved bytes reach the disk.
WritesFile(r, s, n) ==
    file' = [file EXCEPT ![s][job[r][s].fd] = Spliced(file[s][job[r][s].fd], job[r][s].offset, n, Of[r])]
Writes(r, s, k) ==
    LET j == job[r][s] IN
    /\ j.at = "write"
    /\ \E n \in 0..Want(r, s) :
        /\ WritesFile(r, s, n)
        /\ \/ k.at = "loop" /\ k.fd = j.fd /\ k.offset = j.offset + n
           \/ k.at = "failed" /\ k.fd = NoFile
    /\ UNCHANGED <<partial, unproved>>

\* A byte reaches the disk unproved.
Copies(r, s, k) ==
    LET j == job[r][s] IN
    /\ j.offset < SegLen(r, s) /\ k.at = "copy" /\ k.fd = j.fd
    /\ \E b \in Byte : file' = [file EXCEPT ![s][j.fd] = Spliced(file[s][j.fd], j.offset, 1, b)]
    /\ unproved' = TRUE /\ UNCHANGED partial

\* It discards a segment that is not the declared one.
Discards(r, s, k) ==
    /\ job[r][s].at = "hash" /\ k.at \in {"stat", "failed"} /\ k.fd = NoFile
    /\ partial.seg[s] # NoFile /\ SegFile(s) # Whole(Of[r], s)
    /\ partial' = [partial EXCEPT !.seg[s] = NoFile]
    /\ UNCHANGED <<file, unproved>>

JobMoves(r, s, k) ==
    /\ k \in Job /\ Bounded(r, s, k) /\ SetJob(r, s, k) /\ UNCHANGED <<dest, kills>>
    /\ \/ Turns(r, s, k) \/ Looks(r, s, k) \/ Opens(r, s, k) \/ Trims(r, s, k)
       \/ Writes(r, s, k) \/ Copies(r, s, k) \/ Discards(r, s, k)

LEMMA SegFileIs ==
  ASSUME RecvTypes, NEW s \in Segment
  PROVE  /\ partial.seg[s] \in Nat /\ partial.seg[s] <= Len(file[s]) /\ Len(file[s]) \in Nat
         /\ partial.seg[s] # NoFile =>
                partial.seg[s] \in 1..Len(file[s]) /\ SegFile(s) \in Seq(Byte) /\ Len(SegFile(s)) \in Nat
         /\ SizeOf(s) \in Nat
<1>1. partial.seg[s] \in Nat /\ partial.seg[s] <= Len(file[s]) /\ file[s] \in Seq(Seq(Byte))
  BY DEF RecvTypes, DirsOK, RefsOK, FilesOK, PartialDir, Dir
<1>2. Len(file[s]) \in Nat
  BY <1>1, LenProperties
<1>3. partial.seg[s] # NoFile => partial.seg[s] \in 1..Len(file[s])
  BY <1>1, <1>2 DEF NoFile
<1>4. partial.seg[s] # NoFile => SegFile(s) \in Seq(Byte)
  BY <1>1, <1>3, ElementOfSeq DEF SegFile
<1>5. partial.seg[s] # NoFile => Len(SegFile(s)) \in Nat
  BY <1>4, LenProperties
<1>. QED  BY <1>1, <1>2, <1>3, <1>4, <1>5 DEF SizeOf

LEMMA WantIs ==
  ASSUME RecvTypes, NEW r \in Receiver, NEW s \in Segment
  PROVE  /\ SegLen(r, s) \in Nat \ {0} /\ Want(r, s) \in Nat /\ job[r][s].offset + Want(r, s) <= SegLen(r, s)
         /\ Of[r] \in Handoff
<1>1. SegLen(r, s) \in Nat \ {0} /\ Of[r] \in Handoff
  BY ReceiveAssumption DEF SegLen
<1>2. job[r][s].offset \in Nat /\ job[r][s].offset <= SegLen(r, s)
  BY DEF RecvTypes, JobsOK, Job, Bounded
<1>3. PICK n \in Nat : n = SegLen(r, s) - job[r][s].offset
  BY <1>1, <1>2
<1>4. Want(r, s) = IF GroupSize <= n THEN GroupSize ELSE n
  BY <1>3, ReceiveAssumption, MinOfTwo DEF Want
<1>. QED  BY <1>1, <1>2, <1>3, <1>4, ReceiveAssumption

LEMMA NoJobIs ==
  /\ NoJob \in Job /\ NoJob.at = "none" /\ NoJob.fd = NoFile /\ NoJob.offset = 0 /\ NoJob.stream = NoStream
  /\ NoJob.attempts = 0 /\ NoJobs \in [Segment -> Job] /\ \A s \in Segment : NoJobs[s] = NoJob
  BY DEF NoJob, Job, JobAt, NoFile, NoStream, NoJobs

\* A download that has ended, for better or worse, or starts over.
LEMMA FreshJob ==
  ASSUME NEW r \in Receiver, NEW s \in Segment, NEW k \in Job, k.at \notin {"repair", "write"},
         k.offset = 0, k.stream = NoStream, k.attempts < MaxAttempts
  PROVE  Bounded(r, s, k)
<1>1. SegLen(r, s) \in Nat
  BY ReceiveAssumption DEF SegLen
<1>. QED  BY <1>1 DEF Bounded, NoStream, MaxAttempts, Job

LEMMA JobEndMoves ==
  ASSUME NEW r \in Receiver, NEW s \in Segment, NEW a \in {"ok", "failed"}, JobEnd(r, s, a)
  PROVE  \E k : k \in Job /\ Bounded(r, s, k) /\ SetJob(r, s, k) /\ k.at = a /\ k.fd = NoFile
<1>1. PICK k : k = [NoJob EXCEPT !.at = a]
  OBVIOUS
<1>2. k \in Job /\ k.at = a /\ k.fd = NoFile /\ k.offset = 0 /\ k.stream = NoStream /\ k.attempts = 0
  BY <1>1, NoJobIs DEF Job, JobAt, Finished
<1>3. Bounded(r, s, k)
  BY <1>2, FreshJob DEF MaxAttempts
<1>. QED  BY <1>1, <1>2, <1>3 DEF JobEnd

LEMMA RetryMoves ==
  ASSUME NEW r \in Receiver, NEW s \in Segment, NEW j \in Job, SetJob(r, s, Retry(j))
  PROVE  \E k : k \in Job /\ Bounded(r, s, k) /\ SetJob(r, s, k) /\ k.at \in {"stat", "failed"} /\ k.fd = NoFile
<1>1. CASE j.attempts + 1 < MaxAttempts
  <2>1. PICK n \in Nat : n = j.attempts + 1
    BY DEF Job
  <2>2. PICK k : k = [NoJob EXCEPT !.at = "stat", !.attempts = n]
    OBVIOUS
  <2>3. k \in Job /\ k.at = "stat" /\ k.fd = NoFile /\ k.offset = 0 /\ k.stream = NoStream /\ k.attempts = n
    BY <2>2, NoJobIs DEF Job, JobAt, InFlight
  <2>4. Bounded(r, s, k)
    BY <1>1, <2>1, <2>3, FreshJob
  <2>. QED  BY <1>1, <2>1, <2>2, <2>3, <2>4 DEF Retry
<1>2. CASE ~(j.attempts + 1 < MaxAttempts)
  BY <1>2, JobEndMoves DEF Retry, JobEnd
<1>. QED  BY <1>1, <1>2

LEMMA JobSteps ==
  ASSUME RecvTypes, NEW r \in Receiver, NEW s \in Segment, JobStep(r, s)
  PROVE  \E k : JobMoves(r, s, k)
<1>1. PICK j \in Job : j = job[r][s] /\ Bounded(r, s, j)
  BY DEF RecvTypes, JobsOK
<1>2. PICK n \in Nat : n = SegLen(r, s)
  BY WantIs
<1>3. /\ j.at \in JobAt /\ j.fd \in Nat /\ j.offset \in Nat /\ j.stream \in Int /\ j.attempts \in Nat
      /\ j.offset <= n /\ -1 <= j.stream /\ j.stream <= n /\ j.attempts <= 3
      /\ (j.at \in {"repair", "write"} => j.attempts < 3)
  BY <1>1, <1>2 DEF Job, Bounded, NoStream, MaxAttempts
<1>4. PICK w \in Nat : w = Want(r, s) /\ j.offset + w <= n
  BY <1>1, <1>2, WantIs
<1>5. {"tree", "open", "trim", "loop", "repair", "write", "stat", "get", "copy", "hash", "ok", "failed", "dropped"}
      \subseteq JobAt
  BY DEF JobAt, InFlight, Finished
<1>6. ASSUME NEW a \in JobAt, a \notin {"repair", "write"} \/ j.attempts < 3, JobGoto(r, s, a)
      PROVE  \E k : /\ k \in Job /\ Bounded(r, s, k) /\ SetJob(r, s, k)
                    /\ k.at = a /\ k.fd = j.fd /\ k.offset = j.offset
  <2>1. PICK k : k = [j EXCEPT !.at = a]
    OBVIOUS
  <2>2. /\ k \in Job /\ k.at = a /\ k.fd = j.fd /\ k.offset = j.offset /\ k.stream = j.stream
        /\ k.attempts = j.attempts
    BY <2>1 DEF Job
  <2>3. Bounded(r, s, k)
    BY <1>2, <1>3, <1>6, <2>2 DEF Bounded, NoStream, MaxAttempts
  <2>4. SetJob(r, s, k)
    BY <1>1, <1>6, <2>1 DEF JobGoto
  <2>. QED  BY <2>2, <2>3, <2>4
<1>7. CASE Feed(r, s)
  <2>1. PICK a \in {"tree", "dropped"} : JobGoto(r, s, a)
    BY <1>7 DEF Feed
  <2>2. PICK k : k \in Job /\ Bounded(r, s, k) /\ SetJob(r, s, k) /\ k.at = a /\ k.fd = j.fd /\ k.offset = j.offset
    BY <1>5, <1>6, <2>1
  <2>3. Turns(r, s, k)
    BY <1>1, <1>7, <2>1, <2>2 DEF Turns, Feed
  <2>. QED  BY <1>7, <2>2, <2>3 DEF JobMoves, Feed
<1>8. CASE FetchTree(r, s)
  <2>1. PICK a \in {"open", "stat"} : JobGoto(r, s, a)
    BY <1>8 DEF FetchTree
  <2>2. PICK k : k \in Job /\ Bounded(r, s, k) /\ SetJob(r, s, k) /\ k.at = a /\ k.fd = j.fd /\ k.offset = j.offset
    BY <1>5, <1>6, <2>1
  <2>3. Turns(r, s, k)
    BY <1>1, <1>8, <2>1, <2>2 DEF Turns, FetchTree
  <2>. QED  BY <1>8, <2>2, <2>3 DEF JobMoves, FetchTree
<1>9. CASE OpenVerified(r, s)
  <2>1. CASE JobEnd(r, s, "failed") /\ UNCHANGED <<partial, file>>
    <3>1. PICK k : k \in Job /\ Bounded(r, s, k) /\ SetJob(r, s, k) /\ k.at = "failed" /\ k.fd = NoFile
      BY <2>1, JobEndMoves
    <3>2. Turns(r, s, k)
      BY <1>9, <2>1, <3>1 DEF Turns, OpenVerified
    <3>. QED  BY <1>9, <3>1, <3>2 DEF JobMoves, OpenVerified
  <2>2. CASE ~(JobEnd(r, s, "failed") /\ UNCHANGED <<partial, file>>)
    <3>1. PICK o : o = IF GroupFloor(SizeOf(s)) > SegLen(r, s) THEN GroupFloor(SegLen(r, s)) ELSE GroupFloor(SizeOf(s))
      OBVIOUS
    <3>2. PICK k : k = [NoJob EXCEPT !.at = "trim", !.fd = Opened(s), !.offset = o]
      OBVIOUS
    <3>3. OpenSegment(s) /\ SetJob(r, s, k) /\ UNCHANGED <<dest, kills, unproved>>
      BY <1>9, <2>2, <3>1, <3>2 DEF OpenVerified, SizeOf
    <3>4. Opened(s) \in Nat /\ SizeOf(s) \in Nat
      BY SegFileIs, NewInodeIs DEF Opened
    <3>5. o \in Nat /\ o <= n
      BY <1>2, <3>1, <3>4, GroupFloorIs
    <3>6. k \in Job /\ k.at = "trim" /\ k.fd = Opened(s) /\ k.offset = o /\ k.stream = NoStream /\ k.attempts = 0
      BY <1>5, <3>2, <3>4, <3>5, NoJobIs DEF Job
    <3>7. Bounded(r, s, k)
      BY <1>2, <3>5, <3>6 DEF Bounded, NoStream, MaxAttempts
    <3>8. Opens(r, s, k)
      BY <3>1, <3>3, <3>6 DEF Opens
    <3>. QED  BY <3>3, <3>6, <3>7, <3>8 DEF JobMoves
  <2>. QED  BY <2>1, <2>2
<1>10. CASE TrimVerified(r, s)
  <2>1. JobGoto(r, s, "loop") /\ j.at = "trim"
    BY <1>1, <1>10 DEF TrimVerified, At
  <2>2. PICK k : k \in Job /\ Bounded(r, s, k) /\ SetJob(r, s, k) /\ k.at = "loop" /\ k.fd = j.fd /\ k.offset = j.offset
    BY <1>5, <1>6, <2>1
  <2>3. Trims(r, s, k)
    BY <1>1, <1>10, <2>1, <2>2 DEF Trims, TrimVerified
  <2>. QED  BY <1>10, <2>2, <2>3 DEF JobMoves, TrimVerified
<1>11. CASE OpenStream(r, s)
  <2>1. j.at = "loop" /\ j.attempts < 3 /\ UNCHANGED <<partial, dest, file, kills, unproved>>
    BY <1>1, <1>11 DEF OpenStream, Fetching, At, MaxAttempts
  <2>2. CASE JobEnd(r, s, "failed")
    <3>1. PICK k : k \in Job /\ Bounded(r, s, k) /\ SetJob(r, s, k) /\ k.at = "failed" /\ k.fd = NoFile
      BY <2>2, JobEndMoves
    <3>. QED  BY <2>1, <3>1 DEF JobMoves, Turns
  <2>3. ASSUME NEW k, SetJob(r, s, k), k = [j EXCEPT !.stream = j.offset] \/ k = [j EXCEPT !.attempts = @ + 1]
        PROVE  JobMoves(r, s, k)
    <3>1. k \in Job /\ k.at = j.at /\ k.fd = j.fd /\ k.offset = j.offset
      BY <1>3, <2>3 DEF Job
    <3>2. Bounded(r, s, k)
      <4>1. \/ k.stream = j.offset /\ k.attempts = j.attempts
            \/ k.stream = j.stream /\ k.attempts = j.attempts + 1
        BY <2>3 DEF Job
      <4>. QED  BY <1>2, <1>3, <2>1, <3>1, <4>1 DEF Bounded, NoStream, MaxAttempts
    <3>3. Turns(r, s, k)
      BY <1>1, <2>1, <3>1 DEF Turns
    <3>. QED  BY <2>1, <2>3, <3>1, <3>2, <3>3 DEF JobMoves
  <2>. QED  BY <1>1, <1>11, <2>2, <2>3 DEF OpenStream
<1>12. CASE ReadGroup(r, s)
  <2>1. j.at = "loop" /\ j.attempts < 3 /\ UNCHANGED <<partial, dest, file, kills, unproved>>
    BY <1>1, <1>12 DEF ReadGroup, Fetching, At, MaxAttempts
  <2>2. ASSUME SetJob(r, s, [j EXCEPT !.stream = NoStream, !.attempts = @ + 1])
        PROVE  \E k : JobMoves(r, s, k)
    <3>1. PICK k : k = [j EXCEPT !.stream = NoStream, !.attempts = @ + 1]
      OBVIOUS
    <3>2. /\ k \in Job /\ k.at = j.at /\ k.fd = j.fd /\ k.offset = j.offset /\ k.stream = -1
          /\ k.attempts = j.attempts + 1
      <4>1. PICK m \in Nat : m = j.attempts + 1
        BY <1>3
      <4>2. k = [j EXCEPT !.stream = NoStream, !.attempts = m]
        BY <3>1, <4>1
      <4>3. NoStream \in Int /\ NoStream = -1
        BY DEF NoStream
      <4>. QED  BY <4>1, <4>2, <4>3 DEF Job
    <3>3. Bounded(r, s, k)
      BY <1>2, <1>3, <2>1, <3>2 DEF Bounded, NoStream, MaxAttempts
    <3>4. Turns(r, s, k)
      BY <1>1, <2>1, <3>2 DEF Turns
    <3>. QED  BY <2>1, <2>2, <3>1, <3>2, <3>3, <3>4 DEF JobMoves
  <2>3. ASSUME NEW a \in {"write", "repair"}, NEW x, x = [j EXCEPT !.stream = @ + w], x.stream <= n,
               SetJob(r, s, [x EXCEPT !.at = a])
        PROVE  \E k : JobMoves(r, s, k)
    <3>1. /\ x \in Job /\ x.fd = j.fd /\ x.offset = j.offset /\ x.stream = j.stream + w
          /\ x.attempts = j.attempts
      BY <1>3, <2>3 DEF Job
    <3>2. PICK k : k = [x EXCEPT !.at = a]
      OBVIOUS
    <3>3. /\ k \in Job /\ k.at = a /\ k.fd = j.fd /\ k.offset = j.offset /\ k.stream = j.stream + w
          /\ k.attempts = j.attempts
      BY <1>5, <3>1, <3>2 DEF Job
    <3>4. Bounded(r, s, k)
      BY <1>2, <1>3, <2>1, <2>3, <3>1, <3>3 DEF Bounded, NoStream, MaxAttempts
    <3>5. Turns(r, s, k)
      BY <1>1, <2>1, <3>3 DEF Turns
    <3>. QED  BY <2>1, <2>3, <3>2, <3>3, <3>4, <3>5 DEF JobMoves
  <2>. QED  BY <1>1, <1>2, <1>4, <1>12, <2>2, <2>3 DEF ReadGroup
<1>13. CASE RepairGroup(r, s)
  <2>1. j.at = "repair" /\ j.attempts < 3 /\ UNCHANGED <<partial, dest, file, kills, unproved>>
    BY <1>1, <1>3, <1>13 DEF RepairGroup, At
  <2>2. CASE JobGoto(r, s, "write")
    <3>1. PICK k : k \in Job /\ Bounded(r, s, k) /\ SetJob(r, s, k) /\ k.at = "write" /\ k.fd = j.fd /\ k.offset = j.offset
      BY <1>5, <1>6, <2>1, <2>2
    <3>. QED  BY <1>1, <2>1, <3>1 DEF JobMoves, Turns
  <2>3. CASE SetJob(r, s, [j EXCEPT !.at = "loop", !.attempts = @ + 1])
    <3>1. PICK k : k = [j EXCEPT !.at = "loop", !.attempts = @ + 1]
      OBVIOUS
    <3>2. /\ k \in Job /\ k.at = "loop" /\ k.fd = j.fd /\ k.offset = j.offset /\ k.stream = j.stream
          /\ k.attempts = j.attempts + 1
      <4>1. PICK m \in Nat : m = j.attempts + 1
        BY <1>3
      <4>2. k = [j EXCEPT !.at = "loop", !.attempts = m]
        BY <3>1, <4>1
      <4>. QED  BY <1>5, <4>1, <4>2 DEF Job
    <3>3. Bounded(r, s, k)
      BY <1>2, <1>3, <2>1, <3>2 DEF Bounded, NoStream, MaxAttempts
    <3>. QED  BY <1>1, <2>1, <2>3, <3>1, <3>2, <3>3 DEF JobMoves, Turns
  <2>. QED  BY <1>1, <1>13, <2>2, <2>3 DEF RepairGroup
<1>14. CASE WriteGroup(r, s)
  <2>0. j.at = "write" /\ UNCHANGED <<partial, dest, kills, unproved>>
    BY <1>1, <1>14 DEF WriteGroup, At
  <2>1. ASSUME WritesFile(r, s, w), SetJob(r, s, [j EXCEPT !.at = "loop", !.offset = @ + w, !.attempts = 0])
        PROVE  \E k : JobMoves(r, s, k)
    <3>1. PICK k : k = [j EXCEPT !.at = "loop", !.offset = @ + w, !.attempts = 0]
      OBVIOUS
    <3>2. /\ k \in Job /\ k.at = "loop" /\ k.fd = j.fd /\ k.offset = j.offset + w /\ k.stream = j.stream
          /\ k.attempts = 0
      <4>1. PICK m \in Nat : m = j.offset + w
        BY <1>3
      <4>2. k = [j EXCEPT !.at = "loop", !.offset = m, !.attempts = 0]
        BY <3>1, <4>1
      <4>. QED  BY <1>5, <4>1, <4>2 DEF Job
    <3>3. Bounded(r, s, k)
      BY <1>2, <1>3, <1>4, <3>2 DEF Bounded, NoStream, MaxAttempts
    <3>4. w \in 0..Want(r, s)
      BY <1>4
    <3>5. Writes(r, s, k)
      BY <1>1, <2>0, <2>1, <3>2, <3>4 DEF Writes
    <3>. QED  BY <2>0, <2>1, <3>1, <3>2, <3>3, <3>5 DEF JobMoves
  <2>2. ASSUME NEW m \in 0..(w - 1), WritesFile(r, s, m), JobEnd(r, s, "failed")
        PROVE  \E k : JobMoves(r, s, k)
    <3>1. PICK k : k \in Job /\ Bounded(r, s, k) /\ SetJob(r, s, k) /\ k.at = "failed" /\ k.fd = NoFile
      BY <2>2, JobEndMoves
    <3>2. m \in 0..Want(r, s)
      BY <1>4
    <3>3. Writes(r, s, k)
      BY <1>1, <2>0, <2>2, <3>1, <3>2 DEF Writes
    <3>. QED  BY <2>0, <3>1, <3>3 DEF JobMoves
  <2>. QED  BY <1>1, <1>4, <1>14, <2>1, <2>2 DEF WriteGroup, WritesFile
<1>15. CASE FinishVerified(r, s)
  <2>1. PICK a \in {"ok", "failed"} : JobEnd(r, s, a) /\ (a = "ok" => j.offset = n)
    BY <1>1, <1>2, <1>3, <1>15 DEF FinishVerified
  <2>2. PICK k : k \in Job /\ Bounded(r, s, k) /\ SetJob(r, s, k) /\ k.at = a /\ k.fd = NoFile
    BY <2>1, JobEndMoves
  <2>3. Turns(r, s, k)
    BY <1>1, <1>2, <1>15, <2>1, <2>2 DEF Turns, FinishVerified, At
  <2>. QED  BY <1>15, <2>2, <2>3 DEF JobMoves, FinishVerified
<1>16. CASE StatWhole(r, s)
  <2>0. SizeOf(s) \in Nat
    BY SegFileIs
  <2>1. PICK from \in Nat : from = (IF SizeOf(s) > n THEN 0 ELSE SizeOf(s)) /\ from <= n
    BY <2>0
  <2>2. PICK a \in {"get", "hash"} : a = IF from < n THEN "get" ELSE "hash"
    OBVIOUS
  <2>3. PICK k : k = [j EXCEPT !.offset = from, !.at = a]
    OBVIOUS
  <2>4. k \in Job /\ k.at = a /\ k.fd = j.fd /\ k.offset = from /\ k.stream = j.stream /\ k.attempts = j.attempts
    BY <1>5, <2>3 DEF Job
  <2>5. SetJob(r, s, k)
    BY <1>1, <1>2, <1>16, <2>1, <2>2, <2>3 DEF StatWhole, SizeOf
  <2>6. Bounded(r, s, k)
    BY <1>2, <1>3, <2>1, <2>4 DEF Bounded, NoStream, MaxAttempts
  <2>7. Looks(r, s, k)
    BY <1>1, <1>2, <1>16, <2>1, <2>2, <2>4 DEF StatWhole, Looks, SizeOf
  <2>. QED  BY <1>16, <2>4, <2>5, <2>6, <2>7 DEF JobMoves, StatWhole
<1>17. CASE GetWhole(r, s)
  <2>0. j.at = "get" /\ UNCHANGED <<dest, kills, unproved>>
    BY <1>1, <1>17 DEF GetWhole, At
  <2>1. CASE JobEnd(r, s, "failed") /\ UNCHANGED <<partial, file>>
    <3>1. PICK k : k \in Job /\ Bounded(r, s, k) /\ SetJob(r, s, k) /\ k.at = "failed" /\ k.fd = NoFile
      BY <2>1, JobEndMoves
    <3>. QED  BY <2>0, <2>1, <3>1 DEF JobMoves, Turns
  <2>2. CASE SetJob(r, s, Retry(j)) /\ UNCHANGED <<partial, file>>
    <3>1. PICK k : k \in Job /\ Bounded(r, s, k) /\ SetJob(r, s, k) /\ k.at \in {"stat", "failed"} /\ k.fd = NoFile
      BY <2>2, RetryMoves
    <3>. QED  BY <2>0, <2>2, <3>1 DEF JobMoves, Turns
  <2>3. CASE OpenSegment(s) /\ SetJob(r, s, [j EXCEPT !.at = "copy", !.fd = Opened(s)])
    <3>1. PICK k : k = [j EXCEPT !.at = "copy", !.fd = Opened(s)]
      OBVIOUS
    <3>2. Opened(s) \in Nat
      BY SegFileIs, NewInodeIs DEF Opened
    <3>3. /\ k \in Job /\ k.at = "copy" /\ k.fd = Opened(s) /\ k.offset = j.offset /\ k.stream = j.stream
          /\ k.attempts = j.attempts
      BY <1>5, <3>1, <3>2 DEF Job
    <3>4. Bounded(r, s, k)
      BY <1>2, <1>3, <3>3 DEF Bounded, NoStream, MaxAttempts
    <3>5. Opens(r, s, k)
      BY <1>1, <2>0, <2>3, <3>3 DEF Opens
    <3>. QED  BY <2>0, <2>3, <3>1, <3>3, <3>4, <3>5 DEF JobMoves
  <2>. QED  BY <1>1, <1>17, <2>1, <2>2, <2>3 DEF GetWhole
<1>18. CASE CopyWhole(r, s)
  <2>0. j.at = "copy" /\ UNCHANGED <<partial, dest, kills>>
    BY <1>1, <1>18 DEF CopyWhole, At
  <2>1. CASE SetJob(r, s, Retry(j)) /\ UNCHANGED <<file, unproved>>
    <3>1. PICK k : k \in Job /\ Bounded(r, s, k) /\ SetJob(r, s, k) /\ k.at \in {"stat", "failed"} /\ k.fd = NoFile
      BY <2>1, RetryMoves
    <3>. QED  BY <2>0, <2>1, <3>1 DEF JobMoves, Turns
  <2>2. CASE j.offset = n /\ SetJob(r, s, [j EXCEPT !.at = "hash", !.fd = NoFile]) /\ UNCHANGED <<file, unproved>>
    <3>1. PICK k : k = [j EXCEPT !.at = "hash", !.fd = NoFile]
      OBVIOUS
    <3>2. /\ k \in Job /\ k.at = "hash" /\ k.fd = NoFile /\ k.offset = j.offset /\ k.stream = j.stream
          /\ k.attempts = j.attempts
      BY <1>5, <3>1 DEF Job, NoFile
    <3>3. Bounded(r, s, k)
      BY <1>2, <1>3, <3>2 DEF Bounded, NoStream, MaxAttempts
    <3>4. Turns(r, s, k)
      BY <1>1, <1>2, <2>0, <2>2, <3>2 DEF Turns
    <3>. QED  BY <2>0, <2>2, <3>1, <3>2, <3>3, <3>4 DEF JobMoves
  <2>3. ASSUME j.offset < n, SetJob(r, s, [j EXCEPT !.offset = @ + 1]), unproved' = TRUE,
               NEW b \in Byte, file' = [file EXCEPT ![s][j.fd] = Spliced(file[s][j.fd], j.offset, 1, b)]
        PROVE  \E k : JobMoves(r, s, k)
    <3>1. PICK k : k = [j EXCEPT !.offset = @ + 1]
      OBVIOUS
    <3>2. /\ k \in Job /\ k.at = "copy" /\ k.fd = j.fd /\ k.offset = j.offset + 1 /\ k.stream = j.stream
          /\ k.attempts = j.attempts
      BY <1>3, <2>0, <3>1 DEF Job
    <3>3. Bounded(r, s, k)
      BY <1>2, <1>3, <2>3, <3>2 DEF Bounded, NoStream, MaxAttempts
    <3>4. Copies(r, s, k)
      BY <1>1, <1>2, <2>0, <2>3, <3>2 DEF Copies
    <3>. QED  BY <2>0, <2>3, <3>1, <3>2, <3>3, <3>4 DEF JobMoves
  <2>4. {Of[r], Junk} \subseteq Byte
    BY ReceiveAssumption DEF Byte
  <2>. QED  BY <1>1, <1>2, <1>18, <2>1, <2>2, <2>3, <2>4 DEF CopyWhole
<1>19. CASE HashWhole(r, s)
  <2>0. j.at = "hash" /\ UNCHANGED <<dest, file, kills, unproved>>
    BY <1>1, <1>19 DEF HashWhole, At
  <2>1. CASE JobEnd(r, s, "failed") /\ UNCHANGED partial
    <3>1. PICK k : k \in Job /\ Bounded(r, s, k) /\ SetJob(r, s, k) /\ k.at = "failed" /\ k.fd = NoFile
      BY <2>1, JobEndMoves
    <3>. QED  BY <2>0, <2>1, <3>1 DEF JobMoves, Turns
  <2>2. CASE /\ partial.seg[s] # NoFile /\ SegFile(s) = Whole(Of[r], s)
             /\ JobEnd(r, s, "ok") /\ UNCHANGED partial
    <3>1. PICK k : k \in Job /\ Bounded(r, s, k) /\ SetJob(r, s, k) /\ k.at = "ok" /\ k.fd = NoFile
      BY <2>2, JobEndMoves
    <3>. QED  BY <1>1, <2>0, <2>2, <3>1 DEF JobMoves, Turns
  <2>3. CASE /\ partial.seg[s] # NoFile /\ SegFile(s) # Whole(Of[r], s)
             /\ partial' = [partial EXCEPT !.seg[s] = NoFile] /\ SetJob(r, s, Retry(j))
    <3>1. PICK k : k \in Job /\ Bounded(r, s, k) /\ SetJob(r, s, k) /\ k.at \in {"stat", "failed"} /\ k.fd = NoFile
      BY <2>3, RetryMoves
    <3>. QED  BY <1>1, <2>0, <2>3, <3>1 DEF JobMoves, Discards
  <2>. QED  BY <1>1, <1>19, <2>1, <2>2, <2>3 DEF HashWhole
<1>. QED
  BY <1>7, <1>8, <1>9, <1>10, <1>11, <1>12, <1>13, <1>14, <1>15, <1>16, <1>17, <1>18, <1>19 DEF JobStep

-----------------------------------------------------------------------------
(* The types are kept, also when runs overlap.                             *)

Grows ==
    /\ FilesOK'
    /\ \A v \in Segment : Len(file[v]) \in Nat /\ Len(file'[v]) \in Nat /\ Len(file[v]) <= Len(file'[v])

LEMMA SameGrows == ASSUME FilesOK, UNCHANGED file PROVE Grows
<1>1. FilesOK'
  BY DEF FilesOK, Fits
<1>2. \A v \in Segment : Len(file[v]) \in Nat
  BY LenProperties DEF FilesOK
<1>. QED  BY <1>1, <1>2 DEF Grows

LEMMA SetJobIs ==
  ASSUME JobsOK, NEW r \in Receiver, NEW s \in Segment, NEW k \in Job, Bounded(r, s, k), SetJob(r, s, k)
  PROVE  /\ JobsOK' /\ UNCHANGED <<pc, todo>>
         /\ \A o \in Receiver, v \in Segment : job'[o][v] = IF o = r /\ v = s THEN k ELSE job[o][v]
<1>1. PICK x : x = [job[r] EXCEPT ![s] = k]
  OBVIOUS
<1>2. x \in [Segment -> Job] /\ \A v \in Segment : x[v] = IF v = s THEN k ELSE job[r][v]
  BY <1>1 DEF JobsOK
<1>3. job' = [job EXCEPT ![r] = x]
  BY <1>1 DEF SetJob
<1>4. /\ job' \in [Receiver -> [Segment -> Job]]
      /\ \A o \in Receiver, v \in Segment : job'[o][v] = IF o = r /\ v = s THEN k ELSE job[o][v]
  BY <1>2, <1>3 DEF JobsOK
<1>5. JobsOK'
  BY <1>4 DEF JobsOK, Bounded, SegLen
<1>. QED  BY <1>4, <1>5 DEF SetJob

\* A file that was spliced or cut is no longer than a segment.
LEMMA OverwriteGrows ==
  ASSUME RecvTypes, NEW r \in Receiver, NEW s \in Segment, NEW i, NEW f,
         i \in 1..Len(file[s]) => f \in Seq(Byte) /\ (Len(f) <= Len(file[s][i]) \/ Len(f) <= SegLen(r, s)),
         file' = [file EXCEPT ![s][i] = f]
  PROVE  Makes(s, i, f) /\ Grows
<1>1. i \in 1..Len(file[s]) => Fits(s, f)
  <2>. SUFFICES ASSUME i \in 1..Len(file[s]) PROVE Fits(s, f)
    OBVIOUS
  <2>1. Fits(s, file[s][i]) /\ file[s][i] \in Seq(Byte) /\ Of[r] \in Handoff
    BY ReceiveAssumption, ElementOfSeq DEF RecvTypes, FilesOK
  <2>2. Len(f) \in Nat /\ Len(file[s][i]) \in Nat /\ \A h \in Handoff : Length[h][s] \in Nat
    BY <2>1, LenProperties, ReceiveAssumption
  <2>. QED  BY <2>1, <2>2 DEF Fits, SegLen
<1>2. Makes(s, i, f)
  BY <1>1, WriteMakes DEF RecvTypes
<1>. QED  BY <1>2 DEF Makes, Grows

LEMMA SplicedGrows ==
  ASSUME RecvTypes, NEW r \in Receiver, NEW s \in Segment, NEW i, NEW o \in Nat, NEW n \in Nat, NEW b \in Byte,
         o + n <= SegLen(r, s), file' = [file EXCEPT ![s][i] = Spliced(file[s][i], o, n, b)]
  PROVE  Makes(s, i, Spliced(file[s][i], o, n, b)) /\ Grows
<1>. DEFINE f == Spliced(file[s][i], o, n, b)
<1>1. i \in 1..Len(file[s]) => f \in Seq(Byte) /\ (Len(f) <= Len(file[s][i]) \/ Len(f) <= SegLen(r, s))
  <2>. SUFFICES ASSUME i \in 1..Len(file[s])
                PROVE  f \in Seq(Byte) /\ (Len(f) <= Len(file[s][i]) \/ Len(f) <= SegLen(r, s))
    OBVIOUS
  <2>1. file[s][i] \in Seq(Byte)
    BY ElementOfSeq DEF RecvTypes, FilesOK
  <2>2. f \in Seq(Byte) /\ Len(f) = IF Len(file[s][i]) >= o + n THEN Len(file[s][i]) ELSE o + n
    BY <2>1, SplicedIs
  <2>3. Len(file[s][i]) \in Nat
    BY <2>1, LenProperties
  <2>. QED  BY <2>2, <2>3
<1>2. file' = [file EXCEPT ![s][i] = f]
  OBVIOUS
<1>. HIDE DEF f
<1>3. Makes(s, i, f) /\ Grows
  BY <1>1, <1>2, OverwriteGrows
<1>. QED  BY <1>3 DEF f

LEMMA OpenIs ==
  ASSUME RecvTypes, NEW r \in Receiver, NEW s \in Segment, OpenSegment(s)
  PROVE  /\ Grows /\ partial' \in PartialDir /\ partial'.pay = partial.pay
         /\ Opened(s) \in 1..Len(file'[s])
         /\ \A v \in Segment : partial'.seg[v] = IF v = s THEN Opened(s) ELSE partial.seg[v]
         /\ partial.seg[s] # NoFile => UNCHANGED file /\ Opened(s) = partial.seg[s]
         /\ partial.seg[s] = NoFile => file'[s][Opened(s)] = <<>>
         /\ \A v \in Segment : v # s /\ partial.seg[v] # NoFile => file'[v][partial.seg[v]] = file[v][partial.seg[v]]
<1>0. partial \in PartialDir
  BY DEF RecvTypes, DirsOK
<1>1. CASE partial.seg[s] # NoFile
  <2>1. UNCHANGED file /\ Opened(s) = partial.seg[s] /\ Opened(s) \in Nat /\ Opened(s) \in 1..Len(file[s])
    BY <1>1, SegFileIs DEF OpenSegment, Opened
  <2>2. Grows
    BY <2>1, SameGrows DEF RecvTypes
  <2>3. partial' \in PartialDir /\ partial'.pay = partial.pay
        /\ \A v \in Segment : partial'.seg[v] = IF v = s THEN Opened(s) ELSE partial.seg[v]
    BY <1>0, <2>1, SegSet DEF OpenSegment
  <2>. QED  BY <1>1, <2>1, <2>2, <2>3
<1>2. CASE partial.seg[s] = NoFile
  <2>1. Opened(s) = NewInode(s) /\ Create(s, <<>>)
    BY <1>2 DEF OpenSegment, Opened
  <2>2. <<>> \in Seq(Byte) /\ Fits(s, <<>>)
    <3>1. Of[r] \in Handoff /\ Length[Of[r]][s] \in Nat
      BY ReceiveAssumption
    <3>. QED  BY <3>1, EmptySeq DEF Fits
  <2>3. Makes(s, Opened(s), <<>>) /\ Opened(s) \in 1..Len(file'[s])
    BY <2>1, <2>2, CreateMakes
  <2>4. partial' \in PartialDir /\ partial'.pay = partial.pay
        /\ \A v \in Segment : partial'.seg[v] = IF v = s THEN Opened(s) ELSE partial.seg[v]
    <3>1. PICK i \in Nat : i = Opened(s)
      BY <2>1, NewInodeIs
    <3>2. partial' = [partial EXCEPT !.seg[s] = i]
      BY <3>1 DEF OpenSegment
    <3>3. partial' \in PartialDir /\ partial'.pay = partial.pay
          /\ \A v \in Segment : partial'.seg[v] = IF v = s THEN i ELSE partial.seg[v]
      BY <1>0, <3>2, SegSet
    <3>. QED  BY <3>1, <3>3
  <2>5. \A v \in Segment : v # s /\ partial.seg[v] # NoFile => file'[v][partial.seg[v]] = file[v][partial.seg[v]]
    BY <2>3, SegFileIs DEF Makes
  <2>. QED  BY <1>2, <2>3, <2>4, <2>5 DEF Makes, Grows
<1>. QED  BY <1>1, <1>2

\* The disk after a step of a download that then has the value k.
DiskAfter(s, k) ==
    /\ Grows /\ partial' \in PartialDir /\ partial'.pay = partial.pay /\ unproved' \in BOOLEAN
    /\ k.fd <= Len(file'[s])
    /\ \A v \in Segment : partial'.seg[v] <= Len(file'[v])

LEMMA JobMovesTypes ==
  ASSUME RecvTypes, NEW r \in Receiver, NEW s \in Segment, NEW k, JobMoves(r, s, k)
  PROVE  RecvTypes'
<1>0. /\ FilesOK /\ DirsOK /\ JobsOK /\ partial \in PartialDir /\ dest \in DestDir /\ k \in Job /\ Bounded(r, s, k)
      /\ SetJob(r, s, k) /\ UNCHANGED <<dest, kills>>
  BY DEF JobMoves, RecvTypes, DirsOK
<1>1. PICK j \in Job : j = job[r][s] /\ j.fd <= Len(file[s]) /\ j.offset <= SegLen(r, s)
  BY DEF RecvTypes, JobsOK, RefsOK, Bounded
<1>2. j.fd \in Nat /\ j.offset \in Nat /\ k.fd \in Nat /\ unproved \in BOOLEAN /\ NoFile = 0
  BY <1>0 DEF Job, NoFile, RecvTypes, RunsOK
<1>3. \A v \in Segment : partial.seg[v] \in Nat /\ partial.seg[v] <= Len(file[v])
  BY SegFileIs
<1>4. DiskAfter(s, k)
  <2>1. ASSUME UNCHANGED file, k.fd \in {NoFile, j.fd}, UNCHANGED unproved,
               UNCHANGED partial \/ partial' = [partial EXCEPT !.seg[s] = NoFile]
        PROVE  DiskAfter(s, k)
    <3>1. Grows
      BY <1>0, <2>1, SameGrows
    <3>2. /\ partial' \in PartialDir /\ partial'.pay = partial.pay
          /\ \A v \in Segment : partial'.seg[v] \in {partial.seg[v], 0}
      BY <1>0, <1>2, <2>1, SegSet
    <3>3. \A v \in Segment : Len(file[v]) \in Nat
      BY <3>1 DEF Grows
    <3>4. k.fd <= Len(file'[s]) /\ \A v \in Segment : partial'.seg[v] <= Len(file'[v])
      BY <1>1, <1>2, <1>3, <2>1, <3>2, <3>3
    <3>. QED  BY <1>2, <2>1, <3>1, <3>2, <3>4 DEF DiskAfter
  <2>2. ASSUME Grows, k.fd \in {NoFile, j.fd}, unproved' \in BOOLEAN, UNCHANGED partial
        PROVE  DiskAfter(s, k)
    <3>1. \A v \in Segment : partial'.seg[v] <= Len(file'[v])
      BY <1>3, <2>2 DEF Grows
    <3>2. k.fd <= Len(file'[s])
      BY <1>1, <1>2, <2>2 DEF Grows
    <3>. QED  BY <1>0, <2>2, <3>1, <3>2 DEF DiskAfter
  <2>3. CASE Turns(r, s, k) \/ Looks(r, s, k) \/ Discards(r, s, k)
    BY <1>1, <2>1, <2>3 DEF Turns, Looks, Discards
  <2>4. CASE Opens(r, s, k)
    <3>1. OpenSegment(s) /\ k.fd = Opened(s) /\ unproved' = unproved
      BY <2>4 DEF Opens
    <3>2. /\ Grows /\ partial' \in PartialDir /\ partial'.pay = partial.pay
          /\ Opened(s) \in 1..Len(file'[s])
          /\ \A v \in Segment : partial'.seg[v] = IF v = s THEN Opened(s) ELSE partial.seg[v]
      BY <3>1, OpenIs
    <3>3. \A v \in Segment : partial.seg[v] <= Len(file'[v]) /\ Len(file'[v]) \in Nat
      BY <1>3, <3>2 DEF Grows
    <3>. QED  BY <1>2, <3>1, <3>2, <3>3 DEF DiskAfter
  <2>5. CASE Trims(r, s, k)
    <3>1. j.fd \in 1..Len(file[s]) => /\ Truncated(file[s][j.fd], j.offset) \in Seq(Byte)
                                      /\ Len(Truncated(file[s][j.fd], j.offset)) <= SegLen(r, s)
      <4>. SUFFICES ASSUME j.fd \in 1..Len(file[s])
                    PROVE  /\ Truncated(file[s][j.fd], j.offset) \in Seq(Byte)
                           /\ Len(Truncated(file[s][j.fd], j.offset)) <= SegLen(r, s)
        OBVIOUS
      <4>1. file[s][j.fd] \in Seq(Byte)
        BY <1>0, ElementOfSeq DEF FilesOK
      <4>. QED  BY <1>1, <1>2, <4>1, TruncatedIs
    <3>2. file' = [file EXCEPT ![s][j.fd] = Truncated(file[s][j.fd], j.offset)]
      BY <1>1, <2>5 DEF Trims
    <3>3. Grows
      BY <3>1, <3>2, OverwriteGrows
    <3>. QED  BY <1>1, <1>2, <2>2, <2>5, <3>3 DEF Trims
  <2>6. CASE Writes(r, s, k)
    <3>1. PICK n \in 0..Want(r, s) : WritesFile(r, s, n)
      BY <2>6 DEF Writes
    <3>2. n \in Nat /\ j.offset + n <= SegLen(r, s) /\ Of[r] \in Byte
      BY <1>1, <1>2, WantIs DEF Byte
    <3>3. Grows
      BY <1>1, <1>2, <3>1, <3>2, SplicedGrows DEF WritesFile
    <3>. QED  BY <1>1, <1>2, <2>2, <2>6, <3>3 DEF Writes
  <2>7. CASE Copies(r, s, k)
    <3>1. PICK b \in Byte : file' = [file EXCEPT ![s][j.fd] = Spliced(file[s][j.fd], j.offset, 1, b)]
      BY <1>1, <2>7 DEF Copies
    <3>2. j.offset + 1 <= SegLen(r, s)
      BY <1>1, <1>2, <2>7, WantIs DEF Copies
    <3>3. Grows
      BY <1>2, <3>1, <3>2, SplicedGrows
    <3>. QED  BY <1>1, <1>2, <2>2, <2>7, <3>3 DEF Copies
  <2>. QED  BY <2>3, <2>4, <2>5, <2>6, <2>7 DEF JobMoves
<1>5. JobsOK' /\ UNCHANGED <<pc, todo>>
      /\ \A o \in Receiver, v \in Segment : job'[o][v] = IF o = r /\ v = s THEN k ELSE job[o][v]
  BY <1>0, SetJobIs
<1>6. RefsOK'
  <2>1. \A v \in Segment : /\ partial.pay[v] \in Nat /\ dest.pay[v] \in Nat /\ partial.pay[v] <= Len(file[v])
                           /\ dest.pay[v] <= Len(file[v])
    BY <1>0 DEF RecvTypes, RefsOK, PartialDir, DestDir, Dir
  <2>2. \A v \in Segment : partial'.pay[v] <= Len(file'[v]) /\ dest'.pay[v] <= Len(file'[v])
    BY <1>0, <1>4, <2>1 DEF DiskAfter, Grows
  <2>3. \A o \in Receiver, v \in Segment : job[o][v].fd \in Nat /\ job[o][v].fd <= Len(file[v])
    BY <1>0 DEF RecvTypes, RefsOK, JobsOK, Job
  <2>4. \A o \in Receiver, v \in Segment : job'[o][v].fd <= Len(file'[v])
    BY <1>4, <1>5, <2>3 DEF DiskAfter, Grows
  <2>. QED  BY <1>4, <2>2, <2>4 DEF DiskAfter, RefsOK
<1>7. RunsOK'
  BY <1>0, <1>4, <1>5 DEF DiskAfter, RecvTypes, RunsOK
<1>. QED  BY <1>0, <1>4, <1>5, <1>6, <1>7 DEF DiskAfter, RecvTypes, DirsOK, Grows

\* A run after a step of its main goroutine: downloads only end or are queued.
RunsAfter ==
    /\ JobsOK'
    /\ \A o \in Receiver, v \in Segment : job'[o][v].fd \in {job[o][v].fd, NoFile}
    /\ pc' \in [Receiver -> Place]
    /\ todo' \in [Receiver -> SUBSET Segment]
    /\ \A o \in Receiver : pc'[o] = "place" => todo'[o] # {}

LEMMA GotoAfter ==
  ASSUME RecvTypes, NEW r \in Receiver, NEW a \in Place, a # "place", Goto(r, a)
  PROVE  RunsAfter
<1>1. JobsOK'
  BY DEF Goto, RecvTypes, JobsOK, Bounded, SegLen
<1>. QED  BY <1>1 DEF Goto, RunsAfter, RecvTypes, RunsOK

\* The downloads of run r become x.
LEMMA JobsAfter ==
  ASSUME RecvTypes, NEW r \in Receiver, NEW a \in Place, NEW y \in SUBSET Segment, a = "place" => y # {},
         NEW x \in [Segment -> Job],
         \A v \in Segment : x[v].fd = NoFile /\ Bounded(r, v, x[v]),
         pc' = [pc EXCEPT ![r] = a], job' = [job EXCEPT ![r] = x], todo' = [todo EXCEPT ![r] = y]
  PROVE  RunsAfter
<1>1. /\ job' \in [Receiver -> [Segment -> Job]]
      /\ \A o \in Receiver : job'[o] = IF o = r THEN x ELSE job[o]
  BY DEF RecvTypes, JobsOK
<1>2. JobsOK'
  BY <1>1 DEF RecvTypes, JobsOK, Bounded, SegLen
<1>3. \A o \in Receiver, v \in Segment : job'[o][v].fd \in {job[o][v].fd, NoFile}
  BY <1>1
<1>. QED  BY <1>2, <1>3 DEF RunsAfter, RecvTypes, RunsOK

LEMMA NoJobsBounded ==
  ASSUME NEW r \in Receiver
  PROVE  \A v \in Segment : NoJobs[v].fd = NoFile /\ Bounded(r, v, NoJobs[v])
  BY NoJobIs, FreshJob DEF MaxAttempts

LEMMA StopAfter ==
  ASSUME RecvTypes, NEW r \in Receiver, NEW a \in Ended, Stop(r, a)
  PROVE  RunsAfter
<1>1. a \in Place /\ a # "place" /\ {} \in SUBSET Segment
  BY DEF Place, Ended
<1>2. NoJobs \in [Segment -> Job]
  BY NoJobIs
<1>. QED  BY <1>1, <1>2, NoJobsBounded, JobsAfter DEF Stop

LEMMA RunTypes ==
  ASSUME RecvTypes, RunsAfter, Grows, partial' \in PartialDir, dest' \in DestDir, kills' \in 0..MaxKills, UNCHANGED unproved,
         \A v \in Segment : partial'.seg[v] <= Len(file'[v]) /\ partial'.pay[v] <= Len(file'[v])
                            /\ dest'.pay[v] <= Len(file'[v])
  PROVE  RecvTypes'
<1>1. RunsOK'
  BY DEF RunsAfter, RunsOK, RecvTypes
<1>2. \A o \in Receiver, v \in Segment : job'[o][v].fd <= Len(file'[v])
  <2>1. \A o \in Receiver, v \in Segment : job[o][v].fd \in Nat /\ job[o][v].fd <= Len(file[v])
    BY DEF RecvTypes, RefsOK, JobsOK, Job
  <2>. QED  BY <2>1 DEF RunsAfter, Grows, NoFile
<1>3. RefsOK'
  BY <1>2 DEF RefsOK
<1>. QED  BY <1>1, <1>3 DEF RecvTypes, RunsAfter, Grows, DirsOK

\* Names move between the directories, and files stay as they are.
LEMMA NamesTypes ==
  ASSUME RecvTypes, RunsAfter, UNCHANGED <<file, unproved>>, partial' \in PartialDir, dest' \in DestDir,
         kills' \in 0..MaxKills,
         \A v \in Segment : /\ partial'.seg[v] \in {partial.seg[v], NoFile}
                            /\ partial'.pay[v] \in {partial.seg[v], partial.pay[v], NoFile}
                            /\ dest'.pay[v] \in {partial.pay[v], dest.pay[v]}
  PROVE  RecvTypes'
<1>1. Grows
  BY SameGrows DEF RecvTypes
<1>2. \A v \in Segment : /\ partial.seg[v] <= Len(file[v]) /\ partial.pay[v] <= Len(file[v])
                         /\ dest.pay[v] <= Len(file[v]) /\ Len(file[v]) \in Nat
  BY <1>1 DEF RecvTypes, RefsOK, Grows
<1>3. \A v \in Segment : partial'.seg[v] <= Len(file'[v]) /\ partial'.pay[v] <= Len(file'[v])
                         /\ dest'.pay[v] <= Len(file'[v])
  BY <1>2 DEF NoFile
<1>. QED  BY <1>1, <1>3, RunTypes

LEMMA TodoIs ==
  ASSUME RecvTypes, NEW r \in Receiver, pc[r] = "place"
  PROVE  Min(todo[r]) \in Segment /\ Min(todo[r]) \in todo[r]
<1>1. todo[r] # {} /\ todo[r] \subseteq Segment /\ todo[r] \subseteq Nat
  BY ReceiveAssumption DEF RecvTypes, RunsOK
<1>2. Min(todo[r]) \in todo[r]
  BY <1>1, MinIn
<1>. QED  BY <1>1, <1>2

LEMMA PlacedAfter ==
  ASSUME RecvTypes, NEW r \in Receiver, pc[r] = "place", Placed(r, Min(todo[r]))
  PROVE  RunsAfter
<1>1. PICK s \in Segment : s = Min(todo[r]) /\ s \in todo[r]
  BY TodoIs
<1>2. JobsOK' /\ UNCHANGED job
  BY DEF Placed, RecvTypes, JobsOK, Bounded, SegLen
<1>3. pc' \in [Receiver -> Place] /\ todo' \in [Receiver -> SUBSET Segment]
  BY <1>1 DEF Placed, RecvTypes, RunsOK, Place
<1>4. \A o \in Receiver : pc'[o] = "place" => todo'[o] # {}
  <2>1. pc'[r] = "place" => todo'[r] # {}
    <3>1. pc'[r] = (IF todo[r] = {s} THEN "verify" ELSE "place") /\ todo'[r] = todo[r] \ {s}
      BY <1>1 DEF Placed, RecvTypes, RunsOK
    <3>. QED  BY <1>1, <3>1
  <2>2. \A o \in Receiver : o # r => pc'[o] = pc[o] /\ todo'[o] = todo[o]
    BY DEF Placed, RecvTypes, RunsOK
  <2>. QED  BY <2>1, <2>2 DEF RecvTypes, RunsOK
<1>. QED  BY <1>2, <1>3, <1>4 DEF RunsAfter

\* A pack becomes the file of its payload.
LEMMA ExtractIs ==
  ASSUME RecvTypes, NEW s \in Segment, NEW c \in Seq(Byte), Fits(s, c), Extract(s, c)
  PROVE  /\ Grows /\ partial' \in PartialDir
         /\ \A v \in Segment : partial'.seg[v] <= Len(file'[v]) /\ partial'.pay[v] <= Len(file'[v])
         /\ \A v \in Segment : partial'.seg[v] \in {partial.seg[v], NoFile}
         /\ \A v \in Segment : partial'.seg[v] # NoFile => file'[v][partial'.seg[v]] = file[v][partial.seg[v]]
<1>1. PICK i \in Nat : i = NewInode(s) /\ Makes(s, i, c) /\ i \in 1..Len(file'[s])
  BY NewInodeIs, CreateMakes DEF Extract
<1>2. PICK p : p = [partial.pay EXCEPT ![s] = i]
  OBVIOUS
<1>3. PICK g : g = [partial.seg EXCEPT ![s] = NoFile]
  OBVIOUS
<1>4. /\ partial' \in PartialDir
      /\ \A v \in Segment : /\ partial'.pay[v] = IF v = s THEN i ELSE partial.pay[v]
                            /\ partial'.seg[v] = IF v = s THEN NoFile ELSE partial.seg[v]
  <2>1. partial \in PartialDir
    BY DEF RecvTypes, DirsOK
  <2>2. p \in Dir /\ g \in Dir
    BY <1>1, <1>2, <1>3, <2>1 DEF PartialDir, Dir, NoFile
  <2>3. \A v \in Segment : /\ p[v] = IF v = s THEN i ELSE partial.pay[v]
                          /\ g[v] = IF v = s THEN NoFile ELSE partial.seg[v]
    BY <1>2, <1>3, <2>1 DEF PartialDir, Dir
  <2>4. partial' = [partial EXCEPT !.paydir = TRUE, !.seg = g, !.pay = p]
    BY <1>1, <1>2, <1>3, <2>1 DEF Extract, PartialDir
  <2>5. partial' \in PartialDir /\ partial'.pay = p /\ partial'.seg = g
    BY <2>1, <2>2, <2>4 DEF PartialDir
  <2>. QED  BY <2>3, <2>5
<1>5. Grows
  BY <1>1 DEF Makes, Grows
<1>6. \A v \in Segment : partial.seg[v] <= Len(file'[v]) /\ partial.pay[v] <= Len(file'[v]) /\ Len(file'[v]) \in Nat
  <2>1. \A v \in Segment : partial.seg[v] \in Nat /\ partial.pay[v] \in Nat
    BY DEF RecvTypes, DirsOK, PartialDir, Dir
  <2>. QED  BY <1>5, <2>1 DEF RecvTypes, RefsOK, Grows
<1>7. \A v \in Segment : partial'.seg[v] # NoFile => file'[v][partial'.seg[v]] = file[v][partial.seg[v]]
  <2>. SUFFICES ASSUME NEW v \in Segment, partial'.seg[v] # NoFile
                PROVE  file'[v][partial'.seg[v]] = file[v][partial.seg[v]]
    OBVIOUS
  <2>1. v # s /\ partial'.seg[v] = partial.seg[v] /\ partial.seg[v] # NoFile
    BY <1>4
  <2>. QED  BY <1>1, <2>1, SegFileIs DEF Makes
<1>. QED  BY <1>1, <1>4, <1>5, <1>6, <1>7 DEF NoFile

\* Names of the working directory go.
Thinned ==
    /\ partial' \in PartialDir
    /\ \A v \in Segment : partial'.seg[v] \in {partial.seg[v], NoFile} /\ partial'.pay[v] \in {partial.pay[v], NoFile}

LEMMA RunStepTypes ==
  ASSUME RecvTypes, NEW r \in Receiver, Begin(r) \/ RunStep(r)
  PROVE  RecvTypes'
<1>0. partial \in PartialDir /\ dest \in DestDir /\ kills \in 0..MaxKills /\ Of[r] \in Handoff
  BY ReceiveAssumption DEF RecvTypes, DirsOK, RunsOK
<1>. USE DEF Place, Ended
<1>1. CASE Begin(r)
  <2>1. RunsAfter
    BY <1>1, GotoAfter DEF Begin
  <2>. QED  BY <1>0, <1>1, <2>1, NamesTypes DEF Begin
<1>2. CASE MakeSegmentsDir(r)
  <2>1. PICK x : x = [s \in Segment |-> IF s \in Files[Of[r]] THEN [NoJob EXCEPT !.at = "queued"] ELSE NoJob]
    OBVIOUS
  <2>2. PICK q : q = [NoJob EXCEPT !.at = "queued"]
    OBVIOUS
  <2>3. q \in Job /\ q.at = "queued" /\ q.fd = NoFile /\ q.offset = 0 /\ q.stream = NoStream /\ q.attempts = 0
    BY <2>2, NoJobIs DEF Job, JobAt
  <2>4. x \in [Segment -> Job] /\ \A v \in Segment : x[v] \in {q, NoJob}
    BY <2>1, <2>2, <2>3, NoJobIs
  <2>5. \A v \in Segment : x[v].fd = NoFile /\ Bounded(r, v, x[v])
    BY <2>3, <2>4, NoJobIs, FreshJob DEF MaxAttempts
  <2>6. todo' = [todo EXCEPT ![r] = todo[r]] /\ todo[r] \in SUBSET Segment
    BY <1>2 DEF MakeSegmentsDir, RecvTypes, RunsOK
  <2>7. pc' = [pc EXCEPT ![r] = "fetch"] /\ job' = [job EXCEPT ![r] = x]
    BY <1>2, <2>1 DEF MakeSegmentsDir
  <2>8. RunsAfter
    BY <2>4, <2>5, <2>6, <2>7, JobsAfter
  <2>9. partial' \in PartialDir /\ partial'.seg = partial.seg /\ partial'.pay = partial.pay
    BY <1>0, <1>2 DEF MakeSegmentsDir, PartialDir
  <2>. QED  BY <1>0, <1>2, <2>8, <2>9, NamesTypes DEF MakeSegmentsDir
<1>3. CASE FetchEnd(r)
  <2>1. CASE Stop(r, "failed") /\ UNCHANGED partial
    <3>1. RunsAfter
      BY <2>1, StopAfter
    <3>. QED  BY <1>0, <1>3, <2>1, <3>1, NamesTypes DEF FetchEnd
  <2>2. CASE ~(Stop(r, "failed") /\ UNCHANGED partial)
    <3>1. Files[Of[r]] \in SUBSET Segment /\ Files[Of[r]] # {}
      BY <1>0, ReceiveAssumption
    <3>2. NoJobs \in [Segment -> Job]
      BY NoJobIs
    <3>3. /\ pc' = [pc EXCEPT ![r] = "place"] /\ job' = [job EXCEPT ![r] = NoJobs]
          /\ todo' = [todo EXCEPT ![r] = Files[Of[r]]]
      BY <1>3, <2>2 DEF FetchEnd
    <3>4. RunsAfter
      BY <3>1, <3>2, <3>3, NoJobsBounded, JobsAfter
    <3>5. partial' \in PartialDir /\ partial'.seg = partial.seg /\ partial'.pay = partial.pay
      BY <1>0, <1>3, <2>2 DEF FetchEnd, PartialDir
    <3>. QED  BY <1>0, <1>3, <3>4, <3>5, NamesTypes DEF FetchEnd
  <2>. QED  BY <2>1, <2>2
<1>4. CASE PlaceRaw(r)
  <2>1. RunsAfter
    BY <1>4, PlacedAfter DEF PlaceRaw
  <2>2. PICK s \in Segment : s = Min(todo[r])
    BY <1>4, TodoIs DEF PlaceRaw
  <2>3. PICK p : p = [partial.pay EXCEPT ![s] = partial.seg[s]]
    OBVIOUS
  <2>4. PICK g : g = [partial.seg EXCEPT ![s] = NoFile]
    OBVIOUS
  <2>5. p \in Dir /\ g \in Dir
    BY <1>0, <2>3, <2>4 DEF PartialDir, Dir, NoFile
  <2>6. \A v \in Segment : p[v] \in {partial.seg[v], partial.pay[v]} /\ g[v] \in {partial.seg[v], NoFile}
    BY <1>0, <2>3, <2>4 DEF PartialDir, Dir
  <2>7. partial' = [partial EXCEPT !.pay = p, !.seg = g]
    BY <1>0, <1>4, <2>2, <2>3, <2>4 DEF PlaceRaw, PartialDir
  <2>8. partial' \in PartialDir /\ partial'.pay = p /\ partial'.seg = g
    BY <1>0, <2>5, <2>7 DEF PartialDir
  <2>. QED  BY <1>0, <1>4, <2>1, <2>6, <2>8, NamesTypes DEF PlaceRaw
<1>5. CASE PlacePack(r)
  <2>1. RunsAfter
    BY <1>5, PlacedAfter DEF PlacePack
  <2>2. PICK s \in Segment : s = Min(todo[r])
    BY <1>5, TodoIs DEF PlacePack
  <2>3. PICK c : c = Whole(Of[r], s) /\ c \in Seq(Byte) /\ Fits(s, c)
    <3>1. Len(Whole(Of[r], s)) <= Length[Of[r]][s]
      BY <1>0, WholeIs, ReceiveAssumption
    <3>. QED  BY <1>0, <3>1, WholeIs DEF Fits
  <2>4. Extract(s, c) /\ UNCHANGED <<dest, kills, unproved>>
    BY <1>5, <2>2, <2>3 DEF PlacePack
  <2>5. /\ Grows /\ partial' \in PartialDir
        /\ \A v \in Segment : partial'.seg[v] <= Len(file'[v]) /\ partial'.pay[v] <= Len(file'[v])
    BY <2>3, <2>4, ExtractIs
  <2>6. \A v \in Segment : dest'.pay[v] <= Len(file'[v])
    <3>1. \A v \in Segment : dest.pay[v] \in Nat /\ dest.pay[v] <= Len(file[v])
      BY <1>0 DEF RecvTypes, RefsOK, DestDir, Dir
    <3>. QED  BY <2>4, <2>5, <3>1 DEF Grows
  <2>. QED  BY <1>0, <2>1, <2>4, <2>5, <2>6, RunTypes
<1>6. CASE PlaceFails(r)
  <2>1. RunsAfter
    BY <1>6, GotoAfter DEF PlaceFails
  <2>2. PICK s \in Segment : s = Min(todo[r])
    BY <1>6, TodoIs DEF PlaceFails
  <2>3. UNCHANGED partial \/ partial' = [partial EXCEPT !.seg[s] = NoFile]
    BY <1>6, <2>2 DEF PlaceFails
  <2>4. partial' \in PartialDir /\ partial'.pay = partial.pay /\ \A v \in Segment : partial'.seg[v] \in {partial.seg[v], NoFile}
    BY <1>0, <2>3, SegSet DEF NoFile
  <2>. QED  BY <1>0, <1>6, <2>1, <2>4, NamesTypes DEF PlaceFails
<1>7. CASE Verify(r) \/ LstatDest(r)
  <2>1. RunsAfter
    BY <1>7, GotoAfter DEF Verify, LstatDest
  <2>. QED  BY <1>0, <1>7, <2>1, NamesTypes DEF Verify, LstatDest
<1>8. CASE RemoveSegmentsDir(r)
  <2>1. RunsAfter
    BY <1>8, GotoAfter DEF RemoveSegmentsDir
  <2>2. partial' \in PartialDir /\ partial'.seg = partial.seg /\ partial'.pay = partial.pay
    BY <1>0, <1>8 DEF RemoveSegmentsDir, PartialDir
  <2>. QED  BY <1>0, <1>8, <2>1, <2>2, NamesTypes DEF RemoveSegmentsDir
<1>9. CASE RenamePayload(r)
  <2>1. RunsAfter
    BY <1>9, GotoAfter DEF RenamePayload
  <2>2. CASE UNCHANGED <<partial, dest>>
    BY <1>0, <1>9, <2>1, <2>2, NamesTypes DEF RenamePayload
  <2>3. CASE /\ dest' = [here |-> TRUE, pay |-> partial.pay, of |-> Of[r]]
             /\ partial' = [partial EXCEPT !.paydir = FALSE, !.pay = NoFiles]
    <3>1. dest' \in DestDir /\ dest'.pay = partial.pay
      BY <1>0, <2>3 DEF DestDir, PartialDir, Byte
    <3>2. NoFiles \in Dir /\ \A v \in Segment : NoFiles[v] = NoFile
      BY DEF NoFiles, Dir, NoFile
    <3>3. partial' \in PartialDir /\ partial'.seg = partial.seg /\ partial'.pay = NoFiles
      BY <1>0, <2>3, <3>2 DEF PartialDir
    <3>4. UNCHANGED <<file, kills, unproved>>
      BY <1>9 DEF RenamePayload
    <3>5. \A v \in Segment : /\ partial'.seg[v] \in {partial.seg[v], NoFile}
                             /\ partial'.pay[v] \in {partial.seg[v], partial.pay[v], NoFile}
                             /\ dest'.pay[v] \in {partial.pay[v], dest.pay[v]}
      BY <3>1, <3>2, <3>3
    <3>. QED  BY <1>0, <2>1, <3>1, <3>3, <3>4, <3>5, NamesTypes
  <2>. QED  BY <1>9, <2>2, <2>3 DEF RenamePayload
<1>10. CASE RemovePartial(r)
  <2>1. RunsAfter
    <3>1. ASSUME Goto(r, pc[r]) PROVE RunsAfter
      BY <1>10, <3>1, GotoAfter DEF RemovePartial
    <3>. QED  BY <1>10, <3>1, StopAfter DEF RemovePartial
  <2>2. Thinned
    <3>1. ASSUME NEW s \in Segment, partial' = [partial EXCEPT !.seg[s] = NoFile] PROVE Thinned
      BY <1>0, <3>1, SegSet DEF NoFile, Thinned
    <3>2. ASSUME NEW s \in Segment, partial' = [partial EXCEPT !.pay[s] = NoFile] PROVE Thinned
      BY <1>0, <3>2, PaySet DEF NoFile, Thinned
    <3>3. CASE partial' = NoDir
      BY <3>3 DEF NoDir, PartialDir, Dir, NoFiles, NoFile, Thinned
    <3>. QED  BY <1>10, <3>1, <3>2, <3>3 DEF RemovePartial
  <2>. QED  BY <1>0, <1>10, <2>1, <2>2, NamesTypes DEF RemovePartial, Thinned
<1>. QED  BY <1>1, <1>2, <1>3, <1>4, <1>5, <1>6, <1>7, <1>8, <1>9, <1>10 DEF RunStep

LEMMA KillTypes ==
  ASSUME RecvTypes, NEW r \in Receiver, Kill(r)
  PROVE  RecvTypes'
<1>0. partial \in PartialDir /\ dest \in DestDir /\ kills' \in 0..MaxKills /\ Of[r] \in Handoff
      /\ UNCHANGED <<dest, unproved>>
  BY ReceiveAssumption DEF RecvTypes, DirsOK, RunsOK, Kill
<1>1. RunsAfter
  BY StopAfter DEF Kill, Ended
<1>2. \A v \in Segment : /\ dest.pay[v] \in Nat /\ dest.pay[v] <= Len(file[v])
                         /\ partial.seg[v] \in Nat /\ partial.seg[v] <= Len(file[v])
                         /\ partial.pay[v] \in Nat /\ partial.pay[v] <= Len(file[v])
  BY <1>0 DEF RecvTypes, RefsOK, PartialDir, DestDir, Dir
<1>3. CASE UNCHANGED <<partial, file>>
  BY <1>0, <1>1, <1>3, NamesTypes
<1>4. ASSUME NEW s \in Segment, At(r, s, "write"), NEW n \in 1..(Want(r, s) - 1), WritesFile(r, s, n), UNCHANGED partial
      PROVE  RecvTypes'
  <2>1. job[r][s].offset \in Nat
    BY DEF RecvTypes, JobsOK, Job
  <2>2. n \in Nat /\ job[r][s].offset + n <= SegLen(r, s) /\ Of[r] \in Byte
    BY <1>4, <2>1, WantIs DEF Byte
  <2>3. Grows
    BY <1>4, <2>1, <2>2, SplicedGrows DEF WritesFile
  <2>4. \A v \in Segment : partial'.seg[v] <= Len(file'[v]) /\ partial'.pay[v] <= Len(file'[v])
                           /\ dest'.pay[v] <= Len(file'[v])
    BY <1>0, <1>2, <1>4, <2>3 DEF Grows
  <2>. QED  BY <1>0, <1>1, <1>4, <2>3, <2>4, RunTypes
<1>5. ASSUME pc[r] = "place", Extract(Min(todo[r]), <<>>)
      PROVE  RecvTypes'
  <2>1. PICK s \in Segment : s = Min(todo[r])
    BY <1>5, TodoIs
  <2>2. <<>> \in Seq(Byte) /\ Fits(s, <<>>)
    <3>1. Length[Of[r]][s] \in Nat
      BY <1>0, ReceiveAssumption
    <3>. QED  BY <1>0, <3>1, EmptySeq DEF Fits
  <2>3. /\ Grows /\ partial' \in PartialDir
        /\ \A v \in Segment : partial'.seg[v] <= Len(file'[v]) /\ partial'.pay[v] <= Len(file'[v])
    BY <1>5, <2>1, <2>2, ExtractIs
  <2>4. \A v \in Segment : dest'.pay[v] <= Len(file'[v])
    BY <1>0, <1>2, <2>3 DEF Grows
  <2>. QED  BY <1>0, <1>1, <2>3, <2>4, RunTypes
<1>. QED  BY <1>3, <1>4, <1>5 DEF Kill, WritesFile

LEMMA RecvTypesInit ==
  ASSUME ReceiveInit
  PROVE  RecvTypes
<1>1. DirsOK
  BY DEF ReceiveInit, DirsOK, PartialDir, DestDir, Dir, NoDir, NoDest, NoFiles, NoFile, Byte
<1>2. \A s \in Segment : file[s] = <<>>
  BY DEF ReceiveInit
<1>3. FilesOK
  <2>1. <<>> \in Seq(Seq(Byte)) /\ Len(<<>>) = 0
    BY EmptySeq
  <2>2. \A s \in Segment : 1..Len(file[s]) = {}
    BY <1>2, <2>1
  <2>. QED  BY <1>2, <2>1, <2>2 DEF ReceiveInit, FilesOK
<1>4. JobsOK
  BY NoJobIs, NoJobsBounded DEF ReceiveInit, JobsOK
<1>5. RefsOK
  <2>1. \A s \in Segment : Len(file[s]) = 0
    BY <1>2, EmptySeq
  <2>2. \A s \in Segment : partial.seg[s] = 0 /\ partial.pay[s] = 0 /\ dest.pay[s] = 0
    BY DEF ReceiveInit, NoDir, NoDest, NoFiles, NoFile
  <2>3. \A r \in Receiver, s \in Segment : job[r][s].fd = 0
    BY NoJobIs DEF ReceiveInit, NoFile
  <2>. QED  BY <2>1, <2>2, <2>3 DEF RefsOK
<1>6. RunsOK
  <2>1. pc \in [Receiver -> Place] /\ \A r \in Receiver : pc[r] = "idle"
    BY DEF ReceiveInit, Place
  <2>2. todo \in [Receiver -> SUBSET Segment]
    BY DEF ReceiveInit
  <2>3. kills \in 0..MaxKills
    BY ReceiveAssumption DEF ReceiveInit
  <2>4. unproved \in BOOLEAN
    BY Zenon DEF ReceiveInit
  <2>. QED  BY <2>1, <2>2, <2>3, <2>4 DEF RunsOK
<1>. QED  BY <1>1, <1>3, <1>4, <1>5, <1>6 DEF RecvTypes

LEMMA RecvTypesNext ==
  ASSUME RecvTypes, [ReceiveNext]_recvVars
  PROVE  RecvTypes'
<1>1. CASE ReceiveNext
  <2>1. PICK r \in Receiver : \/ Begin(r) \/ RunStep(r) \/ Kill(r)
                              \/ \E s \in Segment : JobStep(r, s)
    BY <1>1 DEF ReceiveNext
  <2>2. ASSUME NEW s \in Segment, JobStep(r, s)
        PROVE  RecvTypes'
    <3>1. PICK k : JobMoves(r, s, k)
      BY <2>2, JobSteps
    <3>. QED  BY <3>1, JobMovesTypes
  <2>. QED  BY <2>1, <2>2, RunStepTypes, KillTypes
<1>2. CASE UNCHANGED recvVars
  BY <1>2 DEF recvVars, RecvTypes, DirsOK, FilesOK, Fits, RefsOK, JobsOK, Bounded, SegLen, RunsOK
<1>. QED  BY <1>1, <1>2

LEMMA RecvTypesAlways == ReceiveSpec => []RecvTypes
<1>1. ReceiveInit => RecvTypes
  BY RecvTypesInit
<1>2. RecvTypes /\ [ReceiveNext]_recvVars => RecvTypes'
  BY RecvTypesNext
<1>. QED  BY <1>1, <1>2, PTL DEF ReceiveSpec

\* The variables keep their types and the downloads their bounds, for runs one
\* after the other and for runs that overlap: no file grows past its segment, no
\* offset or stream passes the end, no loop makes a fourth attempt.
THEOREM ReceiveTypeCorrect == ReceiveSpec => []ReceiveTypeOK
<1>1. RecvTypes => ReceiveTypeOK
  <2>. SUFFICES ASSUME RecvTypes PROVE ReceiveTypeOK
    OBVIOUS
  <2>1. \A s \in Segment : \A i \in DOMAIN file[s] :
            file[s][i] \in Seq(Byte) /\ \E h \in Handoff : Len(file[s][i]) <= Length[h][s]
    <3>. SUFFICES ASSUME NEW s \in Segment, NEW i \in DOMAIN file[s]
                  PROVE  file[s][i] \in Seq(Byte) /\ \E h \in Handoff : Len(file[s][i]) <= Length[h][s]
      OBVIOUS
    <3>1. file[s] \in Seq(Seq(Byte)) /\ i \in 1..Len(file[s])
      BY LenProperties DEF RecvTypes, FilesOK
    <3>2. file[s][i] \in Seq(Byte)
      BY <3>1, ElementOfSeq
    <3>. QED  BY <3>1, <3>2 DEF RecvTypes, FilesOK, Fits
  <2>2. ASSUME NEW r \in Receiver, NEW s \in Segment
        PROVE  job[r][s] \in [at : InFlight \cup Finished \cup {"none", "queued"}, fd : Nat,
                              offset : 0..SegLen(r, s), stream : NoStream..SegLen(r, s), attempts : 0..MaxAttempts]
    <3>1. PICK j \in Job : j = job[r][s] /\ Bounded(r, s, j)
      BY DEF RecvTypes, JobsOK
    <3>2. SegLen(r, s) \in Nat /\ MaxAttempts \in Nat /\ NoStream \in Int
      BY ReceiveAssumption DEF SegLen, MaxAttempts, NoStream
    <3>3. j.offset \in 0..SegLen(r, s) /\ j.stream \in NoStream..SegLen(r, s) /\ j.attempts \in 0..MaxAttempts
      BY <3>1, <3>2 DEF Job, Bounded
    <3>. QED  BY <3>1, <3>3 DEF Job, JobAt
  <2>3. partial \in PartialDir /\ dest \in DestDir
    BY DEF RecvTypes, DirsOK
  <2>. QED  BY <2>1, <2>2, <2>3 DEF ReceiveTypeOK, PartialDir, DestDir, Dir, RecvTypes, RunsOK, Place
<1>. QED  BY <1>1, RecvTypesAlways, PTL

-----------------------------------------------------------------------------
(* Runs one after the other.                                               *)

LEMMA JobStepAt ==
  ASSUME NEW r \in Receiver, NEW s \in Segment, JobStep(r, s)
  PROVE  pc[r] = "fetch"
  BY DEF JobStep, Feed, FetchTree, OpenVerified, TrimVerified, OpenStream, ReadGroup, RepairGroup, WriteGroup,
         FinishVerified, StatWhole, GetWhole, CopyWhole, HashWhole, Fetching, At

\* A run that is running is alone, and without a destination until it clears up.
LEMMA Alone ==
  ASSUME Solo, NEW r \in Receiver, Running(r)
  PROVE  /\ \A o \in Receiver : o # r => ~Running(o)
         /\ pc[r] # "sweep" => ~dest.here
  BY DEF Solo

LEMMA RunStepRuns ==
  ASSUME NEW r \in Receiver, RunStep(r)
  PROVE  Running(r)
  BY DEF RunStep, Running, Ended, MakeSegmentsDir, FetchEnd, PlaceRaw, PlacePack, PlaceFails, Verify,
         RemoveSegmentsDir, LstatDest, RenamePayload, RemovePartial

LEMMA SoloMoves ==
  ASSUME RecvTypes, Solo, NEW r \in Receiver, Running(r) \/ \A o \in Receiver : ~Running(o), NEW a,
         pc' = [pc EXCEPT ![r] = a], \A o \in Receiver : o # r => job'[o] = job[o],
         a # "fetch" => job'[r] = NoJobs, dest'.here => a \in {"sweep"} \cup Ended
  PROVE  Solo' /\ \A o \in Receiver : o # r => pc'[o] = pc[o] /\ ~Running(o)
<1>1. \A o \in Receiver : pc'[o] = IF o = r THEN a ELSE pc[o]
  BY DEF RecvTypes, RunsOK
<1>2. \A o \in Receiver : o # r => ~Running(o)
  BY DEF Solo
<1>3. \A o \in Receiver : o # r => ~Running(o)'
  BY <1>1, <1>2 DEF Running
<1>4. \A o \in Receiver : pc'[o] # "fetch" => job'[o] = NoJobs
  BY <1>1 DEF Solo
<1>5. dest'.here => \A o \in Receiver : Running(o)' => pc'[o] = "sweep"
  BY <1>1, <1>3 DEF Running
<1>. QED  BY <1>1, <1>2, <1>3, <1>4, <1>5 DEF Solo

LEMMA DestMoves ==
  ASSUME RecvTypes, DestInv, NEW r \in Receiver, Running(r) \/ \A o \in Receiver : ~Running(o), NEW a,
         pc' = [pc EXCEPT ![r] = a], \A o \in Receiver : o # r => job'[o] = job[o],
         a # "fetch" => job'[r] = NoJobs, dest'.here => a \in {"sweep"} \cup Ended,
         a \in {"segdir", "lstat", "rename"} => Right(r)',
         DestWhole', dest'.here => dest'.of \in Handoff
  PROVE  DestInv'
<1>1. Solo' /\ \A o \in Receiver : o # r => pc'[o] = pc[o] /\ ~Running(o)
  BY SoloMoves DEF DestInv
<1>2. pc'[r] = a
  BY DEF RecvTypes, RunsOK
<1>3. Verified'
  BY <1>1, <1>2 DEF Verified, Running, Ended
<1>. QED  BY <1>1, <1>3 DEF DestInv

\* The same for a step that changes the position of the run only.
LEMMA DestGoto ==
  ASSUME RecvTypes, DestInv, NEW r \in Receiver, Running(r) \/ \A o \in Receiver : ~Running(o),
         pc[r] # "fetch", NEW a, a # "fetch",
         Goto(r, a), UNCHANGED <<dest, file>>, a \in {"segdir", "lstat", "rename"} => Right(r)',
         dest.here => a \in {"sweep"} \cup Ended
  PROVE  DestInv'
<1>1. UNCHANGED job /\ pc' = [pc EXCEPT ![r] = a]
  BY DEF Goto
<1>2. DestWhole' /\ (dest'.here => dest'.of \in Handoff)
  BY DEF DestInv, DestWhole
<1>3. job'[r] = NoJobs
  BY <1>1 DEF DestInv, Solo
<1>. QED  BY <1>1, <1>2, <1>3, DestMoves

\* The same for a run that stops.
LEMMA DestStop ==
  ASSUME RecvTypes, DestInv, NEW r \in Receiver, Running(r), NEW a \in Ended,
         Stop(r, a), UNCHANGED dest, dest.here => UNCHANGED file
  PROVE  DestInv'
<1>1. job' = [job EXCEPT ![r] = NoJobs] /\ pc' = [pc EXCEPT ![r] = a]
  BY DEF Stop
<1>2. DestWhole' /\ (dest'.here => dest'.of \in Handoff)
  BY DEF DestInv, DestWhole
<1>3. job'[r] = NoJobs /\ \A o \in Receiver : o # r => job'[o] = job[o]
  BY <1>1 DEF RecvTypes, JobsOK
<1>4. a \notin {"segdir", "lstat", "rename", "fetch"}
  BY DEF Ended
<1>. QED  BY <1>1, <1>2, <1>3, <1>4, DestMoves

LEMMA DestJobStep ==
  ASSUME RecvTypes, DestInv, NEW r \in Receiver, NEW s \in Segment, JobStep(r, s)
  PROVE  DestInv'
<1>1. PICK k : JobMoves(r, s, k)
  BY JobSteps
<1>2. pc[r] = "fetch" /\ Running(r)
  BY JobStepAt DEF Running, Ended
<1>3. UNCHANGED <<pc, dest>> /\ job' = [job EXCEPT ![r][s] = k]
  BY <1>1 DEF JobMoves, SetJob
<1>4. pc' = [pc EXCEPT ![r] = "fetch"]
  BY <1>2, <1>3 DEF RecvTypes, RunsOK
<1>5. \A o \in Receiver : o # r => job'[o] = job[o]
  BY <1>3 DEF RecvTypes, JobsOK
<1>6. ~dest'.here
  BY <1>2, <1>3, Alone DEF DestInv
<1>. QED  BY <1>2, <1>4, <1>5, <1>6, DestMoves DEF DestWhole

LEMMA DestRunStep ==
  ASSUME RecvTypes, DestInv, ~Overlap, NEW r \in Receiver, Begin(r) \/ RunStep(r)
  PROVE  DestInv'
<1>0. Of[r] \in Handoff /\ job \in [Receiver -> [Segment -> Job]] /\ pc[r] \in Place
  BY ReceiveAssumption DEF RecvTypes, JobsOK, RunsOK
<1>1. CASE Begin(r)
  <2>1. \A o \in Receiver : ~Running(o)
    BY <1>1 DEF Begin
  <2>2. CASE Goto(r, "failed")
    BY <1>1, <2>1, <2>2, DestGoto DEF Begin, Ended
  <2>3. CASE ~dest.here /\ Goto(r, "mkdir")
    BY <1>1, <2>1, <2>3, DestGoto DEF Begin
  <2>. QED  BY <1>1, <2>2, <2>3 DEF Begin
<1>2. ASSUME RunStep(r) PROVE Running(r) /\ \A o \in Receiver : o # r => ~Running(o)
  BY <1>2, RunStepRuns, Alone DEF DestInv
<1>3. CASE MakeSegmentsDir(r)
  <2>1. pc[r] = "mkdir" /\ UNCHANGED dest /\ pc' = [pc EXCEPT ![r] = "fetch"]
    BY <1>3 DEF MakeSegmentsDir
  <2>2. Running(r) /\ ~dest.here
    BY <1>3, <2>1, RunStepRuns, Alone DEF RunStep, DestInv
  <2>3. \A o \in Receiver : o # r => job'[o] = job[o]
    BY <1>0, <1>3 DEF MakeSegmentsDir
  <2>. QED  BY <2>1, <2>2, <2>3, DestMoves DEF DestWhole
<1>4. CASE FetchEnd(r)
  <2>1. pc[r] = "fetch" /\ UNCHANGED <<dest, file>>
    BY <1>4 DEF FetchEnd
  <2>2. Running(r) /\ ~dest.here
    BY <1>4, <2>1, RunStepRuns, Alone DEF RunStep, DestInv
  <2>3. CASE Stop(r, "failed")
    BY <2>1, <2>2, <2>3, DestStop DEF Ended
  <2>4. CASE pc' = [pc EXCEPT ![r] = "place"] /\ job' = [job EXCEPT ![r] = NoJobs]
    <3>1. job'[r] = NoJobs /\ \A o \in Receiver : o # r => job'[o] = job[o]
      BY <1>0, <2>4
    <3>. QED  BY <2>1, <2>2, <2>4, <3>1, DestMoves DEF DestWhole
  <2>. QED  BY <1>4, <2>3, <2>4 DEF FetchEnd
<1>5. CASE PlaceRaw(r) \/ PlacePack(r)
  <2>1. pc[r] = "place" /\ UNCHANGED <<dest, job>>
    BY <1>5 DEF PlaceRaw, PlacePack, Placed
  <2>2. Running(r) /\ ~dest.here
    BY <1>5, <2>1, RunStepRuns, Alone DEF RunStep, DestInv
  <2>3. PICK a \in {"verify", "place"} : pc' = [pc EXCEPT ![r] = a]
    BY <1>5 DEF PlaceRaw, PlacePack, Placed
  <2>4. job'[r] = NoJobs
    BY <2>1 DEF DestInv, Solo
  <2>. QED  BY <2>1, <2>2, <2>3, <2>4, DestMoves DEF DestWhole
<1>6. CASE PlaceFails(r)
  <2>1. pc[r] = "place" /\ UNCHANGED <<dest, file>> /\ Goto(r, "clear")
    BY <1>6 DEF PlaceFails
  <2>2. Running(r) /\ ~dest.here
    BY <1>6, <2>1, RunStepRuns, Alone DEF RunStep, DestInv
  <2>. QED  BY <2>1, <2>2, DestGoto
<1>7. CASE Verify(r)
  <2>1. pc[r] = "verify" /\ UNCHANGED <<partial, dest, file>> /\ Goto(r, IF Right(r) THEN "segdir" ELSE "clear")
    BY <1>7 DEF Verify, Right
  <2>2. Running(r) /\ ~dest.here
    BY <1>7, <2>1, RunStepRuns, Alone DEF RunStep, DestInv
  <2>3. PICK a \in {"segdir", "clear"} : Goto(r, a) /\ (a = "segdir" => Right(r))
    BY <2>1
  <2>4. a = "segdir" => Right(r)'
    BY <2>1, <2>3 DEF Right
  <2>. QED  BY <2>1, <2>2, <2>3, <2>4, DestGoto
<1>8. CASE RemoveSegmentsDir(r)
  <2>1. pc[r] = "segdir" /\ UNCHANGED <<dest, file>> /\ Right(r)
    BY <1>8 DEF RemoveSegmentsDir, DestInv, Verified
  <2>2. Running(r) /\ ~dest.here
    BY <1>8, <2>1, RunStepRuns, Alone DEF RunStep, DestInv
  <2>3. PICK a \in {"lstat", "clear"} : Goto(r, a)
    BY <1>8 DEF RemoveSegmentsDir
  <2>4. partial'.pay = partial.pay
    BY <1>8 DEF RemoveSegmentsDir, RecvTypes, DirsOK, PartialDir
  <2>5. Right(r)'
    BY <2>1, <2>4 DEF Right
  <2>. QED  BY <2>1, <2>2, <2>3, <2>5, DestGoto
<1>9. CASE LstatDest(r)
  <2>1. pc[r] = "lstat" /\ UNCHANGED <<partial, dest, file>> /\ Right(r)
    BY <1>9 DEF LstatDest, DestInv, Verified
  <2>2. Running(r) /\ ~dest.here
    BY <1>9, <2>1, RunStepRuns, Alone DEF RunStep, DestInv
  <2>3. Goto(r, "rename") /\ Right(r)'
    BY <1>9, <2>1, <2>2 DEF LstatDest, Right
  <2>. QED  BY <2>1, <2>2, <2>3, DestGoto
<1>10. CASE RenamePayload(r)
  <2>1. pc[r] = "rename" /\ UNCHANGED file /\ Right(r)
    BY <1>10 DEF RenamePayload, DestInv, Verified
  <2>2. Running(r) /\ ~dest.here
    BY <1>10, <2>1, RunStepRuns, Alone DEF RunStep, DestInv
  <2>3. CASE Goto(r, "clear") /\ UNCHANGED <<partial, dest>>
    BY <2>1, <2>2, <2>3, DestGoto
  <2>4. CASE dest' = [here |-> TRUE, pay |-> partial.pay, of |-> Of[r]] /\ Goto(r, "sweep")
    <3>1. pc' = [pc EXCEPT ![r] = "sweep"] /\ UNCHANGED job
      BY <2>4 DEF Goto
    <3>2. job'[r] = NoJobs
      BY <2>1, <3>1 DEF DestInv, Solo
    <3>3. dest'.pay = partial.pay /\ dest'.of = Of[r]
      BY <2>4
    <3>4. DestWhole'
      BY <2>1, <3>3 DEF DestWhole, Right
    <3>. QED  BY <1>0, <2>2, <3>1, <3>2, <3>3, <3>4, DestMoves
  <2>. QED  BY <1>10, <2>3, <2>4 DEF RenamePayload
<1>11. CASE RemovePartial(r)
  <2>1. pc[r] \in {"clear", "sweep"} /\ UNCHANGED <<dest, file>>
    BY <1>11 DEF RemovePartial
  <2>2. Running(r) /\ (dest.here => pc[r] = "sweep")
    BY <1>11, RunStepRuns, Alone DEF RunStep, DestInv
  <2>3. ASSUME Goto(r, pc[r]) PROVE DestInv'
    <3>1. PICK a \in {"clear", "sweep"} : a = pc[r]
      BY <2>1
    <3>. QED  BY <2>1, <2>2, <2>3, <3>1, DestGoto
  <2>4. ASSUME NEW a \in Ended, Stop(r, a) PROVE DestInv'
    BY <2>1, <2>2, <2>4, DestStop
  <2>5. (IF pc[r] = "sweep" THEN "done" ELSE "failed") \in Ended
    BY DEF Ended
  <2>. QED  BY <1>11, <2>3, <2>4, <2>5 DEF RemovePartial
<1>. QED  BY <1>1, <1>3, <1>4, <1>5, <1>6, <1>7, <1>8, <1>9, <1>10, <1>11 DEF RunStep

LEMMA DestKill ==
  ASSUME RecvTypes, DestInv, NEW r \in Receiver, Kill(r)
  PROVE  DestInv'
<1>1. Running(r) /\ Stop(r, "dead") /\ UNCHANGED dest
  BY DEF Kill
<1>2. dest.here => UNCHANGED file
  BY <1>1, Alone DEF DestInv, Kill, At
<1>. QED  BY <1>1, <1>2, DestStop DEF Ended

LEMMA DestInvNext ==
  ASSUME RecvTypes, DestInv, ~Overlap, [ReceiveNext]_recvVars
  PROVE  DestInv'
<1>1. CASE ReceiveNext
  <2>1. PICK r \in Receiver : \/ Begin(r) \/ RunStep(r) \/ Kill(r)
                              \/ \E s \in Segment : JobStep(r, s)
    BY <1>1 DEF ReceiveNext
  <2>. QED  BY <2>1, DestRunStep, DestKill, DestJobStep
<1>2. CASE UNCHANGED recvVars
  BY <1>2 DEF recvVars, DestInv, Solo, Running, Verified, Right, DestWhole
<1>. QED  BY <1>1, <1>2

LEMMA DestInvInit == ASSUME ReceiveInit PROVE DestInv
  BY NoJobIs DEF ReceiveInit, DestInv, Solo, Running, Verified, DestWhole, NoDest, Ended

LEMMA DestInvAlways == ASSUME ~Overlap PROVE ReceiveSpec => []DestInv
<1>1. ReceiveInit => DestInv
  BY DestInvInit
<1>2. RecvTypes /\ DestInv /\ [ReceiveNext]_recvVars => DestInv'
  BY DestInvNext
<1>. QED  BY <1>1, <1>2, RecvTypesAlways, PTL DEF ReceiveSpec

\* As long as no two runs overlap, a destination that exists holds every file of
\* the handoff it was received from, whole, from its appearance on: through
\* damaged downloads, runs killed at any step and whatever they, or runs that
\* received another handoff, left in the working directory.
THEOREM DestinationWhole == ASSUME ~Overlap PROVE ReceiveSpec => []DestWhole
<1>1. DestInv => DestWhole
  BY DEF DestInv
<1>. QED  BY <1>1, DestInvAlways, PTL

-----------------------------------------------------------------------------
(* One handoff, and nothing but proved bytes.                              *)

LEMMA BegunSame ==
  ASSUME OneHandoff, NEW r \in Receiver, NEW o \in Receiver, NEW s \in Segment, NEW f, Begun(r, s, f)
  PROVE  Begun(o, s, f)
  BY DEF OneHandoff, Begun, SegLen

LEMMA BegunWhole ==
  ASSUME NEW r \in Receiver, NEW s \in Segment, NEW f \in Seq(Byte), Begun(r, s, f), Len(f) = SegLen(r, s)
  PROVE  f = Whole(Of[r], s)
<1>1. PICK h \in Handoff : h = Of[r] /\ SegLen(r, s) = Length[h][s]
  BY ReceiveAssumption DEF SegLen
<1>2. /\ Whole(h, s) \in Seq(Byte) /\ Len(Whole(h, s)) = Length[h][s]
      /\ \A i \in 1..Length[h][s] : Whole(h, s)[i] = h
  BY WholeIs
<1>3. \A i \in 1..Len(f) : f[i] = Whole(h, s)[i]
  BY <1>1, <1>2 DEF Begun
<1>4. f = Whole(h, s)
  BY <1>1, <1>2, <1>3, SeqEqual
<1>. QED  BY <1>1, <1>4

LEMMA BegunSpliced ==
  ASSUME NEW r \in Receiver, NEW s \in Segment, NEW f \in Seq(Byte), Begun(r, s, f),
         NEW n \in Nat, Len(f) + n <= SegLen(r, s), NEW g, g = Spliced(f, Len(f), n, Of[r])
  PROVE  Begun(r, s, g) /\ Len(g) = Len(f) + n
<1>0. Of[r] \in Byte /\ Len(f) \in Nat /\ SegLen(r, s) \in Nat
  BY ReceiveAssumption, LenProperties DEF Byte, SegLen
<1>1. /\ Len(g) = IF Len(f) >= Len(f) + n THEN Len(f) ELSE Len(f) + n
      /\ \A i \in 1..Len(g) : g[i] = IF i > Len(f) /\ i <= Len(f) + n THEN Of[r] ELSE IF i <= Len(f) THEN f[i] ELSE Junk
  <2>1. PICK o \in Nat : o = Len(f)
    BY <1>0
  <2>2. g = Spliced(f, o, n, Of[r])
    BY <2>1
  <2>3. /\ Len(Spliced(f, o, n, Of[r])) = IF Len(f) >= o + n THEN Len(f) ELSE o + n
        /\ \A i \in 1..Len(Spliced(f, o, n, Of[r])) :
              Spliced(f, o, n, Of[r])[i] = IF i > o /\ i <= o + n THEN Of[r] ELSE IF i <= Len(f) THEN f[i] ELSE Junk
    BY <1>0, SplicedIs
  <2>4. /\ Len(g) = IF Len(f) >= o + n THEN Len(f) ELSE o + n
        /\ \A i \in 1..Len(g) : g[i] = IF i > o /\ i <= o + n THEN Of[r] ELSE IF i <= Len(f) THEN f[i] ELSE Junk
    BY <2>2, <2>3
  <2>. QED  BY <2>1, <2>4
<1>2. Len(g) = Len(f) + n
  BY <1>0, <1>1
<1>3. \A i \in 1..Len(g) : g[i] = Of[r]
  <2>. SUFFICES ASSUME NEW i \in 1..Len(g) PROVE g[i] = Of[r]
    OBVIOUS
  <2>1. CASE i > Len(f)
    BY <1>0, <1>1, <1>2, <2>1
  <2>2. CASE i <= Len(f)
    <3>1. i \in 1..Len(f) /\ g[i] = f[i]
      BY <1>0, <1>1, <1>2, <2>2
    <3>. QED  BY <3>1 DEF Begun
  <2>. QED  BY <1>0, <1>2, <2>1, <2>2
<1>. QED  BY <1>2, <1>3 DEF Begun

LEMMA BegunTruncated ==
  ASSUME NEW r \in Receiver, NEW s \in Segment, NEW f \in Seq(Byte), Begun(r, s, f),
         NEW n \in Nat, n <= Len(f), NEW g, g = Truncated(f, n)
  PROVE  Begun(r, s, g) /\ Len(g) = n
<1>0. Len(f) \in Nat /\ SegLen(r, s) \in Nat
  BY ReceiveAssumption, LenProperties DEF SegLen
<1>1. Len(g) = n /\ \A i \in 1..n : g[i] = IF i <= Len(f) THEN f[i] ELSE Junk
  BY TruncatedIs
<1>2. \A i \in 1..n : i \in 1..Len(f)
  BY <1>0
<1>3. \A i \in 1..Len(g) : g[i] = Of[r]
  BY <1>1, <1>2 DEF Begun
<1>. QED  BY <1>0, <1>1, <1>3 DEF Begun

\* Segment files other than that of s stay as they are.
Elsewhere(s) ==
    \A v \in Segment : v # s => /\ partial'.seg[v] = partial.seg[v]
                                /\ partial.seg[v] # NoFile => file'[v][partial.seg[v]] = file[v][partial.seg[v]]

\* What one download has to keep; the others are not touched.
LEMMA FetchMoves ==
  ASSUME RecvTypes, Solo, OneHandoff, ~unproved, FetchInv, NEW r \in Receiver, NEW s \in Segment, pc[r] = "fetch",
         NEW k \in Job, Bounded(r, s, k), SetJob(r, s, k), Elsewhere(s),
         partial'.seg[s] # NoFile => Begun(r, s, SegFile(s)'), Progress(r, s)'
  PROVE  FetchInv'
<1>1. JobsOK' /\ \A o \in Receiver, v \in Segment : job'[o][v] = IF o = r /\ v = s THEN k ELSE job[o][v]
  BY SetJobIs DEF RecvTypes
<1>2. Authentic'
  <2>. SUFFICES ASSUME NEW o \in Receiver, NEW v \in Segment, partial'.seg[v] # NoFile
                PROVE  Begun(o, v, SegFile(v)')
    BY DEF Authentic, Begun, SegLen, SegFile
  <2>1. CASE v = s
    BY <2>1, BegunSame
  <2>2. CASE v # s
    BY <2>2 DEF Elsewhere, SegFile, FetchInv, Authentic
  <2>. QED  BY <2>1, <2>2
<1>3. ASSUME NEW o \in Receiver, NEW v \in Segment
      PROVE  Progress(o, v)'
  <2>1. CASE o # r
    <3>1. Running(r) /\ (pc[o] = "fetch" => Running(o))
      BY DEF Running, Ended
    <3>2. job[o][v].at = "none"
      BY <2>1, <3>1, NoJobIs DEF Solo
    <3>. QED  BY <1>1, <2>1, <3>2 DEF Progress
  <2>2. CASE o = r /\ v # s
    <3>1. Progress(o, v) /\ job'[o][v] = job[o][v]
      BY <1>1, <2>2 DEF FetchInv
    <3>2. partial'.seg[v] = partial.seg[v] /\ (partial.seg[v] # NoFile => SegFile(v)' = SegFile(v))
      BY <2>2 DEF Elsewhere, SegFile
    <3>. QED  BY <3>1, <3>2 DEF Progress, SegLen
  <2>. QED  BY <2>1, <2>2
<1>. QED  BY <1>2, <1>3 DEF FetchInv

LEMMA MakesElsewhere ==
  ASSUME RecvTypes, NEW s \in Segment, NEW i, NEW c, Makes(s, i, c), UNCHANGED partial
  PROVE  Elsewhere(s)
<1>1. \A v \in Segment : partial.seg[v] # NoFile => partial.seg[v] \in 1..Len(file[v])
  BY SegFileIs
<1>. QED  BY <1>1 DEF Makes, Elsewhere

\* n bytes more of the handoff at the end of a segment file.
LEMMA WriteAppends ==
  ASSUME RecvTypes, ~unproved, FetchInv, NEW r \in Receiver, NEW s \in Segment, job[r][s].at = "write",
         NEW n \in 0..Want(r, s), WritesFile(r, s, n), UNCHANGED partial
  PROVE  /\ Elsewhere(s) /\ partial.seg[s] # NoFile /\ Begun(r, s, SegFile(s)')
         /\ Len(SegFile(s)') = job[r][s].offset + n /\ Len(SegFile(s)) = job[r][s].offset
<1>1. PICK i \in Nat, o \in Nat : i = partial.seg[s] /\ i = job[r][s].fd /\ o = job[r][s].offset /\ i # NoFile /\ o = Len(SegFile(s))
  BY SegFileIs DEF FetchInv, Progress, RecvTypes, JobsOK, Job
<1>2. PICK f \in Seq(Byte) : f = file[s][i] /\ f = SegFile(s) /\ Begun(r, s, f)
  BY <1>1, SegFileIs DEF FetchInv, Authentic, SegFile
<1>3. n \in Nat /\ o + n <= SegLen(r, s) /\ Of[r] \in Byte
  <2>1. PICK w \in Nat, m \in Nat : w = Want(r, s) /\ m = SegLen(r, s) /\ o + w <= m /\ Of[r] \in Handoff
    BY <1>1, WantIs
  <2>. QED  BY <1>1, <2>1 DEF Byte
<1>4. PICK g : g = Spliced(f, o, n, Of[r])
  OBVIOUS
<1>5. Begun(r, s, g) /\ Len(g) = o + n
  BY <1>1, <1>2, <1>3, <1>4, BegunSpliced
<1>6. file' = [file EXCEPT ![s][i] = Spliced(file[s][i], o, n, Of[r])]
  BY <1>1 DEF WritesFile
<1>7. Makes(s, i, Spliced(file[s][i], o, n, Of[r]))
  BY <1>3, <1>6, SplicedGrows
<1>8. Makes(s, i, g)
  BY <1>2, <1>4, <1>7
<1>9. i \in 1..Len(file'[s])
  <2>1. i \in 1..Len(file[s])
    BY <1>1, SegFileIs
  <2>. QED  BY <1>8, <2>1 DEF Makes
<1>10. SegFile(s)' = g
  BY <1>1, <1>8, <1>9 DEF Makes, SegFile
<1>. QED  BY <1>1, <1>5, <1>8, <1>10, MakesElsewhere

LEMMA FetchJobStep ==
  ASSUME RecvTypes, DestInv, OneHandoff, ~unproved, ~unproved', FetchInv, NEW r \in Receiver, NEW s \in Segment, JobStep(r, s)
  PROVE  FetchInv'
<1>0. pc[r] = "fetch" /\ Solo
  BY JobStepAt DEF DestInv
<1>1. PICK k : JobMoves(r, s, k)
  BY JobSteps
<1>2. PICK j \in Job : j = job[r][s] /\ Progress(r, s)
  BY DEF RecvTypes, JobsOK, FetchInv
<1>3. k \in Job /\ Bounded(r, s, k) /\ SetJob(r, s, k) /\ job'[r][s] = k
  BY <1>1, SetJobIs DEF JobMoves, RecvTypes
<1>4. ASSUME Elsewhere(s), partial'.seg[s] # NoFile => Begun(r, s, SegFile(s)'), Progress(r, s)'
      PROVE  FetchInv'
  BY <1>0, <1>3, <1>4, FetchMoves
<1>5. partial.seg[s] # NoFile => Begun(r, s, SegFile(s))
  BY DEF FetchInv, Authentic
<1>6. ASSUME UNCHANGED <<partial, file>>, Progress(r, s)' PROVE FetchInv'
  <2>1. Elsewhere(s) /\ (partial'.seg[s] # NoFile => Begun(r, s, SegFile(s)'))
    BY <1>5, <1>6 DEF Elsewhere, SegFile
  <2>. QED  BY <1>4, <1>6, <2>1
<1>7. SegLen(r, s) \in Nat \ {0} /\ SegLen(r, s)' = SegLen(r, s)
  BY WantIs DEF SegLen
<1>8. CASE Turns(r, s, k)
  <2>1. UNCHANGED <<partial, file>> /\ UNCHANGED SegFile(s)
    BY <1>8 DEF Turns, SegFile
  <2>2. CASE k.at \in {"tree", "dropped", "open", "stat", "failed"}
    BY <1>3, <1>6, <2>1, <2>2 DEF Progress
  <2>3. CASE /\ j.at \in {"loop", "repair"} /\ k.at \in {"loop", "repair", "write"}
             /\ k.fd = j.fd /\ k.offset = j.offset
    BY <1>2, <1>3, <1>6, <2>1, <2>3 DEF Progress
  <2>4. CASE j.at = "loop" /\ k.at = "ok" /\ j.offset = SegLen(r, s)
    BY <1>2, <1>3, <1>6, <1>7, <2>1, <2>4 DEF Progress
  <2>5. CASE j.at = "copy" /\ k.at = "hash" /\ j.offset = SegLen(r, s)
    BY <1>2, <1>7, <2>5 DEF Progress
  <2>6. CASE j.at = "hash" /\ k.at = "ok" /\ partial.seg[s] # NoFile /\ SegFile(s) = Whole(Of[r], s)
    BY <1>2, <1>3, <1>6, <1>7, <2>1, <2>6 DEF Progress
  <2>. QED  BY <1>2, <1>8, <2>2, <2>3, <2>4, <2>5, <2>6 DEF Turns
<1>9. CASE Looks(r, s, k)
  <2>1. SizeOf(s) <= SegLen(r, s) /\ SizeOf(s) \in Nat
    BY <1>5, <1>7, SegFileIs DEF SizeOf, Begun
  <2>2. /\ k.offset = SizeOf(s) /\ UNCHANGED <<partial, file>> /\ UNCHANGED SegFile(s)
        /\ k.at = IF k.offset < SegLen(r, s) THEN "get" ELSE "hash"
    BY <1>7, <1>9, <2>1 DEF Looks, SegFile
  <2>3. Progress(r, s)'
    BY <1>3, <1>7, <2>1, <2>2 DEF Progress, SizeOf
  <2>. QED  BY <1>6, <2>2, <2>3
<1>10. CASE Opens(r, s, k)
  <2>1. OpenSegment(s) /\ k.fd = Opened(s)
    BY <1>10 DEF Opens
  <2>2. /\ Opened(s) \in 1..Len(file'[s])
        /\ \A v \in Segment : partial'.seg[v] = IF v = s THEN Opened(s) ELSE partial.seg[v]
        /\ partial.seg[s] # NoFile => UNCHANGED file /\ Opened(s) = partial.seg[s]
        /\ partial.seg[s] = NoFile => file'[s][Opened(s)] = <<>>
        /\ \A v \in Segment : v # s /\ partial.seg[v] # NoFile => file'[v][partial.seg[v]] = file[v][partial.seg[v]]
    BY <2>1, OpenIs
  <2>3. Elsewhere(s)
    BY <2>2 DEF Elsewhere
  <2>4. partial'.seg[s] = Opened(s) /\ partial'.seg[s] # NoFile
    BY <2>2 DEF NoFile
  <2>5. SegFile(s)' = IF partial.seg[s] = NoFile THEN <<>> ELSE SegFile(s)
    BY <2>2, <2>4 DEF SegFile
  <2>6. Len(SegFile(s)') = SizeOf(s) /\ Len(<<>>) = 0
    BY <2>5, EmptySeq DEF SizeOf
  <2>7. Begun(r, s, SegFile(s)')
    <3>1. CASE partial.seg[s] = NoFile
      BY <1>7, <2>5, <2>6, <3>1 DEF Begun
    <3>2. CASE partial.seg[s] # NoFile
      BY <1>5, <2>5, <3>2
    <3>. QED  BY <3>1, <3>2
  <2>8. Progress(r, s)'
    <3>1. CASE k.at = "trim"
      <4>1. SizeOf(s) \in Nat /\ SizeOf(s) <= SegLen(r, s)
        BY <2>6, <2>7, SegFileIs DEF Begun
      <4>2. GroupFloor(SizeOf(s)) \in Nat /\ GroupFloor(SizeOf(s)) <= SizeOf(s)
        BY <4>1, GroupFloorIs
      <4>3. k.offset = GroupFloor(SizeOf(s))
        BY <1>7, <1>10, <3>1, <4>1, <4>2 DEF Opens
      <4>4. k.offset = GroupFloor(Len(SegFile(s)'))
        BY <2>6, <4>3
      <4>. QED  BY <1>3, <2>1, <2>4, <3>1, <4>4 DEF Progress, GroupFloor
    <3>2. CASE j.at = "get" /\ k.at = "copy" /\ k.offset = j.offset
      BY <1>2, <1>3, <1>7, <3>2 DEF Progress
    <3>. QED  BY <1>2, <1>10, <3>1, <3>2 DEF Opens
  <2>. QED  BY <1>4, <2>3, <2>7, <2>8
<1>11. CASE Trims(r, s, k)
  <2>1. /\ j.at = "trim" /\ k.at = "loop" /\ k.fd = j.fd /\ k.offset = j.offset /\ UNCHANGED partial
        /\ file' = [file EXCEPT ![s][j.fd] = Truncated(file[s][j.fd], j.offset)]
    BY <1>2, <1>11 DEF Trims
  <2>2. /\ j.fd = partial.seg[s] /\ j.fd # NoFile /\ j.offset = GroupFloor(Len(SegFile(s)))
        /\ j.fd \in 1..Len(file[s])
    BY <1>2, <2>1, SegFileIs DEF Progress
  <2>3. PICK f \in Seq(Byte) : f = file[s][j.fd] /\ f = SegFile(s) /\ Begun(r, s, f)
    BY <1>5, <2>2, SegFileIs DEF SegFile
  <2>4. j.offset \in Nat /\ j.offset <= Len(f) /\ Len(f) \in Nat
    <3>1. Len(f) \in Nat
      BY LenProperties
    <3>. QED  BY <2>2, <2>3, <3>1, GroupFloorIs
  <2>5. PICK g : g = Truncated(f, j.offset)
    OBVIOUS
  <2>6. Begun(r, s, g) /\ Len(g) = j.offset /\ g \in Seq(Byte)
    BY <2>3, <2>4, <2>5, BegunTruncated, TruncatedIs
  <2>7. Makes(s, j.fd, g)
    <3>1. file' = [file EXCEPT ![s][j.fd] = g]
      BY <2>1, <2>3, <2>5
    <3>2. Len(g) <= SegLen(r, s)
      BY <2>6 DEF Begun
    <3>. QED  BY <2>6, <3>1, <3>2, OverwriteGrows
  <2>8. SegFile(s)' = g
    <3>1. j.fd \in 1..Len(file'[s])
      BY <2>2, <2>7 DEF Makes
    <3>. QED  BY <2>1, <2>2, <2>7, <3>1 DEF Makes, SegFile
  <2>9. Elsewhere(s)
    BY <2>1, <2>7, MakesElsewhere
  <2>10. Progress(r, s)'
    BY <1>3, <2>1, <2>2, <2>6, <2>8 DEF Progress
  <2>. QED  BY <1>4, <2>6, <2>8, <2>9, <2>10
<1>12. CASE Writes(r, s, k)
  <2>1. PICK n \in 0..Want(r, s) :
            /\ WritesFile(r, s, n)
            /\ \/ k.at = "loop" /\ k.fd = j.fd /\ k.offset = j.offset + n
               \/ k.at = "failed" /\ k.fd = NoFile
    BY <1>2, <1>12 DEF Writes
  <2>2. j.at = "write" /\ UNCHANGED partial
    BY <1>2, <1>12 DEF Writes
  <2>3. /\ Elsewhere(s) /\ partial.seg[s] # NoFile /\ Begun(r, s, SegFile(s)')
        /\ Len(SegFile(s)') = j.offset + n
    BY <1>2, <2>1, <2>2, WriteAppends
  <2>4. j.fd = partial.seg[s]
    BY <1>2, <2>2 DEF Progress
  <2>5. Progress(r, s)'
    BY <1>3, <2>1, <2>2, <2>3, <2>4 DEF Progress
  <2>. QED  BY <1>4, <2>3, <2>5
<1>13. CASE Copies(r, s, k)
  BY <1>13 DEF Copies
<1>14. CASE Discards(r, s, k)
  <2>1. partial.seg[s] # NoFile /\ Len(SegFile(s)) = SegLen(r, s) /\ SegFile(s) # Whole(Of[r], s)
    BY <1>2, <1>14 DEF Discards, Progress
  <2>2. SegFile(s) = Whole(Of[r], s)
    BY <1>5, <2>1, SegFileIs, BegunWhole
  <2>. QED  BY <2>1, <2>2
<1>. QED  BY <1>1, <1>8, <1>9, <1>10, <1>11, <1>12, <1>13, <1>14 DEF JobMoves

\* No download is under way.
Quiet == \A o \in Receiver, v \in Segment : job[o][v].at \in {"none", "queued"}

\* Segment files go or stay as they are.
Keeps ==
    \A v \in Segment : /\ partial'.seg[v] \in {partial.seg[v], NoFile}
                       /\ partial'.seg[v] # NoFile => file'[v][partial.seg[v]] = file[v][partial.seg[v]]

LEMMA RunQuiet ==
  ASSUME RecvTypes, DestInv, ~Overlap, NEW r \in Receiver, Begin(r) \/ RunStep(r) \/ Kill(r)
  PROVE  Quiet'
<1>1. Solo'
  BY DestRunStep, DestKill DEF DestInv
<1>2. ASSUME \A o \in Receiver : pc'[o] # "fetch" PROVE Quiet'
  BY <1>1, <1>2, NoJobIs DEF Solo, Quiet
<1>3. \A o \in Receiver : o # r => pc[o] # "fetch"
  <2>1. CASE Begin(r)
    <3>1. \A o \in Receiver : ~Running(o)
      BY <2>1 DEF Begin
    <3>. QED  BY <3>1 DEF Running, Ended
  <2>2. CASE RunStep(r) \/ Kill(r)
    <3>1. \A o \in Receiver : o # r => ~Running(o)
      BY <2>2, RunStepRuns, Alone DEF Kill, DestInv
    <3>. QED  BY <3>1 DEF Running, Ended
  <2>. QED  BY <2>1, <2>2
<1>4. pc \in [Receiver -> Place]
  BY DEF RecvTypes, RunsOK
<1>5. ASSUME NEW a, a # "fetch", pc' = [pc EXCEPT ![r] = a] PROVE Quiet'
  BY <1>2, <1>3, <1>4, <1>5
<1>6. CASE MakeSegmentsDir(r)
  <2>1. PICK x : x = [s \in Segment |-> IF s \in Files[Of[r]] THEN [NoJob EXCEPT !.at = "queued"] ELSE NoJob]
    OBVIOUS
  <2>2. \A v \in Segment : x[v].at \in {"none", "queued"}
    BY <2>1 DEF NoJob
  <2>3. job' = [job EXCEPT ![r] = x]
    BY <1>6, <2>1 DEF MakeSegmentsDir
  <2>4. \A o \in Receiver : job'[o] = IF o = r THEN x ELSE job[o]
    BY <2>3 DEF RecvTypes, JobsOK
  <2>5. \A o \in Receiver : o # r => job[o] = NoJobs
    BY <1>3 DEF DestInv, Solo
  <2>. QED  BY <2>2, <2>4, <2>5, NoJobIs DEF Quiet
<1>7. CASE Begin(r)
  BY <1>5, <1>7 DEF Begin, Goto
<1>8. CASE Kill(r)
  BY <1>5, <1>8 DEF Kill, Stop
<1>9. CASE FetchEnd(r)
  BY <1>5, <1>9 DEF FetchEnd, Stop
<1>10. CASE PlaceRaw(r) \/ PlacePack(r)
  BY <1>5, <1>10 DEF PlaceRaw, PlacePack, Placed
<1>11. CASE PlaceFails(r) \/ Verify(r) \/ RemoveSegmentsDir(r) \/ LstatDest(r) \/ RenamePayload(r)
  BY <1>5, <1>11 DEF PlaceFails, Verify, RemoveSegmentsDir, LstatDest, RenamePayload, Goto
<1>12. CASE RemovePartial(r)
  <2>1. pc[r] # "fetch"
    BY <1>12 DEF RemovePartial
  <2>. QED  BY <1>5, <1>12, <2>1 DEF RemovePartial, Goto, Stop
<1>. QED  BY <1>6, <1>7, <1>8, <1>9, <1>10, <1>11, <1>12 DEF RunStep

LEMMA RunKeeps ==
  ASSUME RecvTypes, NEW r \in Receiver, Begin(r) \/ RunStep(r)
  PROVE  Keeps
<1>0. partial \in PartialDir /\ Of[r] \in Handoff
  BY ReceiveAssumption DEF RecvTypes, DirsOK
<1>1. ASSUME UNCHANGED file, partial'.seg = partial.seg PROVE Keeps
  BY <1>1 DEF Keeps
<1>2. ASSUME UNCHANGED file, NEW s \in Segment, partial' = [partial EXCEPT !.seg[s] = NoFile] PROVE Keeps
  <2>1. \A v \in Segment : partial'.seg[v] = IF v = s THEN NoFile ELSE partial.seg[v]
    BY <1>0, <1>2, SegSet DEF NoFile
  <2>. QED  BY <1>2, <2>1 DEF Keeps
<1>3. CASE Begin(r) \/ Verify(r) \/ LstatDest(r)
  BY <1>1, <1>3 DEF Begin, Verify, LstatDest
<1>4. CASE MakeSegmentsDir(r)
  BY <1>0, <1>1, <1>4 DEF MakeSegmentsDir, PartialDir
<1>5. CASE FetchEnd(r)
  BY <1>0, <1>1, <1>5 DEF FetchEnd, PartialDir
<1>6. CASE RemoveSegmentsDir(r)
  BY <1>0, <1>1, <1>6 DEF RemoveSegmentsDir, PartialDir
<1>7. CASE RenamePayload(r)
  BY <1>0, <1>1, <1>7 DEF RenamePayload, PartialDir
<1>8. CASE PlaceRaw(r)
  <2>1. PICK s \in Segment : s = Min(todo[r])
    BY <1>8, TodoIs DEF PlaceRaw
  <2>2. PICK p : p = [partial.pay EXCEPT ![s] = partial.seg[s]]
    OBVIOUS
  <2>3. PICK g : g = [partial.seg EXCEPT ![s] = NoFile]
    OBVIOUS
  <2>4. \A v \in Segment : g[v] \in {partial.seg[v], NoFile}
    BY <1>0, <2>3 DEF PartialDir, Dir
  <2>5. partial' = [partial EXCEPT !.pay = p, !.seg = g]
    BY <1>0, <1>8, <2>1, <2>2, <2>3 DEF PlaceRaw, PartialDir
  <2>6. partial'.seg = g /\ UNCHANGED file
    BY <1>0, <1>8, <2>5 DEF PlaceRaw, PartialDir
  <2>. QED  BY <2>4, <2>6 DEF Keeps
<1>9. CASE PlacePack(r)
  <2>1. PICK s \in Segment : s = Min(todo[r])
    BY <1>9, TodoIs DEF PlacePack
  <2>2. PICK c : c = Whole(Of[r], s) /\ c \in Seq(Byte) /\ Fits(s, c)
    <3>1. Len(Whole(Of[r], s)) <= Length[Of[r]][s]
      BY <1>0, WholeIs, ReceiveAssumption
    <3>. QED  BY <1>0, <3>1, WholeIs DEF Fits
  <2>3. Extract(s, c)
    BY <1>9, <2>1, <2>2 DEF PlacePack
  <2>4. /\ \A v \in Segment : partial'.seg[v] \in {partial.seg[v], NoFile}
        /\ \A v \in Segment : partial'.seg[v] # NoFile => file'[v][partial'.seg[v]] = file[v][partial.seg[v]]
    BY <2>2, <2>3, ExtractIs
  <2>. QED  BY <2>4 DEF Keeps
<1>10. CASE PlaceFails(r)
  <2>1. PICK s \in Segment : s = Min(todo[r])
    BY <1>10, TodoIs DEF PlaceFails
  <2>. QED  BY <1>1, <1>2, <1>10, <2>1 DEF PlaceFails
<1>11. CASE RemovePartial(r)
  <2>1. UNCHANGED file
    BY <1>11 DEF RemovePartial
  <2>2. ASSUME NEW s \in Segment, partial' = [partial EXCEPT !.pay[s] = NoFile] PROVE Keeps
    <3>1. partial'.seg = partial.seg
      BY <1>0, <2>2, PaySet DEF NoFile
    <3>. QED  BY <1>1, <2>1, <3>1
  <2>3. CASE partial' = NoDir
    BY <2>1, <2>3 DEF Keeps, NoDir, NoFiles
  <2>. QED  BY <1>2, <1>11, <2>1, <2>2, <2>3 DEF RemovePartial
<1>. QED  BY <1>3, <1>4, <1>5, <1>6, <1>7, <1>8, <1>9, <1>10, <1>11 DEF RunStep

LEMMA KeepsAuthentic == ASSUME Authentic, Keeps PROVE Authentic'
<1>. SUFFICES ASSUME NEW o \in Receiver, NEW v \in Segment, partial'.seg[v] # NoFile
              PROVE  Begun(o, v, SegFile(v)')
  BY DEF Authentic, Begun, SegLen, SegFile
<1>. QED  BY DEF Keeps, SegFile, Authentic

\* What a killed run leaves of the segments: what was there, or part of a group more.
LEMMA KillLeaves ==
  ASSUME RecvTypes, ~unproved, FetchInv, NEW r \in Receiver, Kill(r)
  PROVE  \/ Keeps /\ (UNCHANGED <<partial, file>> \/ pc[r] = "place")
         \/ \E s \in Segment : \E n \in 0..Want(r, s) : job[r][s].at = "write" /\ WritesFile(r, s, n) /\ UNCHANGED partial
<1>0. Of[r] \in Handoff
  BY ReceiveAssumption
<1>1. CASE UNCHANGED <<partial, file>>
  BY <1>1 DEF Keeps
<1>2. ASSUME NEW s \in Segment, At(r, s, "write"), NEW n \in 1..(Want(r, s) - 1), WritesFile(r, s, n), UNCHANGED partial
      PROVE  job[r][s].at = "write" /\ n \in 0..Want(r, s)
  <2>1. Want(r, s) \in Nat
    BY WantIs
  <2>. QED  BY <1>2, <2>1 DEF At
<1>3. ASSUME pc[r] = "place", Extract(Min(todo[r]), <<>>)
      PROVE  Keeps
  <2>1. PICK s \in Segment : s = Min(todo[r])
    BY <1>3, TodoIs
  <2>2. <<>> \in Seq(Byte) /\ Fits(s, <<>>)
    <3>1. Length[Of[r]][s] \in Nat
      BY <1>0, ReceiveAssumption
    <3>. QED  BY <1>0, <3>1, EmptySeq DEF Fits
  <2>3. /\ \A v \in Segment : partial'.seg[v] \in {partial.seg[v], NoFile}
        /\ \A v \in Segment : partial'.seg[v] # NoFile => file'[v][partial'.seg[v]] = file[v][partial.seg[v]]
    BY <1>3, <2>1, <2>2, ExtractIs
  <2>. QED  BY <2>3 DEF Keeps
<1>. QED  BY <1>1, <1>2, <1>3 DEF Kill, WritesFile

LEMMA FetchInvNext ==
  ASSUME RecvTypes, DestInv, FetchInv, ~Overlap, OneHandoff, [ReceiveNext]_recvVars
  PROVE  FetchInv'
<1>. SUFFICES ASSUME ~unproved' PROVE FetchInv'
  BY DEF FetchInv
<1>1. CASE ReceiveNext
  <2>1. PICK r \in Receiver : \/ Begin(r) \/ RunStep(r) \/ Kill(r)
                              \/ \E s \in Segment : JobStep(r, s)
    BY <1>1 DEF ReceiveNext
  <2>2. ~unproved
    <3>1. ASSUME NEW s \in Segment, JobStep(r, s) PROVE ~unproved
      <4>1. PICK k : JobMoves(r, s, k)
        BY <3>1, JobSteps
      <4>. QED  BY <4>1 DEF JobMoves, Turns, Looks, Opens, Trims, Writes, Copies, Discards
    <3>2. ASSUME Begin(r) \/ RunStep(r) \/ Kill(r) PROVE ~unproved
      BY <3>2 DEF Begin, RunStep, Kill, MakeSegmentsDir, FetchEnd, PlaceRaw, PlacePack, PlaceFails, Verify,
                  RemoveSegmentsDir, LstatDest, RenamePayload, RemovePartial
    <3>. QED  BY <2>1, <3>1, <3>2
  <2>3. ASSUME Quiet', Authentic' PROVE FetchInv'
    BY <2>3 DEF Quiet, FetchInv, Progress
  <2>4. CASE Begin(r) \/ RunStep(r)
    BY <2>2, <2>3, <2>4, RunQuiet, RunKeeps, KeepsAuthentic DEF FetchInv
  <2>5. CASE Kill(r)
    <3>1. Quiet'
      BY <2>5, RunQuiet
    <3>2. CASE Keeps
      BY <2>2, <2>3, <3>1, <3>2, KeepsAuthentic DEF FetchInv
    <3>3. ASSUME NEW s \in Segment, NEW n \in 0..Want(r, s), job[r][s].at = "write", WritesFile(r, s, n), UNCHANGED partial
          PROVE  Authentic'
      <4>1. Elsewhere(s) /\ Begun(r, s, SegFile(s)')
        BY <2>2, <3>3, WriteAppends
      <4>. SUFFICES ASSUME NEW o \in Receiver, NEW v \in Segment, partial'.seg[v] # NoFile
                    PROVE  Begun(o, v, SegFile(v)')
        BY DEF Authentic, Begun, SegLen, SegFile
      <4>2. CASE v = s
        BY <4>1, <4>2, BegunSame
      <4>3. CASE v # s
        BY <2>2, <4>1, <4>3 DEF Elsewhere, SegFile, FetchInv, Authentic
      <4>. QED  BY <4>2, <4>3
    <3>. QED  BY <2>2, <2>3, <2>5, <3>1, <3>2, <3>3, KillLeaves
  <2>. QED  BY <2>1, <2>2, <2>4, <2>5, FetchJobStep
<1>2. CASE UNCHANGED recvVars
  BY <1>2 DEF recvVars, FetchInv, Authentic, Begun, SegLen, SegFile, Progress, GroupFloor
<1>. QED  BY <1>1, <1>2

LEMMA FetchInvAlways == ASSUME ~Overlap, OneHandoff PROVE ReceiveSpec => []FetchInv
<1>1. ReceiveInit => FetchInv
  BY NoJobIs DEF ReceiveInit, FetchInv, Authentic, Progress, NoDir, NoFiles
<1>2. RecvTypes /\ DestInv /\ FetchInv /\ [ReceiveNext]_recvVars => FetchInv'
  BY FetchInvNext
<1>. QED  BY <1>1, <1>2, RecvTypesAlways, DestInvAlways, PTL DEF ReceiveSpec

\* Runs one after the other that receive one handoff with verification trees: a
\* download reports success only with the authentic segment on disk, the groups
\* earlier runs had left included, although fetchVerified hashes nothing again.
THEOREM FetchedIsAuthentic == ASSUME ~Overlap, OneHandoff PROVE ReceiveSpec => []FetchedAuthentic
<1>1. RecvTypes /\ FetchInv => FetchedAuthentic
  <2>. SUFFICES ASSUME RecvTypes, FetchInv, ~unproved, NEW r \in Receiver, NEW s \in Segment, job[r][s].at = "ok"
                PROVE  partial.seg[s] # NoFile /\ SegFile(s) = Whole(Of[r], s)
    BY DEF FetchedAuthentic
  <2>1. partial.seg[s] # NoFile /\ Len(SegFile(s)) = SegLen(r, s)
    BY DEF FetchInv, Progress
  <2>2. SegFile(s) \in Seq(Byte) /\ Begun(r, s, SegFile(s))
    BY <2>1, SegFileIs DEF FetchInv, Authentic
  <2>. QED  BY <2>1, <2>2, BegunWhole
<1>. QED  BY <1>1, RecvTypesAlways, FetchInvAlways, PTL

-----------------------------------------------------------------------------
(* Groups on disk stay.                                                    *)

Kept(s) == /\ partial'.seg[s] = partial.seg[s]
           /\ GroupFloor(Len(SegFile(s)')) >= GroupFloor(Len(SegFile(s)))

LEMMA KeptSame ==
  ASSUME RecvTypes, NEW v \in Segment, partial.seg[v] # NoFile, partial'.seg[v] = partial.seg[v],
         file'[v][partial.seg[v]] = file[v][partial.seg[v]]
  PROVE  Kept(v)
<1>1. SegFile(v)' = SegFile(v) /\ Len(SegFile(v)) \in Nat
  BY SegFileIs DEF SegFile
<1>2. GroupFloor(Len(SegFile(v))) \in Nat
  BY <1>1, GroupFloorIs
<1>. QED  BY <1>1, <1>2 DEF Kept

LEMMA KeptGrown ==
  ASSUME NEW v \in Segment, partial'.seg[v] = partial.seg[v], Len(SegFile(v)) \in Nat, Len(SegFile(v)') \in Nat,
         Len(SegFile(v)) <= Len(SegFile(v)')
  PROVE  Kept(v)
<1>1. PICK n \in Nat, m \in Nat : n = Len(SegFile(v)) /\ m = Len(SegFile(v)')
  OBVIOUS
<1>2. GroupFloor(n) <= GroupFloor(m) /\ GroupFloor(n) \in Nat /\ GroupFloor(m) \in Nat
  BY <1>1, GroupFloorGrows, GroupFloorIs
<1>. QED  BY <1>1, <1>2 DEF Kept

LEMMA WriteKeeps ==
  ASSUME RecvTypes, ~unproved, FetchInv, NEW r \in Receiver, NEW s \in Segment, job[r][s].at = "write",
         NEW n \in 0..Want(r, s), WritesFile(r, s, n), UNCHANGED partial, NEW v \in Segment, partial.seg[v] # NoFile
  PROVE  Kept(v)
<1>1. /\ Elsewhere(s) /\ Len(SegFile(s)') = job[r][s].offset + n /\ Len(SegFile(s)) = job[r][s].offset
      /\ job[r][s].offset \in Nat
  BY WriteAppends DEF RecvTypes, JobsOK, Job
<1>2. CASE v = s
  <2>1. n \in Nat
    BY WantIs
  <2>. QED  BY <1>1, <1>2, <2>1, KeptGrown
<1>3. CASE v # s
  BY <1>1, <1>3, KeptSame DEF Elsewhere
<1>. QED  BY <1>2, <1>3

LEMMA JobKeeps ==
  ASSUME RecvTypes, DestInv, OneHandoff, ~unproved, FetchInv, NEW r \in Receiver, NEW s \in Segment, JobStep(r, s),
         NEW v \in Segment, partial.seg[v] # NoFile
  PROVE  Kept(v)
<1>1. PICK k : JobMoves(r, s, k)
  BY JobSteps
<1>2. PICK j \in Job : j = job[r][s] /\ Progress(r, s)
  BY DEF RecvTypes, JobsOK, FetchInv
<1>3. PICK i \in Nat : i = partial.seg[v] /\ i \in 1..Len(file[v]) /\ SegFile(v) = file[v][i]
  BY SegFileIs DEF SegFile
<1>4. PICK f \in Seq(Byte) : f = SegFile(v) /\ Begun(r, v, f) /\ Len(f) \in Nat
  BY SegFileIs DEF FetchInv, Authentic
<1>5. SegLen(r, s) \in Nat
  BY WantIs
<1>6. CASE Turns(r, s, k)
  BY <1>6, KeptSame DEF Turns
<1>7. CASE Looks(r, s, k)
  <2>1. SizeOf(s) <= SegLen(r, s) /\ SizeOf(s) \in Nat
    BY <1>5, SegFileIs DEF SizeOf, FetchInv, Authentic, Begun
  <2>. QED  BY <1>5, <1>7, <2>1, KeptSame DEF Looks
<1>8. CASE Opens(r, s, k)
  <2>1. OpenSegment(s)
    BY <1>8 DEF Opens
  <2>2. /\ \A u \in Segment : partial'.seg[u] = IF u = s THEN Opened(s) ELSE partial.seg[u]
        /\ partial.seg[s] # NoFile => UNCHANGED file /\ Opened(s) = partial.seg[s]
        /\ \A u \in Segment : u # s /\ partial.seg[u] # NoFile => file'[u][partial.seg[u]] = file[u][partial.seg[u]]
    BY <2>1, OpenIs
  <2>. QED  BY <2>2, KeptSame
<1>9. CASE Trims(r, s, k)
  <2>1. /\ j.at = "trim" /\ UNCHANGED partial
        /\ file' = [file EXCEPT ![s][j.fd] = Truncated(file[s][j.fd], j.offset)]
    BY <1>2, <1>9 DEF Trims
  <2>2. /\ j.fd = partial.seg[s] /\ j.fd # NoFile /\ j.offset = GroupFloor(Len(SegFile(s)))
        /\ j.fd \in 1..Len(file[s])
    BY <1>2, <2>1, SegFileIs DEF Progress
  <2>3. PICK e \in Seq(Byte) : e = file[s][j.fd] /\ e = SegFile(s) /\ Begun(r, s, e)
    BY <2>2, SegFileIs DEF SegFile, FetchInv, Authentic
  <2>4. j.offset \in Nat /\ j.offset <= Len(e) /\ Len(e) \in Nat /\ GroupFloor(j.offset) = GroupFloor(Len(e))
    <3>1. Len(e) \in Nat
      BY LenProperties
    <3>. QED  BY <2>2, <2>3, <3>1, GroupFloorIs
  <2>5. PICK g : g = Truncated(e, j.offset)
    OBVIOUS
  <2>6. Begun(r, s, g) /\ Len(g) = j.offset /\ g \in Seq(Byte)
    BY <2>3, <2>4, <2>5, BegunTruncated, TruncatedIs
  <2>7. Makes(s, j.fd, g)
    <3>1. file' = [file EXCEPT ![s][j.fd] = g]
      BY <2>1, <2>3, <2>5
    <3>2. Len(g) <= SegLen(r, s)
      BY <2>6 DEF Begun
    <3>. QED  BY <2>6, <3>1, <3>2, OverwriteGrows
  <2>8. CASE v = s
    <3>1. SegFile(s)' = g
      <4>1. j.fd \in 1..Len(file'[s])
        BY <2>2, <2>7 DEF Makes
      <4>. QED  BY <2>1, <2>2, <2>7, <4>1 DEF Makes, SegFile
    <3>2. GroupFloor(Len(g)) = GroupFloor(Len(e)) /\ GroupFloor(Len(e)) \in Nat
      BY <2>4, <2>6, GroupFloorIs
    <3>3. SegFile(v)' = g /\ SegFile(v) = e /\ UNCHANGED partial
      BY <2>1, <2>3, <2>8, <3>1
    <3>. QED  BY <3>2, <3>3 DEF Kept
  <2>9. CASE v # s
    <3>1. Elsewhere(s)
      BY <2>1, <2>7, MakesElsewhere
    <3>. QED  BY <2>9, <3>1, KeptSame DEF Elsewhere
  <2>. QED  BY <2>8, <2>9
<1>10. CASE Writes(r, s, k)
  <2>1. PICK n \in 0..Want(r, s) : WritesFile(r, s, n)
    BY <1>10 DEF Writes
  <2>2. job[r][s].at = "write" /\ UNCHANGED partial
    BY <1>10 DEF Writes
  <2>. QED  BY <2>1, <2>2, WriteKeeps
<1>11. CASE Copies(r, s, k)
  <2>1. PICK b \in Byte : file' = [file EXCEPT ![s][j.fd] = Spliced(file[s][j.fd], j.offset, 1, b)]
    BY <1>2, <1>11 DEF Copies
  <2>2. j.offset \in Nat /\ j.offset + 1 <= SegLen(r, s) /\ UNCHANGED partial
    BY <1>2, <1>5, <1>11 DEF Copies, Job
  <2>3. Makes(s, j.fd, Spliced(file[s][j.fd], j.offset, 1, b))
    BY <2>1, <2>2, SplicedGrows
  <2>4. CASE v = s /\ i = j.fd
    <3>1. PICK g : g = Spliced(f, j.offset, 1, b)
      OBVIOUS
    <3>2. Len(g) \in Nat /\ Len(f) <= Len(g)
      <4>1. Len(g) = IF Len(f) >= j.offset + 1 THEN Len(f) ELSE j.offset + 1
        BY <2>2, <3>1, SplicedIs
      <4>. QED  BY <1>4, <2>2, <4>1
    <3>3. i \in 1..Len(file'[s])
      BY <1>3, <2>3, <2>4 DEF Makes
    <3>4. SegFile(v)' = g
      BY <1>3, <1>4, <2>2, <2>3, <2>4, <3>1, <3>3 DEF Makes, SegFile
    <3>. QED  BY <1>4, <2>2, <3>2, <3>4, KeptGrown
  <2>5. CASE ~(v = s /\ i = j.fd)
    <3>1. file'[v][i] = file[v][i]
      BY <1>3, <2>3, <2>5 DEF Makes
    <3>. QED  BY <1>3, <2>2, <3>1, KeptSame
  <2>. QED  BY <2>4, <2>5
<1>12. CASE Discards(r, s, k)
  <2>1. partial.seg[s] # NoFile /\ Len(SegFile(s)) = SegLen(r, s) /\ SegFile(s) # Whole(Of[r], s)
    BY <1>2, <1>12 DEF Discards, Progress
  <2>2. SegFile(s) \in Seq(Byte) /\ Begun(r, s, SegFile(s))
    BY <2>1, SegFileIs DEF FetchInv, Authentic
  <2>. QED  BY <2>1, <2>2, BegunWhole
<1>. QED  BY <1>1, <1>6, <1>7, <1>8, <1>9, <1>10, <1>11, <1>12 DEF JobMoves

\* Runs one after the other that receive one handoff: while segments are being
\* downloaded no step, failure, kill or resumption takes back a whole group that
\* was proved and has reached the disk.
THEOREM GroupsKept == ASSUME ~Overlap, OneHandoff PROVE ReceiveSpec => KeepsGroups
<1>1. ASSUME RecvTypes, DestInv, FetchInv, [ReceiveNext]_recvVars, NEW s \in Segment,
             partial.seg[s] # NoFile, ~unproved,
             \A r \in Receiver : pc'[r] \in {"idle", "mkdir", "fetch", "failed", "dead"},
             \A r \in Receiver : pc[r] \notin {"clear", "sweep", "place"}
      PROVE  Kept(s)
  <2>0. pc \in [Receiver -> Place] /\ partial \in PartialDir
    BY <1>1 DEF RecvTypes, RunsOK, DirsOK
  <2>1. CASE UNCHANGED recvVars
    BY <1>1, <2>1, KeptSame DEF recvVars
  <2>2. CASE ReceiveNext
    <3>1. PICK r \in Receiver : \/ Begin(r) \/ RunStep(r) \/ Kill(r)
                                \/ \E v \in Segment : JobStep(r, v)
      BY <2>2 DEF ReceiveNext
    <3>2. ASSUME NEW v \in Segment, JobStep(r, v) PROVE Kept(s)
      BY <1>1, <3>2, JobKeeps
    <3>3. CASE Kill(r)
      <4>1. CASE UNCHANGED <<partial, file>>
        BY <1>1, <4>1, KeptSame
      <4>2. ASSUME NEW v \in Segment, NEW n \in 0..Want(r, v), job[r][v].at = "write", WritesFile(r, v, n), UNCHANGED partial
            PROVE  Kept(s)
        BY <1>1, <4>2, WriteKeeps
      <4>. QED  BY <1>1, <3>3, <4>1, <4>2, KillLeaves
    <3>4. CASE Begin(r)
      BY <1>1, <3>4, KeptSame DEF Begin
    <3>5. CASE RunStep(r)
      <4>1. pc'[r] \in {"idle", "mkdir", "fetch", "failed", "dead"} /\ pc[r] \notin {"clear", "sweep", "place"}
        BY <1>1
      <4>2. MakeSegmentsDir(r) \/ FetchEnd(r)
        BY <2>0, <3>5, <4>1 DEF RunStep, PlaceRaw, PlacePack, PlaceFails, Verify, RemoveSegmentsDir, LstatDest,
                                RenamePayload, RemovePartial, Goto
      <4>3. partial'.seg = partial.seg /\ UNCHANGED file
        BY <2>0, <4>2 DEF MakeSegmentsDir, FetchEnd, PartialDir
      <4>. QED  BY <1>1, <4>3, KeptSame
    <3>. QED  BY <3>1, <3>2, <3>3, <3>4, <3>5
  <2>. QED  BY <1>1, <2>1, <2>2
<1>2. RecvTypes /\ DestInv /\ FetchInv /\ [ReceiveNext]_recvVars =>
      [\A s \in Segment :
        /\ partial.seg[s] # NoFile /\ ~unproved
        /\ \A r \in Receiver : pc'[r] \in {"idle", "mkdir", "fetch", "failed", "dead"}
        /\ \A r \in Receiver : pc[r] \notin {"clear", "sweep", "place"}
        => /\ partial'.seg[s] = partial.seg[s]
           /\ GroupFloor(Len(SegFile(s)')) >= GroupFloor(Len(SegFile(s)))]_recvVars
  BY <1>1 DEF Kept
<1>. QED  BY <1>2, RecvTypesAlways, DestInvAlways, FetchInvAlways, PTL DEF ReceiveSpec, KeepsGroups
-----------------------------------------------------------------------------
(* Downloads end.                                                          *)

\* What is left of fetchVerified and of fetchSegment, for a download j of n bytes:
\* bytes, then attempts, then statements of the loop; attempts, then bytes.
GroupsLeft(n, j) == 6 * (4 * (n - j.offset) + (MaxAttempts - j.attempts))
RoundsLeft(n, j) == (MaxAttempts - j.attempts) * (n + 5)

JobRank(n, j) ==
    CASE j.at = "queued" -> 24 * n + 26
      [] j.at = "tree" -> 24 * n + 25
      [] j.at = "open" -> 24 * n + 24
      [] j.at = "trim" -> GroupsLeft(n, j) + 5
      [] j.at = "loop" -> GroupsLeft(n, j) + (IF j.stream = NoStream THEN 4 ELSE 3)
      [] j.at = "repair" -> GroupsLeft(n, j) + 2
      [] j.at = "write" -> GroupsLeft(n, j) + 1
      [] j.at = "stat" -> RoundsLeft(n, j) + n + 4
      [] j.at = "get" -> RoundsLeft(n, j) + n - j.offset + 3
      [] j.at = "copy" -> RoundsLeft(n, j) + n - j.offset + 2
      [] j.at = "hash" -> RoundsLeft(n, j) + 1
      [] OTHER -> 0

StepsLeft(r, s) == JobRank(SegLen(r, s), job[r][s])

\* A group is read, repaired and written only where the segment is not complete.
Unfinished(r, s, j) == j.at \in {"repair", "write"} => j.offset < SegLen(r, s)

LEMMA RankIs ==
  ASSUME NEW r \in Receiver, NEW s \in Segment, NEW n \in Nat, n = SegLen(r, s), NEW j \in Job, Bounded(r, s, j)
  PROVE  /\ GroupsLeft(n, j) \in Nat /\ GroupsLeft(n, j) <= 24 * n + 18
         /\ RoundsLeft(n, j) \in Nat /\ RoundsLeft(n, j) <= 3 * n + 15
         /\ JobRank(n, j) \in 0..(24 * n + 26)
         /\ j.at \in {"loop", "repair", "write", "trim", "stat", "get", "copy", "hash"} => JobRank(n, j) >= 1
<1>1. /\ j.offset \in Nat /\ j.offset <= n /\ j.attempts \in Nat /\ j.attempts <= 3 /\ MaxAttempts = 3
  BY DEF Job, Bounded, MaxAttempts
<1>2. GroupsLeft(n, j) \in Nat /\ GroupsLeft(n, j) <= 24 * n + 18
  BY <1>1 DEF GroupsLeft
<1>3. RoundsLeft(n, j) \in Nat /\ RoundsLeft(n, j) <= 3 * n + 15
  <2>1. \/ RoundsLeft(n, j) = 0 \/ RoundsLeft(n, j) = n + 5
        \/ RoundsLeft(n, j) = 2 * (n + 5) \/ RoundsLeft(n, j) = 3 * (n + 5)
    <3>1. j.attempts \in {0, 1, 2, 3}
      BY <1>1
    <3>. QED  BY <1>1, <3>1 DEF RoundsLeft
  <2>. QED  BY <2>1
<1>4. JobRank(n, j) \in 0..(24 * n + 26)
  <2>1. PICK g \in Nat : g = GroupsLeft(n, j) /\ g <= 24 * n + 18
    BY <1>2
  <2>2. PICK w \in Nat : w = RoundsLeft(n, j) /\ w <= 3 * n + 15
    BY <1>3
  <2>3. CASE j.at \in {"queued", "tree", "open"}
    <3>1. JobRank(n, j) \in {24 * n + 26, 24 * n + 25, 24 * n + 24}
      BY <2>3 DEF JobRank
    <3>. QED  BY <3>1
  <2>4. CASE j.at \in {"trim", "loop", "repair", "write"}
    <3>1. JobRank(n, j) \in {g + 5, g + 4, g + 3, g + 2, g + 1}
      BY <2>1, <2>4 DEF JobRank
    <3>. QED  BY <2>1, <3>1
  <2>5. CASE j.at \in {"stat", "get", "copy", "hash"}
    <3>1. JobRank(n, j) \in {w + n + 4, w + n - j.offset + 3, w + n - j.offset + 2, w + 1}
      BY <2>2, <2>5 DEF JobRank
    <3>. QED  BY <1>1, <2>2, <3>1
  <2>6. CASE j.at \notin {"queued", "tree", "open", "trim", "loop", "repair", "write", "stat", "get", "copy", "hash"}
    <3>1. JobRank(n, j) = 0
      BY <2>6 DEF JobRank
    <3>. QED  BY <3>1
  <2>. QED  BY <2>3, <2>4, <2>5, <2>6
<1>5. j.at \in {"loop", "repair", "write", "trim", "stat", "get", "copy", "hash"} => JobRank(n, j) >= 1
  BY <1>1, <1>2, <1>3 DEF JobRank
<1>. QED  BY <1>2, <1>3, <1>4, <1>5

\* What a statement of a download does to what is left of it.
JobFalls(r, s, k) ==
    /\ k \in Job /\ SetJob(r, s, k) /\ Unfinished(r, s, k)
    /\ JobRank(SegLen(r, s), k) < JobRank(SegLen(r, s), job[r][s])

LEMMA EndFalls ==
  ASSUME RecvTypes, NEW r \in Receiver, NEW s \in Segment, NEW a \in Finished, JobEnd(r, s, a),
         job[r][s].at \in InFlight
  PROVE  \E k : JobFalls(r, s, k)
<1>1. PICK k : k = [NoJob EXCEPT !.at = a]
  OBVIOUS
<1>2. k \in Job /\ k.at = a /\ SetJob(r, s, k)
  BY <1>1, NoJobIs DEF Job, JobAt, JobEnd
<1>3. SegLen(r, s) \in Nat /\ job[r][s] \in Job /\ Bounded(r, s, job[r][s])
  BY WantIs DEF RecvTypes, JobsOK
<1>4. JobRank(SegLen(r, s), k) = 0
  BY <1>2 DEF JobRank, Finished
<1>5. JobRank(SegLen(r, s), job[r][s]) > 0
  <2>1. CASE job[r][s].at \in {"tree", "open"}
    BY <1>3, <2>1 DEF JobRank
  <2>2. CASE job[r][s].at \notin {"tree", "open"}
    <3>1. JobRank(SegLen(r, s), job[r][s]) >= 1 /\ JobRank(SegLen(r, s), job[r][s]) \in Nat
      BY <1>3, <2>2, RankIs DEF InFlight
    <3>. QED  BY <3>1
  <2>. QED  BY <2>1, <2>2
<1>. QED  BY <1>2, <1>4, <1>5 DEF JobFalls, Unfinished, Finished

LEMMA RetryFalls ==
  ASSUME RecvTypes, NEW r \in Receiver, NEW s \in Segment, SetJob(r, s, Retry(job[r][s])),
         job[r][s].at \in {"get", "copy", "hash"}
  PROVE  \E k : JobFalls(r, s, k)
<1>1. PICK n \in Nat : n = SegLen(r, s)
  BY WantIs
<1>2. PICK j \in Job : j = job[r][s] /\ Bounded(r, s, j)
  BY DEF RecvTypes, JobsOK
<1>3. CASE j.attempts + 1 < MaxAttempts
  <2>1. PICK m \in Nat : m = j.attempts + 1
    BY <1>2 DEF Job
  <2>2. PICK k : k = [NoJob EXCEPT !.at = "stat", !.attempts = m]
    OBVIOUS
  <2>3. k \in Job /\ k.at = "stat" /\ k.attempts = m /\ k = Retry(j)
    BY <1>3, <2>1, <2>2, NoJobIs DEF Job, JobAt, InFlight, Retry
  <2>4. RoundsLeft(n, k) + n + 5 = RoundsLeft(n, j)
    <3>1. j.attempts \in {0, 1}
      BY <1>2, <1>3 DEF Job, MaxAttempts
    <3>. QED  BY <2>1, <2>3, <3>1 DEF RoundsLeft, MaxAttempts
  <2>5. JobRank(n, k) < RoundsLeft(n, j)
    <3>1. RoundsLeft(n, j) \in Nat
      BY <1>1, <1>2, RankIs
    <3>2. RoundsLeft(n, k) = RoundsLeft(n, j) - (n + 5)
      <4>1. RoundsLeft(n, k) \in Int
        BY <2>1, <2>3 DEF RoundsLeft, MaxAttempts
      <4>. QED  BY <2>4, <3>1, <4>1
    <3>3. JobRank(n, k) = RoundsLeft(n, k) + n + 4
      BY <2>3 DEF JobRank
    <3>. QED  BY <3>1, <3>2, <3>3
  <2>6. JobRank(n, j) > RoundsLeft(n, j)
    <3>1. RoundsLeft(n, j) \in Nat /\ j.offset \in Nat /\ j.offset <= n
      BY <1>1, <1>2, RankIs DEF Job, Bounded
    <3>. QED  BY <1>2, <3>1 DEF JobRank
  <2>7. JobRank(n, k) < JobRank(n, j)
    <3>1. RoundsLeft(n, j) \in Nat /\ JobRank(n, j) \in Nat
      BY <1>1, <1>2, RankIs
    <3>2. JobRank(n, k) \in Int
      BY <2>1, <2>3 DEF JobRank, RoundsLeft, MaxAttempts
    <3>. QED  BY <2>5, <2>6, <3>1, <3>2
  <2>. QED  BY <1>1, <1>2, <2>3, <2>7 DEF JobFalls, Unfinished
<1>4. CASE ~(j.attempts + 1 < MaxAttempts)
  <2>1. JobEnd(r, s, "failed")
    BY <1>2, <1>4 DEF Retry, JobEnd
  <2>2. "failed" \in Finished /\ job[r][s].at \in InFlight
    BY DEF Finished, InFlight
  <2>. QED  BY <2>1, <2>2, EndFalls
<1>. QED  BY <1>3, <1>4

\* A group that is not there yet has a byte at least.
LEMMA WantSome ==
  ASSUME RecvTypes, NEW r \in Receiver, NEW s \in Segment, job[r][s].offset < SegLen(r, s)
  PROVE  Want(r, s) >= 1
<1>1. SegLen(r, s) \in Nat /\ job[r][s].offset \in Nat
  BY ReceiveAssumption DEF SegLen, RecvTypes, JobsOK, Job
<1>2. PICK n \in Nat : n = SegLen(r, s) - job[r][s].offset /\ n >= 1
  BY <1>1
<1>3. Want(r, s) = IF GroupSize <= n THEN GroupSize ELSE n
  BY <1>2, ReceiveAssumption, MinOfTwo DEF Want
<1>. QED  BY <1>2, <1>3, ReceiveAssumption

LEMMA JobStepFalls ==
  ASSUME RecvTypes, NEW r \in Receiver, NEW s \in Segment, Unfinished(r, s, job[r][s]), JobStep(r, s)
  PROVE  \E k : JobFalls(r, s, k)
<1>1. PICK j \in Job : j = job[r][s] /\ Bounded(r, s, j)
  BY DEF RecvTypes, JobsOK
<1>2. PICK n \in Nat : n = SegLen(r, s)
  BY WantIs
<1>3. /\ j.at \in JobAt /\ j.fd \in Nat /\ j.offset \in Nat /\ j.stream \in Int /\ j.attempts \in Nat
      /\ j.offset <= n /\ -1 <= j.stream /\ j.stream <= n /\ j.attempts <= 3
      /\ (j.at \in {"repair", "write"} => j.attempts < 3)
  BY <1>1, <1>2 DEF Job, Bounded, NoStream, MaxAttempts
<1>4. PICK w \in Nat : w = Want(r, s) /\ j.offset + w <= n /\ (j.offset < n => w >= 1)
  BY <1>1, <1>2, WantIs, WantSome
<1>5. {"tree", "open", "trim", "loop", "repair", "write", "stat", "get", "copy", "hash", "ok", "failed", "dropped"}
      \subseteq JobAt
  BY DEF JobAt, InFlight, Finished
<1>6. ASSUME NEW a \in {"ok", "failed"}, JobEnd(r, s, a), j.at \in InFlight
      PROVE  \E k : JobFalls(r, s, k)
  BY <1>1, <1>6, EndFalls DEF Finished
<1>7. ASSUME NEW k \in Job, SetJob(r, s, k), k.at \in {"repair", "write"} => k.offset < n,
             NEW x \in Int, NEW y \in Int, x = JobRank(n, k), y = JobRank(n, j), x < y
      PROVE  \E l : JobFalls(r, s, l)
  BY <1>1, <1>2, <1>7 DEF JobFalls, Unfinished
<1>8. ASSUME NEW a \in JobAt, JobGoto(r, s, a)
      PROVE  \E k \in Job : /\ SetJob(r, s, k) /\ k.at = a /\ k.offset = j.offset /\ k.stream = j.stream
                            /\ k.attempts = j.attempts
  <2>1. PICK k : k = [j EXCEPT !.at = a]
    OBVIOUS
  <2>2. k \in Job /\ k.at = a /\ k.offset = j.offset /\ k.stream = j.stream /\ k.attempts = j.attempts
    BY <2>1 DEF Job
  <2>3. SetJob(r, s, k)
    BY <1>1, <1>8, <2>1 DEF JobGoto
  <2>. QED  BY <2>2, <2>3
<1>9. PICK g \in Nat : g = 6 * (4 * (n - j.offset) + (3 - j.attempts)) /\ g = GroupsLeft(n, j) /\ g <= 24 * n + 18
  BY <1>1, <1>2, <1>3, RankIs DEF GroupsLeft, MaxAttempts
<1>10. PICK v \in Nat : v = (3 - j.attempts) * (n + 5) /\ v = RoundsLeft(n, j) /\ v <= 3 * n + 15
  BY <1>1, <1>2, <1>3, RankIs DEF RoundsLeft, MaxAttempts
\* The rank of a value of the download that the code reaches from j.
<1>11. ASSUME NEW k \in Job, k.offset = j.offset, k.attempts = j.attempts
       PROVE  GroupsLeft(n, k) = g /\ RoundsLeft(n, k) = v
  BY <1>9, <1>10, <1>11 DEF GroupsLeft, RoundsLeft
<1>12. CASE Feed(r, s)
  <2>1. PICK a \in {"tree", "dropped"} : JobGoto(r, s, a)
    BY <1>12 DEF Feed
  <2>2. PICK k \in Job : SetJob(r, s, k) /\ k.at = a
    BY <1>5, <1>8, <2>1
  <2>3. j.at = "queued"
    BY <1>1, <1>12 DEF Feed, At
  <2>4. JobRank(n, j) = 24 * n + 26
    BY <2>3 DEF JobRank
  <2>5. JobRank(n, k) \in {24 * n + 25, 0}
    BY <2>1, <2>2 DEF JobRank
  <2>6. JobRank(n, k) \in Int /\ JobRank(n, j) \in Int /\ JobRank(n, k) < JobRank(n, j)
    BY <2>4, <2>5
  <2>. QED  BY <1>7, <2>1, <2>2, <2>6
<1>13. CASE FetchTree(r, s)
  <2>1. PICK a \in {"open", "stat"} : JobGoto(r, s, a)
    BY <1>13 DEF FetchTree
  <2>2. PICK k \in Job : SetJob(r, s, k) /\ k.at = a /\ k.offset = j.offset /\ k.attempts = j.attempts
    BY <1>5, <1>8, <2>1
  <2>3. j.at = "tree"
    BY <1>1, <1>13 DEF FetchTree, At
  <2>4. JobRank(n, j) = 24 * n + 25
    BY <2>3 DEF JobRank
  <2>5. JobRank(n, k) \in {24 * n + 24, v + n + 4}
    BY <1>11, <2>1, <2>2 DEF JobRank
  <2>6. JobRank(n, k) \in Int /\ JobRank(n, j) \in Int /\ JobRank(n, k) < JobRank(n, j)
    BY <1>10, <2>4, <2>5
  <2>. QED  BY <1>7, <2>1, <2>2, <2>6
<1>14. CASE OpenVerified(r, s)
  <2>0. j.at = "open" /\ j.at \in InFlight
    BY <1>1, <1>14 DEF OpenVerified, At, InFlight
  <2>1. CASE JobEnd(r, s, "failed")
    BY <1>6, <2>0, <2>1
  <2>2. CASE ~JobEnd(r, s, "failed")
    <3>1. PICK o : o = IF GroupFloor(SizeOf(s)) > SegLen(r, s) THEN GroupFloor(SegLen(r, s)) ELSE GroupFloor(SizeOf(s))
      OBVIOUS
    <3>2. PICK k : k = [NoJob EXCEPT !.at = "trim", !.fd = Opened(s), !.offset = o]
      OBVIOUS
    <3>3. SetJob(r, s, k)
      BY <1>14, <2>2, <3>1, <3>2 DEF OpenVerified, SizeOf
    <3>4. Opened(s) \in Nat /\ SizeOf(s) \in Nat
      BY SegFileIs, NewInodeIs DEF Opened
    <3>5. o \in Nat /\ o <= n
      BY <1>2, <3>1, <3>4, GroupFloorIs
    <3>6. k \in Job /\ k.at = "trim" /\ k.offset = o /\ k.attempts = 0
      BY <1>5, <3>2, <3>4, <3>5, NoJobIs DEF Job
    <3>7. JobRank(n, j) = 24 * n + 24
      BY <2>0 DEF JobRank
    <3>8. JobRank(n, k) = 6 * (4 * (n - o) + 3) + 5
      BY <3>6 DEF JobRank, GroupsLeft, MaxAttempts
    <3>9. JobRank(n, k) \in Int /\ JobRank(n, j) \in Int /\ JobRank(n, k) < JobRank(n, j)
      BY <3>5, <3>7, <3>8
    <3>. QED  BY <1>7, <3>3, <3>6, <3>9
  <2>. QED  BY <2>1, <2>2
<1>15. CASE TrimVerified(r, s)
  <2>1. JobGoto(r, s, "loop") /\ j.at = "trim"
    BY <1>1, <1>15 DEF TrimVerified, At
  <2>2. PICK k \in Job : SetJob(r, s, k) /\ k.at = "loop" /\ k.offset = j.offset /\ k.attempts = j.attempts
    BY <1>5, <1>8, <2>1
  <2>3. JobRank(n, j) = g + 5
    BY <1>9, <2>1 DEF JobRank
  <2>4. JobRank(n, k) \in {g + 4, g + 3}
    BY <1>11, <2>2 DEF JobRank
  <2>5. JobRank(n, k) \in Int /\ JobRank(n, j) \in Int /\ JobRank(n, k) < JobRank(n, j)
    BY <2>3, <2>4
  <2>. QED  BY <1>7, <2>2, <2>5
\* One more attempt, at the loop.
<1>16. ASSUME NEW k \in Job, k.offset = j.offset, k.attempts = j.attempts + 1, k.at = "loop"
       PROVE  JobRank(n, k) \in {g - 2, g - 3}
  <2>1. GroupsLeft(n, k) = g - 6
    BY <1>3, <1>9, <1>16 DEF GroupsLeft, MaxAttempts
  <2>2. JobRank(n, k) \in {GroupsLeft(n, k) + 4, GroupsLeft(n, k) + 3}
    BY <1>16 DEF JobRank
  <2>. QED  BY <2>1, <2>2
<1>17. CASE OpenStream(r, s)
  <2>0. j.at = "loop" /\ j.at \in InFlight /\ j.stream = NoStream /\ j.offset < n
    BY <1>1, <1>2, <1>17 DEF OpenStream, Fetching, At, InFlight
  <2>1. JobRank(n, j) = g + 4
    BY <1>9, <2>0 DEF JobRank
  <2>2. CASE JobEnd(r, s, "failed")
    BY <1>6, <2>0, <2>2
  <2>3. CASE SetJob(r, s, [j EXCEPT !.stream = j.offset])
    <3>1. PICK k : k = [j EXCEPT !.stream = j.offset]
      OBVIOUS
    <3>2. k \in Job /\ k.at = "loop" /\ k.offset = j.offset /\ k.attempts = j.attempts /\ k.stream # NoStream
      BY <1>3, <2>0, <3>1 DEF Job, NoStream
    <3>3. JobRank(n, k) = g + 3
      BY <1>11, <3>2 DEF JobRank
    <3>4. JobRank(n, k) \in Int /\ JobRank(n, j) \in Int /\ JobRank(n, k) < JobRank(n, j)
      BY <2>1, <3>3
    <3>. QED  BY <1>7, <2>3, <3>1, <3>2, <3>4
  <2>4. CASE SetJob(r, s, [j EXCEPT !.attempts = @ + 1])
    <3>1. PICK k : k = [j EXCEPT !.attempts = @ + 1]
      OBVIOUS
    <3>2. k \in Job /\ k.at = "loop" /\ k.offset = j.offset /\ k.attempts = j.attempts + 1
      BY <1>3, <2>0, <3>1 DEF Job
    <3>3. JobRank(n, k) \in {g - 2, g - 3}
      BY <1>16, <3>2
    <3>4. JobRank(n, k) \in Int /\ JobRank(n, j) \in Int /\ JobRank(n, k) < JobRank(n, j)
      BY <2>1, <3>3
    <3>. QED  BY <1>7, <2>4, <3>1, <3>2, <3>4
  <2>. QED  BY <1>1, <1>17, <2>2, <2>3, <2>4 DEF OpenStream
<1>18. CASE ReadGroup(r, s)
  <2>0. j.at = "loop" /\ j.stream # NoStream /\ j.offset < n
    BY <1>1, <1>2, <1>18 DEF ReadGroup, Fetching, At
  <2>1. JobRank(n, j) = g + 3
    BY <1>9, <2>0 DEF JobRank
  <2>2. ASSUME SetJob(r, s, [j EXCEPT !.stream = NoStream, !.attempts = @ + 1])
        PROVE  \E k : JobFalls(r, s, k)
    <3>1. PICK m \in Nat : m = j.attempts + 1
      BY <1>3
    <3>2. PICK k : k = [j EXCEPT !.stream = NoStream, !.attempts = m]
      OBVIOUS
    <3>3. k \in Job /\ k.at = "loop" /\ k.offset = j.offset /\ k.attempts = j.attempts + 1
      <4>1. NoStream \in Int
        BY DEF NoStream
      <4>. QED  BY <2>0, <3>1, <3>2, <4>1 DEF Job
    <3>4. SetJob(r, s, k)
      BY <2>2, <3>1, <3>2
    <3>5. JobRank(n, k) \in {g - 2, g - 3}
      BY <1>16, <3>3
    <3>6. JobRank(n, k) \in Int /\ JobRank(n, j) \in Int /\ JobRank(n, k) < JobRank(n, j)
      BY <2>1, <3>5
    <3>. QED  BY <1>7, <3>3, <3>4, <3>6
  <2>3. ASSUME NEW a \in {"write", "repair"}, NEW x, x = [j EXCEPT !.stream = @ + w],
               SetJob(r, s, [x EXCEPT !.at = a])
        PROVE  \E k : JobFalls(r, s, k)
    <3>1. x \in Job /\ x.offset = j.offset /\ x.attempts = j.attempts
      BY <1>3, <2>3 DEF Job
    <3>2. PICK k : k = [x EXCEPT !.at = a]
      OBVIOUS
    <3>3. k \in Job /\ k.at = a /\ k.offset = j.offset /\ k.attempts = j.attempts
      BY <1>5, <3>1, <3>2 DEF Job
    <3>4. JobRank(n, k) \in {g + 1, g + 2}
      BY <1>11, <2>3, <3>3 DEF JobRank
    <3>5. JobRank(n, k) \in Int /\ JobRank(n, j) \in Int /\ JobRank(n, k) < JobRank(n, j)
      BY <2>1, <3>4
    <3>. QED  BY <1>7, <2>0, <2>3, <3>2, <3>3, <3>5
  <2>. QED  BY <1>1, <1>4, <1>18, <2>2, <2>3 DEF ReadGroup
<1>19. CASE RepairGroup(r, s)
  <2>0. j.at = "repair" /\ j.offset < n
    BY <1>1, <1>2, <1>19 DEF RepairGroup, At, Unfinished
  <2>1. JobRank(n, j) = g + 2
    BY <1>9, <2>0 DEF JobRank
  <2>2. CASE JobGoto(r, s, "write")
    <3>1. PICK k \in Job : SetJob(r, s, k) /\ k.at = "write" /\ k.offset = j.offset /\ k.attempts = j.attempts
      BY <1>5, <1>8, <2>2
    <3>2. JobRank(n, k) = g + 1
      BY <1>11, <3>1 DEF JobRank
    <3>3. JobRank(n, k) \in Int /\ JobRank(n, j) \in Int /\ JobRank(n, k) < JobRank(n, j)
      BY <2>1, <3>2
    <3>. QED  BY <1>7, <2>0, <3>1, <3>3
  <2>3. CASE SetJob(r, s, [j EXCEPT !.at = "loop", !.attempts = @ + 1])
    <3>1. PICK m \in Nat : m = j.attempts + 1
      BY <1>3
    <3>2. PICK k : k = [j EXCEPT !.at = "loop", !.attempts = m]
      OBVIOUS
    <3>3. k \in Job /\ k.at = "loop" /\ k.offset = j.offset /\ k.attempts = j.attempts + 1
      BY <1>5, <3>1, <3>2 DEF Job
    <3>4. SetJob(r, s, k)
      BY <2>3, <3>1, <3>2
    <3>5. JobRank(n, k) \in {g - 2, g - 3}
      BY <1>16, <3>3
    <3>6. JobRank(n, k) \in Int /\ JobRank(n, j) \in Int /\ JobRank(n, k) < JobRank(n, j)
      BY <2>1, <3>5
    <3>. QED  BY <1>7, <3>3, <3>4, <3>6
  <2>. QED  BY <1>1, <1>19, <2>2, <2>3 DEF RepairGroup
<1>20. CASE WriteGroup(r, s)
  <2>0. j.at = "write" /\ j.offset < n /\ j.at \in InFlight
    BY <1>1, <1>2, <1>20 DEF WriteGroup, At, Unfinished, InFlight
  <2>1. CASE JobEnd(r, s, "failed")
    BY <1>6, <2>0, <2>1
  <2>2. ASSUME SetJob(r, s, [j EXCEPT !.at = "loop", !.offset = @ + w, !.attempts = 0])
        PROVE  \E k : JobFalls(r, s, k)
    <3>1. PICK m \in Nat : m = j.offset + w
      BY <1>3
    <3>2. PICK k : k = [j EXCEPT !.at = "loop", !.offset = m, !.attempts = 0]
      OBVIOUS
    <3>3. k \in Job /\ k.at = "loop" /\ k.offset = m /\ k.attempts = 0
      BY <1>5, <3>1, <3>2 DEF Job
    <3>4. SetJob(r, s, k)
      BY <2>2, <3>1, <3>2
    <3>5. JobRank(n, j) = g + 1
      BY <1>9, <2>0 DEF JobRank
    <3>6. JobRank(n, k) \in {6 * (4 * (n - m) + 3) + 4, 6 * (4 * (n - m) + 3) + 3}
      BY <3>3 DEF JobRank, GroupsLeft, MaxAttempts
    <3>7. 4 * (n - m) + 3 <= 4 * (n - j.offset) - 1 /\ 3 - j.attempts >= 1
      BY <1>3, <1>4, <2>0, <3>1
    <3>8. JobRank(n, k) \in Int /\ JobRank(n, j) \in Int /\ JobRank(n, k) < JobRank(n, j)
      BY <1>3, <1>9, <3>1, <3>5, <3>6, <3>7
    <3>. QED  BY <1>7, <3>3, <3>4, <3>8
  <2>. QED  BY <1>1, <1>4, <1>20, <2>1, <2>2 DEF WriteGroup
<1>21. CASE FinishVerified(r, s)
  <2>1. \E a \in {"ok", "failed"} : JobEnd(r, s, a)
    BY <1>21 DEF FinishVerified
  <2>2. j.at \in InFlight
    BY <1>1, <1>21 DEF FinishVerified, At, InFlight
  <2>. QED  BY <1>6, <2>1, <2>2
<1>22. CASE StatWhole(r, s)
  <2>0. j.at = "stat" /\ SizeOf(s) \in Nat
    BY <1>1, <1>22, SegFileIs DEF StatWhole, At
  <2>1. PICK from \in Nat : from = (IF SizeOf(s) > n THEN 0 ELSE SizeOf(s)) /\ from <= n
    BY <2>0
  <2>2. PICK a \in {"get", "hash"} : a = IF from < n THEN "get" ELSE "hash"
    OBVIOUS
  <2>3. PICK k : k = [j EXCEPT !.offset = from, !.at = a]
    OBVIOUS
  <2>4. k \in Job /\ k.at = a /\ k.offset = from /\ k.attempts = j.attempts
    BY <1>5, <2>3 DEF Job
  <2>5. SetJob(r, s, k)
    BY <1>1, <1>2, <1>22, <2>1, <2>2, <2>3 DEF StatWhole, SizeOf
  <2>6. RoundsLeft(n, k) = v
    BY <1>10, <2>4 DEF RoundsLeft, MaxAttempts
  <2>7. JobRank(n, j) = v + n + 4
    BY <1>10, <2>0 DEF JobRank
  <2>8. JobRank(n, k) \in {v + n - from + 3, v + 1}
    BY <2>4, <2>6 DEF JobRank
  <2>9. JobRank(n, k) \in Int /\ JobRank(n, j) \in Int /\ JobRank(n, k) < JobRank(n, j)
    BY <2>1, <2>7, <2>8
  <2>. QED  BY <1>7, <2>4, <2>5, <2>9
<1>23. CASE GetWhole(r, s)
  <2>0. j.at = "get" /\ j.at \in InFlight /\ job[r][s].at \in {"get", "copy", "hash"}
    BY <1>1, <1>23 DEF GetWhole, At, InFlight
  <2>1. CASE JobEnd(r, s, "failed")
    BY <1>6, <2>0, <2>1
  <2>2. CASE SetJob(r, s, Retry(j))
    BY <1>1, <2>0, <2>2, RetryFalls
  <2>3. CASE SetJob(r, s, [j EXCEPT !.at = "copy", !.fd = Opened(s)])
    <3>1. PICK k : k = [j EXCEPT !.at = "copy", !.fd = Opened(s)]
      OBVIOUS
    <3>2. Opened(s) \in Nat
      BY SegFileIs, NewInodeIs DEF Opened
    <3>3. k \in Job /\ k.at = "copy" /\ k.offset = j.offset /\ k.attempts = j.attempts
      BY <1>5, <3>1, <3>2 DEF Job
    <3>4. JobRank(n, j) = v + n - j.offset + 3
      BY <1>10, <2>0 DEF JobRank
    <3>5. JobRank(n, k) = v + n - j.offset + 2
      BY <1>11, <3>3 DEF JobRank
    <3>6. JobRank(n, k) \in Int /\ JobRank(n, j) \in Int /\ JobRank(n, k) < JobRank(n, j)
      BY <1>3, <3>4, <3>5
    <3>. QED  BY <1>7, <2>3, <3>1, <3>3, <3>6
  <2>. QED  BY <1>1, <1>23, <2>1, <2>2, <2>3 DEF GetWhole
<1>24. CASE CopyWhole(r, s)
  <2>0. j.at = "copy" /\ job[r][s].at \in {"get", "copy", "hash"}
    BY <1>1, <1>24 DEF CopyWhole, At
  <2>1. JobRank(n, j) = v + n - j.offset + 2
    BY <1>10, <2>0 DEF JobRank
  <2>2. CASE SetJob(r, s, Retry(j))
    BY <1>1, <2>0, <2>2, RetryFalls
  <2>3. CASE SetJob(r, s, [j EXCEPT !.at = "hash", !.fd = NoFile])
    <3>1. PICK k : k = [j EXCEPT !.at = "hash", !.fd = NoFile]
      OBVIOUS
    <3>2. k \in Job /\ k.at = "hash" /\ k.offset = j.offset /\ k.attempts = j.attempts
      BY <1>5, <3>1 DEF Job, NoFile
    <3>3. JobRank(n, k) = v + 1
      BY <1>11, <3>2 DEF JobRank
    <3>4. JobRank(n, k) \in Int /\ JobRank(n, j) \in Int /\ JobRank(n, k) < JobRank(n, j)
      BY <1>3, <2>1, <3>3
    <3>. QED  BY <1>7, <2>3, <3>1, <3>2, <3>4
  <2>4. CASE j.offset < n /\ SetJob(r, s, [j EXCEPT !.offset = @ + 1])
    <3>1. PICK k : k = [j EXCEPT !.offset = @ + 1]
      OBVIOUS
    <3>2. k \in Job /\ k.at = "copy" /\ k.offset = j.offset + 1 /\ k.attempts = j.attempts
      BY <1>3, <2>0, <3>1 DEF Job
    <3>3. RoundsLeft(n, k) = v
      BY <1>10, <3>2 DEF RoundsLeft, MaxAttempts
    <3>4. JobRank(n, k) = v + n - (j.offset + 1) + 2
      BY <3>2, <3>3 DEF JobRank
    <3>5. JobRank(n, k) \in Int /\ JobRank(n, j) \in Int /\ JobRank(n, k) < JobRank(n, j)
      BY <1>3, <2>1, <3>4
    <3>. QED  BY <1>7, <2>4, <3>1, <3>2, <3>5
  <2>. QED  BY <1>1, <1>2, <1>24, <2>2, <2>3, <2>4 DEF CopyWhole
<1>25. CASE HashWhole(r, s)
  <2>0. j.at = "hash" /\ j.at \in InFlight /\ job[r][s].at \in {"get", "copy", "hash"}
    BY <1>1, <1>25 DEF HashWhole, At, InFlight
  <2>1. \/ JobEnd(r, s, "failed") \/ JobEnd(r, s, "ok") \/ SetJob(r, s, Retry(job[r][s]))
    BY <1>25 DEF HashWhole
  <2>. QED  BY <1>6, <2>0, <2>1, RetryFalls
<1>. QED
  BY <1>12, <1>13, <1>14, <1>15, <1>17, <1>18, <1>19, <1>20, <1>21, <1>22, <1>23, <1>24, <1>25 DEF JobStep
AllUnfinished == \A r \in Receiver, s \in Segment : Unfinished(r, s, job[r][s])

\* What a step that is no statement of a download does to the downloads.
Resets ==
    \A o \in Receiver, v \in Segment :
        \/ job'[o][v] = job[o][v]
        \/ job'[o][v] = NoJob
        \/ MakeSegmentsDir(o) /\ job'[o][v].at = "queued"

LEMMA StopResets ==
  ASSUME RecvTypes, NEW r \in Receiver, job' = [job EXCEPT ![r] = NoJobs]
  PROVE  Resets
<1>1. \A o \in Receiver : job'[o] = IF o = r THEN NoJobs ELSE job[o]
  BY DEF RecvTypes, JobsOK
<1>. QED  BY <1>1, NoJobIs DEF Resets

LEMMA SameResets == ASSUME UNCHANGED job PROVE Resets
  BY DEF Resets

LEMMA RunResets ==
  ASSUME RecvTypes, NEW r \in Receiver, Begin(r) \/ RunStep(r) \/ Kill(r)
  PROVE  Resets
<1>1. CASE MakeSegmentsDir(r)
  <2>1. PICK x : x = [s \in Segment |-> IF s \in Files[Of[r]] THEN [NoJob EXCEPT !.at = "queued"] ELSE NoJob]
    OBVIOUS
  <2>2. \A o \in Receiver : job'[o] = IF o = r THEN x ELSE job[o]
    BY <1>1, <2>1 DEF MakeSegmentsDir, RecvTypes, JobsOK
  <2>3. PICK q : q = [NoJob EXCEPT !.at = "queued"]
    OBVIOUS
  <2>4. q.at = "queued"
    BY <2>3 DEF NoJob
  <2>5. \A v \in Segment : x[v] \in {q, NoJob}
    BY <2>1, <2>3
  <2>. QED  BY <1>1, <2>2, <2>4, <2>5 DEF Resets
<1>2. CASE FetchEnd(r)
  <2>1. job' = [job EXCEPT ![r] = NoJobs]
    BY <1>2 DEF FetchEnd, Stop
  <2>. QED  BY <2>1, StopResets
<1>3. CASE Kill(r)
  BY <1>3, StopResets DEF Kill, Stop
<1>4. CASE RemovePartial(r)
  <2>1. UNCHANGED job \/ job' = [job EXCEPT ![r] = NoJobs]
    BY <1>4 DEF RemovePartial, Goto, Stop
  <2>. QED  BY <2>1, StopResets, SameResets
<1>5. CASE Begin(r) \/ PlaceRaw(r) \/ PlacePack(r) \/ PlaceFails(r) \/ Verify(r) \/ RemoveSegmentsDir(r)
           \/ LstatDest(r) \/ RenamePayload(r)
  <2>1. UNCHANGED job
    BY <1>5 DEF Begin, PlaceRaw, PlacePack, PlaceFails, Verify, RemoveSegmentsDir, LstatDest, RenamePayload,
                Goto, Placed
  <2>. QED  BY <2>1, SameResets
<1>. QED  BY <1>1, <1>2, <1>3, <1>4, <1>5 DEF RunStep

\* A reset shortens what is left, or starts a download.
LEMMA ResetFalls ==
  ASSUME RecvTypes, AllUnfinished, Resets
  PROVE  /\ AllUnfinished'
         /\ \A r \in Receiver, s \in Segment : StepsLeft(r, s)' > StepsLeft(r, s) => MakeSegmentsDir(r)
<1>1. ASSUME NEW r \in Receiver, NEW s \in Segment
      PROVE  Unfinished(r, s, job'[r][s])
  BY NoJobIs DEF Resets, AllUnfinished, Unfinished
<1>2. ASSUME NEW r \in Receiver, NEW s \in Segment, StepsLeft(r, s)' > StepsLeft(r, s)
      PROVE  MakeSegmentsDir(r)
  <2>1. PICK n \in Nat : n = SegLen(r, s) /\ n = SegLen(r, s)'
    BY WantIs DEF SegLen
  <2>2. PICK y \in Nat : y = JobRank(n, job[r][s])
    BY <2>1, RankIs DEF RecvTypes, JobsOK
  <2>3. StepsLeft(r, s) = y /\ StepsLeft(r, s)' = JobRank(n, job'[r][s])
    BY <2>1, <2>2 DEF StepsLeft
  <2>4. job'[r][s] = job[r][s] => StepsLeft(r, s)' = y
    BY <2>2, <2>3
  <2>5. job'[r][s] = NoJob => StepsLeft(r, s)' = 0
    BY <2>3, NoJobIs DEF JobRank
  <2>. QED  BY <1>2, <2>3, <2>4, <2>5 DEF Resets
<1>. QED  BY <1>1, <1>2 DEF AllUnfinished, Unfinished, SegLen

\* A statement of one download shortens it and leaves the others alone.
LEMMA JobStepAdvances ==
  ASSUME RecvTypes, AllUnfinished, NEW r \in Receiver, NEW s \in Segment, JobStep(r, s)
  PROVE  /\ StepsLeft(r, s)' < StepsLeft(r, s)
         /\ AllUnfinished'
         /\ \A o \in Receiver, v \in Segment : (o = r /\ v = s) \/ StepsLeft(o, v)' = StepsLeft(o, v)
<1>1. PICK k : JobFalls(r, s, k)
  BY JobStepFalls DEF AllUnfinished
<1>2. job' = [job EXCEPT ![r][s] = k] /\ job \in [Receiver -> [Segment -> Job]]
  BY <1>1 DEF JobFalls, SetJob, RecvTypes, JobsOK
<1>3. \A o \in Receiver, v \in Segment : job'[o][v] = IF o = r /\ v = s THEN k ELSE job[o][v]
  BY <1>2
<1>4. \A o \in Receiver, v \in Segment : SegLen(o, v)' = SegLen(o, v)
  BY DEF SegLen
<1>5. StepsLeft(r, s)' < StepsLeft(r, s)
  BY <1>1, <1>3, <1>4 DEF StepsLeft, JobFalls
<1>6. \A o \in Receiver, v \in Segment : Unfinished(o, v, job'[o][v])
  BY <1>1, <1>3 DEF JobFalls, AllUnfinished
<1>7. AllUnfinished'
  BY <1>4, <1>6 DEF AllUnfinished, Unfinished
<1>8. \A o \in Receiver, v \in Segment : (o = r /\ v = s) \/ StepsLeft(o, v)' = StepsLeft(o, v)
  BY <1>3, <1>4 DEF StepsLeft
<1>. QED  BY <1>5, <1>7, <1>8
StepsBounded ==
    \A r \in Receiver, s \in Segment :
        /\ StepsLeft(r, s) \in 0..(24 * SegLen(r, s) + 26)
        /\ StepsLeft(r, s) = 0 <=> job[r][s].at \in Finished \cup {"none"}

LEMMA StepsAreBounded == ASSUME RecvTypes PROVE StepsBounded
<1>. SUFFICES ASSUME NEW r \in Receiver, NEW s \in Segment
              PROVE  /\ StepsLeft(r, s) \in 0..(24 * SegLen(r, s) + 26)
                     /\ StepsLeft(r, s) = 0 <=> job[r][s].at \in Finished \cup {"none"}
  BY DEF StepsBounded
<1>1. PICK n \in Nat : n = SegLen(r, s)
  BY WantIs
<1>2. PICK j \in Job : j = job[r][s] /\ Bounded(r, s, j)
  BY DEF RecvTypes, JobsOK
<1>3. StepsLeft(r, s) = JobRank(n, j)
  BY <1>1, <1>2 DEF StepsLeft
<1>4. JobRank(n, j) \in 0..(24 * n + 26)
  BY <1>1, <1>2, RankIs
<1>5. JobRank(n, j) = 0 <=> j.at \in Finished \cup {"none"}
  <2>1. CASE j.at \in Finished \cup {"none"}
    BY <2>1 DEF JobRank, Finished
  <2>2. CASE j.at \in {"queued", "tree", "open"}
    <3>1. JobRank(n, j) \in {24 * n + 26, 24 * n + 25, 24 * n + 24}
      BY <2>2 DEF JobRank
    <3>2. JobRank(n, j) # 0
      BY <3>1
    <3>. QED  BY <2>2, <3>2 DEF Finished
  <2>3. CASE j.at \in {"loop", "repair", "write", "trim", "stat", "get", "copy", "hash"}
    <3>1. JobRank(n, j) >= 1
      BY <1>1, <1>2, <2>3, RankIs
    <3>2. JobRank(n, j) # 0
      BY <1>4, <3>1
    <3>. QED  BY <2>3, <3>2 DEF Finished
  <2>. QED  BY <2>1, <2>2, <2>3 DEF Job, JobAt, InFlight
<1>. QED  BY <1>1, <1>2, <1>3, <1>4, <1>5

LEMMA DownloadsNext ==
  ASSUME RecvTypes, AllUnfinished, [ReceiveNext]_recvVars
  PROVE  /\ AllUnfinished'
         /\ \A r \in Receiver, s \in Segment :
              /\ JobStep(r, s) => StepsLeft(r, s)' < StepsLeft(r, s)
              /\ StepsLeft(r, s)' > StepsLeft(r, s) => MakeSegmentsDir(r)
<1>1. ASSUME NEW r \in Receiver, NEW s \in Segment, JobStep(r, s)
      PROVE  StepsLeft(r, s)' < StepsLeft(r, s)
  BY <1>1, JobStepAdvances
<1>2. /\ AllUnfinished'
      /\ \A r \in Receiver, s \in Segment : StepsLeft(r, s)' > StepsLeft(r, s) => MakeSegmentsDir(r)
  <2>1. CASE UNCHANGED recvVars
    <3>1. Resets
      BY <2>1, SameResets DEF recvVars
    <3>. QED  BY <3>1, ResetFalls
  <2>2. ASSUME NEW o \in Receiver, NEW v \in Segment, JobStep(o, v)
        PROVE  /\ AllUnfinished'
               /\ \A r \in Receiver, s \in Segment : StepsLeft(r, s)' > StepsLeft(r, s) => MakeSegmentsDir(r)
    <3>1. /\ StepsLeft(o, v)' < StepsLeft(o, v)
          /\ AllUnfinished'
          /\ \A r \in Receiver, s \in Segment : (r = o /\ s = v) \/ StepsLeft(r, s)' = StepsLeft(r, s)
      BY <2>2, JobStepAdvances
    <3>2. ASSUME NEW r \in Receiver, NEW s \in Segment, StepsLeft(r, s)' > StepsLeft(r, s)
          PROVE  FALSE
      <4>1. StepsLeft(r, s) \in Nat
        BY StepsAreBounded, WantIs DEF StepsBounded
      <4>2. StepsLeft(o, v) \in Nat /\ StepsLeft(o, v)' \in Int
        <5>1. RecvTypes'
          BY RecvTypesNext
        <5>2. PICK k \in Job : k = job'[o][v] /\ Bounded(o, v, k)
          BY <5>1 DEF RecvTypes, JobsOK, Bounded, SegLen
        <5>3. PICK n \in Nat : n = SegLen(o, v) /\ n = SegLen(o, v)'
          BY WantIs DEF SegLen
        <5>4. StepsLeft(o, v)' = JobRank(n, k)
          BY <5>2, <5>3 DEF StepsLeft
        <5>5. JobRank(n, k) \in 0..(24 * n + 26)
          BY <5>2, <5>3, RankIs
        <5>6. StepsLeft(o, v) \in Nat
          BY StepsAreBounded, WantIs DEF StepsBounded
        <5>. QED  BY <5>3, <5>4, <5>5, <5>6
      <4>3. CASE r = o /\ s = v
        <5>1. StepsLeft(o, v)' > StepsLeft(o, v)
          BY <3>2, <4>3
        <5>. QED  BY <3>1, <4>2, <5>1
      <4>4. CASE ~(r = o /\ s = v)
        <5>1. StepsLeft(r, s)' = StepsLeft(r, s)
          BY <3>1, <4>4
        <5>. QED  BY <3>2, <4>1, <5>1
      <4>. QED  BY <4>3, <4>4
    <3>. QED  BY <3>1, <3>2
  <2>3. ASSUME NEW o \in Receiver, Begin(o) \/ RunStep(o) \/ Kill(o)
        PROVE  /\ AllUnfinished'
               /\ \A r \in Receiver, s \in Segment : StepsLeft(r, s)' > StepsLeft(r, s) => MakeSegmentsDir(r)
    <3>1. Resets
      BY <2>3, RunResets
    <3>. QED  BY <3>1, ResetFalls
  <2>. QED  BY <2>1, <2>2, <2>3 DEF ReceiveNext
<1>. QED  BY <1>1, <1>2

\* What ends a download: every statement of it takes it nearer its end, which is at
\* most 26 statements and 24 for a byte of the segment away, whatever the network,
\* the server, the other runs and their files do; and only a run that starts its
\* downloads ever puts an end further off.  So the loops that retry, repair and
\* reopen (fetchVerified, fetchSegment) cannot go round for ever, at any length,
\* group size and number of workers, also for runs that overlap.
THEOREM DownloadsAdvance ==
  ReceiveSpec => /\ []StepsBounded
                 /\ [][\A r \in Receiver, s \in Segment :
                         /\ JobStep(r, s) => StepsLeft(r, s)' < StepsLeft(r, s)
                         /\ StepsLeft(r, s)' > StepsLeft(r, s) => MakeSegmentsDir(r)]_recvVars
<1>1. RecvTypes => StepsBounded
  BY StepsAreBounded
<1>2. ReceiveInit => AllUnfinished
  BY NoJobIs DEF ReceiveInit, AllUnfinished, Unfinished
<1>3. RecvTypes /\ AllUnfinished /\ [ReceiveNext]_recvVars => AllUnfinished'
  BY DownloadsNext
<1>4. RecvTypes /\ AllUnfinished /\ [ReceiveNext]_recvVars =>
        [\A r \in Receiver, s \in Segment :
           /\ JobStep(r, s) => StepsLeft(r, s)' < StepsLeft(r, s)
           /\ StepsLeft(r, s)' > StepsLeft(r, s) => MakeSegmentsDir(r)]_recvVars
  BY DownloadsNext
<1>. QED  BY <1>1, <1>2, <1>3, <1>4, RecvTypesAlways, PTL DEF ReceiveSpec
-----------------------------------------------------------------------------
(* Runs end.                                                               *)

\* The steps of the main goroutine of a run that are left, at place a, with t files
\* to put in their places and k entries in the working directory, of n segments.
RankAt(n, a, t, k) ==
    CASE a = "idle" -> 3 * n + 8
      [] a = "mkdir" -> 3 * n + 7
      [] a = "fetch" -> 3 * n + 6
      [] a = "place" -> 2 * n + 5 + t
      [] a = "verify" -> 2 * n + 5
      [] a = "segdir" -> 2 * n + 4
      [] a = "lstat" -> 2 * n + 3
      [] a = "rename" -> 2 * n + 2
      [] a = "clear" -> k + 1
      [] a = "sweep" -> k + 1
      [] OTHER -> 0

SegNames == {s \in Segment : partial.seg[s] # NoFile}
PayNames == {s \in Segment : partial.pay[s] # NoFile}
Entries == Cardinality(SegNames) + Cardinality(PayNames)

RunLeft(r) == RankAt(Cardinality(Segment), pc[r], Cardinality(todo[r]), Entries)

LEMMA CountIs ==
  ASSUME NEW S \in SUBSET Segment
  PROVE  /\ IsFiniteSet(S) /\ Cardinality(S) \in Nat
         /\ Cardinality(Segment) \in Nat /\ Cardinality(S) <= Cardinality(Segment)
         /\ S # {} => Cardinality(S) >= 1
<1>1. IsFiniteSet(Segment) /\ IsFiniteSet(S) /\ Cardinality(S) <= Cardinality(Segment)
  BY ReceiveAssumption, FS_Subset
<1>2. Cardinality(S) \in Nat /\ Cardinality(Segment) \in Nat
  BY <1>1, FS_CardinalityType
<1>3. S # {} => Cardinality(S) # 0
  BY <1>1, FS_EmptySet
<1>. QED  BY <1>1, <1>2, <1>3

LEMMA RankAtIs ==
  ASSUME NEW n \in Nat, NEW a \in Place, NEW t \in 0..n, NEW k \in 0..(2 * n)
  PROVE  /\ RankAt(n, a, t, k) \in 0..(3 * n + 8)
         /\ RankAt(n, a, t, k) = 0 <=> a \in Ended
<1>1. CASE a \in Ended
  <2>1. RankAt(n, a, t, k) = 0
    BY <1>1 DEF RankAt, Ended
  <2>. QED  BY <1>1, <2>1
<1>2. CASE a \notin Ended
  <2>1. RankAt(n, a, t, k) \in {3 * n + 8, 3 * n + 7, 3 * n + 6, 2 * n + 5 + t, 2 * n + 5, 2 * n + 4, 2 * n + 3,
                                2 * n + 2, k + 1}
    BY <1>2 DEF RankAt, Place
  <2>2. RankAt(n, a, t, k) \in 1..(3 * n + 8)
    BY <2>1
  <2>. QED  BY <1>2, <2>2
<1>. QED  BY <1>1, <1>2

LEMMA RunLeftIs ==
  ASSUME RecvTypes, NEW r \in Receiver, NEW n, n = Cardinality(Segment)
  PROVE  /\ n \in Nat /\ pc[r] \in Place
         /\ Cardinality(todo[r]) \in 0..n /\ Entries \in 0..(2 * n)
         /\ RunLeft(r) = RankAt(n, pc[r], Cardinality(todo[r]), Entries)
         /\ RunLeft(r) \in 0..(3 * n + 8) /\ (RunLeft(r) = 0 <=> pc[r] \in Ended)
<1>1. pc[r] \in Place /\ todo[r] \in SUBSET Segment
  BY DEF RecvTypes, RunsOK
<1>2. n \in Nat /\ Cardinality(todo[r]) \in 0..n
  BY <1>1, CountIs
<1>3. SegNames \in SUBSET Segment /\ PayNames \in SUBSET Segment
  BY DEF SegNames, PayNames
<1>4. Entries \in 0..(2 * n)
  <2>1. PICK x \in 0..n : x = Cardinality(SegNames)
    BY <1>2, <1>3, CountIs
  <2>2. PICK y \in 0..n : y = Cardinality(PayNames)
    BY <1>2, <1>3, CountIs
  <2>. QED  BY <1>2, <2>1, <2>2 DEF Entries
<1>5. RunLeft(r) = RankAt(n, pc[r], Cardinality(todo[r]), Entries)
  BY DEF RunLeft
<1>. QED  BY <1>1, <1>2, <1>4, <1>5, RankAtIs

\* One file less to place, one entry less to remove.
LEMMA OneLess ==
  ASSUME NEW S \in SUBSET Segment, NEW x \in S
  PROVE  Cardinality(S \ {x}) = Cardinality(S) - 1
  BY CountIs, FS_RemoveElement
\* What a step does to the rank of a run, given where it stands before and after.
LEMMA RunFalls ==
  ASSUME RecvTypes, RecvTypes', NEW r \in Receiver, Begin(r) \/ RunStep(r) \/ Kill(r)
  PROVE  RunLeft(r)' < RunLeft(r)
<1>1. PICK n : n = Cardinality(Segment)
  OBVIOUS
<1>2. PICK t : t = Cardinality(todo[r])
  OBVIOUS
<1>3. PICK u : u = Cardinality(todo'[r])
  OBVIOUS
<1>4. PICK k : k = Entries
  OBVIOUS
<1>5. PICK l : l = Entries'
  OBVIOUS
<1>6. PICK a : a = pc[r]
  OBVIOUS
<1>7. PICK b : b = pc'[r]
  OBVIOUS
<1>8. n \in Nat /\ a \in Place /\ t \in 0..n /\ k \in 0..(2 * n) /\ RunLeft(r) = RankAt(n, a, t, k)
  BY <1>1, <1>2, <1>4, <1>6, RunLeftIs
<1>9. b \in Place /\ u \in 0..n /\ l \in 0..(2 * n) /\ RunLeft(r)' = RankAt(n, b, u, l)
  <2>1. pc'[r] \in Place /\ todo'[r] \in SUBSET Segment
    BY DEF RecvTypes, RunsOK
  <2>2. u \in 0..n
    BY <1>1, <1>3, <2>1, CountIs
  <2>3. SegNames' \in SUBSET Segment /\ PayNames' \in SUBSET Segment
    BY DEF SegNames, PayNames
  <2>4. PICK x \in 0..n : x = Cardinality(SegNames')
    BY <1>1, <2>3, CountIs
  <2>5. PICK y \in 0..n : y = Cardinality(PayNames')
    BY <1>1, <2>3, CountIs
  <2>6. l = x + y
    BY <1>5, <2>4, <2>5 DEF Entries
  <2>7. RunLeft(r)' = RankAt(n, b, u, l)
    BY <1>1, <1>3, <1>5, <1>7 DEF RunLeft
  <2>. QED  BY <1>7, <1>8, <2>1, <2>2, <2>4, <2>5, <2>6, <2>7
<1>10. ASSUME NEW x \in Int, NEW y \in Int, x = RankAt(n, a, t, k), y = RankAt(n, b, u, l), y < x
       PROVE  RunLeft(r)' < RunLeft(r)
  BY <1>8, <1>9, <1>10
<1>11. ASSUME a \notin Ended, b \in Ended
       PROVE  RunLeft(r)' < RunLeft(r)
  <2>1. RankAt(n, a, t, k) \in 1..(3 * n + 8) /\ RankAt(n, b, u, l) = 0
    BY <1>8, <1>9, <1>11, RankAtIs
  <2>. QED  BY <1>10, <2>1
<1>12. ASSUME NEW c, pc' = [pc EXCEPT ![r] = c]
       PROVE  b = c
  BY <1>7, <1>12 DEF RecvTypes, RunsOK
<1>13. CASE Begin(r)
  <2>1. a = "idle" /\ b \in {"failed", "mkdir"}
    BY <1>6, <1>12, <1>13 DEF Begin, Goto
  <2>2. RankAt(n, a, t, k) = 3 * n + 8 /\ RankAt(n, b, u, l) \in {0, 3 * n + 7}
    BY <2>1 DEF RankAt
  <2>. QED  BY <1>8, <1>10, <2>2
<1>14. CASE MakeSegmentsDir(r)
  <2>1. a = "mkdir" /\ b = "fetch"
    BY <1>6, <1>12, <1>14 DEF MakeSegmentsDir
  <2>2. RankAt(n, a, t, k) = 3 * n + 7 /\ RankAt(n, b, u, l) = 3 * n + 6
    BY <2>1 DEF RankAt
  <2>. QED  BY <1>8, <1>10, <2>2
<1>15. CASE FetchEnd(r)
  <2>1. a = "fetch" /\ b \in {"failed", "place"}
    BY <1>6, <1>12, <1>15 DEF FetchEnd, Stop
  <2>2. RankAt(n, a, t, k) = 3 * n + 6 /\ RankAt(n, b, u, l) \in {0, 2 * n + 5 + u}
    BY <2>1 DEF RankAt
  <2>. QED  BY <1>8, <1>9, <1>10, <2>2
<1>16. ASSUME pc[r] = "place", Placed(r, Min(todo[r]))
       PROVE  RunLeft(r)' < RunLeft(r)
  <2>1. PICK s \in Segment : s = Min(todo[r]) /\ s \in todo[r]
    BY <1>16, TodoIs
  <2>2. todo[r] \in SUBSET Segment /\ todo'[r] = todo[r] \ {s}
    BY <1>16, <2>1 DEF Placed, RecvTypes, RunsOK
  <2>3. t >= 1 /\ u = t - 1
    BY <1>2, <1>3, <2>1, <2>2, CountIs, OneLess
  <2>4. a = "place" /\ b \in {"verify", "place"}
    BY <1>6, <1>12, <1>16 DEF Placed
  <2>5. RankAt(n, a, t, k) = 2 * n + 5 + t /\ RankAt(n, b, u, l) \in {2 * n + 5, 2 * n + 5 + u}
    BY <2>4 DEF RankAt
  <2>. QED  BY <1>8, <1>9, <1>10, <2>3, <2>5
<1>17. CASE PlaceRaw(r) \/ PlacePack(r)
  <2>1. pc[r] = "place" /\ Placed(r, Min(todo[r]))
    BY <1>17 DEF PlaceRaw, PlacePack
  <2>. QED  BY <1>16, <2>1
<1>18. ASSUME a \in {"place", "verify", "segdir", "lstat", "rename"}, b \in {"clear", "sweep"}, a = "rename" \/ b = "clear"
       PROVE  RunLeft(r)' < RunLeft(r)
  <2>1. RankAt(n, a, t, k) \in {2 * n + 5 + t, 2 * n + 5, 2 * n + 4, 2 * n + 3, 2 * n + 2}
    BY <1>18 DEF RankAt
  <2>2. RankAt(n, b, u, l) = l + 1
    BY <1>18 DEF RankAt
  <2>. QED  BY <1>8, <1>9, <1>10, <2>1, <2>2
<1>19. CASE PlaceFails(r)
  <2>1. a = "place" /\ b = "clear"
    BY <1>6, <1>12, <1>19 DEF PlaceFails, Goto
  <2>. QED  BY <1>18, <2>1
<1>20. CASE Verify(r)
  <2>1. a = "verify" /\ b \in {"segdir", "clear"}
    BY <1>6, <1>12, <1>20 DEF Verify, Goto
  <2>2. CASE b = "segdir"
    <3>1. RankAt(n, a, t, k) = 2 * n + 5 /\ RankAt(n, b, u, l) = 2 * n + 4
      BY <2>1, <2>2 DEF RankAt
    <3>. QED  BY <1>8, <1>10, <3>1
  <2>. QED  BY <1>18, <2>1, <2>2
<1>21. CASE RemoveSegmentsDir(r)
  <2>1. a = "segdir" /\ b \in {"lstat", "clear"}
    BY <1>6, <1>12, <1>21 DEF RemoveSegmentsDir, Goto
  <2>2. CASE b = "lstat"
    <3>1. RankAt(n, a, t, k) = 2 * n + 4 /\ RankAt(n, b, u, l) = 2 * n + 3
      BY <2>1, <2>2 DEF RankAt
    <3>. QED  BY <1>8, <1>10, <3>1
  <2>. QED  BY <1>18, <2>1, <2>2
<1>22. CASE LstatDest(r)
  <2>1. a = "lstat" /\ b \in {"rename", "clear"}
    BY <1>6, <1>12, <1>22 DEF LstatDest, Goto
  <2>2. CASE b = "rename"
    <3>1. RankAt(n, a, t, k) = 2 * n + 3 /\ RankAt(n, b, u, l) = 2 * n + 2
      BY <2>1, <2>2 DEF RankAt
    <3>. QED  BY <1>8, <1>10, <3>1
  <2>. QED  BY <1>18, <2>1, <2>2
<1>23. CASE RenamePayload(r)
  <2>1. a = "rename" /\ b \in {"sweep", "clear"}
    BY <1>6, <1>12, <1>23 DEF RenamePayload, Goto
  <2>. QED  BY <1>18, <2>1
<1>24. CASE RemovePartial(r)
  <2>0. a \in {"clear", "sweep"} /\ RankAt(n, a, t, k) = k + 1
    BY <1>6, <1>24 DEF RemovePartial, RankAt
  <2>. SegNames \in SUBSET Segment /\ PayNames \in SUBSET Segment
    BY DEF SegNames, PayNames
  <2>1. PICK x \in 0..n : x = Cardinality(SegNames)
    BY <1>1, <1>8, CountIs
  <2>2. PICK y \in 0..n : y = Cardinality(PayNames)
    BY <1>1, <1>8, CountIs
  <2>3. ASSUME l = k - 1, b = a
        PROVE  RunLeft(r)' < RunLeft(r)
    <3>1. RankAt(n, b, u, l) = l + 1
      BY <2>0, <2>3 DEF RankAt
    <3>. QED  BY <1>8, <1>9, <1>10, <2>0, <2>3, <3>1
  <2>4. ASSUME NEW s \in Segment, partial.seg[s] # NoFile, partial' = [partial EXCEPT !.seg[s] = NoFile],
               Goto(r, pc[r])
        PROVE  RunLeft(r)' < RunLeft(r)
    <3>1. SegNames' = SegNames \ {s} /\ PayNames' = PayNames
      BY <2>4 DEF SegNames, PayNames, RecvTypes, DirsOK, PartialDir, Dir
    <3>2. Cardinality(SegNames \ {s}) = Cardinality(SegNames) - 1
      BY <2>4, OneLess DEF SegNames
    <3>3. l = k - 1
      BY <1>4, <1>5, <2>1, <2>2, <3>1, <3>2 DEF Entries
    <3>4. b = a
      BY <1>6, <1>12, <2>4 DEF Goto
    <3>. QED  BY <2>3, <3>3, <3>4
  <2>5. ASSUME NEW s \in Segment, partial.pay[s] # NoFile, partial' = [partial EXCEPT !.pay[s] = NoFile],
               Goto(r, pc[r])
        PROVE  RunLeft(r)' < RunLeft(r)
    <3>1. PayNames' = PayNames \ {s} /\ SegNames' = SegNames
      BY <2>5 DEF SegNames, PayNames, RecvTypes, DirsOK, PartialDir, Dir
    <3>2. Cardinality(PayNames \ {s}) = Cardinality(PayNames) - 1
      BY <2>5, OneLess DEF PayNames
    <3>3. l = k - 1
      BY <1>4, <1>5, <2>1, <2>2, <3>1, <3>2 DEF Entries
    <3>4. b = a
      BY <1>6, <1>12, <2>5 DEF Goto
    <3>. QED  BY <2>3, <3>3, <3>4
  <2>6. CASE Stop(r, IF pc[r] = "sweep" THEN "done" ELSE "failed")
    <3>1. b \in {"done", "failed"}
      BY <1>12, <2>6 DEF Stop
    <3>. QED  BY <1>11, <2>0, <3>1 DEF Ended
  <2>. QED  BY <1>24, <2>4, <2>5, <2>6 DEF RemovePartial
<1>25. CASE Kill(r)
  <2>1. a \notin Ended /\ b = "dead"
    BY <1>6, <1>12, <1>25 DEF Kill, Running, Stop
  <2>. QED  BY <1>11, <2>1 DEF Ended
<1>. QED
  BY <1>13, <1>14, <1>15, <1>17, <1>19, <1>20, <1>21, <1>22, <1>23, <1>24, <1>25 DEF RunStep
\* A step of one run, or of one of its downloads.
StepOf(r) == Begin(r) \/ RunStep(r) \/ Kill(r) \/ \E s \in Segment : JobStep(r, s)

LEMMA StepStays ==
  ASSUME RecvTypes, NEW o \in Receiver, StepOf(o), NEW r \in Receiver, r # o
  PROVE  pc'[r] = pc[r] /\ todo'[r] = todo[r]
<1>1. ASSUME NEW a, pc' = [pc EXCEPT ![o] = a] PROVE pc'[r] = pc[r]
  BY <1>1 DEF RecvTypes, RunsOK
<1>2. ASSUME NEW a, todo' = [todo EXCEPT ![o] = a] PROVE todo'[r] = todo[r]
  BY <1>2 DEF RecvTypes, RunsOK
<1>3. CASE RunStep(o)
  <2>1. CASE MakeSegmentsDir(o) \/ FetchEnd(o)
    BY <1>1, <1>2, <2>1 DEF MakeSegmentsDir, FetchEnd, Stop
  <2>2. CASE PlaceRaw(o) \/ PlacePack(o)
    BY <1>1, <1>2, <2>2 DEF PlaceRaw, PlacePack, Placed
  <2>3. CASE PlaceFails(o) \/ Verify(o) \/ RemoveSegmentsDir(o) \/ LstatDest(o) \/ RenamePayload(o)
    BY <1>1, <2>3 DEF PlaceFails, Verify, RemoveSegmentsDir, LstatDest, RenamePayload, Goto
  <2>4. CASE RemovePartial(o)
    BY <1>1, <1>2, <2>4 DEF RemovePartial, Goto, Stop
  <2>. QED  BY <1>3, <2>1, <2>2, <2>3, <2>4 DEF RunStep
<1>4. CASE Begin(o) \/ Kill(o)
  BY <1>1, <1>2, <1>4 DEF Begin, Goto, Kill, Stop
<1>5. ASSUME NEW s \in Segment, JobStep(o, s) PROVE pc'[r] = pc[r] /\ todo'[r] = todo[r]
  <2>1. PICK k : JobMoves(o, s, k)
    BY <1>5, JobSteps
  <2>. QED  BY <2>1 DEF JobMoves, SetJob
<1>. QED  BY <1>3, <1>4, <1>5 DEF StepOf

\* One run does not lengthen another: what it does in the working directory counts
\* only for a run that clears it, and that one would be running as well.
LEMMA OthersKeep ==
  ASSUME RecvTypes, RecvTypes', Solo, ~Overlap, NEW o \in Receiver, StepOf(o), NEW r \in Receiver, r # o
  PROVE  RunLeft(r)' = RunLeft(r)
<1>1. pc'[r] = pc[r] /\ todo'[r] = todo[r]
  BY StepStays
<1>2. pc[r] \notin {"clear", "sweep"}
  <2>1. Running(o) \/ Begin(o)
    BY JobStepAt, RunStepRuns DEF StepOf, Kill, Running, Ended
  <2>2. ~Running(r)
    BY <2>1 DEF Solo, Begin
  <2>. QED  BY <2>2 DEF Running, Ended
<1>3. \A n, a, t, k, l : a \notin {"clear", "sweep"} => RankAt(n, a, t, k) = RankAt(n, a, t, l)
  BY DEF RankAt
<1>. QED  BY <1>1, <1>2, <1>3 DEF RunLeft

LEMMA RunsNext ==
  ASSUME RecvTypes, Solo, ~Overlap, [ReceiveNext]_recvVars
  PROVE  \A r \in Receiver :
            /\ Begin(r) \/ RunStep(r) \/ Kill(r) => RunLeft(r)' < RunLeft(r)
            /\ RunLeft(r)' <= RunLeft(r)
<1>1. RecvTypes'
  BY RecvTypesNext
<1>2. ASSUME NEW r \in Receiver, Begin(r) \/ RunStep(r) \/ Kill(r)
      PROVE  RunLeft(r)' < RunLeft(r)
  BY <1>1, <1>2, RunFalls
<1>3. ASSUME NEW r \in Receiver
      PROVE  RunLeft(r)' <= RunLeft(r)
  <2>1. RunLeft(r) \in Int
    BY RunLeftIs
  <2>2. RunLeft(r)' \in Int
    <3>1. pc'[r] \in Place /\ todo'[r] \in SUBSET Segment
      BY <1>1 DEF RecvTypes, RunsOK
    <3>2. SegNames' \in SUBSET Segment /\ PayNames' \in SUBSET Segment
      BY DEF SegNames, PayNames
    <3>3. PICK n \in Nat : n = Cardinality(Segment)
      BY <3>2, CountIs
    <3>4. PICK t \in 0..n : t = Cardinality(todo'[r])
      BY <3>1, <3>3, CountIs
    <3>5. PICK x \in 0..n : x = Cardinality(SegNames')
      BY <3>2, <3>3, CountIs
    <3>6. PICK y \in 0..n : y = Cardinality(PayNames')
      BY <3>2, <3>3, CountIs
    <3>7. PICK k \in 0..(2 * n) : k = Entries'
      BY <3>3, <3>5, <3>6 DEF Entries
    <3>8. RunLeft(r)' = RankAt(n, pc'[r], t, k)
      BY <3>3, <3>4, <3>7 DEF RunLeft
    <3>9. RankAt(n, pc'[r], t, k) \in 0..(3 * n + 8)
      BY <3>1, <3>3, <3>4, <3>7, RankAtIs
    <3>. QED  BY <3>3, <3>8, <3>9
  <2>3. CASE UNCHANGED recvVars
    <3>1. RunLeft(r)' = RunLeft(r)
      BY <2>3 DEF recvVars, RunLeft, Entries, SegNames, PayNames
    <3>. QED  BY <2>1, <3>1
  <2>4. ASSUME NEW o \in Receiver, StepOf(o)
        PROVE  RunLeft(r)' <= RunLeft(r)
    <3>1. CASE r # o
      <4>1. RunLeft(r)' = RunLeft(r)
        BY <1>1, <2>4, <3>1, OthersKeep
      <4>. QED  BY <2>1, <4>1
    <3>2. CASE r = o /\ (Begin(r) \/ RunStep(r) \/ Kill(r))
      <4>1. RunLeft(r)' < RunLeft(r)
        BY <1>2, <3>2
      <4>. QED  BY <2>1, <2>2, <4>1
    <3>3. ASSUME NEW s \in Segment, JobStep(r, s)
          PROVE  RunLeft(r)' <= RunLeft(r)
      <4>1. PICK k : JobMoves(r, s, k)
        BY <3>3, JobSteps
      <4>2. pc' = pc /\ todo' = todo /\ pc[r] = "fetch"
        BY <3>3, <4>1, JobStepAt DEF JobMoves, SetJob
      <4>3. \A n, t, x, y : RankAt(n, "fetch", t, x) = RankAt(n, "fetch", t, y)
        BY DEF RankAt
      <4>4. RunLeft(r)' = RunLeft(r)
        BY <4>2, <4>3 DEF RunLeft
      <4>. QED  BY <2>1, <4>4
    <3>. QED  BY <2>4, <3>1, <3>2, <3>3 DEF StepOf
  <2>. QED  BY <2>3, <2>4 DEF ReceiveNext, StepOf
<1>. QED  BY <1>2, <1>3

RunsBounded ==
    \A r \in Receiver :
        /\ RunLeft(r) \in 0..(3 * Cardinality(Segment) + 8)
        /\ RunLeft(r) = 0 <=> pc[r] \in Ended

\* What ends a run: each step of its main goroutine takes it nearer its end, a
\* download or another run's step never takes it further away, and from its start
\* it is at most 8 steps and 3 for a segment away from it.  With DownloadsAdvance
\* this is the ranking behind ReceiveEnds: a run takes so many steps, its
\* downloads so many statements, and then it has published, failed or been
\* killed.  Clearing the working directory is why runs must not overlap: a second
\* run could fill it again.
THEOREM RunsAdvance ==
  ASSUME ~Overlap
  PROVE  ReceiveSpec => /\ []RunsBounded
                        /\ [][\A r \in Receiver :
                                /\ Begin(r) \/ RunStep(r) \/ Kill(r) => RunLeft(r)' < RunLeft(r)
                                /\ RunLeft(r)' <= RunLeft(r)]_recvVars
<1>1. RecvTypes => RunsBounded
  BY RunLeftIs DEF RunsBounded
<1>2. RecvTypes /\ DestInv /\ [ReceiveNext]_recvVars =>
        [\A r \in Receiver :
           /\ Begin(r) \/ RunStep(r) \/ Kill(r) => RunLeft(r)' < RunLeft(r)
           /\ RunLeft(r)' <= RunLeft(r)]_recvVars
  BY RunsNext DEF DestInv
<1>. QED  BY <1>1, <1>2, RecvTypesAlways, DestInvAlways, PTL DEF ReceiveSpec
=============================================================================
