---------------------------- MODULE Send_proofs ----------------------------
(***************************************************************************)
(* The sending client keeps its promises for any number of segments,       *)
(* workers, transfers and faults.                                          *)
(***************************************************************************)
EXTENDS Send, WellFoundedInduction, SequenceTheorems, TLAPS

-----------------------------------------------------------------------------
(* The inductive invariant.                                                *)

PatchMsg == [op : {"patch"}, t : Transfer, seg : Segment, off : Nat,
             v : Version \cup {None, Short}]
CommitMsg == [op : {"commit"}, t : Transfer, plan : Plan,
              digests : [Segment -> Version \cup {None}]]

WorkerState == [at : {"returned", "wait", "head", "patch"}, seg : Segment \cup {None},
                off : Nat, tries : Nat]

\* Statements at which the run works with the transfer of its session.
Holding == {"alive", "save", "upload", "commit", "close", "print"}

\* Everything SendTypeOK says, and the types of what it leaves out.
SendTypes ==
    /\ SendTypeOK
    /\ pc \in Holding \cup {"idle", "load", "pack", "create"}
    /\ resumed \in BOOLEAN
    /\ todo \subseteq Segment
    /\ worker \in [Worker -> WorkerState]
    /\ \A w \in Worker : worker[w].at \in {"head", "patch"} =>
            worker[w].seg \in Segment /\ pc = "upload"
    /\ declared \in [Transfer -> [Segment -> Version \cup {None}]]
    /\ got \in [Transfer -> [Segment -> Seq(Version \cup {None, Short})]]
    /\ late \subseteq PatchMsg \cup CommitMsg

\* The session in memory and the one on disk at each statement of a run.
SessionInv ==
    /\ pc \in {"idle", "load"} => ~resumed
    /\ pc \in Holding \/ resumed => sess # None
    /\ (pc = "pack" /\ ~resumed) \/ pc = "create" => sessfile[plan] = None
    /\ (pc = "pack" /\ resumed) \/ pc = "alive" => sessfile[plan] = sess
    /\ pc = "save" /\ sessfile[plan] # None => sessfile[plan].t = sess.t
    /\ pc \in {"upload", "commit", "close"} =>
            sessfile[plan] # None /\ sessfile[plan].t = sess.t

SessionAt(t, p) == sessfile[p] # None /\ sessfile[p].t = t
RunHas(t, p) == plan = p /\ sess # None /\ sess.t = t
                /\ (pc \in Holding \/ (pc = "pack" /\ resumed))
LateCommit(q, t) == q \in late /\ q.op = "commit" /\ q.t = t

\* Some run with plan p works, has worked or is to work on transfer t.
Owns(t, p) ==
    \/ SessionAt(t, p)
    \/ RunHas(t, p)
    \/ \E q \in CommitMsg : LateCommit(q, t) /\ q.plan = p

\* A transfer belongs to one plan, and once it is committed it holds what that
\* plan has scanned.
OwnerInv ==
    \A t \in Transfer, p \in Plan : Owns(t, p) =>
        /\ \A o \in Plan : Owns(t, o) => o = p
        /\ tstate[t] = "committed" => \A s \in Segment : Uniform(t, s, p[s])

\* A commit declares the raw files as they were scanned.
LateInv ==
    \A q \in CommitMsg : q \in late => \A s \in Raw : q.digests[s] = q.plan[s]

Covered(t) ==
    \/ t \in answered \cup dropped
    \/ \E p \in Plan : SessionAt(t, p)
    \/ pc = "print" /\ sess.t = t

\* A transfer that is committed, or that a late request may yet commit, is
\* known to the next run, or was printed or given up.
CoverInv ==
    \A t \in Transfer :
        tstate[t] = "committed" \/ (\E q \in CommitMsg : LateCommit(q, t)) => Covered(t)

SendInv == SendTypes /\ SessionInv /\ OwnerInv /\ LateInv /\ CoverInv

-----------------------------------------------------------------------------
(* Facts about the operators of the model.                                 *)

\* A free id has a least one among its kind, and that is the one taken.
LEMMA FreshIdFree == ASSUME Free # {} PROVE FreshId \in Free
<1>. DEFINE R == OpToRel(<, Nat)
<1>1. Free \subseteq Nat
  BY SendAssumption DEF Free
<1>2. IsWellFoundedOn(R, Nat)
  BY NatLessThanWellFounded
<1>. HIDE DEF R
<1>3. PICK x \in Free : \A y \in Free : ~ (<<y, x>> \in R)
  BY <1>1, <1>2, WFMin
<1>4. \A y \in Free : ~(y < x)
  BY <1>1, <1>3 DEF R, OpToRel
<1>5. \A y \in Free : x <= y
  BY <1>1, <1>4
<1>. QED
  BY <1>5, Zenon DEF FreshId

\* A session that is written is no absent session.
LEMMA SessionNotNone == ASSUME NEW x \in Session PROVE x # None
  BY NoSessionAssumption

\* n bytes of one version, appended where the sequence ends.
LEMMA Appended ==
  ASSUME NEW S, NEW x \in Seq(S), NEW v \in S, NEW n \in Nat
  PROVE  /\ x \o [i \in 1..n |-> v] \in Seq(S)
         /\ Len(x \o [i \in 1..n |-> v]) = Len(x) + n
<1>. DEFINE y == [i \in 1..n |-> v]
<1>1. y \in Seq(S) /\ Len(y) = n
  BY SMT
<1>. HIDE DEF y
<1>2. x \o y \in Seq(S) /\ Len(x \o y) = Len(x) + Len(y)
  BY <1>1, ConcatProperties
<1>. QED  BY <1>1, <1>2 DEF y

-----------------------------------------------------------------------------
(* Frames: what keeps the parts of the invariant.                          *)

\* Nobody gets hold of a transfer, none is committed, and a committed one keeps
\* its bytes.
LEMMA OwnerFrame ==
  ASSUME OwnerInv,
         \A t \in Transfer, p \in Plan : Owns(t, p)' => Owns(t, p),
         \A t \in Transfer : tstate'[t] = "committed" =>
             tstate[t] = "committed" /\ got'[t] = got[t]
  PROVE  OwnerInv'
BY DEF OwnerInv, Uniform

\* What was covered stays so, and nothing new needs cover.
LEMMA CoverFrame ==
  ASSUME CoverInv,
         \A t \in Transfer : tstate'[t] = "committed" => tstate[t] = "committed",
         late' \cap CommitMsg \subseteq late,
         \A t \in Transfer : Covered(t) => Covered(t)'
  PROVE  CoverInv'
BY Zenon DEF CoverInv, LateCommit

\* The empty client and the empty server.
LEMMA SendInitInv == SendInit => SendInv
<1>. SUFFICES ASSUME SendInit PROVE SendInv
  OBVIOUS
<1>. USE SendAssumption DEF SendInit, Plan, NoPacks
<1>1. source \in Plan
  BY DEF Version
<1>2. SendTypeOK
  <2>1. \A t \in Transfer, s \in Segment : got[t][s] = <<>>
    OBVIOUS
  <2>2. \A t \in Transfer, s \in Segment : Len(got[t][s]) \in 0..Length[s]
    BY <2>1
  <2>. QED  BY <1>1, <2>2 DEF SendTypeOK, TState
<1>3. SendTypes
  <2>1. \A S : <<>> \in Seq(S)
    BY SMT
  <2>2. got \in [Transfer -> [Segment -> Seq(Version \cup {None, Short})]]
    BY <2>1
  <2>3. worker \in [Worker -> WorkerState] /\ \A w \in Worker : worker[w].at = "returned"
    BY DEF Idle, WorkerState
  <2>. QED  BY <1>1, <1>2, <2>2, <2>3 DEF SendTypes
<1>4. SessionInv
  BY DEF SessionInv, Holding
<1>5. \A t \in Transfer, p \in Plan : ~Owns(t, p)
  BY DEF Owns, SessionAt, RunHas, LateCommit
<1>. QED
  BY <1>3, <1>4, <1>5 DEF SendInv, OwnerInv, LateInv, CoverInv, LateCommit

\* removeSession leaves files of the same kind behind.
LEMMA RemoveSessionTypes ==
  ASSUME SendTypes, NEW x, RemoveSession(x)
  PROVE  /\ sessfile' \in [Plan -> Session \cup {None}]
         /\ packfile' \in [Plan -> [Pack -> Version \cup {None, Short}]]
<1>. DEFINE new == [s \in Pack |-> IF x.packs[s] # None THEN None ELSE packfile[plan][s]]
<1>1. new \in [Pack -> Version \cup {None, Short}]
  BY DEF SendTypes, SendTypeOK
<1>2. packfile' = [packfile EXCEPT ![plan] = new]
  BY DEF RemoveSession, SendTypes, SendTypeOK
<1>. HIDE DEF new
<1>. QED
  BY <1>1, <1>2 DEF RemoveSession, SendTypes, SendTypeOK

\* A write to one pack file.
LEMMA PackfileTypes ==
  ASSUME SendTypes, NEW s \in Pack, NEW v \in Version \cup {None, Short},
         packfile' = [packfile EXCEPT ![plan][s] = v]
  PROVE  packfile' \in [Plan -> [Pack -> Version \cup {None, Short}]]
<1>. DEFINE new == [packfile[plan] EXCEPT ![s] = v]
<1>1. new \in [Pack -> Version \cup {None, Short}]
  BY DEF SendTypes, SendTypeOK
<1>2. packfile' = [packfile EXCEPT ![plan] = new]
  OBVIOUS
<1>. HIDE DEF new
<1>. QED
  BY <1>1, <1>2 DEF SendTypes, SendTypeOK

\* What the server has of a segment is a number of bytes.
LEMMA UploadLen ==
  ASSUME SendTypes, SessionInv, pc = "upload", NEW s \in Segment
  PROVE  sess.t \in Transfer /\ Len(got[sess.t][s]) \in Nat
<1>1. sess \in Session
  BY DEF SendTypes, SendTypeOK, SessionInv, Holding
<1>2. sess.t \in Transfer
  BY <1>1 DEF Session
<1>3. Length[s] \in Nat /\ Len(got[sess.t][s]) \in 0..Length[s]
  BY <1>2, SendAssumption DEF SendTypes, SendTypeOK
<1>. QED  BY <1>2, <1>3

\* The states a worker can be put into.
LEMMA WorkerStates ==
  /\ Idle \in WorkerState /\ Idle.at = "returned"
  /\ [Idle EXCEPT !.at = "wait"] \in WorkerState
  /\ [Idle EXCEPT !.at = "wait"].at = "wait"
  /\ \A s \in Segment : [at |-> "head", seg |-> s, off |-> 0, tries |-> 0] \in WorkerState
  /\ \A x \in WorkerState, n \in Nat :
        /\ [x EXCEPT !.at = "patch", !.off = n] \in WorkerState
        /\ [x EXCEPT !.at = "patch", !.off = n].seg = x.seg
        /\ [x EXCEPT !.at = "head", !.tries = n] \in WorkerState
        /\ [x EXCEPT !.at = "head", !.tries = n].seg = x.seg
<1>1. /\ Idle \in WorkerState /\ Idle.at = "returned"
      /\ [Idle EXCEPT !.at = "wait"] \in WorkerState
      /\ [Idle EXCEPT !.at = "wait"].at = "wait"
  BY DEF Idle, WorkerState
<1>2. \A s \in Segment : [at |-> "head", seg |-> s, off |-> 0, tries |-> 0] \in WorkerState
  BY DEF WorkerState
<1>3. ASSUME NEW x \in WorkerState, NEW n \in Nat
      PROVE  /\ [x EXCEPT !.at = "patch", !.off = n] \in WorkerState
             /\ [x EXCEPT !.at = "patch", !.off = n].seg = x.seg
  BY DEF WorkerState
<1>4. ASSUME NEW x \in WorkerState, NEW n \in Nat
      PROVE  /\ [x EXCEPT !.at = "head", !.tries = n] \in WorkerState
             /\ [x EXCEPT !.at = "head", !.tries = n].seg = x.seg
  BY DEF WorkerState
<1>. QED  BY <1>1, <1>2, <1>3, <1>4

\* One worker moves, the others stay.
LEMMA GoTypes ==
  ASSUME SendTypes, NEW w \in Worker, NEW r \in WorkerState, Go(w, r),
         r.at \in {"head", "patch"} => r.seg \in Segment /\ pc = "upload"
  PROVE  /\ worker' \in [Worker -> WorkerState]
         /\ \A x \in Worker : worker'[x].at \in {"head", "patch"} =>
                worker'[x].seg \in Segment /\ pc = "upload"
BY DEF SendTypes, Go

\* A run that returns leaves nothing in memory.
LEMMA EndTypes ==
  ASSUME NEW e, End(e)
  PROVE  /\ sess' \in Session \cup {None}
         /\ packs' \in [Pack -> Version \cup {None}]
         /\ pc' = "idle" /\ resumed' = FALSE /\ todo' = {}
         /\ worker' \in [Worker -> WorkerState]
         /\ \A w \in Worker : worker'[w].at = "returned"
BY DEF End, NoPacks, Idle, WorkerState

-----------------------------------------------------------------------------
(* One lemma per step of the client.                                       *)

\* A run starts without a session.
LEMMA ScanInv == ASSUME SendInv, Scan PROVE SendInv'
<1>. USE DEF SendInv, Scan, poolVars, diskVars, serverVars
<1>1. SendTypes'
  BY DEF SendTypes, SendTypeOK
<1>2. SessionInv'
  BY DEF SessionInv, Holding
<1>3. OwnerInv'
  <2>1. \A t \in Transfer, p \in Plan : Owns(t, p)' => Owns(t, p)
    BY DEF Owns, SessionAt, RunHas, LateCommit, Holding
  <2>. QED  BY <2>1, OwnerFrame
<1>4. LateInv'
  BY DEF LateInv
<1>5. CoverInv'
  <2>1. \A t \in Transfer : Covered(t) => Covered(t)'
    BY DEF Covered, SessionAt
  <2>. QED  BY <2>1, CoverFrame
<1>. QED  BY <1>1, <1>2, <1>3, <1>4, <1>5

\* The session the run finds is the session of its plan, and one whose sources
\* have changed is given up.
LEMMA LoadSessionInv == ASSUME SendInv, LoadSession PROVE SendInv'
<1>1. SendTypes'
  <2>. USE DEF SendInv, LoadSession, Continue, poolVars, diskVars, serverVars
  <2>1. CASE sessfile[plan] = None \/ Unchanged
    BY <2>1 DEF SendTypes, SendTypeOK
  <2>2. CASE ~(sessfile[plan] = None \/ Unchanged)
    <3>1. End("SOURCE_CHANGED") /\ RemoveSession(sessfile[plan])
      BY <2>2
    <3>. QED  BY <3>1, EndTypes, RemoveSessionTypes DEF SendTypes, SendTypeOK
  <2>. QED  BY <2>1, <2>2
<1>. USE DEF SendInv, LoadSession, RemoveSession, Continue, End, NoPacks, poolVars, diskVars, serverVars
<1>2. SessionInv'
  BY DEF SessionInv, Holding, SendTypes, SendTypeOK
<1>3. OwnerInv'
  <2>1. \A t \in Transfer, p \in Plan : Owns(t, p)' => Owns(t, p)
    BY DEF Owns, SessionAt, RunHas, LateCommit, Holding, SessionInv, SendTypes, SendTypeOK
  <2>. QED  BY <2>1, OwnerFrame
<1>4. LateInv'
  BY DEF LateInv
<1>5. CoverInv'
  <2>1. \A t \in Transfer : Covered(t) => Covered(t)'
    BY DEF Covered, SessionAt, SendTypes, SendTypeOK
  <2>. QED  BY <2>1, CoverFrame
<1>. QED  BY <1>1, <1>2, <1>3, <1>4, <1>5

\* A pack that is reused or built touches no session.
LEMMA PackInv ==
  ASSUME SendInv, NEW s \in Pack, ReusePack(s) \/ BuildPack(s) PROVE SendInv'
<1>1. SendTypes'
  <2>. USE DEF SendInv, poolVars, diskVars, serverVars
  <2>1. CASE ReusePack(s)
    <3>1. sess \in Session
      BY <2>1 DEF ReusePack, Reusable, SendTypes, SendTypeOK, SessionInv
    <3>2. sess.packs[s] \in Version \cup {None}
      BY <3>1 DEF Session
    <3>. QED  BY <2>1, <3>2 DEF ReusePack, SendTypes, SendTypeOK
  <2>2. CASE BuildPack(s)
    <3>1. source[s] \in Version
      BY DEF SendTypes, SendTypeOK, Plan, Segment
    <3>2. packfile' \in [Plan -> [Pack -> Version \cup {None, Short}]]
      <4>1. PICK v \in Version \cup {None} : packfile' = [packfile EXCEPT ![plan][s] = v]
        BY <2>2, <3>1 DEF BuildPack
      <4>. QED  BY <4>1, PackfileTypes
    <3>3. CASE packs' = [packs EXCEPT ![s] = source[s]] /\ UNCHANGED <<pc, resumed, sess, poolVars>>
      <4>1. packs' \in [Pack -> Version \cup {None}]
        BY <3>1, <3>3 DEF SendTypes, SendTypeOK
      <4>2. UNCHANGED <<source, plan, sessfile, serverVars, late, pc, resumed, sess, poolVars>>
        BY <2>2, <3>3 DEF BuildPack
      <4>. QED  BY <4>1, <4>2, <3>2 DEF SendTypes, SendTypeOK
    <3>4. CASE End("SOURCE_CHANGED")
      BY <2>2, <3>2, <3>4, EndTypes DEF BuildPack, SendTypes, SendTypeOK
    <3>. QED  BY <2>2, <3>3, <3>4 DEF BuildPack
  <2>. QED  BY <2>1, <2>2
<1>. USE DEF SendInv, ReusePack, BuildPack, Reusable, End, NoPacks, poolVars, diskVars, serverVars
<1>2. SessionInv'
  BY DEF SessionInv, Holding
<1>3. OwnerInv'
  <2>1. \A t \in Transfer, p \in Plan : Owns(t, p)' => Owns(t, p)
    BY DEF Owns, SessionAt, RunHas, LateCommit, Holding
  <2>. QED  BY <2>1, OwnerFrame
<1>4. LateInv'
  BY DEF LateInv
<1>5. CoverInv'
  <2>1. \A t \in Transfer : Covered(t) => Covered(t)'
    BY DEF Covered, SessionAt
  <2>. QED  BY <2>1, CoverFrame
<1>. QED  BY <1>1, <1>2, <1>3, <1>4, <1>5

\* The run that has its packs goes on with the session it loaded, if any.
LEMMA PacksReadyInv == ASSUME SendInv, PacksReady PROVE SendInv'
<1>. USE DEF SendInv, PacksReady, poolVars, diskVars, serverVars
<1>1. SendTypes'
  BY DEF SendTypes, SendTypeOK, Holding
<1>2. SessionInv'
  BY DEF SessionInv, Holding, SendTypes
<1>3. OwnerInv'
  <2>1. \A t \in Transfer, p \in Plan : Owns(t, p)' => Owns(t, p)
    BY DEF Owns, SessionAt, RunHas, LateCommit, Holding
  <2>. QED  BY <2>1, OwnerFrame
<1>4. LateInv'
  BY DEF LateInv
<1>5. CoverInv'
  <2>1. \A t \in Transfer : Covered(t) => Covered(t)'
    BY DEF Covered, SessionAt
  <2>. QED  BY <2>1, CoverFrame
<1>. QED  BY <1>1, <1>2, <1>3, <1>4, <1>5

\* A session the server does not know is given up.
LEMMA CheckAliveInv == ASSUME SendInv, CheckAlive PROVE SendInv'
<1>. USE DEF SendInv, CheckAlive, RemoveSession, poolVars, diskVars, serverVars
<1>0. sess \in Session
  BY DEF SendTypes, SendTypeOK, SessionInv, Holding
<1>1. SendTypes'
  <2>1. CASE pc' = "save" /\ UNCHANGED <<resumed, diskVars>>
    BY <2>1 DEF SendTypes, SendTypeOK, Holding
  <2>2. CASE RemoveSession(sess) /\ resumed' = FALSE /\ pc' = "create"
    <3>. HIDE DEF RemoveSession
    <3>. QED  BY <2>2, RemoveSessionTypes DEF SendTypes, SendTypeOK
  <2>. QED  BY <2>1, <2>2
<1>2. SessionInv'
  BY <1>0 DEF SessionInv, Holding, SendTypes, SendTypeOK
<1>3. OwnerInv'
  <2>1. \A t \in Transfer, p \in Plan : Owns(t, p)' => Owns(t, p)
    BY DEF Owns, SessionAt, RunHas, LateCommit, Holding, SendTypes, SendTypeOK
  <2>. QED  BY <2>1, OwnerFrame
<1>4. LateInv'
  BY DEF LateInv
<1>5. CoverInv'
  <2>1. \A t \in Transfer : Covered(t) => Covered(t)'
    BY DEF Covered, SessionAt, SessionInv, SendTypes, SendTypeOK
  <2>. QED  BY <2>1, CoverFrame
<1>. QED  BY <1>1, <1>2, <1>3, <1>4, <1>5

\* The id of a new transfer is nobody's: not of a session, nor of a late request.
LEMMA CreateInv == ASSUME SendInv, Create PROVE SendInv'
<1>0. PICK f \in Free : f = FreshId
  BY FreshIdFree DEF Create
<1>1. /\ pc = "create" /\ UNCHANGED <<source, plan, sessfile, packfile, late>>
      /\ \/ pc' = "save" /\ sess' = [t |-> f, packs |-> packs] /\ UNCHANGED <<resumed, packs, poolVars>>
         \/ End("NETWORK")
      /\ Insert(f) \/ (End("NETWORK") /\ UNCHANGED <<serverVars, answered, dropped>>)
  BY <1>0 DEF Create, Continue, diskVars
<1>2. /\ f \in Transfer /\ tstate[f] = "gone"
      /\ \A q \in late : q.t # f
      /\ \A p \in Plan : ~SessionAt(f, p)
  BY DEF Free, SessionAt
<1>3. SendTypes'
  <2>1. Digests \in [Segment -> Version \cup {None}]
    BY DEF SendInv, SendTypes, SendTypeOK, Digests, Segment, Plan
  <2>2. /\ tstate' \in [Transfer -> TState]
        /\ declared' \in [Transfer -> [Segment -> Version \cup {None}]]
        /\ got' = got
    BY <1>1, <1>2, <2>1 DEF SendInv, SendTypes, SendTypeOK, Insert, TState, serverVars
  <2>3. CASE pc' = "save" /\ sess' = [t |-> f, packs |-> packs] /\ UNCHANGED <<resumed, packs, poolVars>>
    <3>1. sess' \in Session
      BY <1>2, <2>3 DEF Session, SendInv, SendTypes, SendTypeOK
    <3>. QED  BY <1>1, <2>2, <2>3, <3>1 DEF SendInv, SendTypes, SendTypeOK, poolVars, Holding
  <2>4. CASE End("NETWORK")
    BY <1>1, <2>2, <2>4, EndTypes DEF SendInv, SendTypes, SendTypeOK
  <2>. QED  BY <1>1, <2>3, <2>4
<1>4. SessionInv'
  <2>1. [t |-> f, packs |-> packs] # None
    BY <1>2, SessionNotNone DEF SendInv, SendTypes, SendTypeOK, Session
  <2>. QED  BY <1>1, <2>1 DEF SendInv, SessionInv, Holding, End
<1>5. \A t \in Transfer \ {f}, p \in Plan : Owns(t, p)' => Owns(t, p)
  BY <1>1 DEF Owns, SessionAt, RunHas, LateCommit, End, Holding
<1>6. \A p \in Plan : Owns(f, p)' => p = plan
  <2>1. \A p \in Plan : ~SessionAt(f, p)'
    BY <1>1, <1>2, Zenon DEF SessionAt
  <2>2. \A q \in CommitMsg : ~LateCommit(q, f)'
    BY <1>1, <1>2 DEF LateCommit
  <2>. QED  BY <1>1, <2>1, <2>2 DEF Owns, RunHas
<1>7. \A t \in Transfer : tstate'[t] = "committed" => t # f /\ tstate[t] = "committed" /\ got'[t] = got[t]
  BY <1>1, <1>2 DEF Insert, serverVars, SendInv, SendTypes, SendTypeOK
<1>8. OwnerInv'
  <2>. SUFFICES ASSUME NEW t \in Transfer, NEW p \in Plan, Owns(t, p)'
                PROVE  /\ \A o \in Plan : Owns(t, o)' => o = p
                       /\ tstate'[t] = "committed" => \A s \in Segment : Uniform(t, s, p[s])'
    BY Zenon DEF OwnerInv
  <2>1. CASE t = f
    BY <1>6, <1>7, <2>1
  <2>2. CASE t # f
    <3>1. Owns(t, p) /\ \A o \in Plan : Owns(t, o)' => Owns(t, o)
      BY <1>5, <2>2
    <3>. QED  BY <1>7, <3>1 DEF SendInv, OwnerInv, Uniform
  <2>. QED  BY <2>1, <2>2
<1>9. CoverInv'
  <2>1. \A t \in Transfer \ {f} : Covered(t) => Covered(t)'
    BY <1>1 DEF Covered, SessionAt, Insert
  <2>2. \A q \in CommitMsg : ~LateCommit(q, f)'
    BY <1>1, <1>2 DEF LateCommit
  <2>. QED  BY <1>1, <1>7, <2>1, <2>2 DEF SendInv, CoverInv, LateCommit
<1>. QED  BY <1>1, <1>3, <1>4, <1>8, <1>9 DEF SendInv, LateInv

\* The session that is written names the transfer the run already has.
LEMMA SaveSessionInv == ASSUME SendInv, SaveSession PROVE SendInv'
<1>. USE DEF SendInv, SaveSession, WriteSession, serverVars
<1>0. sess \in Session /\ sess' \in Session /\ sess'.t = sess.t /\ sess' # None
  <2>1. sess \in Session
    BY DEF SendTypes, SendTypeOK, SessionInv, Holding
  <2>. QED  BY <2>1, SessionNotNone DEF SendTypes, SendTypeOK, Session
<1>1. SendTypes'
  <2>1. worker' \in [Worker -> WorkerState] /\ \A w \in Worker : worker'[w].at = "wait"
    BY DEF Idle, WorkerState
  <2>. QED  BY <1>0, <2>1 DEF SendTypes, SendTypeOK, Holding
<1>2. SessionInv'
  BY <1>0 DEF SessionInv, Holding, SendTypes, SendTypeOK
<1>3. OwnerInv'
  <2>1. \A t \in Transfer, p \in Plan : Owns(t, p)' => Owns(t, p)
    BY <1>0 DEF Owns, SessionAt, RunHas, LateCommit, Holding, SessionInv, SendTypes, SendTypeOK
  <2>. QED  BY <2>1, OwnerFrame
<1>4. LateInv'
  BY DEF LateInv
<1>5. CoverInv'
  <2>1. \A t \in Transfer : Covered(t) => Covered(t)'
    BY <1>0 DEF Covered, SessionAt, SessionInv, SendTypes, SendTypeOK
  <2>. QED  BY <2>1, CoverFrame
<1>. QED  BY <1>1, <1>2, <1>3, <1>4, <1>5

\* A step that leaves the run, the disk and what was reported alone, commits
\* nothing and adds no commit request.
LEMMA ServerFrame ==
  ASSUME SendInv, SendTypes', UNCHANGED <<runVars, diskVars, answered, dropped>>,
         \A t \in Transfer : tstate'[t] = "committed" =>
             tstate[t] = "committed" /\ got'[t] = got[t],
         late' \cap CommitMsg \subseteq late
  PROVE  SendInv'
<1>. USE DEF SendInv, runVars, diskVars
<1>1. SessionInv'
  BY DEF SessionInv
<1>2. OwnerInv'
  <2>1. \A t \in Transfer, p \in Plan : Owns(t, p)' => Owns(t, p)
    BY DEF Owns, SessionAt, RunHas, LateCommit
  <2>. QED  BY <2>1, OwnerFrame
<1>3. LateInv'
  BY DEF LateInv
<1>4. CoverInv'
  <2>1. \A t \in Transfer : Covered(t) => Covered(t)'
    BY DEF Covered, SessionAt
  <2>. QED  BY <2>1, CoverFrame
<1>. QED  BY <1>1, <1>2, <1>3, <1>4

\* The feeder hands a segment to a worker or passes it over.
LEMMA FeedInv ==
  ASSUME SendInv, NEW s \in Segment, FeedCancelled(s) \/ \E w \in Worker : Feed(w, s)
  PROVE  SendInv'
<1>1. SendTypes'
  <2>1. CASE FeedCancelled(s)
    BY <2>1 DEF FeedCancelled, SendInv, SendTypes, SendTypeOK, runVars, diskVars, serverVars
  <2>2. ASSUME NEW w \in Worker, Feed(w, s) PROVE SendTypes'
    <3>1. /\ worker' \in [Worker -> WorkerState]
          /\ \A x \in Worker : worker'[x].at \in {"head", "patch"} =>
                worker'[x].seg \in Segment /\ pc = "upload"
      BY <2>2, GoTypes, WorkerStates DEF Feed, SendInv
    <3>. QED  BY <2>2, <3>1 DEF Feed, SendInv, SendTypes, SendTypeOK, runVars, diskVars, serverVars
  <2>. QED  BY <2>1, <2>2
<1>. QED  BY <1>1, ServerFrame DEF FeedCancelled, Feed, serverVars

\* The answer to HEAD is an offset within the segment.
LEMMA HeadOffsetInv ==
  ASSUME SendInv, NEW w \in Worker, HeadOffset(w) PROVE SendInv'
<1>1. SendTypes'
  <2>1. worker[w] \in WorkerState /\ worker[w].seg \in Segment /\ pc = "upload"
    BY DEF SendInv, SendTypes, HeadOffset
  <2>2. PICK n \in Nat : n = Len(got[sess.t][worker[w].seg])
    BY <2>1, UploadLen DEF SendInv
  <2>3. \/ Go(w, Idle)
        \/ Go(w, [Idle EXCEPT !.at = "wait"])
        \/ Go(w, [worker[w] EXCEPT !.at = "patch", !.off = n])
    BY <2>2 DEF HeadOffset, WorkerFails
  <2>4. /\ worker' \in [Worker -> WorkerState]
        /\ \A x \in Worker : worker'[x].at \in {"head", "patch"} =>
              worker'[x].seg \in Segment /\ pc = "upload"
    BY <2>1, <2>3, GoTypes, WorkerStates DEF SendInv
  <2>. QED  BY <2>4 DEF HeadOffset, SendInv, SendTypes, SendTypeOK, runVars, diskVars, serverVars
<1>. QED  BY <1>1, ServerFrame DEF HeadOffset, serverVars

\* The PATCH of a worker is a message of its type.
LEMMA PatchOfType ==
  ASSUME SendTypes, SessionInv, NEW w \in Worker, worker[w].at = "patch"
  PROVE  /\ PatchOf(w) \in PatchMsg /\ PatchOf(w).seg = worker[w].seg
         /\ PatchOf(w) \notin CommitMsg
<1>1. worker[w].seg \in Segment /\ worker[w].off \in Nat /\ pc = "upload"
  BY DEF SendTypes, WorkerState
<1>2. sess.t \in Transfer
  BY <1>1, UploadLen
<1>3. ASSUME NEW s \in Segment
      PROVE  (IF s \in Raw THEN source[s] ELSE packfile[plan][s]) \in Version \cup {None, Short}
  <2>1. source[s] \in Version
    BY DEF SendTypes, SendTypeOK, Plan
  <2>2. s \notin Raw => packfile[plan][s] \in Version \cup {None, Short}
    BY DEF SendTypes, SendTypeOK, Segment
  <2>. QED  BY <2>1, <2>2
<1>. QED  BY <1>1, <1>2, <1>3 DEF PatchOf, PatchMsg, CommitMsg

\* Bytes are appended where the segment of an open transfer ends, and no further
\* than its length.
LEMMA TakeTypes ==
  ASSUME SendTypes, NEW q \in PatchMsg, NEW n \in Nat, n <= Length[q.seg] - q.off,
         Accepts(q), Take(q, n)
  PROVE  /\ got' \in [Transfer -> [Segment -> Seq(Version \cup {None, Short})]]
         /\ \A t \in Transfer, s \in Segment : Len(got'[t][s]) \in 0..Length[s]
         /\ \A t \in Transfer : tstate[t] = "committed" => got'[t] = got[t]
<1>. DEFINE V == Version \cup {None, Short}
            x == got[q.t][q.seg]
            y == x \o [i \in 1..n |-> q.v]
<1>0. q.t \in Transfer /\ q.seg \in Segment /\ q.off \in Nat /\ q.v \in V
  BY DEF PatchMsg
<1>1. x \in Seq(V) /\ Length[q.seg] \in Nat /\ Len(x) = q.off
  BY <1>0, SendAssumption DEF SendTypes, Accepts
<1>2. y \in Seq(V) /\ Len(y) = Len(x) + n
  <2>. HIDE DEF V, x
  <2>. QED  BY <1>0, <1>1, Appended
<1>3. Len(y) \in 0..Length[q.seg]
  <2>. HIDE DEF y, x
  <2>. QED  BY <1>0, <1>1, <1>2
<1>4. got' = [got EXCEPT ![q.t] = [got[q.t] EXCEPT ![q.seg] = y]]
  BY <1>0 DEF Take, SendTypes
<1>. HIDE DEF y, x
<1>5. got' \in [Transfer -> [Segment -> Seq(V)]]
  BY <1>0, <1>2, <1>4 DEF SendTypes
<1>6. \A t \in Transfer, s \in Segment : Len(got'[t][s]) \in 0..Length[s]
  BY <1>0, <1>3, <1>4 DEF SendTypes, SendTypeOK
<1>7. \A t \in Transfer : tstate[t] = "committed" => got'[t] = got[t]
  BY <1>0, <1>4 DEF SendTypes, Accepts
<1>. QED  BY <1>5, <1>6, <1>7

\* A PATCH writes to an open transfer, or becomes a late request.
LEMMA PatchInv == ASSUME SendInv, NEW w \in Worker, Patch(w) PROVE SendInv'
<1>. DEFINE q == PatchOf(w)
            rest == Length[q.seg] - q.off
<1>1. /\ worker[w] \in WorkerState /\ worker[w].seg \in Segment /\ pc = "upload"
      /\ q \in PatchMsg /\ q.seg \in Segment /\ q.off \in Nat /\ q \notin CommitMsg
  BY PatchOfType DEF Patch, SendInv, SendTypes, PatchMsg
<1>2. /\ got' \in [Transfer -> [Segment -> Seq(Version \cup {None, Short})]]
      /\ \A t \in Transfer, s \in Segment : Len(got'[t][s]) \in 0..Length[s]
      /\ \A t \in Transfer : tstate[t] = "committed" => got'[t] = got[t]
  <2>1. CASE UNCHANGED got
    BY <2>1 DEF SendInv, SendTypes, SendTypeOK
  <2>2. CASE Accepts(q) /\ \E n \in 0..rest : Take(q, n)
    <3>1. PICK n \in 0..rest : Take(q, n)
      BY <2>2
    <3>2. Length[q.seg] \in Nat
      BY <1>1, SendAssumption
    <3>3. n \in Nat /\ n <= rest
      BY <1>1, <3>2
    <3>. QED  BY <1>1, <2>2, <3>1, <3>3, TakeTypes DEF SendInv
  <2>3. CASE Accepts(q) /\ Take(q, rest)
    <3>1. q.t \in Transfer /\ Length[q.seg] \in Nat /\ Len(got[q.t][q.seg]) \in 0..Length[q.seg]
      BY <1>1, SendAssumption DEF PatchMsg, SendInv, SendTypes, SendTypeOK
    <3>2. rest \in Nat
      BY <1>1, <2>3, <3>1 DEF Accepts
    <3>. QED  BY <1>1, <2>3, <3>2, TakeTypes DEF SendInv
  <2>. QED  BY <2>1, <2>2, <2>3 DEF Patch
<1>3. /\ worker' \in [Worker -> WorkerState]
      /\ \A x \in Worker : worker'[x].at \in {"head", "patch"} =>
            worker'[x].seg \in Segment /\ pc = "upload"
  <2>1. worker[w].tries + 1 \in Nat
    BY <1>1 DEF WorkerState
  <2>2. \/ Go(w, Idle)
        \/ Go(w, [Idle EXCEPT !.at = "wait"])
        \/ Go(w, [worker[w] EXCEPT !.at = "head", !.tries = worker[w].tries + 1])
    BY DEF Patch, Retry, WorkerFails
  <2>. QED  BY <1>1, <2>1, <2>2, GoTypes, WorkerStates DEF SendInv
<1>4. late' = late \/ late' = late \cup {q}
  BY DEF Patch
<1>5. SendTypes'
  BY <1>1, <1>2, <1>3, <1>4 DEF Patch, SendInv, SendTypes, SendTypeOK, runVars, diskVars
<1>. QED  BY <1>1, <1>2, <1>4, <1>5, ServerFrame DEF Patch

\* A run that returns from its uploads, or prints its code, keeps its files.
LEMMA UploadsEndInv == ASSUME SendInv, UploadsEnd PROVE SendInv'
<1>. USE DEF SendInv, UploadsEnd, Continue, diskVars, serverVars
<1>1. SendTypes'
  <2>1. CASE pc' = "commit" /\ worker' = [w \in Worker |-> Idle] /\ UNCHANGED <<resumed, sess, packs, todo>>
    <3>1. worker' \in [Worker -> WorkerState] /\ \A w \in Worker : worker'[w].at = "returned"
      BY <2>1, WorkerStates
    <3>. QED  BY <2>1, <3>1 DEF SendTypes, SendTypeOK, Holding
  <2>2. CASE End(failure)
    BY <2>2, EndTypes DEF SendTypes, SendTypeOK
  <2>. QED  BY <2>1, <2>2
<1>. USE DEF End
<1>2. SessionInv'
  BY DEF SessionInv, Holding
<1>3. OwnerInv'
  <2>1. \A t \in Transfer, p \in Plan : Owns(t, p)' => Owns(t, p)
    BY DEF Owns, SessionAt, RunHas, LateCommit, Holding
  <2>. QED  BY <2>1, OwnerFrame
<1>4. LateInv'
  BY DEF LateInv
<1>5. CoverInv'
  <2>1. \A t \in Transfer : Covered(t) => Covered(t)'
    BY DEF Covered, SessionAt
  <2>. QED  BY <2>1, CoverFrame
<1>. QED  BY <1>1, <1>2, <1>3, <1>4, <1>5

\* The session of a commit that succeeded is removed; until the code is printed
\* only the run knows the transfer.
LEMMA CloseSessionInv == ASSUME SendInv, CloseSession PROVE SendInv'
<1>. USE DEF SendInv, CloseSession, poolVars, serverVars
<1>1. SendTypes'
  BY RemoveSessionTypes DEF SendTypes, SendTypeOK, Holding
<1>. USE DEF RemoveSession
<1>2. SessionInv'
  BY DEF SessionInv, Holding
<1>3. OwnerInv'
  <2>1. \A t \in Transfer, p \in Plan : Owns(t, p)' => Owns(t, p)
    BY DEF Owns, SessionAt, RunHas, LateCommit, Holding, SendTypes, SendTypeOK
  <2>. QED  BY <2>1, OwnerFrame
<1>4. LateInv'
  BY DEF LateInv
<1>5. CoverInv'
  <2>1. \A t \in Transfer : Covered(t) => Covered(t)'
    BY DEF Covered, SessionAt, SessionInv, SendTypes, SendTypeOK
  <2>. QED  BY <2>1, CoverFrame
<1>. QED  BY <1>1, <1>2, <1>3, <1>4, <1>5

\* The printed code is one the user has.
LEMMA ReportCodeInv == ASSUME SendInv, ReportCode PROVE SendInv'
<1>. USE DEF SendInv, ReportCode, diskVars, serverVars
<1>1. SendTypes'
  BY EndTypes DEF SendTypes, SendTypeOK
<1>. USE DEF End
<1>2. SessionInv'
  BY DEF SessionInv, Holding
<1>3. OwnerInv'
  <2>1. \A t \in Transfer, p \in Plan : Owns(t, p)' => Owns(t, p)
    BY DEF Owns, SessionAt, RunHas, LateCommit, Holding
  <2>. QED  BY <2>1, OwnerFrame
<1>4. LateInv'
  BY DEF LateInv
<1>5. CoverInv'
  <2>1. \A t \in Transfer : Covered(t) => Covered(t)'
    BY DEF Covered, SessionAt
  <2>. QED  BY <2>1, CoverFrame
<1>. QED  BY <1>1, <1>2, <1>3, <1>4, <1>5

\* The commit of a run speaks for its plan and its transfer.
LEMMA CommitOfType ==
  ASSUME SendTypes, SessionInv, pc = "commit"
  PROVE  /\ CommitOf \in CommitMsg /\ CommitOf.t = sess.t /\ CommitOf.plan = plan
         /\ CommitOf.op = "commit" /\ sess.t \in Transfer
         /\ \A s \in Raw : CommitOf.digests[s] = CommitOf.plan[s]
         /\ RunHas(sess.t, plan) /\ SessionAt(sess.t, plan)
<1>1. sess \in Session /\ sess # None
  BY DEF SendTypes, SendTypeOK, SessionInv, Holding
<1>2. sess.t \in Transfer
  BY <1>1 DEF Session
<1>3. Digests \in [Segment -> Version \cup {None}] /\ \A s \in Raw : Digests[s] = plan[s]
  BY DEF SendTypes, SendTypeOK, Digests, Segment, Plan
<1>4. plan \in Plan
  BY DEF SendTypes, SendTypeOK
<1>5. RunHas(sess.t, plan) /\ SessionAt(sess.t, plan)
  BY <1>1 DEF RunHas, SessionAt, SessionInv, Holding
<1>. QED  BY <1>2, <1>3, <1>4, <1>5 DEF CommitOf, CommitMsg

\* A commit that goes through shows that the transfer holds what the plan of its
\* owner scanned: the raw segments are declared so, and the packs are compared
\* with the manifest.
LEMMA CommitEffectStep ==
  ASSUME SendTypes, NEW q \in CommitMsg, \A s \in Raw : q.digests[s] = q.plan[s],
         CommitEffect(q)
  PROVE  /\ tstate' \in [Transfer -> TState]
         /\ \A t \in Transfer : tstate'[t] = "committed" =>
               tstate[t] = "committed" \/ (t = q.t /\ \A s \in Segment : Uniform(t, s, q.plan[s]))
<1>1. tstate' \in [Transfer -> TState]
  BY DEF SendTypes, SendTypeOK, CommitEffect, TState
<1>2. ASSUME NEW t \in Transfer, tstate'[t] = "committed", tstate[t] # "committed"
      PROVE  t = q.t /\ \A s \in Segment : Uniform(t, s, q.plan[s])
  <2>1. Committable(q) /\ t = q.t /\ \A s \in Pack : q.digests[s] = q.plan[s]
    BY <1>2 DEF SendTypes, SendTypeOK, CommitEffect
  <2>2. \A s \in Segment : q.digests[s] = q.plan[s]
    BY <2>1 DEF Segment
  <2>. QED  BY <2>1, <2>2 DEF Committable, SegmentsMatch
<1>. QED  BY <1>1, <1>2

\* The owner of a transfer that is committed now is the plan that committed it.
LEMMA OwnerCommit ==
  ASSUME OwnerInv, NEW c \in Transfer, NEW o \in Plan, Owns(c, o),
         \A t \in Transfer, p \in Plan : Owns(t, p)' => Owns(t, p),
         \A t \in Transfer : tstate'[t] = "committed" =>
             tstate[t] = "committed" \/ (t = c /\ \A s \in Segment : Uniform(t, s, o[s])),
         UNCHANGED got
  PROVE  OwnerInv'
<1>. SUFFICES ASSUME NEW t \in Transfer, NEW p \in Plan, Owns(t, p)'
              PROVE  /\ \A x \in Plan : Owns(t, x)' => x = p
                     /\ tstate'[t] = "committed" => \A s \in Segment : Uniform(t, s, p[s])'
  BY Zenon DEF OwnerInv
<1>1. \A x \in Plan : Owns(t, x)' => x = p
  BY Zenon DEF OwnerInv
<1>2. t = c => p = o
  BY Zenon DEF OwnerInv
<1>3. tstate[t] = "committed" => \A s \in Segment : Uniform(t, s, p[s])
  BY Zenon DEF OwnerInv
<1>4. \A s \in Segment : Uniform(t, s, p[s]) = Uniform(t, s, p[s])'
  BY DEF Uniform
<1>. QED  BY <1>1, <1>2, <1>3, <1>4

\* A commit is answered, refused or becomes a late request; its session stays.
LEMMA CommitInv == ASSUME SendInv, Commit PROVE SendInv'
<1>. DEFINE q == CommitOf
<1>0. /\ q \in CommitMsg /\ q.t = sess.t /\ q.plan = plan /\ q.op = "commit" /\ sess.t \in Transfer
      /\ \A s \in Raw : q.digests[s] = q.plan[s]
      /\ RunHas(sess.t, plan) /\ SessionAt(sess.t, plan) /\ plan \in Plan
  BY CommitOfType DEF Commit, SendInv, SendTypes, SendTypeOK
<1>. HIDE DEF q
<1>1. /\ pc = "commit" /\ UNCHANGED <<source, plan, diskVars, declared, got, answered, dropped>>
      /\ CommitEffect(q) \/ UNCHANGED tstate
      /\ late' = late \/ (late' = late \cup {q} /\ End("NETWORK"))
      /\ \/ pc' = "close" /\ UNCHANGED <<resumed, sess, packs, poolVars>>
         \/ \E e \in {"REFUSED", "NETWORK"} : End(e)
  BY DEF Commit, Continue, q
<1>2. /\ tstate' \in [Transfer -> TState]
      /\ \A t \in Transfer : tstate'[t] = "committed" =>
            tstate[t] = "committed" \/ (t = sess.t /\ \A s \in Segment : Uniform(t, s, plan[s]))
  <2>1. CASE CommitEffect(q)
    BY <1>0, <2>1, CommitEffectStep DEF SendInv
  <2>2. CASE UNCHANGED tstate
    BY <2>2 DEF SendInv, SendTypes, SendTypeOK
  <2>. QED  BY <1>1, <2>1, <2>2
<1>3. SendTypes'
  <2>1. CASE pc' = "close" /\ UNCHANGED <<resumed, sess, packs, poolVars>>
    BY <1>0, <1>1, <1>2, <2>1 DEF SendInv, SendTypes, SendTypeOK, diskVars, poolVars, Holding
  <2>2. ASSUME NEW e, End(e) PROVE SendTypes'
    BY <1>0, <1>1, <1>2, <2>2, EndTypes DEF SendInv, SendTypes, SendTypeOK, diskVars
  <2>. QED  BY <1>1, <2>1, <2>2
<1>4. SessionInv'
  BY <1>1 DEF SendInv, SessionInv, Holding, diskVars, End
<1>5. OwnerInv'
  <2>1. Owns(sess.t, plan)
    BY <1>0 DEF Owns
  <2>2. \A t \in Transfer, p \in Plan : Owns(t, p)' => Owns(t, p)
    BY <1>0, <1>1 DEF Owns, SessionAt, RunHas, LateCommit, diskVars, End, Holding
  <2>. QED  BY <1>0, <1>1, <1>2, <2>1, <2>2, OwnerCommit DEF SendInv
<1>6. LateInv'
  BY <1>0, <1>1 DEF SendInv, LateInv
<1>7. CoverInv'
  <2>1. \A t \in Transfer : Covered(t) => Covered(t)'
    BY <1>1 DEF Covered, SessionAt, diskVars
  <2>2. Covered(sess.t)
    BY <1>0 DEF Covered
  <2>3. \A t \in Transfer : tstate'[t] = "committed" \/ (\E x \in CommitMsg : LateCommit(x, t)') => Covered(t)
    BY <1>0, <1>1, <1>2, <2>2 DEF SendInv, CoverInv, LateCommit
  <2>. QED  BY <2>1, <2>3 DEF CoverInv
<1>. QED  BY <1>3, <1>4, <1>5, <1>6, <1>7 DEF SendInv

-----------------------------------------------------------------------------
(* One lemma per step around a run.                                        *)

\* What a killed run had sent may still arrive; a transfer that only the run
\* knew is given up.
LEMMA KillInv == ASSUME SendInv, Kill PROVE SendInv'
<1>. DEFINE new == {PatchOf(w) : w \in {x \in Worker : worker[x].at = "patch"}}
                       \cup (IF pc = "commit" THEN {CommitOf} ELSE {})
<1>1. /\ pc # "idle" /\ End("killed") /\ late' = late \cup new
      /\ UNCHANGED <<source, plan, serverVars, answered>>
      /\ \/ UNCHANGED diskVars /\ dropped' = (IF pc = "print" THEN dropped \cup {sess.t} ELSE dropped)
         \/ /\ pc = "save" /\ sessfile' = [sessfile EXCEPT ![plan] = None]
            /\ dropped' = dropped \cup {sess.t} /\ UNCHANGED packfile
         \/ /\ UNCHANGED <<sessfile, dropped>> /\ pc = "pack"
            /\ \E s \in Pack : packfile' = [packfile EXCEPT ![plan][s] = Short]
  BY DEF Kill
<1>2. new \subseteq PatchMsg \cup CommitMsg
  BY PatchOfType, CommitOfType DEF SendInv
<1>3. \A q \in new \cap CommitMsg : q = CommitOf /\ pc = "commit"
  BY PatchOfType DEF SendInv
<1>. HIDE DEF new
<1>4. SendTypes'
  <2>1. sessfile' \in [Plan -> Session \cup {None}]
    BY <1>1 DEF SendInv, SendTypes, SendTypeOK, diskVars
  <2>2. packfile' \in [Plan -> [Pack -> Version \cup {None, Short}]]
    <3>1. CASE UNCHANGED packfile
      BY <3>1 DEF SendInv, SendTypes, SendTypeOK
    <3>2. ASSUME NEW s \in Pack, packfile' = [packfile EXCEPT ![plan][s] = Short]
          PROVE  packfile' \in [Plan -> [Pack -> Version \cup {None, Short}]]
      BY <3>2, PackfileTypes DEF SendInv
    <3>. QED  BY <1>1, <3>1, <3>2 DEF diskVars
  <2>. QED  BY <1>1, <1>2, <2>1, <2>2, EndTypes DEF SendInv, SendTypes, SendTypeOK, serverVars
<1>5. SessionInv'
  BY <1>1 DEF SessionInv, Holding, End
<1>6. \A q \in CommitMsg : q \in late' =>
          q \in late \/ (/\ q.t = sess.t /\ q.plan = plan /\ pc = "commit"
                         /\ \A s \in Raw : q.digests[s] = q.plan[s]
                         /\ RunHas(sess.t, plan) /\ SessionAt(sess.t, plan))
  BY <1>1, <1>3, CommitOfType DEF SendInv
<1>7. OwnerInv'
  <2>1. ASSUME NEW t \in Transfer, NEW p \in Plan, Owns(t, p)' PROVE Owns(t, p)
    <3>1. CASE SessionAt(t, p)'
      <4>1. sessfile'[p] = sessfile[p] \/ sessfile'[p] = None
        BY <1>1 DEF diskVars, SendInv, SendTypes, SendTypeOK
      <4>. QED  BY <3>1, <4>1 DEF Owns, SessionAt
    <3>2. CASE RunHas(t, p)'
      BY <1>1, <3>2 DEF RunHas, End, Holding
    <3>3. CASE \E q \in CommitMsg : LateCommit(q, t)' /\ (q.plan = p)
      BY <1>6, <3>3 DEF Owns, LateCommit
    <3>. QED  BY <2>1, <3>1, <3>2, <3>3 DEF Owns
  <2>. QED  BY <1>1, <2>1, OwnerFrame DEF SendInv, serverVars
<1>8. LateInv'
  BY <1>6 DEF SendInv, LateInv
<1>9. CoverInv'
  <2>1. ASSUME NEW t \in Transfer, Covered(t) PROVE Covered(t)'
    <3>1. CASE t \in answered \cup dropped
      BY <1>1, <3>1 DEF Covered
    <3>2. CASE pc = "print" /\ sess.t = t
      BY <1>1, <3>2 DEF Covered
    <3>3. ASSUME NEW p \in Plan, SessionAt(t, p) PROVE Covered(t)'
      <4>1. CASE UNCHANGED sessfile
        BY <3>3, <4>1 DEF Covered, SessionAt
      <4>2. CASE /\ pc = "save" /\ sessfile' = [sessfile EXCEPT ![plan] = None]
                 /\ dropped' = dropped \cup {sess.t}
        BY <3>3, <4>2 DEF Covered, SessionAt, SendInv, SessionInv, SendTypes, SendTypeOK
      <4>. QED  BY <1>1, <4>1, <4>2 DEF diskVars
    <3>. QED  BY <2>1, <3>1, <3>2, <3>3 DEF Covered
  <2>2. ASSUME NEW t \in Transfer, tstate'[t] = "committed" \/ \E q \in CommitMsg : LateCommit(q, t)'
        PROVE  Covered(t)
    <3>1. CASE tstate'[t] = "committed"
      BY <1>1, <3>1 DEF SendInv, CoverInv, serverVars
    <3>2. ASSUME NEW q \in CommitMsg, LateCommit(q, t)' PROVE Covered(t)
      <4>1. CASE q \in late
        BY <3>2, <4>1 DEF SendInv, CoverInv, LateCommit
      <4>2. CASE q \notin late
        BY <1>6, <3>2, <4>2 DEF LateCommit, Covered, SendInv, SendTypes, SendTypeOK
      <4>. QED  BY <4>1, <4>2
    <3>. QED  BY <2>2, <3>1, <3>2
  <2>. QED  BY <2>1, <2>2 DEF CoverInv
<1>. QED  BY <1>4, <1>5, <1>7, <1>8, <1>9 DEF SendInv

\* An edit leaves the client and the server as they are.
LEMMA EditInv == ASSUME SendInv, NEW s \in Segment, Edit(s) PROVE SendInv'
<1>1. source' \in Plan
  BY SendAssumption DEF Edit, SendInv, SendTypes, SendTypeOK, Plan, Version
<1>2. SendTypes'
  BY <1>1 DEF Edit, SendInv, SendTypes, SendTypeOK, runVars, poolVars, diskVars, serverVars
<1>. QED  BY <1>2, ServerFrame DEF Edit, serverVars

\* A late PATCH writes to an open transfer only; a late commit speaks for the
\* plan that owns its transfer.
LEMMA ArriveInv == ASSUME SendInv, NEW q \in late, Arrive(q) PROVE SendInv'
<1>. USE DEF Arrive, poolVars
<1>0. q \in PatchMsg \/ q \in CommitMsg
  BY DEF SendInv, SendTypes
<1>1. CASE UNCHANGED <<tstate, got>>
  <2>1. SendTypes'
    BY <1>1 DEF SendInv, SendTypes, SendTypeOK, runVars, diskVars
  <2>. QED  BY <1>1, <2>1, ServerFrame
<1>2. ASSUME q.op = "patch", Accepts(q), UNCHANGED tstate,
             NEW n \in 1..(Length[q.seg] - q.off), Take(q, n)
      PROVE  SendInv'
  <2>1. q \in PatchMsg
    BY <1>0, <1>2 DEF CommitMsg
  <2>2. q.off \in Nat /\ q.seg \in Segment /\ Length[q.seg] \in Nat
    BY <2>1, SendAssumption DEF PatchMsg
  <2>3. n \in Nat /\ n <= Length[q.seg] - q.off
    BY <1>2, <2>2
  <2>4. /\ got' \in [Transfer -> [Segment -> Seq(Version \cup {None, Short})]]
        /\ \A t \in Transfer, s \in Segment : Len(got'[t][s]) \in 0..Length[s]
        /\ \A t \in Transfer : tstate[t] = "committed" => got'[t] = got[t]
    BY <1>2, <2>1, <2>3, TakeTypes DEF SendInv
  <2>5. SendTypes'
    BY <1>2, <2>4 DEF SendInv, SendTypes, SendTypeOK, runVars, diskVars
  <2>. QED  BY <1>2, <2>4, <2>5, ServerFrame
<1>3. CASE q.op = "commit" /\ UNCHANGED got /\ CommitEffect(q)
  <2>1. q \in CommitMsg /\ q.t \in Transfer /\ q.plan \in Plan
    BY <1>0, <1>3 DEF PatchMsg, CommitMsg
  <2>2. /\ tstate' \in [Transfer -> TState]
        /\ \A t \in Transfer : tstate'[t] = "committed" =>
              tstate[t] = "committed" \/ (t = q.t /\ \A s \in Segment : Uniform(t, s, q.plan[s]))
    BY <1>3, <2>1, CommitEffectStep DEF SendInv, LateInv
  <2>3. SendTypes'
    BY <1>3, <2>2 DEF SendInv, SendTypes, SendTypeOK, runVars, diskVars
  <2>4. SessionInv'
    BY DEF SendInv, SessionInv, runVars, diskVars
  <2>5. OwnerInv'
    <3>1. Owns(q.t, q.plan)
      BY <1>3, <2>1 DEF Owns, LateCommit
    <3>2. \A t \in Transfer, p \in Plan : Owns(t, p)' => Owns(t, p)
      BY DEF Owns, SessionAt, RunHas, LateCommit, runVars, diskVars
    <3>. QED  BY <1>3, <2>1, <2>2, <3>1, <3>2, OwnerCommit DEF SendInv
  <2>6. LateInv'
    BY DEF SendInv, LateInv
  <2>7. CoverInv'
    <3>1. \A t \in Transfer : Covered(t) => Covered(t)'
      BY DEF Covered, SessionAt, runVars, diskVars
    <3>2. \A t \in Transfer : tstate'[t] = "committed" \/ (\E x \in CommitMsg : LateCommit(x, t)') => Covered(t)
      BY <1>3, <2>1, <2>2 DEF SendInv, CoverInv, LateCommit
    <3>. QED  BY <3>1, <3>2 DEF CoverInv
  <2>. QED  BY <2>3, <2>4, <2>5, <2>6, <2>7 DEF SendInv
<1>4. CASE q.op = "commit" /\ UNCHANGED got /\ tstate' = [tstate EXCEPT ![q.t] = "dead"]
  <2>1. tstate' \in [Transfer -> TState] /\ \A t \in Transfer : tstate'[t] = "committed" => tstate[t] = "committed"
    BY <1>4 DEF SendInv, SendTypes, SendTypeOK, TState
  <2>2. SendTypes'
    BY <1>4, <2>1 DEF SendInv, SendTypes, SendTypeOK, runVars, diskVars
  <2>. QED  BY <1>4, <2>1, <2>2, ServerFrame
<1>. QED  BY <1>1, <1>2, <1>3, <1>4

\* Sweeps end transfers and commit none.
LEMMA SweepInv == ASSUME SendInv, NEW t \in Transfer, Age(t) \/ Purge(t) PROVE SendInv'
<1>1. CASE Age(t)
  <2>1. tstate' \in [Transfer -> TState] /\ \A u \in Transfer : tstate'[u] = "committed" => tstate[u] = "committed"
    BY <1>1 DEF Age, SendInv, SendTypes, SendTypeOK, TState
  <2>2. SendTypes'
    BY <1>1, <2>1 DEF Age, SendInv, SendTypes, SendTypeOK, runVars, poolVars, diskVars
  <2>. QED  BY <1>1, <2>1, <2>2, ServerFrame DEF Age
<1>2. CASE Purge(t)
  <2>1. /\ tstate' \in [Transfer -> TState]
        /\ \A u \in Transfer : tstate'[u] = "committed" => tstate[u] = "committed" /\ got'[u] = got[u]
    BY <1>2 DEF Purge, SendInv, SendTypes, SendTypeOK, TState
  <2>2. declared' \in [Transfer -> [Segment -> Version \cup {None}]]
    BY <1>2, SendAssumption DEF Purge, SendInv, SendTypes, Version
  <2>3. /\ got' \in [Transfer -> [Segment -> Seq(Version \cup {None, Short})]]
        /\ \A u \in Transfer, s \in Segment : Len(got'[u][s]) \in 0..Length[s]
    <3>1. <<>> \in Seq(Version \cup {None, Short}) /\ Len(<<>>) = 0
      BY SMT
    <3>2. \A s \in Segment : 0 \in 0..Length[s]
      BY SendAssumption
    <3>. QED  BY <1>2, <3>1, <3>2 DEF Purge, SendInv, SendTypes, SendTypeOK
  <2>4. SendTypes'
    BY <1>2, <2>1, <2>2, <2>3 DEF Purge, SendInv, SendTypes, SendTypeOK, runVars, poolVars, diskVars
  <2>. QED  BY <1>2, <2>1, <2>4, ServerFrame DEF Purge
<1>. QED  BY <1>1, <1>2

-----------------------------------------------------------------------------
(* The theorems.                                                           *)

\* A step that changes nothing.
LEMMA SendStutterInv == ASSUME SendInv, UNCHANGED vars PROVE SendInv'
<1>. USE DEF vars, poolVars, serverVars
<1>1. SendTypes'
  BY DEF SendInv, SendTypes, SendTypeOK, runVars, diskVars
<1>. QED  BY <1>1, ServerFrame

\* Every step keeps the invariant.
LEMMA SendNextInv == SendInv /\ [SendNext]_vars => SendInv'
<1>. SUFFICES ASSUME SendInv, [SendNext]_vars PROVE SendInv'
  OBVIOUS
<1>1. CASE ClientStep
  BY <1>1, ScanInv, LoadSessionInv, PacksReadyInv, CheckAliveInv, CreateInv, SaveSessionInv,
     PackInv, FeedInv, HeadOffsetInv, PatchInv, UploadsEndInv, CommitInv, CloseSessionInv,
     ReportCodeInv DEF ClientStep
<1>2. CASE Kill \/ (\E s \in Segment : Edit(s)) \/ (\E q \in late : Arrive(q))
           \/ (\E t \in Transfer : Age(t) \/ Purge(t))
  BY <1>2, KillInv, EditInv, ArriveInv, SweepInv
<1>. QED  BY <1>1, <1>2, SendStutterInv DEF SendNext

\* The inductive invariant holds.
LEMMA SendInvariant == SendSpec => []SendInv
BY SendInitInv, SendNextInv, PTL DEF SendSpec

\* The variables of the client and of its server have their types, and no
\* segment gets more bytes than it has, whatever is retried, lost, late or killed.
THEOREM SendTypeCorrect == SendSpec => []SendTypeOK
<1>1. SendInv => SendTypeOK
  BY DEF SendInv, SendTypes
<1>. QED  BY <1>1, SendInvariant, PTL

\* The code a run is about to print stands for the bytes it scanned, in every
\* segment, with any number of runs, workers, late requests and edits.
THEOREM SendIsScanned == SendSpec => []SentIsScanned
<1>1. SendInv => SentIsScanned
  <2>. SUFFICES ASSUME SendInv, pc \in {"close", "print"}, tstate[sess.t] = "committed"
                PROVE  \A s \in Segment : Uniform(sess.t, s, plan[s])
    BY DEF SentIsScanned
  <2>1. sess \in Session /\ sess # None /\ plan \in Plan
    BY DEF SendInv, SendTypes, SendTypeOK, SessionInv, Holding
  <2>2. Owns(sess.t, plan) /\ sess.t \in Transfer
    BY <2>1 DEF Owns, RunHas, Holding, Session
  <2>. QED  BY <2>1, <2>2 DEF SendInv, OwnerInv
<1>. QED  BY <1>1, SendInvariant, PTL

\* A committed handoff whose code was not printed is found by the next run, or
\* was given up by a run.
THEOREM SendCodeRecoverable == SendSpec => []CodeRecoverable
<1>1. SendInv => CodeRecoverable
  BY DEF SendInv, CoverInv, CodeRecoverable, Covered, SessionAt
<1>. QED  BY <1>1, SendInvariant, PTL
=============================================================================
