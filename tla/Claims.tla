------------------------------- MODULE Claims ------------------------------
(***************************************************************************)
(* Receiving (internal/transfer/service.go and the handlers of             *)
(* internal/api/public): resolving a code, opening a remote or a local     *)
(* claim, fetching segments under the claim's lease, completing it, and    *)
(* the simple download, which streams a file or an archive without a       *)
(* lease.  A claim identifier is the process of one receiver.              *)
(***************************************************************************)
EXTENDS ManifestCache, FiniteSets

CONSTANTS LocalClaim,     \* the receivers on the server itself
          Download,       \* GET /r/{code} requests
          RemoteLease,    \* RemoteLeaseMinutes
          LocalGrace,     \* storage.local_claim_grace_minutes
          MaxDownloads,   \* limits.max_concurrent_downloads
          MaxFetch        \* bound on segment requests per receiver

Receiver == Claim \cup Download

ASSUME ClaimAssumption ==
    /\ LocalClaim \subseteq Claim
    /\ Claim \cap Download = {}
    /\ {RemoteLease, LocalGrace, MaxDownloads, MaxFetch} \subseteq Nat

VARIABLES cpc,        \* cpc[c]: the next statement of receiver c
          found,      \* found[c]: the transfer its code resolved to
          fetches,    \* fetches[c]: segment requests so far
          served,     \* served[c]: what the last segment request opened
          streamed    \* streamed[d]: the entries download d sent whole

receiverVars == <<cpc, found, fetches, served, streamed>>

Served == {"nothing", "whole", "broken"}

\* Statements at which no request of a receiver is running.
AtRest == {"idle", "holding", "done", "complete"}

ClaimsInit ==
    /\ cpc = [c \in Receiver |-> "idle"]
    /\ found = [c \in Receiver |-> NoTransfer]
    /\ fetches = [c \in Claim |-> 0]
    /\ served = [c \in Claim |-> "nothing"]
    /\ streamed = [d \in Download |-> {}]

CGoto(c, next) == cpc' = [cpc EXCEPT ![c] = next]

LeaseEnd(c) == now + (IF c \in LocalClaim THEN LocalGrace ELSE RemoteLease)

-----------------------------------------------------------------------------
(* Resolving a code.                                                       *)

\* lookupCommitted on the code of transfer t; a code that no row has, or whose
\* row is in any other state, is refused without effect.
Lookup(c, t) ==
    /\ cpc[c] = "idle"
    /\ code[t] # NoCode
    /\ CASE Resolves(t) -> CGoto(c, IF c \in LocalClaim THEN "stat" ELSE "get")
         [] state[t] = "COMMITTED" /\ ~Resolves(t) -> CGoto(c, "expire")
         [] OTHER -> CGoto(c, "done")
    /\ found' = [found EXCEPT ![c] = t]
    /\ UNCHANGED <<fetches, served, streamed, cached, storeVars, fileVars, now>>

\* Expiry is authoritative even before the janitor notices.
LookupExpire(c) ==
    /\ cpc[c] = "expire"
    /\ SetState(found[c], "EXPIRED")
    /\ CGoto(c, "done")
    /\ UNCHANGED <<found, fetches, served, streamed, cached, fileVars, now>>

\* A local claim needs the payload directory itself.
StatPayload(c) ==
    /\ cpc[c] = "stat"
    /\ CGoto(c, IF live[found[c]].here THEN "claim" ELSE "done")
    /\ UNCHANGED <<found, fetches, served, streamed, cached, storeVars, fileVars, now>>

\* Manifest: from the cache, or from the disk and then into the cache.  What the
\* caller does next: a download waits for a slot, a claim is inserted, a segment
\* is opened.
AfterManifest(c) ==
    CASE c \in Download -> "slot"
      [] c \in Claim /\ fetches[c] = 0 -> "claim"
      [] OTHER -> "open"

ManifestGet(c) ==
    /\ cpc[c] = "get"
    /\ CGoto(c, IF CacheHolds(found[c]) THEN AfterManifest(c) ELSE "read")
    /\ UNCHANGED <<found, fetches, served, streamed, cached, storeVars, fileVars, now>>

ManifestRead(c) ==
    /\ cpc[c] = "read"
    /\ CGoto(c, IF live[found[c]].manifest THEN "put" ELSE "done")
    /\ UNCHANGED <<found, fetches, served, streamed, cached, storeVars, fileVars, now>>

ManifestPut(c) ==
    /\ cpc[c] = "put"
    /\ CachePut(found[c])
    /\ CGoto(c, AfterManifest(c))
    /\ UNCHANGED <<found, fetches, served, streamed, storeVars, fileVars, now>>

\* AcquireDownload: segment requests and downloads share the slots.
HoldsSlot(c) ==
    IF c \in Download THEN cpc[c] = "stream"
    ELSE fetches[c] > 0 /\ cpc[c] \notin AtRest

SlotFree == Cardinality({c \in Receiver : HoldsSlot(c)}) < MaxDownloads

-----------------------------------------------------------------------------
(* Claims.                                                                 *)

\* The insert; the foreign key refuses it once the row is purged.
OpenClaim(c) ==
    /\ cpc[c] = "claim"
    /\ LeaseEnd(c) \in Time
    /\ \/ /\ CreateClaim(c, found[c], LeaseEnd(c))
          /\ CGoto(c, IF c \in LocalClaim THEN "done" ELSE "holding")
       \/ /\ ~Exists(found[c])
          /\ CGoto(c, "done")
          /\ UNCHANGED storeVars
    /\ UNCHANGED <<found, fetches, served, streamed, cached, fileVars, now>>

\* authorizeClaim: the row exists and its lease has not ended.
Authorized(c) == claimOf[c] # NoTransfer /\ now < lease[c]

\* handleClaimSegment and claimSegment.
Fetch(c) ==
    /\ cpc[c] = "holding"
    /\ SlotFree
    /\ fetches[c] < MaxFetch
    /\ fetches' = [fetches EXCEPT ![c] = @ + 1]
    /\ CGoto(c, IF Authorized(c) /\ state[found[c]] # "DELETING" THEN "get" ELSE "done")
    /\ UNCHANGED <<found, served, streamed, cached, storeVars, fileVars, now>>

\* ClaimSegmentFile opens the stored file; an open file survives the deletion
\* of its directory.
OpenFile(c, s) ==
    LET t == found[c] IN
    /\ cpc[c] = "open"
    /\ \/ /\ live[t].pay[s] # NoFile
          /\ served' = [served EXCEPT ![c] =
                IF PayloadFile(t, live[t], s) = Whole THEN "whole" ELSE "broken"]
          /\ CGoto(c, "renew")
       \/ /\ live[t].pay[s] = NoFile
          /\ CGoto(c, "done")
          /\ UNCHANGED served
    /\ UNCHANGED <<found, fetches, streamed, cached, storeVars, fileVars, now>>

\* Active progress renews the bounded lease.
Renew(c) ==
    /\ cpc[c] = "renew"
    /\ LeaseEnd(c) \in Time
    /\ RenewClaim(c, LeaseEnd(c))
    /\ CGoto(c, "holding")
    /\ UNCHANGED <<found, fetches, served, streamed, cached, fileVars, now>>

Complete(c) ==
    /\ cpc[c] = "holding"
    /\ IF Authorized(c) THEN CompleteClaim(c) ELSE UNCHANGED storeVars
    /\ CGoto(c, "done")
    /\ UNCHANGED <<found, fetches, served, streamed, cached, fileVars, now>>

ClaimStep(c) ==
    \/ \E t \in Transfer : Lookup(c, t)
    \/ LookupExpire(c) \/ StatPayload(c)
    \/ ManifestGet(c) \/ ManifestRead(c) \/ ManifestPut(c)
    \/ OpenClaim(c) \/ Fetch(c)
    \/ \E s \in Segment : OpenFile(c, s)
    \/ Renew(c) \/ Complete(c)

-----------------------------------------------------------------------------
(* handleDownload.  The raw file of a single-file payload is streamed like *)
(* an archive of one entry.                                                *)

\* A HEAD request, or format=raw for more than one file, ends here.
StartStream(d) ==
    /\ cpc[d] = "slot"
    /\ \/ SlotFree /\ CGoto(d, "stream")
       \/ CGoto(d, "done")
    /\ UNCHANGED <<found, fetches, served, streamed, cached, storeVars, fileVars, now>>

\* The entries whose turn has not come.
Left(d) == {s \in Segment : \A w \in BOOLEAN : <<s, w>> \notin streamed[d]}

\* Seeded fault: an entry that cannot be opened is left empty.
StreamHollow(d, s) ==
    LET t == found[d]  i == live[t].pay[s] IN
    /\ cpc[d] = "stream"
    /\ s \in Left(d)
    /\ streamed' = [streamed EXCEPT ![d] =
                        @ \cup {<<s, i # NoFile /\ file[t][s][i] = Whole>>}]
    /\ UNCHANGED <<cpc, found, fetches, served, cached, storeVars, fileVars, now>>

\* copyEntry: a file is opened when its turn comes, and read to its end.
StreamEntry(d, s) ==
    LET t == found[d] IN
    /\ cpc[d] = "stream"
    /\ s \in Left(d)
    /\ live[t].pay[s] # NoFile
    /\ streamed' = [streamed EXCEPT ![d] =
                        @ \cup {<<s, PayloadFile(t, live[t], s) = Whole>>}]
    /\ UNCHANGED <<cpc, found, fetches, served, cached, storeVars, fileVars, now>>

\* An entry cannot be opened, or the client has left: the stream stops without
\* the trailer that ends an archive.
CutStream(d) ==
    /\ cpc[d] = "stream"
    /\ Left(d) # {}
    /\ CGoto(d, "done")
    /\ UNCHANGED <<found, fetches, served, streamed, cached, storeVars, fileVars, now>>

\* The trailer, once every entry of the manifest has been sent.
EndStream(d) ==
    /\ cpc[d] = "stream"
    /\ Left(d) = {}
    /\ CGoto(d, "complete")
    /\ UNCHANGED <<found, fetches, served, streamed, cached, storeVars, fileVars, now>>

DownloadStep(d) ==
    \/ \E t \in Transfer : Lookup(d, t)
    \/ LookupExpire(d) \/ ManifestGet(d) \/ ManifestRead(d) \/ ManifestPut(d)
    \/ StartStream(d)
    \/ \E s \in Segment : StreamEntry(d, s)
    \/ CutStream(d) \/ EndStream(d)

-----------------------------------------------------------------------------
\* A crash empties the cache and ends the request that is running; a receiver
\* that holds a claim may go on with it after the restart.
KillReceivers ==
    /\ cpc' = [c \in Receiver |->
                IF cpc[c] \in AtRest THEN cpc[c]
                ELSE IF c \in Claim /\ HoldsSlot(c) THEN "holding" ELSE "done"]
    /\ cached' = <<>>
    /\ UNCHANGED <<found, fetches, served, streamed>>
=============================================================================
