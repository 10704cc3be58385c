--------------------------- MODULE ManifestCache ---------------------------
(***************************************************************************)
(* The published manifests the server keeps in memory (type manifestCache  *)
(* of internal/transfer/service.go).  A manifest never changes once it is  *)
(* published, so the cache is the list of the transfers it holds one for,  *)
(* oldest first.  Each call runs under the cache's mutex and is one step.  *)
(***************************************************************************)
EXTENDS Service

LOCAL INSTANCE SequencesExt

CONSTANT CacheLimit     \* the bound newManifestCache is given

ASSUME CacheAssumption == CacheLimit \in Nat \ {0}

VARIABLE cached         \* the transfers whose manifest is in memory

CacheInit == cached = <<>>

CacheHolds(t) == Contains(cached, t)

\* put: a new entry pushes the oldest one out.
CachePut(t) ==
    cached' = IF CacheHolds(t) THEN cached
              ELSE IF Len(cached) < CacheLimit THEN Append(cached, t)
              ELSE Append(Tail(cached), t)

CacheDrop(t) == cached' = SelectSeq(cached, LAMBDA u : u # t)
=============================================================================
