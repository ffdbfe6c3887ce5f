----------------------------- MODULE ModelStore -----------------------------
(***************************************************************************)
(* The model store of a GPU guest: verify-local-model-store.py, which reads *)
(* the files of the store and the sidecars hf download left beside them,    *)
(* and the converge (cache-sync.yml) that asks it twice: before the         *)
(* download, which a complete store does not need, and after it.            *)
(*                                                                          *)
(* A file's content stands for its checksum.  The Hub, hf download and the  *)
(* disk are external.                                                       *)
(***************************************************************************)
EXTENDS Naturals, Sequences, FiniteSets

CONSTANTS
    Trees,          \* Trees[revision]: the content of each file the Hub has at a revision
    Includes        \* the registered globs, in order, each the set of names it matches

Revisions == DOMAIN Trees
StoreNames == UNION {DOMAIN Trees[r] : r \in Revisions}
Matched == UNION {Includes[i] : i \in DOMAIN Includes}

\* A glob matches names that the Hub has at some revision.
ASSUME StoreAssumption == Includes \in Seq(SUBSET StoreNames)

Missing == "missing"
Damaged == "damaged"
NoSidecar == [revision |-> "none", etag |-> Missing]

VARIABLES
    content,        \* what the store holds under each name
    sidecar,        \* the download metadata beside each file
    pinned,         \* the revision the registry names
    converge,       \* "idle", "download", "verify", "accepted" or "failed"
    include,        \* the include at work
    fetched         \* files moved into place whose sidecars are not written yet

storeVars == <<content, sidecar, pinned, converge, include, fetched>>

-----------------------------------------------------------------------------
(* verify-local-model-store.py *)

Downloaded == {f \in Matched : sidecar[f] # NoSidecar}
Present == {f \in StoreNames : content[f] # Missing}
MatchesOf(i) == Includes[i] \cap (Present \union Downloaded)
Selected == UNION {MatchesOf(i) : i \in DOMAIN Includes}

AtRevision(f, revision) == f \in Downloaded /\ sidecar[f].revision = revision
Unread(f) == content[f] # Missing
Intact(f) == content[f] = sidecar[f].etag

\* _verify: each include has files, each of them its sidecar of this revision, and each
\* is a file with the checksum its sidecar names.
Verified(revision) ==
    /\ \A i \in DOMAIN Includes : MatchesOf(i) # {}
    /\ \A f \in Selected : AtRevision(f, revision) /\ Intact(f)

-----------------------------------------------------------------------------
(* The converge *)

\* The offline check: a complete store needs no request to the Hub.
CheckOffline ==
    /\ converge \in {"idle", "accepted", "failed"}
    /\ converge' = IF Verified(pinned) THEN "verify" ELSE "download"
    /\ include' = 1
    /\ UNCHANGED <<content, sidecar, pinned, fetched>>

\* hf download --include: the files of the pinned tree this glob matches ...
Wanted(i) == Includes[i] \cap DOMAIN Trees[pinned]
\* ... without those it has the pinned sidecar of.
ToFetch(i) == {f \in Wanted(i) : content[f] = Missing \/ sidecar[f].revision # pinned}

\* Each file is moved into place once it is whole, and then its sidecar is written;
\* hf fetches several at a time.
Fetch(f) ==
    /\ converge = "download" /\ include \in DOMAIN Includes
    /\ f \in ToFetch(include) \ fetched
    /\ content' = [content EXCEPT ![f] = IF sidecar[f].etag = Trees[pinned][f] /\ @ # Missing THEN @ ELSE Trees[pinned][f]]
    /\ fetched' = fetched \union {f}
    /\ UNCHANGED <<sidecar, pinned, converge, include>>

WriteSidecar(f) ==
    /\ f \in fetched
    /\ sidecar' = [sidecar EXCEPT ![f] = [revision |-> pinned, etag |-> Trees[pinned][f]]]
    /\ fetched' = fetched \ {f}
    /\ UNCHANGED <<content, pinned, converge, include>>

HurriedInclude ==
    /\ converge = "download" /\ include \in DOMAIN Includes
    /\ \A f \in Wanted(include) : content[f] # Missing
    /\ include' = include + 1
    /\ converge' = IF include = Len(Includes) THEN "verify" ELSE "download"
    /\ UNCHANGED <<content, sidecar, pinned, fetched>>
NextInclude ==
    /\ converge = "download" /\ include \in DOMAIN Includes
    /\ ToFetch(include) = {} /\ fetched = {}
    /\ include' = include + 1
    /\ converge' = IF include = Len(Includes) THEN "verify" ELSE "download"
    /\ UNCHANGED <<content, sidecar, pinned, fetched>>

VerifyStore ==
    /\ converge = "verify"
    /\ converge' = IF Verified(pinned) THEN "accepted" ELSE "failed"
    /\ UNCHANGED <<content, sidecar, pinned, include, fetched>>

\* The play ends at an error, a kill or a lost connection.
Stop ==
    /\ converge \in {"download", "verify"}
    /\ converge' = "failed" /\ fetched' = {}
    /\ UNCHANGED <<content, sidecar, pinned, include>>

-----------------------------------------------------------------------------
(* What happens to the store between two converges *)

Between == converge \in {"idle", "accepted", "failed"}

Pin(r) == Between /\ pinned' = r /\ converge' = "idle" /\ UNCHANGED <<content, sidecar, include, fetched>>

Damage(f) ==
    /\ Between /\ content[f] # Missing
    /\ \E c \in {Missing, Damaged} : content' = [content EXCEPT ![f] = c]
    /\ converge' = "idle"
    /\ UNCHANGED <<sidecar, pinned, include, fetched>>

StoreInit ==
    /\ content = [f \in StoreNames |-> Missing] /\ sidecar = [f \in StoreNames |-> NoSidecar]
    /\ pinned \in Revisions /\ converge = "idle" /\ include = 1 /\ fetched = {}

StoreNext ==
    \/ CheckOffline \/ NextInclude \/ VerifyStore \/ Stop
    \/ \E f \in StoreNames : Fetch(f) \/ WriteSidecar(f) \/ Damage(f)
    \/ \E r \in Revisions : Pin(r)

StoreSpec == StoreInit /\ [][StoreNext]_storeVars

-----------------------------------------------------------------------------
(* Properties *)

\* Types: a sidecar names a file of the Hub at the revision it was written for.
StoreTypeOK ==
    /\ \A f \in StoreNames : sidecar[f] = NoSidecar \/
          (sidecar[f].revision \in Revisions /\ f \in DOMAIN Trees[sidecar[f].revision])
    /\ converge \in {"idle", "download", "verify", "accepted", "failed"}
    /\ fetched \subseteq StoreNames /\ (fetched # {} => converge = "download")
    /\ include \in 1 .. Len(Includes) + 1

\* A store the converge accepts holds, under every name its globs match, the content of
\* the pinned revision: nothing of an older revision, nothing damaged, nothing foreign.
AcceptedIsPinned ==
    converge = "accepted" =>
        \A f \in Matched \cap Present : f \in DOMAIN Trees[pinned] /\ content[f] = Trees[pinned][f]

\* "A store already complete at the pinned revision is proven by the same sidecar check"
\* (cache-sync.yml): what the check accepts has every file of the registered globs.
AcceptedIsComplete ==
    converge = "accepted" => Matched \cap DOMAIN Trees[pinned] \subseteq Present
=============================================================================
