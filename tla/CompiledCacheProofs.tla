------------------------ MODULE CompiledCacheProofs ------------------------
(***************************************************************************)
(* Proofs about CompiledCache, for any number of preparations, any finite  *)
(* set of digests, any budget and both restore modes.                      *)
(***************************************************************************)
EXTENDS CompiledCache, FiniteSetTheorems, TLAPS

LocalsTyped ==
    /\ want \in [Preparers -> Digests]
    /\ source \in [Preparers -> {"none", "WarmRestored", "ColdCompiled"}]
    /\ rebuilt \in [Preparers -> BOOLEAN]
    /\ sawMeta \in [Preparers -> {"none", "ok", "stale"}]
    /\ written \in [Preparers -> Nat]
    /\ alone \in [Preparers -> BOOLEAN] /\ sound \in BOOLEAN

Typed == CacheTypeOK /\ LocalsTyped

\* the steps of a preparation, its removals apart
Proceeds(p) ==
    \/ ReadMetadata(p) \/ AcceptEntry(p) \/ RejectEntry(p)
    \/ CreateDir(p) \/ OpenTemp(p) \/ FillArtifact(p) \/ PublishArtifact(p)
    \/ FillMetadata(p) \/ PublishMetadata(p) \/ PublicationFails(p)
    \/ ScanCache(p) \/ Restore(p) \/ DiscardAndRebuild(p) \/ RestoreFails(p)
Removes(p) == RemoveInvalid(p) \/ Evict(p) \/ RemoveBroken(p)

(* A step removes a file or proceeds.                                      *)
LEMMA StepKinds == ASSUME NEW p \in Preparers, Step(p) PROVE Removes(p) \/ Proceeds(p)
BY DEF Step, Removes, Proceeds

\* what one deletion of remove_dir_all does, to the file or directory x of the entry d
DeletesFile(p, d, x) ==
    /\ <<d, x>> \in doomed[p]
    /\ doomed' = [doomed EXCEPT ![p] = doomed[p] \ {<<d, x>>}]
    /\ cwasm' = IF x = "cwasm" THEN [cwasm EXCEPT ![d] = "none"] ELSE cwasm
    /\ meta' = IF x = "meta" THEN [meta EXCEPT ![d] = "none"] ELSE meta
    /\ temp' = [q \in Preparers |-> IF d = want[q] /\ x = q THEN "none" ELSE temp[q]]
    /\ dirs' = IF x = "dir" /\ IsEmpty(d) THEN dirs \ {d} ELSE dirs
    /\ UNCHANGED <<mtime, clock, pc>>

\* how a removal ends; remove_cache_entry takes the metadata once more
RemovalEnds(p) ==
    /\ \/ pc[p] = "remove" /\ pc' = [pc EXCEPT ![p] = "compile"]
             /\ meta' = [meta EXCEPT ![want[p]] = "none"]
       \/ pc[p] = "discard" /\ pc' = [pc EXCEPT ![p] = "lookup"]
             /\ meta' = [meta EXCEPT ![want[p]] = "none"]
       \/ pc[p] = "evict" /\ pc' = [pc EXCEPT ![p] = "restore"] /\ meta' = meta
    /\ doomed[p] = {}
    /\ UNCHANGED <<cwasm, mtime, temp, dirs, clock, doomed>>

LEMMA DeletionStep ==
    ASSUME Typed, NEW p \in Preparers, DeleteOne(p)
    PROVE  \E d \in Digests, x \in Entry : DeletesFile(p, d, x)
<1>1. PICK f \in doomed[p] :
        /\ doomed' = [doomed EXCEPT ![p] = @ \ {f}]
        /\ cwasm' = [cwasm EXCEPT ![f[1]] = IF f[2] = "cwasm" THEN "none" ELSE @]
        /\ meta' = [meta EXCEPT ![f[1]] = IF f[2] = "meta" THEN "none" ELSE @]
        /\ temp' = [q \in Preparers |-> IF f = <<want[q], q>> THEN "none" ELSE temp[q]]
        /\ dirs' = IF f[2] = "dir" /\ IsEmpty(f[1]) THEN dirs \ {f[1]} ELSE dirs
        /\ UNCHANGED <<mtime, clock, pc>>
  BY DEF DeleteOne
<1>2. PICK d \in Digests, x \in Entry : f = <<d, x>>
  BY DEF Typed, CacheTypeOK
<1>3. f[1] = d /\ f[2] = x /\ \A q \in Preparers : f = <<want[q], q>> <=> d = want[q] /\ x = q
  BY <1>2
<1>4. cwasm' = IF x = "cwasm" THEN [cwasm EXCEPT ![d] = "none"] ELSE cwasm
  BY <1>1, <1>3 DEF Typed, CacheTypeOK
<1>5. meta' = IF x = "meta" THEN [meta EXCEPT ![d] = "none"] ELSE meta
  BY <1>1, <1>3 DEF Typed, CacheTypeOK
<1>6. temp' = [q \in Preparers |-> IF d = want[q] /\ x = q THEN "none" ELSE temp[q]]
  BY <1>1, <1>3
<1>7. dirs' = IF x = "dir" /\ IsEmpty(d) THEN dirs \ {d} ELSE dirs
  BY <1>1, <1>3
<1> QED
  BY <1>1, <1>2, <1>4, <1>5, <1>6, <1>7 DEF DeletesFile

(* A removal deletes a file or, when none is left, ends.                   *)
LEMMA RemovalStep ==
    ASSUME Typed, NEW p \in Preparers, Removes(p)
    PROVE  (\E d \in Digests, x \in Entry : DeletesFile(p, d, x)) \/ RemovalEnds(p)
<1>1. CASE RemoveInvalid(p)
  BY <1>1, DeletionStep DEF RemoveInvalid, RemoveEntry, Goto, RemovalEnds
<1>2. CASE RemoveBroken(p)
  BY <1>2, DeletionStep DEF RemoveBroken, RemoveEntry, Goto, RemovalEnds
<1>3. CASE Evict(p)
  BY <1>3, DeletionStep DEF Evict, Goto, RemovalEnds, files
<1> QED
  BY <1>1, <1>2, <1>3 DEF Removes

LEMMA RemovalMoves ==
    ASSUME Typed, NEW p \in Preparers, Removes(p)
    PROVE  /\ RemoveInvalid(p) => pc[p] = "remove" /\ pc'[p] \in {"remove", "compile"}
           /\ RemoveBroken(p) => pc[p] = "discard" /\ pc'[p] \in {"discard", "lookup"}
           /\ Evict(p) => pc[p] = "evict" /\ pc'[p] \in {"evict", "restore"}
           /\ doomed'[p] \subseteq doomed[p]
           /\ \A q \in Preparers \ {p} : pc'[q] = pc[q] /\ doomed'[q] = doomed[q]
           /\ UNCHANGED <<want, rebuilt, sawMeta, written, mtime, clock>>
<1> USE DEF Typed, CacheTypeOK
<1>1. /\ RemoveInvalid(p) => pc[p] = "remove"
      /\ RemoveBroken(p) => pc[p] = "discard"
      /\ Evict(p) => pc[p] = "evict"
      /\ UNCHANGED <<want, rebuilt, sawMeta, written>>
  BY DEF Removes, RemoveInvalid, RemoveBroken, RemoveEntry, Evict, Goto, locals
<1>2. ASSUME NEW d \in Digests, NEW x \in Entry, DeletesFile(p, d, x)
      PROVE  /\ pc' = pc /\ doomed'[p] \subseteq doomed[p] /\ UNCHANGED <<mtime, clock>>
             /\ \A q \in Preparers \ {p} : doomed'[q] = doomed[q]
  BY <1>2 DEF DeletesFile
<1>3. CASE RemovalEnds(p)
  <2>1. /\ pc[p] = "remove" => pc'[p] = "compile"
        /\ pc[p] = "discard" => pc'[p] = "lookup"
        /\ pc[p] = "evict" => pc'[p] = "restore"
        /\ \A q \in Preparers \ {p} : pc'[q] = pc[q]
        /\ UNCHANGED <<mtime, clock, doomed>>
    BY <1>3 DEF RemovalEnds
  <2> QED
    BY <1>1, <2>1
<1> QED
  BY <1>1, <1>2, <1>3, RemovalStep

(* Every component of the state keeps its type; files are left to delete   *)
(* only where a removal is under way or died.                              *)
LEMMA TypeStep == Typed /\ [Next]_vars => Typed'
<1> SUFFICES ASSUME Typed, [Next]_vars PROVE Typed'
  OBVIOUS
<1>s. UNCHANGED sound
  BY DEF Next, vars
<1> USE <1>s DEF Typed, CacheTypeOK, LocalsTyped, files, locals, Goto
<1>1. ASSUME NEW p \in Preparers, Begin(p) PROVE Typed'
  BY <1>1 DEF Begin
<1>2. ASSUME NEW p \in Preparers, ReadMetadata(p), UNCHANGED alone PROVE Typed'
  BY <1>2 DEF ReadMetadata
<1>3. ASSUME NEW p \in Preparers, AcceptEntry(p), UNCHANGED alone PROVE Typed'
  BY <1>3 DEF AcceptEntry
<1>4. ASSUME NEW p \in Preparers, RejectEntry(p), UNCHANGED alone PROVE Typed'
  BY <1>4 DEF RejectEntry
<1>5. ASSUME NEW p \in Preparers, Removes(p), UNCHANGED alone PROVE Typed'
  <2>1. ASSUME NEW d \in Digests, NEW x \in Entry, DeletesFile(p, d, x) PROVE CacheTypeOK'
    BY <2>1 DEF DeletesFile
  <2>2. ASSUME RemovalEnds(p) PROVE CacheTypeOK'
    <3>1. /\ meta' \in [Digests -> {"none", "ok", "stale"}]
          /\ UNCHANGED <<cwasm, mtime, temp, dirs, clock, doomed>>
      BY <2>2 DEF RemovalEnds
    <3>2. \E to \in {"compile", "lookup", "restore"} : pc' = [pc EXCEPT ![p] = to]
      BY <2>2 DEF RemovalEnds
    <3>3. doomed[p] = {}
      BY <2>2 DEF RemovalEnds
    <3> QED
      BY <3>1, <3>2, <3>3
  <2>3. CacheTypeOK'
    BY <1>5, <2>1, <2>2, RemovalStep
  <2>4. LocalsTyped'
    BY <1>5 DEF Removes, RemoveInvalid, RemoveBroken, RemoveEntry, Evict
  <2> QED
    BY <2>3, <2>4
<1>6. ASSUME NEW p \in Preparers, CreateDir(p), UNCHANGED alone PROVE Typed'
  BY <1>6 DEF CreateDir
<1>7. ASSUME NEW p \in Preparers, OpenTemp(p), UNCHANGED alone PROVE Typed'
  BY <1>7 DEF OpenTemp
<1>8. ASSUME NEW p \in Preparers, FillArtifact(p), UNCHANGED alone PROVE Typed'
  BY <1>8 DEF FillArtifact, FillTemp
<1>9. ASSUME NEW p \in Preparers, PublishArtifact(p), UNCHANGED alone PROVE Typed'
  BY <1>9 DEF PublishArtifact
<1>10. ASSUME NEW p \in Preparers, FillMetadata(p), UNCHANGED alone PROVE Typed'
  BY <1>10 DEF FillMetadata, FillTemp
<1>11. ASSUME NEW p \in Preparers, PublishMetadata(p), UNCHANGED alone PROVE Typed'
  BY <1>11 DEF PublishMetadata
<1>12. ASSUME NEW p \in Preparers, PublicationFails(p), UNCHANGED alone PROVE Typed'
  BY <1>12, SMTT(20) DEF PublicationFails
<1>13. ASSUME NEW p \in Preparers, ScanCache(p), UNCHANGED alone PROVE Typed'
  <2>1. PICK old \in SUBSET Entries : doomed' = [doomed EXCEPT ![p] = old \X Entry]
    BY <1>13 DEF ScanCache
  <2>2. old \X Entry \in SUBSET (Digests \X Entry)
    BY DEF Entries
  <2> QED
    BY <1>13, <2>1, <2>2 DEF ScanCache
<1>14. ASSUME NEW p \in Preparers, Restore(p), UNCHANGED alone PROVE Typed'
  BY <1>14 DEF Restore
<1>15. ASSUME NEW p \in Preparers, DiscardAndRebuild(p), UNCHANGED alone PROVE Typed'
  BY <1>15 DEF DiscardAndRebuild
<1>16. ASSUME NEW p \in Preparers, RestoreFails(p), UNCHANGED alone PROVE Typed'
  BY <1>16 DEF RestoreFails
<1>17. ASSUME NEW p \in Preparers, Crash(p), UNCHANGED alone PROVE Typed'
  BY <1>17 DEF Crash
<1>18. CASE UNCHANGED vars
  BY <1>18 DEF vars
<1> QED
  BY <1>1, <1>2, <1>3, <1>4, <1>5, <1>6, <1>7, <1>8, <1>9, <1>10, <1>11, <1>12, <1>13,
     <1>14, <1>15, <1>16, <1>17, <1>18, StepKinds DEF Next, Proceeds

LEMMA TypeInvariant == Spec => []Typed
<1>1. Init => Typed
  BY DEF Init, Typed, CacheTypeOK, LocalsTyped
<1> QED
  BY <1>1, TypeStep, PTL DEF Spec

(* The state of the cache and of its preparations is well-typed.           *)
THEOREM CacheTypeCorrect == Spec => []CacheTypeOK
<1>1. Typed => CacheTypeOK
  BY DEF Typed
<1> QED
  BY <1>1, TypeInvariant, PTL

(* What a step leaves to the other preparations.                           *)
LEMMA OthersStay ==
    ASSUME Typed, NEW p \in Preparers, Begin(p) \/ Step(p) \/ Crash(p)
    PROVE  /\ want' = want
           /\ \A q \in Preparers \ {p} :
                 /\ pc'[q] = pc[q] /\ source'[q] = source[q] /\ rebuilt'[q] = rebuilt[q]
                 /\ sawMeta'[q] = sawMeta[q] /\ written'[q] = written[q]
                 /\ doomed'[q] = doomed[q]
<1> USE DEF Typed, CacheTypeOK, LocalsTyped, Goto, files, locals
<1>1. CASE Begin(p) \/ Crash(p)
  BY <1>1 DEF Begin, Crash
<1>2. CASE Removes(p)
  <2>1. \A q \in Preparers \ {p} : source'[q] = source[q]
    BY <1>2 DEF Removes, RemoveInvalid, Evict, RemoveBroken, RemoveEntry
  <2> QED
    BY <1>2, <2>1, RemovalMoves
<1>3. CASE Proceeds(p)
  <2> USE DEF ReadMetadata, AcceptEntry, RejectEntry, CreateDir, OpenTemp, FillArtifact,
     FillTemp, PublishArtifact, FillMetadata, PublishMetadata, PublicationFails, ScanCache,
     Restore, DiscardAndRebuild, RestoreFails
  <2>1. want' = want /\ \A q \in Preparers \ {p} : pc'[q] = pc[q]
    BY <1>3 DEF Proceeds
  <2>2. \A q \in Preparers \ {p} : source'[q] = source[q] /\ rebuilt'[q] = rebuilt[q]
    BY <1>3 DEF Proceeds
  <2>3. \A q \in Preparers \ {p} : sawMeta'[q] = sawMeta[q] /\ written'[q] = written[q]
    BY <1>3 DEF Proceeds
  <2>4. \A q \in Preparers \ {p} : doomed'[q] = doomed[q]
    <3>1. CASE ScanCache(p)
      BY <3>1
    <3>2. CASE ~ScanCache(p)
      BY <1>3, <3>2 DEF Proceeds
    <3> QED
      BY <3>1, <3>2
  <2> QED
    BY <2>1, <2>2, <2>3, <2>4
<1> QED
  BY <1>1, <1>2, <1>3, StepKinds

(***************************************************************************)
(* What readers of the cache may see.  A rename finds its temporary file   *)
(* filled, or not at all; and from the moment a preparation has published  *)
(* its artifact no damaged one can be in that place any more.              *)
(***************************************************************************)
FilledFirst == \A p \in Preparers :
    /\ pc[p] \in {"publishArtifact", "publishMetadata"} => temp[p] # "part"
    /\ pc[p] \in {"writeMetadata", "openMetadata", "fillMetadata", "publishMetadata"} =>
          cwasm[want[p]] \in {"none", "good"}

LEMMA ArtifactsChangeWhole ==
    ASSUME Typed, FilledFirst, NEW p \in Preparers, Begin(p) \/ Step(p) \/ Crash(p),
           NEW d \in Digests
    PROVE  cwasm'[d] \in {cwasm[d], "none", "good"}
<1> USE DEF Typed, CacheTypeOK
<1>1. CASE Removes(p)
  <2>1. ASSUME NEW e \in Digests, NEW x \in Entry, DeletesFile(p, e, x)
        PROVE  cwasm'[d] \in {cwasm[d], "none", "good"}
    BY <2>1 DEF DeletesFile
  <2>2. CASE RemovalEnds(p)
    BY <2>2 DEF RemovalEnds
  <2> QED
    BY <1>1, <2>1, <2>2, RemovalStep
<1>2. CASE UNCHANGED cwasm
  BY <1>2
<1>3. CASE PublishArtifact(p)
  <2>1. temp[p] = "whole"
    BY <1>3 DEF PublishArtifact, Goto, FilledFirst
  <2> QED
    BY <1>3, <2>1 DEF PublishArtifact
<1>4. CASE Proceeds(p) /\ ~PublishArtifact(p)
  <2>1. UNCHANGED cwasm
    BY <1>4 DEF Proceeds, ReadMetadata, AcceptEntry, RejectEntry, CreateDir, OpenTemp,
       FillArtifact, FillTemp, FillMetadata, PublishMetadata, PublicationFails, ScanCache,
       Restore, DiscardAndRebuild, RestoreFails, files
  <2> QED
    BY <2>1
<1>5. CASE Begin(p) \/ Crash(p)
  BY <1>5 DEF Begin, Crash, files
<1> QED
  BY <1>1, <1>3, <1>4, <1>5, StepKinds

LEMMA MetadataChangesWhole ==
    ASSUME Typed, FilledFirst, NEW p \in Preparers, Begin(p) \/ Step(p) \/ Crash(p),
           NEW d \in Digests
    PROVE  \/ meta'[d] \in {meta[d], "none"}
           \/ meta'[d] = "ok" /\ cwasm[d] \in {"none", "good"}
<1> USE DEF Typed, CacheTypeOK
<1>1. CASE Removes(p)
  <2>1. ASSUME NEW e \in Digests, NEW x \in Entry, DeletesFile(p, e, x)
        PROVE  meta'[d] \in {meta[d], "none"}
    BY <2>1 DEF DeletesFile
  <2>2. CASE RemovalEnds(p)
    BY <2>2 DEF RemovalEnds
  <2> QED
    BY <1>1, <2>1, <2>2, RemovalStep
<1>2. CASE PublishMetadata(p)
  <2>1. temp[p] = "whole" /\ cwasm[want[p]] \in {"none", "good"}
    BY <1>2 DEF PublishMetadata, Goto, FilledFirst
  <2>2. meta' = [meta EXCEPT ![want[p]] = "ok"]
    BY <1>2, <2>1 DEF PublishMetadata
  <2> QED
    BY <2>1, <2>2
<1>3. CASE Proceeds(p) /\ ~PublishMetadata(p)
  <2>1. UNCHANGED meta
    BY <1>3 DEF Proceeds, ReadMetadata, AcceptEntry, RejectEntry, CreateDir, OpenTemp,
       FillArtifact, FillTemp, PublishArtifact, FillMetadata, PublicationFails, ScanCache,
       Restore, DiscardAndRebuild, RestoreFails, files
  <2> QED
    BY <2>1
<1>4. CASE Begin(p) \/ Crash(p)
  BY <1>4 DEF Begin, Crash, files
<1> QED
  BY <1>1, <1>2, <1>3, <1>4, StepKinds

\* a step leaves another preparation's temporary file alone, or deletes it
LEMMA TempsOfOthers ==
    ASSUME Typed, NEW p \in Preparers, Begin(p) \/ Step(p) \/ Crash(p)
    PROVE  \A q \in Preparers \ {p} : temp'[q] \in {temp[q], "none"}
<1> USE DEF Typed, CacheTypeOK
<1>1. CASE Removes(p)
  <2>1. ASSUME NEW d \in Digests, NEW x \in Entry, DeletesFile(p, d, x)
        PROVE  \A q \in Preparers \ {p} : temp'[q] \in {temp[q], "none"}
    BY <2>1 DEF DeletesFile
  <2>2. CASE RemovalEnds(p)
    BY <2>2 DEF RemovalEnds
  <2> QED
    BY <1>1, <2>1, <2>2, RemovalStep
<1>2. CASE Proceeds(p)
  BY <1>2 DEF Proceeds, ReadMetadata, AcceptEntry, RejectEntry, CreateDir, OpenTemp,
     FillArtifact, FillTemp, PublishArtifact, FillMetadata, PublishMetadata, PublicationFails,
     ScanCache, Restore, DiscardAndRebuild, RestoreFails, files
<1>3. CASE Begin(p) \/ Crash(p)
  BY <1>3 DEF Begin, Crash, files
<1> QED
  BY <1>1, <1>2, <1>3, StepKinds

LEMMA FilledStep == Typed /\ FilledFirst /\ [Next]_vars => FilledFirst'
<1> SUFFICES ASSUME Typed, FilledFirst, [Next]_vars PROVE FilledFirst'
  OBVIOUS
<1>1. CASE UNCHANGED vars
  BY <1>1 DEF vars, files, locals, FilledFirst
<1>2. ASSUME NEW p \in Preparers, Begin(p) \/ Step(p) \/ Crash(p) PROVE FilledFirst'
  <2> USE DEF Typed, CacheTypeOK, LocalsTyped
  <2>1. want' = want /\ \A q \in Preparers \ {p} : pc'[q] = pc[q]
    BY <1>2, OthersStay
  <2>2. \A d \in Digests : cwasm'[d] \in {cwasm[d], "none", "good"}
    BY <1>2, ArtifactsChangeWhole
  <2>3. \A q \in Preparers \ {p} : temp'[q] \in {temp[q], "none"}
    BY <1>2, TempsOfOthers
  <2>4. /\ pc'[p] \in {"publishArtifact", "publishMetadata"} => temp'[p] # "part"
        /\ pc'[p] \in {"writeMetadata", "openMetadata", "fillMetadata", "publishMetadata"} =>
              cwasm'[want[p]] \in {"none", "good"}
    <3>1. CASE Removes(p)
      BY <3>1, RemovalMoves DEF Removes
    <3>2. CASE PublishArtifact(p)
      BY <3>2 DEF PublishArtifact, Goto, FilledFirst
    <3>3. CASE CreateDir(p) \/ OpenTemp(p)
      BY <2>2, <3>3 DEF CreateDir, OpenTemp, Goto, FilledFirst
    <3>4. CASE FillArtifact(p) \/ FillMetadata(p)
      BY <3>4 DEF FillArtifact, FillMetadata, FillTemp, Goto, FilledFirst
    <3>5. CASE \/ Begin(p) \/ Crash(p) \/ ReadMetadata(p) \/ AcceptEntry(p) \/ RejectEntry(p)
               \/ PublishMetadata(p) \/ PublicationFails(p) \/ ScanCache(p) \/ Restore(p)
               \/ DiscardAndRebuild(p) \/ RestoreFails(p)
      BY <3>5 DEF Begin, Crash, ReadMetadata, AcceptEntry, RejectEntry, PublishMetadata,
         PublicationFails, ScanCache, Restore, DiscardAndRebuild, RestoreFails, Goto
    <3> QED
      BY <1>2, <3>1, <3>2, <3>3, <3>4, <3>5, StepKinds DEF Proceeds
  <2> QED
    BY <2>1, <2>2, <2>3, <2>4 DEF FilledFirst
<1> QED
  BY <1>1, <1>2 DEF Next

LEMMA FilledInvariant == Spec => []FilledFirst
<1>1. Init => FilledFirst
  BY DEF Init, FilledFirst
<1> QED
  BY <1>1, FilledStep, TypeInvariant, PTL DEF Spec

(***************************************************************************)
(* A preparation that meets no other one.  OnTrack says, state by state,   *)
(* what it has secured so far; nobody else can undo it.                    *)
(***************************************************************************)
\* the entries that the eviction of p leaves
Kept(p) == {d \in Entries : <<d, "cwasm">> \notin doomed[p]}

Newest(p) == \A d \in Digests \ {want[p]} : mtime[d] < mtime[want[p]]

OnTrack(p) ==
    /\ pc[p] = "lookup" => (rebuilt[p] => meta[want[p]] = "none")
    /\ pc[p] = "stat" => ~rebuilt[p]
    /\ pc[p] \in {"openArtifact", "openMetadata"} => want[p] \in dirs
    /\ pc[p] \in {"fillArtifact", "fillMetadata"} => temp[p] # "none"
    /\ pc[p] \in {"publishArtifact", "publishMetadata"} => temp[p] = "whole"
    /\ pc[p] = "publishArtifact" => \A d \in Digests : mtime[d] < written[p]
    /\ pc[p] \in {"writeMetadata", "openMetadata", "fillMetadata", "publishMetadata", "scan"} =>
          cwasm[want[p]] = "good" /\ Newest(p)
    /\ pc[p] = "evict" =>
          /\ Cardinality(Kept(p)) <= MaxBytes
          /\ MaxBytes > 0 => cwasm[want[p]] = "good" /\ <<want[p], "cwasm">> \notin doomed[p]
    /\ pc[p] = "restore" =>
          \/ source[p] = "WarmRestored" /\ ~rebuilt[p] /\ SizeMatches(want[p])
          \/ /\ source[p] = "ColdCompiled" /\ Cardinality(Entries) <= MaxBytes
             /\ MaxBytes > 0 => cwasm[want[p]] = "good"

ClockAhead == /\ \A d \in Digests : mtime[d] < clock
              /\ \A p \in Preparers : written[p] < clock
OnlyActive == \A p \in Preparers : alone[p] /\ p \in Active => Active = {p}
IdleIsFresh == \A p \in Preparers : pc[p] = "idle" => ~rebuilt[p]
LonelyOnTrack == \A p \in Preparers : alone[p] /\ p \in Active => OnTrack(p)

AloneInv == ClockAhead /\ OnlyActive /\ IdleIsFresh /\ LonelyOnTrack /\ AloneFallsBack

\* the budget's arithmetic: what is kept fits, and includes the newest
LEMMA EvictionFits ==
    ASSUME Typed, NEW p \in Preparers, ScanCache(p)
    PROVE  /\ Cardinality(Kept(p)') <= MaxBytes
           /\ (MaxBytes > 0 /\ Newest(p)) => \A x \in Entry : <<want[p], x>> \notin doomed'[p]
<1> USE CacheAssumption
<1>1. PICK old \in SUBSET Entries :
        /\ \A d \in old, e \in Entries \ old : mtime[d] <= mtime[e]
        /\ Cardinality(Entries \ old) = IF Cardinality(Entries) > MaxBytes
                                        THEN MaxBytes ELSE Cardinality(Entries)
        /\ doomed' = [doomed EXCEPT ![p] = old \X Entry]
  BY DEF ScanCache
<1>2. doomed'[p] = old \X Entry /\ UNCHANGED <<cwasm, mtime>>
  BY <1>1 DEF ScanCache, files, Typed, CacheTypeOK
<1>3. IsFiniteSet(Entries) /\ Cardinality(Entries) \in Nat
  BY FS_Subset, FS_CardinalityType DEF Entries
<1>4. Cardinality(Entries \ old) <= MaxBytes
  BY <1>1, <1>3
<1>5. Kept(p)' = Entries \ old
  BY <1>2 DEF Kept, Entries, Entry
<1>6. ASSUME MaxBytes > 0, Newest(p), want[p] \in old PROVE FALSE
  <2>1. want[p] \in Entries /\ Entries \subseteq Digests
    BY <1>6 DEF Entries
  <2>2. \A e \in Entries \ old : mtime[e] < mtime[want[p]]
    BY <1>6, <2>1 DEF Newest
  <2>3. \A e \in Entries \ old : mtime[want[p]] <= mtime[e]
    BY <1>1, <1>6
  <2>4. Entries \ old = {}
    BY <2>1, <2>2, <2>3 DEF Typed, CacheTypeOK
  <2>5. Cardinality(Entries \ old) = 0 /\ Cardinality(Entries) # 0
    BY <1>3, <2>1, <2>4, FS_EmptySet
  <2> QED
    BY <1>1, <1>3, <1>6, <2>5
<1> QED
  BY <1>2, <1>4, <1>5, <1>6 DEF Entry

(* Step by step, what a preparation has secured leads to the next state    *)
(* and never to a failure.                                                 *)
LEMMA TrackStep ==
    ASSUME Typed, ClockAhead, NEW p \in Preparers, Step(p), OnTrack(p)
    PROVE  OnTrack(p)' /\ (MaxBytes > 0 => pc'[p] # "failed")
<1> DEFINE Fine == OnTrack(p)' /\ (MaxBytes > 0 => pc'[p] # "failed")
<1> SUFFICES Fine
  OBVIOUS
<1> USE CacheAssumption DEF Typed, CacheTypeOK, LocalsTyped, Goto, files, locals
<1>1. CASE ReadMetadata(p)
  BY <1>1 DEF ReadMetadata, OnTrack
<1>2. CASE AcceptEntry(p)
  BY <1>2 DEF AcceptEntry, OnTrack, SizeMatches
<1>3. CASE RejectEntry(p)
  BY <1>3 DEF RejectEntry, OnTrack
<1>4. CASE RemoveInvalid(p)
  <2>1. pc'[p] \in {"remove", "compile"}
    BY <1>4, RemovalMoves DEF Removes
  <2> QED
    BY <2>1 DEF OnTrack
<1>5. CASE CreateDir(p)
  BY <1>5 DEF CreateDir, OnTrack, Newest
<1>6. CASE OpenTemp(p)
  BY <1>6 DEF OpenTemp, OnTrack, Newest
<1>7. CASE FillArtifact(p)
  BY <1>7 DEF FillArtifact, FillTemp, OnTrack, ClockAhead
<1>8. CASE FillMetadata(p)
  BY <1>8 DEF FillMetadata, FillTemp, OnTrack, Newest
<1>9. CASE PublishArtifact(p)
  BY <1>9 DEF PublishArtifact, OnTrack, Newest
<1>16. CASE PublishMetadata(p)
  BY <1>16 DEF PublishMetadata, OnTrack, Newest
<1>17. CASE PublicationFails(p)
  BY <1>17 DEF PublicationFails, Robbed, OnTrack
<1>10. CASE ScanCache(p)
  <2>1. pc'[p] = "evict" /\ cwasm'[want'[p]] = cwasm[want[p]] /\ want' = want /\ pc[p] = "scan"
    BY <1>10 DEF ScanCache
  <2>2. Cardinality(Kept(p)') <= MaxBytes
        /\ (MaxBytes > 0 => <<want[p], "cwasm">> \notin doomed'[p])
    <3>1. Newest(p) /\ "cwasm" \in Entry
      BY <2>1 DEF OnTrack, Entry
    <3> QED
      BY <1>10, <3>1, EvictionFits
  <2> QED
    BY <2>1, <2>2 DEF OnTrack
<1>11. CASE Evict(p)
  <2>1. pc[p] = "evict" /\ want' = want /\ source'[p] = "ColdCompiled"
    BY <1>11, RemovalMoves DEF Evict, Removes
  <2>2. ASSUME NEW d \in Digests, NEW x \in Entry, DeletesFile(p, d, x) PROVE Fine
    <3>1. pc'[p] = "evict"
      BY <2>1, <2>2 DEF DeletesFile
    <3>2. \A e \in Digests : /\ cwasm'[e] = IF e = d /\ x = "cwasm" THEN "none" ELSE cwasm[e]
                             /\ <<e, "cwasm">> \in doomed'[p]
                                  <=> <<e, "cwasm">> \in doomed[p] /\ ~(e = d /\ x = "cwasm")
      BY <2>2 DEF DeletesFile
    <3>3. Kept(p)' = Kept(p)
      BY <2>2, <3>2 DEF Kept, Entries, DeletesFile
    <3>4. MaxBytes > 0 => cwasm'[want[p]] = "good" /\ <<want[p], "cwasm">> \notin doomed'[p]
      BY <2>1, <2>2, <3>2 DEF OnTrack, DeletesFile
    <3> QED
      BY <2>1, <3>1, <3>3, <3>4 DEF OnTrack
  <2>3. CASE RemovalEnds(p)
    <3>0. pc'[p] = "restore" /\ doomed[p] = {} /\ UNCHANGED cwasm
      BY <2>1, <2>3 DEF RemovalEnds
    <3>1. Kept(p) = Entries /\ Entries' = Entries
      BY <3>0 DEF Kept, Entries
    <3>2. MaxBytes > 0 => cwasm'[want[p]] = "good"
      BY <2>1, <3>0 DEF OnTrack
    <3>3. Cardinality(Entries') <= MaxBytes
      BY <2>1, <3>1 DEF OnTrack
    <3> QED
      BY <2>1, <3>0, <3>2, <3>3 DEF OnTrack
  <2> QED
    BY <1>11, <2>2, <2>3, RemovalStep DEF Removes
<1>12. CASE Restore(p)
  BY <1>12 DEF Restore, OnTrack
<1>13. CASE DiscardAndRebuild(p)
  BY <1>13 DEF DiscardAndRebuild, OnTrack, Entry
<1>14. CASE RemoveBroken(p)
  <2>1. pc[p] = "discard" /\ want' = want
    BY <1>14, RemovalMoves DEF Removes
  <2>2. ASSUME NEW d \in Digests, NEW x \in Entry, DeletesFile(p, d, x) PROVE Fine
    BY <2>1, <2>2 DEF DeletesFile, OnTrack
  <2>3. CASE RemovalEnds(p)
    <3>1. pc'[p] = "lookup" /\ meta'[want[p]] = "none"
      BY <2>1, <2>3 DEF RemovalEnds
    <3> QED
      BY <2>1, <3>1 DEF OnTrack
  <2> QED
    BY <1>14, <2>2, <2>3, RemovalStep DEF Removes
<1>15. CASE RestoreFails(p)
  BY <1>15 DEF RestoreFails, OnTrack, CanRebuild, SizeMatches
<1> QED
  BY <1>1, <1>2, <1>3, <1>4, <1>5, <1>6, <1>7, <1>8, <1>9, <1>10, <1>11, <1>12,
     <1>13, <1>14, <1>15, <1>16, <1>17 DEF Step

LEMMA AloneStep == Typed /\ AloneInv /\ [Next]_vars => AloneInv'
<1> SUFFICES ASSUME Typed, AloneInv, [Next]_vars PROVE AloneInv'
  OBVIOUS
<1>t. Typed'
  BY TypeStep
<1> USE DEF Typed, CacheTypeOK, LocalsTyped, Goto, files, locals
<1>1. CASE UNCHANGED vars
  <2>1. \A p \in Preparers : OnTrack(p)' = OnTrack(p)
    BY <1>1 DEF vars, OnTrack, Kept, Entries, Newest, SizeMatches
  <2>2. Active' = Active
    BY <1>1 DEF vars, Active
  <2> QED
    BY <1>1, <2>1, <2>2 DEF vars, AloneInv, ClockAhead, OnlyActive, IdleIsFresh,
       LonelyOnTrack, AloneFallsBack
<1>2. ASSUME NEW p \in Preparers, Begin(p) PROVE AloneInv'
  <2>1. /\ pc[p] = "idle" /\ pc' = [pc EXCEPT ![p] = "lookup"] /\ UNCHANGED <<files, locals, doomed>>
        /\ \A q \in Preparers : alone'[q] <=> IF q = p THEN Active = {} ELSE alone[q] /\ q \notin Active
    BY <1>2 DEF Begin
  <2>2. Active' = Active \cup {p}
    BY <2>1 DEF Active
  <2>3. OnlyActive' /\ IdleIsFresh' /\ ClockAhead'
    BY <2>1, <2>2 DEF AloneInv, OnlyActive, IdleIsFresh, ClockAhead
  <2>4. LonelyOnTrack'
    BY <2>1, <2>2 DEF AloneInv, LonelyOnTrack, OnTrack, IdleIsFresh
  <2>5. AloneFallsBack'
    BY <2>1 DEF AloneInv, AloneFallsBack
  <2> QED
    BY <2>3, <2>4, <2>5 DEF AloneInv
<1>3. ASSUME NEW p \in Preparers, Step(p) \/ Crash(p), UNCHANGED alone PROVE AloneInv'
  <2>1. /\ p \in Active /\ \A q \in Preparers \ {p} : pc'[q] = pc[q]
        /\ pc'[p] # "idle"
    <3>1. CASE Crash(p)
      BY <3>1 DEF Crash, Active
    <3>2. CASE Step(p)
      <4>1. CASE Removes(p)
        BY <4>1, RemovalMoves DEF Removes, Active
      <4>2. CASE Proceeds(p)
        BY <4>2 DEF Active, Proceeds, ReadMetadata, AcceptEntry, RejectEntry, CreateDir,
           OpenTemp, FillArtifact, FillTemp, PublishArtifact, FillMetadata, PublishMetadata,
           PublicationFails, ScanCache, Restore, DiscardAndRebuild, RestoreFails
      <4> QED
        BY <3>2, <4>1, <4>2, StepKinds
    <3> QED
      BY <1>3, <3>1, <3>2
  <2>2. Active' \subseteq Active /\ \A q \in Active : alone[q] => q = p
    BY <2>1 DEF AloneInv, OnlyActive, Active
  <2>3. OnlyActive'
    BY <1>3, <2>1, <2>2 DEF AloneInv, OnlyActive
  <2>4. IdleIsFresh'
    BY <1>3, <2>1, OthersStay DEF AloneInv, IdleIsFresh
  <2>5. ClockAhead'
    <3>1. CASE FillArtifact(p)
      BY <3>1 DEF FillArtifact, FillTemp, AloneInv, ClockAhead
    <3>2. CASE PublishArtifact(p)
      BY <3>2 DEF PublishArtifact, AloneInv, ClockAhead
    <3>3. CASE UNCHANGED <<clock, mtime, written>>
      BY <3>3 DEF AloneInv, ClockAhead
    <3>4. CASE Crash(p) \/ Removes(p)
      BY <3>3, <3>4, RemovalMoves DEF Crash
    <3>5. CASE Proceeds(p) /\ ~FillArtifact(p) /\ ~PublishArtifact(p)
      <4>1. UNCHANGED <<clock, mtime, written>>
        BY <3>5 DEF Proceeds, ReadMetadata, AcceptEntry, RejectEntry, CreateDir, OpenTemp,
           FillTemp, FillMetadata, PublishMetadata, PublicationFails, ScanCache, Restore,
           DiscardAndRebuild, RestoreFails
      <4> QED
        BY <3>3, <4>1
    <3> QED
      BY <1>3, <3>1, <3>2, <3>4, <3>5, StepKinds
  <2>6. (alone[p] /\ Step(p)) => OnTrack(p)' /\ (MaxBytes > 0 => pc'[p] # "failed")
    BY <2>1, TrackStep DEF AloneInv, LonelyOnTrack
  <2>7. Crash(p) => pc'[p] = "crashed"
    BY DEF Crash
  <2>8. LonelyOnTrack'
    BY <1>3, <2>1, <2>2, <2>6, <2>7 DEF LonelyOnTrack, Active
  <2>9. AloneFallsBack'
    BY <1>3, <2>1, <2>2, <2>6, <2>7 DEF AloneInv, AloneFallsBack
  <2> QED
    BY <2>3, <2>4, <2>5, <2>8, <2>9 DEF AloneInv
<1> QED
  BY <1>1, <1>2, <1>3 DEF Next

THEOREM AloneInvariant == Spec => []AloneInv
<1>1. Init => AloneInv
  BY DEF Init, AloneInv, ClockAhead, OnlyActive, IdleIsFresh, LonelyOnTrack, AloneFallsBack, Active
<1> QED
  BY <1>1, AloneStep, TypeInvariant, PTL DEF Spec

(* Whatever deaths and earlier preparations left on disk, a preparation    *)
(* that meets no other one succeeds, if the budget has room for an entry.  *)
THEOREM AloneSucceeds == Spec => []AloneFallsBack
<1>1. AloneInv => AloneFallsBack
  BY DEF AloneInv
<1> QED
  BY <1>1, AloneInvariant, PTL

(* Eviction by a publication that meets no other one leaves what fits the  *)
(* budget, and the entry that was just published.                          *)
THEOREM EvictionKeepsBudget == Spec => []PublicationFitsBudget
<1>1. AloneInv => PublicationFitsBudget
  BY DEF AloneInv, LonelyOnTrack, OnTrack, PublicationFitsBudget, Active
<1> QED
  BY <1>1, AloneInvariant, PTL

(***************************************************************************)
(* Preparations of one digest that run beside each other.  Whoever may     *)
(* have damaged the entry, or found it damaged, owes a repair: its debt is *)
(* paid by its own publication, or passes to the preparation that deletes  *)
(* what it was publishing.                                                 *)
(***************************************************************************)
SameWant == \A p, q \in Preparers : want[p] = want[q]
NobodyDied == \A p \in Preparers : pc[p] # "crashed"

OwesArtifact(p) ==
    \/ pc[p] \in {"lookup", "stat", "remove", "discard", "compile"}
    \/ pc[p] \in {"openArtifact", "fillArtifact", "publishArtifact"} /\ ~Robbed(p)
    \/ /\ pc[p] = "restore" /\ source[p] = "WarmRestored"
       /\ ~rebuilt[p] /\ cwasm[want[p]] = "bad"

OwesMetadata(p) ==
    \/ pc[p] \in {"lookup", "remove", "discard", "compile", "writeMetadata"}
    \/ pc[p] = "stat" /\ sawMeta[p] # "ok"
    \/ /\ pc[p] \in {"openArtifact", "fillArtifact", "publishArtifact",
                     "openMetadata", "fillMetadata", "publishMetadata"}
       /\ ~Robbed(p)

\* no damage without a debtor, once anybody has looked at the entry
Mended(p) == /\ cwasm[want[p]] = "good" \/ \E q \in Preparers : OwesArtifact(q)
             /\ meta[want[p]] = "ok" \/ \E q \in Preparers : OwesMetadata(q)
DebtsHeld == \A p \in Preparers : pc[p] # "idle" => Mended(p)

\* what was rebuilt is not corrupt
RebuiltIsClean == \A p \in Preparers : rebuilt[p] =>
    \/ cwasm[want[p]] # "bad"
    \/ pc[p] \in {"discard", "crashed"} /\ <<want[p], "cwasm">> \in doomed[p]

\* what was published is newer than what nobody prepares
TimesTell ==
    /\ clock > 0
    /\ \A d \in Digests : (\A p \in Preparers : want[p] # d) => mtime[d] = 0
    /\ \A p \in Preparers :
          /\ pc[p] = "publishArtifact" => written[p] > 0
          /\ pc[p] \in {"writeMetadata", "openMetadata", "fillMetadata", "publishMetadata", "scan"} =>
                mtime[want[p]] > 0

\* so no eviction takes the digest that everybody prepares
EvictionSpares == (SameWant /\ MaxBytes > 0) => \A p \in Preparers : pc[p] = "evict" =>
    \A x \in Entry : <<want[p], x>> \notin doomed[p]

QuietInv == /\ TimesTell /\ RebuiltIsClean /\ EvictionSpares
            /\ (SameWant /\ NobodyDied /\ MaxBytes > 0) => DebtsHeld

LEMMA TimesStep ==
    ASSUME Typed, TimesTell, NEW p \in Preparers, Begin(p) \/ Step(p) \/ Crash(p)
    PROVE  TimesTell'
<1> USE DEF Typed, CacheTypeOK, LocalsTyped, Goto, files, locals
<1>1. /\ want' = want
      /\ \A q \in Preparers \ {p} : pc'[q] = pc[q] /\ written'[q] = written[q]
  BY OthersStay
<1>2. CASE FillArtifact(p)
  BY <1>1, <1>2 DEF FillArtifact, FillTemp, TimesTell
<1>3. CASE PublishArtifact(p)
  <2>1. /\ clock' = clock /\ mtime' = [mtime EXCEPT ![want[p]] = written[p]]
        /\ written[p] > 0 /\ written' = written /\ pc'[p] = "writeMetadata"
    BY <1>3 DEF PublishArtifact, TimesTell
  <2>2. \A q \in Preparers : mtime[want[q]] > 0 => mtime'[want[q]] > 0
    BY <2>1
  <2>3. mtime'[want[p]] > 0
    BY <2>1
  <2> QED
    BY <1>1, <2>1, <2>2, <2>3 DEF TimesTell
<1>4. CASE Removes(p)
  <2>1. pc'[p] \in {"remove", "compile", "evict", "restore", "discard", "lookup"}
    BY <1>4, RemovalMoves DEF Removes
  <2>2. UNCHANGED <<clock, mtime>>
    BY <1>4, RemovalMoves
  <2> QED
    BY <1>1, <2>1, <2>2 DEF TimesTell
<1>5. CASE Begin(p) \/ Crash(p) \/ (Proceeds(p) /\ ~FillArtifact(p) /\ ~PublishArtifact(p))
  <2> USE DEF Begin, Crash, Proceeds, ReadMetadata, AcceptEntry, RejectEntry, CreateDir,
       OpenTemp, FillTemp, FillMetadata, PublishMetadata, PublicationFails, ScanCache,
       Restore, DiscardAndRebuild, RestoreFails
  <2>1. UNCHANGED <<clock, mtime>>
    BY <1>5
  <2>2. /\ pc'[p] # "publishArtifact"
        /\ pc'[p] \in {"writeMetadata", "openMetadata", "fillMetadata", "publishMetadata", "scan"} =>
              pc[p] \in {"writeMetadata", "openMetadata", "fillMetadata", "publishMetadata"}
    BY <1>5
  <2> QED
    BY <1>1, <2>1, <2>2 DEF TimesTell
<1> QED
  <2>1. Removes(p) \/ Proceeds(p) \/ Begin(p) \/ Crash(p)
    BY StepKinds
  <2> QED
    BY <1>2, <1>3, <1>4, <1>5, <2>1

LEMMA CleanStep ==
    ASSUME Typed, FilledFirst, RebuiltIsClean, NEW p \in Preparers, Begin(p) \/ Step(p) \/ Crash(p)
    PROVE  RebuiltIsClean'
<1> USE DEF Typed, CacheTypeOK, LocalsTyped, Goto, files, locals
<1>1. /\ want' = want
      /\ \A q \in Preparers \ {p} :
            pc'[q] = pc[q] /\ rebuilt'[q] = rebuilt[q] /\ doomed'[q] = doomed[q]
  BY OthersStay
<1>2. \A d \in Digests : cwasm[d] # "bad" => cwasm'[d] # "bad"
  BY ArtifactsChangeWhole
<1> SUFFICES ASSUME rebuilt'[p] /\ cwasm'[want[p]] = "bad"
             PROVE  pc'[p] \in {"discard", "crashed"} /\ <<want[p], "cwasm">> \in doomed'[p]
  <2>1. ASSUME NEW q \in Preparers \ {p}, rebuilt'[q], cwasm'[want'[q]] = "bad"
        PROVE  pc'[q] \in {"discard", "crashed"} /\ <<want'[q], "cwasm">> \in doomed'[q]
    <3>1. rebuilt[q] /\ cwasm[want[q]] = "bad" /\ want'[q] = want[q]
      BY <1>1, <1>2, <2>1
    <3> QED
      BY <1>1, <3>1 DEF RebuiltIsClean
  <2> QED
    BY <1>1, <2>1 DEF RebuiltIsClean
<1>3. CASE DiscardAndRebuild(p)
  BY <1>3 DEF DiscardAndRebuild, Entry
<1>4. CASE Crash(p)
  <2>1. rebuilt[p]
    BY <1>4 DEF Crash
  <2> QED
    BY <1>2, <1>4, <2>1 DEF RebuiltIsClean, Crash
<1>5. CASE Removes(p)
  <2>1. rebuilt[p]
    BY <1>5, RemovalMoves
  <2>2. pc[p] \in {"discard", "crashed"} /\ <<want[p], "cwasm">> \in doomed[p]
    BY <1>2, <2>1 DEF RebuiltIsClean
  <2>3. PICK d \in Digests, x \in Entry : DeletesFile(p, d, x)
    BY <1>5, <2>2, RemovalStep DEF RemovalEnds
  <2>4. <<d, x>> # <<want[p], "cwasm">>
    BY <2>3 DEF DeletesFile
  <2> QED
    BY <2>2, <2>3, <2>4 DEF DeletesFile
<1>6. CASE Begin(p) \/ (Proceeds(p) /\ ~DiscardAndRebuild(p))
  <2> USE DEF Begin, Proceeds, ReadMetadata, AcceptEntry, RejectEntry, CreateDir, OpenTemp,
       FillArtifact, FillTemp, PublishArtifact, FillMetadata, PublishMetadata,
       PublicationFails, ScanCache, Restore, RestoreFails
  <2>1. rebuilt[p]
    BY <1>6
  <2>2. pc[p] \notin {"discard", "crashed"}
    BY <1>6
  <2> QED
    BY <1>2, <2>1, <2>2 DEF RebuiltIsClean
<1> QED
  BY <1>3, <1>4, <1>5, <1>6, StepKinds

LEMMA SparesStep ==
    ASSUME Typed, TimesTell, EvictionSpares, NEW p \in Preparers, Begin(p) \/ Step(p) \/ Crash(p)
    PROVE  EvictionSpares'
<1> USE DEF Typed, CacheTypeOK, LocalsTyped, Goto, files, locals
<1>1. /\ want' = want
      /\ \A q \in Preparers \ {p} : pc'[q] = pc[q] /\ doomed'[q] = doomed[q]
  BY OthersStay
<1> SUFFICES ASSUME SameWant, MaxBytes > 0, pc'[p] = "evict", NEW x \in Entry
             PROVE  <<want[p], x>> \notin doomed'[p]
  BY <1>1 DEF EvictionSpares, SameWant
<1>2. CASE ScanCache(p)
  <2>1. mtime[want[p]] > 0
    BY <1>2 DEF ScanCache, TimesTell
  <2>2. ASSUME NEW d \in Digests \ {want[p]} PROVE mtime[d] = 0
    BY DEF SameWant, TimesTell
  <2>3. Newest(p)
    BY <2>1, <2>2 DEF Newest
  <2> QED
    BY <1>2, <2>3, EvictionFits
<1>3. CASE Evict(p)
  <2>1. pc[p] = "evict" /\ <<want[p], x>> \notin doomed[p]
    BY <1>3, RemovalMoves DEF Removes, EvictionSpares
  <2>2. doomed'[p] \subseteq doomed[p]
    BY <1>3, RemovalMoves DEF Removes
  <2> QED
    BY <2>1, <2>2
<1>4. ScanCache(p) \/ Evict(p)
  <2>1. ~RemoveInvalid(p) /\ ~RemoveBroken(p)
    BY RemovalMoves DEF Removes
  <2>2. (Begin(p) \/ Crash(p) \/ Proceeds(p)) => ScanCache(p)
    BY DEF Begin, Crash, Proceeds, ReadMetadata, AcceptEntry, RejectEntry, CreateDir,
       OpenTemp, FillArtifact, FillTemp, PublishArtifact, FillMetadata, PublishMetadata,
       PublicationFails, Restore, DiscardAndRebuild, RestoreFails
  <2> QED
    BY <2>1, <2>2, StepKinds DEF Removes
<1> QED
  BY <1>2, <1>3, <1>4

\* p moves on without a debt of its own and robs nobody
LEMMA DebtsOfOthers ==
    ASSUME Typed, SameWant, NEW p \in Preparers, Begin(p) \/ Step(p) \/ Crash(p),
           \A q \in Preparers \ {p} : Robbed(q)' => Robbed(q)
    PROVE  \A q \in Preparers \ {p} :
             /\ (OwesArtifact(q) /\ cwasm'[want[p]] = cwasm[want[p]]) => OwesArtifact(q)'
             /\ OwesMetadata(q) => OwesMetadata(q)'
<1>1. want' = want /\ \A q \in Preparers \ {p} :
        pc'[q] = pc[q] /\ source'[q] = source[q] /\ rebuilt'[q] = rebuilt[q] /\ sawMeta'[q] = sawMeta[q]
  BY OthersStay
<1>2. \A q \in Preparers : want[q] = want[p]
  BY DEF SameWant
<1> QED
  BY <1>1, <1>2 DEF OwesArtifact, OwesMetadata

LEMMA DebtStep ==
    ASSUME Typed, FilledFirst, RebuiltIsClean, EvictionSpares, SameWant, MaxBytes > 0,
           NEW p \in Preparers, Step(p), Mended(p)
    PROVE  Mended(p)'
<1> USE DEF Typed, CacheTypeOK, LocalsTyped, Goto, files, locals
<1>0. want' = want /\ \A q \in Preparers \ {p} : pc'[q] = pc[q]
  BY OthersStay
<1>a. ASSUME OwesArtifact(p)', OwesMetadata(p)' PROVE Mended(p)'
  BY <1>a DEF Mended
\* p leaves files, temporary ones included, to the others
<1>b. ASSUME cwasm'[want[p]] = cwasm[want[p]],
             \A q \in Preparers \ {p} : Robbed(q)' => Robbed(q),
             OwesArtifact(p) => OwesArtifact(p)' \/ cwasm[want[p]] = "good"
      PROVE  cwasm'[want[p]] = "good" \/ \E q \in Preparers : OwesArtifact(q)'
  BY <1>b, DebtsOfOthers DEF Mended
<1>c. ASSUME meta'[want[p]] = meta[want[p]],
             \A q \in Preparers \ {p} : Robbed(q)' => Robbed(q),
             OwesMetadata(p) => OwesMetadata(p)' \/ meta[want[p]] = "ok"
      PROVE  meta'[want[p]] = "ok" \/ \E q \in Preparers : OwesMetadata(q)'
  BY <1>c, DebtsOfOthers DEF Mended
<1>r. ASSUME dirs \subseteq dirs', \A q \in Preparers \ {p} : temp'[q] = temp[q]
      PROVE  \A q \in Preparers \ {p} : Robbed(q)' => Robbed(q)
  BY <1>0, <1>r DEF Robbed
<1>d. ASSUME UNCHANGED <<cwasm, meta, temp, dirs>>,
             OwesArtifact(p) => OwesArtifact(p)' \/ cwasm[want[p]] = "good",
             OwesMetadata(p) => OwesMetadata(p)' \/ meta[want[p]] = "ok"
      PROVE  Mended(p)'
  BY <1>0, <1>r, <1>b, <1>c, <1>d DEF Mended
\* p is past its artifact and writes its metadata
<1>m. ASSUME UNCHANGED cwasm, ~OwesArtifact(p),
             OwesMetadata(p)' \/ meta'[want[p]] = "ok",
             dirs \subseteq dirs', \A q \in Preparers \ {p} : temp'[q] = temp[q]
      PROVE  Mended(p)'
  BY <1>0, <1>r, <1>b, <1>m DEF Mended
<1>1. CASE ReadMetadata(p)
  <2>1. UNCHANGED <<cwasm, meta, temp, dirs>> /\ OwesArtifact(p)'
    BY <1>1 DEF ReadMetadata, OwesArtifact
  <2>2. OwesMetadata(p)' \/ meta[want[p]] = "ok"
    BY <1>1 DEF ReadMetadata, OwesMetadata
  <2> QED
    BY <1>d, <2>1, <2>2
<1>2. CASE AcceptEntry(p)
  <2>1. UNCHANGED <<cwasm, meta, temp, dirs>> /\ ~OwesMetadata(p)
    BY <1>2 DEF AcceptEntry, OwesMetadata
  <2>2. OwesArtifact(p)' \/ cwasm[want[p]] = "good"
    BY <1>2 DEF AcceptEntry, OwesArtifact, SizeMatches, RebuiltIsClean
  <2> QED
    BY <1>d, <2>1, <2>2
<1>3. CASE RejectEntry(p)
  BY <1>3, <1>a DEF RejectEntry, OwesArtifact, OwesMetadata
<1>4. CASE RemoveInvalid(p)
  <2>1. pc'[p] \in {"remove", "compile"}
    BY <1>4, RemovalMoves DEF Removes
  <2> QED
    BY <1>a, <2>1 DEF OwesArtifact, OwesMetadata
<1>5. CASE CreateDir(p)
  <2>1. CASE pc[p] = "compile"
    BY <1>5, <1>a, <2>1 DEF CreateDir, OwesArtifact, OwesMetadata, Robbed
  <2>2. CASE pc[p] = "writeMetadata"
    <3>1. UNCHANGED <<cwasm, temp>> /\ dirs \subseteq dirs' /\ ~OwesArtifact(p)
      BY <1>5, <2>2 DEF CreateDir, OwesArtifact
    <3>2. OwesMetadata(p)'
      BY <1>5, <2>2 DEF CreateDir, OwesMetadata, Robbed
    <3> QED
      BY <1>m, <3>1, <3>2
  <2> QED
    BY <1>5, <2>1, <2>2 DEF CreateDir
<1>6. CASE OpenTemp(p)
  <2>1. CASE pc[p] = "openArtifact"
    BY <1>6, <1>a, <2>1 DEF OpenTemp, OwesArtifact, OwesMetadata, Robbed
  <2>2. CASE pc[p] = "openMetadata"
    <3>1. /\ UNCHANGED <<cwasm, dirs>> /\ ~OwesArtifact(p)
          /\ \A q \in Preparers \ {p} : temp'[q] = temp[q]
      BY <1>6, <2>2 DEF OpenTemp, OwesArtifact
    <3>2. OwesMetadata(p)'
      BY <1>6, <2>2 DEF OpenTemp, OwesMetadata, Robbed
    <3> QED
      BY <1>m, <3>1, <3>2
  <2> QED
    BY <1>6, <2>1, <2>2 DEF OpenTemp
<1>7. CASE FillArtifact(p)
  BY <1>7, <1>a DEF FillArtifact, FillTemp, OwesArtifact, OwesMetadata, Robbed
<1>8. CASE FillMetadata(p)
  <2>1. /\ UNCHANGED <<cwasm, dirs>> /\ ~OwesArtifact(p)
        /\ \A q \in Preparers \ {p} : temp'[q] = temp[q]
    BY <1>8 DEF FillMetadata, FillTemp, OwesArtifact
  <2>2. OwesMetadata(p)'
    BY <1>8 DEF FillMetadata, FillTemp, OwesMetadata, Robbed
  <2> QED
    BY <1>m, <2>1, <2>2
<1>9. CASE PublishArtifact(p)
  <2>1. temp[p] = "whole"
    BY <1>9 DEF PublishArtifact, FilledFirst
  <2> QED
    BY <1>9, <2>1 DEF PublishArtifact, OwesMetadata, Mended
<1>10. CASE PublishMetadata(p)
  <2>1. /\ UNCHANGED <<cwasm, dirs>> /\ ~OwesArtifact(p)
        /\ \A q \in Preparers \ {p} : temp'[q] = temp[q]
    BY <1>10 DEF PublishMetadata, OwesArtifact
  <2>2. temp[p] = "whole"
    BY <1>10 DEF PublishMetadata, FilledFirst
  <2>3. meta'[want[p]] = "ok"
    BY <1>10, <2>2 DEF PublishMetadata
  <2> QED
    BY <1>m, <2>1, <2>3
<1>11. CASE PublicationFails(p)
  <2>1. UNCHANGED <<cwasm, meta, temp, dirs>>
    BY <1>11 DEF PublicationFails
  <2>2. ~OwesArtifact(p) /\ ~OwesMetadata(p)
    BY <1>11 DEF PublicationFails, OwesArtifact, OwesMetadata
  <2> QED
    BY <1>d, <2>1, <2>2
<1>12. CASE ScanCache(p)
  BY <1>12, <1>d DEF ScanCache, OwesArtifact, OwesMetadata
<1>13. CASE Evict(p)
  <2>1. /\ pc[p] = "evict" /\ \A x \in Entry : <<want[p], x>> \notin doomed[p]
        /\ ~OwesArtifact(p) /\ ~OwesMetadata(p)
    BY <1>13, RemovalMoves DEF Removes, EvictionSpares, OwesArtifact, OwesMetadata
  <2>2. /\ cwasm'[want[p]] = cwasm[want[p]] /\ meta'[want[p]] = meta[want[p]]
        /\ temp' = temp
        /\ want[p] \in dirs => want[p] \in dirs'
    <3>1. ASSUME NEW d \in Digests, NEW x \in Entry, DeletesFile(p, d, x) PROVE <2>2
      <4>1. d # want[p]
        BY <2>1, <3>1 DEF DeletesFile
      <4>2. temp' = temp
        BY <3>1, <4>1 DEF DeletesFile, SameWant
      <4> QED
        BY <3>1, <4>1, <4>2 DEF DeletesFile
    <3>2. CASE RemovalEnds(p)
      BY <2>1, <3>2 DEF RemovalEnds
    <3> QED
      BY <1>13, <3>1, <3>2, RemovalStep DEF Removes
  <2>3. \A q \in Preparers \ {p} : Robbed(q)' => Robbed(q)
    BY <1>0, <2>2 DEF Robbed, SameWant
  <2> QED
    BY <1>0, <1>b, <1>c, <2>1, <2>2, <2>3 DEF Mended
<1>14. CASE Restore(p)
  BY <1>14, <1>d DEF Restore, OwesArtifact, OwesMetadata
<1>15. CASE DiscardAndRebuild(p)
  BY <1>15, <1>a DEF DiscardAndRebuild, OwesArtifact, OwesMetadata
<1>16. CASE RemoveBroken(p)
  <2>1. pc'[p] \in {"discard", "lookup"}
    BY <1>16, RemovalMoves DEF Removes
  <2> QED
    BY <1>a, <2>1 DEF OwesArtifact, OwesMetadata
<1>17. CASE RestoreFails(p)
  BY <1>17, <1>d DEF RestoreFails, CanRebuild, OwesArtifact, OwesMetadata
<1> QED
  BY <1>1, <1>2, <1>3, <1>4, <1>5, <1>6, <1>7, <1>8, <1>9, <1>10, <1>11, <1>12,
     <1>13, <1>14, <1>15, <1>16, <1>17 DEF Step

LEMMA QuietStep == Typed /\ FilledFirst /\ QuietInv /\ [Next]_vars => QuietInv'
<1> SUFFICES ASSUME Typed, FilledFirst, QuietInv, [Next]_vars PROVE QuietInv'
  OBVIOUS
<1> USE DEF Typed, CacheTypeOK, LocalsTyped, files, locals
<1>1. CASE UNCHANGED vars
  <2>1. \A p \in Preparers : OwesArtifact(p)' = OwesArtifact(p) /\ OwesMetadata(p)' = OwesMetadata(p)
    BY <1>1 DEF vars, OwesArtifact, OwesMetadata, Robbed
  <2>2. DebtsHeld' = DebtsHeld /\ NobodyDied' = NobodyDied /\ SameWant' = SameWant
    BY <1>1, <2>1 DEF vars, DebtsHeld, Mended, NobodyDied, SameWant
  <2>3. TimesTell' /\ RebuiltIsClean' /\ EvictionSpares'
    BY <1>1, <2>2 DEF vars, QuietInv, TimesTell, RebuiltIsClean, EvictionSpares
  <2> QED
    BY <2>2, <2>3 DEF QuietInv
<1>2. ASSUME NEW p \in Preparers, Begin(p) \/ Step(p) \/ Crash(p) PROVE QuietInv'
  <2>1. TimesTell' /\ RebuiltIsClean' /\ EvictionSpares'
    BY <1>2, TimesStep, CleanStep, SparesStep DEF QuietInv
  <2>2. want' = want /\ \A q \in Preparers \ {p} : pc'[q] = pc[q]
    BY <1>2, OthersStay
  <2>3. ASSUME SameWant', NobodyDied', MaxBytes > 0 PROVE DebtsHeld'
    <3>1. SameWant
      BY <2>2, <2>3 DEF SameWant
    <3>2. ~Crash(p) /\ pc[p] # "crashed"
      <4>1. Crash(p) => pc'[p] = "crashed"
        BY DEF Crash
      <4>2. (Begin(p) \/ Step(p)) => pc[p] # "crashed"
        <5>1. Removes(p) => pc[p] # "crashed"
          BY RemovalMoves DEF Removes
        <5>2. (Begin(p) \/ Proceeds(p)) => pc[p] # "crashed"
          BY DEF Begin, Proceeds, Goto, ReadMetadata, AcceptEntry, RejectEntry,
           CreateDir, OpenTemp, FillArtifact, FillTemp, PublishArtifact, FillMetadata,
           PublishMetadata, PublicationFails, ScanCache, Restore, DiscardAndRebuild,
           RestoreFails
        <5> QED
          BY <5>1, <5>2, StepKinds
      <4> QED
        BY <1>2, <2>3, <4>1, <4>2 DEF NobodyDied
    <3>3. DebtsHeld
      BY <2>2, <2>3, <3>1, <3>2 DEF QuietInv, NobodyDied
    <3>4. Mended(p)'
      <4>1. CASE Begin(p)
        BY <4>1 DEF Begin, Goto, Mended, OwesArtifact, OwesMetadata
      <4>2. CASE Step(p)
        <5>1. Removes(p) => pc[p] # "idle"
          BY RemovalMoves DEF Removes
        <5>2. Proceeds(p) => pc[p] # "idle"
          BY DEF Proceeds, Goto, ReadMetadata, AcceptEntry, RejectEntry,
           CreateDir, OpenTemp, FillArtifact, FillTemp, PublishArtifact, FillMetadata,
           PublishMetadata, PublicationFails, ScanCache, Restore, DiscardAndRebuild,
           RestoreFails
        <5> QED
          BY <2>3, <3>1, <3>3, <4>2, <5>1, <5>2, StepKinds, DebtStep DEF QuietInv, DebtsHeld
      <4> QED
        BY <1>2, <3>2, <4>1, <4>2
    <3> QED
      BY <2>3, <3>4 DEF DebtsHeld, Mended, SameWant
  <2> QED
    BY <2>1, <2>3 DEF QuietInv
<1> QED
  BY <1>1, <1>2 DEF Next

THEOREM QuietInvariant == Spec => []QuietInv
<1>1. Init => QuietInv
  BY DEF Init, QuietInv, TimesTell, RebuiltIsClean, EvictionSpares, DebtsHeld
<1> QED
  BY <1>1, QuietStep, FilledInvariant, TypeInvariant, PTL DEF Spec

(* However many preparations of one digest race each other, once all have  *)
(* ended and none has died, the digest is warm: a late removal is always   *)
(* repaired by whoever removed.                                            *)
THEOREM RaceLeavesWarm == Spec => []QuietEntryIsWarm
<1>1. Typed /\ QuietInv => QuietEntryIsWarm
  <2> SUFFICES ASSUME Typed, QuietInv, Active = {}, MaxBytes > 0, NobodyDied, SameWant,
                      NEW p \in Preparers, pc[p] = "done"
               PROVE  want[p] \in WarmDigests /\ cwasm[want[p]] = "good"
    BY DEF QuietEntryIsWarm, NobodyDied, SameWant
  <2>1. Mended(p)
    BY DEF QuietInv, DebtsHeld
  <2>2. \A q \in Preparers : ~OwesArtifact(q) /\ ~OwesMetadata(q)
    BY DEF Active, OwesArtifact, OwesMetadata
  <2> QED
    BY <2>1, <2>2 DEF Mended, WarmDigests, SizeMatches, Typed, LocalsTyped
<1> QED
  BY <1>1, QuietInvariant, TypeInvariant, PTL

-----------------------------------------------------------------------------
(***************************************************************************)
(* A cache that was whole and has room.  Nothing is ever removed from it:  *)
(* no entry is found invalid, none has to be evicted, so no rename misses  *)
(* its temporary file and no restore misses its artifact.                  *)
(***************************************************************************)
SoundFor(p) ==
    /\ doomed[p] = {}
    /\ pc[p] \notin {"remove", "discard", "failed"}
    /\ pc[p] = "stat" => sawMeta[p] = "ok" /\ cwasm[want[p]] = "good"
    /\ pc[p] \in {"openArtifact", "openMetadata"} => want[p] \in dirs
    /\ pc[p] \in {"fillArtifact", "fillMetadata"} => temp[p] # "none"
    /\ pc[p] \in {"publishArtifact", "publishMetadata"} => temp[p] = "whole"
    /\ pc[p] \in {"writeMetadata", "openMetadata", "fillMetadata", "publishMetadata",
                   "scan", "evict", "restore"} => cwasm[want[p]] = "good"

SoundInv == sound => /\ HasRoom
                     /\ \A d \in Digests : Whole(d)
                     /\ \A p \in Preparers : SoundFor(p)

(* A scan of a cache that has room for every entry finds none to evict.    *)
LEMMA NothingToEvict ==
    ASSUME Typed, HasRoom, NEW p \in Preparers, ScanCache(p)
    PROVE  doomed' = [doomed EXCEPT ![p] = {}]
<1> USE CacheAssumption
<1>1. PICK old \in SUBSET Entries :
        /\ Cardinality(Entries \ old) = IF Cardinality(Entries) > MaxBytes
                                        THEN MaxBytes ELSE Cardinality(Entries)
        /\ doomed' = [doomed EXCEPT ![p] = old \X Entry]
  BY DEF ScanCache
<1> DEFINE all == Entries \cup {want[q] : q \in Preparers}
<1>2. IsFiniteSet(all) /\ IsFiniteSet(Entries)
  BY FS_Subset DEF Entries, Typed, LocalsTyped
<1>3. Cardinality(Entries) <= Cardinality(all) /\ Cardinality(Entries) \in Nat
      /\ Cardinality(all) \in Nat
  BY <1>2, FS_Subset, FS_CardinalityType
<1>4. Cardinality(all) <= MaxBytes
  BY DEF HasRoom
<1>5. Cardinality(Entries \ old) = Cardinality(Entries)
  <2> HIDE DEF all
  <2> QED BY <1>1, <1>3, <1>4
<1>6. Entries \ old = Entries
  BY <1>2, <1>5, FS_Subset
<1>7. old = {}
  BY <1>6
<1> QED
  BY <1>1, <1>7

(* A preparation of a sound cache, having found the entry whole or written *)
(* it, goes on to its end.                                                 *)
LEMMA SoundOwnStep ==
    ASSUME Typed, SoundInv, sound, NEW p \in Preparers, Step(p) \/ Begin(p) \/ Crash(p)
    PROVE  /\ SoundFor(p)'
           /\ \A d \in Digests : /\ Whole(d)'
                                 /\ cwasm[d] = "good" => cwasm'[d] = "good"
                                 /\ cwasm'[d] # "none" => cwasm[d] # "none" \/ d = want[p]
           /\ dirs \subseteq dirs' /\ \A q \in Preparers \ {p} : temp'[q] = temp[q]
           /\ \A q \in Preparers \ {p} : pc'[q] = pc[q] /\ doomed'[q] = doomed[q]
                                         /\ sawMeta'[q] = sawMeta[q]
           /\ UNCHANGED want
<1> DEFINE Fine == /\ SoundFor(p)'
                   /\ \A d \in Digests : /\ Whole(d)'
                                         /\ cwasm[d] = "good" => cwasm'[d] = "good"
                                         /\ cwasm'[d] # "none" => cwasm[d] # "none" \/ d = want[p]
                   /\ dirs \subseteq dirs' /\ \A q \in Preparers \ {p} : temp'[q] = temp[q]
                   /\ \A q \in Preparers \ {p} : pc'[q] = pc[q] /\ doomed'[q] = doomed[q]
                                                 /\ sawMeta'[q] = sawMeta[q]
                   /\ UNCHANGED want
<1> SUFFICES Fine
  OBVIOUS
<1>s. SoundFor(p) /\ HasRoom /\ \A d \in Digests : Whole(d)
  BY DEF SoundInv
<1> USE DEF Typed, CacheTypeOK, LocalsTyped, Goto, files, locals, Whole, SoundFor
<1>1. CASE Begin(p)
  BY <1>1, <1>s DEF Begin
<1>2. CASE ReadMetadata(p)
  BY <1>2, <1>s DEF ReadMetadata
<1>3. CASE AcceptEntry(p)
  BY <1>3, <1>s DEF AcceptEntry
<1>4. CASE RejectEntry(p)
  BY <1>4, <1>s DEF RejectEntry, SizeMatches
<1>5. CASE RemoveInvalid(p) \/ RemoveBroken(p)
  BY <1>5, <1>s, RemovalMoves DEF Removes
<1>6. CASE CreateDir(p)
  BY <1>6, <1>s DEF CreateDir
<1>7. CASE OpenTemp(p)
  BY <1>7, <1>s DEF OpenTemp
<1>8. CASE FillArtifact(p) \/ FillMetadata(p)
  BY <1>8, <1>s DEF FillArtifact, FillMetadata, FillTemp
<1>9. CASE PublishArtifact(p)
  BY <1>9, <1>s DEF PublishArtifact
<1>16. CASE PublishMetadata(p)
  BY <1>16, <1>s DEF PublishMetadata
<1>10. CASE PublicationFails(p)
  BY <1>10, <1>s DEF PublicationFails, Robbed
<1>11. CASE ScanCache(p)
  <2>1. doomed' = [doomed EXCEPT ![p] = {}]
    BY <1>11, <1>s, NothingToEvict
  <2> QED BY <1>11, <1>s, <2>1 DEF ScanCache
<1>12. CASE Evict(p)
  <2>1. Goto(p, "evict", "restore") /\ UNCHANGED <<files, doomed, want, sawMeta>>
    BY <1>12, <1>s DEF Evict, DeleteOne
  <2> QED BY <1>s, <2>1
<1>13. CASE Restore(p)
  BY <1>13, <1>s DEF Restore
<1>14. CASE DiscardAndRebuild(p) \/ RestoreFails(p)
  BY <1>14, <1>s DEF DiscardAndRebuild, RestoreFails
<1>15. CASE Crash(p)
  BY <1>15, <1>s DEF Crash
<1> QED
  BY <1>1, <1>2, <1>3, <1>4, <1>5, <1>6, <1>7, <1>8, <1>9, <1>10, <1>11, <1>12, <1>13,
     <1>14, <1>15, <1>16 DEF Step

(* No preparation takes from another what it relies on.                    *)
LEMMA SoundStep == Typed /\ SoundInv /\ [Next]_vars => SoundInv'
<1> SUFFICES ASSUME Typed, SoundInv, [Next]_vars PROVE SoundInv'
  OBVIOUS
<1>1. CASE UNCHANGED vars
  BY <1>1 DEF vars, files, locals, SoundInv, SoundFor, Whole, HasRoom, Entries
<1>2. ASSUME Next, sound' PROVE /\ HasRoom' /\ \A d \in Digests : Whole(d)'
                                /\ \A q \in Preparers : SoundFor(q)'
  <2>1. PICK p \in Preparers : Step(p) \/ Begin(p) \/ Crash(p)
    BY <1>2 DEF Next
  <2>2. sound
    BY <1>2 DEF Next
  <2>3. HasRoom /\ \A q \in Preparers : SoundFor(q)
    BY <2>2 DEF SoundInv
  <2>4. ASSUME NEW q \in Preparers \ {p} PROVE SoundFor(q)'
    <3>1. SoundFor(q) /\ want[q] \in Digests /\ want'[q] = want[q]
      BY <2>1, <2>2, <2>3, SoundOwnStep DEF Typed, LocalsTyped
    <3>2. pc'[q] = pc[q] /\ doomed'[q] = doomed[q] /\ sawMeta'[q] = sawMeta[q]
      BY <2>1, <2>2, SoundOwnStep
    <3>3. /\ cwasm[want[q]] = "good" => cwasm'[want[q]] = "good"
          /\ dirs \subseteq dirs' /\ temp'[q] = temp[q]
      BY <2>1, <2>2, <3>1, SoundOwnStep
    <3> QED BY <3>1, <3>2, <3>3 DEF SoundFor
  <2>5. HasRoom'
    <3> DEFINE all == Entries \cup {want[q] : q \in Preparers}
    <3>1. Entries' \subseteq Entries \cup {want[p]} /\ want' = want
      BY <2>1, <2>2, SoundOwnStep DEF Entries
    <3>2. all' \subseteq all
      BY <3>1
    <3>3. IsFiniteSet(all)
      BY CacheAssumption, FS_Subset DEF Entries, Typed, LocalsTyped
    <3>4. Cardinality(all') <= Cardinality(all) /\ Cardinality(all) \in Nat
          /\ Cardinality(all') \in Nat
      <4> HIDE DEF all
      <4> QED BY <3>2, <3>3, FS_Subset, FS_CardinalityType
    <3> QED
      BY <2>3, <3>4, CacheAssumption DEF HasRoom
  <2> QED BY <2>1, <2>2, <2>4, <2>5, SoundOwnStep
<1>3. CASE Next /\ ~sound'
  BY <1>3 DEF SoundInv
<1>4. CASE Next /\ sound'
  BY <1>2, <1>4 DEF SoundInv
<1> QED
  BY <1>1, <1>3, <1>4

LEMMA SoundInvariant == Spec => []SoundInv
<1>1. ASSUME Init, NEW p \in Preparers PROVE SoundFor(p)
  BY <1>1 DEF Init, SoundFor
<1>2. Init => (sound => HasRoom /\ \A d \in Digests : Whole(d))
  BY DEF Init
<1>3. Init => SoundInv
  BY <1>1, <1>2 DEF SoundInv
<1> QED
  BY <1>3, SoundStep, TypeInvariant, PTL DEF Spec

(* In a cache that was whole and has room for every entry, no preparation  *)
(* fails, however many there are at once and whichever of them die: what   *)
(* compiled_cache_entry publishes by two renames disturbs nobody.          *)
THEOREM SoundSucceeds == Spec => []SoundCacheNeverFails
<1>1. SoundInv => SoundCacheNeverFails
  BY DEF SoundInv, SoundFor, SoundCacheNeverFails
<1> QED
  BY <1>1, SoundInvariant, PTL

(* Whatever runs at once and wherever it dies, in the middle of a write or *)
(* between two renames: artifact.cwasm only becomes complete or vanishes,  *)
(* metadata appears only where no damaged artifact lies, and the entries   *)
(* of a sound cache stay whole.                                            *)
THEOREM PublicationIsWhole == Spec => NoPartialEntry
<1>1. Typed /\ FilledFirst /\ SoundInv' /\ [Next]_vars =>
        [/\ \A d \in Digests : cwasm'[d] \in {cwasm[d], "none", "good"}
         /\ \A d \in Digests : \/ meta'[d] \in {meta[d], "none"}
                               \/ meta'[d] = "ok" /\ cwasm[d] \in {"none", "good"}
         /\ sound => \A d \in Digests : Whole(d)']_vars
  BY ArtifactsChangeWhole, MetadataChangesWhole DEF Next, SoundInv
<1> QED
  BY <1>1, FilledInvariant, SoundInvariant, TypeInvariant, PTL DEF Spec, NoPartialEntry
=============================================================================
