--------------------------- MODULE RunStoreProofs ---------------------------
(***************************************************************************)
(* Safety of RunStore for every set of attempts that do not overlap: what   *)
(* the record of a job is worth after any number of crashes and failures.   *)
(***************************************************************************)
EXTENDS RunStore, TLAPS

-----------------------------------------------------------------------------
(* The inductive invariant.                                                 *)

\* Attempts do not overlap: one of them at most is under way.
Solo == \A a, b \in Attempt : at[a] \notin Idle /\ at[b] \notin Idle => a = b

\* Before its first publish an attempt has nothing on disk.
Unpublished == {"idle", "allocating", "reclaiming", "removing", "retrying", "publishing"}

\* What an attempt inside prepare may rely on: it removes only what may be
\* reclaimed or could not be read, publishes only where there is no manifest, and
\* an allocation that meets a directory after the reclaim has met a record.
Allocating(a) ==
  /\ at[a] \in Unpublished => manifest.by # a /\ a \notin lost
  /\ at[a] \in {"removing", "sweeping"} => ~Recorded \/ manifest.by \in lost
  /\ at[a] = "retrying" /\ dir => Recorded
  /\ at[a] = "publishing" => manifest = NoManifest
  /\ at[a] = "cleaning" => manifest \in {NoManifest, Manifest("prepared", a)} /\ a \notin lost

\* From prepare on the record is the attempt's own; it is finalized by the last
\* publish only, and by then both sidecars are the attempt's.
Recording(a) ==
  /\ at[a] \in Prepared => Loadable /\ manifest.by = a /\ a \notin lost
  /\ at[a] \in Prepared /\ handle[a] = "running" => manifest.state # "prepared"
  /\ at[a] \in Prepared \ {"degrading"} => manifest.state # "finalized"
  /\ at[a] \in {"stderr", "finalizing"} => stdout = a
  /\ at[a] = "finalizing" => stderr = a

\* A receipt is about the attempt's own record, which nobody who can read it
\* touches any more; what a degraded one says was read, or proved by the handle.
Receipted(a) ==
  receipt[a] # NoReceipt =>
    /\ at[a] = "done"
    /\ prior[a] => receipt[a].kind = "degraded"
    /\ a \notin lost =>
         /\ Loadable /\ manifest.by = a
         /\ receipt[a].kind = "complete" => manifest.state = "finalized"
         /\ receipt[a].kind = "degraded" =>
              \/ receipt[a].latest = manifest.state
              \/ /\ ~receipt[a].read /\ receipt[a].latest \in {"prepared", "running"}
                 /\ receipt[a].latest = "running" => manifest.state # "prepared"

\* A finalized record verifies, unless its removal was begun.
Verified == manifest.state = "finalized" /\ manifest.by \notin lost => Verifies

StoreInv ==
  /\ TypeOK
  /\ Solo
  /\ \A a \in Attempt : Allocating(a) /\ Recording(a) /\ Receipted(a)
  /\ Verified
  /\ manifest.state = "foreign" => manifest.by = NoOne

-----------------------------------------------------------------------------
(* One step of one attempt.                                                 *)

\* The initial directory satisfies the invariant.
LEMMA StoreInvInit == Init => StoreInv
  <1> SUFFICES ASSUME Init PROVE StoreInv
    OBVIOUS
  <1>1. TypeOK
    BY AttemptAssumption DEF Init, TypeOK, Manifest, NoManifest, At, Idle, Prepared, NoReceipt
  <1>2. Solo
    BY DEF Init, Solo, Idle
  <1>3. ASSUME NEW a \in Attempt
        PROVE  Allocating(a) /\ Recording(a) /\ Receipted(a)
    BY AttemptAssumption DEF Init, Allocating, Recording, Receipted, Prepared, Unpublished, Recorded,
                             Loadable, Manifest, NoManifest
  <1>4. Verified /\ (manifest.state = "foreign" => manifest.by = NoOne)
    BY DEF Init, Manifest, NoManifest, Verified
  <1> QED
    BY <1>1, <1>2, <1>3, <1>4 DEF StoreInv

\* A step of attempt a while all others rest: what it must not do to them.
Courteous(a) ==
  /\ \A b \in Attempt \ {a} : /\ at[b] \in Idle /\ at'[b] = at[b]
                              /\ receipt'[b] = receipt[b] /\ prior'[b] = prior[b]
  /\ lost \ {NoOne} \subseteq lost' /\ lost' \subseteq lost \cup {manifest.by}
  /\ manifest'.by \in {manifest.by, NoOne, a}
  /\ manifest'.state = "foreign" => UNCHANGED manifest
  /\ Loadable /\ manifest.by # a /\ manifest.by \notin lost => UNCHANGED manifest

\* The parts of the invariant about the other attempts survive such a step.
LEMMA OthersKeep ==
  ASSUME StoreInv, NEW a \in Attempt, Courteous(a)
  PROVE  /\ Solo'
         /\ \A b \in Attempt \ {a} : Allocating(b)' /\ Recording(b)' /\ Receipted(b)'
  <1>1. Solo'
    BY DEF Courteous, Solo
  <1>2. ASSUME NEW b \in Attempt \ {a}
        PROVE  Allocating(b)' /\ Recording(b)' /\ Receipted(b)'
    <2>1. Allocating(b)'
      BY AttemptAssumption DEF StoreInv, Courteous, Allocating, Idle, Unpublished
    <2>2. Recording(b)'
      BY DEF StoreInv, Courteous, Recording, Idle, Prepared
    <2>3. Receipted(b)'
      BY AttemptAssumption DEF StoreInv, Courteous, Receipted, Loadable
    <2> QED
      BY <2>1, <2>2, <2>3
  <1> QED
    BY <1>1, <1>2

\* Who is alone: an attempt under way, and one that begins.
LEMMA Alone ==
  ASSUME ~Overlapping, StoreInv, NEW a \in Attempt, Next,
         at[a] \notin Idle \/ Begin(a)
  PROVE  \A b \in Attempt \ {a} : at[b] \in Idle
  BY DEF StoreInv, Solo, Begin

\* Everything a step of attempt a has to show.
LEMMA StepKeeps ==
  ASSUME StoreInv, NEW a \in Attempt, Courteous(a), TypeOK',
         Allocating(a)', Recording(a)', Receipted(a)',
         Verified'
  PROVE  StoreInv'
  <1>1. Solo' /\ \A b \in Attempt \ {a} : Allocating(b)' /\ Recording(b)' /\ Receipted(b)'
    BY OthersKeep
  <1> QED
    BY <1>1 DEF StoreInv, Courteous

\* A reclaim keeps what it recognises, and remembers what it did not.
LEMMA ReclaimFacts ==
  ASSUME TypeOK, NEW a \in Attempt, NEW from, NEW goes \in At, NEW stays \in At, goes # stays,
         Reclaim(a, from, goes, stays)
  PROVE  /\ UNCHANGED <<disk, handle, prior, receipt>>
         /\ at[a] = from /\ at' \in [Attempt -> At]
         /\ \A b \in Attempt \ {a} : at'[b] = at[b]
         /\ lost \subseteq lost' /\ lost' \subseteq lost \cup {manifest.by}
         /\ \/ at'[a] = goes /\ (~Recorded \/ manifest.by \in lost')
            \/ at'[a] = stays /\ Recorded
  <1>1. PICK first \in BOOLEAN, second \in BOOLEAN :
          /\ Moves(a, from, IF Reclaims(first, second) THEN goes ELSE stays)
          /\ lost' = IF Misread(first, second) THEN lost \cup {manifest.by} ELSE lost
          /\ UNCHANGED <<disk, handle, prior, receipt>>
    BY DEF Reclaim
  <1>2. PICK to \in At : to = IF Reclaims(first, second) THEN goes ELSE stays
    OBVIOUS
  <1>3. at[a] = from /\ at' = [at EXCEPT ![a] = to]
    BY <1>1, <1>2 DEF Moves
  <1>4. at' \in [Attempt -> At] /\ at'[a] = to /\ \A b \in Attempt \ {a} : at'[b] = at[b]
    BY <1>3 DEF TypeOK
  <1>5. Reclaims(first, second) => ~Recorded \/ Misread(first, second)
    BY DEF Reclaims, Misread, Recorded
  <1>6. ~Reclaims(first, second) => Recorded
    BY DEF Reclaims, Recorded
  <1> QED
    BY <1>1, <1>2, <1>3, <1>4, <1>5, <1>6

\* Every step of every attempt preserves the invariant.
LEMMA StoreInvNext ==
  ASSUME ~Overlapping, StoreInv, NEW a \in Attempt, Next
  PROVE  Begin(a) \/ Prepare(a) \/ Run(a) \/ Finalize(a) \/ Crash(a) => StoreInv'
  <1> USE AttemptAssumption DEF Moves, Quiet, disk, At, Idle, Prepared, Manifest, NoManifest
  <1>0. TypeOK /\ Allocating(a) /\ Recording(a) /\ Receipted(a) /\ Verified
    BY DEF StoreInv
  <1>1. CASE Begin(a)
    <2>1. \A b \in Attempt \ {a} : at[b] \in Idle
      BY <1>1, Alone DEF Begin
    <2>2. TypeOK'
      BY <1>0, <1>1 DEF Begin, TypeOK
    <2>3. Courteous(a)
      BY <1>0, <1>1, <2>1 DEF Begin, TypeOK, Courteous, Allocating, Recording, Unpublished, Recorded, Loadable
    <2>4. Allocating(a)' /\ Recording(a)' /\ Receipted(a)'
      BY <1>0, <1>1 DEF Begin, TypeOK, Allocating, Recording, Receipted, Unpublished, Recorded, Loadable, NoReceipt
    <2>5. Verified'
      BY <1>0, <1>1 DEF Begin, TypeOK, Allocating, Recording, Verified, Verifies, Unpublished, Recorded, Loadable
    <2> QED
      BY <2>2, <2>3, <2>4, <2>5, StepKeeps
  <1>2. CASE Allocate(a)
    <2>1. \A b \in Attempt \ {a} : at[b] \in Idle
      BY <1>2, Alone DEF Allocate
    <2>2. TypeOK'
      <3>1. PICK to \in {"publishing", "reclaiming", "failed"} : at' = [at EXCEPT ![a] = to]
        BY <1>2 DEF Allocate
      <3>2. at' \in [Attempt -> At] /\ \A b \in Attempt : at'[b] \in Prepared => at[b] \in Prepared
        BY <1>0, <3>1 DEF TypeOK
      <3>3. dir' \in BOOLEAN /\ (dir => dir') /\ UNCHANGED <<manifest, stdout, stderr>>
        BY <1>0, <1>2 DEF Allocate, Mkdir, TypeOK
      <3> QED
        BY <1>0, <1>2, <3>2, <3>3 DEF Allocate, TypeOK
    <2>3. Courteous(a)
      BY <1>0, <1>2, <2>1 DEF Allocate, Mkdir, TypeOK, Courteous, Allocating, Recording, Unpublished, Recorded, Loadable
    <2>4. Allocating(a)' /\ Recording(a)' /\ Receipted(a)'
      BY <1>0, <1>2 DEF Allocate, Mkdir, TypeOK, Allocating, Recording, Receipted, Unpublished, Recorded, Loadable, NoReceipt
    <2>5. Verified'
      BY <1>0, <1>2 DEF Allocate, Mkdir, TypeOK, Allocating, Recording, Verified, Verifies, Unpublished, Recorded, Loadable
    <2> QED
      BY <2>2, <2>3, <2>4, <2>5, StepKeeps
  <1>3. CASE ReclaimDecides(a)
    <2>1. /\ UNCHANGED <<disk, handle, prior, receipt>>
          /\ at[a] = "reclaiming" /\ at' \in [Attempt -> At]
          /\ \A b \in Attempt \ {a} : at'[b] = at[b]
          /\ lost \subseteq lost' /\ lost' \subseteq lost \cup {manifest.by}
          /\ \/ at'[a] = "removing" /\ (~Recorded \/ manifest.by \in lost')
             \/ at'[a] = "retrying" /\ Recorded
      BY <1>0, <1>3, ReclaimFacts DEF ReclaimDecides
    <2>2. \A b \in Attempt \ {a} : at[b] \in Idle
      BY <2>1, Alone
    <2>3. TypeOK'
      BY <1>0, <2>1 DEF TypeOK
    <2>4. Courteous(a)
      BY <2>1, <2>2 DEF Courteous
    <2>5. Allocating(a)' /\ Recording(a)' /\ Receipted(a)'
      BY <1>0, <2>1 DEF TypeOK, Allocating, Recording, Receipted, Unpublished, Recorded, Loadable, NoReceipt
    <2>6. Verified'
      BY <1>0, <2>1 DEF Verified, Verifies
    <2> QED
      BY <2>3, <2>4, <2>5, <2>6, StepKeeps
  <1>4. CASE ReclaimRemoves(a)
    <2>1. \A b \in Attempt \ {a} : at[b] \in Idle
      BY <1>4, Alone DEF ReclaimRemoves
    <2>. NoManifest \in [state : {"none"}, by : {NoOne}]
      OBVIOUS
    <2>2. TypeOK'
      <3>1. CASE Rmtree /\ Moves(a, "removing", "retrying")
        BY <1>0, <1>4, <3>1 DEF ReclaimRemoves, Rmtree, TypeOK
      <3>2. CASE RmtreePartly /\ Moves(a, "removing", "failed")
        BY <1>0, <1>4, <3>2 DEF ReclaimRemoves, RmtreePartly, TypeOK
      <3> QED
        BY <1>4, <3>1, <3>2 DEF ReclaimRemoves
    <2>3. Courteous(a)
      BY <1>0, <1>4, <2>1 DEF ReclaimRemoves, Rmtree, RmtreePartly, TypeOK, Courteous, Allocating, Recording, Unpublished, Recorded, Loadable
    <2>4. Allocating(a)' /\ Recording(a)' /\ Receipted(a)'
      BY <1>0, <1>4 DEF ReclaimRemoves, Rmtree, RmtreePartly, TypeOK, Allocating, Recording, Receipted, Unpublished, Recorded, Loadable, NoReceipt
    <2>5. Verified'
      BY <1>0, <1>4 DEF ReclaimRemoves, Rmtree, RmtreePartly, TypeOK, Allocating, Recording, Verified, Verifies, Unpublished, Recorded, Loadable
    <2> QED
      BY <2>2, <2>3, <2>4, <2>5, StepKeeps
  <1>5. CASE AllocateAgain(a)
    <2>1. \A b \in Attempt \ {a} : at[b] \in Idle
      BY <1>5, Alone DEF AllocateAgain
    <2>2. TypeOK'
      <3>1. PICK to \in {"publishing", "refused", "failed"} : at' = [at EXCEPT ![a] = to]
        BY <1>5 DEF AllocateAgain
      <3>2. at' \in [Attempt -> At] /\ \A b \in Attempt : at'[b] \in Prepared => at[b] \in Prepared
        BY <1>0, <3>1 DEF TypeOK
      <3>3. dir' \in BOOLEAN /\ (dir => dir') /\ UNCHANGED <<manifest, stdout, stderr>>
        BY <1>0, <1>5 DEF AllocateAgain, Mkdir, TypeOK
      <3> QED
        BY <1>0, <1>5, <3>2, <3>3 DEF AllocateAgain, TypeOK
    <2>3. Courteous(a)
      BY <1>0, <1>5, <2>1 DEF AllocateAgain, Mkdir, TypeOK, Courteous, Allocating, Recording, Unpublished, Recorded, Loadable
    <2>4. Allocating(a)' /\ Recording(a)' /\ Receipted(a)'
      BY <1>0, <1>5 DEF AllocateAgain, Mkdir, TypeOK, Allocating, Recording, Receipted, Unpublished, Recorded, Loadable, NoReceipt
    <2>5. Verified'
      BY <1>0, <1>5 DEF AllocateAgain, Mkdir, TypeOK, Allocating, Recording, Verified, Verifies, Unpublished, Recorded, Loadable
    <2> QED
      BY <2>2, <2>3, <2>4, <2>5, StepKeeps
  <1>6. CASE PublishPrepared(a)
    <2>1. \A b \in Attempt \ {a} : at[b] \in Idle
      BY <1>6, Alone DEF PublishPrepared
    <2>2. TypeOK'
      BY <1>0, <1>6 DEF PublishPrepared, Publishes, TypeOK
    <2>3. Courteous(a)
      BY <1>0, <1>6, <2>1 DEF PublishPrepared, Publishes, TypeOK, Courteous, Allocating, Recording, Unpublished, Recorded, Loadable
    <2>4. Allocating(a)' /\ Recording(a)' /\ Receipted(a)'
      BY <1>0, <1>6 DEF PublishPrepared, Publishes, TypeOK, Allocating, Recording, Receipted, Unpublished, Recorded, Loadable, NoReceipt
    <2>5. Verified'
      BY <1>0, <1>6 DEF PublishPrepared, Publishes, TypeOK, Allocating, Recording, Verified, Verifies, Unpublished, Recorded, Loadable
    <2> QED
      BY <2>2, <2>3, <2>4, <2>5, StepKeeps
  <1>7. CASE PublishPreparedRaises(a)
    <2>1. \A b \in Attempt \ {a} : at[b] \in Idle
      BY <1>7, Alone DEF PublishPreparedRaises
    <2>2. TypeOK'
      BY <1>0, <1>7 DEF PublishPreparedRaises, PublishRaises, Publishes, TypeOK
    <2>3. Courteous(a)
      BY <1>0, <1>7, <2>1 DEF PublishPreparedRaises, PublishRaises, Publishes, TypeOK, Courteous, Allocating, Recording, Unpublished, Recorded, Loadable
    <2>4. Allocating(a)' /\ Recording(a)' /\ Receipted(a)'
      BY <1>0, <1>7 DEF PublishPreparedRaises, PublishRaises, Publishes, TypeOK, Allocating, Recording, Receipted, Unpublished, Recorded, Loadable, NoReceipt
    <2>5. Verified'
      BY <1>0, <1>7 DEF PublishPreparedRaises, PublishRaises, Publishes, TypeOK, Allocating, Recording, Verified, Verifies, Unpublished, Recorded, Loadable
    <2> QED
      BY <2>2, <2>3, <2>4, <2>5, StepKeeps
  <1>8. CASE CleanDecides(a)
    <2>1. /\ UNCHANGED <<disk, handle, prior, receipt>>
          /\ at[a] = "cleaning" /\ at' \in [Attempt -> At]
          /\ \A b \in Attempt \ {a} : at'[b] = at[b]
          /\ lost \subseteq lost' /\ lost' \subseteq lost \cup {manifest.by}
          /\ \/ at'[a] = "sweeping" /\ (~Recorded \/ manifest.by \in lost')
             \/ at'[a] = "failed" /\ Recorded
      BY <1>0, <1>8, ReclaimFacts DEF CleanDecides
    <2>2. \A b \in Attempt \ {a} : at[b] \in Idle
      BY <2>1, Alone
    <2>3. TypeOK'
      BY <1>0, <2>1 DEF TypeOK
    <2>4. Courteous(a)
      BY <2>1, <2>2 DEF Courteous
    <2>5. Allocating(a)' /\ Recording(a)' /\ Receipted(a)'
      BY <1>0, <2>1 DEF TypeOK, Allocating, Recording, Receipted, Unpublished, Recorded, Loadable, NoReceipt
    <2>6. Verified'
      BY <1>0, <2>1 DEF Verified, Verifies
    <2> QED
      BY <2>3, <2>4, <2>5, <2>6, StepKeeps
  <1>9. CASE CleanRemoves(a)
    <2>1. \A b \in Attempt \ {a} : at[b] \in Idle
      BY <1>9, Alone DEF CleanRemoves
    <2>. NoManifest \in [state : {"none"}, by : {NoOne}]
      OBVIOUS
    <2>2. TypeOK'
      BY <1>0, <1>9 DEF CleanRemoves, Rmtree, RmtreePartly, TypeOK
    <2>3. Courteous(a)
      BY <1>0, <1>9, <2>1 DEF CleanRemoves, Rmtree, RmtreePartly, TypeOK, Courteous, Allocating, Recording, Unpublished, Recorded, Loadable
    <2>4. Allocating(a)' /\ Recording(a)' /\ Receipted(a)'
      BY <1>0, <1>9 DEF CleanRemoves, Rmtree, RmtreePartly, TypeOK, Allocating, Recording, Receipted, Unpublished, Recorded, Loadable, NoReceipt
    <2>5. Verified'
      BY <1>0, <1>9 DEF CleanRemoves, Rmtree, RmtreePartly, TypeOK, Allocating, Recording, Verified, Verifies, Unpublished, Recorded, Loadable
    <2> QED
      BY <2>2, <2>3, <2>4, <2>5, StepKeeps
  <1>10. CASE NothingRan(a)
    <2>1. \A b \in Attempt \ {a} : at[b] \in Idle
      BY <1>10, Alone DEF NothingRan
    <2>2. TypeOK'
      BY <1>0, <1>10 DEF NothingRan, TypeOK
    <2>3. Courteous(a)
      BY <1>0, <1>10, <2>1 DEF NothingRan, TypeOK, Courteous, Allocating, Recording, Unpublished, Recorded, Loadable
    <2>4. Allocating(a)' /\ Recording(a)' /\ Receipted(a)'
      BY <1>0, <1>10 DEF NothingRan, TypeOK, Allocating, Recording, Receipted, Unpublished, Recorded, Loadable, NoReceipt
    <2>5. Verified'
      BY <1>0, <1>10 DEF NothingRan, TypeOK, Allocating, Recording, Verified, Verifies, Unpublished, Recorded, Loadable
    <2> QED
      BY <2>2, <2>3, <2>4, <2>5, StepKeeps
  <1>11. CASE EngineRaises(a)
    <2>1. \A b \in Attempt \ {a} : at[b] \in Idle
      BY <1>11, Alone DEF EngineRaises
    <2>2. TypeOK'
      BY <1>0, <1>11 DEF EngineRaises, TypeOK
    <2>3. Courteous(a)
      BY <1>0, <1>11, <2>1 DEF EngineRaises, TypeOK, Courteous, Allocating, Recording, Unpublished, Recorded, Loadable
    <2>4. Allocating(a)' /\ Recording(a)' /\ Receipted(a)'
      BY <1>0, <1>11 DEF EngineRaises, TypeOK, Allocating, Recording, Receipted, Unpublished, Recorded, Loadable, NoReceipt
    <2>5. Verified'
      BY <1>0, <1>11 DEF EngineRaises, TypeOK, Allocating, Recording, Verified, Verifies, Unpublished, Recorded, Loadable
    <2> QED
      BY <2>2, <2>3, <2>4, <2>5, StepKeeps
  <1>12. CASE MarkRunning(a)
    <2>1. \A b \in Attempt \ {a} : at[b] \in Idle
      BY <1>12, Alone DEF MarkRunning
    <2>2. TypeOK'
      BY <1>0, <1>12 DEF MarkRunning, Publishes, TypeOK
    <2>3. Courteous(a)
      BY <1>0, <1>12, <2>1 DEF MarkRunning, Publishes, TypeOK, Courteous, Allocating, Recording, Unpublished, Recorded, Loadable
    <2>4. Allocating(a)' /\ Recording(a)' /\ Receipted(a)'
      BY <1>0, <1>12 DEF MarkRunning, Publishes, TypeOK, Allocating, Recording, Receipted, Unpublished, Recorded, Loadable, NoReceipt
    <2>5. Verified'
      BY <1>0, <1>12 DEF MarkRunning, Publishes, TypeOK, Allocating, Recording, Verified, Verifies, Unpublished, Recorded, Loadable
    <2> QED
      BY <2>2, <2>3, <2>4, <2>5, StepKeeps
  <1>13. CASE MarkRunningRaises(a)
    <2>1. \A b \in Attempt \ {a} : at[b] \in Idle
      BY <1>13, Alone DEF MarkRunningRaises
    <2>2. TypeOK'
      BY <1>0, <1>13 DEF MarkRunningRaises, PublishRaises, Publishes, TypeOK
    <2>3. Courteous(a)
      BY <1>0, <1>13, <2>1 DEF MarkRunningRaises, PublishRaises, Publishes, TypeOK, Courteous, Allocating, Recording, Unpublished, Recorded, Loadable
    <2>4. Allocating(a)' /\ Recording(a)' /\ Receipted(a)'
      BY <1>0, <1>13 DEF MarkRunningRaises, PublishRaises, Publishes, TypeOK, Allocating, Recording, Receipted, Unpublished, Recorded, Loadable, NoReceipt
    <2>5. Verified'
      BY <1>0, <1>13 DEF MarkRunningRaises, PublishRaises, Publishes, TypeOK, Allocating, Recording, Verified, Verifies, Unpublished, Recorded, Loadable
    <2> QED
      BY <2>2, <2>3, <2>4, <2>5, StepKeeps
  <1>14. CASE ChildEnds(a)
    <2>1. \A b \in Attempt \ {a} : at[b] \in Idle
      BY <1>14, Alone DEF ChildEnds
    <2>2. TypeOK'
      BY <1>0, <1>14 DEF ChildEnds, TypeOK
    <2>3. Courteous(a)
      BY <1>0, <1>14, <2>1 DEF ChildEnds, TypeOK, Courteous, Allocating, Recording, Unpublished, Recorded, Loadable
    <2>4. Allocating(a)' /\ Recording(a)' /\ Receipted(a)'
      BY <1>0, <1>14 DEF ChildEnds, TypeOK, Allocating, Recording, Receipted, Unpublished, Recorded, Loadable, NoReceipt
    <2>5. Verified'
      BY <1>0, <1>14 DEF ChildEnds, TypeOK, Allocating, Recording, Verified, Verifies, Unpublished, Recorded, Loadable
    <2> QED
      BY <2>2, <2>3, <2>4, <2>5, StepKeeps
  <1>15. CASE FinalizeLoads(a)
    <2>1. \A b \in Attempt \ {a} : at[b] \in Idle
      BY <1>15, Alone DEF FinalizeLoads
    <2>2. TypeOK'
      BY <1>0, <1>15 DEF FinalizeLoads, TypeOK
    <2>3. Courteous(a)
      BY <1>0, <1>15, <2>1 DEF FinalizeLoads, TypeOK, Courteous, Allocating, Recording, Unpublished, Recorded, Loadable
    <2>4. Allocating(a)' /\ Recording(a)' /\ Receipted(a)'
      BY <1>0, <1>15 DEF FinalizeLoads, TypeOK, Allocating, Recording, Receipted, Unpublished, Recorded, Loadable, NoReceipt
    <2>5. Verified'
      BY <1>0, <1>15 DEF FinalizeLoads, TypeOK, Allocating, Recording, Verified, Verifies, Unpublished, Recorded, Loadable
    <2> QED
      BY <2>2, <2>3, <2>4, <2>5, StepKeeps
  <1>16. CASE WriteStdout(a)
    <2>1. \A b \in Attempt \ {a} : at[b] \in Idle
      BY <1>16, Alone DEF WriteStdout
    <2>2. TypeOK'
      BY <1>0, <1>16 DEF WriteStdout, TypeOK
    <2>3. Courteous(a)
      BY <1>0, <1>16, <2>1 DEF WriteStdout, TypeOK, Courteous, Allocating, Recording, Unpublished, Recorded, Loadable
    <2>4. Allocating(a)' /\ Recording(a)' /\ Receipted(a)'
      BY <1>0, <1>16 DEF WriteStdout, TypeOK, Allocating, Recording, Receipted, Unpublished, Recorded, Loadable, NoReceipt
    <2>5. Verified'
      BY <1>0, <1>16 DEF WriteStdout, TypeOK, Allocating, Recording, Verified, Verifies, Unpublished, Recorded, Loadable
    <2> QED
      BY <2>2, <2>3, <2>4, <2>5, StepKeeps
  <1>17. CASE WriteStderr(a)
    <2>1. \A b \in Attempt \ {a} : at[b] \in Idle
      BY <1>17, Alone DEF WriteStderr
    <2>2. TypeOK'
      BY <1>0, <1>17 DEF WriteStderr, TypeOK
    <2>3. Courteous(a)
      BY <1>0, <1>17, <2>1 DEF WriteStderr, TypeOK, Courteous, Allocating, Recording, Unpublished, Recorded, Loadable
    <2>4. Allocating(a)' /\ Recording(a)' /\ Receipted(a)'
      BY <1>0, <1>17 DEF WriteStderr, TypeOK, Allocating, Recording, Receipted, Unpublished, Recorded, Loadable, NoReceipt
    <2>5. Verified'
      BY <1>0, <1>17 DEF WriteStderr, TypeOK, Allocating, Recording, Verified, Verifies, Unpublished, Recorded, Loadable
    <2> QED
      BY <2>2, <2>3, <2>4, <2>5, StepKeeps
  <1>18. CASE WriteRaises(a)
    <2>1. \A b \in Attempt \ {a} : at[b] \in Idle
      BY <1>18, Alone DEF WriteRaises
    <2>2. TypeOK'
      BY <1>0, <1>18 DEF WriteRaises, TypeOK
    <2>3. Courteous(a)
      BY <1>0, <1>18, <2>1 DEF WriteRaises, TypeOK, Courteous, Allocating, Recording, Unpublished, Recorded, Loadable
    <2>4. Allocating(a)' /\ Recording(a)' /\ Receipted(a)'
      BY <1>0, <1>18 DEF WriteRaises, TypeOK, Allocating, Recording, Receipted, Unpublished, Recorded, Loadable, NoReceipt
    <2>5. Verified'
      BY <1>0, <1>18 DEF WriteRaises, TypeOK, Allocating, Recording, Verified, Verifies, Unpublished, Recorded, Loadable
    <2> QED
      BY <2>2, <2>3, <2>4, <2>5, StepKeeps
  <1>19. CASE PublishFinalized(a)
    <2>1. \A b \in Attempt \ {a} : at[b] \in Idle
      BY <1>19, Alone DEF PublishFinalized
    <2>2. TypeOK'
      BY <1>0, <1>19 DEF PublishFinalized, Publishes, Complete, TypeOK
    <2>3. Courteous(a)
      BY <1>0, <1>19, <2>1 DEF PublishFinalized, Publishes, Complete, TypeOK, Courteous, Allocating, Recording, Unpublished, Recorded, Loadable
    <2>4. Allocating(a)' /\ Recording(a)' /\ Receipted(a)'
      BY <1>0, <1>19 DEF PublishFinalized, Publishes, Complete, TypeOK, Allocating, Recording, Receipted, Unpublished, Recorded, Loadable, NoReceipt
    <2>5. Verified'
      BY <1>0, <1>19 DEF PublishFinalized, Publishes, Complete, TypeOK, Allocating, Recording, Verified, Verifies, Unpublished, Recorded, Loadable
    <2> QED
      BY <2>2, <2>3, <2>4, <2>5, StepKeeps
  <1>20. CASE PublishFinalizedRaises(a)
    <2>1. \A b \in Attempt \ {a} : at[b] \in Idle
      BY <1>20, Alone DEF PublishFinalizedRaises
    <2>2. TypeOK'
      BY <1>0, <1>20 DEF PublishFinalizedRaises, PublishRaises, Publishes, TypeOK
    <2>3. Courteous(a)
      BY <1>0, <1>20, <2>1 DEF PublishFinalizedRaises, PublishRaises, Publishes, TypeOK, Courteous, Allocating, Recording, Unpublished, Recorded, Loadable
    <2>4. Allocating(a)' /\ Recording(a)' /\ Receipted(a)'
      BY <1>0, <1>20 DEF PublishFinalizedRaises, PublishRaises, Publishes, TypeOK, Allocating, Recording, Receipted, Unpublished, Recorded, Loadable, NoReceipt
    <2>5. Verified'
      BY <1>0, <1>20 DEF PublishFinalizedRaises, PublishRaises, Publishes, TypeOK, Allocating, Recording, Verified, Verifies, Unpublished, Recorded, Loadable
    <2> QED
      BY <2>2, <2>3, <2>4, <2>5, StepKeeps
  <1>21. CASE Degrade(a)
    <2>1. \A b \in Attempt \ {a} : at[b] \in Idle
      BY <1>21, Alone DEF Degrade
    <2>2. TypeOK'
      BY <1>0, <1>21 DEF Degrade, DurableState, Loadable, TypeOK
    <2>3. Courteous(a)
      BY <1>0, <1>21, <2>1 DEF Degrade, DurableState, TypeOK, Courteous, Allocating, Recording, Unpublished, Recorded, Loadable
    <2>4. Allocating(a)' /\ Recording(a)' /\ Receipted(a)'
      BY <1>0, <1>21 DEF Degrade, DurableState, TypeOK, Allocating, Recording, Receipted, Unpublished, Recorded, Loadable, NoReceipt
    <2>5. Verified'
      BY <1>0, <1>21 DEF Degrade, DurableState, TypeOK, Allocating, Recording, Verified, Verifies, Unpublished, Recorded, Loadable
    <2> QED
      BY <2>2, <2>3, <2>4, <2>5, StepKeeps
  <1>22. CASE Crash(a)
    <2>1. \A b \in Attempt \ {a} : at[b] \in Idle
      BY <1>22, Alone DEF Crash
    <2>2. TypeOK'
      BY <1>0, <1>22 DEF Crash, RmtreePartly, TypeOK
    <2>3. Courteous(a)
      BY <1>0, <1>22, <2>1 DEF Crash, RmtreePartly, TypeOK, Courteous, Allocating, Recording, Unpublished, Recorded, Loadable
    <2>4. Allocating(a)' /\ Recording(a)' /\ Receipted(a)'
      BY <1>0, <1>22 DEF Crash, RmtreePartly, TypeOK, Allocating, Recording, Receipted, Unpublished, Recorded, Loadable, NoReceipt
    <2>5. Verified'
      BY <1>0, <1>22 DEF Crash, RmtreePartly, TypeOK, Allocating, Recording, Verified, Verifies, Unpublished, Recorded, Loadable
    <2> QED
      BY <2>2, <2>3, <2>4, <2>5, StepKeeps
  <1> QED
    BY <1>1, <1>2, <1>3, <1>4, <1>5, <1>6, <1>7, <1>8, <1>9, <1>10, <1>11, <1>12, <1>13, <1>14, <1>15, <1>16, <1>17, <1>18, <1>19, <1>20, <1>21, <1>22
       DEF Prepare, Run, Finalize

\* The invariant is inductive.
LEMMA StoreInvStep ==
  ASSUME ~Overlapping, StoreInv, [Next]_vars
  PROVE  StoreInv'
  <1>1. CASE Next
    BY <1>1, StoreInvNext DEF Next
  <1>2. CASE UNCHANGED vars
    BY <1>2 DEF vars, disk, StoreInv, TypeOK, Solo, Allocating, Recording, Receipted, Unpublished,
                Recorded, Loadable, Verified, Verifies
  <1> QED
    BY <1>1, <1>2

-----------------------------------------------------------------------------
(* The theorems.                                                            *)

\* The invariant holds as long as attempts do not overlap: at every moment of every
\* sequence of prepare, mark_running, finalize, failures and crashes.
THEOREM StoreInvariant ==
  ASSUME ~Overlapping
  PROVE  Spec => []StoreInv
  BY StoreInvInit, StoreInvStep, PTL DEF Spec

\* load never meets a finalized record whose sidecars it must reject, unless prepare
\* could not read the record and began to remove it.
THEOREM FinalizedRecordsVerify ==
  ASSUME ~Overlapping
  PROVE  Spec => []FinalizedVerifies
  <1>1. StoreInv => FinalizedVerifies
    BY DEF StoreInv, FinalizedVerifies, Loads, Verified
  <1> QED
    BY <1>1, StoreInvariant, PTL

\* The ranks of the lifecycle.
LEMMA Ranks == Rank("prepared") = 1 /\ Rank("running") = 2 /\ Rank("finalized") = 3
  <1>1. 1 .. 3 = {1, 2, 3}
    OBVIOUS
  <1> QED
    BY <1>1 DEF Rank, Lifecycle

\* The receipts of finalize agree with what is on disk for as long as the record is
\* kept, and never overstate it.
THEOREM ReceiptsAgree ==
  ASSUME ~Overlapping
  PROVE  Spec => []ReceiptsTellDurableState
  <1>1. StoreInv => ReceiptsTellDurableState
    <2> SUFFICES ASSUME StoreInv, NEW a \in Attempt
                 PROVE  /\ a \notin lost =>
                             /\ receipt[a].kind = "complete" => manifest = Manifest("finalized", a)
                             /\ receipt[a].kind = "degraded" =>
                                  /\ Rank(receipt[a].latest) <= Rank(manifest.state)
                                  /\ receipt[a].read => receipt[a].latest = manifest.state
                        /\ receipt[a] # NoReceipt /\ prior[a] => receipt[a].kind = "degraded"
      BY DEF ReceiptsTellDurableState
    <2>1. Receipted(a) /\ TypeOK
      BY DEF StoreInv
    <2>2. receipt[a] = NoReceipt => receipt[a].kind = "none"
      BY DEF NoReceipt
    <2>3. ASSUME a \notin lost, receipt[a].kind = "complete"
          PROVE  manifest = Manifest("finalized", a)
      BY <2>1, <2>2, <2>3 DEF Receipted, TypeOK, Manifest
    <2>4. ASSUME a \notin lost, receipt[a].kind = "degraded"
          PROVE  /\ Rank(receipt[a].latest) <= Rank(manifest.state)
                 /\ receipt[a].read => receipt[a].latest = manifest.state
      <3>1. Loadable
        BY <2>1, <2>2, <2>4 DEF Receipted
      <3>2. CASE receipt[a].latest = manifest.state
        BY <3>1, <3>2, Ranks DEF Loadable
      <3>3. CASE /\ ~receipt[a].read /\ receipt[a].latest \in {"prepared", "running"}
                 /\ receipt[a].latest = "running" => manifest.state # "prepared"
        BY <3>1, <3>3, Ranks DEF Loadable
      <3> QED
        BY <2>1, <2>2, <2>4, <3>2, <3>3 DEF Receipted
    <2> QED
      BY <2>1, <2>3, <2>4 DEF Receipted
  <1> QED
    BY <1>1, StoreInvariant, PTL

\* What a step may do to the manifest: nothing, replace or remove one that may be
\* reclaimed or could not be read, or move the record of the attempt that makes the
\* step forward.
ManifestStep ==
  \/ UNCHANGED <<dir, manifest>>
  \/ ~Recorded
  \/ manifest.by \in lost
  \/ /\ manifest.state \in {"prepared", "running"}
     /\ manifest'.state \in {"running", "finalized"}
     /\ manifest'.by = manifest.by

\* Nothing else happens to it.
LEMMA ManifestSteps ==
  ASSUME StoreInv, [Next]_vars
  PROVE  ManifestStep
  <1>1. CASE UNCHANGED vars
    BY <1>1 DEF vars, disk, ManifestStep
  <1>2. ASSUME NEW a \in Attempt,
               Begin(a) \/ Prepare(a) \/ Run(a) \/ Finalize(a) \/ Crash(a)
        PROVE  ManifestStep
    <2>1. TypeOK /\ Allocating(a) /\ Recording(a)
      BY DEF StoreInv
    <2>2. CASE Allocate(a) \/ AllocateAgain(a)
      BY <2>1, <2>2 DEF Allocate, AllocateAgain, Mkdir, disk, ManifestStep, TypeOK, Recorded,
                        Loadable, NoManifest, Manifest
    <2>3. CASE ReclaimRemoves(a) \/ CleanRemoves(a)
      BY <2>1, <2>3 DEF ReclaimRemoves, CleanRemoves, Moves, ManifestStep, Allocating
    <2>4. CASE PublishPrepared(a) \/ PublishPreparedRaises(a)
      BY <2>1, <2>4 DEF PublishPrepared, PublishPreparedRaises, Moves, ManifestStep, Allocating,
                        Recorded, Loadable, NoManifest, Manifest
    <2>5. CASE MarkRunning(a) \/ MarkRunningRaises(a)
      BY <2>1, <2>5 DEF MarkRunning, MarkRunningRaises, PublishRaises, Publishes, disk, Moves,
                        ManifestStep, Recording, Prepared, Loadable, Manifest
    <2>6. CASE PublishFinalized(a) \/ PublishFinalizedRaises(a)
      BY <2>1, <2>6 DEF PublishFinalized, PublishFinalizedRaises, PublishRaises, Publishes, disk,
                        Moves, ManifestStep, Recording, Prepared, Loadable, Manifest
    <2>7. CASE Crash(a)
      BY <2>1, <2>7 DEF Crash, ManifestStep, Allocating
    <2>8. CASE \/ Begin(a) \/ ReclaimDecides(a) \/ CleanDecides(a) \/ NothingRan(a)
               \/ EngineRaises(a) \/ ChildEnds(a) \/ FinalizeLoads(a) \/ WriteStdout(a)
               \/ WriteStderr(a) \/ WriteRaises(a) \/ Degrade(a)
      BY <2>8 DEF Begin, ReclaimDecides, CleanDecides, Reclaim, NothingRan, EngineRaises, ChildEnds,
                  FinalizeLoads, WriteStdout, WriteStderr, WriteRaises, Degrade, disk, ManifestStep
    <2> QED
      BY <1>2, <2>2, <2>3, <2>4, <2>5, <2>6, <2>7, <2>8 DEF Prepare, Run, Finalize
  <1> QED
    BY <1>1, <1>2 DEF Next

\* A record that loads is never deleted, set back or taken over, unless prepare could
\* not read it: reclaiming, failing publishes and crashes included.
THEOREM RecordsMoveForward ==
  ASSUME ~Overlapping
  PROVE  Spec => LifecycleMovesForward
  <1>1. StoreInv /\ [Next]_vars =>
          [Loadable /\ manifest.by \notin lost =>
             /\ Loadable'
             /\ Rank(manifest.state) <= Rank(manifest'.state)
             /\ manifest'.by = manifest.by]_vars
    <2> SUFFICES ASSUME StoreInv, [Next]_vars, Loadable, manifest.by \notin lost
                 PROVE  /\ Loadable'
                        /\ Rank(manifest.state) <= Rank(manifest'.state)
                        /\ manifest'.by = manifest.by
      OBVIOUS
    <2>1. ManifestStep
      BY ManifestSteps
    <2> QED
      BY <2>1, Ranks DEF ManifestStep, Recorded, Loadable
  <1> QED
    BY <1>1, StoreInvariant, PTL DEF Spec, LifecycleMovesForward

\* A record of another schema version is never touched, unless prepare could not
\* read it.
THEOREM ForeignRecordsKept ==
  ASSUME ~Overlapping
  PROVE  Spec => ForeignPreserved
  <1>1. StoreInv /\ [Next]_vars => [NoOne \notin lost => KeepsForeign]_vars
    <2> SUFFICES ASSUME StoreInv, [Next]_vars, NoOne \notin lost, manifest.state = "foreign"
                 PROVE  UNCHANGED <<dir, manifest>>
      BY DEF KeepsForeign
    <2>1. ManifestStep
      BY ManifestSteps
    <2>2. manifest.by = NoOne
      BY DEF StoreInv
    <2> QED
      BY <2>1, <2>2 DEF ManifestStep, Recorded, Loadable
  <1> QED
    BY <1>1, StoreInvariant, PTL DEF Spec, ForeignPreserved

\* _allocate turns an attempt away only because of a record.
THEOREM RefusalsAreJustified ==
  ASSUME ~Overlapping
  PROVE  Spec => RefusedOnlyByARecord
  <1>1. StoreInv /\ [Next]_vars =>
          [\A a \in Attempt : at[a] # "refused" /\ at'[a] = "refused" => Recorded]_vars
    <2> SUFFICES ASSUME StoreInv, [Next]_vars, NEW b \in Attempt, at[b] # "refused",
                        at'[b] = "refused"
                 PROVE  Recorded
      OBVIOUS
    <2>1. TypeOK
      BY DEF StoreInv
    <2>2. Next
      BY DEF vars
    <2>3. PICK a \in Attempt : Begin(a) \/ Prepare(a) \/ Run(a) \/ Finalize(a) \/ Crash(a)
      BY <2>2 DEF Next
    <2>4. CASE AllocateAgain(a)
      <3>1. dir /\ at[a] = "retrying"
        BY <2>1, <2>4 DEF AllocateAgain, Moves, TypeOK
      <3> QED
        BY <3>1 DEF StoreInv, Allocating
    <2>5. CASE ReclaimDecides(a) \/ CleanDecides(a)
      BY <2>1, <2>5 DEF ReclaimDecides, CleanDecides, Reclaim, Moves, TypeOK
    <2>6. CASE ~(AllocateAgain(a) \/ ReclaimDecides(a) \/ CleanDecides(a))
      BY <2>1, <2>3, <2>6 DEF Prepare, Run, Finalize, Begin, Allocate, ReclaimRemoves,
           PublishPrepared, PublishPreparedRaises, CleanRemoves, NothingRan, EngineRaises,
           MarkRunning, MarkRunningRaises, ChildEnds, FinalizeLoads, WriteStdout, WriteStderr,
           WriteRaises, PublishFinalized, PublishFinalizedRaises, Degrade, Crash, Moves, TypeOK
    <2> QED
      BY <2>4, <2>5, <2>6
  <1> QED
    BY <1>1, StoreInvariant, PTL DEF Spec, RefusedOnlyByARecord
=============================================================================
