------------------------------ MODULE RunStore ------------------------------
(***************************************************************************)
(* DirectoryRunStore of recording/store.py: the durable record of a job,    *)
(* and the recording half of an attempt of execution/engine.py.             *)
(*                                                                          *)
(* A JobId names one record directory, so one directory is modelled, with   *)
(* several attempts for its job: a later attempt replays an earlier one     *)
(* that crashed or failed and, with Overlapping, may run beside it.  Each   *)
(* file operation is a step: a crash, and an overlapping attempt, falls     *)
(* between any two of them.  Each may fail, a read of the manifest too: a   *)
(* failed read of a whole manifest looks like that of a broken one.         *)
(*                                                                          *)
(* DocumentDirectory is an external library.  Its publish replaces the      *)
(* manifest atomically; when it raises, the manifest may or may not have    *)
(* been replaced (its ReplacementState), and so both are possible here.     *)
(***************************************************************************)
EXTENDS Naturals

CONSTANTS Attempt,
          NoOne,        \* wrote a file that no attempt of this version wrote
          Overlapping   \* may attempts for the job overlap

ASSUME AttemptAssumption == NoOne \notin Attempt /\ Overlapping \in BOOLEAN

VARIABLES
  dir,       \* does the record directory exist
  manifest,  \* record.json: its lifecycle state and whose result it holds
  stdout,    \* stdout.bin: whose output it holds in full
  stderr,
  at,        \* where each attempt stands
  handle,    \* the durable_state of the PreparedRun or RunningRun it holds
  prior,     \* has its mark_running failed
  receipt,   \* the receipt it returned, and whether its latest state was read
  lost       \* whose records prepare has chosen to remove for a failed read
             \* (history); NoOne stands for the record of another schema

disk == <<dir, manifest, stdout, stderr>>
vars == <<disk, at, handle, prior, receipt, lost>>

Lifecycle == <<"prepared", "running", "finalized">>
Manifest(s, a) == [state |-> s, by |-> a]
NoManifest == Manifest("none", NoOne)

\* _load_record returns a record: not missing, not torn, not another schema.
Loadable == manifest.state \in {"prepared", "running", "finalized"}

\* A record, of this schema version or of another.
Recorded == Loadable \/ manifest.state = "foreign"

\* _verify_sidecars: both are the ones the manifest describes.
Verifies == stdout = manifest.by /\ stderr = manifest.by

\* load returns a record.
Loads == Loadable /\ (manifest.state = "finalized" => Verifies)

Idle == {"idle", "failed", "refused", "done", "crashed"}
Prepared == {"prepared", "running", "loading", "stdout", "stderr", "finalizing",
             "degrading"}
At == Idle \cup Prepared \cup {"allocating", "reclaiming", "removing", "retrying",
                              "publishing", "cleaning", "sweeping"}

\* The state has its types, a missing directory holds nothing, and whoever is
\* past prepare holds a handle.
TypeOK ==
  /\ dir \in BOOLEAN
  /\ manifest \in [state : {"none", "torn", "foreign", "prepared", "running", "finalized"},
                   by : Attempt \cup {NoOne}]
  /\ ~dir => <<manifest, stdout, stderr>> = <<NoManifest, NoOne, NoOne>>
  /\ stdout \in Attempt \cup {NoOne}
  /\ stderr \in Attempt \cup {NoOne}
  /\ at \in [Attempt -> At]
  /\ handle \in [Attempt -> {"none", "prepared", "running"}]
  /\ \A a \in Attempt : at[a] \in Prepared => handle[a] # "none"
  /\ prior \in [Attempt -> BOOLEAN]
  /\ receipt \in [Attempt -> [kind : {"none", "complete", "degraded"},
                              latest : {"none", "prepared", "running", "finalized"},
                              read : BOOLEAN]]
  /\ lost \subseteq Attempt \cup {NoOne}

NoReceipt == [kind |-> "none", latest |-> "none", read |-> FALSE]

\* Nothing there, an orphan directory, or a manifest of another schema version.
Init ==
  /\ dir \in BOOLEAN
  /\ manifest \in {NoManifest} \cup (IF dir THEN {Manifest("torn", NoOne), Manifest("foreign", NoOne)}
                                            ELSE {})
  /\ stdout = NoOne
  /\ stderr = NoOne
  /\ at = [a \in Attempt |-> "idle"]
  /\ handle = [a \in Attempt |-> "none"]
  /\ prior = [a \in Attempt |-> FALSE]
  /\ receipt = [a \in Attempt |-> NoReceipt]
  /\ lost = {}

-----------------------------------------------------------------------------
(* Helpers.                                                                 *)

Moves(a, from, to) == at[a] = from /\ at' = [at EXCEPT ![a] = to]

Quiet == UNCHANGED <<handle, prior, receipt, lost>>

\* DocumentDirectory.publish: it can succeed only while the directory is there.
Publishes(state, by) ==
  /\ dir
  /\ manifest' = Manifest(state, by)
  /\ UNCHANGED <<dir, stdout, stderr>>

PublishRaises(state, by) == UNCHANGED disk \/ Publishes(state, by)

\* Faulty variant: only a finalized record keeps its directory.
ReclaimsUnfinished(first, second) ==
  /\ ~(first /\ manifest.state = "finalized")
  /\ ~(second /\ manifest.state = "foreign")

\* Faulty variant: any manifest that does not load is reclaimed.
ReclaimsForeign(first, second) == ~(first /\ Loadable)

\* Faulty variant: a directory without a manifest is kept.
ReclaimsTorn(first, second) == manifest.state = "torn"

\* _reclaim_unprepared_allocation, which reads the manifest twice, each time with
\* success or without: what does not load goes, unless it is then found to name
\* another schema version.
Reclaims(first, second) ==
  /\ ~(first /\ Loadable)
  /\ ~(second /\ manifest.state = "foreign")

\* A record is not recognised because the read that would have told failed.
Misread(first, second) ==
  \/ Loadable /\ ~first
  \/ manifest.state = "foreign" /\ ~second

\* The decision of a reclaim.
Reclaim(a, from, goes, stays) ==
  \E first, second \in BOOLEAN :
    /\ Moves(a, from, IF Reclaims(first, second) THEN goes ELSE stays)
    /\ lost' = IF Misread(first, second) THEN lost \cup {manifest.by} ELSE lost
    /\ UNCHANGED <<disk, handle, prior, receipt>>

-----------------------------------------------------------------------------
(* prepare.                                                                 *)

\* run_blocking begins: the declaration is valid, so prepare is reached.
Begin(a) ==
  /\ Overlapping \/ \A b \in Attempt : at[b] \in Idle
  /\ Moves(a, "idle", "allocating")
  /\ UNCHANGED disk /\ Quiet

Mkdir ==
  /\ ~dir
  /\ dir' = TRUE
  /\ UNCHANGED <<manifest, stdout, stderr>>

\* _allocate: FileExistsError leads to the reclaim.
Allocate(a) ==
  /\ \/ Mkdir /\ Moves(a, "allocating", "publishing")
     \/ dir /\ UNCHANGED disk /\ Moves(a, "allocating", "reclaiming")
     \/ UNCHANGED disk /\ Moves(a, "allocating", "failed")
  /\ Quiet

\* The decision and the rmtree are two steps.
ReclaimDecides(a) == Reclaim(a, "reclaiming", "removing", "retrying")

Rmtree ==
  /\ dir
  /\ dir' = FALSE
  /\ manifest' = NoManifest
  /\ stdout' = NoOne
  /\ stderr' = NoOne

\* rmtree cut short by an error or a crash: any of the files may be gone.
RmtreePartly ==
  /\ manifest' \in {manifest, NoManifest}
  /\ stdout' \in {stdout, NoOne}
  /\ stderr' \in {stderr, NoOne}
  /\ UNCHANGED dir

\* A foreign record that is gone needs no remembering: no receipt is about it.
ReclaimRemoves(a) ==
  /\ \/ Rmtree /\ Moves(a, "removing", "retrying") /\ lost' = lost \ {NoOne}
     \/ RmtreePartly /\ Moves(a, "removing", "failed") /\ UNCHANGED lost
  /\ UNCHANGED <<handle, prior, receipt>>

AllocateAgain(a) ==
  /\ \/ Mkdir /\ Moves(a, "retrying", "publishing")
     \/ dir /\ UNCHANGED disk /\ Moves(a, "retrying", "refused")
     \/ UNCHANGED disk /\ Moves(a, "retrying", "failed")
  /\ Quiet

PublishPrepared(a) ==
  /\ Publishes("prepared", a)
  /\ Moves(a, "publishing", "prepared")
  /\ handle' = [handle EXCEPT ![a] = "prepared"]
  /\ UNCHANGED <<prior, receipt, lost>>

\* A failed publish reclaims the allocation before it raises.
PublishPreparedRaises(a) ==
  /\ PublishRaises("prepared", a)
  /\ Moves(a, "publishing", "cleaning")
  /\ Quiet

CleanDecides(a) == Reclaim(a, "cleaning", "sweeping", "failed")

CleanRemoves(a) ==
  /\ Rmtree \/ RmtreePartly
  /\ Moves(a, "sweeping", "failed")
  /\ Quiet

-----------------------------------------------------------------------------
(* The attempt between prepare and finalize.                                *)

\* Cancelled before the spawn, or a spawn outcome: finalized from prepared.
NothingRan(a) ==
  /\ Moves(a, "prepared", "loading")
  /\ UNCHANGED disk /\ Quiet

\* The bootstrap could not be started, or the engine raised: no result.
EngineRaises(a) ==
  /\ at[a] \in {"prepared", "running"}
  /\ at' = [at EXCEPT ![a] = "failed"]
  /\ UNCHANGED disk /\ Quiet

\* mark_running publishes from the handle, without loading what is there.
MarkRunning(a) ==
  /\ Publishes("running", a)
  /\ Moves(a, "prepared", "running")
  /\ handle' = [handle EXCEPT ![a] = "running"]
  /\ UNCHANGED <<prior, receipt, lost>>

\* A failure is remembered for the receipt, and the child runs on.
MarkRunningRaises(a) ==
  /\ PublishRaises("running", a)
  /\ Moves(a, "prepared", "running")
  /\ prior' = [prior EXCEPT ![a] = TRUE]
  /\ UNCHANGED <<handle, receipt, lost>>

ChildEnds(a) ==
  /\ Moves(a, "running", "loading")
  /\ UNCHANGED disk /\ Quiet

-----------------------------------------------------------------------------
(* finalize.                                                                *)

\* _publish_finalized loads the record and refuses a finalized one.
FinalizeLoads(a) ==
  /\ \E read \in BOOLEAN :
       Moves(a, "loading", IF read /\ Loadable /\ manifest.state # "finalized"
                           THEN "stdout" ELSE "degrading")
  /\ UNCHANGED disk /\ Quiet

\* _write_sidecar.
WriteStdout(a) ==
  /\ dir
  /\ stdout' = a
  /\ Moves(a, "stdout", "stderr")
  /\ UNCHANGED <<dir, manifest, stderr>> /\ Quiet

\* Faulty variant: the manifest is published before the second sidecar.
SkipStderr(a) ==
  /\ dir
  /\ Moves(a, "stderr", "finalizing")
  /\ UNCHANGED disk /\ Quiet

WriteStderr(a) ==
  /\ dir
  /\ stderr' = a
  /\ Moves(a, "stderr", "finalizing")
  /\ UNCHANGED <<dir, manifest, stdout>> /\ Quiet

\* A sidecar that fails leaves a file that nobody's manifest describes.
WriteRaises(a) ==
  /\ \/ /\ Moves(a, "stdout", "degrading")
        /\ stdout' \in {stdout, NoOne} /\ UNCHANGED stderr
     \/ /\ Moves(a, "stderr", "degrading")
        /\ stderr' \in {stderr, NoOne} /\ UNCHANGED stdout
  /\ UNCHANGED <<dir, manifest>> /\ Quiet

\* _finalized_receipt: a complete record with an earlier failure degrades.
Complete(a) ==
  [kind |-> IF prior[a] THEN "degraded" ELSE "complete", latest |-> "finalized",
   read |-> TRUE]

PublishFinalized(a) ==
  /\ Publishes("finalized", a)
  /\ Moves(a, "finalizing", "done")
  /\ receipt' = [receipt EXCEPT ![a] = Complete(a)]
  /\ UNCHANGED <<handle, prior, lost>>

PublishFinalizedRaises(a) ==
  /\ PublishRaises("finalized", a)
  /\ Moves(a, "finalizing", "degrading")
  /\ Quiet

\* Faulty variant: the receipt repeats what the handle knows.
HandleState(a, read) == handle[a]

\* _durable_state: what loads now, or else what the handle proves.
DurableState(a, read) == IF read /\ Loadable THEN manifest.state ELSE handle[a]

Degrade(a) ==
  /\ Moves(a, "degrading", "done")
  /\ \E read \in BOOLEAN :
       receipt' = [receipt EXCEPT ![a] =
                     [kind |-> "degraded", latest |-> DurableState(a, read), read |-> read]]
  /\ UNCHANGED <<disk, handle, prior, lost>>

-----------------------------------------------------------------------------
\* The process of the attempt dies; what it was writing or removing is cut short.
Crash(a) ==
  /\ at[a] \notin Idle
  /\ at' = [at EXCEPT ![a] = "crashed"]
  /\ IF at[a] \in {"removing", "sweeping"}
     THEN RmtreePartly
     ELSE /\ stdout' \in {stdout} \cup (IF at[a] = "stdout" THEN {NoOne} ELSE {})
          /\ stderr' \in {stderr} \cup (IF at[a] = "stderr" THEN {NoOne} ELSE {})
          /\ UNCHANGED <<dir, manifest>>
  /\ Quiet

Prepare(a) ==
  \/ Allocate(a) \/ ReclaimDecides(a) \/ ReclaimRemoves(a) \/ AllocateAgain(a)
  \/ PublishPrepared(a) \/ PublishPreparedRaises(a) \/ CleanDecides(a) \/ CleanRemoves(a)

Run(a) ==
  NothingRan(a) \/ EngineRaises(a) \/ MarkRunning(a) \/ MarkRunningRaises(a) \/ ChildEnds(a)

Finalize(a) ==
  \/ FinalizeLoads(a) \/ WriteStdout(a) \/ WriteStderr(a) \/ WriteRaises(a)
  \/ PublishFinalized(a) \/ PublishFinalizedRaises(a) \/ Degrade(a)

Next == \E a \in Attempt : Begin(a) \/ Prepare(a) \/ Run(a) \/ Finalize(a) \/ Crash(a)

Spec == Init /\ [][Next]_vars

-----------------------------------------------------------------------------
(* Properties.                                                              *)

Rank(state) == IF \E i \in 1 .. 3 : Lifecycle[i] = state
               THEN CHOOSE i \in 1 .. 3 : Lifecycle[i] = state
               ELSE 0

\* A record that loads is never deleted, replaced by an earlier state of the
\* lifecycle or taken over by another attempt, unless prepare could not read it.
LifecycleMovesForward ==
  [][Loadable /\ manifest.by \notin lost =>
       /\ Loadable'
       /\ Rank(manifest.state) <= Rank(manifest'.state)
       /\ manifest'.by = manifest.by]_vars

\* load returns every record whose manifest is whole, after any crash: recovery
\* never sees a finalized record whose sidecars it must reject, unless prepare
\* began to remove one it could not read.
FinalizedVerifies == Loadable /\ manifest.by \notin lost => Loads

KeepsForeign == manifest.state = "foreign" => UNCHANGED <<dir, manifest>>

\* A record of another schema version is preserved, if it can be read.
ForeignPreserved == [][NoOne \notin lost => KeepsForeign]_vars

\* The contract says so without condition.
ForeignAlwaysPreserved == [][KeepsForeign]_vars

\* A receipt tells the latest durable state as long as the record is kept: complete
\* when and only when this attempt's result is finalized and nothing went wrong; a
\* degraded one never overstates what is on disk, and understates it only if the
\* record could not be read.
ReceiptsTellDurableState ==
  \A a \in Attempt :
    /\ a \notin lost =>
         /\ receipt[a].kind = "complete" => manifest = Manifest("finalized", a)
         /\ receipt[a].kind = "degraded" =>
              /\ Rank(receipt[a].latest) <= Rank(manifest.state)
              /\ receipt[a].read => receipt[a].latest = manifest.state
    /\ receipt[a] # NoReceipt /\ prior[a] => receipt[a].kind = "degraded"

\* An attempt is turned away only by a record: an orphan directory, torn
\* manifest or crashed allocation never blocks the job.
RefusedOnlyByARecord ==
  [][\A a \in Attempt : at[a] # "refused" /\ at'[a] = "refused" => Recorded]_vars
=============================================================================
