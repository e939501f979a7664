---------------------------- MODULE MCSourceIngest ----------------------------
(* Submission of GFS and of MRMS frames, for TLC.  The two ingest Lambdas     *)
(* share no state: a behaviour is one of GfsIngest or one of MrmsIngest, and  *)
(* subject says which.                                                        *)
EXTENDS GfsIngest, TLC

CONSTANTS before, after, BatchSize, MaxReceives,
          MrmsFrames, MrmsMessage, HasMrmsWork      \* Frames, Message, HasWork of MrmsIngest

WorkloadFramesOf == before :> {0} @@ after :> {0, 3}
HasWorkIn == before :> TRUE @@ after :> TRUE
HasMrmsWorkIn == before :> TRUE @@ after :> FALSE
MrmsMessages == [frame : {1, 2}, copy : {1}]

ASSUME MrmsAssumption == \A m \in MrmsMessage : m.frame \in MrmsFrames

VARIABLES
    subject,
    mDeployed, mPlace, mReceives, mBatch, mTodo, mAt, mCfg, mStep, mSnapshot, mClaim,
    mRunning, mDone, mFailed, mOrphaned, mFaults, mDeploys

Mrms == INSTANCE MrmsIngest WITH
    Frames <- MrmsFrames, Message <- MrmsMessage, HasWork <- HasMrmsWork,
    deployed <- mDeployed, place <- mPlace, receives <- mReceives, batch <- mBatch,
    todo <- mTodo, at <- mAt, cfg <- mCfg, step <- mStep, snapshot <- mSnapshot,
    claim <- mClaim, running <- mRunning, done <- mDone, failed <- mFailed,
    orphaned <- mOrphaned, faults <- mFaults, deploys <- mDeploys

mrmsVars == <<mDeployed, mPlace, mReceives, mBatch, mTodo, mAt, mCfg, mStep, mSnapshot, mClaim,
              mRunning, mDone, mFailed, mOrphaned, mFaults, mDeploys>>
all == <<subject, vars, mrmsVars>>

Gfs(A) == subject = "gfs" /\ A /\ UNCHANGED <<subject, mrmsVars>>
OfMrms(A) == subject = "mrms" /\ A /\ UNCHANGED <<subject, vars>>

IngestInit == subject \in {"gfs", "mrms"} /\ Init /\ Mrms!Init

IngestNext == Gfs(Next) \/ OfMrms(Mrms!Next)

IngestSpec ==
    /\ IngestInit
    /\ [][IngestNext]_all
    /\ \A i \in Invocations : WF_all(Gfs(Handle(i)))
    /\ WF_all(Gfs(Job))

\* The property of MrmsIngest: no message about a wanted frame disappears without a job
\* (mrms_ingest_lambda.py:122-142).
DeletedMessagesAreInHand == Mrms!DeletedMessagesAreInHand
=============================================================================
