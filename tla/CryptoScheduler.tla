--------------------------- MODULE CryptoScheduler ---------------------------
(***************************************************************************)
(* The device operations of the crypto scheduler PMD                       *)
(* (src/dpdk-17.02/drivers/crypto/scheduler/scheduler_pmd_ops.c): start,   *)
(* stop and close of the scheduler and of its slave devices, queue-pair    *)
(* setup and release with their reorder buffers, and the per-slave         *)
(* sessions of a scheduler session.  Every call that can fail in the code  *)
(* (rte_reorder_create, slave_attach, scheduler_start, a slave's           *)
(* dev_start or dev_close, config_queue_pair, a slave session create) is   *)
(* an input of the action: the index at which it fails, or none.           *)
(*                                                                         *)
(* The generic cryptodev layer, which is not part of this tree, calls      *)
(* dev_start only when dev_started is 0 and sets it on success, calls      *)
(* dev_stop only when it is 1 and clears it, and refuses dev_close and     *)
(* queue-pair setup or release while it is 1; those are the guards here.   *)
(***************************************************************************)
EXTENDS Naturals

CONSTANTS
    NbSlaves,      \* sched_ctx->nb_slaves
    NbQPs,         \* dev->data->nb_queue_pairs
    ModeSet,       \* sched_ctx->mode != CDEV_SCHED_MODE_NOT_SET
    Reordering     \* sched_ctx->reordering_enabled

Slaves == 1..NbSlaves
QPs == 1..NbQPs
NoFail == 0

\* update_reorder_buff gives a queue pair a reorder buffer exactly when
\* reordering is on and there is a slave to size it by.
ReorderWanted == Reordering /\ NbSlaves > 0

\* Mutant: the loop runs i <= nb_slaves.
LoopReachedPastEnd(f) == IF f = NoFail THEN 1..(NbSlaves + 1) ELSE 1..(f - 1)

\* Mutant: the loop stops one slave early, i < nb_slaves - 1.
LoopReachedShort(f) == IF f = NoFail THEN 1..(NbSlaves - 1) ELSE 1..(f - 1)

(* The slaves a loop for (i = 0; i < nb_slaves; i++) over sched_ctx->slaves *)
(* has done its call on when the call for slave f fails and the loop       *)
(* returns; all of them when no call fails.                                *)
LoopReached(f) == IF f = NoFail THEN Slaves ELSE 1..(f - 1)

VARIABLES
    devStarted,    \* dev->data->dev_started
    attached,      \* slaves the mode's slave_attach has taken
    schedRunning,  \* the mode's scheduler_start ran, scheduler_stop not yet
    slaveRun,      \* each slave device: "stopped", "started" or "closed"
    qpCtx,         \* dev->data->queue_pairs[q] != NULL
    reorderBuf,    \* qp_ctx->reorder_buf != NULL
    privQp,        \* qp_ctx->private_qp_ctx != NULL
    ctxFreed,      \* sched_ctx->private_ctx and capabilities were freed
    doubleFree,    \* ghost: one of them was freed a second time
    sess           \* sess->sessions[i] != NULL of one scheduler session

vars == <<devStarted, attached, schedRunning, slaveRun, qpCtx, reorderBuf,
          privQp, ctxFreed, doubleFree, sess>>

(* The device after configure and the setup of every queue pair.           *)
Init ==
    /\ devStarted = FALSE
    /\ attached = {}
    /\ schedRunning = FALSE
    /\ slaveRun = [s \in Slaves |-> "stopped"]
    /\ qpCtx = [q \in QPs |-> TRUE]
    /\ reorderBuf = [q \in QPs |-> FALSE]
    /\ privQp = [q \in QPs |-> TRUE]
    /\ ctxFreed = FALSE
    /\ doubleFree = FALSE
    /\ sess = [i \in Slaves |-> FALSE]

-----------------------------------------------------------------------------
(* scheduler_pmd_start.  The reorder buffers of queue pairs below          *)
(* failReorder are rebuilt; at failReorder the old one is freed and the    *)
(* new one fails.  Then the mode and slave-count checks, slave_attach of   *)
(* every slave up to failAttach, scheduler_start, and the dev_start of     *)
(* every slave up to failStart.  Nothing done before a failure is undone.  *)
(* The cryptodev layer sets dev_started only when every step succeeded.    *)
SchedulerPmdStart(failReorder, failAttach, failSched, failStart) ==
    /\ ~devStarted
    /\ \A q \in QPs : qpCtx[q]
    /\ failReorder # NoFail => ReorderWanted
    /\ LET reorderOK == failReorder = NoFail
           checksOK  == reorderOK /\ ModeSet /\ NbSlaves > 0
           attachOK  == checksOK /\ failAttach = NoFail
           schedOK   == attachOK /\ ~failSched
           startOK   == schedOK /\ failStart = NoFail
       IN  /\ reorderBuf' = [q \in QPs |->
                   IF reorderOK \/ q < failReorder THEN ReorderWanted
                   ELSE IF q = failReorder THEN FALSE ELSE reorderBuf[q]]
           /\ attached' = IF checksOK THEN attached \cup LoopReached(failAttach)
                          ELSE attached
           /\ schedRunning' = (schedRunning \/ schedOK)
           /\ slaveRun' = [s \in Slaves |->
                   IF schedOK /\ s \in LoopReached(failStart) THEN "started"
                   ELSE slaveRun[s]]
           /\ devStarted' = startOK
    /\ UNCHANGED <<qpCtx, privQp, ctxFreed, doubleFree, sess>>

(* scheduler_pmd_stop: every slave's dev_stop, scheduler_stop, then        *)
(* slave_detach of every slave; the cryptodev layer clears dev_started.    *)
SchedulerPmdStop ==
    /\ devStarted
    /\ slaveRun' = [s \in Slaves |->
                       IF slaveRun[s] = "started" THEN "stopped" ELSE slaveRun[s]]
    /\ schedRunning' = FALSE
    /\ attached' = {}
    /\ devStarted' = FALSE
    /\ UNCHANGED <<qpCtx, reorderBuf, privQp, ctxFreed, doubleFree, sess>>

(* scheduler_pmd_close: dev_close of every slave, stopping at the first    *)
(* that fails (failClose); then the reorder buffers and private contexts   *)
(* of the queue pairs are freed and cleared, and private_ctx and           *)
(* capabilities are freed without being cleared.                           *)
SchedulerPmdClose(failClose) ==
    /\ ~devStarted
    /\ slaveRun' = [s \in Slaves |->
                       IF s \in LoopReached(failClose) THEN "closed"
                       ELSE slaveRun[s]]
    /\ IF failClose = NoFail
       THEN /\ reorderBuf' = [q \in QPs |-> FALSE]
            /\ privQp' = [q \in QPs |-> FALSE]
            /\ doubleFree' = (doubleFree \/ ctxFreed)
            /\ ctxFreed' = TRUE
       ELSE UNCHANGED <<reorderBuf, privQp, ctxFreed, doubleFree>>
    /\ UNCHANGED <<devStarted, attached, schedRunning, qpCtx, sess>>

(* scheduler_pmd_qp_release: frees the queue pair and what it holds.       *)
SchedulerPmdQpRelease(q) ==
    /\ ~devStarted
    /\ qpCtx[q]
    /\ qpCtx' = [qpCtx EXCEPT ![q] = FALSE]
    /\ reorderBuf' = [reorderBuf EXCEPT ![q] = FALSE]
    /\ privQp' = [privQp EXCEPT ![q] = FALSE]
    /\ UNCHANGED <<devStarted, attached, schedRunning, slaveRun, ctxFreed,
                   doubleFree, sess>>

(* scheduler_pmd_qp_setup: release the old queue pair, allocate a zeroed   *)
(* one, then the mode's config_queue_pair, whose failure leaves the new    *)
(* queue pair in place without its private context.                        *)
SchedulerPmdQpSetup(q, configFails) ==
    /\ ~devStarted
    /\ qpCtx' = [qpCtx EXCEPT ![q] = TRUE]
    /\ reorderBuf' = [reorderBuf EXCEPT ![q] = FALSE]
    /\ privQp' = [privQp EXCEPT ![q] = ~configFails]
    /\ UNCHANGED <<devStarted, attached, schedRunning, slaveRun, ctxFreed,
                   doubleFree, sess>>

-----------------------------------------------------------------------------
RECURSIVE ConfigSlaveSessNoRollback(_, _, _, _)
\* Mutant: a failed create returns without clearing the sessions made.
ConfigSlaveSessNoRollback(ss, i, create, fail) ==
    IF i > NbSlaves THEN ss
    ELSE IF ss[i]
    THEN IF create THEN ConfigSlaveSessNoRollback(ss, i + 1, create, fail)
         ELSE ConfigSlaveSessNoRollback([ss EXCEPT ![i] = FALSE], i + 1, create, fail)
    ELSE IF ~create THEN ConfigSlaveSessNoRollback(ss, i + 1, create, fail)
    ELSE IF i = fail THEN ss
    ELSE ConfigSlaveSessNoRollback([ss EXCEPT ![i] = TRUE], i + 1, create, fail)

RECURSIVE ConfigSlaveSess(_, _, _, _)
(* config_slave_sess from slave i on.  With create, a slave that has a     *)
(* session is skipped and one without gets a new one; when the create at   *)
(* slave fail returns NULL, config_slave_sess(sched_ctx, NULL, sess, 0)    *)
(* clears every session and -1 is returned.  Without create, every         *)
(* session is cleared.                                                     *)
ConfigSlaveSess(ss, i, create, fail) ==
    IF i > NbSlaves THEN ss
    ELSE IF ss[i]
    THEN IF create THEN ConfigSlaveSess(ss, i + 1, create, fail)
         ELSE ConfigSlaveSess([ss EXCEPT ![i] = FALSE], i + 1, create, fail)
    ELSE IF ~create THEN ConfigSlaveSess(ss, i + 1, create, fail)
    ELSE IF i = fail THEN ConfigSlaveSess(ss, 1, FALSE, NoFail)
    ELSE ConfigSlaveSess([ss EXCEPT ![i] = TRUE], i + 1, create, fail)

(* scheduler_pmd_session_configure.                                        *)
SchedulerPmdSessionConfigure(fail) ==
    /\ sess' = ConfigSlaveSess(sess, 1, TRUE, fail)
    /\ UNCHANGED <<devStarted, attached, schedRunning, slaveRun, qpCtx,
                   reorderBuf, privQp, ctxFreed, doubleFree>>

(* scheduler_pmd_session_clear.                                            *)
SchedulerPmdSessionClear ==
    /\ sess' = ConfigSlaveSess(sess, 1, FALSE, NoFail)
    /\ UNCHANGED <<devStarted, attached, schedRunning, slaveRun, qpCtx,
                   reorderBuf, privQp, ctxFreed, doubleFree>>

Next ==
    \/ \E fr \in {NoFail} \cup QPs, fa, fs \in {NoFail} \cup Slaves,
          fsch \in BOOLEAN : SchedulerPmdStart(fr, fa, fsch, fs)
    \/ SchedulerPmdStop
    \/ \E f \in {NoFail} \cup Slaves : SchedulerPmdClose(f)
    \/ \E q \in QPs : SchedulerPmdQpRelease(q)
    \/ \E q \in QPs, c \in BOOLEAN : SchedulerPmdQpSetup(q, c)
    \/ \E f \in {NoFail} \cup Slaves : SchedulerPmdSessionConfigure(f)
    \/ SchedulerPmdSessionClear

Spec == Init /\ [][Next]_vars

-----------------------------------------------------------------------------
TypeOK ==
    /\ devStarted \in BOOLEAN /\ schedRunning \in BOOLEAN
    /\ attached \subseteq Slaves
    /\ slaveRun \in [Slaves -> {"stopped", "started", "closed"}]
    /\ qpCtx \in [QPs -> BOOLEAN] /\ reorderBuf \in [QPs -> BOOLEAN]
    /\ privQp \in [QPs -> BOOLEAN]
    /\ ctxFreed \in BOOLEAN /\ doubleFree \in BOOLEAN
    /\ sess \in [Slaves -> BOOLEAN]

(* A started scheduler is whole: every slave attached and started, the     *)
(* mode's scheduler running, and every queue pair's reorder buffer as the  *)
(* reordering setting wants it, whatever failed starts came before.        *)
StartedIsComplete ==
    devStarted =>
        /\ attached = Slaves
        /\ schedRunning
        /\ \A s \in Slaves : slaveRun[s] = "started"
        /\ \A q \in QPs : reorderBuf[q] = ReorderWanted

(* A scheduler session has a session on every slave or on none:           *)
(* config_slave_sess clears what it created when a create fails.          *)
SessionAllOrNothing ==
    \/ \A i \in Slaves : sess[i]
    \/ \A i \in Slaves : ~sess[i]

(* A scheduler the cryptodev layer regards as stopped has no slave left    *)
(* running: scheduler_pmd_stop, which stops slaves, runs only for a        *)
(* started device, so a slave started by a failed scheduler_pmd_start is  *)
(* never stopped.                                                          *)
StoppedMeansSlavesStopped ==
    ~devStarted => \A s \in Slaves : slaveRun[s] # "started"

(* scheduler_pmd_close frees private_ctx and capabilities at most once.    *)
CloseFreesOnce == ~doubleFree

=============================================================================
