----------------------------- MODULE ZlfsVolume -----------------------------
(***************************************************************************)
(* Zlfs implements Volume. The variables of the abstract specification are *)
(* functions of the state of Zlfs; they are carried as auxiliary variables *)
(* so that each is computed once per step. A device that can fail a header *)
(* flush or a read at mount is beyond what zlfs promises (Volume would be  *)
(* violated, see FoundFilesAreWhole): under such a plan they stay blank.   *)
(***************************************************************************)
EXTENDS Zlfs

VARIABLES vol, next, safe

OneWrite(s) == \E v \in Data : \A k \in DOMAIN s : s[k] = v

V == INSTANCE Volume WITH Slot <- File, Uniform <- OneWrite

\* The mounted files as fs_read sees them, through the cache.
Live(up, d, m, q) ==
    IF up THEN Outcome("ok", Files(Cache!View(m, q), d)) ELSE Outcome("none", NoFiles)

\* The files the operation under way will have made.
Making(o, m, q) ==
    IF o.kind = "none" THEN Outcome("none", NoFiles)
    ELSE Outcome("ok", Files(Cache!View(m, q), o.dir))

VInit ==
    /\ Init
    /\ vol = Live(mounted, dir, disk, queue)
    /\ next = Making(op, disk, queue)
    /\ safe = CrashOutcomes(disk, queue)
VNext ==
    /\ Next
    /\ IF Promised
       THEN /\ vol' = Live(mounted', dir', disk', queue')
            /\ next' = Making(op', disk', queue')
            /\ safe' = CrashOutcomes(disk', queue')
       ELSE UNCHANGED <<vol, next, safe>>
VSpec == VInit /\ [][VNext]_<<vars, vol, next, safe>>

(***************************************************************************)
(* zlfs implements the volume: every operation is atomic with respect to   *)
(* power cuts and to reported failures, what it reported done survives,    *)
(* a reformat that is cut short never mounts, and every file reads back as *)
(* the contents of one write.                                              *)
(***************************************************************************)
ImplementsVolume == V!Spec

(***************************************************************************)
(* fs.c:428, printed by dir_commit when it gives up: "change not           *)
(* published; previous directory generation remains active". So no power   *)
(* cut after a call that failed may find its result.                       *)
(***************************************************************************)
FailedCallLeavesNoTrace ==
    [][LET made == Making(op, disk, queue)
       IN FlushFails /\ op.kind = "edit" /\ made # Live(mounted, dir, disk, queue)
          => made \notin CrashOutcomes(disk', queue')]_vars

(***************************************************************************)
(* fs.c:874: a replacement goes to "a second run [that] keeps the          *)
(* published file untouched until the new data and its directory           *)
(* generation are both durable". So whenever the power goes, every file    *)
(* that is found holds the contents of one write.                          *)
(***************************************************************************)
FoundFilesAreWhole == \A o \in CrashOutcomes(disk, queue) : \A i \in File : OneWrite(o.files[i].data)

(***************************************************************************)
(* fs.c:341: "Mount selects the newest fully valid generation."            *)
(***************************************************************************)
MountFindsNewest ==
    [][~mounted /\ mounted' /\ op = op'
       => Live(mounted', dir', disk', queue') = Recovered(Cache!View(disk, queue))]_vars
=============================================================================
