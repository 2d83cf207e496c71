----------------------------- MODULE BlockDevice -----------------------------
(* What the callers of nvme_read_to and nvme_write_from (block_dev.c, zllog.c) *)
(* rely on: one call at a time; the block moves at most once, and only between *)
(* the call and its answer; "yes" means that it has moved, and a "yes" to a    *)
(* read brings what the disk holds.  After a "no" the block may or may not     *)
(* have moved.                                                                 *)
CONSTANTS Lba, Val, None

VARIABLES disk, call, reply

vars == <<disk, call, reply>>

Call == [op : {"read", "write"}, lba : Lba, val : Val \cup {None}, moved : BOOLEAN]

Reply == [ok : BOOLEAN, val : Val \cup {None}]

No == [ok |-> FALSE, val |-> None]

Init ==
  /\ disk \in [Lba -> Val]
  /\ call = None
  /\ reply = No

Ask ==
  /\ call = None
  /\ call' \in {c \in Call : ~c.moved}
  /\ UNCHANGED <<disk, reply>>

Transfer ==
  /\ call # None
  /\ ~call.moved
  /\ call' = [call EXCEPT !.moved = TRUE]
  /\ disk' = IF call.op = "write" THEN [disk EXCEPT ![call.lba] = call.val] ELSE disk
  /\ UNCHANGED reply

AnswerYes ==
  /\ call # None
  /\ call.moved
  /\ reply' = [ok |-> TRUE, val |-> IF call.op = "read" THEN disk[call.lba] ELSE None]
  /\ call' = None
  /\ UNCHANGED disk

AnswerNo ==
  /\ reply' = No
  /\ call' = None
  /\ UNCHANGED disk

Next == Ask \/ Transfer \/ AnswerYes \/ AnswerNo

Spec == Init /\ [][Next]_vars
==============================================================================
