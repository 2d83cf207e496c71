------------------------------- MODULE Volume -------------------------------
(***************************************************************************)
(* What zlfs promises: a volume is a table of named files; an operation    *)
(* either becomes part of it or leaves it exactly as it was; and after a   *)
(* power cut the volume found on the disk is the one of the last completed *)
(* operation or, while an operation is under way, possibly its result -    *)
(* never a mixture, and never a volume without a name for what it is.      *)
(***************************************************************************)
CONSTANTS
    Slot,           \* directory slots
    NoFile,         \* a slot holding no file: [name |-> 0, data |-> <<>>]
    Uniform(_)      \* TRUE of contents that a single write can have produced

VARIABLES
    vol,        \* the mounted volume, or None
    next,       \* the volume the operation under way is making, or None
    safe        \* the volumes a power cut now could leave behind

vars == <<vol, next, safe>>

Empty == [i \in Slot |-> NoFile]
None == [state |-> "none", files |-> Empty]
Unformatted == [state |-> "unformatted", files |-> Empty]
Blank == [state |-> "ok", files |-> Empty]

Mounted == vol.state = "ok"

\* A name in use belongs to one slot.
Fresh(f, i, n) == n # 0 /\ \A j \in Slot \ {i} : f[j].name # n

\* g is f after one create, delete, rename or write.
IsEdit(f, g) == \E i \in Slot :
    /\ \A j \in Slot \ {i} : g[j] = f[j]
    /\ \/ f[i] = NoFile /\ Fresh(f, i, g[i].name) /\ g[i].data = <<>>
       \/ f[i] # NoFile /\ g[i] = NoFile
       \/ f[i] # NoFile /\ Fresh(f, i, g[i].name) /\ g[i].data = f[i].data
       \/ f[i] # NoFile /\ g[i].name = f[i].name /\ Uniform(g[i].data)

\* The disk can only come closer to what has been asked of it.
Settles(outcomes) ==
    /\ safe' # {} /\ safe' \subseteq outcomes
    /\ Mounted => vol \in safe'
-----------------------------------------------------------------------------
Begin ==
    /\ Mounted /\ next = None
    /\ next'.state = "ok" /\ IsEdit(vol.files, next'.files)
    /\ UNCHANGED <<vol, safe>>

Progress ==
    /\ next # None
    /\ Settles(safe \cup {next} \cup (IF Mounted THEN {} ELSE {Unformatted}))
    /\ UNCHANGED <<vol, next>>

Commit ==
    /\ Mounted /\ next # None
    /\ vol' = next /\ safe' = {next} /\ next' = None

\* The operation reports failure: nothing of it may be left behind.
Abort ==
    /\ next # None
    /\ Settles(safe)
    /\ Mounted /\ next # vol => next \notin safe'
    /\ next' = None
    /\ UNCHANGED vol

\* Formatting unmounts first; from then on the disk may be unformatted.
Format ==
    /\ next = None
    /\ next' \in {Blank, None}
    /\ vol' = None
    /\ safe' # {} /\ safe' \subseteq safe \cup {Unformatted}

\* A format is complete before it is durable.
Formatted ==
    /\ ~Mounted /\ next = Blank
    /\ vol' = Blank /\ next' = None
    /\ Blank \in safe' /\ safe' \subseteq {Unformatted, Blank}

Sync == next = None /\ Settles(safe) /\ UNCHANGED <<vol, next>>

Mount ==
    /\ next = None
    /\ vol' = None \/ vol' \in safe \ {Unformatted}
    /\ UNCHANGED <<next, safe>>

PowerCut ==
    /\ vol' = None /\ next' = None
    /\ \E o \in safe : safe' = {o}

Init == vol = None /\ next = None /\ safe = {Unformatted}

Next ==
    Begin \/ Progress \/ Commit \/ Abort \/ Format \/ Formatted \/ Sync \/ Mount
    \/ PowerCut

Spec == Init /\ [][Next]_vars
=============================================================================
