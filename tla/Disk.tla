-------------------------------- MODULE Disk --------------------------------
(***************************************************************************)
(* What FatFs expects of the drive behind disk_read and disk_write when    *)
(* one task uses it (FF_FS_REENTRANT is 0): a write that returned RES_OK   *)
(* is stored, a read returns what was stored last, and a restart costs the *)
(* sector that was being written and no other one.                         *)
(***************************************************************************)
CONSTANTS Sectors, Data, Contents,   \* Contents: Data and what else a read may return
          Unknown                    \* the content of a sector nobody can rely on

VARIABLES disk, writing, got

vars == <<disk, writing, got>>

NotWriting == [sector |-> Unknown, data |-> Unknown]

Init ==
    /\ disk \in [Sectors -> Contents]
    /\ writing = NotWriting
    /\ got \in Contents

\* The sector is indefinite from the call of disk_write to its return.
BeginWrite(s, d) ==
    /\ writing = NotWriting
    /\ writing' = [sector |-> s, data |-> d]
    /\ disk' = [disk EXCEPT ![s] = Unknown]
    /\ UNCHANGED got

EndWrite ==
    /\ writing # NotWriting
    /\ disk' = [disk EXCEPT ![writing.sector] = writing.data]
    /\ writing' = NotWriting
    /\ UNCHANGED got

\* A reset or a loss of power in the middle of a write.
Crash ==
    /\ writing' = NotWriting
    /\ UNCHANGED <<disk, got>>

Read(s) ==
    /\ writing = NotWriting
    /\ got' \in IF disk[s] = Unknown THEN Contents ELSE {disk[s]}
    /\ UNCHANGED <<disk, writing>>

Next ==
    \/ EndWrite \/ Crash
    \/ \E s \in Sectors : Read(s) \/ \E d \in Data : BeginWrite(s, d)

\* What happens, and that disk_write returns.
Steps == Init /\ [][Next]_vars

Spec == Steps /\ WF_vars(EndWrite)
=============================================================================
