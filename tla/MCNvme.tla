------------------------------- MODULE MCNvme -------------------------------
(* Rings of three entries, so that they wrap with every third command, and *)
(* one command given up that the controller still holds.                   *)
EXTENDS Nvme
MCLba == {0, 1}
MCVal == {0, 1}
=============================================================================
