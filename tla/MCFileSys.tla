----------------------------- MODULE MCFileSys -----------------------------
(***************************************************************************)
(* A floppy of twelve sectors: sector 0, FAT in 1 and 2, directory in 5    *)
(* and 6, data from 7 on, so that, as on the real one, the FAT lies in two *)
(* blocks and the last block of the directory holds data too.              *)
(***************************************************************************)
EXTENDS FileSys, TLC

FirstFat == (0 :> 4080) @@ (1 :> 4095) @@ (2 :> EOC) @@ (3 :> EOC) @@ (4 :> 0) @@ (5 :> 0)
FirstRoot == (0 :> [name |-> "A", cluster |-> 2, size |-> 1])
             @@ (1 :> [name |-> "B", cluster |-> 3, size |-> 1])
             @@ (2 :> NoFile)

FirstData == (7 :> <<"a", "0">>) @@ (8 :> <<"b", "0">>)
             @@ [x \in 9 .. 10 |-> <<"0", "0">>]

FirstDisk == InfoSectors(FirstFat, FirstRoot) @@ FirstData @@ [x \in Sectors |-> "other"]
=============================================================================
