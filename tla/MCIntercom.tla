------------------------------- MODULE MCIntercom -------------------------------
EXTENDS Intercom, TLC
CONSTANTS update1, update2, download1, download2, download3, diff, known, missing, k1, k2, k3

ConnectionOf == update1 :> "single_file_task" @@ update2 :> "single_file_task"
    @@ download1 :> "raw_download_task" @@ download2 :> "raw_download_task"
    @@ download3 :> "raw_download_task"    @@ diff :> "file_diff_task"
UidOf == update1 :> known @@ update2 :> known @@ download1 :> known
    @@ download2 :> known @@ download3 :> missing @@ diff :> missing
PartsOf == [r \in Requests |-> IF r \in {download1, download2} THEN 2 ELSE 1]
Mixes == {{update1, update2}, {download1, download2}, {download3, diff}}
================================================================================
