------------------------------- MODULE MCDisk -------------------------------
(* TLC instance of Disk: startj alone (cpu, mem, hello, and the apps step  *)
(* by step), twice (net) and before startd (the test mpac_thr_test), the   *)
(* operations no program of the repository uses, and the disk benchmark    *)
(* with a block and a rest and with a block longer than the file.          *)
EXTENDS Disk

MCPrograms ==
  { startj, startj \o startj, startj \o startd,
    <<"init", "fork", "sendsig", "wait", "free">>, <<"init", "fork", "end">> }

MCDisks == { NoDisk, [file_size |-> 3, block_size |-> 2], [file_size |-> 1, block_size |-> 2] }
=============================================================================
