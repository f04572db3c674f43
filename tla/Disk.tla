-------------------------------- MODULE Disk --------------------------------
(***************************************************************************)
(* The disk benchmark: its main applies startj twice to one handle, first  *)
(* with the routine mpac_disk_bm_wt, in which every thread writes a file   *)
(* of its own, then with mpac_disk_bm_rt, in which every thread reads that *)
(* file, and prints the rates.  Either routine calls the barrier once,     *)
(* between opening the file and the part that is timed.                    *)
(*                                                                         *)
(* A time is what it is the time of: how many bytes were moved in it.  The *)
(* arrays for a thread's number as text, and for the times and rates of 20 *)
(* and 30 threads, are taken to be large enough, and files that are opened *)
(* for writing to be there.                                                *)
(***************************************************************************)
EXTENDS ThreadManager

CONSTANTS
  Disks,    (* the options -f and -s, or NoDisk for the programs of         *)
            (* ThreadManager                                                *)
  Old       (* how long a file of an earlier run is                         *)

NoDisk == [file_size |-> 0, block_size |-> 0]
Absent == -1
Unset == -1

ASSUME DisksAssumption ==
  /\ Disks \subseteq [file_size : Nat \ {0}, block_size : Nat \ {0}] \cup {NoDisk}
  /\ Old \in Nat

VARIABLES
  disk,        \* the options of this run
  file,        \* the length of each thread's file
  stage,       \* where each thread is in its routine
  pos,         \* how far it is in its file, and
  k,           \* how many blocks it has written
  failed,      \* whether the disk has refused data of the thread's file
  gtime,       \* globals: the time each thread took to write its file
  gtime1       \* and to read it

files == <<disk, file>>
routine == <<stage, pos, k, failed, gtime, gtime1>>
dvars == <<tmvars, files, routine>>

(* main makes the directory.  If it is there already, main deletes the     *)
(* file of thread 0, and the others may have been left by an earlier run.  *)
(* In the directory of option -p nothing is deleted.                       *)
DInit ==
  /\ TMInit
  /\ disk \in Disks
  /\ disk # NoDisk => program = startj \o startj
  /\ file \in [Worker -> {Absent, Old}]
  /\ disk = NoDisk => file = [w \in Worker |-> Absent]
  /\ stage = [w \in Worker |-> "open"]
  /\ pos = [w \in Worker |-> 0] /\ k = [w \in Worker |-> 0]
  /\ failed = [w \in Worker |-> FALSE]
  /\ gtime = [w \in Worker |-> Unset] /\ gtime1 = [w \in Worker |-> Unset]

(* Which routine the threads run that main creates.                        *)
Writing == at <= Len(startj)

(* A thread in its routine.                                                *)
Runs(w) == thr[w] = "working" /\ UNCHANGED <<program, i, num_live_threads, job, cancel>>

To(w, s) == stage' = [stage EXCEPT ![w] = s]

-----------------------------------------------------------------------------
(* mpac_disk_bm_wt.                                                        *)

(* Opening for writing empties the file.                                   *)
OpenToWrite(w) ==
  /\ Writing /\ Runs(w) /\ stage[w] = "open"
  /\ file' = [file EXCEPT ![w] = 0]
  /\ To(w, "barrier")
  /\ UNCHANGED <<barrier, at, thr, disk, pos, k, failed, gtime, gtime1>>

(* As many whole blocks as the file has.                                   *)
fsize == disk.file_size \div disk.block_size

(* fwrite takes the whole block into the stream's buffer.  When it has to  *)
(* make room there and the disk is full, it takes a part of the block.     *)
WriteBlock(w) ==
  /\ Writing /\ Runs(w) /\ stage[w] = "move" /\ k[w] < fsize
  /\ k' = [k EXCEPT ![w] = @ + 1]
  /\ \/ /\ pos' = [pos EXCEPT ![w] = @ + disk.block_size]
        /\ UNCHANGED failed
     \/ /\ \E taken \in 0 .. disk.block_size : pos' = [pos EXCEPT ![w] = @ + taken]
        /\ failed' = [failed EXCEPT ![w] = TRUE]
  /\ UNCHANGED <<barrier, at, thr, files, stage, gtime, gtime1>>

TimeOfWriting(w) ==
  /\ Writing /\ Runs(w) /\ stage[w] = "move" /\ k[w] = fsize
  /\ gtime' = [gtime EXCEPT ![w] = pos[w]]
  /\ To(w, "close")
  /\ UNCHANGED <<barrier, at, thr, files, pos, k, failed, gtime1>>

(* (Slip: the file is not closed, and what the buffer holds is not written *)
(* while the program runs.)                                                *)
ReturnsUnclosed(w) ==
  /\ Writing /\ Runs(w) /\ stage[w] = "close"
  /\ thr' = [thr EXCEPT ![w] = "exited"]
  /\ UNCHANGED <<barrier, at, files, routine>>

(* fclose, too, writes from the buffer, and nobody asks whether it could.  *)
(* Where the disk refused data, then or before, any part of what fwrite    *)
(* took may be missing.  (What is in the file matters from here on: nobody *)
(* reads it before.)                                                       *)
CloseWritten(w) ==
  /\ Writing /\ Runs(w) /\ stage[w] = "close"
  /\ \/ /\ ~failed[w] /\ UNCHANGED failed
        /\ file' = [file EXCEPT ![w] = pos[w]]
     \/ /\ failed' = [failed EXCEPT ![w] = TRUE]
        /\ \E kept \in 0 .. pos[w] : file' = [file EXCEPT ![w] = kept]
  /\ thr' = [thr EXCEPT ![w] = "exited"]
  /\ UNCHANGED <<barrier, at, disk, stage, pos, k, gtime, gtime1>>

-----------------------------------------------------------------------------
(* mpac_disk_bm_rt.                                                        *)

OpenToRead(w) ==
  /\ ~Writing /\ Runs(w) /\ stage[w] = "open" /\ file[w] # Absent
  /\ To(w, "barrier")
  /\ UNCHANGED <<barrier, at, thr, files, pos, k, failed, gtime, gtime1>>

(* The file is not there: exit, which ends every thread.                   *)
ExitWithoutFile(w) ==
  /\ ~Writing /\ Runs(w) /\ stage[w] = "open" /\ file[w] = Absent
  /\ at' = Len(program) + 1
  /\ thr' = [v \in Worker |-> "none"]
  /\ UNCHANGED <<barrier, files, routine>>

(* One turn of the loop up to the end of the file, which is noticed when a *)
(* block comes out short.                                                  *)
ReadBlock(w) ==
  /\ ~Writing /\ Runs(w) /\ stage[w] = "move"
  /\ LET left == file[w] - pos[w]
         got == IF left < disk.block_size THEN left ELSE disk.block_size IN
       /\ pos' = [pos EXCEPT ![w] = @ + got]
       /\ To(w, IF got < disk.block_size THEN "close" ELSE "move")
       /\ gtime1' = IF got < disk.block_size THEN [gtime1 EXCEPT ![w] = pos[w] + got]
                                             ELSE gtime1
  /\ UNCHANGED <<barrier, at, thr, files, k, failed, gtime>>

CloseRead(w) ==
  /\ ~Writing /\ Runs(w) /\ stage[w] = "close"
  /\ thr' = [thr EXCEPT ![w] = "exited"]
  /\ UNCHANGED <<barrier, at, files, routine>>

-----------------------------------------------------------------------------
(* Both routines.                                                          *)

(* A thread enters its routine with new locals.                            *)
Enter(w) ==
  /\ ReadRoutine(w)
  /\ To(w, "open")
  /\ pos' = [pos EXCEPT ![w] = 0] /\ k' = [k EXCEPT ![w] = 0]
  /\ UNCHANGED <<files, failed, gtime, gtime1>>

PassBarrier(w) ==
  /\ stage[w] = "barrier"
  /\ Work(w)
  /\ IF Unlock(w) THEN To(w, "move") ELSE UNCHANGED stage
  /\ UNCHANGED <<files, pos, k, failed, gtime, gtime1>>

DiskThread(w) ==
  \/ ReadAffinity(w) /\ UNCHANGED <<files, routine>>
  \/ Enter(w) \/ PassBarrier(w)
  \/ OpenToWrite(w) \/ WriteBlock(w) \/ TimeOfWriting(w) \/ CloseWritten(w)
  \/ OpenToRead(w) \/ ExitWithoutFile(w) \/ ReadBlock(w) \/ CloseRead(w)

DThread(w) == IF disk = NoDisk THEN Thread(w) /\ UNCHANGED <<files, routine>>
                               ELSE DiskThread(w)

DMain == Main /\ UNCHANGED <<files, routine>>

DNext == DMain \/ (Idle /\ UNCHANGED dvars) \/ \E w \in Worker : DThread(w)

DSpec == DInit /\ [][DNext]_dvars

(* As in ThreadManager.                                                    *)
DFairSpec == /\ DSpec
             /\ WF_dvars(DMain)
             /\ \A w \in Worker : WF_dvars(DThread(w))

-----------------------------------------------------------------------------
(* The two rates of a thread are of the same file: what a thread is timed  *)
(* to read is what the thread of its number wrote in this run, all the     *)
(* whole blocks that were timed, and nothing an earlier run has left.      *)
(* Where the disk refused data it is no more than what was timed.  The     *)
(* exception is a run that could not create any thread to write.           *)
RatesOfOneFile ==
  (\E v \in Worker : gtime[v] # Unset) =>
    \A w \in Worker : gtime1[w] # Unset =>
      /\ gtime1[w] <= gtime[w]
      /\ ~failed[w] => gtime1[w] = gtime[w] /\ gtime[w] = fsize * disk.block_size
=============================================================================
