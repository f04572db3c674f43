------------------------------ MODULE FileInput ------------------------------
(***************************************************************************)
(* common/mpac_io_file.c and the code that uses it: the processors counted *)
(* from the lines of /proc/cpuinfo, a thread pinned to one of them, and a  *)
(* whole file read into a buffer of the size that stat gave.               *)
(*                                                                         *)
(* A character is one of "p" (stands for the word processor), "m" (for     *)
(* model), "x" (any other text), "nl" and "nul".  The system's read may    *)
(* fail or be interrupted MaxErrors times, a file may be grown by another  *)
(* process MaxGrowth times.  The count saturates at MaxCount, which is no  *)
(* less than what a file can make it (Services), so that only a count      *)
(* that failing reads keep up for ever reaches it.  An int holds the       *)
(* numbers from -IntHalf to IntHalf - 1.                                   *)
(***************************************************************************)
EXTENDS Integers, FiniteSets, SequencesExt

CONSTANTS
  BuffSize,    \* cells of the line buffer (500 in the code)
  BufSz,       \* bytes asked for in one read of a file (1024 in the code)
  Memory,      \* what the line buffer, which nobody clears, may hold at first,
               \* and the text that stands in the memory behind it
  Cpus,        \* the numbers that threads to be pinned have
  MaxErrors, MaxGrowth, MaxCount,
  IntHalf      \* 2^31 in the code

Char == {"p", "m", "x", "nl", "nul"}

ASSUME BufferAssumption == BuffSize \in Nat \ {0, 1} /\ BufSz \in Nat \ {0}
ASSUME EnvironmentAssumption ==
  /\ Memory \subseteq [stack : Char, behind : Seq(Char)] /\ Cpus \subseteq Nat
  /\ MaxErrors \in Nat /\ MaxGrowth \in Nat /\ MaxCount \in Nat
ASSUME IntAssumption == IntHalf \in Nat \ {0}

VARIABLES
  fpc,         \* "off" when this code is not run
  file, off,   \* the content, and the offset of the descriptor
  opened,      \* what open returned: "ok" or "none" (-1)
  buffer, beyond, nread,
  count,       \* processors counted
  len, copied, \* the size as an int, or -1; the bytes that read has stored
  errors, failed, grown

readvars == <<file, off, buffer, beyond, nread, count>>
fvars == <<fpc, opened, len, copied, errors, failed, grown, readvars>>

Cells == 0 .. BuffSize - 1

FInit(start, content) ==
  /\ fpc = start /\ file = content /\ off = 0
  /\ opened = "none" /\ nread = 0 /\ count = 0 /\ len = 0 /\ copied = <<>>
  /\ IF start = "open"
     THEN \E m \in Memory : buffer = [c \in Cells |-> m.stack] /\ beyond = m.behind
     ELSE buffer = [c \in Cells |-> "nul"] /\ beyond = <<>>
  /\ errors = 0 /\ failed = FALSE /\ grown = 0

-----------------------------------------------------------------------------
(* mpac_io_file_readln and the loop of mpac_thread_manager_No_of_cores.    *)

OpenCpuinfo ==
  /\ fpc = "open" /\ opened' \in {"ok", "none"} /\ fpc' = "readln"
  /\ UNCHANGED <<len, copied, errors, failed, grown, readvars>>

(* The loop looks at the buffer after every result but 0, -1 too.          *)
LineReturned == fpc' = "line" /\ nread' = 0

AtEnd == opened = "ok" /\ off = Len(file)

(* (Slip: the line that is complete gets no NUL behind it.)                *)
StoredUnterminated(ch) == [buffer EXCEPT ![nread] = ch]
Stored(ch) ==
  [buffer EXCEPT ![nread] = ch, ![nread + 1] = IF ch = "nl" THEN "nul" ELSE @]

ReadByte ==
  /\ fpc = "readln" /\ opened = "ok" /\ nread < BuffSize - 1 /\ off < Len(file)
  /\ off' = off + 1 /\ buffer' = Stored(file[off'])
  /\ IF file[off'] = "nl" THEN LineReturned ELSE nread' = nread + 1 /\ UNCHANGED fpc
  /\ UNCHANGED <<opened, len, copied, errors, failed, grown, file, beyond, count>>

(* EINTR: read again.                                                      *)
Interrupted ==
  /\ fpc = "readln" /\ opened = "ok" /\ nread < BuffSize - 1 /\ errors < MaxErrors
  /\ errors' = errors + 1
  /\ UNCHANGED <<fpc, opened, len, copied, failed, grown, readvars>>

BufferFull ==
  /\ fpc = "readln" /\ nread = BuffSize - 1 /\ LineReturned
  /\ UNCHANGED <<opened, len, copied, errors, failed, grown, file, off, buffer, beyond, count>>

ReadFails ==
  /\ fpc = "readln" /\ nread < BuffSize - 1
  /\ \/ opened = "none" /\ UNCHANGED errors
     \/ opened = "ok" /\ errors < MaxErrors /\ errors' = errors + 1
  /\ failed' = TRUE /\ LineReturned
  /\ UNCHANGED <<opened, len, copied, grown, file, off, buffer, beyond, count>>

(* (Slip: the end of the file is a failure, as after a part of a line.)    *)
FileEndsAsFailure ==
  /\ fpc = "readln" /\ nread < BuffSize - 1 /\ AtEnd /\ LineReturned
  /\ UNCHANGED <<opened, len, copied, errors, failed, grown, file, off, buffer, beyond, count>>

(* Only an end in front of a line is told as 0, and leaves the loop.       *)
FileEnds ==
  /\ fpc = "readln" /\ nread < BuffSize - 1 /\ AtEnd
  /\ IF nread = 0 THEN fpc' = "counted" /\ UNCHANGED nread ELSE LineReturned
  /\ UNCHANGED <<opened, len, copied, errors, failed, grown, file, off, buffer, beyond, count>>

(* What strstr searches: up to the first NUL, which need not be in buffer. *)
Text ==
  LET all == [k \in 1 .. BuffSize |-> buffer[k - 1]] \o beyond \o <<"nul">>
  IN SubSeq(all, 1, SelectInSeq(all, LAMBDA ch : ch = "nul") - 1)

IsProcessor(text) == Contains(text, "p") /\ ~Contains(text, "m")

CountLine ==
  /\ fpc = "line" /\ fpc' = "readln"
  /\ count' = IF IsProcessor(Text) /\ count < MaxCount THEN count + 1 ELSE count
  /\ UNCHANGED <<opened, len, copied, errors, failed, grown, file, off, buffer, beyond, nread>>

(* The lines of a content, each with its end.                              *)
LineEnds == {k \in DOMAIN file : file[k] = "nl"}
LineAt(e) ==
  LET before == {k \in LineEnds : k < e}
  IN SubSeq(file, 1 + (IF before = {} THEN 0 ELSE CHOOSE k \in before : \A j \in before : j <= k), e)

(* The processors there are: those the file has a line for.                *)
Processors ==
  Cardinality({e \in LineEnds : Contains(LineAt(e), "p") /\ ~Contains(LineAt(e), "m")})

(* mpac_thread_manager_core_affinity: cpu % num_cores, which traps at 0;   *)
(* sched_setaffinity refuses a processor that does not exist.              *)
Pin ==
  /\ fpc = "counted"
  /\ \E cpu \in Cpus :
       fpc' = IF count = 0 THEN "trapped"
              ELSE IF cpu % count < Processors THEN "pinned" ELSE "unpinned"
  /\ UNCHANGED <<opened, len, copied, errors, failed, grown, readvars>>

-----------------------------------------------------------------------------
(* mpac_io_file_length and mpac_io_file_read.                              *)

(* A number that is put into an int keeps its last 32 bits.                *)
AsInt(n) == ((n + IntHalf) % (2 * IntHalf)) - IntHalf

MPAC_FAILURE == -1

(* A size of any width is returned as an int, and stat may fail.  The      *)
(* caller gives up on a negative length, and read refuses 0.               *)
Length ==
  /\ fpc = "length" /\ len' \in {AsInt(Len(file)), MPAC_FAILURE}
  /\ fpc' = IF len' <= 0 THEN "refused" ELSE "openfile"
  /\ UNCHANGED <<opened, copied, errors, failed, grown, readvars>>

OpenFile ==
  /\ fpc = "openfile" /\ opened' \in {"ok", "none"}
  /\ fpc' = IF opened' = "ok" THEN "read" ELSE "refused"
  /\ UNCHANGED <<len, copied, errors, failed, grown, readvars>>

(* (Slip: one read is taken for the whole file.)                           *)
GoesOnNever(i) == FALSE
GoesOn(i) == AsInt(i) <= len

(* A read may return fewer bytes than there are.                           *)
ReadBlock ==
  /\ fpc = "read" /\ off < Len(file)
  /\ \E n \in 1 .. BufSz :
       /\ off + n <= Len(file)
       /\ copied' = copied \o SubSeq(file, off + 1, off + n)
       /\ off' = off + n
  /\ fpc' = IF GoesOn(Len(copied')) THEN "read" ELSE "returned"
  /\ UNCHANGED <<opened, len, errors, failed, grown, file, buffer, beyond, nread, count>>

(* bytes <= 0: the end and a failure are not told apart.                   *)
ReadStops ==
  /\ fpc = "read" /\ fpc' = "returned"
  /\ \/ off = Len(file) /\ UNCHANGED <<errors, failed>>
     \/ errors < MaxErrors /\ errors' = errors + 1 /\ failed' = TRUE
  /\ UNCHANGED <<opened, len, copied, grown, readvars>>

(* Another process appends to the file.                                    *)
Grow ==
  /\ fpc \in {"openfile", "read"} /\ grown < MaxGrowth
  /\ grown' = grown + 1 /\ file' = Append(file, "x")
  /\ UNCHANGED <<fpc, opened, len, copied, errors, failed, off, buffer, beyond, nread, count>>

FNext ==
  \/ OpenCpuinfo \/ ReadByte \/ Interrupted \/ BufferFull \/ ReadFails \/ FileEnds
  \/ CountLine \/ Pin
  \/ Length \/ OpenFile \/ ReadBlock \/ ReadStops

FDone == fpc \in {"off", "pinned", "unpinned", "trapped", "refused", "returned"}

-----------------------------------------------------------------------------
EveryLineFits == \A e \in LineEnds : Len(LineAt(e)) < BuffSize
EndsInLineEnd == file = <<>> \/ Last(file) = "nl"

(* The number of processors is the number of lines that name one, and a    *)
(* thread is pinned to a processor there is, as long as no read fails, no  *)
(* line is longer than the buffer and the last line is complete: the code  *)
(* looks at the buffer after a failed read too, when it still holds the    *)
(* line before, and divides by the result.                                 *)
CountsProcessors ==
  (fpc \in {"counted", "pinned", "unpinned", "trapped"}
     /\ ~failed /\ EveryLineFits /\ EndsInLineEnd)
  => /\ count = Processors
     /\ fpc # "unpinned"
     /\ (fpc = "trapped" => Processors = 0)

(* When the file has been read, the buffer holds all of it up to the end,  *)
(* unless a read failed (which nothing reports) or the loop stopped beyond *)
(* the length that it was given.  Of a file whose size an int can hold it  *)
(* passes that length, which is that of the caller's buffer, only when the *)
(* file grew meanwhile; nothing is stored for a length that is not one.    *)
ReadsWholeFile ==
  /\ copied = SubSeq(file, 1, Len(copied))
  /\ (fpc = "returned" /\ ~failed => copied = file \/ Len(copied) > len)
  /\ (copied # <<>> /\ Len(copied) > len /\ Len(file) < IntHalf => grown > 0)
=============================================================================
