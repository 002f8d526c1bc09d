------------------------------ MODULE NorFlash ------------------------------
(***************************************************************************)
(* What drivers/w25q64.h promises its caller: a flash memory in which a    *)
(* write goes page by page, from the lowest on, each page all at once or,  *)
(* for want of memory, not at all, and in which an erase takes one sector  *)
(* at once.  Nothing is said of commands, of the busy bit, or of where a   *)
(* page program wraps.                                                     *)
(*                                                                         *)
(* A byte is the set of bytes programmed into it since it was erased; a    *)
(* byte written is named by the call and its offset in the buffer.         *)
(***************************************************************************)
EXTENDS Naturals

CONSTANTS
  PageSize,     \* W25Q64_PAGE_SIZE
  SectorSize,   \* W25Q64_SECTOR_SIZE
  Total,        \* W25Q64_TOTAL_SIZE
  MaxLen,       \* bound: the longest read or write
  MaxCalls      \* bound: calls of the driver

Address == 0 .. Total - 1
Start(a, size) == a - (a % size)
SectorOf(a) == {b \in Address : Start(b, SectorSize) = Start(a, SectorSize)}

VARIABLES
  cells,        \* address -> bytes programmed into it
  job,          \* the write or erase under way, and the addresses it has left
  result,       \* what the last call returned
  out,          \* what the last read delivered
  calls         \* number of calls

vars == <<cells, job, result, out, calls>>

Closed == [op |-> "closed", addr |-> 0, todo |-> {}]
NoJob == [op |-> "none", addr |-> 0, todo |-> {}]

Init ==
  /\ cells = [a \in Address |-> {}]
  /\ job = Closed
  /\ result = "ok"
  /\ out = <<>>
  /\ calls = 0

Open ==
  /\ job = Closed
  /\ \/ job' = NoJob /\ UNCHANGED result
     \/ result' = "timeout" /\ UNCHANGED job
  /\ UNCHANGED <<cells, out, calls>>

Request ==
  /\ job = NoJob
  /\ calls < MaxCalls
  /\ calls' = calls + 1
  /\ UNCHANGED cells

InRange(a, len) == len # 0 /\ a + len <= Total

Refuse(a, len) ==
  /\ ~InRange(a, len)
  /\ Request
  /\ result' = IF len = 0 THEN "ok" ELSE "size"
  /\ UNCHANGED <<job, out>>

Read(a, len) ==
  /\ InRange(a, len)
  /\ Request
  /\ \/ result' = "memory" /\ UNCHANGED out
     \/ result' = "ok" /\ out' = [i \in 0 .. len - 1 |-> cells[a + i]]
  /\ UNCHANGED job

Write(a, len) ==
  /\ InRange(a, len)
  /\ Request
  /\ job' = [op |-> "write", addr |-> a, todo |-> a .. a + len - 1]
  /\ UNCHANGED <<result, out>>

Erase(a) ==
  /\ Request
  /\ job' = [op |-> "erase", addr |-> a, todo |-> SectorOf(a)]
  /\ UNCHANGED <<result, out>>

(* The addresses left in the lowest page.                                  *)
Piece ==
  {a \in job.todo : \A b \in job.todo : Start(a, PageSize) <= Start(b, PageSize)}

PageWritten ==
  /\ job.op = "write" /\ job.todo # {}
  /\ cells' =
       [a \in Address |->
          IF a \in Piece
          THEN cells[a] \cup {[call |-> calls, offset |-> a - job.addr]}
          ELSE cells[a]]
  /\ job' = [job EXCEPT !.todo = @ \ Piece]
  /\ UNCHANGED <<result, out, calls>>

(* No memory for a page: the write goes on with the next, or returns.      *)
PageMissed ==
  /\ job.op = "write" /\ job.todo # {}
  /\ IF Piece = job.todo
     THEN job' = NoJob /\ result' = "ok"
     ELSE job' = [job EXCEPT !.todo = @ \ Piece] /\ UNCHANGED result
  /\ UNCHANGED <<cells, out, calls>>

SectorErased ==
  /\ job.op = "erase" /\ job.todo # {}
  /\ cells' = [a \in Address |-> IF a \in job.todo THEN {} ELSE cells[a]]
  /\ job' = [job EXCEPT !.todo = {}]
  /\ UNCHANGED <<result, out, calls>>

Return ==
  /\ job.op \in {"write", "erase"} /\ job.todo = {}
  /\ job' = NoJob
  /\ result' = "ok"
  /\ UNCHANGED <<cells, out, calls>>

Next ==
  \/ Open \/ PageWritten \/ PageMissed \/ SectorErased \/ Return
  \/ \E a \in 0 .. Total, len \in 0 .. MaxLen :
       Refuse(a, len) \/ Read(a, len) \/ Write(a, len)
  \/ \E a \in Address : Erase(a)

Spec == Init /\ [][Next]_vars
=============================================================================
