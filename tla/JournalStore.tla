---------------------------- MODULE JournalStore ----------------------------
(***************************************************************************)
(* The journal file of a run, the processes that open it, and what a crash *)
(* or a power loss leaves of it.  A record is one line; a line whose       *)
(* newline is missing is the file's tail.  Opening with a tail is refused  *)
(* unless the operator asks for a repair, which keeps the tail's bytes,    *)
(* notes what it is going to do, replaces the file, and records a failure  *)
(* event as its first append.                                              *)
(*                                                                         *)
(* Bytes are reduced to records: a tail holds a part of its record (torn)  *)
(* or all of it but the newline (whole).  A repair's file replacement is   *)
(* one step: a power loss before its directory sync shows one file or the  *)
(* other.  A disk that drops a page after a failed fsync is left out.      *)
(*                                                                         *)
(* Source: src/agent_runtime/store.py                                      *)
(***************************************************************************)
EXTENDS Integers, Sequences, SequencesExt

CONSTANTS Process,     \* the processes that may open the run
          MaxRecords   \* bound: records whose writing was begun

ASSUME JournalAssumption == MaxRecords \in Nat /\ "none" \notin Process

VARIABLES
  file,      \* the complete lines
  tail,      \* what follows the last newline
  synced,    \* how many lines survive a power loss
  archive,   \* the tails kept as blobs
  note,      \* tail_repair.json
  holder,    \* who holds the writer lock
  pc,        \* pc[p]: where p is
  recover,   \* recover[p]: p was started with --repair-tail
  mustTell,  \* mustTell[p]: p repaired the file and has not said so in it
  log,       \* log[p]: the events p has in memory
  acked,     \* how many records were acknowledged to their writer
  begun      \* how many records were begun

vars == <<file, tail, synced, archive, note, holder, pc, recover, mustTell, log, acked, begun>>

Disk == <<file, tail, synced>>
Repairs == <<archive, note>>

Record == [seq : Nat, id : Nat, tells : BOOLEAN]

NoRecord == [seq |-> 0, id |-> 0, tells |-> FALSE]
NoTail == [kind |-> "none", record |-> NoRecord]
NoNote == [tail |-> NoTail, action |-> "none"]

Go(p, place) == pc' = [pc EXCEPT ![p] = place]

Init ==
  /\ file = <<>> /\ tail = NoTail /\ synced = 0
  /\ archive = {} /\ note = NoNote
  /\ holder = "none"
  /\ pc = [p \in Process |-> "closed"]
  /\ recover = [p \in Process |-> FALSE]
  /\ mustTell = [p \in Process |-> FALSE]
  /\ log = [p \in Process |-> <<>>]
  /\ acked = 0 /\ begun = 0

\* Wrong on purpose: the lock is not asked for.
NobodyAsked == TRUE

LockIsFree == holder = "none"

Open(p) ==
  /\ pc[p] = "closed" /\ LockIsFree
  /\ holder' = p
  /\ \E asked \in BOOLEAN : recover' = [recover EXCEPT ![p] = asked]
  /\ Go(p, "opened")
  /\ UNCHANGED <<Disk, Repairs, mustTell, log, acked, begun>>

Leave(p) ==
  /\ Go(p, "closed")
  /\ holder' = IF holder = p THEN "none" ELSE holder
  /\ recover' = [recover EXCEPT ![p] = FALSE]
  /\ mustTell' = [mustTell EXCEPT ![p] = FALSE]
  /\ log' = [log EXCEPT ![p] = <<>>]

\* A tail without leave to repair it.
Refuse(p) ==
  /\ pc[p] = "opened" /\ tail # NoTail /\ ~recover[p]
  /\ Leave(p)
  /\ UNCHANGED <<Disk, Repairs, acked, begun>>

Archive(p) ==
  /\ pc[p] = "opened" /\ tail # NoTail /\ recover[p]
  /\ archive' = archive \cup {tail}
  /\ Go(p, "archived")
  /\ UNCHANGED <<Disk, note, holder, recover, mustTell, log, acked, begun>>

Note(p) ==
  /\ pc[p] = "archived"
  /\ note' = [tail |-> tail,
              action |-> IF tail.kind = "whole" THEN "complete_newline" ELSE "archive_incomplete_tail"]
  /\ Go(p, "noted")
  /\ UNCHANGED <<Disk, archive, holder, recover, mustTell, log, acked, begun>>

\* Wrong on purpose: the file is replaced before the note says so.
BeforeTheNote(p) == pc[p] = "archived"

MayReplace(p) == pc[p] = "noted"

Repaired == IF tail.kind = "whole" THEN Append(file, tail.record) ELSE file

Replace(p) ==
  /\ MayReplace(p)
  /\ file' = Repaired /\ tail' = NoTail /\ synced' = Len(file')
  /\ mustTell' = [mustTell EXCEPT ![p] = TRUE]
  /\ Go(p, "replaced")
  /\ UNCHANGED <<Repairs, holder, recover, log, acked, begun>>

Load(p) ==
  /\ \/ pc[p] = "replaced"
     \/ pc[p] = "opened" /\ tail = NoTail
  /\ log' = [log EXCEPT ![p] = file]
  /\ Go(p, "ready")
  /\ UNCHANGED <<Disk, Repairs, holder, recover, mustTell, acked, begun>>

\* Wrong on purpose: appends go on after one failed.
ReadyOrFailed(p) == pc[p] \in {"ready", "failed"}

MayAppend(p) == pc[p] = "ready"

\* The first bytes of the next record reach the file.
BeginAppend(p) ==
  /\ MayAppend(p) /\ begun < MaxRecords
  /\ begun' = begun + 1
  /\ tail' = [kind |-> "torn",
              record |-> [seq |-> Len(log[p]), id |-> begun + 1, tells |-> mustTell[p]]]
  /\ mustTell' = [mustTell EXCEPT ![p] = FALSE]
  /\ Go(p, "writing")
  /\ UNCHANGED <<file, synced, Repairs, holder, recover, log, acked>>

WriteRest(p) ==
  /\ pc[p] = "writing" /\ tail.kind = "torn"
  /\ tail' = [tail EXCEPT !.kind = "whole"]
  /\ UNCHANGED <<file, synced, Repairs, holder, pc, recover, mustTell, log, acked, begun>>

WriteNewline(p) ==
  /\ pc[p] = "writing" /\ tail.kind = "whole"
  /\ file' = Append(file, tail.record) /\ tail' = NoTail
  /\ Go(p, "written")
  /\ UNCHANGED <<synced, Repairs, holder, recover, mustTell, log, acked, begun>>

\* Wrong on purpose: the append returns before the bytes are on the disk.
NotYetSynced == synced

AllSynced == Len(file)

\* flush and fsync; then the record is indexed and append returns.
Acknowledge(p) ==
  /\ pc[p] = "written"
  /\ synced' = AllSynced
  /\ log' = [log EXCEPT ![p] = Append(@, Last(file))]
  /\ acked' = Len(file)
  /\ Go(p, "ready")
  /\ UNCHANGED <<file, tail, Repairs, holder, recover, mustTell, begun>>

\* The append raises; what it wrote stays, and no more is appended.
Fail(p) ==
  /\ pc[p] \in {"ready", "writing", "written"}
  /\ Go(p, "failed")
  /\ UNCHANGED <<Disk, Repairs, holder, recover, mustTell, log, acked, begun>>

\* The store is closed, or opening raised.
Close(p) ==
  /\ pc[p] \in {"ready", "failed"}
  /\ Leave(p)
  /\ UNCHANGED <<Disk, Repairs, acked, begun>>

\* p is killed: the lock goes, the file stays as it is.
Kill(p) ==
  /\ pc[p] # "closed"
  /\ Leave(p)
  /\ UNCHANGED <<Disk, Repairs, acked, begun>>

\* All processes end, and lines that were not synced are lost or torn.
PowerLoss ==
  /\ \E n \in synced..Len(file) :
       /\ file' = SubSeq(file, 1, n)
       /\ \/ tail' = NoTail
          \/ /\ n < Len(file)
             /\ \E k \in {"torn", "whole"} : tail' = [kind |-> k, record |-> file[n + 1]]
          \/ /\ n = Len(file) /\ tail # NoTail
             /\ tail' \in {tail, [tail EXCEPT !.kind = "torn"]}
       /\ synced' = n
  /\ holder' = "none"
  /\ pc' = [p \in Process |-> "closed"]
  /\ recover' = [p \in Process |-> FALSE]
  /\ mustTell' = [p \in Process |-> FALSE]
  /\ log' = [p \in Process |-> <<>>]
  /\ UNCHANGED <<Repairs, acked, begun>>

Next ==
  \/ \E p \in Process :
       \/ Open(p) \/ Refuse(p) \/ Archive(p) \/ Note(p) \/ Replace(p) \/ Load(p)
       \/ BeginAppend(p) \/ WriteRest(p) \/ WriteNewline(p) \/ Acknowledge(p)
       \/ Fail(p) \/ Close(p) \/ Kill(p)
  \/ PowerLoss

Spec == Init /\ [][Next]_vars

-----------------------------------------------------------------------------
Tails == [kind : {"none", "torn", "whole"}, record : Record]

\* The variables have their types (store.py 56-105, 347-395).
TypeOK ==
  /\ file \in Seq(Record) /\ tail \in Tails
  /\ synced \in Nat /\ acked \in Nat /\ begun \in Nat
  /\ archive \subseteq Tails
  /\ note \in [tail : Tails, action : {"none", "complete_newline", "archive_incomplete_tail"}]
  /\ holder \in Process \cup {"none"}
  /\ pc \in [Process -> {"closed", "opened", "archived", "noted", "replaced", "ready",
                         "writing", "written", "failed"}]
  /\ recover \in [Process -> BOOLEAN] /\ mustTell \in [Process -> BOOLEAN]
  /\ log \in [Process -> Seq(Record)]

\* However appends fail and processes end, no number is used twice or left out in
\* the file, also after a repair, and the tail has the next one (store.py 195-239, 371-391).
Numbered ==
  /\ \A i \in DOMAIN file : file[i].seq = i - 1
  /\ tail # NoTail => tail.record.seq = Len(file)

\* A process that appends remembers the whole file and nothing else, although a
\* record can reach the file without its writer being told (store.py 77, 384-391).
MemoryIsFile ==
  \A p \in Process : pc[p] = "ready" => log[p] = file /\ tail = NoTail

\* A repair removes nothing it has not kept and announced: the bytes and the note
\* are there before the file is replaced (store.py 214-239).
RemovedBytesAreKept ==
  [][(\E p \in Process : pc'[p] = "replaced" /\ pc[p] # "replaced") =>
       tail \in archive /\ note.tail = tail /\ note.action # "none"]_vars

\* A record that is complete but for its newline counts.
Kept == IF tail.kind = "whole" THEN Append(file, tail.record) ELSE file

Abstract == INSTANCE Journal WITH log <- Kept

\* The store is a journal: an acknowledged record keeps its place whatever happens.
JournalSpec == Abstract!Spec
=============================================================================
