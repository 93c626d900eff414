------------------------- MODULE JournalStoreProofs -------------------------
(***************************************************************************)
(* JournalStore keeps what Journal promises, for any number of processes   *)
(* and records.  The inductive invariant adds to the checked ones who      *)
(* holds the lock, how the memory of a process differs from the file at    *)
(* each place, and that what was acknowledged is on the disk.              *)
(***************************************************************************)
EXTENDS JournalStore, TLAPS

\* What is acknowledged survives a power loss.
Bounds == acked <= synced /\ synced <= Len(file)

TailIsSomething == tail # NoTail => tail.kind \in {"torn", "whole"}

\* Only the holder of the lock has the store open.
Held == \A p \in Process : pc[p] # "closed" => holder = p

PlaceOf(p) ==
  /\ pc[p] = "ready" => log[p] = file /\ tail = NoTail
  /\ pc[p] = "writing" => log[p] = file /\ tail # NoTail
  /\ pc[p] = "written" => /\ tail = NoTail /\ Len(file) = Len(log[p]) + 1
                          /\ \A i \in 1..Len(log[p]) : log[p][i] = file[i]
  /\ pc[p] \in {"archived", "noted"} => tail # NoTail /\ tail \in archive
  /\ pc[p] = "noted" => note.tail = tail /\ note.action # "none"
  /\ pc[p] = "replaced" => tail = NoTail

Places == \A p \in Process : PlaceOf(p)

IInv == TypeOK /\ Numbered /\ Bounds /\ TailIsSomething /\ Held /\ Places

-----------------------------------------------------------------------------
\* No tail is a tail of kind none.
LEMMA NoTailIsATail == NoTail \in Tails /\ NoRecord \in Record /\ NoTail.kind = "none"
BY DEF NoTail, NoRecord, Tails, Record

\* A sequence is known from its length and its elements.
LEMMA SameSequence ==
  ASSUME NEW S, NEW s \in Seq(S), NEW t \in Seq(S), Len(s) = Len(t),
         \A i \in 1..Len(s) : s[i] = t[i]
  PROVE s = t
OBVIOUS

\* The invariant holds at first.
THEOREM InitIInv == Init => IInv
<1> SUFFICES ASSUME Init PROVE IInv
  OBVIOUS
<1> USE DEF Init
<1>1. TypeOK
  BY NoTailIsATail DEF TypeOK, NoNote, Tails
<1>2. Numbered /\ Bounds /\ TailIsSomething /\ Held
  BY DEF Numbered, Bounds, TailIsSomething, Held
<1>3. Places
  BY DEF Places, PlaceOf
<1> QED BY <1>1, <1>2, <1>3 DEF IInv

\* Opening keeps the invariant.
LEMMA OpenIInv ==
  ASSUME NEW p \in Process, IInv, Open(p)
  PROVE  IInv'
<1> USE JournalAssumption DEF IInv, Open, LockIsFree, Go, Disk, Repairs
<1>1. TypeOK'
  BY NoTailIsATail DEF TypeOK, Tails, Record
<1>2. Numbered'
  BY DEF TypeOK, Numbered, Places, PlaceOf, TailIsSomething
<1>3. Bounds'
  BY DEF TypeOK, Bounds
<1>4. TailIsSomething'
  BY DEF TypeOK, TailIsSomething, NoTail
<1>5. Held'
  BY DEF TypeOK, Held
<1>6. Places'
  BY DEF TypeOK, Places, PlaceOf, Held
<1> QED BY <1>1, <1>2, <1>3, <1>4, <1>5, <1>6

\* Refusing to open keeps the invariant.
LEMMA RefuseIInv ==
  ASSUME NEW p \in Process, IInv, Refuse(p)
  PROVE  IInv'
<1> USE JournalAssumption DEF IInv, Refuse, Leave, Go, Disk, Repairs
<1>1. TypeOK'
  BY NoTailIsATail DEF TypeOK, Tails, Record
<1>2. Numbered'
  BY DEF TypeOK, Numbered, Places, PlaceOf, TailIsSomething
<1>3. Bounds'
  BY DEF TypeOK, Bounds
<1>4. TailIsSomething'
  BY DEF TypeOK, TailIsSomething, NoTail
<1>5. Held'
  BY DEF TypeOK, Held
<1>6. Places'
  BY DEF TypeOK, Places, PlaceOf, Held
<1> QED BY <1>1, <1>2, <1>3, <1>4, <1>5, <1>6

\* Keeping the tail's bytes keeps the invariant.
LEMMA ArchiveIInv ==
  ASSUME NEW p \in Process, IInv, Archive(p)
  PROVE  IInv'
<1> USE JournalAssumption DEF IInv, Archive, Go, Disk, Repairs
<1>1. TypeOK'
  BY NoTailIsATail DEF TypeOK, Tails, Record
<1>2. Numbered'
  BY DEF TypeOK, Numbered, Places, PlaceOf, TailIsSomething
<1>3. Bounds'
  BY DEF TypeOK, Bounds
<1>4. TailIsSomething'
  BY DEF TypeOK, TailIsSomething, NoTail
<1>5. Held'
  BY DEF TypeOK, Held
<1>6. Places'
  BY DEF TypeOK, Places, PlaceOf, Held
<1> QED BY <1>1, <1>2, <1>3, <1>4, <1>5, <1>6

\* Noting the repair keeps the invariant.
LEMMA NoteIInv ==
  ASSUME NEW p \in Process, IInv, Note(p)
  PROVE  IInv'
<1> USE JournalAssumption DEF IInv, Note, Go, Disk, Repairs
<1>1. TypeOK'
  BY NoTailIsATail DEF TypeOK, Tails, Record
<1>2. Numbered'
  BY DEF TypeOK, Numbered, Places, PlaceOf, TailIsSomething
<1>3. Bounds'
  BY DEF TypeOK, Bounds
<1>4. TailIsSomething'
  BY DEF TypeOK, TailIsSomething, NoTail
<1>5. Held'
  BY DEF TypeOK, Held
<1>6. Places'
  BY DEF TypeOK, Places, PlaceOf, Held
<1> QED BY <1>1, <1>2, <1>3, <1>4, <1>5, <1>6

\* Replacing the file keeps the invariant.
LEMMA ReplaceIInv ==
  ASSUME NEW p \in Process, IInv, Replace(p)
  PROVE  IInv'
<1> USE JournalAssumption DEF IInv, Replace, MayReplace, Repaired, Go, Disk, Repairs
<1>1. TypeOK'
  <2>1. file' \in Seq(Record) /\ synced' \in Nat
    BY DEF TypeOK, Tails
  <2>2. tail' \in Tails
    BY NoTailIsATail
  <2> QED BY <2>1, <2>2 DEF TypeOK
<1>2. Numbered'
  BY DEF TypeOK, Numbered, Places, PlaceOf, TailIsSomething
<1>3. Bounds'
  BY DEF TypeOK, Bounds
<1>4. TailIsSomething'
  BY DEF TypeOK, TailIsSomething, NoTail
<1>5. Held'
  BY DEF TypeOK, Held
<1>6. Places'
  BY DEF TypeOK, Places, PlaceOf, Held
<1> QED BY <1>1, <1>2, <1>3, <1>4, <1>5, <1>6

\* Reading the file keeps the invariant.
LEMMA LoadIInv ==
  ASSUME NEW p \in Process, IInv, Load(p)
  PROVE  IInv'
<1> USE JournalAssumption DEF IInv, Load, Go, Disk, Repairs
<1>1. TypeOK'
  BY NoTailIsATail DEF TypeOK, Tails, Record
<1>2. Numbered'
  BY DEF TypeOK, Numbered, Places, PlaceOf, TailIsSomething
<1>3. Bounds'
  BY DEF TypeOK, Bounds
<1>4. TailIsSomething'
  BY DEF TypeOK, TailIsSomething, NoTail
<1>5. Held'
  BY DEF TypeOK, Held
<1>6. Places'
  BY DEF TypeOK, Places, PlaceOf, Held
<1> QED BY <1>1, <1>2, <1>3, <1>4, <1>5, <1>6

\* The first bytes of an append keeps the invariant.
LEMMA BeginAppendIInv ==
  ASSUME NEW p \in Process, IInv, BeginAppend(p)
  PROVE  IInv'
<1> USE JournalAssumption DEF IInv, BeginAppend, MayAppend, Go, Disk, Repairs
<1>1. TypeOK'
  BY NoTailIsATail DEF TypeOK, Tails, Record
<1>2. Numbered'
  BY DEF TypeOK, Numbered, Places, PlaceOf, TailIsSomething
<1>3. Bounds'
  BY DEF TypeOK, Bounds
<1>4. TailIsSomething'
  BY DEF TypeOK, TailIsSomething, NoTail
<1>5. Held'
  BY DEF TypeOK, Held
<1>6. Places'
  <2>1. \A q \in Process \ {p} : pc[q] = "closed" /\ pc'[q] = "closed"
    BY DEF TypeOK, Held
  <2>2. \A q \in Process \ {p} : PlaceOf(q)'
    BY <2>1 DEF PlaceOf
  <2>3. PlaceOf(p)'
    BY DEF TypeOK, Places, PlaceOf, NoTail
  <2> QED BY <2>2, <2>3 DEF Places
<1> QED BY <1>1, <1>2, <1>3, <1>4, <1>5, <1>6

\* The rest of an append keeps the invariant.
LEMMA WriteRestIInv ==
  ASSUME NEW p \in Process, IInv, WriteRest(p)
  PROVE  IInv'
<1> USE JournalAssumption DEF IInv, WriteRest, Go, Disk, Repairs
<1>1. TypeOK'
  BY NoTailIsATail DEF TypeOK, Tails, Record
<1>2. Numbered'
  BY DEF TypeOK, Numbered, Places, PlaceOf, TailIsSomething
<1>3. Bounds'
  BY DEF TypeOK, Bounds
<1>4. TailIsSomething'
  BY DEF TypeOK, TailIsSomething, NoTail
<1>5. Held'
  BY DEF TypeOK, Held
<1>6. Places'
  <2>1. \A q \in Process \ {p} : pc[q] = "closed" /\ pc'[q] = "closed"
    BY DEF TypeOK, Held
  <2>2. \A q \in Process \ {p} : PlaceOf(q)'
    BY <2>1 DEF PlaceOf
  <2>3. tail' # NoTail
    BY DEF TypeOK, Tails, NoTail
  <2>4. PlaceOf(p)'
    BY <2>3 DEF Places, PlaceOf
  <2> QED BY <2>2, <2>4 DEF Places
<1> QED BY <1>1, <1>2, <1>3, <1>4, <1>5, <1>6

\* The newline of an append keeps the invariant.
LEMMA WriteNewlineIInv ==
  ASSUME NEW p \in Process, IInv, WriteNewline(p)
  PROVE  IInv'
<1> USE JournalAssumption DEF IInv, WriteNewline, Go, Disk, Repairs
<1>1. TypeOK'
  BY NoTailIsATail DEF TypeOK, Tails, Record
<1>2. Numbered'
  BY DEF TypeOK, Numbered, Places, PlaceOf, TailIsSomething
<1>3. Bounds'
  BY DEF TypeOK, Bounds
<1>4. TailIsSomething'
  BY DEF TypeOK, TailIsSomething, NoTail
<1>5. Held'
  BY DEF TypeOK, Held
<1>6. Places'
  <2>1. \A q \in Process \ {p} : pc[q] = "closed" /\ pc'[q] = "closed"
    BY DEF TypeOK, Held
  <2>2. \A q \in Process \ {p} : PlaceOf(q)'
    BY <2>1 DEF PlaceOf
  <2>3. PlaceOf(p)'
    BY DEF TypeOK, Places, PlaceOf, Tails
  <2> QED BY <2>2, <2>3 DEF Places
<1> QED BY <1>1, <1>2, <1>3, <1>4, <1>5, <1>6

\* Telling the writer keeps the invariant.
LEMMA AcknowledgeIInv ==
  ASSUME NEW p \in Process, IInv, Acknowledge(p)
  PROVE  IInv'
<1> USE JournalAssumption DEF IInv, Acknowledge, AllSynced, Go, Disk, Repairs
<1>1. TypeOK'
  <2>1. file # <<>> /\ Last(file) \in Record
    BY DEF TypeOK, Places, PlaceOf, Last
  <2> QED BY <2>1 DEF TypeOK
<1>2. Numbered'
  BY DEF TypeOK, Numbered, Places, PlaceOf, TailIsSomething
<1>3. Bounds'
  BY DEF TypeOK, Bounds
<1>4. TailIsSomething'
  BY DEF TypeOK, TailIsSomething, NoTail
<1>5. Held'
  BY DEF TypeOK, Held
<1>6. Places'
  <2>1. \A q \in Process \ {p} : pc[q] = "closed" /\ pc'[q] = "closed"
    BY DEF TypeOK, Held
  <2>2. \A q \in Process \ {p} : PlaceOf(q)'
    BY <2>1 DEF PlaceOf
  <2>3. PlaceOf(p)'
    <3>1. /\ log[p] \in Seq(Record) /\ file \in Seq(Record) /\ tail = NoTail
          /\ Len(file) = Len(log[p]) + 1 /\ Last(file) = file[Len(file)] /\ Last(file) \in Record
          /\ \A i \in 1..Len(log[p]) : log[p][i] = file[i]
      BY DEF TypeOK, Places, PlaceOf, Last
    <3>2. Append(log[p], Last(file)) = file
      <4> DEFINE t == Append(log[p], Last(file))
      <4>1. t \in Seq(Record) /\ Len(t) = Len(file)
        BY <3>1
      <4>2. \A i \in 1..Len(t) : t[i] = file[i]
        BY <3>1
      <4> QED BY <3>1, <4>1, <4>2, SameSequence
    <3>3. log'[p] = file' /\ tail' = NoTail /\ pc'[p] = "ready"
      BY <3>1, <3>2 DEF TypeOK
    <3> QED BY <3>3 DEF PlaceOf
  <2> QED BY <2>2, <2>3 DEF Places
<1> QED BY <1>1, <1>2, <1>3, <1>4, <1>5, <1>6

\* A failed append keeps the invariant.
LEMMA FailIInv ==
  ASSUME NEW p \in Process, IInv, Fail(p)
  PROVE  IInv'
<1> USE JournalAssumption DEF IInv, Fail, Go, Disk, Repairs
<1>1. TypeOK'
  BY NoTailIsATail DEF TypeOK, Tails, Record
<1>2. Numbered'
  BY DEF TypeOK, Numbered, Places, PlaceOf, TailIsSomething
<1>3. Bounds'
  BY DEF TypeOK, Bounds
<1>4. TailIsSomething'
  BY DEF TypeOK, TailIsSomething, NoTail
<1>5. Held'
  BY DEF TypeOK, Held
<1>6. Places'
  BY DEF TypeOK, Places, PlaceOf, Held
<1> QED BY <1>1, <1>2, <1>3, <1>4, <1>5, <1>6

\* Closing keeps the invariant.
LEMMA CloseIInv ==
  ASSUME NEW p \in Process, IInv, Close(p)
  PROVE  IInv'
<1> USE JournalAssumption DEF IInv, Close, Leave, Go, Disk, Repairs
<1>1. TypeOK'
  BY NoTailIsATail DEF TypeOK, Tails, Record
<1>2. Numbered'
  BY DEF TypeOK, Numbered, Places, PlaceOf, TailIsSomething
<1>3. Bounds'
  BY DEF TypeOK, Bounds
<1>4. TailIsSomething'
  BY DEF TypeOK, TailIsSomething, NoTail
<1>5. Held'
  BY DEF TypeOK, Held
<1>6. Places'
  BY DEF TypeOK, Places, PlaceOf, Held
<1> QED BY <1>1, <1>2, <1>3, <1>4, <1>5, <1>6

\* A kill keeps the invariant.
LEMMA KillIInv ==
  ASSUME NEW p \in Process, IInv, Kill(p)
  PROVE  IInv'
<1> USE JournalAssumption DEF IInv, Kill, Leave, Go, Disk, Repairs
<1>1. TypeOK'
  BY NoTailIsATail DEF TypeOK, Tails, Record
<1>2. Numbered'
  BY DEF TypeOK, Numbered, Places, PlaceOf, TailIsSomething
<1>3. Bounds'
  BY DEF TypeOK, Bounds
<1>4. TailIsSomething'
  BY DEF TypeOK, TailIsSomething, NoTail
<1>5. Held'
  BY DEF TypeOK, Held
<1>6. Places'
  BY DEF TypeOK, Places, PlaceOf, Held
<1> QED BY <1>1, <1>2, <1>3, <1>4, <1>5, <1>6

\* A power loss keeps the invariant.
LEMMA PowerLossIInv ==
  ASSUME IInv, PowerLoss
  PROVE  IInv'
<1> USE JournalAssumption DEF IInv
<1>1. PICK n \in synced..Len(file) :
        /\ file' = SubSeq(file, 1, n) /\ synced' = n
        /\ \/ tail' = NoTail
           \/ /\ n < Len(file)
              /\ \E k \in {"torn", "whole"} : tail' = [kind |-> k, record |-> file[n + 1]]
           \/ /\ n = Len(file) /\ tail # NoTail
              /\ tail' \in {tail, [tail EXCEPT !.kind = "torn"]}
  BY DEF PowerLoss
<1>2. n \in Nat /\ n <= Len(file) /\ file \in Seq(Record) /\ tail \in Tails
  BY <1>1 DEF TypeOK, Bounds
<1>3. file' \in Seq(Record) /\ Len(file') = n /\ \A i \in 1..n : file'[i] = file[i]
  BY <1>1, <1>2
<1>4. tail' \in Tails /\ (tail' # NoTail => tail'.kind \in {"torn", "whole"})
  <2>1. CASE tail' = NoTail
    BY <2>1, NoTailIsATail
  <2>2. ASSUME n < Len(file), NEW k \in {"torn", "whole"}, tail' = [kind |-> k, record |-> file[n + 1]]
        PROVE tail' \in Tails /\ tail'.kind \in {"torn", "whole"}
    <3>1. file[n + 1] \in Record
      BY <1>2, <2>2
    <3> QED BY <2>2, <3>1 DEF Tails
  <2>3. ASSUME tail # NoTail, tail' \in {tail, [tail EXCEPT !.kind = "torn"]}
        PROVE tail' \in Tails /\ tail'.kind \in {"torn", "whole"}
    BY <1>2, <2>3 DEF Tails, TailIsSomething
  <2> QED BY <1>1, <2>1, <2>2, <2>3
<1>5. TypeOK'
  BY <1>1, <1>2, <1>3, <1>4 DEF TypeOK, PowerLoss, Repairs
<1>6. Numbered'
  <2>1. \A i \in DOMAIN file' : file'[i].seq = i - 1
    BY <1>2, <1>3 DEF Numbered
  <2>2. ASSUME n < Len(file), NEW k \in {"torn", "whole"}, tail' = [kind |-> k, record |-> file[n + 1]]
        PROVE tail'.record.seq = Len(file')
    <3>1. file[n + 1].seq = n
      BY <1>2, <2>2 DEF Numbered
    <3> QED BY <1>3, <2>2, <3>1
  <2>3. ASSUME n = Len(file), tail # NoTail, tail' \in {tail, [tail EXCEPT !.kind = "torn"]}
        PROVE tail'.record.seq = Len(file')
    <3>1. tail.record.seq = n
      BY <2>3 DEF Numbered
    <3> QED BY <1>2, <1>3, <2>3, <3>1 DEF Tails
  <2> QED BY <1>1, <2>1, <2>2, <2>3 DEF Numbered
<1>7. Bounds'
  BY <1>1, <1>2, <1>3 DEF Bounds, TypeOK, PowerLoss
<1>8. TailIsSomething' /\ Held' /\ Places'
  BY <1>4 DEF TailIsSomething, Held, Places, PlaceOf, PowerLoss
<1> QED BY <1>5, <1>6, <1>7, <1>8

\* The invariant is inductive.
THEOREM NextIInv == IInv /\ [Next]_vars => IInv'
<1> SUFFICES ASSUME IInv, [Next]_vars PROVE IInv'
  OBVIOUS
<1>1. CASE UNCHANGED vars
  BY <1>1 DEF IInv, vars, TypeOK, Numbered, Bounds, TailIsSomething, Held, Places, PlaceOf
<1>2. ASSUME NEW p \in Process,
             \/ Open(p) \/ Refuse(p) \/ Archive(p) \/ Note(p) \/ Replace(p) \/ Load(p)
             \/ BeginAppend(p) \/ WriteRest(p) \/ WriteNewline(p) \/ Acknowledge(p)
             \/ Fail(p) \/ Close(p) \/ Kill(p)
      PROVE IInv'
  BY <1>2, OpenIInv, RefuseIInv, ArchiveIInv, NoteIInv, ReplaceIInv, LoadIInv, BeginAppendIInv,
     WriteRestIInv, WriteNewlineIInv, AcknowledgeIInv, FailIInv, CloseIInv, KillIInv
<1>3. CASE PowerLoss
  BY <1>3, PowerLossIInv
<1> QED BY <1>1, <1>2, <1>3 DEF Next

\* The invariant always holds.
THEOREM StoreInvariant == Spec => []IInv
BY InitIInv, NextIInv, PTL DEF Spec

\* The types hold.
THEOREM StoreTypes == Spec => []TypeOK
<1>1. IInv => TypeOK
  BY DEF IInv
<1> QED BY <1>1, StoreInvariant, PTL

\* No number is used twice or left out.
THEOREM StoreNumbers == Spec => []Numbered
<1>1. IInv => Numbered
  BY DEF IInv
<1> QED BY <1>1, StoreInvariant, PTL

\* A process that may append knows the whole file.
THEOREM StoreMemory == Spec => []MemoryIsFile
<1>1. IInv => MemoryIsFile
  BY DEF IInv, Places, PlaceOf, MemoryIsFile
<1> QED BY <1>1, StoreInvariant, PTL

\* Bytes are kept and announced before they go.
THEOREM StoreKeepsBytes == Spec => RemovedBytesAreKept
<1>1. IInv /\ [Next]_vars =>
        [(\E p \in Process : pc'[p] = "replaced" /\ pc[p] # "replaced") =>
           tail \in archive /\ note.tail = tail /\ note.action # "none"]_vars
  <2> SUFFICES ASSUME IInv, Next, NEW p \in Process, pc'[p] = "replaced", pc[p] # "replaced"
               PROVE tail \in archive /\ note.tail = tail /\ note.action # "none"
    OBVIOUS
  <2>1. PICK q \in Process : Replace(q)
    BY DEF Next, Open, Refuse, Archive, Note, Load, BeginAppend, WriteRest, WriteNewline,
       Acknowledge, Fail, Close, Kill, PowerLoss, Leave, Go, IInv, TypeOK
  <2>2. pc[q] = "noted"
    BY <2>1 DEF Replace, MayReplace
  <2> QED BY <2>2 DEF IInv, Places, PlaceOf
<1> QED BY <1>1, StoreInvariant, PTL DEF Spec, RemovedBytesAreKept

-----------------------------------------------------------------------------
\* The records that count are a sequence of records.
LEMMA KeptIsASequence == TypeOK => Kept \in Seq(Record)
BY DEF TypeOK, Kept, Tails

\* If what counts stays, the journal stutters.
LEMMA SameKept ==
  ASSUME Kept' = Kept, acked' = acked
  PROVE  UNCHANGED Abstract!vars
BY DEF Abstract!vars
\* A record more, and nobody told yet.
LEMMA OneMoreIsWrite ==
  ASSUME TypeOK, NEW r \in Record, r.seq = Len(Kept), Kept' = Append(Kept, r), acked' = acked
  PROVE  Abstract!Write
BY KeptIsASequence DEF Abstract!Write

\* The first state of the store is the first of the journal.
LEMMA InitImplements == Init => Abstract!Init
BY DEF Init, Abstract!Init, Kept, NoTail

\* Whole, newline and repair do not change what counts, or complete it.
LEMMA StepImplements == IInv /\ IInv' /\ [Next]_vars => [Abstract!Next]_(Abstract!vars)
<1> SUFFICES ASSUME IInv, IInv', [Next]_vars PROVE [Abstract!Next]_(Abstract!vars)
  OBVIOUS
<1> USE DEF IInv
<1>1. CASE UNCHANGED vars
  BY <1>1, SameKept DEF vars, Kept
<1>2. ASSUME NEW p \in Process,
             \/ Open(p) \/ Refuse(p) \/ Archive(p) \/ Note(p) \/ Load(p) \/ Fail(p) \/ Close(p) \/ Kill(p)
      PROVE UNCHANGED Abstract!vars
  <2>1. UNCHANGED <<Disk, acked>>
    BY <1>2 DEF Open, Refuse, Archive, Note, Load, Fail, Close, Kill
  <2> QED BY <2>1, SameKept DEF Disk, Kept
<1>3. ASSUME NEW p \in Process, Replace(p) PROVE UNCHANGED Abstract!vars
  <2>1. Kept' = Kept /\ acked' = acked
    BY <1>3 DEF Replace, Repaired, Kept, NoTail
  <2> QED BY <2>1, SameKept
<1>4. ASSUME NEW p \in Process, BeginAppend(p) PROVE UNCHANGED Abstract!vars
  <2>1. tail.kind = "none" /\ tail'.kind = "torn" /\ UNCHANGED <<file, acked>>
    BY <1>4 DEF BeginAppend, MayAppend, Places, PlaceOf, NoTail
  <2> QED BY <2>1, SameKept DEF Kept
<1>5. ASSUME NEW p \in Process, WriteRest(p) PROVE Abstract!Write
  <2>1. tail \in Tails /\ tail.kind = "torn" /\ UNCHANGED <<file, acked>>
        /\ tail' = [tail EXCEPT !.kind = "whole"] /\ tail.record.seq = Len(file)
    BY <1>5 DEF WriteRest, TypeOK, Numbered, NoTail
  <2>2. Kept = file /\ Kept' = Append(file, tail.record) /\ tail.record \in Record
    BY <2>1 DEF Kept, Tails
  <2> QED BY <2>1, <2>2, OneMoreIsWrite
<1>6. ASSUME NEW p \in Process, WriteNewline(p) PROVE UNCHANGED Abstract!vars
  <2>1. Kept' = Kept /\ acked' = acked
    BY <1>6 DEF WriteNewline, Kept, NoTail
  <2> QED BY <2>1, SameKept
<1>7. ASSUME NEW p \in Process, Acknowledge(p) PROVE Abstract!Acknowledge
  <2>1. tail = NoTail /\ UNCHANGED <<file, tail>> /\ acked' = Len(file)
    BY <1>7 DEF Acknowledge, Places, PlaceOf
  <2> QED BY <2>1 DEF Abstract!Acknowledge, Kept, NoTail
<1>8. CASE PowerLoss
  <2>1. Kept \in Seq(Record) /\ file \in Seq(Record) /\ acked \in Nat /\ synced \in Nat
        /\ acked <= synced /\ synced <= Len(file) /\ acked' = acked
    BY <1>8, KeptIsASequence DEF TypeOK, Bounds, PowerLoss
  <2>2. PICK n \in synced..Len(file) :
          /\ file' = SubSeq(file, 1, n)
          /\ \/ tail' = NoTail
             \/ /\ n < Len(file)
                /\ \E k \in {"torn", "whole"} : tail' = [kind |-> k, record |-> file[n + 1]]
             \/ /\ n = Len(file) /\ tail # NoTail
                /\ tail' \in {tail, [tail EXCEPT !.kind = "torn"]}
    BY <1>8 DEF PowerLoss
  <2>3. SubSeq(Kept, 1, n) = SubSeq(file, 1, n) /\ n <= Len(Kept)
    BY <2>1 DEF Kept, TypeOK, Tails
  <2>4. \E m \in acked..Len(Kept) : Kept' = SubSeq(Kept, 1, m)
    <3>1. CASE tail'.kind # "whole"
      BY <2>1, <2>2, <2>3, <3>1 DEF Kept
    <3>2. ASSUME n < Len(file), tail' = [kind |-> "whole", record |-> file[n + 1]]
          PROVE Kept' = SubSeq(Kept, 1, n + 1) /\ n + 1 \in acked..Len(Kept)
      <4>1. Kept' = Append(SubSeq(file, 1, n), file[n + 1])
        BY <2>2, <3>2 DEF Kept
      <4>2. Append(SubSeq(file, 1, n), file[n + 1]) = SubSeq(file, 1, n + 1)
        <5>1. /\ Append(SubSeq(file, 1, n), file[n + 1]) \in Seq(Record)
              /\ SubSeq(file, 1, n + 1) \in Seq(Record)
              /\ Len(SubSeq(file, 1, n + 1)) = n + 1
              /\ Len(Append(SubSeq(file, 1, n), file[n + 1])) = n + 1
          BY <2>1, <2>2, <3>2
        <5>2. \A i \in 1..(n + 1) :
                Append(SubSeq(file, 1, n), file[n + 1])[i] = SubSeq(file, 1, n + 1)[i]
          BY <2>1, <2>2, <3>2
        <5> QED BY <5>1, <5>2, SameSequence
      <4>3. SubSeq(Kept, 1, n + 1) = SubSeq(file, 1, n + 1) /\ n + 1 <= Len(Kept)
        BY <2>1, <3>2 DEF Kept, TypeOK, Tails
      <4> QED BY <2>1, <2>2, <4>1, <4>2, <4>3
    <3>3. ASSUME n = Len(file), tail # NoTail, tail'.kind = "whole",
                 tail' \in {tail, [tail EXCEPT !.kind = "torn"]}
          PROVE Kept' = SubSeq(Kept, 1, Len(Kept)) /\ Len(Kept) \in acked..Len(Kept)
      <4>1. tail' = tail
        BY <3>3 DEF TypeOK, Tails
      <4>2. file' = file
        <5>1. SubSeq(file, 1, n) \in Seq(Record) /\ Len(SubSeq(file, 1, n)) = Len(file)
              /\ \A i \in 1..Len(file) : SubSeq(file, 1, n)[i] = file[i]
          BY <2>1, <3>3
        <5> QED BY <2>1, <2>2, <5>1, SameSequence
      <4>3. SubSeq(Kept, 1, Len(Kept)) = Kept
        <5>1. SubSeq(Kept, 1, Len(Kept)) \in Seq(Record) /\ Len(SubSeq(Kept, 1, Len(Kept))) = Len(Kept)
              /\ \A i \in 1..Len(Kept) : SubSeq(Kept, 1, Len(Kept))[i] = Kept[i]
          BY <2>1
        <5> QED BY <2>1, <5>1, SameSequence
      <4>4. Kept' = Kept
        BY <4>1, <4>2 DEF Kept
      <4> QED BY <2>1, <2>3, <3>3, <4>3, <4>4
    <3>4. CASE tail' = NoTail
      BY <3>1, <3>4, NoTailIsATail
    <3>5. ASSUME n < Len(file), NEW k \in {"torn", "whole"}, tail' = [kind |-> k, record |-> file[n + 1]]
          PROVE \E m \in acked..Len(Kept) : Kept' = SubSeq(Kept, 1, m)
      <4>1. CASE k = "torn"
        BY <3>1, <3>5, <4>1
      <4>2. CASE k = "whole"
        BY <3>2, <3>5, <4>2
      <4> QED BY <4>1, <4>2
    <3>6. ASSUME n = Len(file), tail # NoTail, tail' \in {tail, [tail EXCEPT !.kind = "torn"]}
          PROVE \E m \in acked..Len(Kept) : Kept' = SubSeq(Kept, 1, m)
      BY <3>1, <3>3, <3>6
    <3> QED BY <2>2, <3>4, <3>5, <3>6
  <2> QED BY <2>1, <2>4 DEF Abstract!Forget, Abstract!Next
<1> QED
  BY <1>1, <1>2, <1>3, <1>4, <1>5, <1>6, <1>7, <1>8 DEF Next, Abstract!Next

\* The store implements the journal.
THEOREM StoreIsJournal == Spec => JournalSpec
BY InitImplements, StepImplements, StoreInvariant, PTL DEF Spec, JournalSpec, Abstract!Spec
=============================================================================
