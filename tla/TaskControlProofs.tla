------------------------- MODULE TaskControlProofs -------------------------
(***************************************************************************)
(* Proofs about TaskControl, for any commands, requests and restarts.      *)
(*                                                                         *)
(* The memory of a task, the last checkpoint and a memory rebuilt from it  *)
(* all reflect a part of the journal: they know which commands it          *)
(* acknowledges, whether a pause is in force, whether a tool interaction   *)
(* is open and whether an answer still stands.  One more event, replayed,  *)
(* makes a memory reflect one event more; by induction over the suffix of  *)
(* the journal a resume reflects all of it.                                *)
(***************************************************************************)
EXTENDS TaskControl, FiniteSetTheorems, WellFoundedInduction, TLAPS

\* The memory m knows what the first n events of s say; d: completion is decided
\* by saved results.
Reflects(s, d, m, n) ==
  /\ m \in Memory
  /\ m.applied = {s[i].command.id : i \in Acks(s, n)}
  /\ m.paused <=> Paused(s, n)
  /\ m.pending # "open" => Whole(s, n)
  /\ m.terminal = "completed" /\ ~d => Answered(s, n)
  /\ m.evidence => d

\* Acknowledgements in s go through the commands of box, one after the other.
InOrder(s, box) ==
  /\ Cardinality(Acks(s, Len(s))) <= Len(box)
  /\ \A n \in Acks(s, Len(s)) :
       /\ Cardinality(Acks(s, n)) \in 1 .. Len(box)
       /\ s[n].command = box[Cardinality(Acks(s, n))]
  /\ \A k \in 1 .. Cardinality(Acks(s, Len(s))) :
       \E n \in Acks(s, Len(s)) : s[n].command = box[k]

\* No two commands have the same identity.
Identities(box, new) ==
  /\ \A i, j \in 1 .. Len(box) : box[i].id = box[j].id => i = j
  /\ new # None => \A i \in 1 .. Len(box) : box[i].id # new.id

\* What is still to be looked at are commands of box, the first of them at most
\* one behind those acknowledged.
Behind(box, rest, j) == \A i \in 1 .. Len(rest) : j + i <= Len(box) /\ rest[i] = box[j + i]

Unread(s, box, rest) == \E j \in 0 .. Cardinality(Acks(s, Len(s))) : Behind(box, rest, j)

\* What the first n events of s must say for e to be the next.
Allowed(s, d, n, e) ==
  /\ e.kind = "request" => ~Paused(s, n)
  /\ e.kind \in {"control", "request"} => Whole(s, n)
  /\ e.kind = "completed" /\ ~d => Answered(s, n)

Lawful(s, d, n) == Allowed(s, d, n - 1, s[n])

AtRest == {"saving", "loop", "deliver", "asleep", "decide", "await", "failed"}

Memories ==
  /\ Reflects(journal, domain, saved.mem, saved.at)
  /\ pc \in AtRest => Reflects(journal, domain, mem, Len(journal))
  /\ pc = "replied" => /\ journal # <<>> /\ journal[Len(journal)].kind \in Reply
                       /\ Reflects(journal, domain, mem, Len(journal) - 1)
  /\ pc = "none" => journal = <<>> /\ mem = Blank
  /\ pc = "stopping" => /\ journal # <<>>
                         /\ journal[Len(journal)].kind \in {"completed", "stopped"}

Places ==
  /\ pc \in {"deliver", "asleep", "decide", "await", "failed", "replied"} => mem.pending = "none"
  /\ pc \in {"decide", "await", "failed", "replied"} => ~mem.paused
  /\ pc = "deliver" => Unread(journal, inbox, todo)

ControlInvariant ==
  /\ TypeOK
  /\ Identities(inbox, draft)
  /\ InOrder(journal, inbox)
  /\ Memories
  /\ Places
  /\ \A n \in 1 .. Len(journal) : Lawful(journal, domain, n)

-----------------------------------------------------------------------------
(* Numbers and finite sets of them. *)

\* Every set of numbers has a smallest one, and so has a claim that fails
\* somewhere: the induction of this module.
LEMMA Smallest ==
  ASSUME NEW S, S \subseteq Nat, S # {}
  PROVE  \E m \in S : \A n \in S : m <= n
<1> DEFINE R == OpToRel(<, Nat)
<1>1. \A x, y \in Nat : x < y => <<x, y>> \in R
  BY DEF OpToRel
<1>2. IsWellFoundedOn(R, Nat)
  BY NatLessThanWellFounded
<1> HIDE DEF R
<1>3. PICK x \in S : \A y \in S : ~(<<y, x>> \in R)
  BY <1>2, WFMin
<1>4. ASSUME NEW y \in S PROVE x <= y
  <2>1. ~(y < x)
    BY <1>1, <1>3
  <2> QED
    BY <2>1
<1> QED
  BY <1>4

\* Acknowledgements are finitely many, and more the further one looks.
LEMMA AcksFinite ==
  ASSUME NEW s, NEW n \in Nat
  PROVE  IsFiniteSet(Acks(s, n)) /\ Cardinality(Acks(s, n)) \in Nat
<1>1. IsFiniteSet(1 .. n) /\ Acks(s, n) \subseteq 1 .. n
  BY FS_Interval DEF Acks
<1> QED
  BY <1>1, FS_Subset, FS_CardinalityType

LEMMA AcksGrow ==
  ASSUME NEW s, NEW m \in Nat, NEW n \in Nat, m <= n
  PROVE  /\ Cardinality(Acks(s, m)) <= Cardinality(Acks(s, n))
         /\ n \in Acks(s, n) /\ m < n => Cardinality(Acks(s, m)) < Cardinality(Acks(s, n))
         /\ n \in Acks(s, n) => Cardinality(Acks(s, n)) >= 1
<1>1. Acks(s, m) \subseteq Acks(s, n) /\ (m < n => n \notin Acks(s, m))
  BY DEF Acks
<1>2. IsFiniteSet(Acks(s, n)) /\ Cardinality(Acks(s, n)) \in Nat /\ Cardinality(Acks(s, m)) \in Nat
  BY AcksFinite
<1>3. /\ Cardinality(Acks(s, m)) <= Cardinality(Acks(s, n))
      /\ Cardinality(Acks(s, n)) = Cardinality(Acks(s, m)) => Acks(s, n) = Acks(s, m)
  BY <1>1, <1>2, FS_Subset
<1>4. Cardinality(Acks(s, n)) = 0 => Acks(s, n) = {}
  BY <1>2, FS_EmptySet
<1> QED
  BY <1>1, <1>2, <1>3, <1>4

\* One event more.
LEMMA AcksNext ==
  ASSUME NEW s, NEW n \in Nat
  PROVE  /\ s[n + 1].kind = "control" =>
              /\ Acks(s, n + 1) = Acks(s, n) \cup {n + 1}
              /\ Cardinality(Acks(s, n + 1)) = Cardinality(Acks(s, n)) + 1
         /\ s[n + 1].kind # "control" => Acks(s, n + 1) = Acks(s, n)
<1>1. n + 1 \notin Acks(s, n)
  BY DEF Acks
<1>2. s[n + 1].kind = "control" => Acks(s, n + 1) = Acks(s, n) \cup {n + 1}
  BY DEF Acks
<1>3. s[n + 1].kind # "control" => Acks(s, n + 1) = Acks(s, n)
  BY DEF Acks
<1>4. Cardinality(Acks(s, n) \cup {n + 1}) = Cardinality(Acks(s, n)) + 1
  BY <1>1, AcksFinite, FS_AddElement
<1> QED
  BY <1>2, <1>3, <1>4

LEMMA PausedNext ==
  ASSUME NEW s, NEW n \in Nat
  PROVE  Paused(s, n + 1) <=> IF Switches(s[n + 1]) THEN s[n + 1].command.action = "pause"
                              ELSE Paused(s, n)
<1>1. CASE Switches(s[n + 1]) /\ s[n + 1].command.action = "pause"
  BY <1>1 DEF Paused
<1>2. CASE Switches(s[n + 1]) /\ s[n + 1].command.action # "pause"
  <2>1. ASSUME NEW p \in 1 .. n + 1, s[p].command.action = "pause"
        PROVE  n + 1 \in p + 1 .. n + 1
    BY <1>2, <2>1
  <2> QED
    BY <1>2, <2>1 DEF Paused
<1>3. CASE ~Switches(s[n + 1])
  <2>1. ASSUME Paused(s, n) PROVE Paused(s, n + 1)
    <3>1. PICK p \in 1 .. n : /\ Switches(s[p]) /\ s[p].command.action = "pause"
                              /\ \A q \in p + 1 .. n : ~Switches(s[q])
      BY <2>1 DEF Paused
    <3>2. \A q \in p + 1 .. n + 1 : ~Switches(s[q])
      BY <1>3, <3>1
    <3> QED
      BY <3>1, <3>2 DEF Paused
  <2>2. ASSUME Paused(s, n + 1) PROVE Paused(s, n)
    <3>1. PICK p \in 1 .. n + 1 : /\ Switches(s[p]) /\ s[p].command.action = "pause"
                                  /\ \A q \in p + 1 .. n + 1 : ~Switches(s[q])
      BY <2>2 DEF Paused
    <3>2. p \in 1 .. n
      BY <1>3, <3>1
    <3> QED
      BY <3>1, <3>2 DEF Paused
  <2> QED
    BY <1>3, <2>1, <2>2
<1> QED
  BY <1>1, <1>2, <1>3

LEMMA WholeNext ==
  ASSUME NEW s, NEW n \in Nat
  PROVE  /\ s[n + 1].kind = "results" => Whole(s, n + 1)
         /\ Whole(s, n) /\ s[n + 1].kind # "calls" => Whole(s, n + 1)
<1>1. ASSUME s[n + 1].kind = "results" PROVE Whole(s, n + 1)
  <2> SUFFICES ASSUME NEW c \in 1 .. n + 1, s[c].kind = "calls"
               PROVE  \E r \in c + 1 .. n + 1 : s[r].kind = "results"
    BY DEF Whole
  <2>1. n + 1 \in c + 1 .. n + 1
    BY <1>1
  <2> QED
    BY <1>1, <2>1
<1>2. ASSUME Whole(s, n), s[n + 1].kind # "calls" PROVE Whole(s, n + 1)
  <2> SUFFICES ASSUME NEW c \in 1 .. n + 1, s[c].kind = "calls"
               PROVE  \E r \in c + 1 .. n + 1 : s[r].kind = "results"
    BY DEF Whole
  <2>1. c \in 1 .. n
    BY <1>2
  <2>2. PICK r \in c + 1 .. n : s[r].kind = "results"
    BY <1>2, <2>1 DEF Whole
  <2> QED
    BY <2>2
<1> QED
  BY <1>1, <1>2

LEMMA AnsweredNext ==
  ASSUME NEW s, NEW n \in Nat
  PROVE  /\ s[n + 1].kind = "answer" => Answered(s, n + 1)
         /\ Answered(s, n) /\ (s[n + 1].kind = "control" => s[n + 1].command.action # "message")
              => Answered(s, n + 1)
<1>1. s[n + 1].kind = "answer" => Answered(s, n + 1)
  BY DEF Answered
<1>2. ASSUME Answered(s, n), s[n + 1].kind = "control" => s[n + 1].command.action # "message"
      PROVE  Answered(s, n + 1)
  <2>1. PICK a \in 1 .. n : /\ s[a].kind = "answer"
                            /\ \A m \in a + 1 .. n :
                                 s[m].kind = "control" => s[m].command.action # "message"
    BY <1>2 DEF Answered
  <2>2. \A m \in a + 1 .. n + 1 : s[m].kind = "control" => s[m].command.action # "message"
    BY <1>2, <2>1
  <2> QED
    BY <2>1, <2>2 DEF Answered
<1> QED
  BY <1>1, <1>2

\* What the first n events say does not depend on the others.
LEMMA SamePrefix ==
  ASSUME NEW s, NEW t, NEW n \in Nat, \A i \in 1 .. n : s[i] = t[i]
  PROVE  /\ Acks(s, n) = Acks(t, n) /\ (Paused(s, n) <=> Paused(t, n))
         /\ (Whole(s, n) <=> Whole(t, n)) /\ (Answered(s, n) <=> Answered(t, n))
<1>1. Acks(s, n) = Acks(t, n)
  BY DEF Acks
<1>2. Paused(s, n) <=> Paused(t, n)
  <2>1. \A p \in 1 .. n : (\A q \in p + 1 .. n : ~Switches(s[q])) <=> (\A q \in p + 1 .. n : ~Switches(t[q]))
    OBVIOUS
  <2> QED
    BY <2>1 DEF Paused
<1>3. Whole(s, n) <=> Whole(t, n)
  <2>1. \A c \in 1 .. n : (\E r \in c + 1 .. n : s[r].kind = "results")
                            <=> (\E r \in c + 1 .. n : t[r].kind = "results")
    OBVIOUS
  <2> QED
    BY <2>1 DEF Whole
<1>4. Answered(s, n) <=> Answered(t, n)
  <2>1. \A a \in 1 .. n :
          (\A m \in a + 1 .. n : s[m].kind = "control" => s[m].command.action # "message")
            <=> (\A m \in a + 1 .. n : t[m].kind = "control" => t[m].command.action # "message")
    OBVIOUS
  <2> QED
    BY <2>1 DEF Answered
<1> QED
  BY <1>1, <1>2, <1>3, <1>4

LEMMA ReflectsPrefix ==
  ASSUME NEW s, NEW t, NEW n \in Nat, \A i \in 1 .. n : s[i] = t[i], NEW d, NEW m
  PROVE  Reflects(s, d, m, n) <=> Reflects(t, d, m, n)
<1>1. {s[i].command.id : i \in Acks(s, n)} = {t[i].command.id : i \in Acks(t, n)}
  BY DEF Acks
<1> QED
  BY <1>1, SamePrefix DEF Reflects

-----------------------------------------------------------------------------
(* Replaying one event, and a suffix of the journal. *)

\* The type of an event.
Entry == [kind : Kind, command : Command \cup {None}]

\* Commands are acknowledged under different identities.
Distinct(s) ==
  \A i, j \in Acks(s, Len(s)) : s[i].command.id = s[j].command.id => i = j

LEMMA OrderIsDistinct ==
  ASSUME NEW s, Len(s) \in Nat, NEW box, NEW new, InOrder(s, box), Identities(box, new)
  PROVE  Distinct(s)
<1> SUFFICES ASSUME NEW i \in Acks(s, Len(s)), NEW j \in Acks(s, Len(s)), i < j,
                    s[i].command.id = s[j].command.id
             PROVE  FALSE
  BY DEF Distinct, Acks
<1>1. i \in Nat /\ j \in Nat /\ j \in Acks(s, j)
  BY DEF Acks
<1>2. Cardinality(Acks(s, i)) < Cardinality(Acks(s, j))
  BY <1>1, AcksGrow
<1>3. Cardinality(Acks(s, i)) = Cardinality(Acks(s, j))
  BY DEF InOrder, Identities
<1>4. Cardinality(Acks(s, i)) \in Nat
  BY <1>1, AcksFinite
<1> QED
  BY <1>2, <1>3, <1>4

\* A memory that reflects n events reflects one more after its replay.
LEMMA ReplayReflects ==
  ASSUME NEW s, Len(s) \in Nat, NEW d \in BOOLEAN, NEW m, NEW n \in Nat, n < Len(s),
         s[n + 1].kind = "control" => s[n + 1].command \in Command,
         Distinct(s), Reflects(s, d, m, n)
  PROVE  Reflects(s, d, Replay(m, s[n + 1]), n + 1)
<1> DEFINE e == s[n + 1]
<1>2. m \in Memory
  BY DEF Reflects
<1>3. CASE e.kind = "control"
  <2>1. e.command \in Command /\ e.command.action \in Action /\ e.command.id \in Id
    BY <1>3 DEF Command
  <2>2. Acks(s, n + 1) = Acks(s, n) \cup {n + 1} /\ n + 1 \notin Acks(s, n)
    BY <1>3, AcksNext DEF Acks
  <2>3. Acks(s, n + 1) \subseteq Acks(s, Len(s))
    BY DEF Acks
  <2>4. e.command.id \notin m.applied
    BY <2>2, <2>3 DEF Reflects, Distinct
  <2> DEFINE new == Replay(m, e)
  <2>5. new = Apply(m, e.command)
    BY <1>3 DEF Replay
  <2>6. /\ new \in Memory /\ new.applied = m.applied \cup {e.command.id}
        /\ new.pending = m.pending /\ new.evidence = m.evidence
        /\ new.paused <=> IF e.command.action = "message" THEN m.paused ELSE e.command.action = "pause"
        /\ new.terminal = "completed" => m.terminal = "completed" /\ e.command.action # "message"
    <3> DEFINE seen == [m EXCEPT !.applied = @ \cup {e.command.id}]
    <3> HIDE DEF new
    <3>1. /\ seen \in Memory /\ seen.applied = m.applied \cup {e.command.id}
          /\ seen.pending = m.pending /\ seen.evidence = m.evidence /\ seen.paused = m.paused
          /\ seen.terminal = m.terminal
      BY <1>2, <2>1 DEF Memory
    <3>2. CASE e.command.action = "message"
      <4>1. new = [seen EXCEPT !.terminal = IF @ = "completed" THEN "none" ELSE @]
        BY <2>4, <2>5, <3>2 DEF Apply
      <4> HIDE DEF seen, e
      <4> QED
        BY <3>1, <3>2, <4>1 DEF Memory
    <3>3. CASE e.command.action # "message"
      <4>1. new = [seen EXCEPT !.paused = (e.command.action = "pause")]
        BY <2>4, <2>5, <3>3 DEF Apply
      <4> HIDE DEF seen, e
      <4> QED
        BY <3>1, <3>3, <4>1 DEF Memory
    <3> QED
      BY <3>2, <3>3
  <2> HIDE DEF new
  <2>7. new.applied = {s[i].command.id : i \in Acks(s, n + 1)}
    BY <2>2, <2>6 DEF Reflects
  <2>8. Switches(e) <=> e.command.action # "message"
    BY <1>3 DEF Switches
  <2>9. new.paused <=> Paused(s, n + 1)
    BY <2>6, <2>8, PausedNext DEF Reflects
  <2>10. new.pending # "open" => Whole(s, n + 1)
    BY <1>3, <2>6, WholeNext DEF Reflects
  <2>11. new.terminal = "completed" /\ ~d => Answered(s, n + 1)
    BY <2>6, AnsweredNext DEF Reflects
  <2> QED
    BY <2>6, <2>7, <2>9, <2>10, <2>11 DEF Reflects, new
<1>4. CASE e.kind # "control"
  <2> DEFINE new == Replay(m, e)
  <2>1. /\ new \in Memory /\ new.applied = m.applied /\ new.paused = m.paused
        /\ new.evidence = m.evidence
        /\ new.pending # "open" => e.kind = "results" \/ (m.pending # "open" /\ e.kind # "calls")
        /\ new.terminal = "completed" => e.kind = "answer" \/ m.terminal = "completed"
    BY <1>2, <1>4 DEF Replay, Accept, Memory
  <2> HIDE DEF new
  <2>2. Acks(s, n + 1) = Acks(s, n) /\ ~Switches(e)
    BY <1>4, AcksNext DEF Switches
  <2>3. new.paused <=> Paused(s, n + 1)
    BY <2>1, <2>2, PausedNext DEF Reflects
  <2>4. new.pending # "open" => Whole(s, n + 1)
    BY <2>1, WholeNext DEF Reflects
  <2>5. new.terminal = "completed" /\ ~d => Answered(s, n + 1)
    BY <1>4, <2>1, AnsweredNext DEF Reflects
  <2> QED
    BY <2>1, <2>2, <2>3, <2>4, <2>5 DEF Reflects, new
<1> QED
  BY <1>3, <1>4

\* Events are commands the inbox holds, and others.
LEMMA AckedCommands ==
  ASSUME NEW s, Len(s) \in Nat, NEW box \in Seq(Command), InOrder(s, box)
  PROVE  \A i \in 1 .. Len(s) : s[i].kind = "control" => s[i].command \in Command
<1>1. \A k \in 1 .. Len(box) : box[k] \in Command
  OBVIOUS
<1>2. ASSUME NEW i \in 1 .. Len(s), s[i].kind = "control" PROVE i \in Acks(s, Len(s))
  BY <1>2 DEF Acks
<1> QED
  BY <1>1, <1>2 DEF InOrder

\* f[n] is what the first n events of s make of the memory m.
Follows(f, m, s, k) ==
  /\ f = [n \in 0 .. k |-> f[n]]
  /\ \A n \in 0 .. k : f[n] = IF n = 0 THEN m ELSE Replay(f[n - 1], s[n])

\* These memories exist: a recursive function on an interval of numbers is defined.
LEMMA ReplayDefined ==
  ASSUME NEW m, NEW s, NEW k \in Nat
  PROVE  \E f : Follows(f, m, s, k)
<1> DEFINE Good(f, j) == f = [n \in 0 .. j |-> IF n = 0 THEN m ELSE Replay(f[n - 1], s[n])]
           Bad == {j \in Nat : ~\E f : Good(f, j)}
<1>1. ASSUME Bad # {} PROVE FALSE
  <2>1. PICK j \in Bad : \A i \in Bad : j <= i
    BY <1>1, Smallest
  <2>2. CASE j = 0
    <3>1. Good([n \in 0 .. 0 |-> m], 0)
      OBVIOUS
    <3> QED
      BY <2>1, <2>2, <3>1
  <2>3. CASE j # 0
    <3>1. j \in Nat /\ j - 1 \in Nat /\ j - 1 \notin Bad
      <4>1. j \in Nat /\ j - 1 \in Nat /\ ~(j <= j - 1)
        BY <2>1, <2>3
      <4> HIDE DEF Bad
      <4> QED
        BY <2>1, <4>1
    <3>2. PICK f : Good(f, j - 1)
      BY <3>1
    <3> DEFINE last == Replay(f[j - 1], s[j])
               g == [n \in 0 .. j |-> IF n = j THEN last ELSE f[n]]
    <3>3. \A n \in 0 .. j - 1 : f[n] = IF n = 0 THEN m ELSE Replay(f[n - 1], s[n])
      BY <3>2
    <3>4. ASSUME NEW n \in 0 .. j
          PROVE  g[n] = IF n = 0 THEN m ELSE Replay(g[n - 1], s[n])
      <4>1. CASE n = 0
        BY <2>3, <3>1, <3>3, <4>1
      <4>2. CASE n # 0 /\ n # j
        <5>1. n \in 0 .. j - 1 /\ n - 1 \in 0 .. j /\ n - 1 # j
          BY <3>1, <4>2
        <5>2. g[n] = f[n] /\ g[n - 1] = f[n - 1]
          BY <4>2, <5>1
        <5> HIDE DEF g
        <5> QED
          BY <3>3, <4>2, <5>1, <5>2
      <4>3. CASE n = j
        <5>1. j - 1 \in 0 .. j /\ j - 1 # j
          BY <3>1
        <5>2. g[j] = last /\ g[j - 1] = f[j - 1]
          BY <3>1, <5>1
        <5> HIDE DEF g
        <5> QED
          BY <2>3, <4>3, <5>2
      <4> QED
        BY <4>1, <4>2, <4>3
    <3>5. g = [n \in 0 .. j |-> IF n = 0 THEN m ELSE Replay(g[n - 1], s[n])]
      <4>1. g = [n \in 0 .. j |-> g[n]]
        OBVIOUS
      <4> HIDE DEF g
      <4> QED
        BY <3>4, <4>1
    <3>6. Good(g, j)
      BY <3>5
    <3> QED
      BY <2>1, <3>6
  <2> QED
    BY <2>2, <2>3
<1>2. PICK f : Good(f, k)
  BY <1>1
<1>3. Follows(f, m, s, k)
  BY <1>2 DEF Follows
<1> QED
  BY <1>3

\* Replayed step by step, a suffix takes a memory to the end of the journal.
LEMMA SuffixReflects ==
  ASSUME NEW s, Len(s) \in Nat, NEW d \in BOOLEAN, Distinct(s), NEW at \in 0 .. Len(s),
         \A i \in 1 .. Len(s) : s[i].kind = "control" => s[i].command \in Command,
         NEW f, Reflects(s, d, f[0], at),
         \A n \in 1 .. Len(s) - at : f[n] = Replay(f[n - 1], s[at + n])
  PROVE  Reflects(s, d, f[Len(s) - at], Len(s))
<1> DEFINE Bad == {n \in 0 .. Len(s) - at : ~Reflects(s, d, f[n], at + n)}
<1>0. Bad \subseteq Nat
  OBVIOUS
<1>1. ASSUME Bad # {} PROVE FALSE
  <2> HIDE DEF Bad
  <2>1. PICK n \in Bad : \A i \in Bad : n <= i
    BY <1>0, <1>1, Smallest
  <2> USE DEF Bad
  <2>2. n # 0
    BY <2>1
  <2>3. /\ n - 1 \in 0 .. Len(s) - at /\ n - 1 \notin Bad /\ n \in 1 .. Len(s) - at
        /\ at + (n - 1) \in Nat /\ at + (n - 1) < Len(s) /\ (at + (n - 1)) + 1 = at + n
        /\ at + n \in 1 .. Len(s)
    BY <2>1, <2>2
  <2>4. Reflects(s, d, f[n - 1], at + (n - 1))
    BY <2>3
  <2>5. Reflects(s, d, Replay(f[n - 1], s[at + n]), at + n)
    BY <2>3, <2>4, ReplayReflects
  <2> QED
    BY <2>1, <2>3, <2>5
<1>2. Len(s) - at \in 0 .. Len(s) - at /\ at + (Len(s) - at) = Len(s)
  OBVIOUS
<1> QED
  BY <1>1, <1>2

\* A resume reflects the whole journal.
LEMMA RestoredReflects ==
  ASSUME ControlInvariant
  PROVE  Reflects(journal, domain, Restored, Len(journal))
<1>1. /\ journal \in Seq(Entry) /\ Len(journal) \in Nat /\ saved.at \in 0 .. Len(journal)
      /\ domain \in BOOLEAN /\ inbox \in Seq(Command)
  BY DEF ControlInvariant, TypeOK, Entry
<1>2. Distinct(journal)
  BY <1>1, OrderIsDistinct DEF ControlInvariant
<1>3. \A i \in 1 .. Len(journal) : journal[i].kind = "control" => journal[i].command \in Command
  BY <1>1, AckedCommands DEF ControlInvariant
<1> DEFINE rest == Suffix
           after[n \in 0 .. Len(rest)] == IF n = 0 THEN saved.mem ELSE Replay(after[n - 1], rest[n])
<1>4. Restored = after[Len(rest)]
  BY DEF Restored
<1>5. /\ Len(rest) = Len(journal) - saved.at /\ Len(rest) \in Nat
      /\ \A n \in 1 .. Len(journal) - saved.at : rest[n] = journal[saved.at + n]
  BY <1>1 DEF Suffix
<1> HIDE DEF rest
<1>6. after = [n \in 0 .. Len(rest) |-> IF n = 0 THEN saved.mem ELSE Replay(after[n - 1], rest[n])]
  <2>1. \E f : f = [n \in 0 .. Len(rest) |-> IF n = 0 THEN saved.mem ELSE Replay(f[n - 1], rest[n])]
    <3>1. Len(rest) \in Nat
      BY <1>5
    <3>2. PICK f : Follows(f, saved.mem, rest, Len(rest))
      BY <3>1, ReplayDefined
    <3>3. f = [n \in 0 .. Len(rest) |-> IF n = 0 THEN saved.mem ELSE Replay(f[n - 1], rest[n])]
      BY <3>2 DEF Follows
    <3> QED
      BY <3>3
  <2> QED
    BY <2>1, Zenon
<1> HIDE DEF after
<1>7. after[0] = saved.mem /\ \A n \in 1 .. Len(rest) : after[n] = Replay(after[n - 1], rest[n])
  BY <1>5, <1>6
<1>8. \A n \in 1 .. Len(journal) - saved.at : after[n] = Replay(after[n - 1], journal[saved.at + n])
  BY <1>5, <1>7
<1>9. Reflects(journal, domain, after[0], saved.at)
  BY <1>7 DEF ControlInvariant, Memories
<1>10. Reflects(journal, domain, after[Len(journal) - saved.at], Len(journal))
  BY <1>1, <1>2, <1>3, <1>8, <1>9, SuffixReflects
<1> QED
  BY <1>4, <1>5, <1>10

-----------------------------------------------------------------------------
(* One event more in the journal, one command more in the inbox. *)

OneMore(s, e, t) == s \in Seq(Entry) /\ e \in Entry /\ t = Append(s, e)

LEMMA AppendFacts ==
  ASSUME NEW s, NEW e, NEW t, OneMore(s, e, t)
  PROVE  /\ t \in Seq(Entry) /\ Len(s) \in Nat /\ Len(t) = Len(s) + 1 /\ t[Len(s) + 1] = e
         /\ \A i \in 1 .. Len(s) : t[i] = s[i]
         /\ \A n \in 0 .. Len(s) : Acks(t, n) = Acks(s, n)
         /\ e.kind # "control" => Acks(t, Len(t)) = Acks(s, Len(s))
         /\ e.kind = "control" =>
              /\ Acks(t, Len(t)) = Acks(s, Len(s)) \cup {Len(t)}
              /\ Cardinality(Acks(t, Len(t))) = Cardinality(Acks(s, Len(s))) + 1
<1> DEFINE n == Len(s)
<1>1. /\ t \in Seq(Entry) /\ n \in Nat /\ Len(t) = n + 1 /\ t[n + 1] = e
      /\ \A i \in 1 .. n : t[i] = s[i]
  BY DEF OneMore
<1>2. \A k \in 0 .. n : Acks(t, k) = Acks(s, k)
  BY <1>1 DEF Acks
<1> HIDE DEF n
<1>3. /\ t[n + 1].kind = "control" =>
           /\ Acks(t, n + 1) = Acks(t, n) \cup {n + 1}
           /\ Cardinality(Acks(t, n + 1)) = Cardinality(Acks(t, n)) + 1
      /\ t[n + 1].kind # "control" => Acks(t, n + 1) = Acks(t, n)
  BY <1>1, AcksNext
<1>4. Acks(t, n) = Acks(s, n)
  BY <1>1, <1>2
<1> QED
  BY <1>1, <1>2, <1>3, <1>4 DEF n

\* What was true of the events so far stays true, and what they were checked for.
LEMMA AppendKeeps ==
  ASSUME NEW s, NEW e, NEW t, OneMore(s, e, t)
  PROVE  /\ \A d, m : \A n \in 0 .. Len(s) : Reflects(s, d, m, n) => Reflects(t, d, m, n)
         /\ \A d : \A n \in 1 .. Len(s) : Lawful(s, d, n) => Lawful(t, d, n)
         /\ \A d : Allowed(s, d, Len(s), e) => Lawful(t, d, Len(s) + 1)
<1>1. /\ t \in Seq(Entry) /\ Len(s) \in Nat /\ Len(t) = Len(s) + 1 /\ t[Len(s) + 1] = e
      /\ \A i \in 1 .. Len(s) : t[i] = s[i]
  BY AppendFacts
<1>2. ASSUME NEW n \in 0 .. Len(s)
      PROVE  /\ n \in Nat /\ \A i \in 1 .. n : s[i] = t[i]
             /\ Acks(s, n) = Acks(t, n) /\ (Paused(s, n) <=> Paused(t, n))
             /\ (Whole(s, n) <=> Whole(t, n)) /\ (Answered(s, n) <=> Answered(t, n))
  <2>1. n \in Nat /\ \A i \in 1 .. n : s[i] = t[i]
    BY <1>1
  <2> QED
    BY <2>1, SamePrefix
<1>3. ASSUME NEW d, NEW m, NEW n \in 0 .. Len(s), Reflects(s, d, m, n) PROVE Reflects(t, d, m, n)
  BY <1>2, <1>3, ReflectsPrefix
<1>4. ASSUME NEW d, NEW n \in 1 .. Len(s), Lawful(s, d, n) PROVE Lawful(t, d, n)
  <2>1. n - 1 \in 0 .. Len(s) /\ t[n] = s[n]
    BY <1>1
  <2> QED
    BY <1>2, <1>4, <2>1 DEF Lawful, Allowed
<1>5. Len(s) \in 0 .. Len(s) /\ (Len(s) + 1) - 1 = Len(s)
  BY <1>1
<1>6. \A d : Allowed(s, d, Len(s), e) => Lawful(t, d, Len(s) + 1)
  BY <1>1, <1>2, <1>5 DEF Lawful, Allowed
<1> QED
  BY <1>1, <1>2, <1>3, <1>4, <1>6

\* An event that acknowledges nothing keeps the order, ...
LEMMA OtherKeepsOrder ==
  ASSUME NEW s, NEW e, NEW t, OneMore(s, e, t),
         e.kind # "control", NEW box, InOrder(s, box)
  PROVE  InOrder(t, box) /\ \A rest : Unread(s, box, rest) => Unread(t, box, rest)
<1>1. /\ Len(s) \in Nat /\ Len(t) = Len(s) + 1 /\ t[Len(s) + 1] = e
      /\ \A i \in 1 .. Len(s) : t[i] = s[i]
      /\ \A n \in 0 .. Len(s) : Acks(t, n) = Acks(s, n)
      /\ Acks(t, Len(t)) = Acks(s, Len(s))
  BY AppendFacts
<1>2. \A n \in Acks(s, Len(s)) : t[n] = s[n] /\ Acks(t, n) = Acks(s, n)
  BY <1>1 DEF Acks
<1>3. InOrder(t, box)
  <2>1. Cardinality(Acks(t, Len(t))) <= Len(box)
    BY <1>1 DEF InOrder
  <2>2. ASSUME NEW n \in Acks(t, Len(t))
        PROVE  /\ Cardinality(Acks(t, n)) \in 1 .. Len(box)
               /\ t[n].command = box[Cardinality(Acks(t, n))]
    BY <1>1, <1>2 DEF InOrder
  <2>3. ASSUME NEW k \in 1 .. Cardinality(Acks(t, Len(t)))
        PROVE  \E n \in Acks(t, Len(t)) : t[n].command = box[k]
    <3>1. PICK n \in Acks(s, Len(s)) : s[n].command = box[k]
      BY <1>1 DEF InOrder
    <3> QED
      BY <1>1, <1>2, <3>1
  <2> QED
    BY <2>1, <2>2, <2>3 DEF InOrder
<1>4. \A rest : Unread(s, box, rest) => Unread(t, box, rest)
  BY <1>1 DEF Unread
<1> QED
  BY <1>3, <1>4

\* ... and so does the acknowledgement of the next command.
LEMMA AckKeepsOrder ==
  ASSUME NEW s, NEW e, NEW t, OneMore(s, e, t), e.kind = "control",
         NEW box, Len(box) \in Nat, InOrder(s, box),
         Cardinality(Acks(s, Len(s))) + 1 <= Len(box),
         e.command = box[Cardinality(Acks(s, Len(s))) + 1]
  PROVE  /\ InOrder(t, box)
         /\ Cardinality(Acks(t, Len(t))) = Cardinality(Acks(s, Len(s))) + 1
<1> DEFINE k == Cardinality(Acks(s, Len(s)))
<1>1. /\ Len(s) \in Nat /\ Len(t) = Len(s) + 1 /\ t[Len(t)] = e
      /\ \A i \in 1 .. Len(s) : t[i] = s[i]
      /\ \A n \in 0 .. Len(s) : Acks(t, n) = Acks(s, n)
      /\ Acks(t, Len(t)) = Acks(s, Len(s)) \cup {Len(t)} /\ Cardinality(Acks(t, Len(t))) = k + 1
  BY AppendFacts
<1>2. k \in Nat
  BY <1>1, AcksFinite
<1>3. \A n \in Acks(s, Len(s)) : t[n] = s[n] /\ Acks(t, n) = Acks(s, n)
  BY <1>1 DEF Acks
<1> HIDE DEF k
<1>4. k + 1 \in 1 .. Len(box) /\ t[Len(t)].command = box[k + 1]
  BY <1>1, <1>2 DEF k
<1>5. ASSUME NEW n \in Acks(t, Len(t))
      PROVE  /\ Cardinality(Acks(t, n)) \in 1 .. Len(box)
             /\ t[n].command = box[Cardinality(Acks(t, n))]
  BY <1>1, <1>3, <1>4 DEF InOrder
<1>6. ASSUME NEW i \in 1 .. k + 1
      PROVE  \E n \in Acks(t, Len(t)) : t[n].command = box[i]
  <2>1. CASE i \in 1 .. k
    <3>1. PICK n \in Acks(s, Len(s)) : s[n].command = box[i]
      BY <2>1 DEF InOrder, k
    <3> QED
      BY <1>1, <1>3, <3>1
  <2>2. CASE i = k + 1
    BY <1>1, <1>4, <2>2
  <2>3. i \in 1 .. k \/ i = k + 1
    BY <1>2
  <2> QED
    BY <2>1, <2>2, <2>3
<1> QED
  BY <1>1, <1>4, <1>5, <1>6 DEF InOrder, k

\* A command more in the inbox.
LEMMA PlacedKeepsOrder ==
  ASSUME NEW box \in Seq(Command), NEW new \in Command, new # None, Identities(box, new),
         NEW s, Len(s) \in Nat, InOrder(s, box)
  PROVE  /\ Identities(Append(box, new), None) /\ InOrder(s, Append(box, new))
         /\ \A rest : Unread(s, box, rest) => Unread(s, Append(box, new), rest)
<1> DEFINE more == Append(box, new)
<1>1. /\ Len(box) \in Nat /\ Len(more) = Len(box) + 1 /\ more[Len(box) + 1] = new
      /\ \A i \in 1 .. Len(box) : more[i] = box[i]
  OBVIOUS
<1> HIDE DEF more
<1>2. Identities(more, None)
  BY <1>1 DEF Identities
<1>3. Cardinality(Acks(s, Len(s))) \in Nat
  BY AcksFinite
<1>4. InOrder(s, more)
  <2>1. Cardinality(Acks(s, Len(s))) <= Len(more)
    BY <1>1, <1>3 DEF InOrder
  <2>2. \A n \in Acks(s, Len(s)) : /\ Cardinality(Acks(s, n)) \in 1 .. Len(more)
                                   /\ s[n].command = more[Cardinality(Acks(s, n))]
    BY <1>1 DEF InOrder
  <2>3. ASSUME NEW k \in 1 .. Cardinality(Acks(s, Len(s)))
        PROVE  \E n \in Acks(s, Len(s)) : s[n].command = more[k]
    <3>1. more[k] = box[k]
      BY <1>1, <1>3 DEF InOrder
    <3> QED
      BY <3>1 DEF InOrder
  <2> QED
    BY <2>1, <2>2, <2>3 DEF InOrder
<1>5. ASSUME NEW rest, Unread(s, box, rest) PROVE Unread(s, more, rest)
  <2>1. PICK j \in 0 .. Cardinality(Acks(s, Len(s))) :
          \A i \in 1 .. Len(rest) : j + i <= Len(box) /\ rest[i] = box[j + i]
    BY <1>5 DEF Unread, Behind
  <2>2. ASSUME NEW i \in 1 .. Len(rest) PROVE j + i <= Len(more) /\ rest[i] = more[j + i]
    <3>1. j + i \in 1 .. Len(box)
      BY <1>1, <1>3, <2>1
    <3> QED
      BY <1>1, <2>1, <3>1
  <2> QED
    BY <2>1, <2>2 DEF Unread, Behind
<1> QED
  BY <1>2, <1>4, <1>5 DEF more

-----------------------------------------------------------------------------
(* The invariant is inductive.  First, what an event does to it. *)

LEMMA EventStep ==
  ASSUME ControlInvariant, NEW e, OneMore(journal, e, journal'), InOrder(journal', inbox),
         e.kind = "control" => e.command \in Command,
         Allowed(journal, domain, Len(journal), e)
  PROVE  /\ journal' \in Seq(Entry) /\ Len(journal') = Len(journal) + 1 /\ Len(journal) \in Nat
         /\ journal' # <<>> /\ journal'[Len(journal')] = e
         /\ saved \in [mem : Memory, at : 0 .. Len(journal')]
         /\ Reflects(journal', domain, saved.mem, saved.at)
         /\ \A n \in 1 .. Len(journal') : Lawful(journal', domain, n)
         /\ \A m : Reflects(journal, domain, m, Len(journal)) =>
              /\ Reflects(journal', domain, m, Len(journal') - 1)
              /\ Reflects(journal', domain, Replay(m, e), Len(journal'))
<1>1. /\ journal' \in Seq(Entry) /\ Len(journal') = Len(journal) + 1 /\ Len(journal) \in Nat
      /\ journal'[Len(journal) + 1] = e
  BY AppendFacts
<1>2. journal' # <<>> /\ Len(journal') - 1 = Len(journal)
  BY <1>1
<1>3. saved \in [mem : Memory, at : 0 .. Len(journal')] /\ saved.at \in 0 .. Len(journal)
  BY <1>1 DEF ControlInvariant, TypeOK
<1>4. Reflects(journal', domain, saved.mem, saved.at)
  BY <1>3, AppendKeeps DEF ControlInvariant, Memories
<1>5. Lawful(journal', domain, Len(journal) + 1)
  BY AppendKeeps
<1>6. ASSUME NEW n \in 1 .. Len(journal') PROVE Lawful(journal', domain, n)
  <2>1. CASE n \in 1 .. Len(journal)
    BY <2>1, AppendKeeps DEF ControlInvariant
  <2>2. CASE n = Len(journal) + 1
    BY <1>5, <2>2
  <2> QED
    BY <1>1, <2>1, <2>2
<1>7. ASSUME NEW m, Reflects(journal, domain, m, Len(journal))
      PROVE  /\ Reflects(journal', domain, m, Len(journal') - 1)
             /\ Reflects(journal', domain, Replay(m, e), Len(journal'))
  <2>1. Reflects(journal', domain, m, Len(journal))
    <3>1. Len(journal) \in 0 .. Len(journal)
      BY <1>1
    <3> QED
      BY <1>7, <3>1, AppendKeeps
  <2>2. Distinct(journal')
    BY <1>1, OrderIsDistinct DEF ControlInvariant
  <2>3. Reflects(journal', domain, Replay(m, e), Len(journal) + 1)
    <3>1. domain \in BOOLEAN /\ Len(journal') \in Nat /\ Len(journal) < Len(journal')
      BY <1>1 DEF ControlInvariant, TypeOK
    <3> QED
      BY <1>1, <2>1, <2>2, <3>1, ReplayReflects
  <2> QED
    BY <1>1, <1>2, <2>1, <2>3
<1> QED
  BY <1>1, <1>2, <1>3, <1>4, <1>6, <1>7

\* An event that is no acknowledgement.
LEMMA RecordStep ==
  ASSUME ControlInvariant, NEW kind \in Kind, kind # "control", Record(kind),
         Allowed(journal, domain, Len(journal), Event(kind)),
         UNCHANGED <<inbox, draft, saved, domain>>
  PROVE  /\ Identities(inbox', draft') /\ InOrder(journal', inbox')
         /\ journal' \in Seq(Entry) /\ Len(journal') = Len(journal) + 1 /\ Len(journal) \in Nat
         /\ journal' # <<>> /\ journal'[Len(journal')] = Event(kind)
         /\ saved' \in [mem : Memory, at : 0 .. Len(journal')]
         /\ Reflects(journal', domain', saved'.mem, saved'.at)
         /\ \A n \in 1 .. Len(journal') : Lawful(journal', domain', n)
         /\ \A m : Reflects(journal, domain, m, Len(journal)) =>
              /\ Reflects(journal', domain', m, Len(journal') - 1)
              /\ Reflects(journal', domain', Replay(m, Event(kind)), Len(journal'))
<1> DEFINE e == Event(kind)
<1>1. e \in Entry /\ e.kind = kind
  BY DEF Event, Entry
<1>2. OneMore(journal, e, journal')
  BY <1>1 DEF OneMore, Record, ControlInvariant, TypeOK, Entry
<1> HIDE DEF e
<1>3. InOrder(journal', inbox)
  BY <1>1, <1>2, OtherKeepsOrder DEF ControlInvariant
<1>4. Allowed(journal, domain, Len(journal), e)
  BY DEF e
<1>5. /\ journal' \in Seq(Entry) /\ Len(journal') = Len(journal) + 1 /\ Len(journal) \in Nat
      /\ journal' # <<>> /\ journal'[Len(journal')] = e
      /\ saved \in [mem : Memory, at : 0 .. Len(journal')]
      /\ Reflects(journal', domain, saved.mem, saved.at)
      /\ \A n \in 1 .. Len(journal') : Lawful(journal', domain, n)
      /\ \A m : Reflects(journal, domain, m, Len(journal)) =>
           /\ Reflects(journal', domain, m, Len(journal') - 1)
           /\ Reflects(journal', domain, Replay(m, e), Len(journal'))
  BY <1>1, <1>2, <1>3, <1>4, EventStep
<1> QED
  BY <1>3, <1>5 DEF ControlInvariant, e

\* An event without an effect on the memory.
LEMMA PlainReplay ==
  ASSUME NEW m, NEW kind \in {"request", "failure", "interim"} \cup Lifecycle
  PROVE  Replay(m, Event(kind)) = m
BY DEF Replay, Accept, Event, Lifecycle

\* The task stops: nothing more is asked of its memory.
LEMMA StopStep ==
  ASSUME ControlInvariant, NEW status \in {"completed", "stopped"}, Stop(status),
         status = "completed" /\ ~domain => Answered(journal, Len(journal)),
         UNCHANGED <<inbox, draft, saved, receipt, domain>>,
         mem' \in Memory, todo' \in Seq(Command), runs' \in 0 .. MaxRuns
  PROVE  ControlInvariant'
<1>1. Record(status) /\ pc' = "stopping" /\ status \in Kind /\ status # "control"
  BY DEF Stop, Kind, Lifecycle
<1>2. Allowed(journal, domain, Len(journal), Event(status))
  BY DEF Allowed, Event
<1>3. /\ Identities(inbox', draft') /\ InOrder(journal', inbox')
      /\ journal' \in Seq(Entry)
      /\ journal' # <<>> /\ journal'[Len(journal')] = Event(status)
      /\ saved' \in [mem : Memory, at : 0 .. Len(journal')]
      /\ Reflects(journal', domain', saved'.mem, saved'.at)
      /\ \A n \in 1 .. Len(journal') : Lawful(journal', domain', n)
  BY <1>1, <1>2, RecordStep
<1>4. TypeOK'
  BY <1>1, <1>3 DEF ControlInvariant, TypeOK, Entry
<1>5. Memories'
  BY <1>1, <1>3 DEF Memories, AtRest, Event
<1>6. Places'
  BY <1>1 DEF Places
<1> QED
  BY <1>3, <1>4, <1>5, <1>6 DEF ControlInvariant

-----------------------------------------------------------------------------
(* The operator. *)

LEMMA SubmitStep ==
  ASSUME ControlInvariant, NEW action \in Action, Submit(action)
  PROVE  ControlInvariant'
<1> DEFINE new == Id \ {inbox[i].id : i \in 1 .. Len(inbox)}
           id == CHOOSE i \in new : TRUE
<1>1. id \in new /\ draft' = [id |-> id, action |-> action]
  BY DEF Submit
<1>2. UNCHANGED <<inbox, journal, saved, mem, todo, pc, receipt, runs, domain>>
  BY DEF Submit
<1>3. draft' \in Command /\ \A i \in 1 .. Len(inbox) : inbox[i].id # draft'.id
  BY <1>1 DEF Command
<1>4. Identities(inbox', draft')
  BY <1>2, <1>3 DEF ControlInvariant, Identities
<1>5. TypeOK'
  BY <1>2, <1>3 DEF ControlInvariant, TypeOK
<1> QED
  BY <1>2, <1>4, <1>5 DEF ControlInvariant, Memories, Places

LEMMA PlaceFileStep == ControlInvariant /\ PlaceFile => ControlInvariant'
<1> SUFFICES ASSUME ControlInvariant, PlaceFile PROVE ControlInvariant'
  OBVIOUS
<1>1. /\ draft # None /\ inbox' = Append(inbox, draft) /\ draft' = None
      /\ UNCHANGED <<journal, saved, mem, todo, pc, receipt, runs, domain>>
  BY DEF PlaceFile
<1>2. inbox \in Seq(Command) /\ draft \in Command /\ Len(journal) \in Nat
  BY <1>1 DEF ControlInvariant, TypeOK
<1>3. /\ Identities(inbox', draft') /\ InOrder(journal, inbox')
      /\ \A rest : Unread(journal, inbox, rest) => Unread(journal, inbox', rest)
  BY <1>1, <1>2, PlacedKeepsOrder DEF ControlInvariant
<1>4. TypeOK'
  BY <1>1, <1>2 DEF ControlInvariant, TypeOK
<1>5. Places'
  BY <1>1, <1>3 DEF ControlInvariant, Places
<1> QED
  BY <1>1, <1>3, <1>4, <1>5 DEF ControlInvariant, Memories

LEMMA LosePendingStep == ControlInvariant /\ LosePending => ControlInvariant'
BY DEF ControlInvariant, LosePending, TypeOK, Identities, Memories, Places

-----------------------------------------------------------------------------
(* The task, where it records nothing. *)

\* What such a step has to show.
LEMMA SilentStep ==
  ASSUME ControlInvariant, UNCHANGED <<operator, journal, domain>>,
         TypeOK', Memories', Places'
  PROVE  ControlInvariant'
BY DEF ControlInvariant, operator

\* A memory that reflects the journal is one, and reflects no more than it is.
LEMMA SavedStep ==
  ASSUME ControlInvariant, pc \in AtRest, Checkpoint, UNCHANGED <<journal, domain>>
  PROVE  /\ saved' \in [mem : Memory, at : 0 .. Len(journal')]
         /\ Reflects(journal', domain', saved'.mem, saved'.at)
<1>1. Reflects(journal, domain, mem, Len(journal)) /\ mem \in Memory /\ Len(journal) \in Nat
  BY DEF ControlInvariant, Memories, TypeOK
<1> QED
  BY <1>1 DEF Checkpoint, Position

LEMMA SaveStep == ControlInvariant /\ Save => ControlInvariant'
<1> SUFFICES ASSUME ControlInvariant, Save PROVE ControlInvariant'
  OBVIOUS
<1>1. /\ pc = "saving" /\ pc' = "loop" /\ Checkpoint
      /\ UNCHANGED <<operator, journal, mem, todo, receipt, runs, domain>>
  BY DEF Save
<1>2. /\ saved' \in [mem : Memory, at : 0 .. Len(journal')]
      /\ Reflects(journal', domain', saved'.mem, saved'.at)
  BY <1>1, SavedStep DEF AtRest
<1>3. TypeOK' /\ Memories' /\ Places'
  BY <1>1, <1>2 DEF ControlInvariant, TypeOK, Memories, Places, AtRest, Alive, operator
<1> QED
  BY <1>1, <1>3, SilentStep

LEMMA DeliveredStep == ControlInvariant /\ Delivered => ControlInvariant'
<1> SUFFICES ASSUME ControlInvariant, Delivered PROVE ControlInvariant'
  OBVIOUS
<1>1. /\ pc = "deliver" /\ pc' = IF mem.paused THEN "asleep" ELSE "decide"
      /\ Checkpoint \/ UNCHANGED saved
      /\ UNCHANGED <<operator, journal, mem, todo, receipt, runs, domain>>
  BY DEF Delivered
<1>2. /\ saved' \in [mem : Memory, at : 0 .. Len(journal')]
      /\ Reflects(journal', domain', saved'.mem, saved'.at)
  BY <1>1, SavedStep DEF AtRest, ControlInvariant, Memories, TypeOK
<1>3. TypeOK' /\ Memories' /\ Places'
  BY <1>1, <1>2 DEF ControlInvariant, TypeOK, Memories, Places, AtRest, Alive, operator
<1> QED
  BY <1>1, <1>3, SilentStep

LEMMA FindEvidenceStep == ControlInvariant /\ FindEvidence => ControlInvariant'
<1> SUFFICES ASSUME ControlInvariant, FindEvidence PROVE ControlInvariant'
  OBVIOUS
<1>1. /\ pc = "loop" /\ pc' = "saving" /\ domain = TRUE
      /\ mem' = [mem EXCEPT !.evidence = TRUE, !.terminal = "completed"]
      /\ UNCHANGED <<operator, journal, saved, todo, receipt, runs, domain>>
  BY DEF FindEvidence, ControlInvariant, TypeOK
<1>2. mem \in Memory /\ Reflects(journal, domain, mem, Len(journal))
  BY <1>1 DEF ControlInvariant, TypeOK, Memories, AtRest
<1>3. mem' \in Memory
  BY <1>1, <1>2 DEF Memory
<1>4. Reflects(journal, domain, mem', Len(journal))
  <2>1. mem'.applied = mem.applied /\ mem'.paused = mem.paused /\ mem'.pending = mem.pending
    BY <1>1, <1>2 DEF Memory
  <2> QED
    BY <1>1, <1>2, <1>3, <2>1 DEF Reflects
<1>5. TypeOK' /\ Memories' /\ Places'
  BY <1>1, <1>3, <1>4 DEF ControlInvariant, TypeOK, Memories, Places, AtRest, Alive, operator
<1> QED
  BY <1>1, <1>5, SilentStep

LEMMA FinishToolsStep == ControlInvariant /\ FinishTools => ControlInvariant'
<1> SUFFICES ASSUME ControlInvariant, FinishTools PROVE ControlInvariant'
  OBVIOUS
<1>1. /\ pc = "loop" /\ pc' = "saving" /\ mem.pending = "executed"
      /\ mem' = [mem EXCEPT !.pending = "none"]
      /\ UNCHANGED <<operator, journal, saved, todo, receipt, runs, domain>>
  BY DEF FinishTools
<1>2. mem \in Memory /\ Reflects(journal, domain, mem, Len(journal))
  BY <1>1 DEF ControlInvariant, TypeOK, Memories, AtRest
<1>3. mem' \in Memory
  BY <1>1, <1>2 DEF Memory
<1>4. Reflects(journal, domain, mem', Len(journal))
  <2>1. /\ mem'.applied = mem.applied /\ mem'.paused = mem.paused
        /\ mem'.terminal = mem.terminal /\ mem'.evidence = mem.evidence
    BY <1>1, <1>2 DEF Memory
  <2> QED
    BY <1>1, <1>2, <1>3, <2>1 DEF Reflects
<1>5. TypeOK' /\ Memories' /\ Places'
  BY <1>1, <1>3, <1>4 DEF ControlInvariant, TypeOK, Memories, Places, AtRest, Alive, operator
<1> QED
  BY <1>1, <1>5, SilentStep

\* The inbox is read from its beginning.
LEMMA ReadStep == ControlInvariant /\ (ReadInbox \/ Wake) => ControlInvariant'
<1> SUFFICES ASSUME ControlInvariant, ReadInbox \/ Wake PROVE ControlInvariant'
  OBVIOUS
<1>1. /\ pc \in {"loop", "asleep"} /\ pc' = "deliver" /\ todo' = inbox
      /\ UNCHANGED <<operator, journal, saved, mem, receipt, runs, domain>>
  BY DEF ReadInbox, Wake, Inbox
<1>2. mem.pending = "none"
  BY DEF ReadInbox, AtBoundary, Wake, ControlInvariant, Places
<1>3. Unread(journal, inbox, inbox)
  <2>1. 0 \in 0 .. Cardinality(Acks(journal, Len(journal))) /\ Len(inbox) \in Nat
    BY AcksFinite DEF ControlInvariant, TypeOK
  <2>2. \A i \in 1 .. Len(inbox) : 0 + i <= Len(inbox) /\ inbox[i] = inbox[0 + i]
    BY <2>1
  <2> QED
    BY <2>1, <2>2 DEF Unread, Behind
<1>4. TypeOK'
  BY <1>1 DEF ControlInvariant, TypeOK, Alive, operator
<1>5. Memories'
  BY <1>1 DEF ControlInvariant, Memories, AtRest
<1>6. Places'
  BY <1>1, <1>2, <1>3 DEF Places, operator
<1> QED
  BY <1>1, <1>4, <1>5, <1>6, SilentStep

\* The process is over.
LEMMA OverStep ==
  ASSUME ControlInvariant, WriteReceipt \/ ProcessEnds \/ AlreadyCompleted
  PROVE  ControlInvariant'
<1>1. /\ pc' \in {"ended", "down"} /\ mem' = Blank /\ todo' = <<>>
      /\ UNCHANGED <<operator, journal, saved, domain>>
      /\ runs' \in 0 .. MaxRuns
  BY ControlAssumption DEF WriteReceipt, ProcessEnds, AlreadyCompleted, Resuming, ControlInvariant, TypeOK,
                           ControlAssumption
<1>2. Blank \in Memory
  BY DEF Blank, Memory
<1>3. receipt' \in [status : {"none", "completed", "stopped"}, evidence : BOOLEAN]
  <2>1. CASE WriteReceipt
    <3>1. Last(journal).kind \in {"completed", "stopped"} /\ mem.evidence \in BOOLEAN
      BY <2>1 DEF WriteReceipt, ControlInvariant, Memories, TypeOK, Memory, Last
    <3> QED
      BY <2>1, <3>1 DEF WriteReceipt
  <2>2. CASE ProcessEnds \/ AlreadyCompleted
    BY <2>2 DEF ProcessEnds, AlreadyCompleted, ControlInvariant, TypeOK
  <2> QED
    BY <2>1, <2>2
<1>4. TypeOK' /\ Memories' /\ Places'
  BY <1>1, <1>2, <1>3 DEF ControlInvariant, TypeOK, Memories, Places, AtRest, operator
<1> QED
  BY <1>1, <1>4, SilentStep

-----------------------------------------------------------------------------
(* The task, where it records an event. *)

\* A step that records an event and goes on.
LEMMA GoOnStep ==
  ASSUME ControlInvariant, NEW kind \in Kind, kind # "control", Record(kind),
         Allowed(journal, domain, Len(journal), Event(kind)),
         UNCHANGED <<inbox, draft, saved, receipt, domain>>,
         pc' \in {"saving", "await", "failed"}, mem' \in Memory,
         \E m : Reflects(journal, domain, m, Len(journal)) /\ mem' = Replay(m, Event(kind)),
         pc' \in {"await", "failed"} => mem'.pending = "none" /\ ~mem'.paused,
         todo' \in Seq(Command), runs' \in 0 .. MaxRuns
  PROVE  ControlInvariant'
<1>1. /\ Identities(inbox', draft') /\ InOrder(journal', inbox')
      /\ journal' \in Seq(Entry) /\ journal' # <<>>
      /\ saved' \in [mem : Memory, at : 0 .. Len(journal')]
      /\ Reflects(journal', domain', saved'.mem, saved'.at)
      /\ \A n \in 1 .. Len(journal') : Lawful(journal', domain', n)
      /\ \A m : Reflects(journal, domain, m, Len(journal)) =>
           Reflects(journal', domain', Replay(m, Event(kind)), Len(journal'))
  BY RecordStep
<1>2. Reflects(journal', domain', mem', Len(journal'))
  BY <1>1
<1>3. TypeOK'
  BY <1>1 DEF ControlInvariant, TypeOK, Entry, Alive
<1>4. Memories'
  BY <1>1, <1>2 DEF Memories, AtRest
<1>5. Places'
  BY DEF Places
<1> QED
  BY <1>1, <1>3, <1>4, <1>5 DEF ControlInvariant

LEMMA StartStep == ControlInvariant /\ Start => ControlInvariant'
<1> SUFFICES ASSUME ControlInvariant, Start PROVE ControlInvariant'
  OBVIOUS
<1>1. /\ pc = "none" /\ pc' = "saving" /\ Record("start") /\ runs' \in 0 .. MaxRuns
      /\ UNCHANGED <<inbox, draft, saved, mem, todo, receipt, domain>>
  BY ControlAssumption DEF Start, operator, ControlInvariant, TypeOK, ControlAssumption
<1>2. journal = <<>> /\ mem = Blank /\ mem \in Memory /\ domain \in BOOLEAN /\ todo \in Seq(Command)
  BY <1>1 DEF ControlInvariant, Memories, TypeOK
<1>3. Reflects(journal, domain, mem, Len(journal))
  <2>1. Len(journal) = 0 /\ 1 .. 0 = {}
    BY <1>2
  <2> QED
    BY <1>2, <2>1 DEF Reflects, Blank, Acks, Paused, Whole
<1>4. "start" \in Kind /\ Replay(mem, Event("start")) = mem
  BY PlainReplay DEF Kind, Lifecycle
<1>5. Allowed(journal, domain, Len(journal), Event("start"))
  BY DEF Allowed, Event
<1> QED
  BY <1>1, <1>2, <1>3, <1>4, <1>5, GoOnStep

LEMMA RunToolsStep == ControlInvariant /\ RunTools => ControlInvariant'
<1> SUFFICES ASSUME ControlInvariant, RunTools PROVE ControlInvariant'
  OBVIOUS
<1>1. /\ pc = "loop" /\ pc' = "saving" /\ Record("results")
      /\ mem' = [mem EXCEPT !.pending = "executed"]
      /\ UNCHANGED <<inbox, draft, saved, todo, receipt, runs, domain>>
  BY DEF RunTools, operator
<1>2. Reflects(journal, domain, mem, Len(journal))
  BY <1>1 DEF ControlInvariant, Memories, AtRest
<1>3. mem' = Replay(mem, Event("results"))
  BY <1>1 DEF Replay, Event
<1>4. "results" \in Kind /\ mem' \in Memory
  BY <1>1 DEF Kind, ControlInvariant, TypeOK, Memory
<1>5. Allowed(journal, domain, Len(journal), Event("results"))
  BY DEF Allowed, Event
<1>6. todo' \in Seq(Command) /\ runs' \in 0 .. MaxRuns
  BY <1>1 DEF ControlInvariant, TypeOK
<1> QED
  BY <1>1, <1>2, <1>3, <1>4, <1>5, <1>6, GoOnStep

LEMMA SendRequestStep == ControlInvariant /\ SendRequest => ControlInvariant'
<1> SUFFICES ASSUME ControlInvariant, SendRequest PROVE ControlInvariant'
  OBVIOUS
<1>1. /\ pc \in {"failed", "decide"}
      /\ (Record("request") /\ pc' = "await") \/ Stop("stopped")
      /\ UNCHANGED <<inbox, draft, saved, mem, todo, receipt, runs, domain>>
  BY DEF SendRequest, operator
<1>2. /\ mem' \in Memory /\ todo' \in Seq(Command) /\ runs' \in 0 .. MaxRuns
      /\ Reflects(journal, domain, mem, Len(journal))
      /\ mem.pending = "none" /\ ~mem.paused
  BY <1>1 DEF ControlInvariant, TypeOK, Memories, Places, AtRest
<1>3. CASE Stop("stopped")
  BY <1>1, <1>2, <1>3, StopStep
<1>4. CASE Record("request") /\ pc' = "await"
  <2>1. "request" \in Kind /\ Replay(mem, Event("request")) = mem
    BY PlainReplay DEF Kind
  <2>2. Allowed(journal, domain, Len(journal), Event("request"))
    BY <1>2 DEF Allowed, Event, Reflects
  <2> QED
    BY <1>1, <1>2, <1>4, <2>1, <2>2, GoOnStep
<1> QED
  BY <1>1, <1>3, <1>4

LEMMA NoUsableReplyStep == ControlInvariant /\ NoUsableReply => ControlInvariant'
<1> SUFFICES ASSUME ControlInvariant, NoUsableReply PROVE ControlInvariant'
  OBVIOUS
<1>1. /\ pc = "await" /\ pc' = "failed" /\ Record("failure")
      /\ UNCHANGED <<inbox, draft, saved, mem, todo, receipt, runs, domain>>
  BY DEF NoUsableReply, operator
<1>2. /\ mem' \in Memory /\ todo' \in Seq(Command) /\ runs' \in 0 .. MaxRuns
      /\ Reflects(journal, domain, mem, Len(journal))
      /\ mem.pending = "none" /\ ~mem.paused
  BY <1>1 DEF ControlInvariant, TypeOK, Memories, Places, AtRest
<1>3. "failure" \in Kind /\ Replay(mem, Event("failure")) = mem
  BY PlainReplay DEF Kind, Lifecycle
<1>4. Allowed(journal, domain, Len(journal), Event("failure"))
  BY DEF Allowed, Event
<1> QED
  BY <1>1, <1>2, <1>3, <1>4, GoOnStep

\* A reply is in the journal before the memory knows of it.
LEMMA ReceiveStep ==
  ASSUME ControlInvariant, NEW kind \in Reply, Receive(kind)
  PROVE  ControlInvariant'
<1>1. /\ pc = "await" /\ pc' = "replied" /\ Record(kind)
      /\ UNCHANGED <<inbox, draft, saved, mem, todo, receipt, runs, domain>>
  BY DEF Receive, operator
<1>2. /\ mem \in Memory /\ Reflects(journal, domain, mem, Len(journal))
      /\ mem.pending = "none" /\ ~mem.paused
  BY <1>1 DEF ControlInvariant, TypeOK, Memories, Places, AtRest
<1>3. kind \in Kind /\ kind \notin {"control", "request", "completed"}
  BY DEF Kind, Reply
<1>4. Allowed(journal, domain, Len(journal), Event(kind))
  BY <1>3 DEF Allowed, Event
<1>5. /\ Identities(inbox', draft') /\ InOrder(journal', inbox')
      /\ journal' \in Seq(Entry) /\ journal' # <<>> /\ journal'[Len(journal')] = Event(kind)
      /\ saved' \in [mem : Memory, at : 0 .. Len(journal')]
      /\ Reflects(journal', domain', saved'.mem, saved'.at)
      /\ \A n \in 1 .. Len(journal') : Lawful(journal', domain', n)
      /\ \A m : Reflects(journal, domain, m, Len(journal)) =>
           Reflects(journal', domain', m, Len(journal') - 1)
  BY <1>1, <1>3, <1>4, RecordStep
<1>6. TypeOK'
  BY <1>1, <1>5 DEF ControlInvariant, TypeOK, Entry, Alive
<1>7. Memories'
  BY <1>1, <1>2, <1>5 DEF Memories, AtRest, Event
<1>8. Places'
  BY <1>1, <1>2 DEF Places
<1> QED
  BY <1>5, <1>6, <1>7, <1>8 DEF ControlInvariant

LEMMA AcceptReplyStep == ControlInvariant /\ AcceptReply => ControlInvariant'
<1> SUFFICES ASSUME ControlInvariant, AcceptReply PROVE ControlInvariant'
  OBVIOUS
<1>1. /\ pc = "replied" /\ pc' = "saving" /\ mem' = Accept(mem, Last(journal).kind)
      /\ UNCHANGED <<operator, journal, saved, todo, receipt, runs, domain>>
  BY DEF AcceptReply
<1> DEFINE n == Len(journal) - 1
           e == journal[Len(journal)]
<1>2. /\ journal \in Seq(Entry) /\ journal # <<>> /\ Len(journal) \in Nat /\ n \in Nat
      /\ n + 1 = Len(journal) /\ n < Len(journal) /\ domain \in BOOLEAN
      /\ e.kind \in Reply /\ Reflects(journal, domain, mem, n)
  BY <1>1 DEF ControlInvariant, Memories, TypeOK, Entry
<1>3. mem' = Replay(mem, e)
  BY <1>1, <1>2 DEF Replay, Last, Reply
<1>4. Distinct(journal)
  BY <1>2, OrderIsDistinct DEF ControlInvariant
<1>5. e.kind # "control" /\ journal[n + 1] = e
  BY <1>2 DEF Reply
<1> HIDE DEF n, e
<1>6. Reflects(journal, domain, mem', Len(journal))
  BY <1>2, <1>3, <1>4, <1>5, ReplayReflects
<1>7. mem' \in Memory
  BY <1>6 DEF Reflects
<1>8. TypeOK' /\ Memories' /\ Places'
  BY <1>1, <1>6, <1>7 DEF ControlInvariant, TypeOK, Memories, Places, AtRest, Alive, operator
<1> QED
  BY <1>1, <1>8, SilentStep

\* The next command that was read is one the journal acknowledges, or it is the
\* first that it does not.
LEMMA NextUnread ==
  ASSUME NEW s, Len(s) \in Nat, NEW box \in Seq(Command), NEW new, NEW rest \in Seq(Command), rest # <<>>,
         Unread(s, box, rest), InOrder(s, box), Identities(box, new),
         NEW known, known = {s[i].command.id : i \in Acks(s, Len(s))}
  PROVE  /\ Head(rest).id \in known => Unread(s, box, Tail(rest))
         /\ Head(rest).id \notin known =>
              /\ Cardinality(Acks(s, Len(s))) + 1 <= Len(box)
              /\ Head(rest) = box[Cardinality(Acks(s, Len(s))) + 1]
              /\ Behind(box, Tail(rest), Cardinality(Acks(s, Len(s))) + 1)
<1> DEFINE k == Cardinality(Acks(s, Len(s)))
<1>1. k \in Nat /\ Len(box) \in Nat /\ k <= Len(box)
  BY AcksFinite DEF InOrder
<1>2. PICK j \in 0 .. k : \A i \in 1 .. Len(rest) : j + i <= Len(box) /\ rest[i] = box[j + i]
  BY DEF Unread, Behind
<1>3. /\ Len(rest) \in Nat \ {0} /\ Len(Tail(rest)) = Len(rest) - 1 /\ Head(rest) = rest[1]
      /\ \A i \in 1 .. Len(Tail(rest)) : Tail(rest)[i] = rest[i + 1]
  OBVIOUS
<1>4. j \in Nat /\ j + 1 <= Len(box) /\ Head(rest) = box[j + 1]
  BY <1>1, <1>2, <1>3
<1>5. Behind(box, Tail(rest), j + 1)
  <2> SUFFICES ASSUME NEW i \in 1 .. Len(Tail(rest))
               PROVE  (j + 1) + i <= Len(box) /\ Tail(rest)[i] = box[(j + 1) + i]
    BY DEF Behind
  <2>1. i + 1 \in 1 .. Len(rest) /\ j + (i + 1) = (j + 1) + i /\ Tail(rest)[i] = rest[i + 1]
    BY <1>3, <1>4
  <2> QED
    BY <1>2, <2>1
<1>6. CASE j < k
  <2>1. j + 1 \in 1 .. k /\ j + 1 \in 0 .. k
    BY <1>1, <1>4, <1>6
  <2>2. PICK n \in Acks(s, Len(s)) : s[n].command = box[j + 1]
    BY <2>1 DEF InOrder
  <2>3. Head(rest).id \in known
    BY <1>4, <2>2
  <2>4. Unread(s, box, Tail(rest))
    BY <1>5, <2>1 DEF Unread
  <2> QED
    BY <2>3, <2>4
<1>7. CASE j = k
  <2>1. Head(rest).id \notin known
    <3> SUFFICES ASSUME NEW n \in Acks(s, Len(s)), Head(rest).id = s[n].command.id PROVE FALSE
      OBVIOUS
    <3>1. /\ Cardinality(Acks(s, n)) \in 1 .. Len(box)
          /\ s[n].command = box[Cardinality(Acks(s, n))]
      BY DEF InOrder
    <3>2. Cardinality(Acks(s, n)) <= k
      <4>1. n \in Nat /\ n <= Len(s)
        BY DEF Acks
      <4> QED
        BY <4>1, AcksGrow
    <3>3. k + 1 = Cardinality(Acks(s, n))
      <4>1. k + 1 \in 1 .. Len(box)
        BY <1>1, <1>4, <1>7
      <4> QED
        BY <1>4, <1>7, <3>1, <4>1 DEF Identities
    <3> QED
      BY <1>1, <3>2, <3>3
  <2> QED
    BY <1>4, <1>5, <1>7, <2>1
<1> QED
  BY <1>1, <1>6, <1>7

\* A command is recorded and applied, or was before.
LEMMA DeliverStep == ControlInvariant /\ Deliver => ControlInvariant'
<1> SUFFICES ASSUME ControlInvariant, Deliver PROVE ControlInvariant'
  OBVIOUS
<1>1. /\ pc = "deliver" /\ pc' = pc /\ todo # <<>> /\ todo' = Tail(todo)
      /\ UNCHANGED <<inbox, draft, saved, receipt, runs, domain>>
  BY DEF Deliver, operator
<1>2. /\ journal \in Seq(Entry) /\ Len(journal) \in Nat /\ inbox \in Seq(Command) /\ Len(inbox) \in Nat
      /\ todo \in Seq(Command) /\ Head(todo) \in Command /\ Tail(todo) \in Seq(Command)
      /\ mem \in Memory /\ mem.pending = "none"
      /\ Reflects(journal, domain, mem, Len(journal))
      /\ Unread(journal, inbox, todo) /\ InOrder(journal, inbox) /\ Identities(inbox, draft)
  BY <1>1 DEF ControlInvariant, TypeOK, Entry, Memories, Places, AtRest
<1> DEFINE k == Cardinality(Acks(journal, Len(journal)))
<1>3. mem.applied = {journal[i].command.id : i \in Acks(journal, Len(journal))}
  BY <1>2 DEF Reflects
<1>4. CASE Head(todo).id \in mem.applied
  <2>1. UNCHANGED <<journal, mem>>
    BY <1>4 DEF Deliver
  <2>2. Unread(journal, inbox, Tail(todo))
    BY <1>1, <1>2, <1>3, <1>4, NextUnread
  <2>3. TypeOK' /\ Memories' /\ Places'
    BY <1>1, <1>2, <2>1, <2>2 DEF ControlInvariant, TypeOK, Memories, Places
  <2> QED
    BY <1>1, <2>1, <2>3, SilentStep DEF operator
<1>5. CASE Head(todo).id \notin mem.applied
  <2> DEFINE e == [kind |-> "control", command |-> Head(todo)]
  <2>1. journal' = Append(journal, e) /\ mem' = Apply(mem, Head(todo))
    BY <1>5 DEF Deliver
  <2>2. e \in Entry /\ e.kind = "control" /\ e.command = Head(todo) /\ e.command \in Command
    BY <1>2 DEF Entry, Kind
  <2>3. OneMore(journal, e, journal') /\ mem' = Replay(mem, e)
    BY <1>2, <2>1, <2>2 DEF OneMore, Replay
  <2> HIDE DEF e
  <2>4. /\ k + 1 <= Len(inbox) /\ Head(todo) = inbox[k + 1]
        /\ Behind(inbox, Tail(todo), k + 1)
    BY <1>1, <1>2, <1>3, <1>5, NextUnread
  <2>5. InOrder(journal', inbox) /\ Cardinality(Acks(journal', Len(journal'))) = k + 1
    BY <1>2, <2>2, <2>3, <2>4, AckKeepsOrder
  <2>6. k + 1 \in 0 .. k + 1
    BY <1>2, AcksFinite
  <2>7. Unread(journal', inbox, Tail(todo))
    <3> HIDE DEF k
    <3> QED
      BY <2>4, <2>5, <2>6 DEF Unread
  <2>8. Allowed(journal, domain, Len(journal), e)
    BY <1>2, <2>2 DEF Allowed, Reflects
  <2>9. /\ journal' \in Seq(Entry) /\ journal' # <<>>
        /\ saved \in [mem : Memory, at : 0 .. Len(journal')]
        /\ Reflects(journal', domain, saved.mem, saved.at)
        /\ \A n \in 1 .. Len(journal') : Lawful(journal', domain, n)
        /\ Reflects(journal', domain, Replay(mem, e), Len(journal'))
    BY <1>2, <2>2, <2>3, <2>5, <2>8, EventStep
  <2>10. mem' \in Memory /\ mem'.pending = "none"
    <3>1. mem'.pending = mem.pending
      BY <1>2, <2>1 DEF Apply, Memory
    <3> QED
      BY <1>2, <2>3, <2>9, <3>1 DEF Reflects
  <2>11. TypeOK'
    BY <1>1, <1>2, <2>9, <2>10 DEF ControlInvariant, TypeOK, Entry
  <2>12. Memories'
    BY <1>1, <2>3, <2>9 DEF Memories, AtRest
  <2>13. Places'
    BY <1>1, <2>7, <2>10 DEF Places
  <2> QED
    BY <1>1, <2>5, <2>9, <2>11, <2>12, <2>13 DEF ControlInvariant
<1> QED
  BY <1>4, <1>5

-----------------------------------------------------------------------------
(* Stops and resumes. *)

\* The task stops on its own, and says completed only if an answer stands.
LEMMA TaskStops ==
  ASSUME ControlInvariant, StopOnEvidence \/ Conclude \/ GiveUp
  PROVE  ControlInvariant'
<1>1. UNCHANGED <<inbox, draft, saved, mem, todo, receipt, runs, domain>>
  BY DEF StopOnEvidence, Conclude, GiveUp, operator
<1>2. mem' \in Memory /\ todo' \in Seq(Command) /\ runs' \in 0 .. MaxRuns
  BY <1>1 DEF ControlInvariant, TypeOK
<1>3. CASE StopOnEvidence
  <2>1. Stop("completed") /\ domain
    BY <1>3 DEF StopOnEvidence, ControlInvariant, Memories, AtRest, Reflects
  <2> QED
    BY <1>1, <1>2, <2>1, StopStep
<1>4. CASE Conclude
  <2>1. /\ Stop(mem.terminal) /\ mem.terminal \in {"completed", "stopped"}
        /\ mem.terminal = "completed" /\ ~domain => Answered(journal, Len(journal))
    BY <1>2, <1>4 DEF Conclude, ControlInvariant, Memories, AtRest, Reflects, Memory, TypeOK
  <2> QED
    BY <1>1, <1>2, <2>1, StopStep
<1>5. CASE GiveUp
  BY <1>1, <1>2, <1>5, StopStep DEF GiveUp
<1> QED
  BY <1>3, <1>4, <1>5

LEMMA RefuseResumeStep == ControlInvariant /\ RefuseResume => ControlInvariant'
<1> SUFFICES ASSUME ControlInvariant, RefuseResume PROVE ControlInvariant'
  OBVIOUS
<1>1. /\ Stop("stopped") /\ mem' \in {Blank, Restored} /\ todo' = <<>>
      /\ UNCHANGED <<inbox, draft, saved, receipt, domain>>
  BY DEF RefuseResume, operator
<1>2. runs' \in 0 .. MaxRuns
  BY ControlAssumption DEF RefuseResume, Resuming, ControlInvariant, TypeOK, ControlAssumption
<1>3. Restored \in Memory /\ Blank \in Memory
  BY RestoredReflects DEF Reflects, Blank, Memory
<1>4. mem' \in Memory /\ todo' \in Seq(Command)
  BY <1>1, <1>3
<1> QED
  BY <1>1, <1>2, <1>4, StopStep

LEMMA ResumeStep == ControlInvariant /\ Resume => ControlInvariant'
<1> SUFFICES ASSUME ControlInvariant, Resume PROVE ControlInvariant'
  OBVIOUS
<1>1. /\ Record("resume") /\ mem' = Restored /\ todo' = <<>> /\ pc' = "saving"
      /\ UNCHANGED <<inbox, draft, saved, receipt, domain>>
  BY DEF Resume, operator
<1>2. runs' \in 0 .. MaxRuns
  BY ControlAssumption DEF Resume, Resuming, ControlInvariant, TypeOK, ControlAssumption
<1>3. Reflects(journal, domain, Restored, Len(journal)) /\ Restored \in Memory
  BY RestoredReflects DEF Reflects
<1>4. "resume" \in Kind /\ Replay(Restored, Event("resume")) = Restored
  BY PlainReplay DEF Kind, Lifecycle
<1>5. Allowed(journal, domain, Len(journal), Event("resume"))
  BY DEF Allowed, Event
<1>6. mem' \in Memory /\ todo' \in Seq(Command)
  BY <1>1, <1>3
<1>7. \E m : Reflects(journal, domain, m, Len(journal)) /\ mem' = Replay(m, Event("resume"))
  BY <1>1, <1>3, <1>4
<1> QED
  BY <1>1, <1>2, <1>4, <1>5, <1>6, <1>7, GoOnStep

-----------------------------------------------------------------------------
(* The theorems. *)

LEMMA Initially == Init => ControlInvariant
<1> SUFFICES ASSUME Init PROVE ControlInvariant
  OBVIOUS
<1>1. /\ inbox = <<>> /\ draft = None /\ journal = <<>> /\ Len(journal) = 0 /\ todo = <<>>
      /\ saved = [mem |-> Blank, at |-> 0] /\ mem = Blank /\ pc = "none" /\ runs = 0
      /\ receipt = [status |-> "none", evidence |-> FALSE] /\ domain \in BOOLEAN
  BY DEF Init
<1>2. Blank \in Memory /\ 1 .. 0 = {}
  BY DEF Blank, Memory
<1>3. Acks(journal, 0) = {} /\ Cardinality(Acks(journal, 0)) = 0 /\ 1 .. Len(inbox) = {}
  BY <1>1, <1>2, FS_EmptySet DEF Acks
<1>4. TypeOK
  BY <1>1, <1>2, ControlAssumption DEF TypeOK, ControlAssumption
<1>5. Identities(inbox, draft) /\ InOrder(journal, inbox)
  BY <1>1, <1>3 DEF Identities, InOrder
<1>6. Reflects(journal, domain, Blank, 0)
  BY <1>1, <1>2, <1>3 DEF Reflects, Blank, Paused, Whole
<1>7. Memories /\ Places
  BY <1>1, <1>6 DEF Memories, Places, AtRest
<1> QED
  BY <1>1, <1>2, <1>4, <1>5, <1>7 DEF ControlInvariant

LEMMA Inductive == ControlInvariant /\ [Next]_vars => ControlInvariant'
<1> SUFFICES ASSUME ControlInvariant, [Next]_vars PROVE ControlInvariant'
  OBVIOUS
<1>1. CASE \E action \in Action : Submit(action)
  BY <1>1, SubmitStep
<1>2. CASE PlaceFile \/ LosePending
  BY <1>2, PlaceFileStep, LosePendingStep
<1>3. CASE Start
  BY <1>3, StartStep
<1>4. CASE Progress
  BY <1>4, SaveStep, FindEvidenceStep, TaskStops, ReadStep, DeliverStep, DeliveredStep,
     RunToolsStep, FinishToolsStep, SendRequestStep, NoUsableReplyStep, ReceiveStep,
     AcceptReplyStep, OverStep DEF Progress
<1>5. CASE GiveUp
  BY <1>5, TaskStops
<1>6. CASE ProcessEnds \/ AlreadyCompleted
  BY <1>6, OverStep
<1>7. CASE RefuseResume
  BY <1>7, RefuseResumeStep
<1>8. CASE Resume
  BY <1>8, ResumeStep
<1>9. CASE UNCHANGED vars
  BY <1>9 DEF ControlInvariant, TypeOK, Memories, Places, vars
<1> QED
  BY <1>1, <1>2, <1>3, <1>4, <1>5, <1>6, <1>7, <1>8, <1>9 DEF Next

\* Whatever the operator submits and whichever process ends, the memory, the last
\* checkpoint and the journal agree.
THEOREM Invariance == Spec => []ControlInvariant
<1>1. Init => ControlInvariant
  BY Initially
<1>2. ControlInvariant /\ [Next]_vars => ControlInvariant'
  BY Inductive
<1> QED
  BY <1>1, <1>2, PTL DEF Spec

\* A memory rebuilt from the last checkpoint and the journal after it (_restore)
\* knows all the journal says, at any moment a process may end.
THEOREM ResumeForgetsNothing ==
  Spec => []Reflects(journal, domain, Restored, Len(journal))
<1>1. ControlInvariant => Reflects(journal, domain, Restored, Len(journal))
  BY RestoredReflects
<1> QED
  BY <1>1, Invariance, PTL

\* Commands are acknowledged once and in the order of the inbox (_control_boundary
\* against the replay in _restore).
THEOREM AcknowledgedInOrder == Spec => []AckedOnceInOrder
<1>1. ControlInvariant => AckedOnceInOrder
  BY DEF ControlInvariant, InOrder, AckedOnceInOrder
<1> QED
  BY <1>1, Invariance, PTL

\* No request goes out while an acknowledged pause is in force, also not after a
\* restart.
THEOREM PauseHolds == Spec => []PausedIsQuiet
<1>1. ControlInvariant => PausedIsQuiet
  BY DEF ControlInvariant, Lawful, Allowed, PausedIsQuiet
<1> QED
  BY <1>1, Invariance, PTL

\* A task that ends by its answer took in no message after that answer.
THEOREM NoMessageIsPassedOver == Spec => []MessageGetsATurn
<1>1. ControlInvariant => MessageGetsATurn
  BY DEF ControlInvariant, Lawful, Allowed, MessageGetsATurn
<1> QED
  BY <1>1, Invariance, PTL

\* Neither a command nor a request comes between a tool call and its results.
THEOREM InteractionsStayIntact == Spec => []InteractionIntact
<1>1. ControlInvariant => InteractionIntact
  BY DEF ControlInvariant, Lawful, Allowed, InteractionIntact
<1> QED
  BY <1>1, Invariance, PTL
=============================================================================
