------------------------ MODULE RouteDispatchProofs ------------------------
(***************************************************************************)
(* What RouteDispatch promises for any number of tasks, permits and        *)
(* attempts: permits are counted right, the head of the queue is never     *)
(* asleep with nothing to wake it, and nobody overtakes but who was        *)
(* refused, or compacted its context after that.  The invariant says who   *)
(* has a ticket, that redispatched ones come first, and that the others    *)
(* stand in the order they came in.                                        *)
(***************************************************************************)
EXTENDS RouteDispatch, FiniteSetTheorems, TLAPS

\* A line of members of S, in which M is everybody who stands there.
Line(q, S, M) ==
  /\ q \in Seq(S)
  /\ \A i, j \in 1..Len(q) : q[i] = q[j] => i = j
  /\ \A t \in S : t \in M <=> \E i \in 1..Len(q) : q[i] = t

\* Those of P stand before the others.
Ahead(q, P) == \A i, j \in 1..Len(q) : i < j /\ q[j] \in P => q[i] \in P

Asleep == {t \in Task : pc[t] = "asleep"}

Redispatched == {t \in Task : redispatch[t]}

\* Somebody stands before a ticket older than its own only if it is of P; B says
\* which tickets are older.
Orderly(q, B, P) == \A i, j \in 1..Len(q) : i < j /\ q[j] \in B[q[i]] => q[i] \in P

\* Only tickets in the queue are older than others.
Tickets == \A t \in Task : before[t] \subseteq Asleep

\* Whose redispatch_of is set was refused, and has only been compacted since.
Flags == \A t \in Task : redispatch[t] => standing[t] # "new"

\* Who holds a permit has its request away, and only then.
Leases == \A t \in Task : ~released[t] <=> pc[t] = "holding"

InOrder == Ahead(queue, Redispatched) /\ Orderly(queue, before, Redispatched) /\ Tickets /\ Flags

IInv == TypeOK /\ Line(queue, Task, Asleep) /\ InOrder /\ Leases /\ PermitsCounted /\ HeadWillLook

-----------------------------------------------------------------------------
(* The queue: what joining, being served and leaving do to it.                 *)

\* A ticket more at the end.
LEMMA AppendLine ==
  ASSUME NEW S, NEW q, NEW M, Line(q, S, M), NEW P, NEW B, NEW t \in S, t \notin M
  PROVE  /\ Line(Append(q, t), S, M \cup {t}) /\ Append(q, t) # <<>>
         /\ Ahead(q, P) /\ t \notin P => Ahead(Append(q, t), P)
         /\ Orderly(q, B, P) /\ (\A u \in M : t \notin B[u]) => Orderly(Append(q, t), B, P)
         /\ q # <<>> => Head(Append(q, t)) = Head(q)
         /\ q = <<>> => Head(Append(q, t)) = t
<1> DEFINE r == Append(q, t)
<1>1. q \in Seq(S) /\ Len(q) \in Nat
  BY DEF Line
<1>2. r \in Seq(S) /\ Len(r) = Len(q) + 1 /\ r[Len(q) + 1] = t /\ \A i \in 1..Len(q) : r[i] = q[i]
  BY <1>1
<1>3. \A i \in 1..Len(q) : q[i] # t
  BY DEF Line
<1>4. \A i, j \in 1..Len(r) : r[i] = r[j] => i = j
  BY <1>1, <1>2, <1>3 DEF Line
<1>5. ASSUME NEW u \in S PROVE u \in M \cup {t} <=> \E i \in 1..Len(r) : r[i] = u
  BY <1>1, <1>2 DEF Line
<1>6. Ahead(q, P) /\ t \notin P => Ahead(r, P)
  BY <1>1, <1>2 DEF Ahead
<1>7. (q # <<>> => Head(r) = Head(q)) /\ (q = <<>> => Head(r) = t) /\ r # <<>>
  BY <1>1, <1>2
<1>8. Orderly(q, B, P) /\ (\A u \in M : t \notin B[u]) => Orderly(r, B, P)
  <2>1. \A i \in 1..Len(q) : q[i] \in M
    BY <1>1 DEF Line
  <2> QED BY <1>1, <1>2, <2>1 DEF Orderly
<1> QED BY <1>2, <1>4, <1>5, <1>6, <1>7, <1>8 DEF Line

\* A ticket more at the front.
LEMMA FrontLine ==
  ASSUME NEW S, NEW q, NEW M, Line(q, S, M), NEW P, NEW B, NEW t \in S, t \notin M
  PROVE  /\ Line(<<t>> \o q, S, M \cup {t}) /\ <<t>> \o q # <<>>
         /\ Ahead(q, P) /\ t \in P => Ahead(<<t>> \o q, P)
         /\ Orderly(q, B, P) /\ t \in P => Orderly(<<t>> \o q, B, P)
         /\ Head(<<t>> \o q) = t
<1> DEFINE r == <<t>> \o q
<1>1. q \in Seq(S) /\ Len(q) \in Nat
  BY DEF Line
<1>2. r \in Seq(S) /\ Len(r) = Len(q) + 1 /\ r[1] = t /\ \A i \in 2..Len(r) : r[i] = q[i - 1]
  BY <1>1
<1>3. \A i \in 1..Len(q) : q[i] # t
  BY DEF Line
<1> HIDE DEF r
<1>4. \A i \in 1..Len(r) : i = 1 \/ (i - 1 \in 1..Len(q) /\ r[i] = q[i - 1])
  BY <1>1, <1>2
<1>5. ASSUME NEW i \in 1..Len(r), NEW j \in 1..Len(r), r[i] = r[j] PROVE i = j
  <2>1. CASE i = 1 \/ j = 1
    BY <1>2, <1>3, <1>4, <1>5, <2>1
  <2>2. CASE i # 1 /\ j # 1
    <3>1. i - 1 = j - 1
      BY <1>4, <1>5, <2>2 DEF Line
    <3> QED BY <1>2, <3>1
  <2> QED BY <2>1, <2>2
<1>6. ASSUME NEW u \in S PROVE u \in M \cup {t} <=> \E i \in 1..Len(r) : r[i] = u
  <2>1. ASSUME NEW i \in 1..Len(q), q[i] = u PROVE i + 1 \in 1..Len(r) /\ r[i + 1] = u
    BY <1>1, <1>2, <2>1
  <2>2. 1 \in 1..Len(r)
    BY <1>1, <1>2
  <2> QED BY <1>2, <1>4, <2>1, <2>2 DEF Line
<1>7. Ahead(q, P) /\ t \in P => Ahead(r, P)
  <2> SUFFICES ASSUME Ahead(q, P), t \in P, NEW i \in 1..Len(r), NEW j \in 1..Len(r), i < j, r[j] \in P
               PROVE  r[i] \in P
    BY DEF Ahead
  <2>1. CASE i = 1
    BY <1>2, <2>1
  <2>2. CASE i # 1
    <3>1. j - 1 \in 1..Len(q) /\ r[j] = q[j - 1] /\ i - 1 \in 1..Len(q) /\ r[i] = q[i - 1] /\ i - 1 < j - 1
      BY <1>1, <1>2, <1>4, <2>2
    <3> QED BY <3>1 DEF Ahead
  <2> QED BY <2>1, <2>2
<1>8. r # <<>> /\ Head(r) = t
  BY <1>1, <1>2
<1>9. Orderly(q, B, P) /\ t \in P => Orderly(r, B, P)
  <2> SUFFICES ASSUME Orderly(q, B, P), t \in P, NEW i \in 1..Len(r), NEW j \in 1..Len(r), i < j,
                      r[j] \in B[r[i]]
               PROVE  r[i] \in P
    BY DEF Orderly
  <2>1. CASE i = 1
    BY <1>2, <2>1
  <2>2. CASE i # 1
    <3>1. j - 1 \in 1..Len(q) /\ r[j] = q[j - 1] /\ i - 1 \in 1..Len(q) /\ r[i] = q[i - 1] /\ i - 1 < j - 1
      BY <1>1, <1>2, <1>4, <2>2
    <3> QED BY <3>1 DEF Orderly
  <2> QED BY <2>1, <2>2
<1> QED BY <1>2, <1>5, <1>6, <1>7, <1>8, <1>9 DEF Line, r

\* A ticket less.
LEMMA LessLine ==
  ASSUME NEW S, NEW q, NEW M, Line(q, S, M), NEW P, NEW B, NEW r, NEW p \in 1..Len(q),
         r \in Seq(S), Len(r) = Len(q) - 1,
         \A i \in 1..Len(r) : r[i] = IF i < p THEN q[i] ELSE q[i + 1]
  PROVE  /\ Line(r, S, M \ {q[p]})
         /\ Ahead(q, P) => Ahead(r, P)
         /\ Orderly(q, B, P) => Orderly(r, B, P)
<1>1. q \in Seq(S) /\ Len(q) \in Nat /\ q[p] \in S
  BY DEF Line
<1> DEFINE at(i) == IF i < p THEN i ELSE i + 1
<1>2. ASSUME NEW i \in 1..Len(r) PROVE r[i] = q[at(i)] /\ at(i) \in 1..Len(q) /\ at(i) # p
  BY <1>1
<1>3. \A i, j \in 1..Len(r) : (i < j <=> at(i) < at(j)) /\ (at(i) = at(j) => i = j)
  BY <1>1
<1>4. ASSUME NEW k \in 1..Len(q), k # p PROVE \E i \in 1..Len(r) : at(i) = k
  <2>1. CASE k < p
    BY <1>1, <2>1
  <2>2. CASE k > p
    <3>1. k - 1 \in 1..Len(r) /\ at(k - 1) = k
      BY <1>1, <2>2
    <3> QED BY <3>1
  <2> QED BY <1>1, <1>4, <2>1, <2>2
<1> HIDE DEF at
<1>5. \A i, j \in 1..Len(r) : r[i] = r[j] => i = j
  BY <1>2, <1>3 DEF Line
<1>6. ASSUME NEW u \in S PROVE u \in M \ {q[p]} <=> \E i \in 1..Len(r) : r[i] = u
  <2>1. ASSUME u \in M, u # q[p] PROVE \E i \in 1..Len(r) : r[i] = u
    <3>1. PICK k \in 1..Len(q) : q[k] = u
      BY <2>1 DEF Line
    <3>2. PICK i \in 1..Len(r) : at(i) = k
      BY <1>4, <2>1, <3>1
    <3> QED BY <1>2, <3>1, <3>2
  <2>2. ASSUME NEW i \in 1..Len(r), r[i] = u PROVE u \in M /\ u # q[p]
    BY <1>2, <2>2 DEF Line
  <2> QED BY <2>1, <2>2
<1>7. Ahead(q, P) => Ahead(r, P)
  <2> SUFFICES ASSUME Ahead(q, P), NEW i \in 1..Len(r), NEW j \in 1..Len(r), i < j, r[j] \in P
               PROVE  r[i] \in P
    BY DEF Ahead
  <2>1. at(i) < at(j)
    BY <1>3
  <2> QED BY <1>2, <2>1 DEF Ahead
<1>8. Orderly(q, B, P) => Orderly(r, B, P)
  <2> SUFFICES ASSUME Orderly(q, B, P), NEW i \in 1..Len(r), NEW j \in 1..Len(r), i < j, r[j] \in B[r[i]]
               PROVE  r[i] \in P
    BY DEF Orderly
  <2>1. at(i) < at(j)
    BY <1>3
  <2> QED BY <1>2, <2>1 DEF Orderly
<1> QED BY <1>5, <1>6, <1>7, <1>8 DEF Line

\* The head is served.
LEMMA TailLine ==
  ASSUME NEW S, NEW q, NEW M, Line(q, S, M), NEW P, NEW B, q # <<>>
  PROVE  /\ Line(Tail(q), S, M \ {Head(q)})
         /\ Ahead(q, P) => Ahead(Tail(q), P)
         /\ Orderly(q, B, P) => Orderly(Tail(q), B, P)
<1> DEFINE r == Tail(q)
<1>1. q \in Seq(S) /\ Len(q) \in Nat /\ 1 \in 1..Len(q) /\ Head(q) = q[1]
  BY DEF Line
<1>2. r \in Seq(S) /\ Len(r) = Len(q) - 1 /\ \A i \in 1..Len(r) : r[i] = q[i + 1]
  BY <1>1
<1>3. \A i \in 1..Len(r) : r[i] = IF i < 1 THEN q[i] ELSE q[i + 1]
  BY <1>2
<1> HIDE DEF r
<1>4. Line(r, S, M \ {q[1]}) /\ (Ahead(q, P) => Ahead(r, P)) /\ (Orderly(q, B, P) => Orderly(r, B, P))
  BY <1>1, <1>2, <1>3, LessLine
<1> QED BY <1>1, <1>4 DEF r

\* A ticket is withdrawn.
LEMMA RemoveLine ==
  ASSUME NEW S, NEW q, NEW M, Line(q, S, M), NEW P, NEW B, NEW t \in S, t \in M
  PROVE  /\ Line(RemoveFirst(q, t), S, M \ {t})
         /\ Ahead(q, P) => Ahead(RemoveFirst(q, t), P)
         /\ Orderly(q, B, P) => Orderly(RemoveFirst(q, t), B, P)
<1>1. q \in Seq(S) /\ Len(q) \in Nat
  BY DEF Line
<1>2. PICK p \in 1..Len(q) : q[p] = t
  BY DEF Line
<1> DEFINE r == RemoveFirst(q, t)
           I == {i \in 1..Len(q) : q[i] = t}
<1>3. I = {p}
  BY <1>2 DEF Line
<1>4. Min(I) = p
  BY <1>3 DEF Min
<1>5. r = SubSeq(q, 1, p - 1) \o SubSeq(q, p + 1, Len(q))
  BY <1>2, <1>3, <1>4 DEF RemoveFirst, RemoveAt, SelectInSeq
<1> HIDE DEF r
<1> DEFINE a == SubSeq(q, 1, p - 1)
           b == SubSeq(q, p + 1, Len(q))
<1>6. a \in Seq(S) /\ Len(a) = p - 1 /\ \A i \in 1..(p - 1) : a[i] = q[i]
  BY <1>1
<1>7. b \in Seq(S) /\ Len(b) = Len(q) - p /\ \A i \in 1..(Len(q) - p) : b[i] = q[i + p]
  BY <1>1
<1>0. r = a \o b
  BY <1>5
<1> HIDE DEF a, b
<1>8. r \in Seq(S) /\ Len(r) = Len(q) - 1
  <2>1. a \in Seq(S) /\ b \in Seq(S)
    BY <1>6, <1>7
  <2>2. a \o b \in Seq(S) /\ Len(a \o b) = Len(a) + Len(b)
    BY <2>1
  <2>3. Len(a) + Len(b) = Len(q) - 1
    BY <1>1, <1>6, <1>7
  <2> QED BY <1>0, <2>2, <2>3
<1>9. \A i \in 1..Len(r) : r[i] = IF i < p THEN q[i] ELSE q[i + 1]
  <2> SUFFICES ASSUME NEW i \in 1..Len(r) PROVE r[i] = IF i < p THEN q[i] ELSE q[i + 1]
    OBVIOUS
  <2>1. CASE i < p
    BY <1>0, <1>1, <1>6, <1>7, <1>8, <2>1
  <2>2. CASE i >= p
    <3>1. i - (p - 1) \in 1..(Len(q) - p) /\ i = Len(a) + (i - (p - 1)) /\ (i - (p - 1)) + p = i + 1
      BY <1>1, <1>6, <1>8, <2>2
    <3>2. r[i] = b[i - (p - 1)]
      BY <1>0, <1>1, <1>6, <1>7, <2>2, <3>1
    <3> QED BY <1>7, <2>2, <3>1, <3>2
  <2> QED BY <2>1, <2>2
<1> QED BY <1>2, <1>8, <1>9, LessLine DEF r

\* Who stands first stands in line.
LEMMA HeadInLine ==
  ASSUME NEW S, NEW q, NEW M, Line(q, S, M), q # <<>>
  PROVE  Head(q) \in S /\ Head(q) \in M
<1>1. q \in Seq(S) /\ 1 \in 1..Len(q) /\ Head(q) = q[1]
  BY DEF Line
<1> QED BY <1>1 DEF Line

-----------------------------------------------------------------------------
(* Permits.                                                                    *)

Leased == {t \in Task : ~released[t]}

\* Permits are counted by the leases.
LEMMA CountedLeases ==
  ASSUME Leases
  PROVE  PermitsCounted <=> inFlight = Cardinality(Leased)
BY DEF Leases, PermitsCounted, Leased

\* The tasks are finitely many, and so are the leases.
LEMMA FiniteLeases ==
  IsFiniteSet(Leased) /\ IsFiniteSet(Leased') /\ Cardinality(Leased) \in Nat
<1>1. IsFiniteSet(Task)
  BY DispatchAssumption
<1>2. Leased \subseteq Task /\ Leased' \subseteq Task
  BY DEF Leased
<1> QED BY <1>1, <1>2, FS_Subset, FS_CardinalityType

\* A permit more.
LEMMA PermitTaken ==
  ASSUME TypeOK, Leases, PermitsCounted, NEW t \in Task, pc[t] # "holding", inFlight < limit,
         inFlight' = inFlight + 1, released' = [released EXCEPT ![t] = FALSE]
  PROVE  /\ released' \in [Task -> BOOLEAN] /\ inFlight' \in 0..MaxPermits
         /\ inFlight' = Cardinality(Leased)'
<1>1. t \notin Leased /\ released' \in [Task -> BOOLEAN]
  BY DEF Leases, Leased, TypeOK
<1>2. Leased' = Leased \cup {t}
  BY DEF Leased, TypeOK
<1>3. Cardinality(Leased') = Cardinality(Leased) + 1
  BY <1>1, <1>2, FiniteLeases, FS_AddElement
<1>4. inFlight = Cardinality(Leased)
  BY CountedLeases
<1>5. inFlight' \in 0..MaxPermits
  BY DispatchAssumption DEF TypeOK
<1> QED BY <1>1, <1>3, <1>4, <1>5

\* Who has a permit gives it back and wakes everybody.
LEMMA PermitGiven ==
  ASSUME TypeOK, Leases, PermitsCounted, NEW t \in Task, pc[t] = "holding", Release(t)
  PROVE  /\ released' = [released EXCEPT ![t] = TRUE] /\ released' \in [Task -> BOOLEAN]
         /\ inFlight' \in 0..MaxPermits /\ inFlight' = Cardinality(Leased)'
         /\ woken' = [u \in Task |-> TRUE]
<1>1. t \in Leased
  BY DEF Leases, Leased
<1>2. released' = [released EXCEPT ![t] = TRUE] /\ inFlight' = inFlight - 1 /\ woken' = [u \in Task |-> TRUE]
  BY <1>1 DEF Release, Leased, WakeAll
<1>3. Leased' = Leased \ {t} /\ released' \in [Task -> BOOLEAN]
  BY <1>2 DEF Leased, TypeOK
<1>4. Cardinality(Leased') = Cardinality(Leased) - 1
  BY <1>1, <1>3, FiniteLeases, FS_RemoveElement
<1>5. inFlight = Cardinality(Leased) /\ Cardinality(Leased') \in Nat
  BY CountedLeases, FiniteLeases, FS_CardinalityType
<1>6. inFlight' = Cardinality(Leased') /\ inFlight' \in 0..MaxPermits
  BY <1>2, <1>4, <1>5, DispatchAssumption DEF TypeOK
<1> QED BY <1>2, <1>3, <1>6

\* Who has none gives nothing back.
LEMMA NoPermit ==
  ASSUME TypeOK, Leases, NEW t \in Task, pc[t] # "holding", Release(t)
  PROVE  UNCHANGED <<released, inFlight, woken>>
BY DEF Leases, TypeOK, Release

-----------------------------------------------------------------------------
(* The steps.                                                                  *)

\* Fewer tickets are older than others.
LEMMA FewerOlder ==
  ASSUME NEW q \in Seq(Task), NEW B, NEW C, NEW P, Orderly(q, B, P), \A u \in Task : C[u] \subseteq B[u]
  PROVE  Orderly(q, C, P)
<1>1. \A i \in 1..Len(q) : q[i] \in Task
  OBVIOUS
<1> QED BY <1>1 DEF Orderly

\* One turn of acquire's loop.
LEMMA LookStep ==
  ASSUME IInv, NEW t \in Task, pc[t] \in {"idle", "asleep"}, NEW q, NEW older \in SUBSET (Asleep \cup {t}),
         Line(q, Task, Asleep \cup {t}), Ahead(q, Redispatched), q # <<>>,
         Orderly(q, [before EXCEPT ![t] = older], Redispatched),
         Head(q) # t /\ inFlight < limit => woken[Head(q)] \/ timer[Head(q)],
         Look(t, q, older), UNCHANGED <<Call, Route>>, attempts' \in 0..MaxAttempts
  PROVE  IInv'
<1> DEFINE B == [before EXCEPT ![t] = older]
<1>0. /\ TypeOK /\ Leases /\ PermitsCounted /\ Tickets /\ Flags
      /\ redispatch' = redispatch /\ compacted' = compacted /\ standing' = standing
      /\ limit' = limit /\ blocked' = blocked /\ quiet' = quiet
  BY DEF IInv, Route, Call, InOrder
<1>a. Flags' /\ Redispatched' = Redispatched
  BY <1>0 DEF Flags, Redispatched
<1>b. before \in [Task -> SUBSET Task] /\ q \in Seq(Task) /\ Asleep \cup {t} \subseteq Task
  BY <1>0 DEF TypeOK, Line, Asleep
<1>c. Orderly(q, B, Redispatched)
  OBVIOUS
<1>1. CASE Head(q) = t /\ inFlight < limit /\ ~blocked
  <2>1. /\ queue' = Tail(q) /\ inFlight' = inFlight + 1 /\ released' = [released EXCEPT ![t] = FALSE]
        /\ pc' = [pc EXCEPT ![t] = "holding"] /\ woken' = [u \in Task |-> TRUE]
        /\ timer' = [timer EXCEPT ![t] = FALSE]
        /\ before' = [u \in Task |-> IF u = t THEN {} ELSE before[u] \ {t}]
    BY <1>1 DEF Look, Go, WakeAll, NoTicket
  <2>2. /\ released' \in [Task -> BOOLEAN] /\ inFlight' \in 0..MaxPermits
        /\ inFlight' = Cardinality(Leased)'
    BY <1>0, <1>1, <2>1, PermitTaken
  <2>3. Asleep' = (Asleep \cup {t}) \ {t}
    BY <1>0, <2>1 DEF Asleep, TypeOK
  <2>4. /\ Line(Tail(q), Task, (Asleep \cup {t}) \ {t}) /\ Ahead(Tail(q), Redispatched)
        /\ Orderly(Tail(q), B, Redispatched)
    <3> HIDE DEF B
    <3> QED BY <1>1, <1>c, TailLine
  <2>5. Line(queue', Task, Asleep') /\ Ahead(queue, Redispatched)'
    BY <1>a, <2>1, <2>3, <2>4 DEF Ahead
  <2>6. Leases'
    BY <1>0, <2>1 DEF Leases, TypeOK
  <2>7. PermitsCounted'
    BY <2>2, <2>6 DEF PermitsCounted, Leases, Leased
  <2>8. HeadWillLook'
    BY <2>1, <2>5, HeadInLine DEF HeadWillLook
  <2>9. queue' \in Seq(Task)
    BY <2>5 DEF Line
  <2>10. before' \in [Task -> SUBSET Task] /\ \A u \in Task : before'[u] \subseteq B[u]
    BY <1>b, <2>1
  <2>11. Orderly(queue', before', Redispatched')
    <3> HIDE DEF B
    <3> QED BY <1>a, <2>1, <2>4, <2>9, <2>10, FewerOlder
  <2>12. Tickets'
    BY <1>0, <1>b, <2>1, <2>3 DEF Tickets
  <2>13. TypeOK'
    BY <1>0, <2>1, <2>2, <2>9, <2>10 DEF TypeOK, Place
  <2> QED BY <1>a, <2>5, <2>6, <2>7, <2>8, <2>11, <2>12, <2>13 DEF IInv, InOrder, Line, Asleep, Orderly
<1>2. CASE ~(Head(q) = t /\ inFlight < limit /\ ~blocked)
  <2>1. /\ queue' = q /\ pc' = [pc EXCEPT ![t] = "asleep"]
        /\ woken' = [woken EXCEPT ![t] = FALSE]
        /\ timer' = [timer EXCEPT ![t] = Head(q) = t /\ blocked]
        /\ before' = [before EXCEPT ![t] = older]
        /\ inFlight' = inFlight /\ released' = released
    BY <1>2 DEF Look, Go, NeedsTimer
  <2>2. Asleep' = Asleep \cup {t}
    BY <1>0, <2>1 DEF Asleep, TypeOK
  <2>3. Line(queue', Task, Asleep') /\ Ahead(queue, Redispatched)' /\ Orderly(queue, before, Redispatched)'
    BY <1>a, <1>c, <2>1, <2>2 DEF Ahead, Orderly
  <2>4. Leases'
    BY <1>0, <2>1 DEF Leases, TypeOK
  <2>5. PermitsCounted'
    BY <1>0, <2>1, <2>4 DEF PermitsCounted, Leases
  <2>6. Head(q) \in Task
    BY HeadInLine
  <2>7. HeadWillLook'
    <3>1. CASE Head(q) = t
      BY <1>0, <1>2, <2>1, <3>1 DEF HeadWillLook, TypeOK
    <3>2. CASE Head(q) # t
      BY <1>0, <2>1, <2>6, <3>2 DEF HeadWillLook, TypeOK
    <3> QED BY <3>1, <3>2
  <2>8. queue' \in Seq(Task)
    BY <2>3 DEF Line
  <2>9. timer' \in [Task -> BOOLEAN] /\ woken' \in [Task -> BOOLEAN]
    <3>1. (Head(q) = t /\ blocked) \in BOOLEAN
      OBVIOUS
    <3> QED BY <1>0, <2>1, <3>1 DEF TypeOK
  <2>10. Tickets' /\ before' \in [Task -> SUBSET Task]
    BY <1>0, <1>b, <2>1, <2>2 DEF Tickets
  <2>11. TypeOK'
    BY <1>0, <2>1, <2>8, <2>9, <2>10 DEF TypeOK, Place
  <2> QED BY <1>a, <2>3, <2>4, <2>5, <2>7, <2>10, <2>11 DEF IInv, InOrder, Line, Asleep
<1> QED BY <1>1, <1>2

\* A new attempt, or one that goes ahead.
LEMMA AcquireStep ==
  ASSUME IInv, NEW t \in Task, Acquire(t)
  PROVE  IInv'
<1> DEFINE q == Ticketed(t, redispatch[t])
           B == [before EXCEPT ![t] = ToSet(queue)]
<1>1. /\ pc[t] = "idle" /\ attempts < MaxAttempts /\ attempts' = attempts + 1
      /\ Look(t, q, ToSet(queue)) /\ UNCHANGED <<Call, Route>>
  BY DEF Acquire
<1>2. /\ TypeOK /\ Line(queue, Task, Asleep) /\ Ahead(queue, Redispatched)
      /\ Orderly(queue, before, Redispatched) /\ Tickets /\ HeadWillLook /\ t \notin Asleep
  BY <1>1 DEF IInv, InOrder, Asleep
<1>3. attempts' \in 0..MaxAttempts
  BY <1>1, <1>2, DispatchAssumption DEF TypeOK
<1>a. ToSet(queue) \subseteq Asleep
  BY <1>2 DEF ToSet, Line
<1>b. /\ \A u \in Asleep : t \notin B[u]
      /\ Orderly(queue, B, Redispatched)
  <2>1. \A u \in Task : u # t => B[u] = before[u]
    BY <1>2 DEF TypeOK
  <2>2. \A i \in 1..Len(queue) : queue[i] \in Task /\ queue[i] # t
    BY <1>2 DEF Line
  <2> QED BY <1>2, <2>1, <2>2 DEF Orderly, Tickets, Asleep
<1> HIDE DEF B
<1>4. Line(q, Task, Asleep \cup {t}) /\ Ahead(q, Redispatched) /\ q # <<>>
      /\ Orderly(q, B, Redispatched)
      /\ (Head(q) = t \/ (queue # <<>> /\ Head(q) = Head(queue)))
  <2>1. CASE redispatch[t]
    <3>1. q = <<t>> \o queue /\ t \in Redispatched
      BY <2>1 DEF Ticketed, Redispatched
    <3>2. Line(queue, Task, Asleep) /\ t \notin Asleep
      BY <1>2
    <3>3. /\ Line(<<t>> \o queue, Task, Asleep \cup {t}) /\ <<t>> \o queue # <<>>
          /\ Ahead(queue, Redispatched) /\ t \in Redispatched => Ahead(<<t>> \o queue, Redispatched)
          /\ Orderly(queue, B, Redispatched) /\ t \in Redispatched => Orderly(<<t>> \o queue, B, Redispatched)
          /\ Head(<<t>> \o queue) = t
      BY <3>2, FrontLine
    <3> HIDE DEF q
    <3> QED BY <1>2, <1>b, <3>1, <3>3
  <2>2. CASE ~redispatch[t]
    <3>1. q = Append(queue, t) /\ t \notin Redispatched
      BY <2>2 DEF Ticketed, Redispatched
    <3>2. /\ Line(Append(queue, t), Task, Asleep \cup {t}) /\ Append(queue, t) # <<>>
          /\ Ahead(Append(queue, t), Redispatched) /\ Orderly(Append(queue, t), B, Redispatched)
          /\ queue # <<>> => Head(Append(queue, t)) = Head(queue)
          /\ queue = <<>> => Head(Append(queue, t)) = t
      <4> HIDE DEF q
      <4>1. Line(queue, Task, Asleep) /\ t \notin Asleep
        BY <1>2
      <4>2. Line(Append(queue, t), Task, Asleep \cup {t}) /\ Append(queue, t) # <<>>
        BY <4>1, AppendLine
      <4>3. Ahead(queue, Redispatched) /\ t \notin Redispatched => Ahead(Append(queue, t), Redispatched)
        BY <4>1, AppendLine
      <4>4. Orderly(queue, B, Redispatched) /\ (\A u \in Asleep : t \notin B[u])
              => Orderly(Append(queue, t), B, Redispatched)
        BY <4>1, AppendLine
      <4>5. /\ queue # <<>> => Head(Append(queue, t)) = Head(queue)
            /\ queue = <<>> => Head(Append(queue, t)) = t
        BY <4>1, AppendLine
      <4> QED BY <1>2, <1>b, <3>1, <4>2, <4>3, <4>4, <4>5
    <3> HIDE DEF q
    <3> QED BY <3>1, <3>2
  <2> QED BY <2>1, <2>2
<1>5. Head(q) # t /\ inFlight < limit => woken[Head(q)] \/ timer[Head(q)]
  BY <1>2, <1>4 DEF HeadWillLook
<1>6. ToSet(queue) \in SUBSET (Asleep \cup {t})
  BY <1>a
<1> HIDE DEF q
<1> QED BY <1>1, <1>3, <1>4, <1>5, <1>6, LookStep DEF B

\* A sleeper looks again.
LEMMA RecheckStep ==
  ASSUME IInv, NEW t \in Task, Recheck(t)
  PROVE  IInv'
<1>1. pc[t] = "asleep" /\ Look(t, queue, before[t]) /\ UNCHANGED <<Call, Route>> /\ attempts' = attempts
  BY DEF Recheck
<1>2. /\ TypeOK /\ Line(queue, Task, Asleep) /\ Ahead(queue, Redispatched)
      /\ Orderly(queue, before, Redispatched) /\ Tickets /\ HeadWillLook /\ t \in Asleep
  BY <1>1 DEF IInv, InOrder, Asleep
<1>3. Asleep \cup {t} = Asleep
  BY <1>2
<1>4. queue # <<>>
  <2>1. PICK i \in 1..Len(queue) : queue[i] = t
    BY <1>2 DEF Line
  <2> QED BY <2>1
<1>5. Head(queue) # t /\ inFlight < limit => woken[Head(queue)] \/ timer[Head(queue)]
  BY <1>2, <1>4 DEF HeadWillLook
<1>6. attempts' \in 0..MaxAttempts
  BY <1>1, <1>2 DEF TypeOK
<1>7. PICK q, older : q = queue /\ older = before[t]
  OBVIOUS
<1>8. [before EXCEPT ![t] = older] = before /\ older \in SUBSET (Asleep \cup {t})
  BY <1>2, <1>7 DEF TypeOK, Tickets
<1> QED BY <1>1, <1>2, <1>3, <1>4, <1>5, <1>6, <1>7, <1>8, LookStep

\* A ticket is withdrawn: whoever is next was woken.
LEMMA ExpireStep ==
  ASSUME IInv, NEW t \in Task, Expire(t)
  PROVE  IInv'
<1>0. /\ TypeOK /\ Leases /\ PermitsCounted /\ Line(queue, Task, Asleep) /\ Ahead(queue, Redispatched)
      /\ Orderly(queue, before, Redispatched) /\ Tickets /\ Flags
  BY DEF IInv, InOrder
<1>1. /\ pc[t] = "asleep" /\ queue' = RemoveFirst(queue, t)
      /\ pc' = [pc EXCEPT ![t] = "gone"] /\ woken' = [u \in Task |-> TRUE]
      /\ timer' = [timer EXCEPT ![t] = FALSE]
      /\ before' = [u \in Task |-> IF u = t THEN {} ELSE before[u] \ {t}]
      /\ UNCHANGED <<redispatch, compacted, standing, released, inFlight, attempts>>
      /\ limit' = limit /\ blocked' = blocked /\ quiet' = quiet
  BY DEF Expire, Go, WakeAll, Route, Call, NoTicket
<1>2. t \in Asleep /\ Asleep' = Asleep \ {t} /\ Redispatched' = Redispatched
  BY <1>0, <1>1 DEF Asleep, TypeOK, Redispatched
<1>3. /\ Line(RemoveFirst(queue, t), Task, Asleep \ {t}) /\ Ahead(RemoveFirst(queue, t), Redispatched)
      /\ Orderly(RemoveFirst(queue, t), before, Redispatched)
  BY <1>0, <1>2, RemoveLine
<1>4. Line(queue', Task, Asleep') /\ Ahead(queue', Redispatched')
  BY <1>1, <1>2, <1>3
<1>5. Leases'
  BY <1>0, <1>1 DEF Leases, TypeOK
<1>6. PermitsCounted'
  BY <1>0, <1>1, <1>5 DEF PermitsCounted, Leases
<1>7. HeadWillLook'
  BY <1>1, <1>4, HeadInLine DEF HeadWillLook
<1>8. queue' \in Seq(Task)
  BY <1>4 DEF Line
<1>9. before' \in [Task -> SUBSET Task] /\ (\A u \in Task : before'[u] \subseteq before[u]) /\ Tickets'
  BY <1>0, <1>1, <1>2 DEF TypeOK, Tickets
<1>10. Orderly(queue', before', Redispatched')
  BY <1>1, <1>2, <1>3, <1>8, <1>9, FewerOlder
<1>11. Flags'
  BY <1>0, <1>1 DEF Flags
<1>12. TypeOK'
  BY <1>0, <1>1, <1>8, <1>9 DEF TypeOK, Place
<1> QED BY <1>4, <1>5, <1>6, <1>7, <1>9, <1>10, <1>11, <1>12 DEF IInv, InOrder, Line, Asleep, Ahead, Orderly

\* Nobody in the queue changes place when somebody outside it learns something.
LEMMA OrderStays ==
  ASSUME IInv, NEW t \in Task, t \notin Asleep, UNCHANGED <<queue, before>>, Asleep' = Asleep,
         NEW again \in BOOLEAN, redispatch' = [redispatch EXCEPT ![t] = again],
         NEW last \in Standing, standing' = [standing EXCEPT ![t] = last], again => last # "new"
  PROVE  InOrder'
<1>1. /\ TypeOK /\ Line(queue, Task, Asleep) /\ Ahead(queue, Redispatched)
      /\ Orderly(queue, before, Redispatched) /\ Tickets /\ Flags
  BY DEF IInv, InOrder
<1>2. \A i \in 1..Len(queue) : queue[i] \in Redispatched' <=> queue[i] \in Redispatched
  BY <1>1 DEF Line, TypeOK, Redispatched
<1>3. Ahead(queue, Redispatched)'
  BY <1>1, <1>2 DEF Ahead
<1>4. Orderly(queue, before, Redispatched)'
  BY <1>1, <1>2 DEF Orderly
<1>5. Tickets'
  BY <1>1 DEF Tickets
<1>6. Flags'
  BY <1>1 DEF Flags, TypeOK
<1> QED BY <1>3, <1>4, <1>5, <1>6 DEF InOrder

\* A permit is given back.
LEMMA GiveStep ==
  ASSUME IInv, NEW t \in Task, pc[t] = "holding", Release(t),
         NEW place \in {"idle", "waiting", "answered", "gone"}, Go(t, place),
         NEW again \in BOOLEAN, redispatch' = [redispatch EXCEPT ![t] = again],
         NEW last \in Standing, standing' = [standing EXCEPT ![t] = last], again => last # "new",
         compacted' \in [Task -> BOOLEAN], UNCHANGED <<queue, timer, attempts, before>>,
         limit' \in 1..MaxPermits, blocked' \in BOOLEAN, quiet' \in BOOLEAN
  PROVE  IInv'
<1>0. TypeOK /\ Leases /\ PermitsCounted /\ Line(queue, Task, Asleep)
  BY DEF IInv
<1>1. /\ released' = [released EXCEPT ![t] = TRUE] /\ released' \in [Task -> BOOLEAN]
      /\ inFlight' \in 0..MaxPermits /\ inFlight' = Cardinality(Leased)'
      /\ woken' = [u \in Task |-> TRUE]
  BY <1>0, PermitGiven
<1>2. pc' = [pc EXCEPT ![t] = place] /\ pc' \in [Task -> Place]
  BY <1>0 DEF Go, TypeOK, Place
<1>3. Asleep' = Asleep /\ t \notin Asleep
  BY <1>0, <1>2 DEF Asleep, TypeOK
<1>4. InOrder'
  BY <1>3, OrderStays
<1>5. Line(queue', Task, Asleep')
  BY <1>0, <1>3
<1>6. Leases'
  BY <1>0, <1>1, <1>2 DEF Leases, TypeOK
<1>7. PermitsCounted'
  BY <1>1, <1>6 DEF PermitsCounted, Leases, Leased
<1>8. HeadWillLook'
  BY <1>1, <1>5, HeadInLine DEF HeadWillLook
<1>9. TypeOK'
  BY <1>0, <1>1, <1>2 DEF TypeOK
<1> QED BY <1>4, <1>5, <1>6, <1>7, <1>8, <1>9 DEF IInv, Line, Asleep

\* A slot is left.
LEMMA LeaveStep ==
  ASSUME IInv, NEW t \in Task, Leave(t)
  PROVE  IInv'
<1>0. /\ TypeOK /\ Leases /\ PermitsCounted /\ Line(queue, Task, Asleep) /\ HeadWillLook
      /\ redispatch[t] \in BOOLEAN /\ standing[t] \in Standing /\ (redispatch[t] => standing[t] # "new")
  BY DEF IInv, InOrder, Flags, TypeOK
<1>1. PICK place \in {"idle", "gone"} : Go(t, place)
  BY DEF Leave
<1>2. /\ pc[t] \in InSlot /\ Release(t) /\ UNCHANGED <<queue, timer, attempts, before, compacted>>
      /\ limit' = limit /\ blocked' = blocked /\ quiet' = quiet
      /\ redispatch' = [redispatch EXCEPT ![t] = redispatch[t]]
      /\ standing' = [standing EXCEPT ![t] = standing[t]]
  BY <1>0 DEF Leave, Route, Call, TypeOK
<1>3. CASE pc[t] = "holding"
  BY <1>0, <1>1, <1>2, <1>3, GiveStep DEF TypeOK
<1>4. CASE pc[t] # "holding"
  <2>1. released' = released /\ inFlight' = inFlight /\ woken' = woken
    BY <1>0, <1>2, <1>4, NoPermit
  <2>2. pc' = [pc EXCEPT ![t] = place] /\ pc' \in [Task -> Place]
    BY <1>0, <1>1 DEF Go, TypeOK, Place
  <2>3. Asleep' = Asleep /\ t \notin Asleep
    BY <1>0, <1>1, <1>2, <2>2 DEF Asleep, TypeOK, InSlot
  <2>4. InOrder'
    BY <1>0, <1>2, <2>3, OrderStays
  <2>5. Line(queue', Task, Asleep')
    BY <1>0, <1>2, <2>3
  <2>6. Leases'
    BY <1>0, <1>1, <1>4, <2>1, <2>2 DEF Leases, TypeOK
  <2>7. PermitsCounted'
    BY <1>0, <2>1, <2>6 DEF PermitsCounted, Leases
  <2>8. HeadWillLook'
    BY <1>0, <1>2, <2>1 DEF HeadWillLook
  <2>9. TypeOK'
    BY <1>0, <1>1, <1>2, <2>1, <2>2 DEF TypeOK
  <2> QED BY <2>4, <2>5, <2>6, <2>7, <2>8, <2>9 DEF IInv, Line, Asleep
<1> QED BY <1>3, <1>4

\* A request ends, or its task waits for budget.
LEMMA EndStep ==
  ASSUME IInv, NEW t \in Task,
         WaitForBudget(t) \/ Refuse(t) \/ Succeed(t) \/ Fail(t) \/ ContextTooLong(t)
  PROVE  IInv'
<1>0. /\ TypeOK /\ redispatch[t] \in BOOLEAN /\ standing[t] \in Standing
      /\ (redispatch[t] => standing[t] # "new")
  BY DEF IInv, InOrder, Flags, TypeOK
<1>1. PICK place \in {"waiting", "answered"} : Go(t, place)
  BY DEF WaitForBudget, Refuse, Succeed, Fail, ContextTooLong
<1>2. pc[t] = "holding" /\ Release(t) /\ UNCHANGED <<queue, timer, attempts, before>>
  BY DEF WaitForBudget, Refuse, Succeed, Fail, ContextTooLong
<1>3. /\ compacted' \in [Task -> BOOLEAN]
      /\ \E again \in BOOLEAN, last \in Standing :
           /\ redispatch' = [redispatch EXCEPT ![t] = again]
           /\ standing' = [standing EXCEPT ![t] = last]
           /\ again => last # "new"
  <2>1. CASE WaitForBudget(t)
    <3>1. /\ redispatch' = [redispatch EXCEPT ![t] = redispatch[t]]
          /\ standing' = [standing EXCEPT ![t] = standing[t]] /\ compacted' = compacted
      BY <1>0, <2>1 DEF WaitForBudget, TypeOK, Call
    <3> QED BY <1>0, <3>1 DEF TypeOK
  <2>2. CASE Refuse(t)
    <3>1. "refused" \in Standing /\ "refused" # "new"
      BY DEF Standing
    <3> QED BY <1>0, <2>2, <3>1 DEF Refuse, TypeOK
  <2>3. CASE Succeed(t) \/ Fail(t)
    <3>1. "new" \in Standing /\ compacted' = compacted /\ Anew(t)
      BY <2>3 DEF Standing, Succeed, Fail
    <3> QED BY <1>0, <3>1 DEF Anew, TypeOK
  <2>4. CASE ContextTooLong(t)
    <3> DEFINE last == IF standing[t] = "new" THEN "new" ELSE "compacted"
    <3>1. /\ redispatch' = [redispatch EXCEPT ![t] = redispatch[t]]
          /\ standing' = [standing EXCEPT ![t] = last]
          /\ compacted' = [compacted EXCEPT ![t] = TRUE]
      BY <1>0, <2>4 DEF ContextTooLong, TypeOK
    <3>2. last \in Standing /\ (redispatch[t] => last # "new")
      BY <1>0 DEF Standing
    <3> HIDE DEF last
    <3> QED BY <1>0, <3>1, <3>2 DEF TypeOK
  <2> QED BY <2>1, <2>2, <2>3, <2>4
<1>4. limit' \in 1..MaxPermits /\ blocked' \in BOOLEAN /\ quiet' \in BOOLEAN
  <2>1. CASE WaitForBudget(t) \/ Fail(t) \/ ContextTooLong(t)
    BY <1>0, <2>1 DEF WaitForBudget, Fail, ContextTooLong, Route, TypeOK
  <2>2. CASE Refuse(t)
    <3>1. limit' = (IF limit > 1 THEN limit - 1 ELSE 1) /\ blocked' = TRUE /\ quiet' = FALSE
      BY <2>2 DEF Refuse, Reduced
    <3>2. limit' \in 1..MaxPermits
      BY <1>0, <3>1, DispatchAssumption DEF TypeOK
    <3> QED BY <3>1, <3>2
  <2>3. CASE Succeed(t)
    <3>1. /\ (limit < MaxPermits /\ limit' = limit + 1) \/ limit' = limit
          /\ blocked' = blocked /\ quiet' \in {FALSE, quiet}
      BY <2>3 DEF Succeed
    <3>2. limit' \in 1..MaxPermits
      BY <1>0, <3>1, DispatchAssumption DEF TypeOK
    <3> QED BY <1>0, <3>1, <3>2 DEF TypeOK
  <2> QED BY <2>1, <2>2, <2>3
<1> QED BY <1>1, <1>2, <1>3, <1>4, GiveStep

\* Time passes.
LEMMA TimeStep ==
  ASSUME IInv, CooldownEnds \/ QuietEnough \/ UNCHANGED vars
  PROVE  IInv'
<1>1. /\ UNCHANGED <<pc, redispatch, compacted, standing, queue, woken, timer, released, inFlight, limit,
                     attempts, before>>
      /\ blocked' \in BOOLEAN /\ quiet' \in BOOLEAN
  BY DEF CooldownEnds, QuietEnough, Still, Call, vars, IInv, TypeOK
<1>2. TypeOK'
  BY <1>1 DEF IInv, TypeOK
<1>3. Leases' /\ PermitsCounted' /\ HeadWillLook'
  BY <1>1 DEF IInv, Leases, PermitsCounted, HeadWillLook
<1>4. Line(queue, Task, Asleep)' /\ InOrder'
  BY <1>1 DEF IInv, Line, Asleep, InOrder, Ahead, Orderly, Redispatched, Tickets, Flags
<1> QED BY <1>2, <1>3, <1>4 DEF IInv

\* The invariant at the beginning.
LEMMA InvInit == Init => IInv
<1> SUFFICES ASSUME Init PROVE IInv
  OBVIOUS
<1>1. /\ pc = [t \in Task |-> "idle"] /\ redispatch = [t \in Task |-> FALSE] /\ compacted = [t \in Task |-> FALSE]
      /\ queue = <<>> /\ standing = [t \in Task |-> "new"] /\ before = [t \in Task |-> {}]
      /\ woken = [t \in Task |-> FALSE] /\ timer = [t \in Task |-> FALSE]
      /\ released = [t \in Task |-> TRUE] /\ inFlight = 0 /\ limit = Initial
      /\ blocked = FALSE /\ quiet = FALSE /\ attempts = 0
  BY DEF Init
<1>2. TypeOK
  <2>1. 0 \in 0..MaxPermits /\ Initial \in 1..MaxPermits /\ 0 \in 0..MaxAttempts
    BY DispatchAssumption
  <2>2. queue \in Seq(Task)
    BY <1>1
  <2>3. /\ pc \in [Task -> Place] /\ redispatch \in [Task -> BOOLEAN] /\ compacted \in [Task -> BOOLEAN]
        /\ woken \in [Task -> BOOLEAN]
        /\ timer \in [Task -> BOOLEAN] /\ released \in [Task -> BOOLEAN]
        /\ standing \in [Task -> Standing] /\ before \in [Task -> SUBSET Task]
    BY <1>1, <2>1 DEF Place, Standing
  <2> QED BY <1>1, <2>1, <2>2, <2>3 DEF TypeOK
<1>3. Asleep = {} /\ Leased = {}
  BY <1>1 DEF Asleep, Leased
<1>4. Line(queue, Task, Asleep) /\ InOrder
  BY <1>1, <1>3 DEF Line, InOrder, Ahead, Orderly, Redispatched, Tickets, Flags
<1>5. Leases /\ HeadWillLook
  BY <1>1 DEF Leases, HeadWillLook
<1>6. Cardinality(Leased) = 0
  BY <1>3, FS_EmptySet
<1>7. PermitsCounted
  BY <1>1, <1>5, <1>6, CountedLeases
<1> QED BY <1>2, <1>4, <1>5, <1>7 DEF IInv

\* Every step keeps it.
LEMMA InvStep == IInv /\ [Next]_vars => IInv'
<1> SUFFICES ASSUME IInv, [Next]_vars PROVE IInv'
  OBVIOUS
<1> QED BY AcquireStep, RecheckStep, ExpireStep, LeaveStep, EndStep, TimeStep DEF Next, Step

-----------------------------------------------------------------------------
(* The theorems.                                                               *)

\* The invariant: types, tickets, leases, permits and wake-ups (dispatch.py).
THEOREM DispatchInvariant == Spec => []IInv
<1> QED BY InvInit, InvStep, PTL DEF Spec

\* No permit leaks and none is given back twice (DispatchLease.release).
THEOREM DispatchPermits == Spec => []PermitsCounted
<1>1. IInv => PermitsCounted
  BY DEF IInv
<1> QED BY <1>1, DispatchInvariant, PTL

\* The head of the queue was woken or has a timer while permits are left
\* (RouteDispatcher.acquire).
THEOREM DispatchHead == Spec => []HeadWillLook
<1>1. IInv => HeadWillLook
  BY DEF IInv
<1> QED BY <1>1, DispatchInvariant, PTL

\* Who is served ahead of an older ticket, or of a redispatched one, goes ahead by
\* right: a permit goes to the head of the queue, and the queue is in order.
LEMMA HeadIsFirst ==
  ASSUME IInv, queue # <<>>, NEW t \in Task, t = Head(queue),
         NEW u \in Task, u # t, Queued(u), u \in before[t] \/ redispatch[u]
  PROVE  redispatch[t]
<1>1. /\ queue \in Seq(Task) /\ Len(queue) \in Nat /\ 1 \in 1..Len(queue) /\ Head(queue) = queue[1]
      /\ Ahead(queue, Redispatched) /\ Orderly(queue, before, Redispatched)
  BY DEF IInv, InOrder, Line
<1>2. PICK j \in 1..Len(queue) : queue[j] = u
  BY DEF Queued, Contains
<1>3. 1 < j
  BY <1>1, <1>2
<1> QED BY <1>1, <1>2, <1>3 DEF Ahead, Orderly, Redispatched

\* Nobody is served ahead of an older ticket, or of a redispatched refusal, but who
\* was refused and has at most compacted its context since (RouteDispatcher.acquire,
\* "FIFO requests, with refused attempts readmitted ahead of new requests").
THEOREM DispatchFifo == Spec => FifoExceptRefused
<1> DEFINE A == \A t, u \in Task :
       (/\ pc[t] # "holding" /\ pc'[t] = "holding" /\ u # t /\ Queued(u)
        /\ u \in Older(t) \/ (redispatch[u] /\ standing[u] = "refused"))
         => standing[t] # "new"
<1>1. IInv /\ [Next]_vars => [A]_vars
  <2> SUFFICES ASSUME IInv, Next, NEW t \in Task, NEW u \in Task,
                      pc[t] # "holding", pc'[t] = "holding", u # t, Queued(u),
                      u \in Older(t) \/ (redispatch[u] /\ standing[u] = "refused")
               PROVE  redispatch[t]
    BY DEF A, IInv, InOrder, Flags
  <2>1. TypeOK /\ Line(queue, Task, Asleep)
    BY DEF IInv
  <2>2. \/ Look(t, queue, before[t]) /\ pc[t] = "asleep"
        \/ Look(t, Ticketed(t, redispatch[t]), ToSet(queue)) /\ pc[t] = "idle"
    <3>1. PICK s \in Task : Step(s) \/ Expire(s)
      BY DEF Next, CooldownEnds, QuietEnough, Still
    <3>2. \E place \in Place : Go(s, place)
      BY <3>1 DEF Step, Acquire, Recheck, Look, WaitForBudget, Refuse, Succeed, Fail, ContextTooLong, Leave,
         Expire, Place
    <3>3. s = t
      BY <2>1, <3>2 DEF Go, TypeOK
    <3>4. CASE Acquire(t) \/ Recheck(t)
      BY <3>4 DEF Acquire, Recheck
    <3>5. CASE ~(Acquire(t) \/ Recheck(t))
      <4>1. \E place \in {"waiting", "answered", "idle", "gone"} : Go(t, place)
        BY <3>1, <3>3, <3>5 DEF Step, WaitForBudget, Refuse, Succeed, Fail, ContextTooLong, Leave, Expire
      <4> QED BY <2>1, <4>1 DEF Go, TypeOK
    <3> QED BY <3>4, <3>5
  <2>3. queue # <<>>
    BY DEF Queued, Contains
  <2>4. CASE Look(t, queue, before[t]) /\ pc[t] = "asleep"
    <3>1. Head(queue) = t
      BY <2>1, <2>4 DEF Look, Go, TypeOK
    <3> QED BY <2>3, <2>4, <3>1, HeadIsFirst DEF Older
  <2>5. CASE Look(t, Ticketed(t, redispatch[t]), ToSet(queue)) /\ pc[t] = "idle" /\ ~redispatch[t]
    <3>1. Head(Append(queue, t)) = t
      BY <2>1, <2>5 DEF Look, Go, TypeOK, Ticketed
    <3>2. t \notin Asleep
      BY <2>5 DEF Asleep
    <3>3. Head(queue) = t
      BY <2>1, <2>3, <3>1, <3>2, AppendLine
    <3> QED BY <2>1, <2>3, <3>2, <3>3, HeadInLine
  <2> QED BY <2>2, <2>4, <2>5
<1> QED BY <1>1, DispatchInvariant, PTL DEF Spec, FifoExceptRefused
=============================================================================
