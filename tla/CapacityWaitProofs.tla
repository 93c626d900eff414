------------------------- MODULE CapacityWaitProofs -------------------------
(***************************************************************************)
(* What CapacityWait promises for any number of tasks, any total and any   *)
(* holds: nobody waits for nothing, no wake-up is lost, no second is spent *)
(* twice, and the run does not stand still while somebody waits.           *)
(*                                                                         *)
(* Whoever waits joined while a request was away.  Its end is a new        *)
(* revision, which the head of the line is told; whoever leaves the line   *)
(* tells the next one.  On this rest the other two: the seconds that are   *)
(* free, charged and held are counted, and the loop's queue holds exactly  *)
(* those whose code is due.                                                *)
(***************************************************************************)
EXTENDS CapacityWait, FiniteSetTheorems, TLAPS

\* A line of members of S, in which M is everybody who stands there.
Line(q, S, M) ==
  /\ q \in Seq(S)
  /\ \A i, j \in 1..Len(q) : q[i] = q[j] => i = j
  /\ \A t \in S : t \in M <=> \E i \in 1..Len(q) : q[i] = t

Waiting == {t \in Task : pc[t] = "waiting"}

\* What the argument needs to know of the variables' values.
Kinds ==
  /\ pc \in [Task -> Place] /\ ready \in Seq(Task)
  /\ revision \in Nat /\ seen \in [Task -> Nat] /\ signal \in [Task -> Signal]

\* Who joined at the present revision found a request away, and it still is.
JoinedForSomething ==
  \A t \in Task : pc[t] = "waiting" => seen[t] <= revision /\ (seen[t] = revision => Active # {})

\* The head of the line knows what changed since it joined.
HeadTold == waiters # <<>> => (seen[Head(waiters)] # revision => signal[Head(waiters)] # "pending")

\* Who was told will run, and nobody else has a future that is set.
ToldWillRun ==
  \A t \in Task : signal[t] # "pending" => pc[t] = "waiting" /\ Contains(ready, t)

IInv == Kinds /\ Line(waiters, Task, Waiting) /\ JoinedForSomething /\ HeadTold /\ ToldWillRun

-----------------------------------------------------------------------------
(* The waiting line.                                                           *)

\* A task more at the end.
LEMMA AppendLine ==
  ASSUME NEW S, NEW q, NEW M, Line(q, S, M), NEW t \in S, t \notin M
  PROVE  /\ Line(Append(q, t), S, M \cup {t}) /\ Append(q, t) # <<>>
         /\ q # <<>> => Head(Append(q, t)) = Head(q)
         /\ q = <<>> => Head(Append(q, t)) = t
<1> DEFINE r == Append(q, t)
<1>1. q \in Seq(S) /\ Len(q) \in Nat
  BY DEF Line
<1>2. r \in Seq(S) /\ Len(r) = Len(q) + 1 /\ r[Len(q) + 1] = t /\ \A i \in 1..Len(q) : r[i] = q[i]
  BY <1>1
<1>3. \A i \in 1..Len(q) : q[i] # t
  BY DEF Line
<1>4. \A i, j \in 1..Len(r) : r[i] = r[j] => i = j
  BY <1>1, <1>2, <1>3 DEF Line
<1>5. ASSUME NEW u \in S PROVE u \in M \cup {t} <=> \E i \in 1..Len(r) : r[i] = u
  BY <1>1, <1>2 DEF Line
<1>6. (q # <<>> => Head(r) = Head(q)) /\ (q = <<>> => Head(r) = t) /\ r # <<>>
  BY <1>1, <1>2
<1> QED BY <1>2, <1>4, <1>5, <1>6 DEF Line

\* A task less.
LEMMA LessLine ==
  ASSUME NEW S, NEW q, NEW M, Line(q, S, M), NEW r, NEW p \in 1..Len(q),
         r \in Seq(S), Len(r) = Len(q) - 1,
         \A i \in 1..Len(r) : r[i] = IF i < p THEN q[i] ELSE q[i + 1]
  PROVE  Line(r, S, M \ {q[p]})
<1>1. q \in Seq(S) /\ Len(q) \in Nat /\ q[p] \in S
  BY DEF Line
<1> DEFINE at(i) == IF i < p THEN i ELSE i + 1
<1>2. ASSUME NEW i \in 1..Len(r) PROVE r[i] = q[at(i)] /\ at(i) \in 1..Len(q) /\ at(i) # p
  BY <1>1
<1>3. \A i, j \in 1..Len(r) : (i < j <=> at(i) < at(j)) /\ (at(i) = at(j) => i = j)
  BY <1>1
<1>4. ASSUME NEW k \in 1..Len(q), k # p PROVE \E i \in 1..Len(r) : at(i) = k
  <2>1. CASE k < p
    BY <1>1, <2>1
  <2>2. CASE k > p
    <3>1. k - 1 \in 1..Len(r) /\ at(k - 1) = k
      BY <1>1, <2>2
    <3> QED BY <3>1
  <2> QED BY <1>1, <1>4, <2>1, <2>2
<1> HIDE DEF at
<1>5. \A i, j \in 1..Len(r) : r[i] = r[j] => i = j
  BY <1>2, <1>3 DEF Line
<1>6. ASSUME NEW u \in S PROVE u \in M \ {q[p]} <=> \E i \in 1..Len(r) : r[i] = u
  <2>1. ASSUME u \in M, u # q[p] PROVE \E i \in 1..Len(r) : r[i] = u
    <3>1. PICK k \in 1..Len(q) : q[k] = u
      BY <2>1 DEF Line
    <3>2. PICK i \in 1..Len(r) : at(i) = k
      BY <1>4, <2>1, <3>1
    <3> QED BY <1>2, <3>1, <3>2
  <2>2. ASSUME NEW i \in 1..Len(r), r[i] = u PROVE u \in M /\ u # q[p]
    BY <1>2, <2>2 DEF Line
  <2> QED BY <2>1, <2>2
<1> QED BY <1>5, <1>6 DEF Line

\* A task gives up its place.
LEMMA RemoveLine ==
  ASSUME NEW S, NEW q, NEW M, Line(q, S, M), NEW t \in S, t \in M
  PROVE  Line(RemoveFirst(q, t), S, M \ {t})
<1>1. q \in Seq(S) /\ Len(q) \in Nat
  BY DEF Line
<1>2. PICK p \in 1..Len(q) : q[p] = t
  BY DEF Line
<1> DEFINE r == RemoveFirst(q, t)
           I == {i \in 1..Len(q) : q[i] = t}
<1>3. I = {p}
  BY <1>2 DEF Line
<1>4. Min(I) = p
  BY <1>3 DEF Min
<1>5. r = SubSeq(q, 1, p - 1) \o SubSeq(q, p + 1, Len(q))
  BY <1>2, <1>3, <1>4 DEF RemoveFirst, RemoveAt, SelectInSeq
<1> HIDE DEF r
<1> DEFINE a == SubSeq(q, 1, p - 1)
           b == SubSeq(q, p + 1, Len(q))
<1>6. a \in Seq(S) /\ Len(a) = p - 1 /\ \A i \in 1..(p - 1) : a[i] = q[i]
  BY <1>1
<1>7. b \in Seq(S) /\ Len(b) = Len(q) - p /\ \A i \in 1..(Len(q) - p) : b[i] = q[i + p]
  BY <1>1
<1>0. r = a \o b
  BY <1>5
<1> HIDE DEF a, b
<1>8. r \in Seq(S) /\ Len(r) = Len(q) - 1
  <2>1. a \in Seq(S) /\ b \in Seq(S)
    BY <1>6, <1>7
  <2>2. a \o b \in Seq(S) /\ Len(a \o b) = Len(a) + Len(b)
    BY <2>1
  <2>3. Len(a) + Len(b) = Len(q) - 1
    BY <1>1, <1>6, <1>7
  <2> QED BY <1>0, <2>2, <2>3
<1>9. \A i \in 1..Len(r) : r[i] = IF i < p THEN q[i] ELSE q[i + 1]
  <2> SUFFICES ASSUME NEW i \in 1..Len(r) PROVE r[i] = IF i < p THEN q[i] ELSE q[i + 1]
    OBVIOUS
  <2>1. CASE i < p
    BY <1>0, <1>1, <1>6, <1>7, <1>8, <2>1
  <2>2. CASE i >= p
    <3>1. i - (p - 1) \in 1..(Len(q) - p) /\ i = Len(a) + (i - (p - 1)) /\ (i - (p - 1)) + p = i + 1
      BY <1>1, <1>6, <1>8, <2>2
    <3>2. r[i] = b[i - (p - 1)]
      BY <1>0, <1>1, <1>6, <1>7, <2>2, <3>1
    <3> QED BY <1>7, <2>2, <3>1, <3>2
  <2> QED BY <2>1, <2>2
<1> QED BY <1>2, <1>8, <1>9, LessLine DEF r

\* Who stands first stands in line.
LEMMA HeadInLine ==
  ASSUME NEW S, NEW q, NEW M, Line(q, S, M), q # <<>>
  PROVE  Head(q) \in S /\ Head(q) \in M
<1>1. q \in Seq(S) /\ 1 \in 1..Len(q) /\ Head(q) = q[1]
  BY DEF Line
<1> QED BY <1>1 DEF Line

-----------------------------------------------------------------------------
(* The event loop's queue.                                                     *)

\* Only the head is gone from the tail.
LEMMA StillReady ==
  ASSUME NEW s \in Seq(Task), s # <<>>, NEW u \in Task, u # Head(s), Contains(s, u)
  PROVE  Contains(Tail(s), u)
<1>1. Len(s) \in Nat /\ Len(Tail(s)) = Len(s) - 1 /\ Head(s) = s[1]
      /\ \A i \in 1..Len(Tail(s)) : Tail(s)[i] = s[i + 1]
  OBVIOUS
<1>2. PICK i \in 1..Len(s) : s[i] = u
  BY DEF Contains
<1>3. i - 1 \in 1..Len(Tail(s)) /\ Tail(s)[i - 1] = s[i]
  BY <1>1, <1>2
<1> QED BY <1>2, <1>3 DEF Contains

\* Who is in one of two queues is in both of them put together.
LEMMA ReadyInBoth ==
  ASSUME NEW a \in Seq(Task), NEW b \in Seq(Task), NEW u \in Task, Contains(a, u) \/ Contains(b, u)
  PROVE  Contains(a \o b, u)
<1>1. /\ Len(a) \in Nat /\ Len(b) \in Nat /\ Len(a \o b) = Len(a) + Len(b)
      /\ \A i \in 1..Len(a) : (a \o b)[i] = a[i]
      /\ \A i \in 1..Len(b) : (a \o b)[Len(a) + i] = b[i]
  OBVIOUS
<1>2. CASE Contains(a, u)
  <2>1. PICK i \in 1..Len(a) : a[i] = u
    BY <1>2 DEF Contains
  <2>2. i \in 1..Len(a \o b)
    BY <1>1
  <2> QED BY <1>1, <2>1, <2>2 DEF Contains
<1>3. CASE Contains(b, u)
  <2>1. PICK i \in 1..Len(b) : b[i] = u
    BY <1>3 DEF Contains
  <2>2. Len(a) + i \in 1..Len(a \o b)
    BY <1>1
  <2> QED BY <1>1, <2>1, <2>2 DEF Contains
<1> QED BY <1>2, <1>3

\* Who is called later does not disturb who is ready.
LEMMA ReadyAppend ==
  ASSUME NEW s \in Seq(Task), NEW t \in Task
  PROVE  /\ Append(s, t) \in Seq(Task) /\ Contains(Append(s, t), t)
         /\ \A u \in Task : Contains(s, u) => Contains(Append(s, t), u)
<1>1. /\ Append(s, t) \in Seq(Task) /\ Len(s) \in Nat /\ Len(Append(s, t)) = Len(s) + 1
      /\ Append(s, t)[Len(s) + 1] = t /\ \A i \in 1..Len(s) : Append(s, t)[i] = s[i]
  OBVIOUS
<1>2. Len(s) + 1 \in 1..Len(Append(s, t)) /\ \A i \in 1..Len(s) : i \in 1..Len(Append(s, t))
  BY <1>1
<1> QED BY <1>1, <1>2 DEF Contains

-----------------------------------------------------------------------------
(* Waking.                                                                     *)

\* Waking the next in line tells the head what it has to know, and nobody else.
LEMMA NextTold ==
  ASSUME Kinds, NEW line, NEW M, Line(line, Task, M), NEW rev,
         NEW wake, wake = NextInLine(line, rev)
  PROVE  /\ wake \in Seq(Task) /\ Woken(wake) \in [Task -> Signal]
         /\ line = <<>> => wake = <<>>
         /\ \A u \in Task : signal[u] # "pending" => Woken(wake)[u] # "pending"
         /\ \A u \in Task : Woken(wake)[u] # "pending" /\ signal[u] = "pending"
                              => u \in M /\ Contains(wake, u)
         /\ line # <<>> /\ rev # seen[Head(line)] => Woken(wake)[Head(line)] # "pending"
<1> DEFINE told == line # <<>> /\ rev # seen[Head(line)] /\ signal[Head(line)] = "pending"
<1>1. line # <<>> => Head(line) \in Task /\ Head(line) \in M
  BY HeadInLine
<1>2. CASE told
  <2>1. wake = <<Head(line)>> /\ Head(line) \in Task /\ Head(line) \in M
    BY <1>1, <1>2 DEF NextInLine
  <2>2. wake \in Seq(Task) /\ \A u \in Task : Contains(wake, u) <=> u = Head(line)
    BY <2>1 DEF Contains
  <2>3. \A u \in Task : Woken(wake)[u] = IF u = Head(line) THEN "woken" ELSE signal[u]
    BY <2>2 DEF Woken
  <2>4. Woken(wake) \in [Task -> Signal]
    BY DEF Woken, Kinds, Signal
  <2> QED BY <1>2, <2>1, <2>2, <2>3, <2>4
<1>3. CASE ~told
  <2>1. wake = <<>>
    BY <1>3 DEF NextInLine
  <2>2. wake \in Seq(Task) /\ \A u \in Task : ~Contains(wake, u)
    BY <2>1 DEF Contains
  <2>3. \A u \in Task : Woken(wake)[u] = signal[u]
    BY <2>2 DEF Woken
  <2>4. Woken(wake) \in [Task -> Signal]
    BY DEF Woken, Kinds, Signal
  <2> QED BY <1>1, <1>3, <2>1, <2>2, <2>3, <2>4
<1> QED BY <1>2, <1>3

-----------------------------------------------------------------------------
(* The steps.                                                                  *)

\* Nobody joins or leaves the line and nothing is given back.
LEMMA LineKept ==
  ASSUME IInv, NEW t \in Task, NEW place \in Place, pc[t] # "waiting", place # "waiting",
         pc' = [pc EXCEPT ![t] = place],
         pc[t] \in {"sending", "settle"} => place \in {"sending", "settle"},
         ready' \in Seq(Task), \A u \in Task \ {t} : Contains(ready, u) => Contains(ready', u),
         UNCHANGED <<revision, waiters, seen, signal>>
  PROVE  IInv'
<1> USE DEF IInv
<1>1. Kinds'
  BY DEF Kinds
<1>2. \A u \in Task : (pc'[u] = "waiting" <=> pc[u] = "waiting")
                      /\ (pc[u] \in {"sending", "settle"} => pc'[u] \in {"sending", "settle"})
  BY DEF Kinds
<1>3. Line(waiters, Task, Waiting)'
  BY <1>2 DEF Line, Waiting
<1>4. JoinedForSomething'
  BY <1>2 DEF JoinedForSomething, Active
<1>5. HeadTold'
  BY DEF HeadTold
<1>6. ToldWillRun'
  BY <1>2 DEF ToldWillRun
<1> QED BY <1>1, <1>3, <1>4, <1>5, <1>6

LEMMA ArriveStep ==
  ASSUME IInv, NEW t \in Task, Arrive(t)
  PROVE  IInv'
<1>1. ready \in Seq(Task)
  BY DEF IInv, Kinds
<1>2. ready' \in Seq(Task) /\ \A u \in Task : Contains(ready, u) => Contains(ready', u)
  BY <1>1, ReadyAppend DEF Arrive
<1> QED BY <1>2, LineKept DEF Arrive, Go, Place

LEMMA AnswerStep ==
  ASSUME IInv, NEW t \in Task, Answer(t)
  PROVE  IInv'
<1>1. ready \in Seq(Task)
  BY DEF IInv, Kinds
<1>2. ready' \in Seq(Task) /\ \A u \in Task : Contains(ready, u) => Contains(ready', u)
  BY <1>1, ReadyAppend DEF Answer
<1> QED BY <1>2, LineKept DEF Answer, Go, Place

\* The head of the loop's queue ran: everybody else in it still will.
LEMMA OthersReady ==
  ASSUME Kinds, NEW t \in Task, NEW place, Running(t, place)
  PROVE  /\ Tail(ready) \in Seq(Task)
         /\ \A u \in Task \ {t} : Contains(ready, u) => Contains(Tail(ready), u)
BY StillReady DEF Kinds, Running

LEMMA SendStep ==
  ASSUME IInv, NEW t \in Task, Send(t)
  PROVE  IInv'
<1>1. ready' = Tail(ready) /\ Running(t, "admit")
  BY DEF Send
<1>2. ready' \in Seq(Task) /\ \A u \in Task \ {t} : Contains(ready, u) => Contains(ready', u)
  BY <1>1, OthersReady DEF IInv
<1> QED BY <1>2, LineKept DEF Send, Running, Go, Place

LEMMA StopStep ==
  ASSUME IInv, NEW t \in Task, Stop(t)
  PROVE  IInv'
<1>1. ready' = Tail(ready) /\ Running(t, "admit")
  BY DEF Stop
<1>2. ready' \in Seq(Task) /\ \A u \in Task \ {t} : Contains(ready, u) => Contains(ready', u)
  BY <1>1, OthersReady DEF IInv
<1> QED BY <1>2, LineKept DEF Stop, Running, Go, Place

\* t joins the line: somebody whose request is away will give time back.
LEMMA JoinStep ==
  ASSUME IInv, NEW t \in Task, Join(t)
  PROVE  IInv'
<1> USE DEF IInv
<1> DEFINE wake == NextInLine(waiters, revision)
<1>1. /\ Running(t, "admit") /\ CanWait(t) /\ pc[t] = "admit" /\ pc' = [pc EXCEPT ![t] = "waiting"]
      /\ signal' = Woken(wake) /\ ready' = Tail(ready) \o wake
      /\ waiters' = Append(waiters, t) /\ seen' = [seen EXCEPT ![t] = revision]
      /\ revision' = revision
  BY DEF Join, Running, Go
<1>2. t \notin Waiting
  BY <1>1 DEF Waiting
<1>3. /\ wake \in Seq(Task) /\ Woken(wake) \in [Task -> Signal]
      /\ \A u \in Task : signal[u] # "pending" => Woken(wake)[u] # "pending"
      /\ \A u \in Task : Woken(wake)[u] # "pending" /\ signal[u] = "pending" => u \in Waiting /\ Contains(wake, u)
  BY NextTold
<1>4. /\ Tail(ready) \in Seq(Task)
      /\ \A u \in Task \ {t} : Contains(ready, u) => Contains(Tail(ready), u)
  BY <1>1, OthersReady
<1> HIDE DEF wake
<1>5. Kinds'
  <2>1. ready' \in Seq(Task)
    BY <1>1, <1>3, <1>4
  <2> QED BY <1>1, <1>3, <2>1 DEF Kinds, Place
<1>6. Waiting' = Waiting \cup {t} /\ Active' = Active /\ Active # {}
  BY <1>1 DEF Waiting, Active, Kinds, CanWait
<1>7. Line(waiters, Task, Waiting)'
  <2>1. Line(Append(waiters, t), Task, Waiting \cup {t})
    BY <1>2, AppendLine
  <2> QED BY <1>1, <1>6, <2>1 DEF Line
<1>8. JoinedForSomething'
  BY <1>1, <1>6 DEF JoinedForSomething, Kinds
<1>9. HeadTold'
  <2>1. CASE waiters = <<>>
    <3>1. Head(waiters') = t
      BY <1>1, <2>1
    <3> QED BY <1>1, <3>1 DEF HeadTold, Kinds
  <2>2. CASE waiters # <<>>
    <3>1. Head(waiters) \in Task /\ Head(waiters) # t
      BY <1>2, <2>2, HeadInLine
    <3>2. Head(waiters') = Head(waiters)
      BY <1>1, <2>2 DEF Line
    <3>3. seen'[Head(waiters)] = seen[Head(waiters)]
      BY <1>1, <3>1 DEF Kinds
    <3> QED BY <1>1, <1>3, <2>2, <3>1, <3>2, <3>3 DEF HeadTold
  <2> QED BY <2>1, <2>2
<1>10. ToldWillRun'
  <2> SUFFICES ASSUME NEW u \in Task, signal'[u] # "pending"
               PROVE  pc'[u] = "waiting" /\ Contains(ready', u)
    BY DEF ToldWillRun
  <2>1. CASE signal[u] # "pending"
    <3>1. pc[u] = "waiting" /\ Contains(ready, u) /\ u # t
      BY <1>1, <2>1 DEF ToldWillRun
    <3>2. Contains(ready', u)
      BY <1>1, <1>3, <1>4, <3>1, ReadyInBoth
    <3> QED BY <1>1, <3>1, <3>2 DEF Kinds
  <2>2. CASE signal[u] = "pending"
    <3>1. u \in Waiting /\ Contains(wake, u)
      BY <1>1, <1>3, <2>2
    <3>2. Contains(ready', u)
      BY <1>1, <1>3, <1>4, <3>1, ReadyInBoth
    <3> QED BY <1>1, <3>1, <3>2 DEF Kinds, Waiting
  <2> QED BY <2>1, <2>2
<1> QED BY <1>5, <1>7, <1>8, <1>9, <1>10

\* A request ends: a new revision, which the head of the line is told.
LEMMA SettleStep ==
  ASSUME IInv, NEW t \in Task, Settle(t)
  PROVE  IInv'
<1> USE DEF IInv
<1>1. PICK place \in {"admit", "away", "done"} :
        /\ pc' = [pc EXCEPT ![t] = place]
        /\ signal' = Woken(NextInLine(waiters, revision + 1))
        /\ ready' = YieldOnce(IF place = "admit" THEN <<t>> ELSE <<>>, NextInLine(waiters, revision + 1))
  BY DEF Settle, Go
<1> DEFINE wake == NextInLine(waiters, revision + 1)
           self == IF place = "admit" THEN <<t>> ELSE <<>>
<1>2. /\ Running(t, "settle") /\ pc[t] = "settle" /\ revision' = revision + 1
      /\ UNCHANGED <<waiters, seen>> /\ signal' = Woken(wake) /\ ready' = YieldOnce(self, wake)
  BY <1>1 DEF Settle, Running
<1>3. /\ wake \in Seq(Task) /\ Woken(wake) \in [Task -> Signal]
      /\ waiters = <<>> => wake = <<>>
      /\ \A u \in Task : signal[u] # "pending" => Woken(wake)[u] # "pending"
      /\ \A u \in Task : Woken(wake)[u] # "pending" /\ signal[u] = "pending" => u \in Waiting /\ Contains(wake, u)
      /\ waiters # <<>> /\ revision + 1 # seen[Head(waiters)] => Woken(wake)[Head(waiters)] # "pending"
  BY NextTold
<1>4. /\ Tail(ready) \in Seq(Task)
      /\ \A u \in Task \ {t} : Contains(ready, u) => Contains(Tail(ready), u)
  BY <1>2, OthersReady
<1>5. self \in Seq(Task)
  OBVIOUS
<1> HIDE DEF wake, self
<1>6. /\ ready' \in Seq(Task)
      /\ \A u \in Task \ {t} : Contains(ready, u) \/ Contains(wake, u) => Contains(ready', u)
  <2>1. CASE waiters = <<>>
    <3>1. ready' = self \o Tail(ready) /\ wake = <<>>
      BY <1>2, <1>3, <2>1 DEF YieldOnce
    <3>2. \A u \in Task : ~Contains(wake, u)
      BY <3>1 DEF Contains
    <3>3. \A u \in Task : Contains(Tail(ready), u) => Contains(ready', u)
      BY <1>4, <1>5, <3>1, ReadyInBoth
    <3>4. ready' \in Seq(Task)
      BY <1>4, <1>5, <3>1
    <3> QED BY <1>4, <3>2, <3>3, <3>4
  <2>2. CASE waiters # <<>>
    <3>1. ready' = (Tail(ready) \o wake) \o self
      BY <1>2, <1>3, <1>4, <1>5, <2>2 DEF YieldOnce
    <3>2. Tail(ready) \o wake \in Seq(Task)
      BY <1>3, <1>4
    <3>3. \A u \in Task \ {t} : Contains(ready, u) \/ Contains(wake, u) => Contains(Tail(ready) \o wake, u)
      BY <1>3, <1>4, ReadyInBoth
    <3>4. \A u \in Task : Contains(Tail(ready) \o wake, u) => Contains(ready', u)
      BY <1>5, <3>1, <3>2, ReadyInBoth
    <3>5. ready' \in Seq(Task)
      BY <1>5, <3>1, <3>2
    <3> QED BY <3>3, <3>4, <3>5
  <2> QED BY <2>1, <2>2
<1>7. Kinds'
  BY <1>1, <1>2, <1>3, <1>6 DEF Kinds, Place
<1>8. \A u \in Task : pc'[u] = "waiting" <=> pc[u] = "waiting"
  BY <1>1, <1>2 DEF Kinds
<1>9. Line(waiters, Task, Waiting)'
  BY <1>2, <1>8 DEF Line, Waiting
<1>10. JoinedForSomething'
  BY <1>2, <1>8 DEF JoinedForSomething, Kinds
<1>11. HeadTold'
  BY <1>2, <1>3 DEF HeadTold
<1>12. ToldWillRun'
  <2> SUFFICES ASSUME NEW u \in Task, signal'[u] # "pending"
               PROVE  pc'[u] = "waiting" /\ Contains(ready', u)
    BY DEF ToldWillRun
  <2>1. CASE signal[u] # "pending"
    BY <1>2, <1>6, <1>8, <2>1 DEF ToldWillRun
  <2>2. CASE signal[u] = "pending"
    <3>1. u \in Waiting /\ Contains(wake, u)
      BY <1>2, <1>3, <2>2
    <3> QED BY <1>2, <1>6, <1>8, <3>1 DEF Waiting
  <2> QED BY <2>1, <2>2
<1> QED BY <1>7, <1>9, <1>10, <1>11, <1>12

\* A deadline or a cancellation only sets a future that was not set.
LEMMA ExpireStep ==
  ASSUME IInv, NEW t \in Task, Expire(t)
  PROVE  IInv'
<1> USE DEF IInv
<1>1. /\ pc[t] = "waiting" /\ signal' = [signal EXCEPT ![t] = "expired"]
      /\ UNCHANGED <<pc, revision, waiters, seen>>
  BY DEF Expire
<1>2. /\ ready' \in Seq(Task) /\ Contains(ready', t)
      /\ \A u \in Task : Contains(ready, u) => Contains(ready', u)
  <2>1. CASE signal[t] = "pending"
    BY <2>1, ReadyAppend DEF Expire, Kinds
  <2>2. CASE signal[t] # "pending"
    BY <2>2 DEF Expire, Kinds, ToldWillRun
  <2> QED BY <2>1, <2>2
<1>3. Kinds'
  BY <1>1, <1>2 DEF Kinds, Signal
<1>4. Line(waiters, Task, Waiting)' /\ JoinedForSomething'
  BY <1>1 DEF Line, Waiting, JoinedForSomething, Active
<1>5. HeadTold'
  BY <1>1, HeadInLine DEF HeadTold, Kinds
<1>6. ToldWillRun'
  BY <1>1, <1>2 DEF ToldWillRun, Kinds
<1> QED BY <1>3, <1>4, <1>5, <1>6

\* t leaves the line, for whatever reason, and tells the next one.
LEMMA ResumeStep ==
  ASSUME IInv, NEW t \in Task, Resume(t)
  PROVE  IInv'
<1> USE DEF IInv
<1> DEFINE line == RemoveFirst(waiters, t)
           wake == NextInLine(line, revision)
           self == IF signal[t] = "expired" THEN <<>> ELSE <<t>>
           place == IF signal[t] = "expired" THEN "done" ELSE "admit"
<1>1. /\ Running(t, "waiting") /\ pc[t] = "waiting" /\ waiters' = line
      /\ signal' = [Woken(wake) EXCEPT ![t] = "pending"]
      /\ ready' = (self \o Tail(ready)) \o wake
      /\ pc' = [pc EXCEPT ![t] = place]
      /\ UNCHANGED <<revision, seen>>
  <2>1. self \in Seq(Task) /\ Tail(ready) \in Seq(Task)
    BY DEF Kinds, Resume, Running
  <2> QED BY <2>1 DEF Resume, Running, Go, HandOver
<1>2. Line(line, Task, Waiting \ {t}) /\ t \in Waiting
  BY <1>1, RemoveLine DEF Waiting
<1> HIDE DEF line
<1>3. /\ wake \in Seq(Task) /\ Woken(wake) \in [Task -> Signal]
      /\ \A u \in Task : signal[u] # "pending" => Woken(wake)[u] # "pending"
      /\ \A u \in Task : Woken(wake)[u] # "pending" /\ signal[u] = "pending"
                           => u \in Waiting \ {t} /\ Contains(wake, u)
      /\ line # <<>> /\ revision # seen[Head(line)] => Woken(wake)[Head(line)] # "pending"
  BY <1>2, NextTold
<1>4. /\ Tail(ready) \in Seq(Task)
      /\ \A u \in Task \ {t} : Contains(ready, u) => Contains(Tail(ready), u)
  BY <1>1, OthersReady
<1>5. self \in Seq(Task) /\ place \in Place /\ place # "waiting" /\ place \notin {"sending", "settle"}
  BY DEF Place
<1> HIDE DEF wake, self, place
<1>6. /\ ready' \in Seq(Task)
      /\ \A u \in Task \ {t} : Contains(ready, u) \/ Contains(wake, u) => Contains(ready', u)
  <2>1. self \o Tail(ready) \in Seq(Task)
    BY <1>4, <1>5
  <2>2. \A u \in Task \ {t} : Contains(ready, u) => Contains(self \o Tail(ready), u)
    BY <1>4, <1>5, ReadyInBoth
  <2>3. \A u \in Task : Contains(self \o Tail(ready), u) \/ Contains(wake, u) => Contains(ready', u)
    BY <1>1, <1>3, <2>1, ReadyInBoth
  <2>4. ready' \in Seq(Task)
    BY <1>1, <1>3, <2>1
  <2> QED BY <2>2, <2>3, <2>4
<1>7. Kinds'
  BY <1>1, <1>3, <1>5, <1>6 DEF Kinds, Signal
<1>8. Waiting' = Waiting \ {t} /\ Active' = Active
  BY <1>1, <1>5 DEF Waiting, Active, Kinds
<1>9. Line(waiters, Task, Waiting)'
  BY <1>1, <1>2, <1>8 DEF Line
<1>10. JoinedForSomething'
  BY <1>1, <1>5, <1>8 DEF JoinedForSomething, Kinds
<1>11. HeadTold'
  <2> SUFFICES ASSUME line # <<>>, seen[Head(line)] # revision
               PROVE  signal'[Head(line)] # "pending"
    BY <1>1 DEF HeadTold
  <2>1. Head(line) \in Task /\ Head(line) # t
    BY <1>2, HeadInLine
  <2> QED BY <1>1, <1>3, <2>1
<1>12. ToldWillRun'
  <2> SUFFICES ASSUME NEW u \in Task, signal'[u] # "pending"
               PROVE  pc'[u] = "waiting" /\ Contains(ready', u)
    BY DEF ToldWillRun
  <2>1. u # t /\ Woken(wake)[u] # "pending"
    BY <1>1, <1>3
  <2>2. pc[u] = "waiting" /\ (Contains(ready, u) \/ Contains(wake, u))
    BY <1>3, <2>1 DEF ToldWillRun, Waiting
  <2> QED BY <1>1, <1>6, <2>1, <2>2 DEF Kinds
<1> QED BY <1>7, <1>9, <1>10, <1>11, <1>12

-----------------------------------------------------------------------------
(* The books.  Nothing in the invariant of the line says how large free can     *)
(* be; for that the seconds that are free, charged and held are counted.        *)

\* One pair for every second that is held: a sum without recursion.
Seconds(h) == UNION {{t} \X (1 .. h[t]) : t \in Task}

\* Only a request that is away holds time, and what a late one loses is the only
\* time missing from the total.
Books ==
  /\ hold \in [Task -> 0 .. MaxHold]
  /\ calls \in [Task -> 0 .. MaxCalls]
  /\ \A t \in Task : hold[t] # 0 => pc[t] \in {"sending", "settle"}
  /\ free \in Nat /\ charged \in Nat
  /\ IsFiniteSet(Seconds(hold))
  /\ free + charged + Cardinality(Seconds(hold)) <= Total

\* The seconds of one task.
LEMMA SecondsOfOne ==
  ASSUME NEW t, NEW n \in Nat
  PROVE  IsFiniteSet({t} \X (1 .. n)) /\ Cardinality({t} \X (1 .. n)) = n
<1>1. IsFiniteSet({t}) /\ Cardinality({t}) = 1
  BY FS_Singleton
<1>2. IsFiniteSet(1 .. n) /\ Cardinality(1 .. n) = n
  BY FS_Interval
<1>3. /\ IsFiniteSet({t} \X (1 .. n))
      /\ Cardinality({t} \X (1 .. n)) = Cardinality({t}) * Cardinality(1 .. n)
  BY <1>1, <1>2, FS_Product
<1>4. 1 * n = n
  OBVIOUS
<1> QED BY <1>1, <1>2, <1>3, <1>4

\* A task that held nothing holds n seconds: as many more.
LEMMA SecondsMore ==
  ASSUME NEW h \in [Task -> Nat], IsFiniteSet(Seconds(h)), NEW t \in Task, h[t] = 0, NEW n \in Nat
  PROVE  LET k == [h EXCEPT ![t] = n]
         IN IsFiniteSet(Seconds(k)) /\ Cardinality(Seconds(k)) = Cardinality(Seconds(h)) + n
<1> DEFINE k == [h EXCEPT ![t] = n]
           own == {t} \X (1 .. n)
<1>1. k \in [Task -> Nat] /\ k[t] = n /\ \A u \in Task \ {t} : k[u] = h[u]
  OBVIOUS
<1>2. 1 .. h[t] = {}
  OBVIOUS
<1> HIDE DEF k
<1>3. Seconds(k) = Seconds(h) \cup own /\ Seconds(h) \cap own = {}
  BY <1>1, <1>2 DEF Seconds
<1>4. IsFiniteSet(own) /\ Cardinality(own) = n
  BY SecondsOfOne
<1>5. Cardinality(Seconds(h) \cap own) = 0
  BY <1>3, FS_EmptySet
<1>6. Cardinality(Seconds(h)) \in Nat
  BY FS_CardinalityType
<1> HIDE DEF own
<1>7. /\ IsFiniteSet(Seconds(h) \cup own)
      /\ Cardinality(Seconds(h) \cup own) = Cardinality(Seconds(h)) + n - 0
  BY <1>4, <1>5, FS_Union
<1>8. IsFiniteSet(Seconds(k)) /\ Cardinality(Seconds(k)) = Cardinality(Seconds(h)) + n
  BY <1>3, <1>6, <1>7
<1> QED BY <1>8 DEF k

\* A task that held something holds nothing: as many less.
LEMMA SecondsLess ==
  ASSUME NEW h \in [Task -> Nat], IsFiniteSet(Seconds(h)), NEW t \in Task
  PROVE  LET k == [h EXCEPT ![t] = 0]
         IN IsFiniteSet(Seconds(k)) /\ Cardinality(Seconds(k)) + h[t] = Cardinality(Seconds(h))
<1> DEFINE k == [h EXCEPT ![t] = 0]
<1>1. k \in [Task -> Nat] /\ k[t] = 0 /\ [k EXCEPT ![t] = h[t]] = h /\ h[t] \in Nat
  OBVIOUS
<1>2. Seconds(k) \subseteq Seconds(h)
  BY DEF Seconds
<1>3. IsFiniteSet(Seconds(k))
  BY <1>2, FS_Subset
<1> HIDE DEF k
<1>4. Cardinality(Seconds(h)) = Cardinality(Seconds(k)) + h[t]
  BY <1>1, <1>3, SecondsMore
<1> QED BY <1>3, <1>4 DEF k

\* Nothing is booked: only places change, and nobody who holds time leaves.
LEMMA BooksKept ==
  ASSUME Books, NEW t \in Task, NEW place, pc \in [Task -> Place],
         pc' = [pc EXCEPT ![t] = place],
         hold[t] # 0 => place \in {"sending", "settle"},
         UNCHANGED <<hold, free, charged, calls>>
  PROVE  Books'
BY DEF Books, Seconds

LEMMA SendBooks ==
  ASSUME IInv, Books, NEW t \in Task, Send(t)
  PROVE  Books'
<1>1. PICK h \in 1 .. MaxHold : h <= free /\ hold' = [hold EXCEPT ![t] = h] /\ free' = free - h
  BY DEF Send
<1>2. /\ pc[t] = "admit" /\ pc' = [pc EXCEPT ![t] = "sending"] /\ charged' = charged
      /\ calls[t] < MaxCalls /\ calls' = [calls EXCEPT ![t] = @ + 1]
  BY DEF Send, Running, Go
<1>3. hold[t] = 0 /\ hold \in [Task -> Nat] /\ h \in Nat
  BY <1>2, CapacityAssumption DEF Books
<1>4. /\ IsFiniteSet(Seconds(hold'))
      /\ Cardinality(Seconds(hold')) = Cardinality(Seconds(hold)) + h
  BY <1>1, <1>3, SecondsMore DEF Books
<1>5. Cardinality(Seconds(hold)) \in Nat
  BY FS_CardinalityType DEF Books
<1>6. /\ free' \in Nat /\ charged' \in Nat
      /\ free' + charged' + Cardinality(Seconds(hold')) <= Total
  BY <1>1, <1>2, <1>3, <1>4, <1>5, CapacityAssumption DEF Books
<1>7. hold' \in [Task -> 0 .. MaxHold] /\ calls' \in [Task -> 0 .. MaxCalls]
  BY <1>1, <1>2, CapacityAssumption DEF Books
<1>8. \A u \in Task : hold'[u] # 0 => pc'[u] \in {"sending", "settle"}
  BY <1>1, <1>2 DEF IInv, Kinds, Books
<1>9. IsFiniteSet(Seconds(hold))' /\ (Cardinality(Seconds(hold)))' = Cardinality(Seconds(hold'))
  BY <1>4 DEF Seconds
<1> QED BY <1>6, <1>7, <1>8, <1>9 DEF Books

LEMMA SettleBooks ==
  ASSUME IInv, Books, NEW t \in Task, Settle(t)
  PROVE  Books'
<1>1. PICK place \in {"admit", "away", "done"}, late \in BOOLEAN, used \in 0 .. hold[t] :
        /\ late => used = 0
        /\ charged' = charged + used
        /\ free' = IF late THEN free ELSE free + GiveBack(hold[t], used)
        /\ pc' = [pc EXCEPT ![t] = place]
  BY DEF Settle, Go
<1>2. hold' = [hold EXCEPT ![t] = 0] /\ calls' = calls
  BY DEF Settle
<1>3. hold \in [Task -> Nat] /\ hold[t] \in Nat /\ used \in Nat /\ used <= hold[t]
  BY CapacityAssumption DEF Books
<1>4. /\ IsFiniteSet(Seconds(hold'))
      /\ Cardinality(Seconds(hold')) + hold[t] = Cardinality(Seconds(hold))
  BY <1>2, <1>3, SecondsLess DEF Books
<1>5. Cardinality(Seconds(hold')) \in Nat
  BY <1>4, FS_CardinalityType
<1>6. /\ free' \in Nat /\ charged' \in Nat
      /\ free' + charged' + Cardinality(Seconds(hold')) <= Total
  <2>1. charged' = charged + used /\ (free' = free + (hold[t] - used) \/ free' = free)
    BY <1>1 DEF GiveBack
  <2> QED BY <1>3, <1>4, <1>5, <2>1, CapacityAssumption DEF Books
<1>7. hold' \in [Task -> 0 .. MaxHold] /\ calls' \in [Task -> 0 .. MaxCalls]
  BY <1>2, CapacityAssumption DEF Books
<1>8. \A u \in Task : hold'[u] # 0 => pc'[u] \in {"sending", "settle"}
  BY <1>1, <1>2 DEF IInv, Kinds, Books
<1>9. IsFiniteSet(Seconds(hold))' /\ (Cardinality(Seconds(hold)))' = Cardinality(Seconds(hold'))
  BY <1>4 DEF Seconds
<1> QED BY <1>6, <1>7, <1>8, <1>9 DEF Books

LEMMA BooksInitially == Init => Books
<1> SUFFICES ASSUME Init PROVE Books
  OBVIOUS
<1>1. hold = [t \in Task |-> 0] /\ 1 .. 0 = {}
  BY DEF Init
<1>2. Seconds(hold) = {}
  BY <1>1 DEF Seconds
<1>3. IsFiniteSet(Seconds(hold)) /\ Cardinality(Seconds(hold)) = 0
  BY <1>2, FS_EmptySet
<1> QED BY <1>1, <1>3, CapacityAssumption DEF Init, Books

LEMMA BooksInductive == IInv /\ Books /\ [Next]_vars => Books'
<1> SUFFICES ASSUME IInv, Books, [Next]_vars PROVE Books'
  OBVIOUS
<1>0. pc \in [Task -> Place]
  BY DEF IInv, Kinds
<1>1. CASE UNCHANGED vars
  BY <1>1 DEF vars, Books, Seconds
<1>2. ASSUME NEW t \in Task, Loop(t) PROVE Books'
  <2>1. CASE Send(t)
    BY <2>1, SendBooks
  <2>2. CASE Settle(t)
    BY <2>2, SettleBooks
  <2>3. CASE Join(t)
    BY <1>0, <2>3, BooksKept DEF Join, Running, Go, Books
  <2>4. CASE Stop(t)
    BY <1>0, <2>4, BooksKept DEF Stop, Running, Go, Books
  <2>5. CASE Resume(t)
    BY <1>0, <2>5, BooksKept DEF Resume, Running, Go, Books
  <2> QED BY <1>2, <2>1, <2>2, <2>3, <2>4, <2>5 DEF Loop
<1>3. ASSUME NEW t \in Task, Arrive(t) PROVE Books'
  BY <1>0, <1>3, BooksKept DEF Arrive, Go, Books
<1>4. ASSUME NEW t \in Task, Answer(t) PROVE Books'
  BY <1>0, <1>4, BooksKept DEF Answer, Go, Books
<1>5. ASSUME NEW t \in Task, Expire(t) PROVE Books'
  BY <1>5 DEF Expire, Books, Seconds
<1> QED BY <1>1, <1>2, <1>3, <1>4, <1>5 DEF Next, Arrival

-----------------------------------------------------------------------------
(* Nobody is stuck.  The loop's queue holds exactly those that can go on, each   *)
(* once: so its head can take a step, whatever was set, woken or expired.       *)

\* Those whose next stretch of code is due.
Due == {t \in Task : \/ pc[t] \in {"admit", "settle"}
                     \/ pc[t] = "waiting" /\ signal[t] # "pending"}

Queue == Line(ready, Task, Due)

\* Whoever waits for a place in the line has the loop or a service to move it.
SomethingMoves == waiters # <<>> => ready # <<>> \/ \E t \in Task : pc[t] = "sending"

\* The head leaves the queue.
LEMMA TailLine ==
  ASSUME NEW S, NEW q, NEW M, Line(q, S, M), q # <<>>
  PROVE  Line(Tail(q), S, M \ {Head(q)})
<1>1. q \in Seq(S) /\ Len(q) \in Nat /\ Head(q) = q[1] /\ 1 \in 1..Len(q)
  BY DEF Line
<1> DEFINE r == Tail(q)
<1>2. /\ r \in Seq(S) /\ Len(r) = Len(q) - 1
      /\ \A i \in 1..Len(r) : r[i] = IF i < 1 THEN q[i] ELSE q[i + 1]
  BY <1>1
<1> HIDE DEF r
<1>3. Line(r, S, M \ {q[1]})
  BY <1>1, <1>2, LessLine
<1> QED BY <1>1, <1>3 DEF r

\* At most one more is called.
LEMMA CalledLine ==
  ASSUME NEW S, NEW q, NEW M, Line(q, S, M), NEW w,
         w = <<>> \/ \E t \in S \ M : w = <<t>>
  PROVE  Line(q \o w, S, M \cup {t \in S : w = <<t>>})
<1>1. q \in Seq(S)
  BY DEF Line
<1>2. CASE w = <<>>
  <2>1. q \o w = q /\ {t \in S : w = <<t>>} = {}
    BY <1>1, <1>2
  <2> QED BY <2>1
<1>3. CASE \E t \in S \ M : w = <<t>>
  <2>1. PICK t \in S : t \notin M /\ w = <<t>>
    BY <1>3
  <2>2. q \o w = Append(q, t) /\ {u \in S : w = <<u>>} = {t}
    BY <1>1, <2>1
  <2>3. Line(Append(q, t), S, M \cup {t})
    BY <2>1, AppendLine
  <2> QED BY <2>2, <2>3
<1> QED BY <1>2, <1>3

\* The one who is woken, if any, is the head of the line and slept.
LEMMA WokenSlept ==
  ASSUME Kinds, NEW line, NEW M, Line(line, Task, M), NEW rev,
         NEW wake, wake = NextInLine(line, rev)
  PROVE  /\ wake = <<>> \/ \E u \in M : wake = <<u>> /\ u \in Task /\ signal[u] = "pending"
         /\ \A u \in Task : Woken(wake)[u] = IF wake = <<u>> THEN "woken" ELSE signal[u]
<1>1. line # <<>> => Head(line) \in Task /\ Head(line) \in M
  BY HeadInLine
<1>2. wake = <<>> \/ (wake = <<Head(line)>> /\ line # <<>> /\ signal[Head(line)] = "pending")
  BY DEF NextInLine
<1>3. \A u \in Task : Contains(wake, u) <=> wake = <<u>>
  <2>1. CASE wake = <<>>
    BY <2>1 DEF Contains
  <2>2. CASE wake = <<Head(line)>>
    BY <2>2 DEF Contains
  <2> QED BY <1>2, <2>1, <2>2
<1>4. \A u \in Task : Woken(wake)[u] = IF wake = <<u>> THEN "woken" ELSE signal[u]
  BY <1>3 DEF Woken
<1>5. CASE wake = <<>>
  BY <1>4, <1>5
<1>6. CASE wake # <<>>
  <2>1. wake = <<Head(line)>> /\ Head(line) \in M /\ Head(line) \in Task /\ signal[Head(line)] = "pending"
    BY <1>1, <1>2, <1>6
  <2> QED BY <1>4, <2>1
<1> QED BY <1>5, <1>6

\* Who is away or sending is called for.
LEMMA CallQueue ==
  ASSUME IInv, Queue, NEW t \in Task, pc[t] \in {"away", "sending"}, ready' = Append(ready, t),
         NEW place \in {"admit", "settle"}, pc' = [pc EXCEPT ![t] = place], UNCHANGED signal
  PROVE  Queue'
<1>1. t \notin Due
  BY DEF Due
<1>2. Line(ready', Task, Due \cup {t})
  BY <1>1, AppendLine DEF Queue
<1>3. Due' = Due \cup {t}
  <2>1. ASSUME NEW u \in Task PROVE u \in Due' <=> u \in Due \cup {t}
    BY DEF Due, IInv, Kinds
  <2> QED BY <2>1 DEF Due
<1> QED BY <1>2, <1>3 DEF Queue, Line

\* The head of the queue goes where nobody calls it from the queue.
LEMMA LeaveQueue ==
  ASSUME IInv, Queue, NEW t \in Task, Running(t, "admit"), ready' = Tail(ready),
         NEW place \in {"sending", "done"}, pc' = [pc EXCEPT ![t] = place], UNCHANGED signal
  PROVE  Queue'
<1>1. Line(ready', Task, Due \ {t})
  BY TailLine DEF Queue, Running
<1>2. Due' = Due \ {t}
  <2>1. ASSUME NEW u \in Task PROVE u \in Due' <=> u \in Due \ {t}
    BY DEF Due, IInv, Kinds
  <2> QED BY <2>1 DEF Due
<1> QED BY <1>1, <1>2 DEF Queue, Line

LEMMA JoinQueue ==
  ASSUME IInv, Queue, NEW t \in Task, Join(t)
  PROVE  Queue'
<1> DEFINE wake == NextInLine(waiters, revision)
           called == {u \in Task : wake = <<u>>}
<1>1. /\ Running(t, "admit") /\ pc[t] = "admit" /\ pc' = [pc EXCEPT ![t] = "waiting"]
      /\ signal' = Woken(wake) /\ ready' = Tail(ready) \o wake
  BY DEF Join, Running, Go
<1>2. /\ wake = <<>> \/ \E u \in Waiting : wake = <<u>> /\ u \in Task /\ signal[u] = "pending"
      /\ \A u \in Task : Woken(wake)[u] = IF wake = <<u>> THEN "woken" ELSE signal[u]
  BY WokenSlept DEF IInv
<1> HIDE DEF wake
<1>3. Line(Tail(ready), Task, Due \ {t})
  BY <1>1, TailLine DEF Queue, Running
<1>4. wake = <<>> \/ \E u \in Task \ (Due \ {t}) : wake = <<u>>
  BY <1>2 DEF Due, Waiting
<1>5. Line(ready', Task, (Due \ {t}) \cup called)
  BY <1>1, <1>3, <1>4, CalledLine
<1>6. \A u \in called : u # t /\ pc[u] = "waiting"
  BY <1>1, <1>2 DEF Waiting
<1>7. Due' = (Due \ {t}) \cup called
  <2>1. ASSUME NEW u \in Task PROVE u \in Due' <=> u \in (Due \ {t}) \cup called
    <3>1. CASE u = t
      BY <1>1, <1>2, <1>6, <3>1 DEF Due, IInv, Kinds, ToldWillRun
    <3>2. CASE u # t
      BY <1>1, <1>2, <1>6, <3>2 DEF Due, IInv, Kinds
    <3> QED BY <3>1, <3>2
  <2> QED BY <2>1 DEF Due
<1> QED BY <1>5, <1>7 DEF Queue, Line

LEMMA SettleQueue ==
  ASSUME IInv, Queue, NEW t \in Task, Settle(t)
  PROVE  Queue'
<1>1. PICK place \in {"admit", "away", "done"} :
        /\ pc' = [pc EXCEPT ![t] = place]
        /\ signal' = Woken(NextInLine(waiters, revision + 1))
        /\ ready' = YieldOnce(IF place = "admit" THEN <<t>> ELSE <<>>, NextInLine(waiters, revision + 1))
  BY DEF Settle, Go
<1> DEFINE wake == NextInLine(waiters, revision + 1)
           called == {u \in Task : wake = <<u>>}
           self == IF place = "admit" THEN <<t>> ELSE <<>>
           again == {u \in Task : self = <<u>>}
<1>2. Running(t, "settle") /\ pc[t] = "settle" /\ signal' = Woken(wake) /\ ready' = YieldOnce(self, wake)
  BY <1>1 DEF Settle, Running
<1>3. /\ wake = <<>> \/ \E u \in Waiting : wake = <<u>> /\ u \in Task /\ signal[u] = "pending"
      /\ \A u \in Task : Woken(wake)[u] = IF wake = <<u>> THEN "woken" ELSE signal[u]
  BY WokenSlept DEF IInv
<1>4. waiters = <<>> => wake = <<>>
  BY DEF NextInLine
<1>5. (self = <<>> \/ self = <<t>>) /\ again = IF place = "admit" THEN {t} ELSE {}
  OBVIOUS
<1> HIDE DEF wake, self
<1>6. Line(Tail(ready), Task, Due \ {t}) /\ Tail(ready) \in Seq(Task)
  <2>1. Line(Tail(ready), Task, Due \ {t})
    BY <1>2, TailLine DEF Queue, Running
  <2> QED BY <2>1 DEF Line
<1>7. Line(ready', Task, ((Due \ {t}) \cup called) \cup again)
  <2>1. CASE waiters = <<>> /\ self = <<t>>
    <3>1. wake = <<>> /\ ready' = <<t>> \o Tail(ready)
      BY <1>2, <1>4, <2>1 DEF YieldOnce
    <3>2. <<t>> \o Tail(ready) = ready
      BY <1>2 DEF Running, IInv, Kinds
    <3>3. called = {} /\ again = {t} /\ t \in Due
      BY <1>2, <2>1, <3>1 DEF Due
    <3>4. ((Due \ {t}) \cup called) \cup again = Due
      BY <3>3
    <3> QED BY <3>1, <3>2, <3>4 DEF Queue
  <2>2. CASE waiters = <<>> /\ self = <<>>
    <3>1. wake = <<>> /\ ready' = <<>> \o Tail(ready)
      BY <1>2, <1>4, <2>2 DEF YieldOnce
    <3>2. <<>> \o Tail(ready) = Tail(ready)
      BY <1>6
    <3>3. called = {} /\ again = {}
      BY <2>2, <3>1
    <3>4. ((Due \ {t}) \cup called) \cup again = Due \ {t}
      BY <3>3
    <3> QED BY <1>6, <3>1, <3>2, <3>4
  <2>3. CASE waiters # <<>>
    <3> DEFINE both == Tail(ready) \o wake
    <3>1. wake = <<>> \/ \E u \in Task \ (Due \ {t}) : wake = <<u>>
      BY <1>3 DEF Due, Waiting
    <3>2. Line(both, Task, (Due \ {t}) \cup called)
      BY <1>6, <3>1, CalledLine
    <3>3. t \notin called
      BY <1>2, <1>3 DEF Waiting
    <3>4. self = <<>> \/ \E u \in Task \ ((Due \ {t}) \cup called) : self = <<u>>
      BY <1>5, <3>3
    <3>5. wake \in Seq(Task) /\ self \in Seq(Task)
      <4>1. <<>> \in Seq(Task) /\ \A u \in Task : <<u>> \in Seq(Task)
        OBVIOUS
      <4>2. wake \in Seq(Task)
        BY <1>3, <4>1, Zenon
      <4>3. self \in Seq(Task)
        BY <1>5, <4>1, Zenon
      <4> QED BY <4>2, <4>3
    <3>6. ready' = both \o self
      BY <1>2, <1>6, <2>3, <3>5 DEF YieldOnce
    <3> HIDE DEF both, called
    <3>7. Line(both \o self, Task, ((Due \ {t}) \cup called) \cup again)
      BY <3>2, <3>4, CalledLine
    <3> QED BY <3>6, <3>7
  <2> QED BY <1>5, <2>1, <2>2, <2>3
<1>8. Due' = ((Due \ {t}) \cup called) \cup again
  <2>1. \A u \in called : u # t /\ pc[u] = "waiting"
    BY <1>2, <1>3 DEF Waiting
  <2>2. ASSUME NEW u \in Task PROVE u \in Due' <=> u \in ((Due \ {t}) \cup called) \cup again
    <3>1. CASE u = t
      BY <1>1, <1>2, <1>5, <2>1, <3>1 DEF Due, IInv, Kinds
    <3>2. CASE u # t
      BY <1>1, <1>2, <1>3, <1>5, <2>1, <3>2 DEF Due, IInv, Kinds
    <3> QED BY <3>1, <3>2
  <2> QED BY <2>2 DEF Due
<1> QED BY <1>7, <1>8 DEF Queue, Line

LEMMA ExpireQueue ==
  ASSUME IInv, Queue, NEW t \in Task, Expire(t)
  PROVE  Queue'
<1>1. /\ pc[t] = "waiting" /\ signal' = [signal EXCEPT ![t] = "expired"] /\ pc' = pc
      /\ ready' = IF signal[t] = "pending" THEN Append(ready, t) ELSE ready
  BY DEF Expire
<1>2. Due' = Due \cup {t}
  BY <1>1 DEF Due, IInv, Kinds
<1>3. CASE signal[t] = "pending"
  <2>1. t \notin Due
    BY <1>1, <1>3 DEF Due
  <2>2. Line(ready', Task, Due \cup {t})
    BY <1>1, <1>3, <2>1, AppendLine DEF Queue
  <2> QED BY <1>2, <2>2 DEF Queue, Line
<1>4. CASE signal[t] # "pending"
  <2>1. Due \cup {t} = Due /\ ready' = ready
    BY <1>1, <1>4 DEF Due
  <2> QED BY <1>2, <2>1 DEF Queue, Line
<1> QED BY <1>3, <1>4

LEMMA ResumeQueue ==
  ASSUME IInv, Queue, NEW t \in Task, Resume(t)
  PROVE  Queue'
<1> DEFINE line == RemoveFirst(waiters, t)
           wake == NextInLine(line, revision)
           called == {u \in Task : wake = <<u>>}
           self == IF signal[t] = "expired" THEN <<>> ELSE <<t>>
           place == IF signal[t] = "expired" THEN "done" ELSE "admit"
           stay == IF signal[t] = "expired" THEN Due \ {t} ELSE Due
<1>1. /\ Running(t, "waiting") /\ pc[t] = "waiting" /\ ready # <<>> /\ Head(ready) = t
      /\ signal' = [Woken(wake) EXCEPT ![t] = "pending"]
      /\ ready' = (self \o Tail(ready)) \o wake
      /\ pc' = [pc EXCEPT ![t] = place]
  <2>1. self \in Seq(Task) /\ Tail(ready) \in Seq(Task)
    BY DEF IInv, Kinds, Resume, Running
  <2> QED BY <2>1 DEF Resume, Running, Go, HandOver
<1>2. t \in Due
  BY <1>1, HeadInLine DEF Queue
<1>3. Line(line, Task, Waiting \ {t})
  BY <1>1, RemoveLine DEF Waiting, IInv
<1>4. /\ wake = <<>> \/ \E u \in Waiting \ {t} : wake = <<u>> /\ u \in Task /\ signal[u] = "pending"
      /\ \A u \in Task : Woken(wake)[u] = IF wake = <<u>> THEN "woken" ELSE signal[u]
  BY <1>3, WokenSlept DEF IInv
<1> HIDE DEF wake, line
<1>5. Line(self \o Tail(ready), Task, stay)
  <2>1. CASE signal[t] = "expired"
    <3>1. self \o Tail(ready) = Tail(ready)
      BY <1>1, <2>1 DEF IInv, Kinds
    <3>2. Line(Tail(ready), Task, Due \ {t})
      BY <1>1, TailLine DEF Queue
    <3> QED BY <2>1, <3>1, <3>2
  <2>2. CASE signal[t] # "expired"
    <3>1. self \o Tail(ready) = ready
      BY <1>1, <2>2 DEF IInv, Kinds
    <3> QED BY <2>2, <3>1 DEF Queue
  <2> QED BY <2>1, <2>2
<1>6. stay \subseteq Due /\ (t \in stay <=> signal[t] # "expired") /\ \A u \in Due : u # t => u \in stay
  BY <1>2
<1>7. place = IF t \in stay THEN "admit" ELSE "done"
  BY <1>6
<1> HIDE DEF self, stay, place
<1>8. wake = <<>> \/ \E u \in Task \ stay : wake = <<u>>
  BY <1>4, <1>6 DEF Due, Waiting
<1>9. Line(ready', Task, stay \cup called)
  BY <1>1, <1>5, <1>8, CalledLine
<1>10. Due' = stay \cup called
  <2>1. \A u \in called : u # t /\ pc[u] = "waiting"
    BY <1>4 DEF Waiting
  <2>2. ASSUME NEW u \in Task PROVE u \in Due' <=> u \in stay \cup called
    <3>1. CASE u = t
      <4>1. pc'[u] = place /\ signal'[u] = "pending" /\ u \notin called
        BY <1>1, <1>4, <2>1, <3>1 DEF IInv, Kinds, Woken
      <4> QED BY <1>7, <3>1, <4>1 DEF Due
    <3>2. CASE u # t
      <4>1. pc'[u] = pc[u] /\ signal'[u] = IF u \in called THEN "woken" ELSE signal[u]
        BY <1>1, <1>4, <3>2 DEF IInv, Kinds, Woken
      <4>2. u \in stay <=> u \in Due
        BY <1>6, <3>2
      <4> QED BY <2>1, <4>1, <4>2 DEF Due
    <3> QED BY <3>1, <3>2
  <2>3. Due' \subseteq Task /\ stay \cup called \subseteq Task
    BY <1>6 DEF Due
  <2> QED BY <2>2, <2>3
<1> QED BY <1>9, <1>10 DEF Queue, Line

LEMMA QueueInitially == Init => Queue
BY DEF Init, Queue, Line, Due

LEMMA QueueInductive == IInv /\ Queue /\ [Next]_vars => Queue'
<1> SUFFICES ASSUME IInv, Queue, [Next]_vars PROVE Queue'
  OBVIOUS
<1>1. CASE UNCHANGED vars
  BY <1>1 DEF vars, Queue, Line, Due
<1>2. ASSUME NEW t \in Task, Loop(t) PROVE Queue'
  <2>1. CASE Send(t)
    BY <2>1, LeaveQueue DEF Send, Go
  <2>2. CASE Stop(t)
    BY <2>2, LeaveQueue DEF Stop, Go
  <2> QED BY <1>2, <2>1, <2>2, JoinQueue, SettleQueue, ResumeQueue DEF Loop
<1>3. ASSUME NEW t \in Task, Arrive(t) PROVE Queue'
  BY <1>3, CallQueue DEF Arrive, Go
<1>4. ASSUME NEW t \in Task, Answer(t) PROVE Queue'
  BY <1>4, CallQueue DEF Answer, Go
<1>5. ASSUME NEW t \in Task, Expire(t) PROVE Queue'
  BY <1>5, ExpireQueue
<1> QED BY <1>1, <1>2, <1>3, <1>4, <1>5 DEF Next, Arrival

-----------------------------------------------------------------------------
(* The theorems.                                                               *)

LEMMA Initially == Init => IInv
<1> SUFFICES ASSUME Init PROVE IInv
  OBVIOUS
<1>1. Kinds
  BY DEF Init, Kinds, Place, Signal
<1>2. Line(waiters, Task, Waiting)
  BY DEF Init, Line, Waiting
<1>3. JoinedForSomething /\ HeadTold /\ ToldWillRun
  BY DEF Init, JoinedForSomething, HeadTold, ToldWillRun
<1> QED BY <1>1, <1>2, <1>3 DEF IInv

LEMMA Inductive == IInv /\ [Next]_vars => IInv'
<1> SUFFICES ASSUME IInv, [Next]_vars PROVE IInv'
  OBVIOUS
<1>1. CASE UNCHANGED vars
  BY <1>1 DEF vars, IInv, Kinds, Line, Waiting, JoinedForSomething, Active, HeadTold, ToldWillRun
<1>2. ASSUME NEW t \in Task, Loop(t) PROVE IInv'
  BY <1>2, SendStep, JoinStep, StopStep, SettleStep, ResumeStep DEF Loop
<1>3. ASSUME NEW t \in Task, Arrival(t) PROVE IInv'
  BY <1>3, ArriveStep, AnswerStep DEF Arrival
<1>4. ASSUME NEW t \in Task, Expire(t) PROVE IInv'
  BY <1>4, ExpireStep
<1> QED BY <1>1, <1>2, <1>3, <1>4 DEF Next

\* The line and the futures of those who stand in it, in every state: each
\* waiting task stands there once, with a request away or a wake-up on its way
\* (_BudgetCapacitySignal).
THEOREM CapacityInvariant == Spec => []IInv
BY Initially, Inductive, PTL DEF Spec

\* Nobody waits for nothing: while somebody is in line, a request is away or
\* the head was told (_can_wait_for_root_time_reservation, wait_for_change).
THEOREM SomebodyAlwaysComes == Spec => []SomebodyComes
<1>1. IInv => SomebodyComes
  <2> SUFFICES ASSUME IInv, waiters # <<>> PROVE Active # {} \/ signal[Head(waiters)] # "pending"
    BY DEF SomebodyComes
  <2>1. Head(waiters) \in Task /\ pc[Head(waiters)] = "waiting"
    BY HeadInLine DEF IInv, Waiting
  <2> QED BY <2>1 DEF IInv, JoinedForSomething, HeadTold
<1> QED BY <1>1, CapacityInvariant, PTL

\* No wake-up is lost, however completions, deadlines and cancellations
\* interleave (complete, _wake_head, wait_for_change).
THEOREM WakeUpsArrive == Spec => []NoLostWakeup
<1>1. IInv => NoLostWakeup
  BY DEF IInv, HeadTold, ToldWillRun, NoLostWakeup
<1> QED BY <1>1, CapacityInvariant, PTL
\* The seconds of the run are never spent twice: what is free, charged and held
\* by requests in flight is at most the total, and only what a request past its
\* time held is missing (_model_call's reservation, settlement and timeout).
THEOREM SecondsAreCounted == Spec => []Books
<1>1. IInv /\ Books /\ [Next]_vars => (IInv /\ Books)'
  BY Inductive, BooksInductive
<1> QED BY <1>1, Initially, BooksInitially, PTL DEF Spec

\* Every variable keeps its type; in particular free and charged stay within the
\* total, and nobody makes more calls than it may.
THEOREM CapacityTypes == Spec => []TypeOK
<1>1. IInv /\ Books => TypeOK
  <2> SUFFICES ASSUME IInv, Books PROVE TypeOK
    OBVIOUS
  <2>1. Cardinality(Seconds(hold)) \in Nat
    BY FS_CardinalityType DEF Books
  <2>2. free \in 0 .. Total /\ charged \in 0 .. Total
    BY <2>1, CapacityAssumption DEF Books
  <2> QED BY <2>2 DEF IInv, Kinds, Line, Books, TypeOK
<1> QED BY <1>1, CapacityInvariant, SecondsAreCounted, PTL
\* The loop's queue holds exactly those whose code is due, each once: no future is
\* set twice, nobody runs who is still asleep (set_result, call_soon).
THEOREM QueueIsExact == Spec => []Queue
<1>1. IInv /\ Queue /\ [Next]_vars => (IInv /\ Queue)'
  BY Inductive, QueueInductive
<1> QED BY <1>1, Initially, QueueInitially, PTL DEF Spec

\* The run never stands still while somebody is in line: the loop has something
\* to run, or a request is away whose end puts something there
\* (_can_wait_for_root_time_reservation, complete, wait_for_change).
THEOREM NobodyIsStuck == Spec => []SomethingMoves
<1>1. IInv /\ Queue /\ SomebodyComes => SomethingMoves
  <2> SUFFICES ASSUME IInv, Queue, SomebodyComes, waiters # <<>>,
                      \A t \in Task : pc[t] # "sending"
               PROVE  ready # <<>>
    BY DEF SomethingMoves
  <2>1. Head(waiters) \in Task /\ pc[Head(waiters)] = "waiting"
    BY HeadInLine DEF IInv, Waiting
  <2>2. PICK t \in Task : t \in Due
    BY <2>1 DEF SomebodyComes, Active, Due
  <2> QED BY <2>2 DEF Queue, Line
<1> QED BY <1>1, CapacityInvariant, QueueIsExact, SomebodyAlwaysComes, PTL
=============================================================================
