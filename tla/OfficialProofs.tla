---------------------------- MODULE OfficialProofs ----------------------------
(***************************************************************************)
(* Proofs about Official, for any calls and limits.                        *)
(***************************************************************************)
EXTENDS Official, Lemmas

Requests  == UNION {Range(c) : c \in Calls}
Questions == UNION {Range(request) : request \in Requests}
AllTasks  == UNION {Range(question) : question \in Questions}
Token     == UNION {Range(task.ids) : task \in AllTasks}

\* What one output, the score of a task and the answers of a request are made of.
Reading == Seq(Token)
Score   == Seq(Reading)
Answer  == Seq(Seq(Score))

\* The score a task is to get.
Own(task) == OutputsOf(task.ids, Positions(task))

-----------------------------------------------------------------------------
(***************************************************************************)
(* What the assumption says of a task, and of a request.                   *)
(***************************************************************************)
LEMMA TaskTyped ==
  ASSUME NEW task \in AllTasks
  PROVE  /\ task.ids \in Seq(Token) /\ Len(task.ids) \in Nat \ {0}
         /\ Positions(task) \in Seq(1..Len(task.ids))
         /\ \A k, l \in DOMAIN Positions(task) :
              Positions(task)[k] = Positions(task)[l] => k = l
         /\ Own(task) \in Score
<1>1. IsTask(task)
  BY OfficialAssumption DEF AllTasks, Questions, Requests
<1>2. Range(task.ids) \subseteq Token
  BY DEF Token
<1>3. task.ids \in Seq(Token)
  BY <1>1, <1>2, SeqMonotonic DEF IsTask
<1>4. Len(task.ids) \in Nat \ {0}
  BY <1>1 DEF IsTask
<1>5. /\ Positions(task) \in Seq(1..Len(task.ids))
      /\ \A k, l \in DOMAIN Positions(task) :
              Positions(task)[k] = Positions(task)[l] => k = l
  BY <1>1 DEF IsTask, IsInjective
<1>6. Own(task) \in Score
  <2>. DEFINE n == Len(Positions(task))
  <2>1. n \in Nat /\ DOMAIN Positions(task) = 1..n
    BY <1>5
  <2>2. \A k \in 1..n : SubSeq(task.ids, 1, Positions(task)[k]) \in Reading
    <3>. SUFFICES ASSUME NEW k \in 1..n PROVE SubSeq(task.ids, 1, Positions(task)[k]) \in Reading
      OBVIOUS
    <3>1. Positions(task)[k] \in 1..Len(task.ids)
      BY <1>5, <2>1
    <3>2. \A m \in 1..Positions(task)[k] : task.ids[m] \in Token
      BY <1>3, <1>4, <3>1
    <3>. QED  BY <1>3, <1>4, <3>1, <3>2, SubSeqProperties DEF Reading
  <2>3. Own(task) = [k \in 1..n |-> SubSeq(task.ids, 1, Positions(task)[k])]
    BY <2>1 DEF Own, OutputsOf
  <2>. HIDE DEF n
  <2>. QED  BY <2>1, <2>2, <2>3 DEF Score
<1>. QED  BY <1>3, <1>4, <1>5, <1>6

LEMMA RequestTyped ==
  ASSUME NEW request \in Requests
  PROVE  /\ request \in Seq(Seq(AllTasks)) /\ Len(request) \in Nat
         /\ DOMAIN request = 1..Len(request)
         /\ FlattenSeq(request) \in Seq(AllTasks)
         /\ Laid(FlattenSeq(request), request, Len(request))
<1>1. request \in Seq(Range(request))
  BY OfficialAssumption DEF Requests
<1>2. ASSUME NEW question \in Range(request) PROVE question \in Seq(AllTasks)
  <2>1. question \in Seq(Range(question))
    BY OfficialAssumption DEF Requests
  <2>2. Range(question) \subseteq AllTasks
    BY DEF AllTasks, Questions
  <2>. QED  BY <2>1, <2>2, SeqMonotonic
<1>3. request \in Seq(Seq(AllTasks))
  BY <1>1, <1>2, SeqMonotonic
<1>4. Len(request) \in Nat /\ DOMAIN request = 1..Len(request)
  BY <1>3
<1>5. request \in [1..Len(request) -> Seq(AllTasks)]
  BY <1>3
<1>. QED  BY <1>3, <1>4, <1>5, FlattenLays

LEMMA CallTyped ==
  ASSUME NEW c \in Calls
  PROVE  /\ Len(c) \in Nat \ {0} /\ DOMAIN c = 1..Len(c)
         /\ \A i \in DOMAIN c : c[i] \in Requests
<1>1. c # <<>> /\ c \in Seq(Range(c))
  BY OfficialAssumption
<1>2. Len(c) \in Nat \ {0} /\ DOMAIN c = 1..Len(c)
  BY <1>1
<1>. QED  BY <1>2 DEF Requests, Range

(* The tasks of a question are where the variants before it are counted to. *)
LEMMA FirstTaskCounts ==
  ASSUME NEW request \in Requests, NEW q \in DOMAIN request
  PROVE  LET tasks == FlattenSeq(request)
             first == FirstTask(request, q)
         IN  /\ first \in Nat \ {0} /\ first + Len(request[q]) - 1 <= Len(tasks)
             /\ Len(request[q]) \in Nat
             /\ \A v \in 1..Len(request[q]) : tasks[first + v - 1] = request[q][v]
<1>. DEFINE before == SubSeq(request, 1, q - 1)
            tasks == FlattenSeq(request)
            w == Lengths(request)
<1>1. /\ request \in Seq(Seq(AllTasks)) /\ Len(request) \in Nat /\ q \in 1..Len(request)
      /\ Laid(tasks, request, Len(request)) /\ tasks \in Seq(AllTasks)
  BY RequestTyped
<1>2. q - 1 \in Nat /\ before \in Seq(Seq(AllTasks)) /\ Len(before) = q - 1
      /\ \A i \in 1..q - 1 : before[i] = request[i]
  <2>1. \A i \in 1..q - 1 : request[i] \in Seq(AllTasks)
    BY <1>1
  <2>. QED  BY <1>1, <2>1, SubSeqProperties
<1>. HIDE DEF before
<1>3. Len(FlattenSeq(before)) = Total(Lengths(before), 1..q - 1)
  <2>1. before \in [1..q - 1 -> Seq(AllTasks)]
    BY <1>2
  <2>. QED  BY <1>2, <2>1, FlattenLays DEF Laid
<1>4. Total(Lengths(before), 1..q - 1) = Total(w, 1..q - 1)
  <2>1. \A i \in 1..q - 1 : Lengths(before)[i] = w[i]
    BY <1>1, <1>2 DEF Lengths
  <2>. HIDE DEF w
  <2>. QED  BY <2>1, TotalSame
<1>5. PICK b \in Nat : b = Total(w, 1..q - 1)
  BY <1>1 DEF Laid
<1>6. FirstTask(request, q) = 1 + b
  BY <1>3, <1>4, <1>5 DEF FirstTask, before
<1>7. /\ b + Len(request[q]) <= Len(tasks) /\ Len(request[q]) \in Nat
      /\ \A v \in 1..Len(request[q]) : tasks[b + v] = request[q][v]
  BY <1>1, <1>5 DEF Laid
<1>8. Len(tasks) \in Nat
  BY <1>1
<1>. HIDE DEF tasks
<1>9. 1 + b + Len(request[q]) - 1 <= Len(tasks)
  BY <1>7, <1>8
<1>10. \A v \in 1..Len(request[q]) : 1 + b + v - 1 = b + v
  BY <1>7
<1>. QED  BY <1>6, <1>7, <1>9, <1>10 DEF tasks

-----------------------------------------------------------------------------
(***************************************************************************)
(* The batch of a request's tasks.                                         *)
(***************************************************************************)
(* shared_prefix() is a prefix of every task, short of its end and reads.  *)
LEMMA PrefixShared ==
  ASSUME NEW tasks \in Seq(AllTasks), tasks # <<>>
  PROVE  /\ SharedLength(tasks) \in Nat
         /\ \A t \in DOMAIN tasks :
              /\ SharedLength(tasks) < Len(tasks[t].ids)
              /\ \A p \in Reads(tasks[t]) : SharedLength(tasks) < p
              /\ SubSeq(tasks[t].ids, 1, SharedLength(tasks))
                   = SubSeq(tasks[1].ids, 1, SharedLength(tasks))
<1>. DEFINE Fits(n) == \A t \in Range(tasks) :
                         /\ n < Len(t.ids)
                         /\ \A p \in Reads(t) : n < p
                         /\ SubSeq(t.ids, 1, n) = SubSeq(tasks[1].ids, 1, n)
            S == {n \in 0..Len(tasks[1].ids) - 1 : Fits(n)}
<1>1. tasks[1] \in AllTasks /\ Range(tasks) \subseteq AllTasks
      /\ \A t \in DOMAIN tasks : tasks[t] \in Range(tasks)
  BY DEF Range
<1>2. Len(tasks[1].ids) \in Nat \ {0}
  BY <1>1, TaskTyped
<1>3. Fits(0)
  <2>. SUFFICES ASSUME NEW t \in Range(tasks)
                PROVE  /\ 0 < Len(t.ids)
                       /\ \A p \in Reads(t) : 0 < p
                       /\ SubSeq(t.ids, 1, 0) = SubSeq(tasks[1].ids, 1, 0)
    OBVIOUS
  <2>1. Len(t.ids) \in Nat \ {0} /\ Positions(t) \in Seq(1..Len(t.ids))
    BY <1>1, TaskTyped
  <2>2. \A p \in Reads(t) : p \in 1..Len(t.ids)
    BY <2>1 DEF Reads, Range
  <2>3. SubSeq(t.ids, 1, 0) = <<>> /\ SubSeq(tasks[1].ids, 1, 0) = <<>>
    BY SubSeqEmpty
  <2>. QED  BY <2>1, <2>2, <2>3
<1>4. SharedLength(tasks) = Max(S)
  BY DEF SharedLength
<1>. HIDE DEF Fits
<1>5. S \in SUBSET Nat /\ S # {} /\ \A n \in S : n <= Len(tasks[1].ids)
  BY <1>2, <1>3
<1>. HIDE DEF S
<1>6. SharedLength(tasks) \in S
  BY <1>2, <1>4, <1>5, MaxIn
<1>7. SharedLength(tasks) \in Nat /\ Fits(SharedLength(tasks))
  BY <1>5, <1>6 DEF S
<1>. QED  BY <1>1, <1>7 DEF Fits

(* Each sequence of the batch holds the tokens of its own task.            *)
LEMMA SharedHolds ==
  ASSUME NEW tasks \in Seq(AllTasks), tasks # <<>>, Len(tasks) <= SeqMax,
         DOMAIN memory = 0..SeqMax - 1
  PROVE  LET held == SharedMemory(tasks, SharedLength(tasks))
         IN  /\ held \in [0..SeqMax - 1 -> Seq(Token)]
             /\ \A t \in DOMAIN tasks : held[t - 1] = tasks[t].ids
<1>. DEFINE n == SharedLength(tasks)
            held == SharedMemory(tasks, n)
<1>1. SeqMax \in Nat \ {0} /\ DOMAIN tasks = 1..Len(tasks) /\ Len(tasks) \in Nat
  BY OfficialAssumption
<1>2. ASSUME NEW t \in DOMAIN tasks
      PROVE  /\ tasks[t].ids \in Seq(Token)
             /\ SubSeq(tasks[1].ids, 1, n) \o SubSeq(tasks[t].ids, n + 1, Len(tasks[t].ids))
                  = tasks[t].ids
  <2>1. /\ n \in Nat /\ n < Len(tasks[t].ids)
        /\ SubSeq(tasks[t].ids, 1, n) = SubSeq(tasks[1].ids, 1, n)
    BY PrefixShared
  <2>. HIDE DEF n
  <2>2. tasks[t].ids \in Seq(Token) /\ Len(tasks[t].ids) \in Nat
    BY TaskTyped
  <2>3. /\ 1 \in 1..Len(tasks[t].ids) + 1 /\ n \in 1 - 1..Len(tasks[t].ids)
        /\ Len(tasks[t].ids) \in n..Len(tasks[t].ids)
    BY <2>1, <2>2
  <2>4. SubSeq(tasks[t].ids, 1, n) \o SubSeq(tasks[t].ids, n + 1, Len(tasks[t].ids))
          = SubSeq(tasks[t].ids, 1, Len(tasks[t].ids))
    BY <2>2, <2>3, ConcatAdjacentSubSeq
  <2>. QED  BY <2>1, <2>2, <2>4, SubSeqFull
<1>. HIDE DEF n
<1>3. \A t \in DOMAIN tasks : t - 1 \in 0..SeqMax - 1 /\ t - 1 + 1 = t
  BY <1>1
<1>4. ASSUME NEW s \in 0..SeqMax - 1
      PROVE  held[s] = IF s + 1 \in DOMAIN tasks THEN tasks[s + 1].ids ELSE <<>>
  BY <1>2 DEF SharedMemory
<1>5. held \in [0..SeqMax - 1 -> Seq(Token)]
  <2>1. ASSUME NEW s \in 0..SeqMax - 1 PROVE held[s] \in Seq(Token)
    <3>. HIDE DEF held
    <3>1. <<>> \in Seq(Token)
      OBVIOUS
    <3>. QED  BY <1>2, <1>4, <3>1
  <2>. QED  BY <2>1 DEF SharedMemory
<1>6. ASSUME NEW t \in DOMAIN tasks PROVE held[t - 1] = tasks[t].ids
  <2>. HIDE DEF held
  <2>. QED  BY <1>3, <1>4
<1>. QED  BY <1>5, <1>6 DEF n

\* What the order and the flagged tokens have for one token of a task, and for a task.
Slots    == [task : Nat, read : Nat]
Places   == [task : Nat, pos : Nat]
SlotsAt(tasks, t, p) ==
  [k \in DOMAIN Positions(tasks[t]) |->
     IF Positions(tasks[t])[k] = p THEN <<[task |-> t, read |-> k]>> ELSE <<>>]
OrderOf(tasks, shared, t) ==
  [i \in 1..Len(tasks[t].ids) - shared |-> FlattenSeq(SlotsAt(tasks, t, shared + i))]
FlaggedOf(tasks, shared, t) ==
  [i \in 1..Len(tasks[t].ids) - shared |->
     IF shared + i \in Reads(tasks[t]) THEN <<[task |-> t, pos |-> shared + i]>> ELSE <<>>]

\* The slot of an output is one that reads the token the output is of.
Meets(tasks, slot, place) ==
  /\ slot.task \in DOMAIN tasks /\ slot.read \in DOMAIN Positions(tasks[slot.task])
  /\ place.task = slot.task /\ place.pos = Positions(tasks[slot.task])[slot.read]

(* A token is flagged for one slot at most, for different tokens are read. *)
LEMMA OneSlot ==
  ASSUME NEW tasks \in Seq(AllTasks), NEW t \in DOMAIN tasks, NEW p
  PROVE  /\ p \notin Reads(tasks[t]) => FlattenSeq(SlotsAt(tasks, t, p)) = <<>>
         /\ \A k \in DOMAIN Positions(tasks[t]) :
              Positions(tasks[t])[k] = p
                => FlattenSeq(SlotsAt(tasks, t, p)) = <<[task |-> t, read |-> k]>>
<1>. DEFINE positions == Positions(tasks[t])
            n == Len(positions)
            a == SlotsAt(tasks, t, p)
<1>1. /\ n \in Nat /\ DOMAIN positions = 1..n
      /\ \A k, l \in DOMAIN positions : positions[k] = positions[l] => k = l
  <2>1. tasks[t] \in AllTasks
    OBVIOUS
  <2>2. /\ positions \in Seq(1..Len(tasks[t].ids))
        /\ \A k, l \in DOMAIN positions : positions[k] = positions[l] => k = l
    BY <2>1, TaskTyped
  <2>. QED  BY <2>2
<1>2. t \in Nat
  OBVIOUS
<1>3. /\ a = [k \in 1..n |-> IF positions[k] = p THEN <<[task |-> t, read |-> k]>> ELSE <<>>]
      /\ Reads(tasks[t]) = {positions[k] : k \in 1..n}
  BY <1>1 DEF SlotsAt, Reads, Range
<1>. HIDE DEF a, positions, n
<1>4. a \in [1..n -> Seq(Slots)]
  <2>1. \A k \in 1..n : <<[task |-> t, read |-> k]>> \in Seq(Slots)
    BY <1>1, <1>2 DEF Slots
  <2>2. <<>> \in Seq(Slots)
    OBVIOUS
  <2>. QED  BY <1>3, <2>1, <2>2
<1>5. ASSUME p \notin Reads(tasks[t]) PROVE FlattenSeq(a) = <<>>
  <2>1. \A k \in 1..n : a[k] = <<>>
    BY <1>3, <1>5
  <2>. QED  BY <1>1, <1>4, <2>1, FlattenNone
<1>6. ASSUME NEW k \in DOMAIN positions, positions[k] = p
      PROVE  FlattenSeq(a) = <<[task |-> t, read |-> k]>>
  <2>1. k \in 1..n /\ a[k] = <<[task |-> t, read |-> k]>>
    BY <1>1, <1>3, <1>6
  <2>2. AllEmptyBut(a, n, k)
    BY <1>1, <1>3, <1>6 DEF AllEmptyBut
  <2>3. k \in 1..n /\ n \in Nat
    BY <1>1, <2>1
  <2>4. FlattenSeq(a) = a[k]
    BY <1>4, <2>2, <2>3, FlattenOne
  <2>. QED  BY <2>1, <2>4
<1>. QED  BY <1>5, <1>6 DEF a, positions

(* A task's slots are ordered as its flagged tokens are.                   *)
LEMMA TaskOrder ==
  ASSUME NEW tasks \in Seq(AllTasks), NEW t \in DOMAIN tasks, NEW shared \in Nat
  PROVE  LET order  == FlattenSeq(OrderOf(tasks, shared, t))
             places == FlattenSeq(FlaggedOf(tasks, shared, t))
         IN  /\ order \in Seq(Slots) /\ places \in Seq(Places) /\ Len(order) = Len(places)
             /\ \A j \in DOMAIN order :
                  order[j].task = t /\ Meets(tasks, order[j], places[j])
             /\ \A k \in DOMAIN Positions(tasks[t]) :
                  shared < Positions(tasks[t])[k]
                    => \E j \in DOMAIN order : order[j] = [task |-> t, read |-> k]
<1>. DEFINE a == OrderOf(tasks, shared, t)
            b == FlaggedOf(tasks, shared, t)
            n == IF Len(tasks[t].ids) - shared < 0 THEN 0 ELSE Len(tasks[t].ids) - shared
            Read(i, k) == k \in DOMAIN Positions(tasks[t]) /\ Positions(tasks[t])[k] = shared + i
<1>1. /\ Len(tasks[t].ids) \in Nat /\ tasks[t] \in AllTasks /\ t \in Nat
      /\ Positions(tasks[t]) \in Seq(1..Len(tasks[t].ids))
  BY TaskTyped
<1>2. n \in Nat /\ 1..Len(tasks[t].ids) - shared = 1..n
  BY <1>1
<1>3. /\ DOMAIN a = 1..n /\ DOMAIN b = 1..n
      /\ a = [i \in 1..n |-> FlattenSeq(SlotsAt(tasks, t, shared + i))]
      /\ b = [i \in 1..n |-> IF shared + i \in Reads(tasks[t])
                              THEN <<[task |-> t, pos |-> shared + i]>> ELSE <<>>]
  BY <1>2 DEF OrderOf, FlaggedOf
<1>. HIDE DEF a, b, n
<1>4. ASSUME NEW i \in 1..n
      PROVE  \/ a[i] = <<>> /\ b[i] = <<>> /\ \A k : ~Read(i, k)
             \/ \E k : /\ Read(i, k)
                       /\ a[i] = <<[task |-> t, read |-> k]>>
                       /\ b[i] = <<[task |-> t, pos |-> shared + i]>>
  <2>1. CASE shared + i \notin Reads(tasks[t])
    <3>1. a[i] = <<>> /\ b[i] = <<>>
      BY <1>3, <2>1, OneSlot
    <3>2. \A k : ~Read(i, k)
      BY <2>1 DEF Reads, Range
    <3>. QED  BY <3>1, <3>2
  <2>2. CASE shared + i \in Reads(tasks[t])
    <3>1. PICK k \in DOMAIN Positions(tasks[t]) : Positions(tasks[t])[k] = shared + i
      BY <2>2 DEF Reads, Range
    <3>2. a[i] = <<[task |-> t, read |-> k]>>
      BY <1>3, <3>1, OneSlot
    <3>. QED  BY <1>3, <2>2, <3>1, <3>2
  <2>. QED  BY <2>1, <2>2
<1>5. \A k \in DOMAIN Positions(tasks[t]) : k \in Nat
  BY <1>1
<1>6. ASSUME NEW i \in 1..n
      PROVE  a[i] \in Seq(Slots) /\ b[i] \in Seq(Places) /\ Len(a[i]) = Len(b[i])
  <2>1. CASE a[i] = <<>> /\ b[i] = <<>>
    BY <2>1
  <2>2. CASE a[i] # <<>> \/ b[i] # <<>>
    <3>1. PICK k : /\ Read(i, k)
                   /\ a[i] = <<[task |-> t, read |-> k]>>
                   /\ b[i] = <<[task |-> t, pos |-> shared + i]>>
      BY <1>4, <2>2
    <3>2. [task |-> t, read |-> k] \in Slots /\ [task |-> t, pos |-> shared + i] \in Places
      BY <1>1, <1>2, <1>5, <3>1, SMTT(60) DEF Slots, Places
    <3>3. Len(a[i]) = 1 /\ Len(b[i]) = 1
      BY <3>1
    <3>. QED  BY <3>1, <3>2, <3>3
  <2>. QED  BY <2>1, <2>2
<1>7. a \in [1..n -> Seq(Slots)] /\ b \in [1..n -> Seq(Places)]
  BY <1>3, <1>6
<1>8. /\ FlattenSeq(a) \in Seq(Slots) /\ FlattenSeq(b) \in Seq(Places)
      /\ Len(FlattenSeq(a)) = Len(FlattenSeq(b))
      /\ InStep(FlattenSeq(a), FlattenSeq(b), a, b, n)
  <2>1. FlattenSeq(a) \in Seq(Slots) /\ FlattenSeq(b) \in Seq(Places)
    BY <1>2, <1>7, FlattenLays, Zenon
  <2>2. AsLong(a, b, n)
    BY <1>6 DEF AsLong
  <2>3. n \in Nat
    BY <1>2
  <2>. QED  BY <1>7, <2>1, <2>2, <2>3, FlattenAligned
<1>9. ASSUME NEW j \in DOMAIN FlattenSeq(a)
      PROVE  FlattenSeq(a)[j].task = t /\ Meets(tasks, FlattenSeq(a)[j], FlattenSeq(b)[j])
  <2>1. PICK i \in 1..n : \E k \in 1..Len(a[i]) :
           FlattenSeq(a)[j] = a[i][k] /\ FlattenSeq(b)[j] = b[i][k]
    BY <1>8 DEF InStep
  <2>2. PICK m \in 1..Len(a[i]) : FlattenSeq(a)[j] = a[i][m] /\ FlattenSeq(b)[j] = b[i][m]
    BY <2>1
  <2>3. a[i] # <<>>
    BY <2>2
  <2>4. PICK k : /\ Read(i, k)
                 /\ a[i] = <<[task |-> t, read |-> k]>>
                 /\ b[i] = <<[task |-> t, pos |-> shared + i]>>
    BY <1>4, <2>3
  <2>5. m = 1
    BY <2>2, <2>4
  <2>6. /\ FlattenSeq(a)[j] = [task |-> t, read |-> k]
        /\ FlattenSeq(b)[j] = [task |-> t, pos |-> shared + i]
    BY <2>2, <2>4, <2>5
  <2>. QED  BY <2>4, <2>6 DEF Meets
<1>10. ASSUME NEW k \in DOMAIN Positions(tasks[t]), shared < Positions(tasks[t])[k]
       PROVE  \E j \in DOMAIN FlattenSeq(a) : FlattenSeq(a)[j] = [task |-> t, read |-> k]
  <2>1. PICK p \in 1..Len(tasks[t].ids) : Positions(tasks[t])[k] = p
    BY <1>1
  <2>2. PICK i \in Int : i = p - shared
    BY <1>1, <2>1
  <2>3. i \in 1..n /\ Positions(tasks[t])[k] = shared + i
    <3>1. shared < p
      BY <1>10, <2>1
    <3>2. i \in 1..Len(tasks[t].ids) - shared /\ p = shared + i
      BY <1>1, <2>1, <2>2, <3>1
    <3>. QED  BY <1>2, <2>1, <3>2
  <2>4. a[i] = <<[task |-> t, read |-> k]>>
    BY <1>3, <2>3, OneSlot
  <2>5. 1 \in 1..Len(a[i]) /\ a[i][1] = [task |-> t, read |-> k]
    BY <2>4
  <2>6. \E j \in DOMAIN FlattenSeq(a) : FlattenSeq(a)[j] = a[i][1]
    <3>1. n \in Nat /\ a \in [1..n -> Seq(Slots)] /\ i \in 1..n /\ 1 \in 1..Len(a[i])
      BY <1>2, <1>7, <2>3, <2>5
    <3>2. Occurs(FlattenSeq(a), a[i][1])
      BY <3>1, FlattenHolds
    <3>. QED  BY <3>2 DEF Occurs
  <2>. QED  BY <2>5, <2>6
<1>. QED  BY <1>8, <1>9, <1>10 DEF a, b

(* The slot of every output reads the token the output is of, and every    *)
(* read behind the prefix has a slot.                                      *)
LEMMA OrderMeetsFlagged ==
  ASSUME NEW tasks \in Seq(AllTasks), NEW shared \in Nat
  PROVE  LET order  == Order(tasks, shared)
             places == Flagged(tasks, shared)
         IN  /\ order \in Seq(Slots) /\ places \in Seq(Places) /\ Len(order) = Len(places)
             /\ \A j \in DOMAIN order : Meets(tasks, order[j], places[j])
             /\ \A t \in DOMAIN tasks : \A k \in DOMAIN Positions(tasks[t]) :
                  shared < Positions(tasks[t])[k] => Occurs(order, [task |-> t, read |-> k])
<1>. DEFINE a == [t \in DOMAIN tasks |-> FlattenSeq(OrderOf(tasks, shared, t))]
            b == [t \in DOMAIN tasks |-> FlattenSeq(FlaggedOf(tasks, shared, t))]
            n == Len(tasks)
<1>1. n \in Nat /\ DOMAIN tasks = 1..n
  OBVIOUS
<1>2. Order(tasks, shared) = FlattenSeq(a)
  BY DEF Order, OrderOf, SlotsAt
<1>3. Flagged(tasks, shared) = FlattenSeq(b)
  BY DEF Flagged, FlaggedOf
<1>4. ASSUME NEW t \in 1..n
      PROVE  /\ a[t] \in Seq(Slots) /\ b[t] \in Seq(Places) /\ Len(a[t]) = Len(b[t])
             /\ \A j \in DOMAIN a[t] : Meets(tasks, a[t][j], b[t][j])
             /\ \A k \in DOMAIN Positions(tasks[t]) :
                  shared < Positions(tasks[t])[k]
                    => \E j \in DOMAIN a[t] : a[t][j] = [task |-> t, read |-> k]
  <2>1. t \in DOMAIN tasks
    BY <1>1
  <2>2. a[t] = FlattenSeq(OrderOf(tasks, shared, t)) /\ b[t] = FlattenSeq(FlaggedOf(tasks, shared, t))
    BY <2>1
  <2>. HIDE DEF a, b
  <2>. QED  BY <2>1, <2>2, TaskOrder
<1>5. a \in [1..n -> Seq(Slots)] /\ b \in [1..n -> Seq(Places)]
  <2>1. \A t \in 1..n : a[t] \in Seq(Slots) /\ b[t] \in Seq(Places)
    BY <1>4
  <2>. QED  BY <1>1, <2>1
<1>. HIDE DEF a, b, n
<1>6. FlattenSeq(a) \in Seq(Slots) /\ FlattenSeq(b) \in Seq(Places)
  BY <1>1, <1>5, FlattenLays
<1>7. Len(FlattenSeq(a)) = Len(FlattenSeq(b)) /\ InStep(FlattenSeq(a), FlattenSeq(b), a, b, n)
  <2>1. AsLong(a, b, n)
    BY <1>4 DEF AsLong
  <2>. QED  BY <1>1, <1>5, <2>1, FlattenAligned
<1>8. ASSUME NEW j \in DOMAIN FlattenSeq(a)
      PROVE  Meets(tasks, FlattenSeq(a)[j], FlattenSeq(b)[j])
  <2>1. PICK t \in 1..n : \E m \in 1..Len(a[t]) :
           FlattenSeq(a)[j] = a[t][m] /\ FlattenSeq(b)[j] = b[t][m]
    BY <1>7 DEF InStep
  <2>2. PICK m \in 1..Len(a[t]) : FlattenSeq(a)[j] = a[t][m] /\ FlattenSeq(b)[j] = b[t][m]
    BY <2>1
  <2>3. m \in DOMAIN a[t]
    BY <1>4
  <2>. QED  BY <1>4, <2>2, <2>3
<1>9. ASSUME NEW t \in DOMAIN tasks, NEW k \in DOMAIN Positions(tasks[t]),
             shared < Positions(tasks[t])[k]
      PROVE  Occurs(FlattenSeq(a), [task |-> t, read |-> k])
  <2>1. t \in 1..n
    BY <1>1
  <2>2. PICK j \in DOMAIN a[t] : a[t][j] = [task |-> t, read |-> k]
    BY <1>4, <1>9, <2>1
  <2>3. j \in 1..Len(a[t])
    BY <1>4, <2>1
  <2>4. Occurs(FlattenSeq(a), a[t][j])
    BY <1>1, <1>5, <2>1, <2>3, FlattenHolds
  <2>. QED  BY <2>2, <2>4
<1>. QED  BY <1>2, <1>3, <1>6, <1>7, <1>8, <1>9

(* Every task's score is copied from the outputs of its own reads.         *)
LEMMA CopiesOwn ==
  ASSUME NEW tasks \in Seq(AllTasks), NEW shared \in Nat, NEW held,
         \A t \in DOMAIN tasks : held[t - 1] = tasks[t].ids,
         \A t \in DOMAIN tasks : \A p \in Reads(tasks[t]) : shared < p
  PROVE  Copied(tasks, Order(tasks, shared), Flagged(tasks, shared), held)
           = [t \in DOMAIN tasks |-> Own(tasks[t])]
<1>. DEFINE order  == Order(tasks, shared)
            places == Flagged(tasks, shared)
            Slot(t, k) == {j \in DOMAIN order : order[j] = [task |-> t, read |-> k]}
<1>1. /\ order \in Seq(Slots) /\ places \in Seq(Places) /\ Len(order) = Len(places)
      /\ \A j \in DOMAIN order : Meets(tasks, order[j], places[j])
      /\ \A t \in DOMAIN tasks : \A k \in DOMAIN Positions(tasks[t]) :
           shared < Positions(tasks[t])[k] => Occurs(order, [task |-> t, read |-> k])
  BY OrderMeetsFlagged
<1>. HIDE DEF order, places
<1>2. ASSUME NEW t \in DOMAIN tasks, NEW k \in DOMAIN Positions(tasks[t])
      PROVE  /\ Slot(t, k) # {}
             /\ SubSeq(held[places[Max(Slot(t, k))].task - 1], 1, places[Max(Slot(t, k))].pos)
                  = SubSeq(tasks[t].ids, 1, Positions(tasks[t])[k])
  <2>1. Positions(tasks[t])[k] \in Reads(tasks[t])
    BY DEF Reads, Range
  <2>2. Occurs(order, [task |-> t, read |-> k])
    BY <1>1, <2>1
  <2>3. Slot(t, k) # {}
    BY <2>2 DEF Occurs
  <2>4. Slot(t, k) \in SUBSET Nat /\ Len(order) \in Nat /\ \A j \in Slot(t, k) : j <= Len(order)
    BY <1>1
  <2>5. Max(Slot(t, k)) \in Slot(t, k)
    <3>. DEFINE S == Slot(t, k)
    <3>1. S \in SUBSET Nat /\ S # {} /\ Len(order) \in Nat /\ \A j \in S : j <= Len(order)
      BY <2>3, <2>4
    <3>. HIDE DEF S
    <3>2. Max(S) \in S
      BY <3>1, MaxIn
    <3>. QED  BY <3>2 DEF S
  <2>6. PICK j \in DOMAIN order : j = Max(Slot(t, k)) /\ order[j] = [task |-> t, read |-> k]
    BY <2>5
  <2>7. places[j].task = t /\ places[j].pos = Positions(tasks[t])[k]
    BY <1>1, <2>6 DEF Meets
  <2>. QED  BY <2>3, <2>6, <2>7
<1>3. Copied(tasks, order, places, held)
        = [t \in DOMAIN tasks |->
             [k \in DOMAIN Positions(tasks[t]) |->
                IF Slot(t, k) = {} THEN <<>>
                ELSE SubSeq(held[places[Max(Slot(t, k))].task - 1], 1, places[Max(Slot(t, k))].pos)]]
  BY DEF Copied
<1>. HIDE DEF Slot
<1>4. \A t \in DOMAIN tasks :
        Own(tasks[t])
          = [k \in DOMAIN Positions(tasks[t]) |-> SubSeq(tasks[t].ids, 1, Positions(tasks[t])[k])]
  BY DEF Own, OutputsOf
<1>5. ASSUME NEW t \in DOMAIN tasks
      PROVE  [k \in DOMAIN Positions(tasks[t]) |->
                IF Slot(t, k) = {} THEN <<>>
                ELSE SubSeq(held[places[Max(Slot(t, k))].task - 1], 1, places[Max(Slot(t, k))].pos)]
               = Own(tasks[t])
  BY <1>2, <1>4
<1>. QED  BY <1>3, <1>5 DEF order, places

-----------------------------------------------------------------------------
(***************************************************************************)
(* The inductive invariant.                                                *)
(***************************************************************************)
Typed ==
  /\ sharing \in BOOLEAN
  /\ call \in Calls \cup {<<>>}
  /\ at \in Nat \ {0}
  /\ phase \in {"idle", "request", "shared", "task", "read"}
  /\ scores \in Seq(Score)
  /\ output \in Seq(Answer)
  /\ error \in {"none", "input", "unsupported", "device"}
  /\ memory \in [0..SeqMax - 1 -> Seq(Token)]

\* Where predict() is.
ControlInv ==
  /\ phase # "idle" => call \in Calls /\ error = "none"
  /\ phase \in {"shared", "task", "read"} => at \in DOMAIN call /\ Request # Malformed
  /\ phase \in {"request", "shared"} => scores = <<>>
  /\ phase = "shared" => Sharable
  /\ phase = "read" => Len(scores) < Len(Tasks)
  /\ at <= Len(call) + 1 /\ Len(output) = at - 1

\* The task decoded last is in the memory.
MemoryInv ==
  phase = "read" => memory[0] = Task.ids

\* The scores so far are those of the tasks so far.
ScoresInv ==
  phase \in {"task", "read"} =>
    /\ Len(scores) <= Len(Tasks)
    /\ \A t \in 1..Len(scores) : scores[t] = Own(Tasks[t])

\* The answers so far are those of the requests so far.
OutputInv ==
  \A i \in 1..Len(output) :
    /\ i \in DOMAIN call
    /\ output[i] = Results(call[i])

\* A call that came back without an error has the answers of every request.
ReturnedInv ==
  phase = "idle" /\ error = "none" => Len(output) = Len(call)

IInv == Typed /\ ControlInv /\ MemoryInv /\ ScoresInv /\ OutputInv /\ ReturnedInv

(* The request being served, its tasks and the next one.                   *)
LEMMA ServedNow ==
  ASSUME Typed, ControlInv, phase \in {"shared", "task", "read"}
  PROVE  /\ call \in Calls /\ at \in DOMAIN call /\ Request = call[at] /\ Request \in Requests
         /\ Len(call) \in Nat /\ DOMAIN call = 1..Len(call)
         /\ Tasks \in Seq(AllTasks) /\ Len(Tasks) \in Nat /\ Len(scores) \in Nat
         /\ Len(scores) < Len(Tasks) => Task \in AllTasks /\ Task = Tasks[Len(scores) + 1]
<1>1. call \in Calls /\ at \in DOMAIN call /\ Request = call[at]
  BY DEF ControlInv, Request
<1>2. Request \in Requests /\ Len(call) \in Nat /\ DOMAIN call = 1..Len(call)
  BY <1>1, CallTyped
<1>3. Tasks \in Seq(AllTasks)
  BY <1>2, RequestTyped DEF Tasks
<1>4. Len(scores) \in Nat /\ Len(Tasks) \in Nat
  BY <1>3 DEF Typed
<1>5. ASSUME Len(scores) < Len(Tasks) PROVE Task \in AllTasks
  <2>1. Len(scores) + 1 \in 1..Len(Tasks)
    BY <1>4, <1>5
  <2>. QED  BY <1>3, <2>1 DEF Task
<1>. QED  BY <1>1, <1>2, <1>3, <1>4, <1>5 DEF Task

(* The scores of the tasks, cut by counting variants, are the answers the  *)
(* request is to get.                                                      *)
LEMMA AnswersCut ==
  ASSUME NEW request \in Requests, NEW s \in Seq(Score),
         Len(s) = Len(FlattenSeq(request)),
         \A t \in 1..Len(s) : s[t] = Own(FlattenSeq(request)[t])
  PROVE  LET answers == [q \in DOMAIN request |->
                           SubSeq(s, FirstTask(request, q),
                                  FirstTask(request, q) + Len(request[q]) - 1)]
         IN  answers = Results(request) /\ answers \in Answer
<1>. DEFINE Cut(q) == SubSeq(s, FirstTask(request, q), FirstTask(request, q) + Len(request[q]) - 1)
            tasks == FlattenSeq(request)
<1>1. /\ request \in Seq(Seq(AllTasks)) /\ DOMAIN request = 1..Len(request)
      /\ Len(request) \in Nat /\ Len(s) \in Nat
  BY RequestTyped
<1>2. ASSUME NEW q \in DOMAIN request
      PROVE  /\ Cut(q) \in Seq(Score)
             /\ Cut(q) = [v \in DOMAIN request[q] |->
                            OutputsOf(request[q][v].ids, Positions(request[q][v]))]
  <2>1. PICK f \in Nat \ {0}, l \in Nat : f = FirstTask(request, q) /\ l = Len(request[q])
    BY FirstTaskCounts
  <2>2. f + l - 1 <= Len(s) /\ \A v \in 1..l : tasks[f + v - 1] = request[q][v]
    BY <2>1, FirstTaskCounts
  <2>. HIDE DEF tasks
  <2>3. \A v \in 1..l : f + v - 1 \in 1..Len(s)
    BY <1>1, <2>1, <2>2
  <2>4. \A m \in f..f + l - 1 : s[m] \in Score
    BY <1>1, <2>1, <2>2
  <2>5. /\ Cut(q) \in Seq(Score)
        /\ Len(Cut(q)) = l
        /\ \A v \in 1..l : Cut(q)[v] = s[f + v - 1]
    <3>1. f \in Int /\ f + l - 1 \in Int
      BY <2>1
    <3>2. /\ SubSeq(s, f, f + l - 1) \in Seq(Score)
          /\ Len(SubSeq(s, f, f + l - 1)) = IF f <= f + l - 1 THEN f + l - 1 - f + 1 ELSE 0
          /\ \A v \in 1..f + l - 1 - f + 1 : SubSeq(s, f, f + l - 1)[v] = s[f + v - 1]
      BY <2>4, <3>1, SubSeqProperties
    <3>3. f + l - 1 - f + 1 = l /\ (f <= f + l - 1 <=> l # 0)
      BY <2>1
    <3>. QED  BY <2>1, <3>2, <3>3
  <2>6. \A v \in 1..l : Cut(q)[v] = Own(request[q][v])
    <3>. SUFFICES ASSUME NEW v \in 1..l PROVE Cut(q)[v] = Own(request[q][v])
      OBVIOUS
    <3>1. f + v - 1 \in 1..Len(s)
      BY <2>3
    <3>2. s[f + v - 1] = Own(tasks[f + v - 1])
      BY <3>1 DEF tasks
    <3>. QED  BY <2>2, <2>5, <3>2
  <2>7. DOMAIN request[q] = 1..l
    BY <1>1, <2>1
  <2>. HIDE DEF Cut
  <2>8. Cut(q) = [v \in 1..l |-> Cut(q)[v]]
    BY <2>1, <2>5
  <2>. QED  BY <2>5, <2>6, <2>7, <2>8 DEF Own
<1>3. [q \in DOMAIN request |-> Cut(q)] = Results(request)
  <2>. HIDE DEF Cut
  <2>. QED  BY <1>2 DEF Results
<1>4. [q \in DOMAIN request |-> Cut(q)] \in Answer
  <2>1. \A q \in 1..Len(request) : Cut(q) \in Seq(Score)
    BY <1>1, <1>2
  <2>. HIDE DEF Cut
  <2>. QED  BY <1>1, <2>1 DEF Answer
<1>. QED  BY <1>3, <1>4

LEMMA ClearedTyped == Cleared \in [0..SeqMax - 1 -> Seq(Token)] /\ 0 \in 0..SeqMax - 1
<1>1. 0 \in 0..SeqMax - 1
  BY OfficialAssumption
<1>. QED  BY <1>1 DEF Cleared

LEMMA InitIInv == Init => IInv
<1>. SUFFICES ASSUME Init PROVE IInv
  OBVIOUS
<1>1. <<>> \in Seq(Score) /\ <<>> \in Seq(Answer) /\ Len(<<>>) = 0
  OBVIOUS
<1>2. Typed
  BY <1>1, ClearedTyped DEF Init, Typed
<1>3. ControlInv /\ MemoryInv /\ ScoresInv /\ ReturnedInv
  BY <1>1 DEF Init, ControlInv, MemoryInv, ScoresInv, ReturnedInv
<1>4. OutputInv
  BY <1>1 DEF Init, OutputInv
<1>. QED  BY <1>2, <1>3, <1>4 DEF IInv

(* What a call that ends with an exception leaves.                         *)
LEMMA ThrowInv ==
  ASSUME IInv, NEW kind \in {"input", "unsupported", "device"}, Throw(kind),
         memory' \in [0..SeqMax - 1 -> Seq(Token)]
  PROVE  IInv'
<1>1. Typed'
  BY DEF IInv, Typed, Throw
<1>2. ControlInv' /\ MemoryInv' /\ ScoresInv' /\ ReturnedInv'
  BY DEF IInv, ControlInv, MemoryInv, ScoresInv, ReturnedInv, Throw, Request
<1>3. OutputInv'
  BY DEF IInv, OutputInv, Throw
<1>. QED  BY <1>1, <1>2, <1>3 DEF IInv

LEMMA PredictInv ==
  ASSUME IInv, NEW c \in Calls, Predict(c)
  PROVE  IInv'
<1>1. Len(c) \in Nat \ {0}
  BY CallTyped
<1>2. Typed'
  BY DEF IInv, Typed, Predict
<1>3. ControlInv'
  BY <1>1 DEF IInv, ControlInv, Predict
<1>4. OutputInv'
  BY DEF OutputInv, Predict
<1>. QED  BY <1>2, <1>3, <1>4 DEF IInv, MemoryInv, ScoresInv, ReturnedInv, Predict

LEMMA ReturnInv ==
  ASSUME IInv, Return
  PROVE  IInv'
<1>1. Typed'
  BY DEF IInv, Typed, Return
<1>2. ControlInv'
  BY DEF IInv, ControlInv, Return, Request
<1>3. OutputInv'
  BY DEF IInv, OutputInv, Return
<1>4. ReturnedInv'
  <2>1. call \in Calls /\ at > Len(call) /\ at <= Len(call) + 1 /\ Len(output) = at - 1
        /\ at \in Nat
    BY DEF IInv, Typed, ControlInv, Return
  <2>2. Len(call) \in Nat
    BY <2>1, CallTyped
  <2>3. Len(output) = Len(call)
    BY <2>1, <2>2
  <2>. QED  BY <2>3 DEF ReturnedInv, Return
<1>. QED  BY <1>1, <1>2, <1>3, <1>4 DEF IInv, MemoryInv, ScoresInv, Return

LEMMA FillTasksInv ==
  ASSUME IInv, FillTasks
  PROVE  IInv'
<1>1. /\ call \in Calls /\ at <= Len(call) /\ at \in Nat \ {0} /\ scores = <<>>
      /\ Request # Malformed
  BY DEF IInv, Typed, ControlInv, FillTasks
<1>2. at \in DOMAIN call
  <2>1. Len(call) \in Nat /\ DOMAIN call = 1..Len(call)
    BY <1>1, CallTyped
  <2>. QED  BY <1>1, <2>1
<1>3. Typed'
  BY DEF IInv, Typed, FillTasks
<1>4. ControlInv'
  <2>1. Request' = Request /\ Tasks' = Tasks /\ Sharable' = Sharable
    BY DEF FillTasks, Request, Tasks, Sharable
  <2>2. CASE Sharable
    BY <1>1, <1>2, <2>1, <2>2 DEF IInv, ControlInv, FillTasks
  <2>3. CASE ~Sharable
    BY <1>1, <1>2, <2>1, <2>3 DEF IInv, ControlInv, FillTasks
  <2>. QED  BY <2>2, <2>3
<1>5. OutputInv'
  BY DEF IInv, OutputInv, FillTasks
<1>6. ScoresInv'
  <2>1. Len(scores) = 0 /\ scores' = scores
    BY <1>1 DEF FillTasks
  <2>2. Len(Tasks') \in Nat
    <3>1. call[at] \in Requests
      BY <1>1, <1>2, CallTyped
    <3>2. Tasks' = FlattenSeq(call[at])
      BY <1>2 DEF Tasks, Request, FillTasks
    <3>3. FlattenSeq(call[at]) \in Seq(AllTasks)
      BY <3>1, RequestTyped
    <3>. QED  BY <3>2, <3>3
  <2>3. Len(scores') <= Len(Tasks') /\ 1..Len(scores') = {}
    BY <2>1, <2>2
  <2>. QED  BY <2>3 DEF ScoresInv
<1>7. MemoryInv' /\ ReturnedInv'
  BY DEF MemoryInv, ReturnedInv, FillTasks
<1>. QED  BY <1>3, <1>4, <1>5, <1>6, <1>7 DEF IInv

LEMMA DecodeTaskInv ==
  ASSUME IInv, DecodeTask
  PROVE  IInv'
<1>1. /\ phase = "task" /\ phase' = "read" /\ Len(scores) < Len(Tasks)
      /\ UNCHANGED <<sharing, call, at, scores, output, error>>
      /\ memory' = [Cleared EXCEPT ![0] = Cleared[0] \o Task.ids]
  BY DEF DecodeTask, StartMemory
<1>2. Task \in AllTasks
  BY <1>1, ServedNow DEF IInv
<1>3. Task.ids \in Seq(Token)
  BY <1>2, TaskTyped
<1>4. memory' \in [0..SeqMax - 1 -> Seq(Token)] /\ memory'[0] = Task.ids
  <2>1. Cleared[0] = <<>>
    BY ClearedTyped DEF Cleared
  <2>2. Cleared[0] \o Task.ids = Task.ids
    BY <1>3, <2>1
  <2>. QED  BY <1>1, <1>3, <2>2, ClearedTyped
<1>5. Task' = Task /\ Tasks' = Tasks /\ Request' = Request
  BY <1>1 DEF Task, Tasks, Request
<1>6. Typed'
  BY <1>1, <1>4 DEF IInv, Typed
<1>7. ControlInv'
  BY <1>1, <1>5 DEF IInv, ControlInv
<1>8. MemoryInv'
  BY <1>1, <1>4, <1>5 DEF MemoryInv
<1>9. ScoresInv'
  BY <1>1, <1>5 DEF IInv, ScoresInv
<1>10. OutputInv' /\ ReturnedInv'
  BY <1>1 DEF IInv, OutputInv, ReturnedInv
<1>. QED  BY <1>6, <1>7, <1>8, <1>9, <1>10 DEF IInv

LEMMA ReadTaskInv ==
  ASSUME IInv, ReadTask
  PROVE  IInv'
<1>1. /\ phase = "read" /\ phase' = "task" /\ Len(scores) < Len(Tasks)
      /\ UNCHANGED <<sharing, call, at, output, error, memory>>
      /\ scores' = Append(scores, Own(Task))
  BY DEF IInv, ControlInv, MemoryInv, ReadTask, Own
<1>2. /\ Task \in AllTasks /\ Task = Tasks[Len(scores) + 1] /\ Len(Tasks) \in Nat
      /\ scores \in Seq(Score) /\ Len(scores) \in Nat
  BY <1>1, ServedNow DEF IInv, Typed
<1>3. Own(Task) \in Score
  BY <1>2, TaskTyped
<1>4. /\ scores' \in Seq(Score) /\ Len(scores') = Len(scores) + 1
      /\ \A t \in 1..Len(scores) : scores'[t] = scores[t]
      /\ scores'[Len(scores) + 1] = Own(Task)
  BY <1>1, <1>2, <1>3, AppendProperties
<1>5. Tasks' = Tasks /\ Request' = Request
  BY <1>1 DEF Tasks, Request
<1>6. Typed'
  BY <1>1, <1>4 DEF IInv, Typed
<1>7. ControlInv'
  BY <1>1, <1>5 DEF IInv, ControlInv
<1>8. ScoresInv'
  <2>1. Len(scores') <= Len(Tasks')
    BY <1>1, <1>2, <1>4, <1>5
  <2>2. ASSUME NEW t \in 1..Len(scores')
        PROVE  scores'[t] = Own(Tasks'[t])
    <3>1. CASE t \in 1..Len(scores)
      BY <1>1, <1>4, <1>5, <3>1 DEF IInv, ScoresInv
    <3>2. CASE t = Len(scores) + 1
      BY <1>1, <1>2, <1>4, <1>5, <3>2
    <3>. QED  BY <1>2, <1>4, <3>1, <3>2
  <2>. QED  BY <2>1, <2>2 DEF ScoresInv, Own, OutputsOf
<1>9. OutputInv' /\ ReturnedInv' /\ MemoryInv'
  BY <1>1 DEF IInv, OutputInv, ReturnedInv, MemoryInv
<1>. QED  BY <1>6, <1>7, <1>8, <1>9 DEF IInv

LEMMA DecodeSharedInv ==
  ASSUME IInv, DecodeShared
  PROVE  IInv'
<1>. DEFINE shared == SharedLength(Tasks)
            held == SharedMemory(Tasks, shared)
<1>1. /\ phase = "shared" /\ phase' = "task"
      /\ UNCHANGED <<sharing, call, at, output, error>>
      /\ memory' = held
      /\ scores' = Copied(Tasks, Order(Tasks, shared), Flagged(Tasks, shared), held)
  BY DEF DecodeShared
<1>2. /\ Tasks \in Seq(AllTasks) /\ Len(Tasks) \in Nat /\ Tasks # <<>> /\ Len(Tasks) <= SeqMax
      /\ sharing /\ DOMAIN Tasks = 1..Len(Tasks)
  BY <1>1, ServedNow DEF IInv, ControlInv, Sharable
<1>3. /\ shared \in Nat
      /\ \A t \in DOMAIN Tasks : \A p \in Reads(Tasks[t]) : shared < p
  BY <1>2, PrefixShared
<1>4. /\ held \in [0..SeqMax - 1 -> Seq(Token)]
      /\ \A t \in DOMAIN Tasks : held[t - 1] = Tasks[t].ids
  <2>1. DOMAIN memory = 0..SeqMax - 1
    BY DEF IInv, Typed
  <2>. QED  BY <1>2, <2>1, SharedHolds
<1>. HIDE DEF shared, held
<1>5. scores' = [t \in 1..Len(Tasks) |-> Own(Tasks[t])]
  BY <1>1, <1>2, <1>3, <1>4, CopiesOwn
<1>6. scores' \in Seq(Score) /\ Len(scores') = Len(Tasks)
  <2>1. \A t \in 1..Len(Tasks) : Own(Tasks[t]) \in Score
    BY <1>2, TaskTyped
  <2>. QED  BY <1>2, <1>5, <2>1
<1>7. Tasks' = Tasks /\ Request' = Request
  BY <1>1 DEF Tasks, Request
<1>8. Typed'
  BY <1>1, <1>4, <1>6 DEF IInv, Typed
<1>9. ControlInv'
  BY <1>1, <1>7 DEF IInv, ControlInv
<1>10. ScoresInv'
  <2>1. Len(scores') <= Len(Tasks')
    BY <1>2, <1>6, <1>7
  <2>2. \A t \in 1..Len(scores') : scores'[t] = Own(Tasks'[t])
    BY <1>5, <1>6, <1>7
  <2>3. sharing'
    BY <1>1, <1>2
  <2>. QED  BY <2>1, <2>2, <2>3 DEF ScoresInv, Own, OutputsOf
<1>11. OutputInv' /\ ReturnedInv' /\ MemoryInv'
  BY <1>1 DEF IInv, OutputInv, ReturnedInv, MemoryInv
<1>. QED  BY <1>8, <1>9, <1>10, <1>11 DEF IInv

LEMMA DeviceFailsInv ==
  ASSUME IInv, DeviceFails
  PROVE  IInv'
<1>1. phase \in {"shared", "task", "read"} /\ Throw("device")
  BY DEF DeviceFails
<1>2. Tasks \in Seq(AllTasks) /\ Len(Tasks) \in Nat \ {0}
  <2>1. Tasks \in Seq(AllTasks) /\ Len(Tasks) \in Nat /\ Len(scores) \in Nat
    BY <1>1, ServedNow DEF IInv
  <2>2. Len(Tasks) # 0
    BY <2>1 DEF DeviceFails, IInv, ControlInv, Sharable
  <2>. QED  BY <2>1, <2>2
<1>3. Tasks[1].ids \in Seq(Token) /\ Len(Tasks[1].ids) \in Nat \ {0}
  <2>1. Tasks[1] \in AllTasks
    BY <1>2
  <2>. QED  BY <2>1, TaskTyped
<1>4. PICK s \in DOMAIN memory, n \in 0..1 :
        memory' = [Cleared EXCEPT ![s] = SubSeq(Tasks[1].ids, 1, n)]
  BY DEF DeviceFails
<1>5. SubSeq(Tasks[1].ids, 1, n) \in Seq(Token)
  <2>1. 1 \in Int /\ n \in Int /\ \A i \in 1..n : Tasks[1].ids[i] \in Token
    BY <1>3
  <2>. QED  BY <1>3, <2>1, SubSeqProperties
<1>6. memory' \in [0..SeqMax - 1 -> Seq(Token)]
  BY <1>4, <1>5, ClearedTyped
<1>. QED  BY <1>1, <1>6, ThrowInv

LEMMA AnswerRequestInv ==
  ASSUME IInv, AnswerRequest
  PROVE  IInv'
<1>. DEFINE answers == [q \in DOMAIN Request |->
                          SubSeq(scores, FirstTask(Request, q),
                                 FirstTask(Request, q) + Len(Request[q]) - 1)]
<1>1. /\ phase = "task" /\ phase' = "request" /\ Len(scores) >= Len(Tasks)
      /\ output' = Append(output, answers) /\ at' = at + 1 /\ scores' = <<>>
      /\ UNCHANGED <<sharing, call, error, memory>>
  BY DEF AnswerRequest, NoScores
<1>2. /\ call \in Calls /\ at \in DOMAIN call /\ Request = call[at] /\ Request \in Requests
      /\ Len(call) \in Nat /\ DOMAIN call = 1..Len(call)
      /\ Tasks \in Seq(AllTasks) /\ Len(Tasks) \in Nat /\ Len(scores) \in Nat
  BY <1>1, ServedNow DEF IInv
<1>3. /\ Len(scores) = Len(Tasks)
      /\ \A t \in 1..Len(scores) : scores[t] = Own(Tasks[t])
  BY <1>1, <1>2 DEF IInv, ScoresInv
<1>4. answers = Results(Request) /\ answers \in Answer
  BY <1>2, <1>3, AnswersCut DEF Tasks, IInv, Typed
<1>. HIDE DEF answers
<1>6. /\ output \in Seq(Answer) /\ Len(output) \in Nat /\ Len(output) = at - 1 /\ at \in Nat \ {0}
  BY DEF IInv, Typed, ControlInv
<1>7. /\ output' \in Seq(Answer) /\ Len(output') = Len(output) + 1
      /\ \A i \in 1..Len(output) : output'[i] = output[i]
      /\ output'[Len(output) + 1] = Results(call[at])
  BY <1>1, <1>2, <1>4, <1>6, AppendProperties
<1>8. Typed'
  BY <1>1, <1>6, <1>7 DEF IInv, Typed
<1>9. ControlInv'
  BY <1>1, <1>2, <1>6, <1>7 DEF IInv, ControlInv
<1>10. OutputInv'
  <2>1. ASSUME NEW i \in 1..Len(output')
        PROVE  i \in DOMAIN call /\ output'[i] = Results(call[i])
    <3>1. CASE i \in 1..Len(output)
      BY <1>7, <3>1 DEF IInv, OutputInv
    <3>2. CASE i = Len(output) + 1
      <4>1. i = at
        BY <1>6, <3>2
      <4>. QED  BY <1>2, <1>7, <3>2, <4>1
    <3>. QED  BY <1>6, <1>7, <3>1, <3>2
  <2>. QED  BY <1>1, <2>1 DEF OutputInv
<1>11. ScoresInv' /\ ReturnedInv' /\ MemoryInv'
  BY <1>1 DEF ScoresInv, ReturnedInv, MemoryInv
<1>. QED  BY <1>8, <1>9, <1>10, <1>11 DEF IInv

LEMMA StepIInv ==
  ASSUME IInv, [Next]_vars
  PROVE  IInv'
<1>1. CASE RejectRequest \/ RejectMedia \/ RejectJoint \/ RejectTask
  <2>1. \E kind \in {"input", "unsupported"} : Throw(kind) /\ UNCHANGED memory
    BY <1>1 DEF RejectRequest, RejectMedia, RejectJoint, RejectTask
  <2>2. memory \in [0..SeqMax - 1 -> Seq(Token)]
    BY DEF IInv, Typed
  <2>. QED  BY <2>1, <2>2, ThrowInv
<1>2. CASE UNCHANGED vars
  <2>1. Typed' /\ ControlInv' /\ MemoryInv'
    BY <1>2 DEF IInv, Typed, ControlInv, MemoryInv, Request, Tasks, Task, Sharable, vars
  <2>2. ScoresInv' /\ OutputInv' /\ ReturnedInv'
    BY <1>2 DEF IInv, ScoresInv, OutputInv, ReturnedInv, Request, Tasks, vars
  <2>. QED  BY <2>1, <2>2 DEF IInv
<1>. QED  BY <1>1, <1>2, PredictInv, ReturnInv, FillTasksInv, DecodeTaskInv, ReadTaskInv,
             DecodeSharedInv, DeviceFailsInv, AnswerRequestInv DEF Next, Serving

-----------------------------------------------------------------------------
(* The invariant holds in every reachable state.                           *)
THEOREM Invariance == Spec => []IInv
BY InitIInv, StepIInv, PTL DEF Spec

(* Every question gets the scores of its own variants, each read from the  *)
(* variant's own prompt, whether they were decoded one by one or in one    *)
(* batch, and whatever was decoded, refused or interrupted before.         *)
THEOREM AnswersAreOwn == Spec => []AnswersOwn
<1>1. IInv => AnswersOwn
  BY DEF IInv, Typed, OutputInv, AnswersOwn
<1>. QED  BY <1>1, Invariance, PTL

-----------------------------------------------------------------------------
(***************************************************************************)
(* What every predict() promises.                                          *)
(***************************************************************************)
LEMMA StepPromised ==
  ASSUME IInv, [Next]_vars
  PROVE  [Promise!Next]_(Promise!predictorVars)
<1>. USE DEF Promise!predictorVars
<1>1. CASE UNCHANGED call /\ phase # "idle" /\ phase' # "idle"
  BY <1>1
<1>2. ASSUME NEW c \in Calls, Predict(c) PROVE Promise!Next
  <2>1. phase = "idle" /\ phase' = "request" /\ call' = c
    BY <1>2 DEF Predict
  <2>2. Promise!Begin(c) /\ ~Promise!Pending
    BY <2>1 DEF Promise!Begin, Promise!Outcome, Promise!Pending, IInv, Typed
  <2>. QED  BY <2>2 DEF Promise!Next
<1>3. CASE Return
  <2>1. /\ phase = "request" /\ at > Len(call) /\ phase' = "idle" /\ error = "none"
        /\ call \in Calls /\ UNCHANGED <<call, output, error>>
    BY <1>3 DEF Return, IInv, ControlInv
  <2>2. Len(call) \in Nat \ {0} /\ DOMAIN call = 1..Len(call)
    BY <2>1, CallTyped
  <2>3. Len(output) = Len(call) /\ output \in Seq(Answer)
    BY <2>1, <2>2 DEF IInv, Typed, ControlInv
  <2>4. output = [i \in DOMAIN call |-> Results(call[i])]
    <3>1. \A i \in 1..Len(output) : output[i] = Results(call[i])
      BY DEF IInv, OutputInv
    <3>2. output = [i \in 1..Len(output) |-> output[i]]
      BY <2>3
    <3>. QED  BY <2>2, <2>3, <3>1, <3>2
  <2>5. call # <<>>
    BY <2>1, OfficialAssumption
  <2>6. Promise!Return
    BY <2>1, <2>4, <2>5 DEF Promise!Return, Promise!Pending, Promise!Outcome
  <2>. QED  BY <2>6 DEF Promise!Next
<1>4. ASSUME phase # "idle", NEW kind \in {"unsupported", "device"}, Throw(kind) PROVE Promise!Next
  BY <1>4 DEF Throw, Promise!Fail, Promise!Pending, Promise!Ended, Promise!Outcome, Promise!Next
<1>5. ASSUME phase # "idle", Throw("input"), NEW i \in DOMAIN call, Refusable(call[i])
      PROVE  Promise!Next
  <2>1. Promise!Refuse
    BY <1>5 DEF Throw, Promise!Refuse, Promise!Pending, Promise!Ended, Promise!Outcome
  <2>. QED  BY <2>1 DEF Promise!Next
<1>6. CASE RejectRequest
  <2>1. phase = "request" /\ Throw("input") /\ at <= Len(call) /\ Request = Malformed
    BY <1>6 DEF RejectRequest
  <2>2. call \in Calls /\ at \in Nat \ {0}
    BY <2>1 DEF IInv, Typed, ControlInv
  <2>3. at \in DOMAIN call
    <3>1. Len(call) \in Nat /\ DOMAIN call = 1..Len(call)
      BY <2>2, CallTyped
    <3>. QED  BY <2>1, <2>2, <3>1
  <2>4. Refusable(call[at])
    BY <2>1, <2>3 DEF Refusable, Request
  <2>. QED  BY <1>5, <2>1, <2>3, <2>4
<1>7. CASE RejectTask
  <2>1. phase = "task" /\ Throw("input") /\ Len(scores) < Len(Tasks) /\ ~WithinBudget(Task)
    BY <1>7 DEF RejectTask
  <2>2. /\ at \in DOMAIN call /\ Request = call[at] /\ Tasks \in Seq(AllTasks)
        /\ Task \in AllTasks /\ Task = Tasks[Len(scores) + 1]
        /\ Len(scores) \in Nat /\ Len(Tasks) \in Nat
    BY <2>1, ServedNow DEF IInv
  <2>3. Task \in Range(FlattenSeq(call[at]))
    <3>1. Len(scores) + 1 \in DOMAIN Tasks
      BY <2>1, <2>2
    <3>. QED  BY <2>2, <3>1 DEF Range, Tasks
  <2>4. Len(Task.ids) > MaxLength
    <3>1. Len(Task.ids) \in Nat /\ MaxLength \in Nat
      BY <2>2, TaskTyped, OfficialAssumption
    <3>. QED  BY <2>1, <3>1 DEF WithinBudget
  <2>5. Refusable(call[at])
    BY <2>3, <2>4 DEF Refusable
  <2>. QED  BY <1>5, <2>1, <2>2, <2>5
<1>8. CASE RejectMedia \/ RejectJoint \/ DeviceFails
  <2>1. phase # "idle" /\ \E kind \in {"unsupported", "device"} : Throw(kind)
    BY <1>8 DEF RejectMedia, RejectJoint, DeviceFails
  <2>. QED  BY <1>4, <2>1
<1>9. CASE FillTasks \/ DecodeTask \/ ReadTask \/ DecodeShared \/ AnswerRequest
  BY <1>1, <1>9 DEF FillTasks, DecodeTask, ReadTask, DecodeShared, AnswerRequest
<1>10. CASE UNCHANGED vars
  BY <1>10 DEF vars
<1>. QED  BY <1>2, <1>3, <1>6, <1>7, <1>8, <1>9, <1>10 DEF Next, Serving

(* The answers of every request of a call, in their order, or an exception *)
(* and none; an input error only for a request that cannot be parsed or    *)
(* has a prompt over the budget.                                           *)
THEOREM ImplementsPromise == Spec => SafeContract
<1>1. Init => Promise!Init
  BY DEF Init, Promise!Init, Promise!Outcome
<1>2. IInv /\ [Next]_vars => [Promise!Next]_(Promise!predictorVars)
  BY StepPromised
<1>. QED  BY <1>1, <1>2, Invariance, PTL DEF Spec, SafeContract, Promise!SafePredictor
==============================================================================
