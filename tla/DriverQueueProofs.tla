------------------------- MODULE DriverQueueProofs -------------------------
(***************************************************************************)
(* Theorems about the driver queue, for every set of items and workers,    *)
(* every lane assignment and every timer.                                  *)
(***************************************************************************)
EXTENDS DriverQueue, TLAPS

\* A live item stays well formed when its owner, timer or attempts change.
LEMMA ItemChange ==
    ASSUME NEW it \in WorkItem, NEW o \in Workers \cup {NoOne},
           NEW h \in Nat, NEW a \in Nat
    PROVE  /\ [it EXCEPT !.owner = o, !.hidden = h, !.attempts = a] \in WorkItem
           /\ [it EXCEPT !.owner = o, !.hidden = h] \in WorkItem
           /\ [it EXCEPT !.hidden = h] \in WorkItem
  BY DEF WorkItem

\* A heartbeat file's age keeps its range as it grows.
LEMMA AgeRange ==
    /\ 0 \in FileAge
    /\ \A a \in FileAge : Older(a) \in FileAge
    /\ FileAge \subseteq Int
  BY TimerAssumption DEF FileAge, NoFile, Ancient, Older

\* Every step of the queue and of its workers keeps the types.
LEMMA TypeStep == TypeOK /\ [Next]_vars => TypeOK'
<1> SUFFICES ASSUME TypeOK, [Next]_vars PROVE TypeOK'
  OBVIOUS
<1> USE DEF TypeOK, sweep
<1>0. \A i \in Ids : Present(i) => items[i] \in WorkItem
  BY DEF Present
<1>1. CASE Tick
  <2>1. \A i \in Ids : items'[i] \in WorkItem \cup {Absent}
    <3> TAKE i \in Ids
    <3>1. CASE Present(i)
      <4>1. items[i] \in WorkItem /\ Sooner(items[i].hidden) \in Nat
        BY <1>0, <3>1 DEF WorkItem, Sooner
      <4> QED BY <1>1, <3>1, <4>1, ItemChange DEF Tick
    <3> QED BY <1>1, <3>1 DEF Tick
  <2>2. items' \in [Ids -> WorkItem \cup {Absent}]
    BY <1>1, <2>1 DEF Tick
  <2>3. hbAge' \in [Workers -> FileAge]
    BY <1>1, AgeRange DEF Tick
  <2> QED BY <1>1, <2>2, <2>3 DEF Tick
<1>2. ASSUME NEW i \in Ids, EnsureEnqueued(i) PROVE TypeOK'
  <2>1. \A s \in Stamps : [owner |-> NoOne, hidden |-> 0,
                            attempts |-> 0, stamp |-> s] \in WorkItem
    BY DEF WorkItem
  <2> QED BY <1>2, <2>1 DEF EnsureEnqueued
<1>3. ASSUME NEW w \in Workers, WorkerStep(w) PROVE TypeOK'
  <2>1. CASE Boot(w)
    BY <2>1, AgeRange DEF Boot
  <2>r. CASE ReadFile(w)
    BY <2>r DEF ReadFile
  <2>f. CASE ReleaseFound(w)
    <3>1. \A i \in Ids : items'[i] \in WorkItem \cup {Absent}
      BY <1>0, <2>f, ItemChange DEF ReleaseFound, Freed
    <3>2. items' \in [Ids -> WorkItem \cup {Absent}]
      BY <2>f, <3>1 DEF ReleaseFound, Freed
    <3> QED BY <2>f, <3>2 DEF ReleaseFound
  <2>2. CASE Poll(w)
    <3>1. CASE Claimable(w) = {} /\ UNCHANGED <<items, drain, tries>>
      BY <2>2, <3>1, AgeRange DEF Poll
    <3>2. CASE \E i \in Claimable(w) :
                 /\ items' = [items EXCEPT ![i].owner = w,
                      ![i].hidden = Visibility, ![i].attempts = @ + 1]
                 /\ drain' = [drain EXCEPT ![w] = i]
                 /\ tries' = [tries EXCEPT ![w] = items[i].attempts + 1]
      <4> PICK i \in Claimable(w) :
                 /\ items' = [items EXCEPT ![i].owner = w,
                      ![i].hidden = Visibility, ![i].attempts = @ + 1]
                 /\ drain' = [drain EXCEPT ![w] = i]
                 /\ tries' = [tries EXCEPT ![w] = items[i].attempts + 1]
        BY <3>2
      <4>1. i \in Ids /\ items[i] \in WorkItem
        BY <1>0, BindingAssumption DEF Claimable
      <4>2. items[i].attempts + 1 \in Nat
        BY <4>1 DEF WorkItem
      <4>3. items' = [items EXCEPT ![i] = [items[i] EXCEPT
                 !.owner = w, !.hidden = Visibility, !.attempts = items[i].attempts + 1]]
        BY <4>1
      <4>4. [items[i] EXCEPT !.owner = w, !.hidden = Visibility,
                             !.attempts = items[i].attempts + 1] \in WorkItem
        BY <4>1, <4>2, ItemChange, TimerAssumption
      <4>5. items' \in [Ids -> WorkItem \cup {Absent}]
        BY <4>1, <4>3, <4>4
      <4> QED BY <4>1, <4>2, <4>5, <2>2, AgeRange DEF Poll
    <3> QED BY <2>2, <3>1, <3>2 DEF Poll
  <2>3. CASE Beat(w)
    <3>1. CASE Owns(w, drain[w])
      <4>1. drain[w] \in Ids /\ items[drain[w]] \in WorkItem
        BY <1>0, <2>3, <3>1 DEF Beat, Owns, Idle
      <4>2. items' = [items EXCEPT ![drain[w]] =
                        [items[drain[w]] EXCEPT !.hidden = Visibility]]
        BY <2>3, <3>1 DEF Beat
      <4> QED BY <2>3, <3>1, <4>1, <4>2, ItemChange, TimerAssumption DEF Beat
    <3>2. CASE ~Owns(w, drain[w])
      BY <2>3, <3>2 DEF Beat, Leave
    <3> QED BY <3>1, <3>2
  <2>4. CASE Finish(w)
    BY <2>4 DEF Finish, Without, Leave, Idle
  <2>5. ASSUME NEW wait \in Nat, NEW refund \in BOOLEAN, ~Idle(w),
               items' = Released(w, drain[w], wait, refund)
        PROVE  items' \in [Ids -> WorkItem \cup {Absent}]
    <3> DEFINE i == drain[w]
               a == Kept(items[i].attempts, refund)
    <3>1. CASE Owns(w, i)
      <4>1. i \in Ids /\ items[i] \in WorkItem
        BY <1>0, <2>5, <3>1 DEF Owns, Idle
      <4>2. a \in Nat
        BY <4>1 DEF WorkItem, Kept
      <4> DEFINE back == [items[i] EXCEPT !.owner = NoOne, !.hidden = wait,
                                          !.attempts = a]
      <4>3. back \in WorkItem
        BY <4>1, <4>2, ItemChange
      <4>4. items' = [items EXCEPT ![i] = back]
        BY <2>5, <3>1, <4>1 DEF Released
      <4> HIDE DEF back
      <4> QED BY <4>1, <4>3, <4>4
    <3>2. CASE ~Owns(w, i)
      BY <2>5, <3>2 DEF Released
    <3> QED BY <3>1, <3>2
  <2>6. CASE StopAtBoundary(w)
    BY <2>6, <2>5 DEF StopAtBoundary, Leave
  <2>7. \A delay \in Nat : Remaining(w, delay) \in Nat
    <3>1. hbAge[w] \in Int
      BY AgeRange
    <3>2. hbAge[w] >= -1
      BY DEF FileAge, NoFile
    <3> QED BY <3>1, <3>2 DEF Remaining
  <2>8. CASE Rest(w)
    BY <2>8, <2>7, <2>5, TimerAssumption DEF Rest, Leave
  <2>9. CASE BackOff(w)
    BY <2>9, <2>7, <2>5, TimerAssumption DEF BackOff, Leave
  <2>10. CASE Abandon(w)
    BY <2>10 DEF Abandon, Leave
  <2>11. CASE Crash(w)
    BY <2>11 DEF Crash, Leave
  <2> QED BY <1>3, <2>1, <2>r, <2>f, <2>2, <2>3, <2>4, <2>6, <2>8, <2>9, <2>10, <2>11 DEF WorkerStep
<1>4. CASE UNCHANGED vars
  BY <1>4 DEF vars
<1> QED BY <1>1, <1>2, <1>3, <1>4 DEF Next

\* The state variables always have their types (queue.py: the WorkItem schema).
THEOREM TypeCorrect == Spec => []TypeOK
<1>1. Init => TypeOK
  BY AgeRange, TimerAssumption DEF Init, TypeOK, FileAge, NoFile
<1> QED BY <1>1, TypeStep, PTL DEF Spec

-----------------------------------------------------------------------------
\* Only the owner's release lowers the counter, and it gives the claim up.
LEMMA CountedStep ==
    TypeOK /\ ClaimsAreCounted /\ [Next]_vars => ClaimsAreCounted'
<1> SUFFICES ASSUME TypeOK, ClaimsAreCounted, [Next]_vars,
                    NEW i \in Ids, items'[i] # Absent, items'[i].owner # NoOne
             PROVE  items'[i].attempts > 0
  BY DEF ClaimsAreCounted, Present
<1>0. items[i] # Absent =>
        /\ items[i] \in WorkItem
        /\ items[i].owner # NoOne => items[i].attempts > 0
  BY DEF ClaimsAreCounted, Present, TypeOK
<1>k. CASE items'[i] = items[i]
  BY <1>0, <1>k
<1>1. CASE Tick
  <2>1. items' = [j \in Ids |-> IF Present(j)
                    THEN [items[j] EXCEPT !.hidden = Sooner(@)] ELSE items[j]]
    BY <1>1 DEF Tick
  <2>2. Present(i) => items'[i] = [items[i] EXCEPT !.hidden = Sooner(@)]
    BY <2>1
  <2> QED BY <1>0, <1>k, <2>1, <2>2 DEF Present, WorkItem
<1>2. ASSUME NEW j \in Ids, EnsureEnqueued(j) PROVE items'[i].attempts > 0
  <2>1. CASE Present(j) \/ i # j
    BY <1>2, <2>1, <1>k DEF EnsureEnqueued, TypeOK
  <2>2. CASE ~Present(j) /\ i = j
    BY <1>2, <2>2 DEF EnsureEnqueued, TypeOK
  <2> QED BY <2>1, <2>2
<1>3. ASSUME NEW w \in Workers, WorkerStep(w) PROVE items'[i].attempts > 0
  <2>1. CASE Boot(w) \/ ReadFile(w)
    BY <2>1, <1>k DEF Boot, ReadFile
  <2>f. CASE ReleaseFound(w)
    BY <1>0, <2>f DEF ReleaseFound, Freed, Present, WorkItem
  <2>2. CASE Poll(w)
    <3>1. CASE items' = items
      BY <3>1, <1>k
    <3>2. CASE \E j \in Claimable(w) : items' = [items EXCEPT
                 ![j].owner = w, ![j].hidden = Visibility, ![j].attempts = @ + 1]
      <4> PICK j \in Claimable(w) : items' = [items EXCEPT
                 ![j].owner = w, ![j].hidden = Visibility, ![j].attempts = @ + 1]
        BY <3>2
      <4>1. j \in Ids /\ items[j] \in WorkItem
        BY BindingAssumption DEF Claimable, Present, TypeOK
      <4>2. CASE i = j
        BY <4>1, <4>2 DEF WorkItem, TypeOK
      <4> QED BY <1>k, <4>1, <4>2 DEF TypeOK
    <3> QED BY <2>2, <3>1, <3>2 DEF Poll
  <2>3. CASE Beat(w)
    <3>1. CASE Owns(w, drain[w]) /\ i = drain[w]
      <4>1. items[i] \in WorkItem /\ items[i].attempts > 0
        BY <3>1, <1>0, NoOneAssumption DEF Owns, Present
      <4> QED BY <2>3, <3>1, <4>1 DEF Beat, WorkItem, TypeOK
    <3>2. CASE ~Owns(w, drain[w]) \/ i # drain[w]
      BY <2>3, <3>2, <1>k DEF Beat, TypeOK
    <3> QED BY <3>1, <3>2
  <2>4. CASE Finish(w)
    BY <2>4, <1>k DEF Finish, Without, TypeOK
  <2>5. ASSUME NEW wait, NEW refund \in BOOLEAN,
               items' = Released(w, drain[w], wait, refund)
        PROVE  items'[i].attempts > 0
    <3>1. CASE Owns(w, drain[w]) /\ i = drain[w]
      <4>1. items[i] \in WorkItem
        BY <3>1, <1>0 DEF Owns, Present
      <4>2. items'[i].owner = NoOne
        BY <2>5, <3>1, <4>1 DEF Released, WorkItem, TypeOK
      <4> QED BY <4>2
    <3>2. CASE ~Owns(w, drain[w]) \/ i # drain[w]
      BY <2>5, <3>2, <1>k DEF Released, TypeOK
    <3> QED BY <3>1, <3>2
  <2>6. CASE StopAtBoundary(w) \/ Rest(w) \/ BackOff(w)
    BY <2>5, <2>6 DEF StopAtBoundary, Rest, BackOff
  <2>7. CASE Abandon(w) \/ Crash(w)
    BY <2>7, <1>k DEF Abandon, Crash
  <2> QED BY <1>3, <2>1, <2>f, <2>2, <2>3, <2>4, <2>6, <2>7 DEF WorkerStep
<1>4. CASE UNCHANGED vars
  BY <1>4, <1>k DEF vars
<1> QED BY <1>1, <1>2, <1>3, <1>4 DEF Next

\* A claimed item always has a counted attempt, whatever was released, refunded,
\* lapsed or reclaimed before (queue.py: claim, release, release_all_claimed_by).
THEOREM CountedClaims == Spec => []ClaimsAreCounted
<1>1. Init => ClaimsAreCounted
  BY DEF Init, ClaimsAreCounted, Present
<1> QED BY <1>1, CountedStep, TypeCorrect, PTL DEF Spec

-----------------------------------------------------------------------------
\* What a step of a worker does to an item it is not draining: nothing, unless it
\* claims it while claimable or frees it as that of a worker it found stale.
LEMMA OthersItems ==
    ASSUME TypeOK, NEW w \in Workers, WorkerStep(w), NEW i \in Ids, items[i] # Absent,
           ~(drain[w] = i /\ Owns(w, i)), items'[i] # items[i]
    PROVE  /\ drain[w] = NoItem
           /\ \/ items[i].hidden = 0
              \/ found[w] # NoOne /\ items[i].owner = found[w]
<1>1. CASE Boot(w) \/ ReadFile(w)
  BY <1>1 DEF Boot, ReadFile
<1>f. CASE ReleaseFound(w)
  BY <1>f DEF ReleaseFound, Freed, Idle, TypeOK, Present
<1>2. CASE Poll(w)
  <2>1. PICK j \in Claimable(w) : items' = [items EXCEPT
          ![j].owner = w, ![j].hidden = Visibility, ![j].attempts = @ + 1]
    BY <1>2 DEF Poll
  <2>2. i = j
    BY <2>1 DEF TypeOK
  <2> QED BY <1>2, <2>2 DEF Poll, Idle, Claimable
<1>3. CASE Beat(w)
  BY <1>3 DEF Beat, TypeOK
<1>4. CASE Finish(w)
  BY <1>4 DEF Finish, Without, TypeOK
<1>5. ASSUME NEW wait, NEW refund \in BOOLEAN,
             items' = Released(w, drain[w], wait, refund)
      PROVE  FALSE
  BY <1>5 DEF Released, TypeOK
<1>6. CASE StopAtBoundary(w) \/ Rest(w) \/ BackOff(w)
  BY <1>5, <1>6 DEF StopAtBoundary, Rest, BackOff
<1>7. CASE Abandon(w) \/ Crash(w)
  BY <1>7 DEF Abandon, Crash
<1> QED BY <1>1, <1>f, <1>2, <1>3, <1>4, <1>6, <1>7 DEF WorkerStep

\* A worker leaves its own item alone or stops draining it.
LEMMA OwnItem ==
    ASSUME TypeOK, NEW w \in Workers, WorkerStep(w), NEW i \in Ids,
           drain[w] = i, Owns(w, i), drain'[w] = i
    PROVE  items'[i] # Absent /\ items'[i].owner = w
<1>1. items[i] \in WorkItem /\ i # NoItem
  BY NoItemAssumption DEF Owns, Present, TypeOK
<1>2. ~Leave(w)
  BY <1>1 DEF Leave, TypeOK
<1>3. ~Boot(w) /\ ~ReadFile(w) /\ ~ReleaseFound(w) /\ ~Poll(w) /\ ~Crash(w)
  BY <1>1, <1>2 DEF Boot, ReadFile, ReleaseFound, Poll, Crash, Idle
<1>4. Beat(w)
  BY <1>2, <1>3 DEF WorkerStep, Finish, StopAtBoundary, Rest, BackOff, Abandon
<1>5. items' = [items EXCEPT ![i].hidden = Visibility]
  BY <1>4 DEF Beat
<1>6. items'[i] = [items[i] EXCEPT !.hidden = Visibility]
  BY <1>5 DEF TypeOK
<1>7. [items[i] EXCEPT !.hidden = Visibility] \in WorkItem
  BY <1>1, ItemChange, TimerAssumption
<1> QED BY <1>1, <1>6, <1>7, AbsentAssumption DEF Owns, WorkItem

\* Ticks and arrivals take no item from its owner.
LEMMA Bystanders ==
    ASSUME TypeOK, NEW i \in Ids, items[i] # Absent,
           Tick \/ \E j \in Ids : EnsureEnqueued(j)
    PROVE  items'[i] # Absent /\ items'[i].owner = items[i].owner
<1>1. items[i] \in WorkItem
  BY DEF TypeOK
<1>2. CASE Tick
  <2>1. Sooner(items[i].hidden) \in Nat
    BY <1>1 DEF WorkItem, Sooner
  <2>2. items'[i] = [items[i] EXCEPT !.hidden = Sooner(items[i].hidden)]
    BY <1>2 DEF Tick, Present
  <2>3. items'[i] \in WorkItem
    BY <1>1, <2>1, <2>2, ItemChange
  <2> QED BY <1>1, <2>2, <2>3, AbsentAssumption DEF WorkItem
<1>3. CASE \E j \in Ids : EnsureEnqueued(j)
  BY <1>3 DEF EnsureEnqueued, Present, TypeOK
<1> QED BY <1>2, <1>3

\* What a booting worker has found stale: a worker whose file is stale still, or was
\* stamped again since the boot began.
Justified(v) ==
    found[v] # NoOne => \/ hbAge[found[v]] > StaleAge
                        \/ hbAge[found[v]] <= hbAge[v]

SweepInv ==
    \A v \in Workers : /\ booted[v] => hbAge[v] # NoFile
                       /\ ~booted[v] => found[v] = NoOne
                       /\ Justified(v)

\* Time keeps the order of two files' ages, and what is stale stays so.
LEMMA OlderKeeps ==
    ASSUME NEW a \in FileAge, NEW b \in FileAge
    PROVE  /\ a <= b => Older(a) <= Older(b)
           /\ a > StaleAge => Older(a) > StaleAge
           /\ a # NoFile => Older(a) # NoFile
  BY TimerAssumption DEF FileAge, NoFile, Ancient, Older

\* Every step keeps what a sweep has found justified.
LEMMA SweepStep == TypeOK /\ SweepInv /\ [Next]_vars => SweepInv'
<1> DEFINE Goal(v) == /\ booted'[v] => hbAge'[v] # NoFile
                      /\ ~booted'[v] => found'[v] = NoOne
                      /\ Justified(v)'
<1> SUFFICES ASSUME TypeOK, SweepInv, [Next]_vars, NEW v \in Workers
             PROVE  Goal(v)
  BY DEF SweepInv
<1>0. /\ booted[v] => hbAge[v] # NoFile
      /\ ~booted[v] => found[v] = NoOne
      /\ Justified(v)
      /\ found[v] \in Workers \cup {NoOne}
  BY DEF SweepInv, TypeOK
<1>t. /\ hbAge \in [Workers -> FileAge] /\ FileAge \subseteq Int
      /\ \A x \in Workers : hbAge[x] # NoFile => hbAge[x] >= 0
      /\ StaleAge \in Nat
  BY AgeRange, TimerAssumption DEF TypeOK, FileAge, NoFile
<1>s. ASSUME NEW x \in Workers, hbAge' = [hbAge EXCEPT ![x] = 0],
             booted[v] \/ x = v, booted'[v],
             found'[v] = found[v], x = v => found[v] = NoOne
      PROVE  Goal(v)
  <2>1. CASE x = v
    BY <1>s, <2>1, <1>t DEF Justified, NoFile
  <2>2. CASE x # v
    <3>1. hbAge'[v] = hbAge[v] /\ hbAge[v] # NoFile /\ hbAge[v] >= 0
      BY <1>s, <2>2, <1>0, <1>t
    <3>2. CASE found[v] = NoOne
      BY <1>s, <3>1, <3>2 DEF Justified
    <3>3. CASE found[v] = x
      <4>1. hbAge'[x] = 0
        BY <1>s, <1>t
      <4> QED BY <1>s, <3>1, <3>3, <4>1 DEF Justified
    <3>4. CASE found[v] # NoOne /\ found[v] # x
      <4>1. hbAge'[found[v]] = hbAge[found[v]]
        BY <1>s, <1>t, <1>0, <3>4
      <4> QED BY <1>s, <1>0, <3>1, <4>1 DEF Justified
    <3> QED BY <3>2, <3>3, <3>4
  <2> QED BY <2>1, <2>2
<1>k. ASSUME hbAge' = hbAge, booted'[v] = booted[v], found'[v] \in {found[v], NoOne}
      PROVE  Goal(v)
  BY <1>k, <1>0 DEF Justified
<1>1. CASE Tick
  <2>1. /\ hbAge' = [w \in Workers |-> Older(hbAge[w])]
        /\ booted' = booted /\ found' = found
    BY <1>1 DEF Tick, sweep
  <2>2. hbAge'[v] = Older(hbAge[v])
    BY <2>1
  <2>3. booted[v] => hbAge'[v] # NoFile
    BY <2>2, <1>0, <1>t, OlderKeeps
  <2>4. ASSUME found[v] # NoOne
        PROVE  hbAge'[found[v]] > StaleAge \/ hbAge'[found[v]] <= hbAge'[v]
    <3>1. hbAge'[found[v]] = Older(hbAge[found[v]])
      BY <2>1, <2>4, <1>0
    <3>2. hbAge[found[v]] \in FileAge /\ hbAge[v] \in FileAge
      BY <2>4, <1>0, <1>t
    <3> QED BY <3>1, <3>2, <2>2, <2>4, <1>0, OlderKeeps DEF Justified
  <2> QED BY <2>1, <2>3, <2>4, <1>0 DEF Justified
<1>2. ASSUME NEW i \in Ids, EnsureEnqueued(i) PROVE Goal(v)
  BY <1>2, <1>k DEF EnsureEnqueued, sweep
<1>3. ASSUME NEW w \in Workers, WorkerStep(w) PROVE Goal(v)
  <2>1. CASE Boot(w)
    <3>1. /\ hbAge' = [hbAge EXCEPT ![w] = 0] /\ found'[v] = found[v]
          /\ booted' = [booted EXCEPT ![w] = TRUE] /\ ~booted[w]
      BY <2>1 DEF Boot
    <3>2. w = v => found[v] = NoOne
      BY <3>1, <1>0
    <3>3. CASE booted'[v]
      <4>1. booted[v] \/ w = v
        BY <3>1, <3>3 DEF TypeOK
      <4> HIDE DEF Goal
      <4> QED BY <1>s, <3>1, <3>2, <3>3, <4>1
    <3>4. CASE ~booted'[v]
      <4>1. w # v /\ ~booted[v]
        BY <3>1, <3>4 DEF TypeOK
      <4> QED BY <3>1, <3>4, <4>1, <1>0 DEF Justified
    <3> QED BY <3>3, <3>4
  <2>2. CASE ReadFile(w)
    <3>1. PICK x \in unread[w] :
                 found' = [found EXCEPT ![w] = IF Stale(w, x) THEN x ELSE NoOne]
      BY <2>2 DEF ReadFile
    <3>2. x \in Workers /\ booted[w] /\ hbAge' = hbAge /\ booted' = booted
      BY <2>2, <3>1 DEF ReadFile, TypeOK
    <3>3. CASE w = v /\ Stale(w, x)
      <4>1. found'[v] = x
        BY <3>1, <3>3 DEF TypeOK
      <4>2. hbAge[x] > StaleAge
        <5>1. hbAge[x] \in Int /\ hbAge[v] \in Int
          BY <1>t, <3>2
        <5>2. hbAge[v] >= 0
          BY <1>0, <1>t, <3>2, <3>3
        <5>3. hbAge[x] - hbAge[v] > StaleAge
          BY <3>3 DEF Stale
        <5> QED BY <5>1, <5>2, <5>3, <1>t
      <4> QED BY <3>2, <3>3, <4>1, <4>2, <1>0 DEF Justified
    <3>4. CASE w # v \/ ~Stale(w, x)
      <4>1. found'[v] \in {found[v], NoOne}
        BY <3>1, <3>4 DEF TypeOK
      <4> HIDE DEF Goal
      <4> QED BY <1>k, <3>2, <4>1
    <3> QED BY <3>3, <3>4
  <2>3. CASE ReleaseFound(w)
    <3>1. found'[v] \in {found[v], NoOne}
      BY <2>3 DEF ReleaseFound, TypeOK
    <3> HIDE DEF Goal
    <3> QED BY <2>3, <3>1, <1>k DEF ReleaseFound
  <2>4. CASE Poll(w)
    <3>1. /\ hbAge' = [hbAge EXCEPT ![w] = 0] /\ found' = found /\ booted' = booted
          /\ booted[w] /\ found[w] = NoOne
      BY <2>4 DEF Poll, Reclaimed, sweep
    <3>2. CASE booted[v]
      <4> HIDE DEF Goal
      <4> QED BY <1>s, <3>1, <3>2
    <3>3. CASE ~booted[v]
      BY <1>0, <3>1, <3>3 DEF Justified
    <3> QED BY <3>2, <3>3
  <2>5. CASE Crash(w)
    <3>1. CASE w = v
      <4>1. found'[v] = NoOne /\ ~booted'[v]
        BY <2>5, <3>1 DEF Crash, TypeOK
      <4> QED BY <4>1 DEF Justified
    <3>2. CASE w # v
      <4>1. found'[v] = found[v] /\ booted'[v] = booted[v] /\ hbAge' = hbAge
        BY <2>5, <3>2 DEF Crash, TypeOK
      <4> HIDE DEF Goal
      <4> QED BY <4>1, <1>k
    <3> QED BY <3>1, <3>2
  <2>6. CASE Beat(w) \/ Finish(w) \/ StopAtBoundary(w) \/ Rest(w) \/ BackOff(w) \/ Abandon(w)
    <3>1. hbAge' = hbAge /\ booted' = booted /\ found' = found
      BY <2>6 DEF Beat, Finish, StopAtBoundary, Rest, BackOff, Abandon, sweep
    <3> HIDE DEF Goal
    <3> QED BY <3>1, <1>k
  <2> QED BY <1>3, <2>1, <2>2, <2>3, <2>4, <2>5, <2>6 DEF WorkerStep
<1>4. CASE UNCHANGED vars
  BY <1>4, <1>k DEF vars, sweep
<1> HIDE DEF Goal
<1> QED BY <1>1, <1>2, <1>3, <1>4 DEF Next

\* A live worker loses its item only by its own act, after its lease lapsed, or to
\* the boot of a worker that read its heartbeat file as stale, when that file is
\* stale still or was stamped since that boot began (worker.py _reclaim_stale).
THEOREM Takeover == Spec => TakeoverJustified
<1> DEFINE A == \A w \in Workers, i \in Ids :
                  /\ drain[w] = i /\ Owns(w, i)
                  /\ (items'[i] = Absent \/ items'[i].owner # w)
                  => \/ drain'[w] # i
                     \/ items[i].hidden = 0
                     \/ hbAge[w] > StaleAge
                     \/ \E v \in Workers : found[v] = w /\ hbAge[w] <= hbAge[v]
<1>1. TypeOK /\ SweepInv /\ Next => A
  <2> SUFFICES ASSUME TypeOK, SweepInv, Next, NEW w \in Workers, NEW i \in Ids,
                      drain[w] = i, Owns(w, i), drain'[w] = i,
                      items'[i] = Absent \/ items'[i].owner # w,
                      items[i].hidden # 0
               PROVE  \/ hbAge[w] > StaleAge
                      \/ \E v \in Workers : found[v] = w /\ hbAge[w] <= hbAge[v]
    OBVIOUS
  <2>1. items[i] # Absent /\ items[i].owner = w
    BY DEF Owns, Present
  <2>2. PICK v \in Workers : WorkerStep(v)
    BY <2>1, Bystanders DEF Next
  <2>3. v # w
    BY <2>2, OwnItem
  <2>4. ~(drain[v] = i /\ Owns(v, i))
    BY <2>1, <2>3 DEF Owns
  <2>5. items'[i] # items[i]
    BY <2>1
  <2>6. found[v] # NoOne /\ found[v] = w
    BY <2>1, <2>2, <2>4, <2>5, OthersItems
  <2>7. hbAge[w] > StaleAge \/ hbAge[w] <= hbAge[v]
    BY <2>6 DEF SweepInv, Justified
  <2> QED BY <2>6, <2>7
<1>2. TypeOK /\ SweepInv /\ [Next]_vars => [A]_vars
  BY <1>1
<1>3. Init => SweepInv
  BY DEF Init, SweepInv, Justified
<1> QED BY <1>2, <1>3, SweepStep, TypeCorrect, PTL DEF Spec, TakeoverJustified

\* A worker whose claim passed to another leaves the item as it is (every operation
\* of queue.py checks claimed_by under the lock).
THEOREM StaleHolder == Spec => StaleHolderHarmless
<1> DEFINE A == \A w \in Workers, i \in Ids :
                  drain[w] = i /\ drain'[w] # i /\ ~Owns(w, i) => items'[i] = items[i]
<1>1. TypeOK /\ Next => A
  <2> SUFFICES ASSUME TypeOK, Next, NEW w \in Workers, NEW i \in Ids,
                      drain[w] = i, drain'[w] # i, ~Owns(w, i)
               PROVE  items'[i] = items[i]
    OBVIOUS
  <2>1. i # NoItem
    BY NoItemAssumption
  <2>2. PICK v \in Workers : WorkerStep(v)
    BY DEF Next, Tick, EnsureEnqueued
  <2>3. v = w
    BY <2>2 DEF WorkerStep, Boot, ReadFile, ReleaseFound, Poll, Beat, Finish, StopAtBoundary, Rest, BackOff,
                Abandon, Crash, Leave, TypeOK
  <2>4. ~Boot(w) /\ ~ReadFile(w) /\ ~ReleaseFound(w) /\ ~Poll(w)
    BY <2>1 DEF Boot, ReadFile, ReleaseFound, Poll, Idle
  <2> QED BY <2>2, <2>3, <2>4 DEF WorkerStep, Beat, Finish, StopAtBoundary, Rest,
             BackOff, Abandon, Crash, Without, Released
<1>2. TypeOK /\ [Next]_vars => [A]_vars
  BY <1>1
<1> QED BY <1>2, TypeCorrect, PTL DEF Spec, StaleHolderHarmless

-----------------------------------------------------------------------------
\* The view of a live item is live, with the same owner and attempts.
LEMMA SeenItem ==
    ASSUME NEW it \in WorkItem
    PROVE  /\ it # Absent /\ Seen(it) # Absent
           /\ Seen(it) = [owner |-> it.owner, visible |-> it.hidden = 0,
                          attempts |-> it.attempts]
<1>1. it # Absent
  BY AbsentAssumption
<1>2. [owner |-> it.owner, visible |-> it.hidden = 0, attempts |-> it.attempts]
        \in Visible
  BY DEF WorkItem, Visible
<1> QED BY <1>1, <1>2, AbsentAssumption DEF Seen

\* Both queues agree on which items are live, who owns them, and which are due.
LEMMA SameItems ==
    ASSUME TypeOK, NEW i \in Ids
    PROVE  /\ Lease!Present(i) <=> Present(i)
           /\ \A w \in Workers : Lease!Owns(w, i) <=> Owns(w, i)
           /\ Present(i) =>
                /\ items[i] \in WorkItem
                /\ LeaseView[i] = [owner |-> items[i].owner,
                                   visible |-> items[i].hidden = 0,
                                   attempts |-> items[i].attempts]
           /\ ~Present(i) => LeaseView[i] = Absent
<1>1. LeaseView[i] = Seen(items[i])
  BY DEF LeaseView
<1>2. CASE Present(i)
  <2>1. items[i] \in WorkItem
    BY <1>2 DEF Present, TypeOK
  <2> QED BY <1>1, <1>2, <2>1, SeenItem DEF Lease!Present, Lease!Owns, Owns
<1>3. CASE ~Present(i)
  BY <1>1, <1>3 DEF Present, Seen, Lease!Present, Lease!Owns, Owns
<1> QED BY <1>2, <1>3

\* A release of the file queue is a release of the abstract one.
LEMMA ReleaseMaps ==
    ASSUME TypeOK, TypeOK', NEW w \in Workers, NEW i \in Ids, NEW wait \in Nat,
           NEW refund \in BOOLEAN, items' = Released(w, i, wait, refund)
    PROVE  Lease!Release(w, i, refund, wait = 0)
<1>1. CASE Owns(w, i)
  <2>1. items[i] \in WorkItem /\ Lease!Owns(w, i)
    BY <1>1, SameItems DEF Owns
  <2> DEFINE a == Kept(items[i].attempts, refund)
  <2>2. items' = [items EXCEPT ![i].owner = NoOne, ![i].hidden = wait,
                               ![i].attempts = a]
    BY <1>1 DEF Released
  <2>3. a \in Nat
    BY <2>1 DEF Kept, WorkItem
  <2>4. a = Lease!Kept(items[i].attempts, refund)
    BY DEF Kept, Lease!Kept
  <2> HIDE DEF a
  <2>5. /\ items'[i] = [items[i] EXCEPT !.owner = NoOne, !.hidden = wait, !.attempts = a]
        /\ \A j \in Ids \ {i} : items'[j] = items[j]
    BY <2>2 DEF TypeOK
  <2>6a. items'[i] \in WorkItem
    <3>1. NoOne \in Workers \cup {NoOne}
      OBVIOUS
    <3>2. [items[i] EXCEPT !.owner = NoOne, !.hidden = wait, !.attempts = a] \in WorkItem
      BY <2>1, <2>3, <3>1, ItemChange
    <3> QED BY <2>5, <3>2
  <2>6b. items'[i].owner = NoOne /\ items'[i].hidden = wait /\ items'[i].attempts = a
    BY <2>1, <2>5 DEF WorkItem
  <2>7. Seen(items'[i]) = [owner |-> NoOne, visible |-> wait = 0, attempts |-> a]
    BY <2>6a, <2>6b, SeenItem
  <2>8. LeaseView' = [LeaseView EXCEPT ![i] =
                        [owner |-> NoOne, visible |-> wait = 0, attempts |-> a]]
    BY <2>5, <2>7 DEF LeaseView
  <2>9. LeaseView[i].attempts = items[i].attempts
    <3>1. LeaseView[i] = [owner |-> items[i].owner, visible |-> items[i].hidden = 0,
                          attempts |-> items[i].attempts]
      BY <1>1, SameItems DEF Owns
    <3> QED BY <3>1
  <2> QED BY <2>1, <2>4, <2>8, <2>9 DEF Lease!Release, Lease!Entry, LeaseView
<1>2. CASE ~Owns(w, i)
  <2>1. ~Lease!Owns(w, i) /\ items' = items
    BY <1>2, SameItems DEF Released
  <2> QED BY <2>1 DEF Lease!Release, LeaseView
<1> QED BY <1>1, <1>2

\* Every step of the file queue is a step of the abstract queue or leaves it alone.
LEMMA LeaseStep ==
    TypeOK /\ TypeOK' /\ [Next]_vars => [Lease!LQNext]_LeaseView
<1> SUFFICES ASSUME TypeOK, TypeOK', [Next]_vars
             PROVE  Lease!LQNext \/ LeaseView' = LeaseView
  OBVIOUS
<1>k. CASE items' = items
  BY <1>k DEF LeaseView
<1>1. CASE Tick
  <2> DEFINE S == {i \in Ids : Present(i) /\ items'[i].hidden = 0}
  <2>1. ASSUME NEW i \in Ids
        PROVE  LeaseView'[i] = IF i \in S /\ Lease!Present(i)
                               THEN Lease!Entry(LeaseView[i].owner, TRUE, LeaseView[i].attempts)
                               ELSE LeaseView[i]
    <3>1. CASE Present(i)
      <4> DEFINE h == Sooner(items[i].hidden)
      <4>1. items[i] \in WorkItem /\ Lease!Present(i)
        BY <3>1, SameItems
      <4>2. h \in Nat /\ (items[i].hidden = 0 => h = 0)
        BY <4>1 DEF WorkItem, Sooner
      <4>3. items'[i] = [items[i] EXCEPT !.hidden = h]
        BY <1>1, <3>1 DEF Tick
      <4>4. items'[i] \in WorkItem
        <5>1. [items[i] EXCEPT !.hidden = h] \in WorkItem
          BY <4>1, <4>2, ItemChange
        <5> QED BY <4>3, <5>1
      <4>5. items'[i].owner = items[i].owner /\ items'[i].hidden = h
            /\ items'[i].attempts = items[i].attempts
        BY <4>1, <4>3 DEF WorkItem
      <4>6. LeaseView'[i] = [owner |-> items[i].owner, visible |-> h = 0,
                             attempts |-> items[i].attempts]
        <5>1. LeaseView'[i] = Seen(items'[i])
          BY DEF LeaseView
        <5>2. Seen(items'[i]) = [owner |-> items'[i].owner, visible |-> items'[i].hidden = 0,
                                 attempts |-> items'[i].attempts]
          BY <4>4, SeenItem
        <5> QED BY <4>5, <5>1, <5>2
      <4>7. LeaseView[i] = [owner |-> items[i].owner, visible |-> items[i].hidden = 0,
                            attempts |-> items[i].attempts]
        BY <3>1, SameItems
      <4> HIDE DEF h
      <4>8. LeaseView[i].owner = items[i].owner
            /\ LeaseView[i].attempts = items[i].attempts
        BY <4>7
      <4>9. CASE h = 0
        BY <3>1, <4>1, <4>5, <4>6, <4>8, <4>9 DEF Lease!Entry
      <4>10. CASE h # 0
        BY <4>2, <4>5, <4>6, <4>7, <4>10
      <4> QED BY <4>9, <4>10
    <3>2. CASE ~Present(i)
      BY <1>1, <3>2, SameItems DEF Tick, LeaseView
    <3> QED BY <3>1, <3>2
  <2>2. LeaseView' = [i \in Ids |-> IF i \in S /\ Lease!Present(i)
                                    THEN Lease!Entry(LeaseView[i].owner, TRUE, LeaseView[i].attempts)
                                    ELSE LeaseView[i]]
    <3> DEFINE V == [i \in Ids |-> IF i \in S /\ Lease!Present(i)
                                    THEN Lease!Entry(LeaseView[i].owner, TRUE, LeaseView[i].attempts)
                                    ELSE LeaseView[i]]
    <3>1. LeaseView' = [i \in Ids |-> LeaseView'[i]]
      BY DEF LeaseView
    <3>2. \A i \in Ids : LeaseView'[i] = V[i]
      BY <2>1
    <3> QED BY <3>1, <3>2
  <2> HIDE DEF S
  <2>3. Lease!Surface(S)
    BY <2>2 DEF Lease!Surface
  <2>4. S \in SUBSET Ids
    BY DEF S
  <2> QED BY <2>3, <2>4 DEF Lease!LQNext
<1>2. ASSUME NEW i \in Ids, EnsureEnqueued(i) PROVE Lease!LQNext \/ LeaseView' = LeaseView
  <2>1. CASE Present(i)
    BY <1>2, <2>1, <1>k DEF EnsureEnqueued
  <2>2. CASE ~Present(i)
    <3> PICK s \in Stamps : items' = [items EXCEPT ![i] =
           [owner |-> NoOne, hidden |-> 0, attempts |-> 0, stamp |-> s]]
      BY <1>2, <2>2 DEF EnsureEnqueued
    <3> DEFINE new == [owner |-> NoOne, hidden |-> 0, attempts |-> 0, stamp |-> s]
    <3>1. new \in WorkItem
      BY DEF WorkItem
    <3>2. Seen(new) = [owner |-> NoOne, visible |-> TRUE, attempts |-> 0]
      BY <3>1, SeenItem
    <3>3. LeaseView' = [LeaseView EXCEPT ![i] =
                          [owner |-> NoOne, visible |-> TRUE, attempts |-> 0]]
      BY <3>2 DEF LeaseView, TypeOK
    <3>4. Lease!EnsureEnqueued(i)
      BY <2>2, <3>3, SameItems DEF Lease!EnsureEnqueued, Lease!Entry
    <3> QED BY <3>4 DEF Lease!LQNext
  <2> QED BY <2>1, <2>2
<1>3. ASSUME NEW w \in Workers, WorkerStep(w) PROVE Lease!LQNext \/ LeaseView' = LeaseView
  <2>b. CASE Boot(w) \/ ReadFile(w)
    BY <2>b, <1>k DEF Boot, ReadFile
  <2>1. CASE ReleaseFound(w)
    <3> DEFINE stale == {found[w]}
    <3>1. ASSUME NEW i \in Ids
          PROVE  LeaseView'[i] = IF Lease!Present(i) /\ LeaseView[i].owner \in stale
                                 THEN Lease!Entry(NoOne, TRUE, LeaseView[i].attempts)
                                 ELSE LeaseView[i]
      <4>1. LeaseView'[i] = Seen(items'[i])
        BY DEF LeaseView
      <4>2. CASE ~Present(i)
        BY <2>1, <4>2, SameItems DEF ReleaseFound, Freed, LeaseView
      <4>3. CASE Present(i)
        <5>1. /\ Lease!Present(i) /\ items[i] \in WorkItem
              /\ LeaseView[i] = [owner |-> items[i].owner, visible |-> items[i].hidden = 0,
                                 attempts |-> items[i].attempts]
          BY <4>3, SameItems
        <5>2. CASE items[i].owner \in stale
          <6>1. items'[i] = [items[i] EXCEPT !.owner = NoOne, !.hidden = 0]
            BY <2>1, <4>3, <5>2 DEF ReleaseFound, Freed
          <6>2. [items[i] EXCEPT !.owner = NoOne, !.hidden = 0] \in WorkItem
            BY <5>1, ItemChange
          <6>3. items'[i].owner = NoOne /\ items'[i].hidden = 0
                /\ items'[i].attempts = items[i].attempts
            BY <5>1, <6>1 DEF WorkItem
          <6>4. Seen(items'[i]) = [owner |-> NoOne, visible |-> TRUE,
                                   attempts |-> items[i].attempts]
            BY <6>1, <6>2, <6>3, SeenItem
          <6>5. LeaseView[i].owner = items[i].owner
                /\ LeaseView[i].attempts = items[i].attempts
            BY <5>1
          <6> QED BY <4>1, <5>1, <5>2, <6>4, <6>5 DEF Lease!Entry
        <5>3. CASE items[i].owner \notin stale
          <6>1. items'[i] = items[i]
            BY <2>1, <5>3 DEF ReleaseFound, Freed
          <6>2. LeaseView[i].owner = items[i].owner
            BY <5>1
          <6> QED BY <4>1, <5>3, <6>1, <6>2 DEF LeaseView
        <5> QED BY <5>2, <5>3
      <4> QED BY <4>2, <4>3
    <3>2. LeaseView' = [i \in Ids |-> IF Lease!Present(i) /\ LeaseView[i].owner \in stale
                              THEN Lease!Entry(NoOne, TRUE, LeaseView[i].attempts)
                              ELSE LeaseView[i]]
      <4> DEFINE V == [i \in Ids |-> IF Lease!Present(i) /\ LeaseView[i].owner \in stale
                              THEN Lease!Entry(NoOne, TRUE, LeaseView[i].attempts)
                              ELSE LeaseView[i]]
      <4>1. LeaseView' = [i \in Ids |-> LeaseView'[i]]
        BY DEF LeaseView
      <4>2. \A i \in Ids : LeaseView'[i] = V[i]
        BY <3>1
      <4> QED BY <4>1, <4>2
    <3>3. Lease!Reclaim(stale)
      BY <3>2 DEF Lease!Reclaim
    <3>4. stale \in SUBSET Workers
      BY <2>1 DEF ReleaseFound, TypeOK
    <3> QED BY <3>3, <3>4 DEF Lease!LQNext
  <2>2. CASE Poll(w)
    <3>1. CASE items' = items
      BY <3>1, <1>k
    <3>2. CASE \E i \in Claimable(w) : items' = [items EXCEPT
                 ![i].owner = w, ![i].hidden = Visibility, ![i].attempts = @ + 1]
      <4> PICK i \in Claimable(w) : items' = [items EXCEPT
                 ![i].owner = w, ![i].hidden = Visibility, ![i].attempts = @ + 1]
        BY <3>2
      <4>1. i \in Ids /\ Present(i) /\ items[i].hidden = 0 /\ items[i] \in WorkItem
        BY BindingAssumption, SameItems DEF Claimable
      <4> DEFINE new == [items[i] EXCEPT !.owner = w, !.hidden = Visibility,
                                         !.attempts = items[i].attempts + 1]
      <4>2. items' = [items EXCEPT ![i] = new]
        BY <4>1
      <4>3. items[i].attempts + 1 \in Nat
        BY <4>1 DEF WorkItem
      <4>4. new \in WorkItem
        BY <4>1, <4>3, ItemChange, TimerAssumption
      <4>5. new.owner = w /\ new.hidden = Visibility /\ new.attempts = items[i].attempts + 1
        BY <4>1 DEF WorkItem
      <4> HIDE DEF new
      <4>6. Seen(new) = [owner |-> w, visible |-> FALSE, attempts |-> items[i].attempts + 1]
        BY <4>4, <4>5, SeenItem, TimerAssumption
      <4>7. LeaseView' = [LeaseView EXCEPT ![i] =
                [owner |-> w, visible |-> FALSE, attempts |-> items[i].attempts + 1]]
        BY <4>1, <4>2, <4>6 DEF LeaseView, TypeOK
      <4>8. LeaseView[i] = [owner |-> items[i].owner, visible |-> items[i].hidden = 0,
                            attempts |-> items[i].attempts] /\ Lease!Present(i)
        BY <4>1, SameItems
      <4>9. LeaseView[i].visible /\ LeaseView[i].attempts = items[i].attempts
        <5>1. LeaseView[i].visible = (items[i].hidden = 0)
          BY <4>8
        <5>2. LeaseView[i].attempts = items[i].attempts
          BY <4>8
        <5> QED BY <4>1, <5>1, <5>2
      <4>10. Lease!Claim(w, i)
        BY <4>7, <4>8, <4>9 DEF Lease!Claim, Lease!Entry
      <4> QED BY <4>1, <4>10 DEF Lease!LQNext
    <3> QED BY <2>2, <3>1, <3>2 DEF Poll
  <2>3. CASE Beat(w)
    <3>1. CASE ~Owns(w, drain[w])
      BY <2>3, <3>1, <1>k DEF Beat
    <3>2. CASE Owns(w, drain[w])
      <4> DEFINE i == drain[w]
                 new == [items[i] EXCEPT !.hidden = Visibility]
      <4>1. i \in Ids
        BY <2>3 DEF Beat, Idle, TypeOK
      <4>2. items[i] \in WorkItem /\ Lease!Owns(w, i)
        BY <3>2, <4>1, SameItems DEF Owns
      <4>3. items' = [items EXCEPT ![i] = new]
        BY <2>3, <3>2, <4>1 DEF Beat
      <4>4. new \in WorkItem
        BY <4>2, ItemChange, TimerAssumption
      <4>5. new.owner = items[i].owner /\ new.hidden = Visibility
            /\ new.attempts = items[i].attempts
        BY <4>2 DEF WorkItem
      <4>6. LeaseView[i] = [owner |-> items[i].owner, visible |-> items[i].hidden = 0,
                            attempts |-> items[i].attempts]
        BY <3>2, <4>1, SameItems DEF Owns
      <4> HIDE DEF new, i
      <4>7. Seen(new) = [owner |-> items[i].owner, visible |-> FALSE,
                         attempts |-> items[i].attempts]
        BY <4>4, <4>5, SeenItem, TimerAssumption
      <4>8. Seen(new) = Lease!Entry(w, FALSE, LeaseView[i].attempts)
        <5>1. LeaseView[i].attempts = items[i].attempts
          BY <4>6
        <5>2. items[i].owner = w
          BY <3>2 DEF Owns, i
        <5> QED BY <4>7, <5>1, <5>2 DEF Lease!Entry
      <4>9. LeaseView' = [LeaseView EXCEPT ![i] =
                            Lease!Entry(w, FALSE, LeaseView[i].attempts)]
        BY <4>1, <4>3, <4>8 DEF LeaseView, TypeOK
      <4>10. Lease!Renew(w, i)
        BY <4>2, <4>9 DEF Lease!Renew
      <4> QED BY <4>1, <4>10 DEF Lease!LQNext
    <3> QED BY <3>1, <3>2
  <2>4. CASE Finish(w)
    <3> DEFINE i == drain[w]
    <3>1. i \in Ids
      BY <2>4 DEF Finish, Idle, TypeOK
    <3>2. Lease!Owns(w, i) <=> Owns(w, i)
      BY <3>1, SameItems
    <3>3. LeaseView' = IF Owns(w, i) THEN [LeaseView EXCEPT ![i] = Absent] ELSE LeaseView
      BY <2>4, <3>1 DEF Finish, Without, LeaseView, Seen, TypeOK
    <3>4. Lease!Complete(w, i)
      BY <3>2, <3>3 DEF Lease!Complete
    <3> QED BY <3>1, <3>4 DEF Lease!LQNext
  <2>5. ASSUME NEW wait \in Nat, NEW refund \in BOOLEAN, ~Idle(w),
               items' = Released(w, drain[w], wait, refund)
        PROVE  Lease!LQNext
    <3>1. drain[w] \in Ids
      BY <2>5 DEF Idle, TypeOK
    <3>2. Lease!Release(w, drain[w], refund, wait = 0)
      BY <2>5, <3>1, ReleaseMaps
    <3>3. (wait = 0) \in BOOLEAN
      OBVIOUS
    <3> QED BY <3>1, <3>2, <3>3 DEF Lease!LQNext
  <2>6. \A delay \in Nat : Remaining(w, delay) \in Nat
    <3>1. hbAge[w] \in FileAge
      BY DEF TypeOK
    <3>2. hbAge[w] \in Int /\ hbAge[w] >= -1
      BY <3>1, AgeRange DEF FileAge, NoFile
    <3> QED BY <3>2 DEF Remaining
  <2>7. CASE StopAtBoundary(w)
    BY <2>7, <2>5 DEF StopAtBoundary
  <2>8. CASE Rest(w)
    BY <2>8, <2>5, <2>6, TimerAssumption DEF Rest
  <2>9. CASE BackOff(w)
    BY <2>9, <2>5, <2>6, TimerAssumption DEF BackOff
  <2>10. CASE Abandon(w) \/ Crash(w)
    BY <2>10, <1>k DEF Abandon, Crash
  <2> QED BY <1>3, <2>b, <2>1, <2>2, <2>3, <2>4, <2>7, <2>8, <2>9, <2>10 DEF WorkerStep
<1>4. CASE UNCHANGED vars
  BY <1>4, <1>k DEF vars
<1> QED BY <1>1, <1>2, <1>3, <1>4 DEF Next

\* The file queue implements the abstract queue the run engine is built on.
THEOREM FileQueueImplementsLease == Spec => ImplementsLeaseQueue
<1>1. Init => Lease!LQInit
  BY DEF Init, Lease!LQInit, LeaseView, Seen
<1> QED BY <1>1, LeaseStep, TypeCorrect, PTL DEF Spec, ImplementsLeaseQueue, Lease!LQSpec
=============================================================================
