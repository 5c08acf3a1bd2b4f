---------------------------- MODULE AccessProofs ----------------------------
(***************************************************************************)
(* Theorems about Access for every value of its constants, with proofs.    *)
(***************************************************************************)
EXTENDS Access, FiniteSetTheorems, SequenceTheorems, WellFoundedInduction, TLAPS

-----------------------------------------------------------------------------
(* The first of several places in a sequence, and the tenants by their     *)
(* last update.                                                            *)

LEMMA MinIn ==
    ASSUME NEW S \in SUBSET Nat, S # {}
    PROVE  Min(S) \in S /\ \A n \in S : Min(S) <= n
  <1> DEFINE Below(n) == 1..n
             T == {Below(n) : n \in S}
  <1>1. T \subseteq FiniteSubsetsOf(Nat) /\ T # {}
    <2>1. \A n \in S : Below(n) \subseteq Nat /\ IsFiniteSet(Below(n))
      BY FS_Interval
    <2> QED
      BY <2>1 DEF FiniteSubsetsOf
  <1>2. PICK X \in T : \A Y \in T : ~(<<Y, X>> \in StrictSubsetOrdering(Nat))
    BY <1>1, FS_StrictSubsetOrderingWellFounded, WFMin
  <1>3. PICK m \in S : X = Below(m)
    OBVIOUS
  <1>4. ASSUME NEW n \in S, n < m PROVE FALSE
    <2>1. /\ Below(n) \in SUBSET Nat /\ Below(m) \in SUBSET Nat
          /\ Below(n) \subseteq Below(m) /\ m \in Below(m) /\ m \notin Below(n)
      BY <1>4
    <2>2. <<Below(n), Below(m)>> \in StrictSubsetOrdering(Nat)
      BY <2>1 DEF StrictSubsetOrdering
    <2> QED
      BY <1>2, <1>3, <2>2
  <1>5. m \in S /\ \A n \in S : m <= n
    BY <1>4
  <1> QED
    BY <1>5 DEF Min

LEMMA OwnerKnown ==
    ASSUME TypeOK, NEW repo
    PROVE  OwnerOf(repo, recent) \in OrNone({t \in Tenants : tenants[t] # None})
  <1> DEFINE S == {i \in 1..Len(recent) : repo \in Owns[recent[i]]}
             first == SelectInSeq(recent, LAMBDA t : repo \in Owns[t])
  <1>1. first = IF S # {} THEN Min(S) ELSE 0
    BY DEF SelectInSeq
  <1>2. recent \in Seq(Tenants) /\ ToSet(recent) = {t \in Tenants : tenants[t] # None}
    BY DEF TypeOK
  <1>3. first # 0 => first \in 1..Len(recent)
    BY <1>1, <1>2, MinIn
  <1> HIDE DEF first
  <1>4. first # 0 => recent[first] \in ToSet(recent)
    BY <1>2, <1>3 DEF ToSet
  <1> QED
    BY <1>2, <1>4 DEF OwnerOf, OrNone, first

LEMMA MovedFirst ==
    ASSUME TypeOK, NEW t \in Tenants
    PROVE  /\ FirstOf(t) \in Seq(Tenants) /\ IsInjective(FirstOf(t))
           /\ ToSet(FirstOf(t)) = ToSet(recent) \cup {t}
  <1> DEFINE n == Len(recent)
             S == {i \in 1..n : recent[i] = t}
             at == SelectInSeq(recent, LAMBDA u : u = t)
             f == FirstOf(t)
  <1>1. recent \in Seq(Tenants) /\ n \in Nat /\ IsInjective(recent)
    BY DEF TypeOK
  <1>2. at = IF S # {} THEN Min(S) ELSE 0
    BY DEF SelectInSeq
  <1>3. CASE S = {}
    <2>1. f = <<t>> \o recent
      BY <1>3 DEF FirstOf, RemoveFirst
    <2>2. f \in Seq(Tenants) /\ Len(f) = n + 1 /\ f[1] = t
          /\ \A i \in 1..n : f[i + 1] = recent[i]
      BY <1>1, <2>1
    <2>3. \A i \in DOMAIN f : i = 1 \/ (i - 1 \in 1..n /\ f[i] = recent[i - 1])
      BY <1>1, <2>2
    <2>4. DOMAIN recent = 1..n /\ DOMAIN f = 1..(n + 1)
      BY <1>1, <2>2
    <2>5. IsInjective(f)
      BY <1>1, <1>3, <2>2, <2>3, <2>4 DEF IsInjective
    <2> HIDE DEF f
    <2>6. \A u \in ToSet(f) : u = t \/ u \in ToSet(recent)
      BY <2>2, <2>3, <2>4 DEF ToSet
    <2>7. ASSUME NEW i \in 1..n PROVE recent[i] \in ToSet(f)
      <3>1. i + 1 \in DOMAIN f /\ f[i + 1] = recent[i]
        BY <1>1, <2>2, <2>4
      <3> QED
        BY <3>1 DEF ToSet
    <2>8. t \in ToSet(f)
      <3>1. 1 \in DOMAIN f
        BY <1>1, <2>4
      <3> QED
        BY <2>2, <3>1 DEF ToSet
    <2>9. ToSet(f) = ToSet(recent) \cup {t}
      BY <2>4, <2>6, <2>7, <2>8 DEF ToSet
    <2> QED
      BY <2>2, <2>5, <2>9 DEF f
  <1>4. CASE S # {}
    <2>1. at \in 1..n /\ recent[at] = t
      <3>1. S \in SUBSET Nat /\ at = Min(S)
        BY <1>2, <1>4
      <3>2. Min(S) \in S
        BY <1>4, <3>1, MinIn
      <3> HIDE DEF at
      <3> QED
        BY <3>1, <3>2
    <2>2. f = <<t>> \o (SubSeq(recent, 1, at - 1) \o SubSeq(recent, at + 1, n))
      BY <1>4 DEF FirstOf, RemoveFirst, RemoveAt
    <2> HIDE DEF at, f
    <2>3. f \in Seq(Tenants) /\ Len(f) = n /\ f[1] = t
          /\ \A i \in 2..n : f[i] = IF i <= at THEN recent[i - 1] ELSE recent[i]
      <3> DEFINE a == SubSeq(recent, 1, at - 1)
                 b == SubSeq(recent, at + 1, n)
      <3>1. /\ a \in Seq(Tenants) /\ Len(a) = at - 1
            /\ \A i \in 1..(at - 1) : a[i] = recent[i]
        BY <1>1, <2>1, SubSeqProperties
      <3>2. /\ b \in Seq(Tenants) /\ Len(b) = n - at
            /\ \A i \in 1..(n - at) : b[i] = recent[at + i]
        <4>1. CASE at < n
          BY <1>1, <2>1, <4>1, SubSeqProperties
        <4>2. CASE at = n
          BY <1>1, <2>1, <4>2, SubSeqEmpty
        <4> QED
          BY <1>1, <2>1, <4>1, <4>2
      <3> HIDE DEF a, b
      <3> DEFINE c == a \o b
      <3>3. /\ c \in Seq(Tenants) /\ Len(c) = n - 1
            /\ \A i \in 1..(n - 1) : c[i] = IF i <= at - 1 THEN a[i] ELSE b[i - (at - 1)]
        <4>1. /\ c \in Seq(Tenants) /\ Len(c) = Len(a) + Len(b)
              /\ \A i \in 1..(Len(a) + Len(b)) :
                   c[i] = IF i <= Len(a) THEN a[i] ELSE b[i - Len(a)]
          BY <3>1, <3>2, ConcatProperties, Zenon
        <4>2. Len(a) = at - 1 /\ Len(b) = n - at
          BY <3>1, <3>2
        <4> HIDE DEF c
        <4> QED
          BY <1>1, <2>1, <4>1, <4>2
      <3>4. f = <<t>> \o c
        BY <2>2 DEF a, b
      <3> HIDE DEF c
      <3>5. \A i \in 1..(n - 1) : c[i] = IF i < at THEN recent[i] ELSE recent[i + 1]
        <4> SUFFICES ASSUME NEW i \in 1..(n - 1)
                     PROVE  c[i] = IF i < at THEN recent[i] ELSE recent[i + 1]
          OBVIOUS
        <4>1. CASE i < at
          BY <1>1, <2>1, <3>1, <3>3, <4>1
        <4>2. CASE i >= at
          <5>1. i - (at - 1) \in 1..(n - at) /\ at + (i - (at - 1)) = i + 1
            BY <1>1, <2>1, <4>2
          <5>2. b[i - (at - 1)] = recent[i + 1]
            BY <3>2, <5>1
          <5> QED
            BY <1>1, <2>1, <3>3, <4>2, <5>2
        <4> QED
          BY <1>1, <2>1, <4>1, <4>2
      <3>6. /\ f \in Seq(Tenants) /\ Len(f) = n /\ f[1] = t
            /\ \A i \in 2..n : f[i] = c[i - 1]
        BY <1>1, <3>3, <3>4
      <3> QED
        BY <1>1, <2>1, <3>5, <3>6
    <2>4. DOMAIN recent = 1..n /\ DOMAIN f = 1..n
      BY <1>1, <2>3
    <2>5. IsInjective(f)
      BY <1>1, <2>1, <2>3, <2>4 DEF IsInjective
    <2>6. ASSUME NEW u \in ToSet(f) PROVE u \in ToSet(recent)
      <3>1. PICK i \in 1..n : u = f[i]
        BY <2>4 DEF ToSet
      <3>2. \E j \in 1..n : u = recent[j]
        <4>1. CASE i = 1
          BY <2>1, <2>3, <3>1, <4>1
        <4>2. CASE i \in 2..n
          BY <1>1, <2>1, <2>3, <3>1, <4>2
        <4> QED
          BY <1>1, <4>1, <4>2
      <3> QED
        BY <2>4, <3>2 DEF ToSet
    <2>7. ASSUME NEW i \in 1..n PROVE recent[i] \in ToSet(f)
      <3>1. CASE i = at
        BY <1>1, <2>1, <2>3, <2>4, <3>1 DEF ToSet
      <3>2. CASE i < at
        <4>1. i + 1 \in 2..n /\ f[i + 1] = recent[i]
          BY <1>1, <2>1, <2>3, <3>2
        <4> QED
          BY <2>4, <4>1 DEF ToSet
      <3>3. CASE i > at
        <4>1. i \in 2..n /\ f[i] = recent[i]
          BY <1>1, <2>1, <2>3, <3>3
        <4> QED
          BY <2>4, <4>1 DEF ToSet
      <3> QED
        BY <1>1, <2>1, <3>1, <3>2, <3>3
    <2>8. t \in ToSet(recent)
      BY <2>1, <2>4 DEF ToSet
    <2>9. ToSet(f) = ToSet(recent) \cup {t}
      BY <2>4, <2>6, <2>7, <2>8 DEF ToSet
    <2> QED
      BY <2>3, <2>5, <2>9 DEF f
  <1> QED
    BY <1>3, <1>4

(* Requests leave the window in the order in which they came: those that   *)
(* stay are the last ones.                                                 *)
Ordered(ages) == \A i, j \in DOMAIN ages : i < j => ages[j] <= ages[i]

LEMMA LaterInOrder ==
    ASSUME NEW ages \in Seq(0..(Window - 1)), Ordered(ages), Len(ages) <= Limit,
           NEW first \in 1..Len(ages), ages[first] + 1 < Window
    PROVE  LET later == [i \in 1..(Len(ages) - first + 1) |-> ages[first + i - 1] + 1]
           IN  later \in Seq(0..(Window - 1)) /\ Len(later) <= Limit /\ Ordered(later)
  <1> DEFINE n == Len(ages)
             Ages == 0..(Window - 1)
             later == [i \in 1..(n - first + 1) |-> ages[first + i - 1] + 1]
  <1>1. /\ n \in Nat /\ Window \in Nat \ {0} /\ Limit \in Nat \ {0} /\ DOMAIN ages = 1..n
    BY AccessAssumption
  <1>2. \A i \in 1..n : ages[i] \in Nat /\ ages[i] < Window
    <2>1. ages \in Seq(Ages) /\ \A age \in Ages : age \in Nat /\ age < Window
      BY <1>1
    <2> HIDE DEF Ages
    <2> QED
      BY <2>1
  <1>3. ASSUME NEW k \in first..n PROVE ages[k] \in Nat /\ ages[k] + 1 < Window
    <2>1. k \in 1..n /\ first \in 1..n
      BY <1>1
    <2>2. k = first \/ ages[k] <= ages[first]
      BY <1>1, <2>1 DEF Ordered
    <2>3. ages[k] \in Nat /\ ages[first] \in Nat
      BY <1>2, <2>1
    <2> QED
      BY <1>1, <2>2, <2>3
  <1>4. \A i \in 1..(n - first + 1) : first + i - 1 \in first..n
    BY <1>1
  <1>5. DOMAIN later = 1..(n - first + 1)
    OBVIOUS
  <1>6. later \in Seq(Ages) /\ Len(later) <= Limit
    <2>1. \A k \in first..n : ages[k] + 1 \in Ages
      BY <1>1, <1>3
    <2> HIDE DEF Ages
    <2>2. later \in [1..(n - first + 1) -> Ages] /\ n - first + 1 \in Nat /\ n - first + 1 <= Limit
      BY <1>1, <1>4, <2>1
    <2> HIDE DEF later
    <2> QED
      BY <2>2
  <1>7. Ordered(later)
    <2> SUFFICES ASSUME NEW i \in 1..(n - first + 1), NEW j \in 1..(n - first + 1), i < j
                 PROVE  ages[first + j - 1] + 1 <= ages[first + i - 1] + 1
      BY <1>5 DEF Ordered
    <2>1. first + i - 1 \in first..n /\ first + j - 1 \in first..n
      BY <1>4
    <2> DEFINE k == first + i - 1
               l == first + j - 1
    <2>2. k < l /\ k \in DOMAIN ages /\ l \in DOMAIN ages
      BY <1>1, <2>1
    <2>3. ages[k] \in Nat /\ ages[l] \in Nat
      BY <1>3, <2>1
    <2> HIDE DEF k, l
    <2>4. ages[l] <= ages[k]
      BY <2>2 DEF Ordered
    <2>5. ages[l] + 1 <= ages[k] + 1
      BY <2>3, <2>4
    <2> QED
      BY <2>5 DEF k, l
  <1> QED
    BY <1>6, <1>7

LEMMA AgedInOrder ==
    ASSUME NEW ages \in Seq(0..(Window - 1)), Ordered(ages), Len(ages) <= Limit
    PROVE  /\ Aged(ages) \in Seq(0..(Window - 1)) /\ Len(Aged(ages)) <= Limit
           /\ Ordered(Aged(ages))
  <1> DEFINE S == {i \in 1..Len(ages) : ages[i] + 1 < Window}
  <1>1. SelectInSeq(ages, LAMBDA age : age + 1 < Window) = IF S # {} THEN Min(S) ELSE 0
    BY DEF SelectInSeq
  <1>2. PICK first : first = IF S # {} THEN Min(S) ELSE 0
    OBVIOUS
  <1>3. Aged(ages) = IF first = 0 THEN <<>>
                     ELSE [i \in 1..(Len(ages) - first + 1) |-> ages[first + i - 1] + 1]
    BY <1>1, <1>2 DEF Aged
  <1>4. CASE S # {}
    <2>1. S \in SUBSET Nat
      OBVIOUS
    <2>2. first \in S
      <3> HIDE DEF S
      <3> QED
        BY <1>2, <1>4, <2>1, MinIn
    <2>3. first \in 1..Len(ages) /\ ages[first] + 1 < Window /\ first # 0
      BY <2>2
    <2> QED
      BY <1>3, <2>3, LaterInOrder
  <1>5. CASE S = {}
    <2>1. Aged(ages) = <<>>
      BY <1>2, <1>3, <1>5
    <2> QED
      BY <2>1, AccessAssumption DEF Ordered
  <1> QED
    BY <1>4, <1>5

-----------------------------------------------------------------------------
(* Types.                                                                  *)

(* What a process knows by the time of each of its phases.                 *)
ProcInv(proc) ==
    LET op == proc.call.op IN
    /\ IF proc.phase = "idle" THEN proc = IdleProc ELSE proc.call \in Calls
    /\ proc.phase \in {"start", "resolve"} => proc.tenant = None /\ proc.seen = None
    /\ proc.phase = "resolve" => op \notin {"open", "register"}
    /\ proc.phase = "check" =>
         op \notin {"open", "register"} /\ proc.tenant \in Tenants /\ proc.seen \in Tenant
    /\ proc.phase = "act" /\ op \in {"policy", "status", "add"} =>
         proc.tenant \in Tenants /\ proc.seen \in Tenant
    /\ proc.phase = "act" /\ op = "add" => proc.todo # <<>>
    /\ proc.phase = "act" => op \notin {"view", "sync"}
    /\ proc.phase \in {"enroll", "prune"} =>
         op \in {"sync", "add", "register"} /\ proc.tenant \in Tenants
    /\ proc.phase = "enroll" => proc.todo # <<>>
    /\ proc.phase = "notify" => op \in OnRepo
    /\ proc.did => proc.phase \in {"notify", "end"} /\ op \in OnRepo \cup {"open"}

(* TypeOK, and a request that is underway has been counted.                *)
TypeInv ==
    /\ TypeOK
    /\ \A c \in Clients : Ordered(admitted[c])
    /\ \A p \in Processes : ProcInv(procs[p])
    /\ Len(log) + (IF At(Api, "idle") THEN 0 ELSE 1) <= calls

Sets(p, proc) == procs' = [procs EXCEPT ![p] = proc]

LEMMA IdleFine == IdleProc \in Proc /\ ProcInv(IdleProc)
  BY DEF IdleProc, Proc, ProcInv, Phases, OrNone

LEMMA ProcSet ==
    ASSUME TypeInv, NEW p \in Processes, NEW proc \in Proc, ProcInv(proc),
           Sets(p, proc) \/ Writes(p, proc)
    PROVE  /\ procs' \in [Processes -> Proc] /\ \A q \in Processes : ProcInv(procs'[q])
           /\ procs'[p] = proc
           /\ \A q \in Processes \ {p} : At(q, "idle")' <=> At(q, "idle")
  <1>1. procs \in [Processes -> Proc] /\ \A q \in Processes : ProcInv(procs[q])
    BY DEF TypeInv, TypeOK
  <1>2. CASE Sets(p, proc)
    BY <1>1, <1>2 DEF Sets, At
  <1>3. CASE Writes(p, proc)
    <2>1. procs'[p] = proc /\ procs' = [q \in Processes |-> procs'[q]]
      BY <1>3 DEF Writes
    <2>2. ASSUME NEW q \in Processes \ {p}
          PROVE  /\ procs'[q] \in Proc /\ ProcInv(procs'[q])
                 /\ At(q, "idle")' <=> At(q, "idle")
      <3> DEFINE r == procs[q]
                 s == [procs[q] EXCEPT !.alone = At(q, "idle")]
      <3>1. procs'[q] = s /\ r \in Proc /\ ProcInv(r)
        BY <1>1, <1>3 DEF Writes
      <3>2. s \in Proc /\ s.phase = r.phase /\ s.call = r.call /\ s.tenant = r.tenant
            /\ s.seen = r.seen /\ s.todo = r.todo /\ s.did = r.did
        BY <3>1 DEF Proc, At
      <3>3. r.phase = "idle" => s = IdleProc
        <4> SUFFICES ASSUME r.phase = "idle" PROVE s = IdleProc
          OBVIOUS
        <4>1. r = IdleProc /\ At(q, "idle") = TRUE
          BY <3>1 DEF ProcInv, At
        <4>2. r.alone = TRUE
          BY <4>1 DEF IdleProc
        <4>3. s = [r EXCEPT !.alone = TRUE]
          BY <4>1, Zenon
        <4> HIDE DEF r, s
        <4>4. s = r
          BY <3>1, <4>2, <4>3 DEF Proc
        <4> QED
          BY <4>1, <4>4
      <3> HIDE DEF r, s
      <3>4. ProcInv(s)
        BY <3>1, <3>2, <3>3 DEF ProcInv
      <3> QED
        BY <3>1, <3>2, <3>4 DEF At, r
    <2> QED
      BY <2>1, <2>2
  <1> QED
    BY <1>2, <1>3

(* The parts of TypeInv, each about what different actions change.         *)
TablesOk ==
    /\ tenants \in [Tenants -> OrNone(Tenant)]
    /\ members \in [Tenants -> [Actors -> OrNone(Member)]]
    /\ recent \in Seq(Tenants) /\ IsInjective(recent)
    /\ ToSet(recent) = {t \in Tenants : tenants[t] # None}

ApiOk ==
    /\ stored \in [Slots -> {None, Torn} \cup Saved]
    /\ admitted \in [Clients -> Seq(0..(Window - 1))]
    /\ \A c \in Clients : Len(admitted[c]) <= Limit /\ Ordered(admitted[c])

ProcsOk ==
    procs \in [Processes -> Proc] /\ \A p \in Processes : ProcInv(procs[p])

LogOk ==
    /\ log \in Seq(Entry) /\ Len(log) <= MaxCalls
    /\ Len(log) + (IF At(Api, "idle") THEN 0 ELSE 1) <= calls
    /\ calls \in 0..MaxCalls /\ deaths \in 0..MaxDeaths

LEMMA TypeParts == TypeInv <=> TablesOk /\ ApiOk /\ ProcsOk /\ LogOk
  BY DEF TypeInv, TypeOK, TablesOk, ApiOk, ProcsOk, LogOk

LEMMA TypePartsLater == (TablesOk /\ ApiOk /\ ProcsOk /\ LogOk)' => TypeInv'
  BY DEF TypeInv, TypeOK, TablesOk, ApiOk, ProcsOk, LogOk

LEMMA PartsKept ==
    /\ TablesOk /\ UNCHANGED tables => TablesOk'
    /\ ApiOk /\ UNCHANGED <<stored, admitted>> => ApiOk'
    /\ ProcsOk /\ UNCHANGED procs => ProcsOk'
    /\ LogOk /\ UNCHANGED <<log, calls, deaths, procs>> => LogOk'
  <1>1. TablesOk /\ UNCHANGED tables => TablesOk'
    BY DEF TablesOk, tables
  <1>2. ApiOk /\ UNCHANGED <<stored, admitted>> => ApiOk'
    BY DEF ApiOk
  <1>3. ProcsOk /\ UNCHANGED procs => ProcsOk'
    BY DEF ProcsOk
  <1>4. LogOk /\ UNCHANGED <<log, calls, deaths, procs>> => LogOk'
    BY DEF LogOk, At
  <1> QED
    BY <1>1, <1>2, <1>3, <1>4

(* What a process that is underway has been asked.                         *)
LEMMA CallKnown ==
    ASSUME TypeInv, NEW p \in Processes, ~At(p, "idle")
    PROVE  /\ procs[p] \in Proc /\ ProcInv(procs[p])
           /\ Call(p) \in Calls /\ Call(p) \in Requests \cup Tasks
           /\ Call(p).op \in {"sync", "add", "register"} => Call(p).members # <<>>
  <1>1. procs[p] \in Proc /\ ProcInv(procs[p])
    BY DEF TypeInv, TypeOK
  <1>2. Call(p) \in Calls
    BY <1>1 DEF ProcInv, At, Call
  <1>3. Call(p) \in OrNone(Requests \cup Tasks)
    BY <1>1 DEF Proc, Call
  <1>4. Call(p) # None
    BY <1>2, NoneAssumption
  <1>5. Call(p) \in Requests \cup Tasks
    BY <1>3, <1>4 DEF OrNone
  <1> QED
    BY <1>1, <1>2, <1>5, CallsAssumption

LEMMA LoggedTyped ==
    ASSUME LogOk, NEW call \in Calls, NEW did \in BOOLEAN,
           NEW status \in OrNone(Answers), NEW id \in 0..MaxCalls,
           Logged(call, did, status, id)
    PROVE  log' \in Seq(Entry) /\ Len(log') = Len(log) + 1
  <1> DEFINE entry == [slot |-> SlotOf(call), body |-> call.body, did |-> did,
                       status |-> status, id |-> id]
  <1>1. SlotOf(call) \in OrNone(Slots) /\ call.body \in Bodies
    BY DEF SlotOf, OrNone, Slots, Calls
  <1>2. entry \in Entry
    BY <1>1 DEF Entry
  <1>3. log \in Seq(Entry) /\ log' = Append(log, entry)
    BY DEF LogOk, Logged
  <1> HIDE DEF entry
  <1> QED
    BY <1>2, <1>3

LEMMA LeaveTyped ==
    ASSUME TypeInv, NEW p \in Processes, ~At(p, "idle"),
           NEW status \in OrNone(Answers), NEW id \in 0..MaxCalls,
           Leave(p, status, id), calls' = calls, deaths' \in 0..MaxDeaths
    PROVE  ProcsOk' /\ LogOk'
  <1>1. ProcsOk /\ LogOk
    BY TypeParts
  <1>2. Sets(p, IdleProc)
    BY DEF Leave, Sets
  <1>3. /\ ProcsOk' /\ procs'[p] = IdleProc
        /\ \A q \in Processes \ {p} : At(q, "idle")' <=> At(q, "idle")
    BY <1>2, IdleFine, ProcSet DEF ProcsOk
  <1>4. At(p, "idle")'
    BY <1>3 DEF IdleProc, At
  <1>5. calls \in Nat /\ MaxCalls \in Nat /\ Len(log) \in Nat /\ calls <= MaxCalls
    BY <1>1, AccessAssumption DEF LogOk
  <1>6. CASE p = Api
    <2>1. Call(p) \in Calls /\ procs[p].did \in BOOLEAN
      BY CallKnown DEF Proc
    <2>2. log' \in Seq(Entry) /\ Len(log') = Len(log) + 1
      BY <1>1, <1>6, <2>1, LoggedTyped DEF Leave
    <2>3. At(Api, "idle")' /\ ~At(Api, "idle")
      BY <1>4, <1>6
    <2> QED
      BY <1>1, <1>3, <1>5, <2>2, <2>3 DEF LogOk
  <1>7. CASE p # Api
    <2>1. log' = log /\ (At(Api, "idle")' <=> At(Api, "idle"))
      BY <1>3, <1>7 DEF Leave, Processes
    <2> QED
      BY <1>1, <1>3, <2>1 DEF LogOk
  <1> QED
    BY <1>6, <1>7

(* A process goes on with its call.                                        *)
LEMMA GoneOn ==
    ASSUME TypeInv, NEW p \in Processes, ~At(p, "idle"),
           NEW proc \in Proc, ProcInv(proc), proc.phase # "idle",
           Sets(p, proc) \/ Writes(p, proc), UNCHANGED <<log, calls, deaths>>
    PROVE  ProcsOk' /\ LogOk'
  <1>1. LogOk
    BY TypeParts
  <1>2. /\ ProcsOk' /\ procs'[p] = proc
        /\ \A q \in Processes \ {p} : At(q, "idle")' <=> At(q, "idle")
    BY ProcSet DEF ProcsOk
  <1>3. At(Api, "idle")' <=> At(Api, "idle")
    <2>1. CASE p = Api
      BY <1>2, <2>1 DEF At
    <2>2. CASE p # Api
      BY <1>2, <2>2 DEF Processes
    <2> QED
      BY <2>1, <2>2
  <1> QED
    BY <1>1, <1>2, <1>3 DEF LogOk

LEMMA InitTypeInv == Init => TypeInv
  <1> SUFFICES ASSUME Init PROVE TypeInv
    OBVIOUS
  <1>1. recent \in Seq(Tenants) /\ IsInjective(recent) /\ ToSet(recent) = Registered
    <2> DEFINE n == Cardinality(Registered)
    <2>1. IsFiniteSet(Registered) /\ Registered \subseteq Tenants
      BY AccessAssumption, FS_Subset
    <2>2. n \in Nat /\ ExistsBijection(1..n, Registered)
      BY <2>1, FS_CardinalityType
    <2>3. \E f \in [1..n -> Registered] : IsInjective(f)
      BY <2>2 DEF ExistsBijection, Bijection, Injection, IsInjective
    <2>4. recent = CHOOSE f \in [1..n -> Registered] : IsInjective(f)
      BY DEF Init, SetToSeq
    <2>5. recent \in [1..n -> Registered] /\ IsInjective(recent)
      BY <2>3, <2>4
    <2>6. recent \in Seq(Tenants)
      BY <2>1, <2>2, <2>5
    <2>7. recent \in Surjection(1..n, Registered)
      <3>1. recent \in Injection(1..n, Registered)
        BY <2>5 DEF Injection, IsInjective
      <3>2. IsFiniteSet(1..n) /\ Cardinality(1..n) = n
        BY <2>2, FS_Interval
      <3> QED
        BY <2>1, <3>1, <3>2, FS_Injection
    <2>8. DOMAIN recent = 1..n /\ \A t \in Registered : \E i \in 1..n : recent[i] = t
      BY <2>5, <2>7 DEF Surjection
    <2>9. ToSet(recent) = Registered
      BY <2>5, <2>8 DEF ToSet
    <2> QED
      BY <2>5, <2>6, <2>9
  <1>2. TablesOk
    <2>1. \A t \in Registered : [status |-> "active", policy |-> 0] \in Tenant
      BY DEF Tenant, Statuses
    <2>2. tenants \in [Tenants -> OrNone(Tenant)]
      BY <2>1 DEF Init, OrNone
    <2>3. \A t \in Tenants : tenants[t] # None <=> t \in Registered
      BY <2>1, NoneAssumption DEF Init
    <2>4. members \in [Tenants -> [Actors -> OrNone(Member)]]
      BY AccessAssumption DEF Init, OrNone
    <2> QED
      BY <1>1, <2>2, <2>3, <2>4, AccessAssumption DEF TablesOk
  <1>3. ApiOk
    BY AccessAssumption DEF Init, ApiOk, Ordered
  <1>4. ProcsOk
    BY IdleFine DEF Init, ProcsOk
  <1>5. LogOk
    BY AccessAssumption DEF Init, LogOk, At, IdleProc, Processes
  <1> QED
    BY <1>2, <1>3, <1>4, <1>5, TypeParts

LEMMA StartedFine ==
    ASSUME NEW call \in Requests \cup Tasks
    PROVE  LET proc == [IdleProc EXCEPT !.phase = "start", !.call = call]
           IN  proc \in Proc /\ ProcInv(proc)
  <1> DEFINE r == IdleProc
             proc == [r EXCEPT !.phase = "start", !.call = call]
  <1>1. r \in Proc /\ r.tenant = None /\ r.seen = None /\ r.did = FALSE
    BY IdleFine DEF IdleProc
  <1>2. call \in Calls
    BY CallsAssumption
  <1> HIDE DEF r
  <1>3. /\ proc \in Proc /\ proc.phase = "start" /\ proc.call = call
        /\ proc.tenant = None /\ proc.seen = None /\ proc.did = FALSE
    BY <1>1 DEF Proc, Phases, OrNone
  <1> HIDE DEF proc
  <1>4. proc \in Proc /\ ProcInv(proc)
    BY <1>2, <1>3 DEF ProcInv
  <1> QED
    BY <1>4 DEF proc, r

LEMMA ReceiveType ==
    ASSUME TypeInv, NEW call \in Requests, Receive(call)
    PROVE  TypeInv'
  <1> DEFINE c == call.client
  <1>1. TablesOk /\ ApiOk /\ ProcsOk /\ LogOk
    BY TypeParts
  <1>2. call \in Calls /\ c \in Clients
    BY CallsAssumption
  <1>3. TablesOk'
    BY <1>1, PartsKept DEF Receive
  <1>4. ApiOk'
    <2>1. stored' = stored
      BY DEF Receive
    <2>2. CASE UNCHANGED admitted
      BY <1>1, <2>1, <2>2, PartsKept
    <2>3. CASE ~AtLimit(c) /\ admitted' = [admitted EXCEPT ![c] = Append(@, 0)]
      <3> DEFINE Ages == 0..(Window - 1)
                 ages == admitted[c]
                 later == Append(ages, 0)
      <3>1. 0 \in Ages /\ Limit \in Nat
        BY AccessAssumption
      <3>2. ages \in Seq(Ages) /\ Len(ages) < Limit /\ Ordered(ages)
        BY <1>1, <1>2, <2>3, <3>1 DEF ApiOk, AtLimit
      <3>3. \A age \in Ages : age >= 0
        OBVIOUS
      <3> HIDE DEF Ages, ages
      <3>4. /\ later \in Seq(Ages) /\ Len(later) = Len(ages) + 1 /\ Len(ages) \in Nat
            /\ later[Len(ages) + 1] = 0
            /\ \A i \in 1..Len(ages) : later[i] = ages[i]
        BY <3>1, <3>2
      <3>5. DOMAIN later = 1..(Len(ages) + 1) /\ DOMAIN ages = 1..Len(ages)
            /\ \A i \in DOMAIN ages : ages[i] \in Ages
        BY <3>2, <3>4
      <3> HIDE DEF later
      <3>6. Ordered(later)
        BY <3>2, <3>3, <3>4, <3>5 DEF Ordered
      <3>7. Len(later) <= Limit
        BY <3>1, <3>2, <3>4
      <3>8. admitted' = [admitted EXCEPT ![c] = later]
        BY <2>3 DEF later, ages
      <3> QED
        BY <1>1, <1>2, <2>1, <3>4, <3>6, <3>7, <3>8 DEF ApiOk, Ages
    <2> QED
      BY <2>2, <2>3 DEF Receive
  <1>5. ProcsOk' /\ LogOk'
    <2>1. /\ At(Api, "idle") /\ Api \in Processes /\ calls < MaxCalls /\ calls' = calls + 1
          /\ deaths' = deaths /\ calls \in Nat /\ MaxCalls \in Nat /\ Len(log) \in Nat
          /\ Len(log) <= calls
      BY <1>1, AccessAssumption DEF Receive, LogOk, Processes
    <2>2. CASE /\ UNCHANGED procs
               /\ \E status \in {200, 400, 403, 409, 429}, id \in 0..MaxCalls :
                    Logged(call, FALSE, status, id)
      <3>1. PICK status \in {200, 400, 403, 409, 429}, id \in 0..MaxCalls :
                 Logged(call, FALSE, status, id)
        BY <2>2
      <3>2. status \in OrNone(Answers)
        BY DEF OrNone, Answers
      <3> DEFINE did == FALSE
      <3>3. log' \in Seq(Entry) /\ Len(log') = Len(log) + 1
        <4>1. did \in BOOLEAN /\ Logged(call, did, status, id)
          BY <3>1
        <4> HIDE DEF did
        <4> QED
          BY <1>1, <1>2, <3>2, <4>1, LoggedTyped
      <3>4. At(Api, "idle")'
        BY <2>1, <2>2 DEF At
      <3>5. LogOk'
        BY <1>1, <2>1, <3>3, <3>4 DEF LogOk
      <3> QED
        BY <1>1, <2>2, <3>5, PartsKept
    <2>3. CASE Fresh(call)
      <3> DEFINE proc == [IdleProc EXCEPT !.phase = "start", !.call = call]
      <3>1. proc \in Proc /\ ProcInv(proc)
        BY StartedFine
      <3>2. Sets(Api, proc)
        BY <2>3 DEF Fresh, Sets
      <3> HIDE DEF proc
      <3>3. ProcsOk'
        BY <2>1, <3>1, <3>2, ProcSet DEF ProcsOk
      <3>4. LogOk'
        BY <1>1, <2>1, <2>3 DEF LogOk, Fresh
      <3> QED
        BY <3>3, <3>4
    <2>4. CASE \E status \in {400, 403, 409, 429} : Refuse(call, status)
      <3>1. PICK status \in {400, 403, 409, 429} : Refuse(call, status)
        BY <2>4
      <3>2. UNCHANGED procs /\ Logged(call, FALSE, status, 0)
        BY <3>1, Zenon DEF Refuse
      <3>3. 0 \in 0..MaxCalls /\ status \in {200, 400, 403, 409, 429}
        BY <2>1
      <3> QED
        BY <2>2, <3>2, <3>3, Zenon
    <2>5. CASE Stored(call) \notin {None, Torn} /\ Repeat(call)
      <3>1. Stored(call) = stored[SlotOf(call)] /\ SlotOf(call) # None
        BY <2>5 DEF Stored
      <3>2. SlotOf(call) \in Slots
        BY <1>2, <3>1 DEF SlotOf, OrNone, Slots, Calls
      <3>3. Stored(call) \in Saved
        BY <1>1, <2>5, <3>1, <3>2 DEF ApiOk
      <3>4. Stored(call).status = 200 /\ Stored(call).id \in 0..MaxCalls
        BY <2>1, <3>3 DEF Saved
      <3> QED
        BY <2>2, <2>5, <3>4 DEF Repeat
    <2> QED
      BY <2>3, <2>4, <2>5 DEF Receive, Replay
  <1> QED
    BY <1>3, <1>4, <1>5, TypePartsLater

LEMMA TickType ==
    ASSUME TypeInv, Tick
    PROVE  TypeInv'
  <1>1. TablesOk /\ ApiOk /\ ProcsOk /\ LogOk
    BY TypeParts
  <1>2. TablesOk' /\ ProcsOk' /\ LogOk'
    BY <1>1, PartsKept DEF Tick
  <1>3. ApiOk'
    <2>1. \A c \in Clients : /\ Aged(admitted[c]) \in Seq(0..(Window - 1))
                             /\ Len(Aged(admitted[c])) <= Limit /\ Ordered(Aged(admitted[c]))
      BY <1>1, AgedInOrder DEF ApiOk
    <2>2. admitted' = [c \in Clients |-> Aged(admitted[c])] /\ stored' = stored
      BY DEF Tick
    <2> QED
      BY <1>1, <2>1, <2>2 DEF ApiOk
  <1> QED
    BY <1>2, <1>3, TypePartsLater

LEMMA RunType ==
    ASSUME TypeInv, NEW p \in Commands, NEW task \in Tasks, Run(p, task)
    PROVE  TypeInv'
  <1> DEFINE proc == [IdleProc EXCEPT !.phase = "start", !.call = task]
  <1>1. TablesOk /\ ApiOk /\ ProcsOk /\ LogOk
    BY TypeParts
  <1>2. task \in Calls /\ p \in Processes /\ p # Api
    BY CallsAssumption, AccessAssumption DEF Processes
  <1>3. proc \in Proc /\ ProcInv(proc)
    BY StartedFine
  <1>4. Sets(p, proc) /\ calls' = calls + 1 /\ calls < MaxCalls
        /\ UNCHANGED <<tables, stored, admitted, log, deaths>>
    BY DEF Run, Sets
  <1> HIDE DEF proc
  <1>5. ProcsOk' /\ (At(Api, "idle")' <=> At(Api, "idle"))
    BY <1>2, <1>3, <1>4, ProcSet DEF ProcsOk, Processes
  <1>6. LogOk'
    BY <1>1, <1>4, <1>5, AccessAssumption DEF LogOk
  <1> QED
    BY <1>1, <1>4, <1>5, <1>6, PartsKept, TypePartsLater

Outcomes == OrNone(Answers)

LEMMA GoneOnType ==
    ASSUME TypeInv, NEW p \in Processes, ~At(p, "idle"),
           NEW proc \in Proc, ProcInv(proc), proc.phase # "idle", Sets(p, proc),
           UNCHANGED <<tables, stored, admitted, log, calls, deaths>>
    PROVE  TypeInv'
  <1>1. TablesOk' /\ ApiOk'
    BY TypeParts, PartsKept
  <1>2. ProcsOk' /\ LogOk'
    BY GoneOn
  <1> QED
    BY <1>1, <1>2, TypePartsLater

LEMMA LeftType ==
    ASSUME TypeInv, NEW p \in Processes, ~At(p, "idle"),
           NEW status \in Outcomes, NEW id \in 0..MaxCalls, Leave(p, status, id),
           UNCHANGED <<tables, stored, admitted, calls, deaths>>
    PROVE  TypeInv'
  <1>1. TablesOk /\ ApiOk /\ LogOk
    BY TypeParts
  <1>2. TablesOk' /\ ApiOk'
    BY <1>1, PartsKept
  <1>3. deaths' \in 0..MaxDeaths /\ calls' = calls
    BY <1>1 DEF LogOk
  <1>4. ProcsOk' /\ LogOk'
    BY <1>3, LeaveTyped DEF Outcomes
  <1> QED
    BY <1>2, <1>4, TypePartsLater

LEMMA RefusalType ==
    ASSUME TypeInv, NEW p \in Processes, ~At(p, "idle"),
           NEW status \in {400, 403, 500}, Leave(p, status, 0),
           UNCHANGED <<tables, stored, admitted, calls, deaths>>
    PROVE  TypeInv'
  <1> DEFINE id == 0
  <1>1. status \in Outcomes /\ id \in 0..MaxCalls
    BY AccessAssumption DEF Outcomes, OrNone, Answers
  <1>2. Leave(p, status, id)
    OBVIOUS
  <1> HIDE DEF id
  <1> QED
    BY <1>1, <1>2, LeftType

LEMMA StartType ==
    ASSUME TypeInv, NEW p \in Processes, Start(p)
    PROVE  TypeInv'
  <1>1. At(p, "start") /\ ~At(p, "idle")
    BY DEF Start, At
  <1>2. /\ procs[p] \in Proc /\ ProcInv(procs[p]) /\ Call(p) \in Calls
    BY <1>1, CallKnown
  <1>3. UNCHANGED <<tables, stored, admitted, calls, deaths>>
    BY DEF Start
  <1>4. CASE WellFormed(Call(p))
    <2> DEFINE r == procs[p]
               phase == IF Call(p).op \in {"open", "register"} THEN "act" ELSE "resolve"
               s == [r EXCEPT !.phase = phase]
    <2>1. Sets(p, s) /\ UNCHANGED log
      BY <1>4 DEF Start, Goes, Sets
    <2>2. r.phase = "start" /\ phase \in {"act", "resolve"} /\ r.call = Call(p)
      BY <1>1 DEF At, Call
    <2>3. r \in Proc /\ ProcInv(r)
      BY <1>2
    <2> HIDE DEF r
    <2>4. /\ s \in Proc /\ s.phase = phase /\ s.call = r.call /\ s.tenant = r.tenant
          /\ s.seen = r.seen /\ s.did = r.did
      BY <2>2, <2>3 DEF Proc, Phases
    <2> HIDE DEF s
    <2>5. ProcInv(s)
      BY <1>2, <2>2, <2>3, <2>4 DEF ProcInv
    <2> QED
      BY <1>1, <1>3, <2>1, <2>2, <2>4, <2>5, GoneOnType
  <1>5. CASE ~WellFormed(Call(p))
    <2>1. PICK status \in {400, 403} : Leave(p, status, 0)
      BY <1>5 DEF Start
    <2> QED
      BY <1>1, <1>3, <2>1, RefusalType
  <1> QED
    BY <1>4, <1>5

LEMMA ResolveType ==
    ASSUME TypeInv, NEW p \in Processes, Resolve(p)
    PROVE  TypeInv'
  <1> DEFINE call == Call(p)
             owner == IF call.op \in OnRepo THEN OwnerOf(call.repo, recent) ELSE call.tenant
             row == IF owner = None THEN None ELSE tenants[owner]
             r == procs[p]
  <1>1. At(p, "resolve") /\ ~At(p, "idle")
    BY DEF Resolve, At
  <1>2. r \in Proc /\ ProcInv(r) /\ call \in Calls /\ r.call = call /\ r.phase = "resolve"
    BY <1>1, CallKnown DEF Call, At
  <1>3. UNCHANGED <<tables, stored, admitted, calls, deaths>>
    BY DEF Resolve
  <1>4. /\ owner \in OrNone(Tenants)
        /\ owner = None => call.op \in OnRepo
        /\ owner # None => row \in OrNone(Tenant)
    <2>1. OwnerOf(call.repo, recent) \in OrNone(Tenants)
      BY OwnerKnown DEF TypeInv, OrNone
    <2>2. call.tenant \in Tenants /\ None \notin Tenants
      BY <1>2, TenantAccessAssumption DEF Calls
    <2> HIDE DEF call
    <2>3. owner \in OrNone(Tenants) /\ (owner = None => call.op \in OnRepo)
      BY <2>1, <2>2 DEF OrNone
    <2> HIDE DEF owner
    <2> QED
      BY <2>3 DEF TypeInv, TypeOK, OrNone
  <1>5. CASE owner = None /\ Goes(p, "act") /\ UNCHANGED log
    <2> DEFINE s == [r EXCEPT !.phase = "act"]
    <2>1. Sets(p, s)
      BY <1>5 DEF Goes, Sets
    <2> HIDE DEF r
    <2>2. /\ s \in Proc /\ s.phase = "act" /\ s.call = r.call /\ s.tenant = r.tenant
          /\ s.seen = r.seen /\ s.did = r.did
      BY <1>2 DEF Proc, Phases
    <2> HIDE DEF s
    <2>3. call.op \in OnRepo
      BY <1>4, <1>5
    <2>4. ProcInv(s)
      BY <1>2, <2>2, <2>3 DEF ProcInv, OnRepo
    <2> QED
      BY <1>1, <1>3, <1>5, <2>1, <2>2, <2>4, GoneOnType
  <1>6. CASE /\ owner # None /\ Ensured(row) /\ UNCHANGED log
             /\ procs' = [procs EXCEPT ![p].phase = "check", ![p].tenant = owner, ![p].seen = row]
    <2>1. owner \in Tenants /\ row \in Tenant
      BY <1>4, <1>6 DEF OrNone, Ensured
    <2> HIDE DEF owner, row
    <2> DEFINE s == [r EXCEPT !.phase = "check", !.tenant = owner, !.seen = row]
    <2>2. Sets(p, s)
      BY <1>6 DEF Sets
    <2> HIDE DEF r
    <2>3. /\ s \in Proc /\ s.phase = "check" /\ s.call = r.call /\ s.tenant = owner
          /\ s.seen = row /\ s.did = r.did
      BY <1>2, <2>1 DEF Proc, Phases, OrNone
    <2> HIDE DEF s
    <2>4. ProcInv(s)
      BY <1>2, <2>1, <2>3 DEF ProcInv
    <2> QED
      BY <1>1, <1>3, <1>6, <2>2, <2>3, <2>4, GoneOnType
  <1>7. CASE owner # None /\ Leave(p, IF row = None THEN 400 ELSE 403, 0)
    <2> DEFINE status == IF row = None THEN 400 ELSE 403
    <2>1. status \in {400, 403, 500} /\ Leave(p, status, 0)
      BY <1>7
    <2> HIDE DEF status
    <2> QED
      BY <1>1, <1>3, <2>1, RefusalType
  <1> QED
    BY <1>5, <1>6, <1>7 DEF Resolve

LEMMA CheckType ==
    ASSUME TypeInv, NEW p \in Processes, Check(p)
    PROVE  TypeInv'
  <1> DEFINE call == Call(p)
             r == procs[p]
             may == Permitted(call, r.tenant, members[r.tenant][ActorOf(call)])
  <1>1. At(p, "check") /\ ~At(p, "idle")
    BY DEF Check, At
  <1>2. /\ r \in Proc /\ ProcInv(r) /\ call \in Calls /\ r.call = call /\ r.phase = "check"
        /\ call.op \in {"sync", "add", "register"} => call.members # <<>>
    BY <1>1, CallKnown DEF Call, At
  <1>3. UNCHANGED <<tables, stored, admitted, calls, deaths>>
    BY DEF Check
  <1>4. CASE /\ UNCHANGED log
             /\ procs' = [procs EXCEPT ![p].phase = NextOf(call.op), ![p].todo = call.members]
    <2> DEFINE s == [r EXCEPT !.phase = NextOf(call.op), !.todo = call.members]
    <2>1. Sets(p, s)
      BY <1>4 DEF Sets
    <2>2. /\ NextOf(call.op) \in {"end", "enroll", "act"}
          /\ NextOf(call.op) = "act" => call.op \notin {"view", "sync"}
          /\ NextOf(call.op) = "enroll" => call.op = "sync"
      BY DEF NextOf
    <2>3. call.members \in Seq(Actors \X Member)
      BY <1>2 DEF Calls
    <2> HIDE DEF call, r
    <2>4. /\ s \in Proc /\ s.phase = NextOf(call.op) /\ s.call = r.call /\ s.tenant = r.tenant
          /\ s.seen = r.seen /\ s.did = r.did /\ s.todo = call.members
      BY <1>2, <2>2, <2>3 DEF Proc, Phases
    <2> HIDE DEF s
    <2>5. ProcInv(s) /\ s.phase # "idle"
      BY <1>2, <2>2, <2>4 DEF ProcInv
    <2> QED
      BY <1>1, <1>3, <1>4, <2>1, <2>4, <2>5, GoneOnType
  <1>5. CASE Leave(p, 403, 0)
    BY <1>1, <1>3, <1>5, RefusalType
  <1> QED
    BY <1>4, <1>5 DEF Check

LEMMA DidType ==
    ASSUME TypeInv, NEW p \in Processes, At(p, "act"), Call(p).op \in OnRepo \cup {"open"},
           NEW phase \in {"notify", "end"}, phase = "notify" => Call(p).op \in OnRepo,
           Did(p, phase)
    PROVE  TypeInv'
  <1> DEFINE r == procs[p]
             s == [r EXCEPT !.did = TRUE, !.phase = phase]
  <1>1. ~At(p, "idle")
    BY DEF At
  <1>2. r \in Proc /\ ProcInv(r) /\ Call(p) \in Calls /\ r.call = Call(p)
    BY <1>1, CallKnown DEF Call
  <1>3. Sets(p, s) /\ UNCHANGED <<tables, stored, admitted, log, calls, deaths>>
    BY DEF Did, Sets
  <1> HIDE DEF r
  <1>4. /\ s \in Proc /\ s.phase = phase /\ s.call = r.call /\ s.tenant = r.tenant
        /\ s.seen = r.seen /\ s.did = TRUE
    BY <1>2 DEF Proc, Phases
  <1> HIDE DEF s
  <1>5. ProcInv(s)
    BY <1>2, <1>4 DEF ProcInv
  <1> QED
    BY <1>1, <1>3, <1>4, <1>5, GoneOnType

LEMMA WorkType ==
    ASSUME TypeInv, NEW p \in Processes,
           \/ Serve(p) \/ EnqueueJob(p) \/ RequestApproval(p) \/ ReviewApproval(p) \/ Deliver(p)
    PROVE  TypeInv'
  <1>1. CASE Serve(p)
    BY <1>1, DidType DEF Serve
  <1>2. CASE EnqueueJob(p)
    BY <1>2, DidType DEF EnqueueJob, OnRepo
  <1>3. CASE RequestApproval(p)
    BY <1>3, DidType DEF RequestApproval, OnRepo, Then
  <1>4. CASE ReviewApproval(p)
    BY <1>4, DidType DEF ReviewApproval, OnRepo, Then
  <1>5. CASE Deliver(p)
    BY <1>5, DidType DEF Deliver, OnRepo, Then
  <1> QED
    BY <1>1, <1>2, <1>3, <1>4, <1>5

LEMMA NotifyType ==
    ASSUME TypeInv, NEW p \in Processes, Notify(p)
    PROVE  TypeInv'
  <1> DEFINE r == procs[p]
             s == [r EXCEPT !.phase = "end"]
  <1>1. At(p, "notify") /\ ~At(p, "idle")
    BY DEF Notify, At
  <1>2. r \in Proc /\ ProcInv(r) /\ Call(p) \in Calls /\ r.call = Call(p) /\ r.phase = "notify"
    BY <1>1, CallKnown DEF Call, At
  <1>3. Sets(p, s) /\ UNCHANGED <<tables, stored, admitted, log, calls, deaths>>
    BY DEF Notify, Goes, Sets
  <1> HIDE DEF r
  <1>4. /\ s \in Proc /\ s.phase = "end" /\ s.call = r.call /\ s.tenant = r.tenant
        /\ s.seen = r.seen /\ s.did = r.did
    BY <1>2 DEF Proc, Phases
  <1> HIDE DEF s
  <1>5. ProcInv(s)
    BY <1>2, <1>4 DEF ProcInv
  <1> QED
    BY <1>1, <1>3, <1>4, <1>5, GoneOnType

LEMMA AddMemberType ==
    ASSUME TypeInv, NEW p \in Processes, AddMember(p)
    PROVE  TypeInv'
  <1> DEFINE r == procs[p]
             s == [r EXCEPT !.phase = "enroll"]
  <1>1. At(p, "act") /\ Call(p).op = "add" /\ ~At(p, "idle")
    BY DEF AddMember, At
  <1>2. r \in Proc /\ ProcInv(r) /\ Call(p) \in Calls /\ r.call = Call(p) /\ r.phase = "act"
    BY <1>1, CallKnown DEF Call, At
  <1>3. Sets(p, s) /\ UNCHANGED <<tables, stored, admitted, log, calls, deaths>>
    BY DEF AddMember, Goes, Sets
  <1> HIDE DEF r
  <1>4. /\ s \in Proc /\ s.phase = "enroll" /\ s.call = r.call /\ s.tenant = r.tenant
        /\ s.seen = r.seen /\ s.did = r.did /\ s.todo = r.todo
    BY <1>2 DEF Proc, Phases
  <1> HIDE DEF s
  <1>5. ProcInv(s)
    BY <1>1, <1>2, <1>4 DEF ProcInv
  <1> QED
    BY <1>1, <1>3, <1>4, <1>5, GoneOnType

(* The tables when the row of a tenant is replaced.                        *)
LEMMA SaveTenantType ==
    ASSUME TypeInv, NEW p \in Processes, NEW t \in Tenants, NEW row \in Tenant, NEW proc,
           SaveTenant(p, t, row, proc), UNCHANGED members
    PROVE  TablesOk'
  <1>1. TablesOk
    BY TypeParts
  <1>2. /\ FirstOf(t) \in Seq(Tenants) /\ IsInjective(FirstOf(t))
        /\ ToSet(FirstOf(t)) = ToSet(recent) \cup {t}
    BY MovedFirst DEF TypeInv
  <1>3. tenants' = [tenants EXCEPT ![t] = row] /\ recent' = FirstOf(t)
    BY DEF SaveTenant
  <1>4. row # None
    BY NoneAssumption
  <1>5. \A u \in Tenants : tenants'[u] # None <=> (tenants[u] # None \/ u = t)
    BY <1>1, <1>3, <1>4 DEF TablesOk
  <1>6. tenants' \in [Tenants -> OrNone(Tenant)]
    BY <1>1, <1>3 DEF TablesOk, OrNone
  <1>7. ToSet(recent') = {u \in Tenants : tenants'[u] # None}
    BY <1>1, <1>2, <1>3, <1>5 DEF TablesOk
  <1> QED
    BY <1>1, <1>2, <1>3, <1>6, <1>7 DEF TablesOk

LEMMA RegisterType ==
    ASSUME TypeInv, NEW p \in Processes, Register(p)
    PROVE  TypeInv'
  <1> DEFINE r == procs[p]
             call == Call(p)
             row == [status |-> "active", policy |-> call.policy]
             s == [r EXCEPT !.phase = "enroll", !.tenant = call.tenant, !.todo = call.members]
  <1>1. At(p, "act") /\ call.op = "register" /\ ~At(p, "idle")
    BY DEF Register, At
  <1>2. /\ r \in Proc /\ ProcInv(r) /\ call \in Calls /\ r.call = call /\ r.phase = "act"
        /\ call.members # <<>>
    BY <1>1, CallKnown DEF Call, At
  <1>3. call.tenant \in Tenants /\ call.members \in Seq(Actors \X Member) /\ row \in Tenant
    BY <1>2 DEF Calls, Tenant, Statuses
  <1>4. SaveTenant(p, call.tenant, row, s) /\ UNCHANGED <<members, stored, admitted, log, calls, deaths>>
    BY DEF Register
  <1>5. TablesOk'
    BY <1>3, <1>4, SaveTenantType
  <1>6. Writes(p, s)
    BY <1>4 DEF SaveTenant
  <1> HIDE DEF r, call
  <1>7. /\ s \in Proc /\ s.phase = "enroll" /\ s.call = call /\ s.tenant = call.tenant
        /\ s.todo = call.members /\ s.did = r.did
    BY <1>2, <1>3 DEF Proc, Phases, OrNone
  <1> HIDE DEF s
  <1>8. ProcInv(s)
    BY <1>1, <1>2, <1>3, <1>7 DEF ProcInv
  <1>9. ProcsOk' /\ LogOk'
    BY <1>1, <1>4, <1>6, <1>7, <1>8, GoneOn
  <1>10. ApiOk'
    BY <1>4, TypeParts, PartsKept
  <1> QED
    BY <1>5, <1>9, <1>10, TypePartsLater

(* A change of a tenant by one who has read its row.                       *)
LEMMA ChangeType ==
    ASSUME TypeInv, NEW p \in Processes, At(p, "act"), Call(p).op \in {"policy", "status"},
           NEW row \in Tenant,
           SaveTenant(p, procs[p].tenant, row, [procs[p] EXCEPT !.phase = "end"]),
           UNCHANGED <<members, stored, admitted, log, calls, deaths>>
    PROVE  TypeInv'
  <1> DEFINE r == procs[p]
             s == [r EXCEPT !.phase = "end"]
  <1>1. ~At(p, "idle")
    BY DEF At
  <1>2. /\ r \in Proc /\ ProcInv(r) /\ Call(p) \in Calls /\ r.call = Call(p)
        /\ r.phase = "act"
    BY <1>1, CallKnown DEF Call, At
  <1>3. r.tenant \in Tenants
    BY <1>2 DEF ProcInv
  <1>4. SaveTenant(p, r.tenant, row, s)
    OBVIOUS
  <1>5. Writes(p, s) /\ TablesOk'
    BY <1>3, <1>4, SaveTenantType DEF SaveTenant
  <1> HIDE DEF r
  <1>6. /\ s \in Proc /\ s.phase = "end" /\ s.call = r.call /\ s.did = r.did
    BY <1>2 DEF Proc, Phases
  <1> HIDE DEF s
  <1>7. ProcInv(s)
    BY <1>2, <1>6 DEF ProcInv
  <1>8. ProcsOk' /\ LogOk'
    BY <1>1, <1>5, <1>6, <1>7, GoneOn
  <1>9. ApiOk'
    BY TypeParts, PartsKept
  <1> QED
    BY <1>5, <1>8, <1>9, TypePartsLater

LEMMA SeenKnown ==
    ASSUME TypeInv, NEW p \in Processes, At(p, "act"), Call(p).op \in {"policy", "status"}
    PROVE  procs[p].seen \in Tenant /\ Call(p) \in Calls
  <1>1. ~At(p, "idle")
    BY DEF At
  <1>2. ProcInv(procs[p]) /\ Call(p) \in Calls
    BY <1>1, CallKnown
  <1> QED
    BY <1>2 DEF ProcInv, At, Call

LEMMA SetPolicyType ==
    ASSUME TypeInv, NEW p \in Processes, SetPolicy(p)
    PROVE  TypeInv'
  <1> DEFINE row == [procs[p].seen EXCEPT !.policy = Call(p).policy]
  <1>1. At(p, "act") /\ Call(p).op \in {"policy", "status"}
    BY DEF SetPolicy
  <1>2. procs[p].seen \in Tenant /\ Call(p).policy \in Nat
    BY <1>1, SeenKnown DEF Calls
  <1>3. row \in Tenant
    BY <1>2 DEF Tenant
  <1>4. /\ SaveTenant(p, procs[p].tenant, row, [procs[p] EXCEPT !.phase = "end"])
        /\ UNCHANGED <<members, stored, admitted, log, calls, deaths>>
    BY DEF SetPolicy
  <1> HIDE DEF row
  <1> QED
    BY <1>1, <1>3, <1>4, ChangeType

LEMMA SetStatusType ==
    ASSUME TypeInv, NEW p \in Processes, SetStatus(p)
    PROVE  TypeInv'
  <1> DEFINE row == [procs[p].seen EXCEPT !.status = Call(p).status]
  <1>1. At(p, "act") /\ Call(p).op \in {"policy", "status"}
    BY DEF SetStatus
  <1>2. procs[p].seen \in Tenant /\ Call(p).status \in Statuses
    BY <1>1, SeenKnown DEF Calls
  <1>3. row \in Tenant
    BY <1>2 DEF Tenant
  <1>4. /\ SaveTenant(p, procs[p].tenant, row, [procs[p] EXCEPT !.phase = "end"])
        /\ UNCHANGED <<members, stored, admitted, log, calls, deaths>>
    BY DEF SetStatus
  <1> HIDE DEF row
  <1> QED
    BY <1>1, <1>3, <1>4, ChangeType

LEMMA EnrollType ==
    ASSUME TypeInv, NEW p \in Processes, Enroll(p)
    PROVE  TypeInv'
  <1> DEFINE r == procs[p]
             entry == Head(r.todo)
             phase == IF Tail(r.todo) # <<>> THEN "enroll"
                      ELSE IF r.call.replace THEN "prune" ELSE "end"
             s == [r EXCEPT !.todo = Tail(@), !.phase = phase]
  <1>1. At(p, "enroll") /\ ~At(p, "idle")
    BY DEF Enroll, At
  <1>2. /\ r \in Proc /\ ProcInv(r) /\ Call(p) \in Calls /\ r.call = Call(p)
        /\ r.phase = "enroll"
    BY <1>1, CallKnown DEF Call, At
  <1>3. r.tenant \in Tenants /\ r.todo # <<>> /\ r.todo \in Seq(Actors \X Member)
    BY <1>2 DEF ProcInv, Proc
  <1>4. entry \in Actors \X Member /\ Tail(r.todo) \in Seq(Actors \X Member)
    BY <1>3
  <1>5. /\ members' = [members EXCEPT ![r.tenant][entry[1]] = entry[2]] /\ Writes(p, s)
        /\ UNCHANGED <<tenants, recent, stored, admitted, log, calls, deaths>>
    BY DEF Enroll
  <1>6. TablesOk'
    <2>1. TablesOk
      BY TypeParts
    <2>2. entry[1] \in Actors /\ entry[2] \in OrNone(Member)
      BY <1>4 DEF OrNone
    <2> HIDE DEF entry, r
    <2>3. members' \in [Tenants -> [Actors -> OrNone(Member)]]
      BY <1>3, <1>5, <2>1, <2>2 DEF TablesOk
    <2> QED
      BY <1>5, <2>1, <2>3 DEF TablesOk
  <1> HIDE DEF r
  <1>7. phase \in {"enroll", "prune", "end"}
    OBVIOUS
  <1>8. phase = "enroll" => Tail(r.todo) # <<>>
    OBVIOUS
  <1> HIDE DEF phase
  <1>9. /\ s \in Proc /\ s.phase = phase /\ s.call = r.call /\ s.tenant = r.tenant
        /\ s.todo = Tail(r.todo) /\ s.did = r.did
    BY <1>2, <1>4, <1>7 DEF Proc, Phases
  <1> HIDE DEF s
  <1>10. ProcInv(s)
    BY <1>2, <1>7, <1>8, <1>9 DEF ProcInv
  <1>11. ProcsOk' /\ LogOk'
    BY <1>1, <1>5, <1>7, <1>9, <1>10, GoneOn
  <1>12. ApiOk'
    BY <1>5, TypeParts, PartsKept
  <1> QED
    BY <1>6, <1>11, <1>12, TypePartsLater

LEMMA PruneType ==
    ASSUME TypeInv, NEW p \in Processes, Prune(p)
    PROVE  TypeInv'
  <1> DEFINE r == procs[p]
             s == [r EXCEPT !.phase = "end"]
  <1>1. At(p, "prune") /\ ~At(p, "idle")
    BY DEF Prune, At
  <1>2. /\ r \in Proc /\ ProcInv(r) /\ Call(p) \in Calls /\ r.call = Call(p)
        /\ r.phase = "prune"
    BY <1>1, CallKnown DEF Call, At
  <1>3. r.tenant \in Tenants
    BY <1>2 DEF ProcInv
  <1>4. /\ members' = [members EXCEPT ![r.tenant] =
              [a \in Actors |-> IF a \in Kept(r.call) THEN members[r.tenant][a] ELSE None]]
        /\ Writes(p, s)
        /\ UNCHANGED <<tenants, recent, stored, admitted, log, calls, deaths>>
    BY DEF Prune
  <1> HIDE DEF r
  <1>5. TablesOk'
    <2>1. TablesOk
      BY TypeParts
    <2>2. members' \in [Tenants -> [Actors -> OrNone(Member)]]
      BY <1>3, <1>4, <2>1 DEF TablesOk, OrNone
    <2> QED
      BY <1>4, <2>1, <2>2 DEF TablesOk
  <1>6. /\ s \in Proc /\ s.phase = "end" /\ s.call = r.call /\ s.did = r.did
    BY <1>2 DEF Proc, Phases
  <1> HIDE DEF s
  <1>7. ProcInv(s)
    BY <1>2, <1>6 DEF ProcInv
  <1>8. ProcsOk' /\ LogOk'
    BY <1>1, <1>4, <1>6, <1>7, GoneOn
  <1>9. ApiOk'
    BY <1>4, TypeParts, PartsKept
  <1> QED
    BY <1>5, <1>8, <1>9, TypePartsLater

(* The request of the API that ends is the one that was counted last.      *)
LEMMA NextId ==
    ASSUME TypeInv, ~At(Api, "idle")
    PROVE  Len(log) + 1 \in 1..MaxCalls
  BY AccessAssumption DEF TypeInv, TypeOK

LEMMA SlotKnown ==
    ASSUME NEW call \in Calls, SlotOf(call) # None
    PROVE  SlotOf(call) \in Slots /\ call.body \in Bodies
  BY DEF SlotOf, OrNone, Slots, Calls

LEMMA FinishType ==
    ASSUME TypeInv, NEW p \in Processes, Finish(p)
    PROVE  TypeInv'
  <1> DEFINE id == IF p = Api THEN Len(log) + 1 ELSE 0
             answer == [body |-> Call(p).body, status |-> 200, id |-> id]
  <1>1. At(p, "end") /\ ~At(p, "idle")
    BY DEF Finish, At
  <1>2. Call(p) \in Calls
    BY <1>1, CallKnown
  <1>3. id \in 0..MaxCalls /\ (p = Api => id \in 1..MaxCalls)
    BY <1>1, NextId, AccessAssumption
  <1>4. TablesOk /\ ApiOk /\ ProcsOk /\ LogOk
    BY TypeParts
  <1>5. UNCHANGED <<tables, admitted, calls, deaths>>
    BY DEF Finish
  <1>6. PICK status \in {200, 500}, n \in {0, id} : Leave(p, status, n)
    BY DEF Finish
  <1>7. status \in Outcomes /\ n \in 0..MaxCalls
    BY <1>3, AccessAssumption DEF Outcomes, OrNone, Answers
  <1>8. stored' = IF Storing(p) THEN [stored EXCEPT ![SlotOf(Call(p))] = answer] ELSE stored
    BY DEF Finish
  <1>9. ApiOk'
    <2>1. CASE Storing(p)
      <3>1. p = Api /\ SlotOf(Call(p)) \in Slots /\ answer \in Saved
        BY <1>2, <1>3, <2>1, SlotKnown DEF Storing, Saved
      <3> HIDE DEF answer
      <3>2. stored' \in [Slots -> {None, Torn} \cup Saved]
        BY <1>4, <1>8, <2>1, <3>1 DEF ApiOk
      <3> QED
        BY <1>4, <1>5, <3>2 DEF ApiOk
    <2>2. CASE ~Storing(p)
      BY <1>4, <1>5, <1>8, <2>2, PartsKept
    <2> QED
      BY <2>1, <2>2
  <1>10. deaths' \in 0..MaxDeaths /\ calls' = calls
    BY <1>4, <1>5 DEF LogOk
  <1>11. ProcsOk' /\ LogOk'
    BY <1>1, <1>6, <1>7, <1>10, LeaveTyped DEF Outcomes
  <1>12. TablesOk'
    BY <1>4, <1>5, PartsKept
  <1> QED
    BY <1>9, <1>11, <1>12, TypePartsLater

LEMMA TearTyped ==
    ASSUME ApiOk, NEW p \in Processes, Call(p) \in Calls, MayTear(p)
    PROVE  stored' \in [Slots -> {None, Torn} \cup Saved]
  <1>1. CASE UNCHANGED stored
    BY <1>1 DEF ApiOk
  <1>2. CASE Storing(p) /\ stored' = [stored EXCEPT ![SlotOf(Call(p))] = Torn]
    <2>1. SlotOf(Call(p)) \in Slots
      BY <1>2, SlotKnown DEF Storing
    <2> QED
      BY <1>2, <2>1 DEF ApiOk
  <1> QED
    BY <1>1, <1>2 DEF MayTear

LEMMA RaiseType ==
    ASSUME TypeInv, NEW p \in Processes, Raise(p)
    PROVE  TypeInv'
  <1>1. ~At(p, "idle") /\ MayTear(p) /\ UNCHANGED <<tables, admitted, calls, deaths>>
    BY DEF Raise
  <1>2. TablesOk /\ ApiOk /\ ProcsOk /\ LogOk /\ Call(p) \in Calls
    BY <1>1, TypeParts, CallKnown
  <1>3. PICK status \in {400, 500} : Leave(p, status, 0)
    BY DEF Raise
  <1>4. ApiOk'
    BY <1>1, <1>2, TearTyped DEF ApiOk
  <1>5. ProcsOk' /\ LogOk'
    <2> DEFINE id == 0
    <2>1. status \in Outcomes /\ id \in 0..MaxCalls /\ Leave(p, status, id)
      BY <1>3, AccessAssumption DEF Outcomes, OrNone, Answers
    <2>2. deaths' \in 0..MaxDeaths /\ calls' = calls
      BY <1>1, <1>2 DEF LogOk
    <2> HIDE DEF id
    <2> QED
      BY <1>1, <2>1, <2>2, LeaveTyped DEF Outcomes
  <1>6. TablesOk'
    BY <1>1, <1>2, PartsKept
  <1> QED
    BY <1>4, <1>5, <1>6, TypePartsLater

LEMMA DieType ==
    ASSUME TypeInv, NEW p \in Processes, Die(p)
    PROVE  TypeInv'
  <1>1. ~At(p, "idle") /\ Leave(p, None, 0) /\ UNCHANGED <<tables, calls>>
        /\ deaths < MaxDeaths /\ deaths' = deaths + 1
    BY DEF Die
  <1>2. TablesOk /\ ApiOk /\ ProcsOk /\ LogOk /\ Call(p) \in Calls
    BY <1>1, TypeParts, CallKnown
  <1>3. ApiOk'
    <2>1. stored' \in [Slots -> {None, Torn} \cup Saved]
      BY <1>2, TearTyped DEF Die
    <2>2. /\ admitted' \in [Clients -> Seq(0..(Window - 1))]
          /\ \A c \in Clients : Len(admitted'[c]) <= Limit /\ Ordered(admitted'[c])
      <3>1. CASE admitted' = admitted
        BY <1>2, <3>1 DEF ApiOk
      <3>2. CASE admitted' = [c \in Clients |-> <<>>]
        BY <3>2, AccessAssumption DEF Ordered
      <3> QED
        BY <3>1, <3>2 DEF Die
    <2> QED
      BY <2>1, <2>2 DEF ApiOk
  <1>4. ProcsOk' /\ LogOk'
    <2> DEFINE status == None
               id == 0
    <2>1. status \in Outcomes /\ id \in 0..MaxCalls /\ Leave(p, status, id)
      BY <1>1, AccessAssumption DEF Outcomes, OrNone, Answers
    <2>2. deaths' \in 0..MaxDeaths /\ calls' = calls
      BY <1>1, <1>2, AccessAssumption DEF LogOk
    <2> HIDE DEF status, id
    <2> QED
      BY <1>1, <2>1, <2>2, LeaveTyped DEF Outcomes
  <1>5. TablesOk'
    BY <1>1, <1>2, PartsKept
  <1> QED
    BY <1>3, <1>4, <1>5, TypePartsLater

LEMMA NextTypeInv == TypeInv /\ [Next]_vars => TypeInv'
  <1> SUFFICES ASSUME TypeInv, [Next]_vars PROVE TypeInv'
    OBVIOUS
  <1>1. CASE \E call \in Requests : Receive(call)
    BY <1>1, ReceiveType
  <1>2. CASE \E p \in Commands, task \in Tasks : Run(p, task)
    BY <1>2, RunType
  <1>3. ASSUME NEW p \in Processes, Step(p) PROVE TypeInv'
    BY <1>3, StartType, ResolveType, CheckType, WorkType, NotifyType, RegisterType,
       SetPolicyType, SetStatusType, AddMemberType, EnrollType, PruneType, FinishType
       DEF Step
  <1>4. CASE \E p \in Processes : Raise(p) \/ Die(p)
    BY <1>4, RaiseType, DieType
  <1>5. CASE Tick
    BY <1>5, TickType
  <1>6. CASE UNCHANGED vars
    BY <1>6, TypeParts, PartsKept, TypePartsLater DEF vars
  <1> QED
    BY <1>1, <1>2, <1>3, <1>4, <1>5, <1>6 DEF Next

(* Tables, files of answers, admissions and processes are what they are    *)
(* said to be: a client is never over its limit, there is one latest       *)
(* update of each tenant, and more requests end than arrive at no time.    *)
THEOREM TypeCorrect == Spec => []TypeOK
  <1>1. Spec => []TypeInv
    BY InitTypeInv, NextTypeInv, PTL DEF Spec
  <1>2. TypeInv => TypeOK
    BY DEF TypeInv
  <1> QED
    BY <1>1, <1>2, PTL

-----------------------------------------------------------------------------
(* Answers under a key.                                                    *)

(* What was answered with a success under a key is what is stored under    *)
(* it, and nothing is stored under the key of a request that is underway.  *)
AnswersStored ==
    \A i \in DOMAIN log : Answered(log[i]) /\ log[i].slot # None =>
        /\ stored[log[i].slot] \in Saved
        /\ stored[log[i].slot].id = log[i].id /\ stored[log[i].slot].body = log[i].body

UnderwayUnstored ==
    ~At(Api, "idle") /\ SlotOf(Call(Api)) # None => stored[SlotOf(Call(Api))] = None

StoreInv == AnswersStored /\ UnderwayUnstored /\ RepeatedOnlyAfterError

(* Neither the log nor the answers stored change, nor does the API turn to *)
(* another request.                                                        *)
Quiet ==
    /\ UNCHANGED <<log, stored>>
    /\ Call(Api)' = Call(Api) /\ (At(Api, "idle")' <=> At(Api, "idle"))

LEMMA ProcGoneOn ==
    ASSUME TypeInv, NEW p \in Processes, ~At(p, "idle"), NEW proc,
           proc.call = Call(p), proc.phase # "idle",
           Sets(p, proc) \/ Writes(p, proc), UNCHANGED <<log, stored>>
    PROVE  Quiet
  <1>1. procs \in [Processes -> Proc] /\ Api \in Processes
    BY DEF TypeInv, TypeOK, Processes
  <1>2. CASE p = Api
    BY <1>1, <1>2 DEF Quiet, Sets, Writes, Call, At
  <1>3. CASE p # Api
    <2>1. procs'[Api] = procs[Api] \/ procs'[Api] = [procs[Api] EXCEPT !.alone = At(Api, "idle")]
      BY <1>1, <1>3 DEF Sets, Writes
    <2>2. procs'[Api].call = procs[Api].call /\ procs'[Api].phase = procs[Api].phase
      BY <1>1, <2>1 DEF Proc, At
    <2> QED
      BY <2>2 DEF Quiet, Call, At
  <1> QED
    BY <1>2, <1>3

(* Steps other than the last of a request are quiet.                       *)
LEMMA QuietSteps ==
    ASSUME TypeInv, NEW p \in Processes, Step(p)
    PROVE  \/ Quiet
           \/ Finish(p)
           \/ UNCHANGED stored /\ \E status \in {400, 403} : Leave(p, status, 0)
  <1> DEFINE r == procs[p]
  <1>1. r \in Proc
    BY DEF TypeInv, TypeOK
  <1>2. CASE Start(p)
    <2>1. CASE WellFormed(Call(p))
      <3> DEFINE s == [r EXCEPT !.phase = IF Call(p).op \in {"open", "register"} THEN "act" ELSE "resolve"]
      <3>1. Sets(p, s) /\ UNCHANGED <<log, stored>> /\ ~At(p, "idle")
        BY <1>2, <2>1 DEF Start, Goes, Sets, At
      <3>2. s.call = Call(p) /\ s.phase # "idle"
        BY <1>1 DEF Proc, Call
      <3> HIDE DEF s
      <3> QED
        BY <3>1, <3>2, ProcGoneOn
    <2>2. CASE ~WellFormed(Call(p))
      BY <1>2, <2>2 DEF Start
    <2> QED
      BY <2>1, <2>2
  <1>3. CASE Resolve(p)
    <2> DEFINE call == Call(p)
               owner == IF call.op \in OnRepo THEN OwnerOf(call.repo, recent) ELSE call.tenant
               row == IF owner = None THEN None ELSE tenants[owner]
    <2>1. ~At(p, "idle") /\ UNCHANGED stored
      BY <1>3 DEF Resolve, At
    <2>2. CASE Goes(p, "act") /\ UNCHANGED log
      <3> DEFINE s == [r EXCEPT !.phase = "act"]
      <3>1. Sets(p, s) /\ s.call = Call(p) /\ s.phase # "idle"
        BY <1>1, <2>2 DEF Goes, Sets, Proc, Call
      <3> HIDE DEF s
      <3> QED
        BY <2>1, <2>2, <3>1, ProcGoneOn
    <2>3. CASE /\ UNCHANGED log
               /\ procs' = [procs EXCEPT ![p].phase = "check", ![p].tenant = owner, ![p].seen = row]
      <3> HIDE DEF owner, row
      <3> DEFINE s == [r EXCEPT !.phase = "check", !.tenant = owner, !.seen = row]
      <3>1. Sets(p, s) /\ s.call = Call(p) /\ s.phase # "idle"
        BY <1>1, <2>3 DEF Sets, Proc, Call
      <3> HIDE DEF s
      <3> QED
        BY <2>1, <2>3, <3>1, ProcGoneOn
    <2>4. CASE Leave(p, IF row = None THEN 400 ELSE 403, 0)
      <3> HIDE DEF row
      <3> QED
        BY <2>1, <2>4
    <2> QED
      BY <1>3, <2>2, <2>3, <2>4, Zenon DEF Resolve
  <1>4. CASE Check(p)
    <2> DEFINE s == [r EXCEPT !.phase = NextOf(Call(p).op), !.todo = Call(p).members]
    <2>1. ~At(p, "idle") /\ UNCHANGED stored
      BY <1>4 DEF Check, At
    <2>2. CASE UNCHANGED log /\ Sets(p, s)
      <3>1. NextOf(Call(p).op) # "idle"
        BY DEF NextOf
      <3>2. s.call = Call(p) /\ s.phase = NextOf(Call(p).op)
        BY <1>1 DEF Proc, Call
      <3> HIDE DEF s
      <3> QED
        BY <2>1, <2>2, <3>1, <3>2, ProcGoneOn
    <2>3. CASE Leave(p, 403, 0)
      BY <2>1, <2>3
    <2> QED
      BY <1>4, <2>2, <2>3 DEF Check, Sets
  <1>5. ASSUME NEW phase \in {"notify", "end"}, Did(p, phase), At(p, "act") PROVE Quiet
    <2> DEFINE s == [r EXCEPT !.did = TRUE, !.phase = phase]
    <2>1. Sets(p, s) /\ UNCHANGED <<log, stored>> /\ ~At(p, "idle")
      BY <1>5 DEF Did, Sets, At
    <2>2. s.call = Call(p) /\ s.phase # "idle"
      BY <1>1 DEF Proc, Call
    <2> HIDE DEF s
    <2> QED
      BY <2>1, <2>2, ProcGoneOn
  <1>6. CASE Serve(p) \/ EnqueueJob(p) \/ RequestApproval(p) \/ ReviewApproval(p) \/ Deliver(p)
    BY <1>5, <1>6 DEF Serve, EnqueueJob, RequestApproval, ReviewApproval, Deliver, Then
  <1>7. ASSUME NEW phase \in {"enroll", "end"}, Goes(p, phase), UNCHANGED <<log, stored>>,
               ~At(p, "idle")
        PROVE  Quiet
    <2> DEFINE s == [r EXCEPT !.phase = phase]
    <2>1. Sets(p, s) /\ s.call = Call(p) /\ s.phase # "idle"
      BY <1>1, <1>7 DEF Goes, Sets, Proc, Call
    <2> HIDE DEF s
    <2> QED
      BY <1>7, <2>1, ProcGoneOn
  <1>8. CASE Notify(p) \/ AddMember(p)
    BY <1>7, <1>8 DEF Notify, AddMember, At
  <1>9. CASE Register(p)
    <2> DEFINE s == [r EXCEPT !.phase = "enroll", !.tenant = Call(p).tenant, !.todo = Call(p).members]
    <2>1. Writes(p, s) /\ UNCHANGED <<log, stored>> /\ ~At(p, "idle")
      BY <1>9 DEF Register, SaveTenant, At
    <2>2. s.call = Call(p) /\ s.phase # "idle"
      BY <1>1 DEF Proc, Call
    <2> HIDE DEF s
    <2> QED
      BY <2>1, <2>2, ProcGoneOn
  <1>10. CASE SetPolicy(p) \/ SetStatus(p) \/ Prune(p)
    <2> DEFINE s == [r EXCEPT !.phase = "end"]
    <2>1. Writes(p, s) /\ UNCHANGED <<log, stored>> /\ ~At(p, "idle")
      BY <1>10 DEF SetPolicy, SetStatus, Prune, SaveTenant, At
    <2>2. s.call = Call(p) /\ s.phase # "idle"
      BY <1>1 DEF Proc, Call
    <2> HIDE DEF s
    <2> QED
      BY <2>1, <2>2, ProcGoneOn
  <1>11. CASE Enroll(p)
    <2> DEFINE phase == IF Tail(r.todo) # <<>> THEN "enroll"
                        ELSE IF r.call.replace THEN "prune" ELSE "end"
               s == [r EXCEPT !.todo = Tail(@), !.phase = phase]
    <2>1. Writes(p, s) /\ UNCHANGED <<log, stored>> /\ ~At(p, "idle")
      BY <1>11 DEF Enroll, At
    <2>2. phase # "idle"
      OBVIOUS
    <2> HIDE DEF phase
    <2>3. s.call = Call(p) /\ s.phase # "idle"
      BY <1>1, <2>2 DEF Proc, Call
    <2> HIDE DEF s
    <2> QED
      BY <2>1, <2>3, ProcGoneOn
  <1> QED
    BY <1>2, <1>3, <1>4, <1>6, <1>8, <1>9, <1>10, <1>11 DEF Step

(* What is logged, when none that answered under its key was before it.    *)
LEMMA LogGrown ==
    ASSUME TypeInv, StoreInv, NEW entry \in Entry, log' = Append(log, entry),
           \A i \in DOMAIN log : Answered(log[i]) /\ log[i].slot # None =>
               /\ stored'[log[i].slot] = stored[log[i].slot]
               /\ entry.did => log[i].slot # entry.slot,
           Answered(entry) /\ entry.slot # None =>
               /\ stored'[entry.slot] \in Saved
               /\ stored'[entry.slot].id = entry.id /\ stored'[entry.slot].body = entry.body
    PROVE  AnswersStored' /\ RepeatedOnlyAfterError'
  <1>1. log \in Seq(Entry)
    BY DEF TypeInv, TypeOK
  <1>2. /\ DOMAIN log = 1..Len(log) /\ Len(log) \in Nat /\ DOMAIN log' = 1..(Len(log) + 1)
        /\ log'[Len(log) + 1] = entry /\ \A i \in DOMAIN log : log'[i] = log[i]
    BY <1>1
  <1>3. \A i \in DOMAIN log' : i \in DOMAIN log \/ log'[i] = entry
    BY <1>2
  <1>4. AnswersStored'
    <2> SUFFICES ASSUME NEW i \in DOMAIN log', log'[i].status = 200, log'[i].slot # None
                 PROVE  /\ stored'[log'[i].slot] \in Saved
                        /\ stored'[log'[i].slot].id = log'[i].id
                        /\ stored'[log'[i].slot].body = log'[i].body
      BY DEF AnswersStored, Answered
    <2>1. CASE i \in DOMAIN log
      BY <1>2, <2>1 DEF StoreInv, AnswersStored, Answered
    <2>2. CASE log'[i] = entry
      BY <2>2 DEF Answered
    <2> QED
      BY <1>3, <2>1, <2>2
  <1>5. RepeatedOnlyAfterError'
    <2> SUFFICES ASSUME NEW i \in DOMAIN log', NEW j \in DOMAIN log', i < j,
                        log'[i].slot # None, log'[i].slot = log'[j].slot, log'[i].status = 200
                 PROVE  ~log'[j].did
      BY DEF RepeatedOnlyAfterError, Keyed, Answered
    <2>1. i \in DOMAIN log /\ log'[i] = log[i]
      BY <1>2
    <2>2. CASE j \in DOMAIN log
      BY <1>2, <2>1, <2>2 DEF StoreInv, RepeatedOnlyAfterError, Keyed, Answered
    <2>3. CASE log'[j] = entry
      BY <2>1, <2>3 DEF Answered
    <2> QED
      BY <1>3, <2>2, <2>3
  <1> QED
    BY <1>4, <1>5

LEMMA QuietStore ==
    ASSUME StoreInv, Quiet
    PROVE  StoreInv'
  <1>1. AnswersStored' /\ RepeatedOnlyAfterError'
    BY DEF StoreInv, Quiet, AnswersStored, RepeatedOnlyAfterError, Keyed, Answered
  <1>2. UnderwayUnstored'
    BY DEF StoreInv, Quiet, UnderwayUnstored
  <1> QED
    BY <1>1, <1>2 DEF StoreInv

(* A request ends, and an answer is stored with it or not.                 *)
LEMMA LeaveStore ==
    ASSUME TypeInv, StoreInv, NEW p \in Processes, ~At(p, "idle"), NEW status \in Outcomes,
           NEW id \in 0..MaxCalls, Leave(p, status, id),
           \/ UNCHANGED stored
           \/ /\ p = Api /\ SlotOf(Call(p)) # None
              /\ \E x : stored' = [stored EXCEPT ![SlotOf(Call(p))] = x],
           p = Api /\ status = 200 /\ SlotOf(Call(p)) # None =>
               stored'[SlotOf(Call(p))] = [body |-> Call(p).body, status |-> 200, id |-> id]
               /\ id \in 1..MaxCalls
    PROVE  StoreInv'
  <1>1. procs \in [Processes -> Proc] /\ Api \in Processes
    BY DEF TypeInv, TypeOK, Processes
  <1>2. CASE p # Api
    <2>1. procs'[Api] = procs[Api] /\ UNCHANGED <<log, stored>>
      BY <1>1, <1>2 DEF Leave
    <2>2. Quiet
      BY <2>1 DEF Quiet, Call, At
    <2> QED
      BY <2>2, QuietStore
  <1>3. CASE p = Api
    <2> DEFINE call == Call(Api)
               slot == SlotOf(call)
               entry == [slot |-> slot, body |-> call.body, did |-> procs[Api].did,
                         status |-> status, id |-> id]
    <2>1. log' = Append(log, entry) /\ At(Api, "idle")'
      BY <1>1, <1>3 DEF Leave, Logged, At, IdleProc
    <2>2. call \in Calls /\ procs[Api].did \in BOOLEAN
      BY <1>3, CallKnown DEF Proc
    <2>3. slot \in OrNone(Slots) /\ call.body \in Bodies
      BY <2>2, SlotKnown DEF OrNone, SlotOf, Calls
    <2>4. entry \in Entry
      BY <2>2, <2>3 DEF Entry, Outcomes
    <2>5. slot # None => stored[slot] = None
      BY <1>3 DEF StoreInv, UnderwayUnstored
    <2>6. ASSUME NEW i \in DOMAIN log, Answered(log[i]), log[i].slot # None
          PROVE  log[i].slot # slot /\ stored'[log[i].slot] = stored[log[i].slot]
      <3>1. stored[log[i].slot] # None
        BY <2>6, NoneAssumption DEF StoreInv, AnswersStored
      <3>2. log[i].slot # slot
        BY <2>5, <2>6, <3>1
      <3>3. log[i] \in Entry
        BY DEF TypeInv, TypeOK
      <3>4. log[i].slot \in Slots
        BY <2>6, <3>3 DEF Entry, OrNone
      <3>5. stored \in [Slots -> {None, Torn} \cup Saved]
        BY DEF TypeInv, TypeOK
      <3> QED
        BY <1>3, <3>2, <3>4, <3>5
    <2>7. Answered(entry) /\ entry.slot # None =>
             /\ stored'[entry.slot] \in Saved
             /\ stored'[entry.slot].id = entry.id /\ stored'[entry.slot].body = entry.body
      BY <1>3, <2>3 DEF Answered, Saved
    <2>8. entry.slot = slot
      OBVIOUS
    <2> HIDE DEF entry, slot, call
    <2>9. AnswersStored' /\ RepeatedOnlyAfterError'
      BY <2>1, <2>4, <2>6, <2>7, <2>8, LogGrown
    <2>10. UnderwayUnstored'
      BY <2>1 DEF UnderwayUnstored
    <2> QED
      BY <2>9, <2>10 DEF StoreInv
  <1> QED
    BY <1>2, <1>3

LEMMA ReceiveStore ==
    ASSUME TypeInv, StoreInv, NEW call \in Requests, Receive(call)
    PROVE  StoreInv'
  <1> DEFINE slot == SlotOf(call)
  <1>1. /\ At(Api, "idle") /\ UNCHANGED stored /\ call \in Calls /\ Api \in Processes
        /\ procs \in [Processes -> Proc]
    BY CallsAssumption DEF Receive, TypeInv, TypeOK, Processes
  <1>2. 0 \in 0..MaxCalls /\ slot \in OrNone(Slots) /\ call.body \in Bodies
    BY <1>1, SlotKnown, AccessAssumption DEF OrNone, Calls
  <1>3. ASSUME NEW entry \in Entry, log' = Append(log, entry), entry.did = FALSE,
               UNCHANGED procs,
               Answered(entry) /\ entry.slot # None =>
                   /\ stored[entry.slot] \in Saved
                   /\ stored[entry.slot].id = entry.id /\ stored[entry.slot].body = entry.body
        PROVE  StoreInv'
    <2>1. AnswersStored' /\ RepeatedOnlyAfterError'
      BY <1>1, <1>3, LogGrown
    <2>2. UnderwayUnstored'
      BY <1>1, <1>3 DEF UnderwayUnstored, At
    <2> QED
      BY <2>1, <2>2 DEF StoreInv
  <1>4. CASE \E status \in {400, 403, 409, 429} : Refuse(call, status)
    <2>1. PICK status \in {400, 403, 409, 429} : Refuse(call, status)
      BY <1>4
    <2> DEFINE entry == [slot |-> slot, body |-> call.body, did |-> FALSE,
                         status |-> status, id |-> 0]
    <2>2. UNCHANGED procs /\ log' = Append(log, entry)
      BY <2>1, Zenon DEF Refuse, Logged
    <2>3. entry \in Entry /\ entry.did = FALSE /\ ~Answered(entry)
      BY <1>2 DEF Entry, OrNone, Answers, Answered
    <2> HIDE DEF entry
    <2> QED
      BY <1>3, <2>2, <2>3
  <1>5. CASE /\ Stored(call) \notin {None, Torn} /\ Stored(call).body = call.body
             /\ Repeat(call)
    <2>1. Stored(call) = stored[slot] /\ slot # None
      BY <1>5 DEF Stored
    <2>2. stored[slot] \in Saved
      BY <1>2, <1>5, <2>1 DEF TypeInv, TypeOK, OrNone
    <2> DEFINE entry == [slot |-> slot, body |-> call.body, did |-> FALSE,
                         status |-> stored[slot].status, id |-> stored[slot].id]
    <2>3. entry \in Entry /\ entry.did = FALSE
      BY <1>2, <2>2, AccessAssumption DEF Saved, Entry, OrNone, Answers
    <2>4. UNCHANGED procs /\ log' = Append(log, entry)
      BY <1>5, <2>1, Zenon DEF Repeat, Logged
    <2>5. /\ stored[entry.slot] \in Saved
          /\ stored[entry.slot].id = entry.id /\ stored[entry.slot].body = entry.body
      BY <1>5, <2>1, <2>2
    <2> HIDE DEF entry
    <2> QED
      BY <1>3, <2>3, <2>4, <2>5
  <1>6. CASE Stored(call) = None /\ Fresh(call)
    <2>1. AnswersStored' /\ RepeatedOnlyAfterError'
      BY <1>1, <1>6 DEF Fresh, StoreInv, AnswersStored, RepeatedOnlyAfterError, Keyed, Answered
    <2>2. procs'[Api].call = call
      BY <1>1, <1>6 DEF Fresh, IdleProc
    <2>3. slot # None => stored[slot] = None
      BY <1>6 DEF Stored
    <2>4. UnderwayUnstored'
      BY <1>1, <2>2, <2>3 DEF UnderwayUnstored, Call
    <2> QED
      BY <2>1, <2>4 DEF StoreInv
  <1> QED
    BY <1>4, <1>5, <1>6 DEF Receive, Replay

LEMMA NextStore == TypeInv /\ StoreInv /\ [Next]_vars => StoreInv'
  <1> SUFFICES ASSUME TypeInv, StoreInv, [Next]_vars PROVE StoreInv'
    OBVIOUS
  <1>1. 0 \in 0..MaxCalls /\ {200, 400, 403, 500, None} \subseteq Outcomes
    BY AccessAssumption DEF Outcomes, OrNone, Answers
  <1>2. ASSUME NEW p \in Processes, ~At(p, "idle"), UNCHANGED stored,
               NEW status \in {400, 403, 500}, Leave(p, status, 0)
        PROVE  StoreInv'
    <2> DEFINE id == 0
    <2>1. id \in 0..MaxCalls /\ Leave(p, status, id) /\ status \in Outcomes /\ status # 200
      BY <1>1, <1>2
    <2> HIDE DEF id
    <2>2. p = Api /\ status = 200 /\ SlotOf(Call(p)) # None =>
            stored'[SlotOf(Call(p))] = [body |-> Call(p).body, status |-> 200, id |-> id]
            /\ id \in 1..MaxCalls
      BY <2>1
    <2> QED
      BY <1>2, <2>1, <2>2, LeaveStore
  <1>3. CASE \E call \in Requests : Receive(call)
    BY <1>3, ReceiveStore
  <1>4. CASE \E p \in Commands, task \in Tasks : Run(p, task)
    <2>1. Quiet
      <3>1. PICK p \in Commands, task \in Tasks : Run(p, task)
        BY <1>4
      <3>2. procs'[Api] = procs[Api] /\ UNCHANGED <<log, stored>>
        BY <3>1, AccessAssumption DEF Run, TypeInv, TypeOK, Processes
      <3> QED
        BY <3>2 DEF Quiet, Call, At
    <2> QED
      BY <2>1, QuietStore
  <1>5. ASSUME NEW p \in Processes, Finish(p) PROVE StoreInv'
    <2> DEFINE id == IF p = Api THEN Len(log) + 1 ELSE 0
               x == [body |-> Call(p).body, status |-> 200, id |-> id]
    <2>1. ~At(p, "idle")
      BY <1>5 DEF Finish, At
    <2>2. id \in 0..MaxCalls /\ (p = Api => id \in 1..MaxCalls)
      BY <1>1, <2>1, NextId
    <2>3. stored' = IF Storing(p) THEN [stored EXCEPT ![SlotOf(Call(p))] = x] ELSE stored
      BY <1>5 DEF Finish
    <2>4. stored \in [Slots -> {None, Torn} \cup Saved] /\ Call(p) \in Calls
      BY <2>1, CallKnown DEF TypeInv, TypeOK
    <2>5. \/ UNCHANGED stored
          \/ /\ p = Api /\ SlotOf(Call(p)) # None
             /\ \E y : stored' = [stored EXCEPT ![SlotOf(Call(p))] = y]
      BY <2>3 DEF Storing
    <2>6. p = Api /\ Answerable(Call(p)) /\ SlotOf(Call(p)) # None => stored'[SlotOf(Call(p))] = x
      BY <2>3, <2>4, SlotKnown DEF Storing
    <2>7. \/ Answerable(Call(p)) /\ Leave(p, 200, id)
          \/ Leave(p, 500, 0)
      BY <1>5 DEF Finish
    <2> HIDE DEF id
    <2>8. CASE Answerable(Call(p)) /\ Leave(p, 200, id)
      BY <1>1, <2>1, <2>2, <2>5, <2>6, <2>8, LeaveStore
    <2>9. CASE Leave(p, 500, 0)
      <3> DEFINE status == 500
                 n == 0
      <3>1. status \in Outcomes /\ n \in 0..MaxCalls /\ Leave(p, status, n) /\ status # 200
        BY <1>1, <2>9
      <3> HIDE DEF status, n
      <3> QED
        BY <2>1, <2>5, <3>1, LeaveStore
    <2> QED
      BY <2>7, <2>8, <2>9
  <1>6. ASSUME NEW p \in Processes, Step(p) PROVE StoreInv'
    <2>1. CASE Quiet
      BY <2>1, QuietStore
    <2>2. CASE Finish(p)
      BY <1>5, <2>2
    <2>3. CASE UNCHANGED stored /\ \E status \in {400, 403} : Leave(p, status, 0)
      <3>1. ~At(p, "idle")
        BY <1>6 DEF Step, Start, Resolve, Check, Serve, EnqueueJob, RequestApproval,
           ReviewApproval, Deliver, Notify, Register, SetPolicy, SetStatus, AddMember,
           Enroll, Prune, Finish, At
      <3> QED
        BY <1>2, <2>3, <3>1
    <2> QED
      BY <1>6, <2>1, <2>2, <2>3, QuietSteps
  <1>7. ASSUME NEW p \in Processes, Raise(p) PROVE StoreInv'
    <2>1. PICK status \in {400, 500} : Leave(p, status, 0)
      BY <1>7 DEF Raise
    <2> DEFINE id == 0
    <2>2. ~At(p, "idle") /\ Leave(p, status, id)
      BY <1>7, <2>1 DEF Raise
    <2>3. \/ UNCHANGED stored
          \/ /\ p = Api /\ SlotOf(Call(p)) # None
             /\ \E x : stored' = [stored EXCEPT ![SlotOf(Call(p))] = x]
      BY <1>7 DEF Raise, MayTear, Storing
    <2>4. status \in Outcomes /\ id \in 0..MaxCalls /\ status # 200
      BY <1>1 DEF Answers
    <2> HIDE DEF id
    <2>5. p = Api /\ status = 200 /\ SlotOf(Call(p)) # None =>
            stored'[SlotOf(Call(p))] = [body |-> Call(p).body, status |-> 200, id |-> id]
            /\ id \in 1..MaxCalls
      BY <2>4
    <2> QED
      BY <2>2, <2>3, <2>4, <2>5, LeaveStore
  <1>8. ASSUME NEW p \in Processes, Die(p) PROVE StoreInv'
    <2> DEFINE status == None
               id == 0
    <2>1. ~At(p, "idle") /\ Leave(p, status, id)
      BY <1>8 DEF Die
    <2>2. \/ UNCHANGED stored
          \/ /\ p = Api /\ SlotOf(Call(p)) # None
             /\ \E x : stored' = [stored EXCEPT ![SlotOf(Call(p))] = x]
      BY <1>8 DEF Die, MayTear, Storing
    <2>3. status \in Outcomes /\ id \in 0..MaxCalls /\ status # 200
      BY <1>1, NoneAssumption DEF Answers
    <2> HIDE DEF status, id
    <2>4. p = Api /\ status = 200 /\ SlotOf(Call(p)) # None =>
            stored'[SlotOf(Call(p))] = [body |-> Call(p).body, status |-> 200, id |-> id]
            /\ id \in 1..MaxCalls
      BY <2>3
    <2> QED
      BY <2>1, <2>2, <2>3, <2>4, LeaveStore
  <1>9. CASE Tick \/ UNCHANGED vars
    <2>1. Quiet
      BY <1>9 DEF Tick, vars, Quiet, Call, At
    <2> QED
      BY <2>1, QuietStore
  <1> QED
    BY <1>3, <1>4, <1>6, <1>7, <1>8, <1>9 DEF Next

LEMMA AlwaysStored == Spec => [](TypeInv /\ StoreInv)
  <1>1. Init => StoreInv
    BY DEF Init, StoreInv, AnswersStored, UnderwayUnstored, RepeatedOnlyAfterError, At,
       IdleProc, Processes
  <1> QED
    BY <1>1, InitTypeInv, NextTypeInv, NextStore, PTL DEF Spec

(* What was answered with a success is not done again under its key: not   *)
(* after a restart, a torn file, a conflict or an error in between.        *)
THEOREM DoneOnce == Spec => []RepeatedOnlyAfterError
  BY AlwaysStored, PTL DEF StoreInv

(* Two successes under a key are the same answer to the same body, which   *)
(* is the one that is stored.                                              *)
THEOREM RepeatsAgree == Spec => []ReplaysAgree
  <1>1. TypeInv /\ StoreInv => ReplaysAgree
    BY DEF StoreInv, AnswersStored, ReplaysAgree, Keyed
  <1> QED
    BY <1>1, AlwaysStored, PTL

-----------------------------------------------------------------------------
(* What a process that no other writer came across knows of the tables.    *)

(* The tenant that it asked for is the owner, with the row that was read,  *)
(* and who asked still may.                                                *)
Undisturbed(r, rows, table, order) ==
    LET call == r.call
        onRepo == call.op \in OnRepo
    IN
    r.alone /\ (r.phase \in {"check", "act", "notify"} \/ (r.phase = "end" /\ onRepo)) =>
        /\ onRepo => r.tenant = OwnerOf(call.repo, order)
        /\ r.tenant # None => rows[r.tenant] = r.seen /\ r.seen.status = "active"
        /\ onRepo /\ r.phase # "check" /\ r.tenant # None =>
             Permitted(call, r.tenant, table[r.tenant][ActorOf(call)])

(* The first k that are listed are members, as one of them says.           *)
Listed(k, list, row) ==
    \A j \in 1..k : \E i \in 1..k :
        list[i][1] = list[j][1] /\ row[list[j][1]] = list[i][2]

(* A synchronisation has enrolled those that are not left to do.           *)
Enrolling(r, table) ==
    LET list == r.call.members
        row == table[r.tenant]
    IN
    r.alone /\ r.call.op = "sync" =>
        /\ r.phase = "enroll" =>
             \E k \in 0..Len(list) :
                 /\ Len(r.todo) = Len(list) - k
                 /\ \A i \in 1..Len(r.todo) : r.todo[i] = list[k + i]
                 /\ Listed(k, list, row)
        /\ r.phase \in {"prune", "end"} => Listed(Len(list), list, row)
        /\ r.phase = "end" /\ r.call.replace =>
             \A a \in Actors : row[a] # None => a \in Wanted(r.call)

Alone(r, rows, table, order) ==
    Undisturbed(r, rows, table, order) /\ Enrolling(r, table)

AloneInv == \A p \in Processes : Alone(procs[p], tenants, members, recent)

LEMMA NotAlone ==
    ASSUME NEW r, ~r.alone \/ r.phase \in {"idle", "start", "resolve"},
           NEW rows, NEW table, NEW order
    PROVE  Alone(r, rows, table, order)
  BY DEF Alone, Undisturbed, Enrolling

(* One process goes on, and the others know what they knew or are          *)
(* disturbed.                                                              *)
LEMMA AloneKept ==
    ASSUME TypeInv, AloneInv, NEW p \in Processes, NEW proc,
           \/ Sets(p, proc) /\ UNCHANGED tables
           \/ Writes(p, proc),
           Alone(proc, tenants', members', recent')
    PROVE  AloneInv'
  <1>1. procs \in [Processes -> Proc]
    BY DEF TypeInv, TypeOK
  <1>2. procs'[p] = proc
    BY <1>1 DEF Sets, Writes
  <1>3. ASSUME NEW q \in Processes \ {p}
        PROVE  Alone(procs'[q], tenants', members', recent')
    <2>1. CASE Sets(p, proc) /\ UNCHANGED tables
      <3>1. procs'[q] = procs[q] /\ UNCHANGED <<tenants, members, recent>>
        BY <1>1, <2>1 DEF Sets, tables
      <3> QED
        BY <3>1 DEF AloneInv
    <2>2. CASE Writes(p, proc)
      <3> DEFINE r == procs'[q]
      <3>1. r = [procs[q] EXCEPT !.alone = At(q, "idle")]
        BY <2>2 DEF Writes
      <3>2. procs[q] \in Proc
        BY <1>1
      <3>3. r.phase = procs[q].phase /\ (r.alone <=> At(q, "idle"))
        BY <3>1, <3>2 DEF Proc
      <3>4. ~r.alone \/ r.phase \in {"idle", "start", "resolve"}
        BY <3>3 DEF At
      <3> HIDE DEF r
      <3>5. Alone(r, tenants', members', recent')
        BY <3>4, NotAlone
      <3> QED
        BY <3>5 DEF r
    <2> QED
      BY <2>1, <2>2
  <1> QED
    BY <1>2, <1>3 DEF AloneInv

LEMMA LeaveAlone ==
    ASSUME TypeInv, AloneInv, NEW p \in Processes, UNCHANGED tables,
           \E status, id : Leave(p, status, id)
    PROVE  AloneInv'
  <1>1. Sets(p, IdleProc)
    BY DEF Leave, Sets
  <1>2. IdleProc.phase = "idle"
    BY DEF IdleProc
  <1>3. Alone(IdleProc, tenants', members', recent')
    BY <1>2, NotAlone
  <1> QED
    BY <1>1, <1>3, AloneKept

LEMMA StartAlone ==
    ASSUME TypeInv, AloneInv, NEW p \in Processes, Start(p)
    PROVE  AloneInv'
  <1> DEFINE r == procs[p]
             phase == IF Call(p).op \in {"open", "register"} THEN "act" ELSE "resolve"
             s == [r EXCEPT !.phase = phase]
  <1>1. At(p, "start") /\ UNCHANGED tables /\ r \in Proc /\ ProcInv(r) /\ r.call = Call(p)
    BY DEF Start, TypeInv, TypeOK, Call
  <1>2. CASE WellFormed(Call(p))
    <2>1. Sets(p, s)
      BY <1>2 DEF Start, Goes, Sets
    <2>2. r.tenant = None
      BY <1>1 DEF ProcInv, At
    <2>3. phase = "resolve" \/ (phase = "act" /\ Call(p).op \in {"open", "register"})
      OBVIOUS
    <2> HIDE DEF r, phase
    <2>4. s.phase = phase /\ s.call = Call(p) /\ s.tenant = None
      BY <1>1, <2>2 DEF Proc
    <2> HIDE DEF s
    <2>5. Alone(s, tenants', members', recent')
      BY <2>3, <2>4 DEF Alone, Undisturbed, Enrolling, OnRepo
    <2> QED
      BY <1>1, <2>1, <2>5, AloneKept
  <1>3. CASE ~WellFormed(Call(p))
    BY <1>1, <1>3, LeaveAlone DEF Start
  <1> QED
    BY <1>2, <1>3

LEMMA ResolveAlone ==
    ASSUME TypeInv, AloneInv, NEW p \in Processes, Resolve(p)
    PROVE  AloneInv'
  <1> DEFINE r == procs[p]
             call == Call(p)
             owner == IF call.op \in OnRepo THEN OwnerOf(call.repo, recent) ELSE call.tenant
             row == IF owner = None THEN None ELSE tenants[owner]
  <1>1. At(p, "resolve") /\ UNCHANGED tables /\ r \in Proc /\ ProcInv(r) /\ r.call = call
    BY DEF Resolve, TypeInv, TypeOK, Call
  <1>2. UNCHANGED <<tenants, members, recent>>
    BY <1>1 DEF tables
  <1>3. call.op \in OnRepo => owner = OwnerOf(call.repo, recent)
    OBVIOUS
  <1>4. CASE owner = None /\ Goes(p, "act")
    <2> DEFINE s == [r EXCEPT !.phase = "act"]
    <2>1. Sets(p, s)
      BY <1>4 DEF Goes, Sets
    <2>2. r.tenant = None
      BY <1>1 DEF ProcInv, At
    <2> HIDE DEF r, owner, call
    <2>3. s.phase = "act" /\ s.call = call /\ s.tenant = None
      BY <1>1, <2>2 DEF Proc
    <2> HIDE DEF s
    <2>4. Alone(s, tenants', members', recent')
      BY <1>2, <1>3, <1>4, <2>3 DEF Alone, Undisturbed, Enrolling
    <2> QED
      BY <1>1, <2>1, <2>4, AloneKept
  <1>5. CASE /\ owner # None /\ Ensured(row)
             /\ procs' = [procs EXCEPT ![p].phase = "check", ![p].tenant = owner, ![p].seen = row]
    <2>1. row = tenants[owner] /\ row.status = "active"
      BY <1>5 DEF Ensured
    <2> HIDE DEF owner, row, call
    <2> DEFINE s == [r EXCEPT !.phase = "check", !.tenant = owner, !.seen = row]
    <2>2. Sets(p, s)
      BY <1>5 DEF Sets
    <2> HIDE DEF r
    <2>3. s.phase = "check" /\ s.call = call /\ s.tenant = owner /\ s.seen = row
      BY <1>1 DEF Proc
    <2> HIDE DEF s
    <2>4. Alone(s, tenants', members', recent')
      BY <1>2, <1>3, <2>1, <2>3 DEF Alone, Undisturbed, Enrolling
    <2> QED
      BY <1>1, <2>2, <2>4, AloneKept
  <1>6. CASE Leave(p, IF row = None THEN 400 ELSE 403, 0)
    <2> HIDE DEF row
    <2> QED
      BY <1>1, <1>6, LeaveAlone
  <1> QED
    BY <1>4, <1>5, <1>6, Zenon DEF Resolve

LEMMA CheckAlone ==
    ASSUME TypeInv, AloneInv, NEW p \in Processes, Check(p)
    PROVE  AloneInv'
  <1> DEFINE r == procs[p]
             call == Call(p)
             phase == NextOf(call.op)
             s == [r EXCEPT !.phase = phase, !.todo = call.members]
  <1>1. At(p, "check") /\ UNCHANGED tables /\ r \in Proc /\ r.call = call
        /\ Alone(r, tenants, members, recent) /\ ~At(p, "idle")
    BY DEF Check, TypeInv, TypeOK, Call, AloneInv, At
  <1>2. UNCHANGED <<tenants, members, recent>>
    BY <1>1 DEF tables
  <1>3. CASE Permitted(call, r.tenant, members[r.tenant][ActorOf(call)]) /\ Sets(p, s)
    <2>1. call.members \in Seq(Actors \X Member)
      BY <1>1, CallKnown DEF Calls
    <2>2. /\ phase \in {"end", "enroll", "act"}
          /\ phase = "end" => call.op = "view"
          /\ phase = "enroll" => call.op = "sync"
      BY DEF NextOf
    <2>3. r.phase = "check"
      BY <1>1 DEF At
    <2> HIDE DEF call, r, phase
    <2>4. /\ s.phase = phase /\ s.call = call /\ s.tenant = r.tenant /\ s.seen = r.seen
          /\ s.todo = call.members /\ (s.alone <=> r.alone)
      BY <1>1 DEF Proc
    <2> HIDE DEF s
    <2>5. Undisturbed(s, tenants', members', recent')
      BY <1>1, <1>2, <1>3, <2>2, <2>3, <2>4 DEF Alone, Undisturbed, OnRepo
    <2>6. Enrolling(s, members')
      <3>1. phase = "enroll" =>
              \E k \in 0..Len(call.members) :
                 /\ Len(s.todo) = Len(call.members) - k
                 /\ \A i \in 1..Len(s.todo) : s.todo[i] = call.members[k + i]
                 /\ Listed(k, call.members, members'[s.tenant])
        <4>1. 0 \in 0..Len(call.members) /\ Listed(0, call.members, members'[s.tenant])
          BY <2>1 DEF Listed
        <4>2. /\ Len(s.todo) = Len(call.members) - 0
              /\ \A i \in 1..Len(s.todo) : s.todo[i] = call.members[0 + i]
          BY <2>1, <2>4
        <4> QED
          BY <4>1, <4>2
      <3> QED
        BY <2>2, <2>4, <3>1 DEF Enrolling
    <2> QED
      BY <1>1, <1>3, <2>5, <2>6, AloneKept DEF Alone
  <1>4. CASE Leave(p, 403, 0)
    BY <1>1, <1>4, LeaveAlone
  <1> QED
    BY <1>3, <1>4 DEF Check, Sets

LEMMA DidAlone ==
    ASSUME TypeInv, AloneInv, NEW p \in Processes, NEW phase \in {"notify", "end"},
           \/ /\ At(p, "act") /\ Did(p, phase) /\ Call(p).op \in OnRepo \cup {"open"}
              /\ phase = "notify" => Call(p).op \in OnRepo
           \/ Notify(p) /\ phase = "end"
    PROVE  AloneInv'
  <1> DEFINE r == procs[p]
             s == IF Notify(p) THEN [r EXCEPT !.phase = phase]
                  ELSE [r EXCEPT !.did = TRUE, !.phase = phase]
  <1>1. /\ UNCHANGED tables /\ r \in Proc /\ ProcInv(r) /\ r.call = Call(p)
        /\ Alone(r, tenants, members, recent)
    BY DEF Notify, Did, TypeInv, TypeOK, Call, AloneInv
  <1>2. UNCHANGED <<tenants, members, recent>>
    BY <1>1 DEF tables
  <1>3. Sets(p, s) /\ r.phase \in {"act", "notify"}
    BY DEF Notify, Did, Goes, Sets, At
  <1>4. r.call.op \in OnRepo \/ (r.call.op = "open" /\ phase = "end")
    BY <1>1 DEF Notify, At, ProcInv
  <1> HIDE DEF r
  <1>5. /\ s.phase = phase /\ s.call = r.call /\ s.tenant = r.tenant /\ s.seen = r.seen
        /\ s.todo = r.todo /\ (s.alone <=> r.alone)
    BY <1>1 DEF Proc
  <1> HIDE DEF s
  <1>6. Alone(s, tenants', members', recent')
    BY <1>1, <1>2, <1>3, <1>4, <1>5 DEF Alone, Undisturbed, Enrolling, OnRepo
  <1> QED
    BY <1>1, <1>3, <1>6, AloneKept

(* Commands and requests about a tenant, other than synchronisations, know *)
(* nothing of the tables once they have begun to write.                    *)
LEMMA TenantAlone ==
    ASSUME TypeInv, AloneInv, NEW p \in Processes,
           AddMember(p) \/ Register(p) \/ SetPolicy(p) \/ SetStatus(p)
    PROVE  AloneInv'
  <1> DEFINE r == procs[p]
             op == Call(p).op
  <1>1. r \in Proc /\ r.call = Call(p)
    BY DEF TypeInv, TypeOK, Call
  <1>2. ASSUME NEW s, s.phase \in {"enroll", "end"}, s.call = r.call,
               op \in {"add", "register", "policy", "status"},
               \/ Sets(p, s) /\ UNCHANGED tables
               \/ Writes(p, s)
        PROVE  AloneInv'
    <2>1. Alone(s, tenants', members', recent')
      BY <1>1, <1>2 DEF Alone, Undisturbed, Enrolling, OnRepo
    <2> QED
      BY <1>2, <2>1, AloneKept
  <1>3. CASE AddMember(p)
    <2> DEFINE s == [r EXCEPT !.phase = "enroll"]
    <2>1. Sets(p, s) /\ UNCHANGED tables /\ op = "add"
      BY <1>3 DEF AddMember, Goes, Sets
    <2>2. s.phase = "enroll" /\ s.call = r.call
      BY <1>1 DEF Proc
    <2> HIDE DEF s
    <2> QED
      BY <1>2, <2>1, <2>2
  <1>4. CASE Register(p)
    <2> DEFINE s == [r EXCEPT !.phase = "enroll", !.tenant = Call(p).tenant, !.todo = Call(p).members]
    <2>1. Writes(p, s) /\ op = "register"
      BY <1>4 DEF Register, SaveTenant
    <2>2. s.phase = "enroll" /\ s.call = r.call
      BY <1>1 DEF Proc
    <2> HIDE DEF s
    <2> QED
      BY <1>2, <2>1, <2>2
  <1>5. CASE SetPolicy(p) \/ SetStatus(p)
    <2> DEFINE s == [r EXCEPT !.phase = "end"]
    <2>1. Writes(p, s) /\ op \in {"policy", "status"}
      BY <1>5 DEF SetPolicy, SetStatus, SaveTenant
    <2>2. s.phase = "end" /\ s.call = r.call
      BY <1>1 DEF Proc
    <2> HIDE DEF s
    <2> QED
      BY <1>2, <2>1, <2>2
  <1> QED
    BY <1>3, <1>4, <1>5

(* One more that is listed is a member as it says there.                   *)
LEMMA OneMoreListed ==
    ASSUME NEW list \in Seq(Actors \X Member), NEW k \in 0..(Len(list) - 1),
           NEW row, DOMAIN row = Actors, Listed(k, list, row)
    PROVE  Listed(k + 1, list, [row EXCEPT ![list[k + 1][1]] = list[k + 1][2]])
  <1> DEFINE a == list[k + 1][1]
             later == [row EXCEPT ![a] = list[k + 1][2]]
  <1>1. \A j \in 1..(k + 1) : list[j][1] \in Actors
    BY SMT
  <1>2. a \in Actors
    BY <1>1
  <1>3. later[a] = list[k + 1][2] /\ \A b \in Actors : b # a => later[b] = row[b]
    BY <1>2
  <1> HIDE DEF later
  <1>4. ASSUME NEW j \in 1..(k + 1)
        PROVE  \E i \in 1..(k + 1) : list[i][1] = list[j][1] /\ later[list[j][1]] = list[i][2]
    <2>1. CASE list[j][1] = a
      BY <1>3, <2>1
    <2>2. CASE list[j][1] # a
      <3>1. j \in 1..k
        BY <2>2
      <3>2. PICK i \in 1..k : list[i][1] = list[j][1] /\ row[list[j][1]] = list[i][2]
        BY <3>1 DEF Listed
      <3> QED
        BY <1>1, <1>3, <2>2, <3>2
    <2> QED
      BY <2>1, <2>2
  <1>5. Listed(k + 1, list, later)
    BY <1>4 DEF Listed
  <1> QED
    BY <1>5 DEF later

LEMMA EnrollAlone ==
    ASSUME TypeInv, AloneInv, NEW p \in Processes, Enroll(p)
    PROVE  AloneInv'
  <1> DEFINE r == procs[p]
             list == r.call.members
             t == r.tenant
             entry == Head(r.todo)
             phase == IF Tail(r.todo) # <<>> THEN "enroll"
                      ELSE IF r.call.replace THEN "prune" ELSE "end"
             s == [r EXCEPT !.todo = Tail(@), !.phase = phase]
  <1>1. At(p, "enroll") /\ ~At(p, "idle")
    BY DEF Enroll, At
  <1>2. /\ r \in Proc /\ ProcInv(r) /\ r.call \in Calls /\ r.phase = "enroll"
        /\ Alone(r, tenants, members, recent)
    BY <1>1, CallKnown DEF Call, At, AloneInv
  <1>3. /\ t \in Tenants /\ r.todo # <<>> /\ r.todo \in Seq(Actors \X Member)
        /\ list \in Seq(Actors \X Member) /\ r.call.op \in {"sync", "add", "register"}
    BY <1>2 DEF ProcInv, Proc, Calls
  <1>4. members' = [members EXCEPT ![t][entry[1]] = entry[2]] /\ Writes(p, s)
    BY DEF Enroll
  <1>5. members \in [Tenants -> [Actors -> OrNone(Member)]]
    BY DEF TypeInv, TypeOK
  <1>6. members'[t] = [members[t] EXCEPT ![entry[1]] = entry[2]]
    BY <1>3, <1>4, <1>5
  <1>7. /\ Tail(r.todo) \in Seq(Actors \X Member) /\ Len(r.todo) \in Nat \ {0}
        /\ Len(Tail(r.todo)) = Len(r.todo) - 1 /\ entry = r.todo[1]
        /\ \A i \in 1..(Len(r.todo) - 1) : Tail(r.todo)[i] = r.todo[i + 1]
    BY <1>3
  <1>8. /\ phase \in {"enroll", "prune", "end"}
        /\ phase = "end" => ~r.call.replace
        /\ phase \in {"prune", "end"} => Tail(r.todo) = <<>>
    OBVIOUS
  <1> HIDE DEF phase
  <1> DEFINE rest == Tail(r.todo)
  <1> HIDE DEF r, rest
  <1>9. /\ s.phase = phase /\ s.call = r.call /\ s.tenant = t /\ s.todo = rest
        /\ (s.alone <=> r.alone)
    BY <1>2 DEF Proc, rest
  <1> HIDE DEF s
  <1>10. Undisturbed(s, tenants', members', recent')
    BY <1>3, <1>8, <1>9 DEF Undisturbed, OnRepo
  <1>11. Enrolling(s, members')
    <2> SUFFICES ASSUME r.alone, r.call.op = "sync" PROVE Enrolling(s, members')
      BY <1>9 DEF Enrolling
    <2>1. PICK k \in 0..Len(list) :
             /\ Len(r.todo) = Len(list) - k
             /\ \A i \in 1..Len(r.todo) : r.todo[i] = list[k + i]
             /\ Listed(k, list, members[t])
      BY <1>2 DEF Alone, Enrolling
    <2>2. k \in 0..(Len(list) - 1) /\ entry = list[k + 1] /\ Len(list) \in Nat
      BY <1>3, <1>7, <2>1
    <2>3. Listed(k + 1, list, members'[t])
      <3>1. DOMAIN members[t] = Actors
        BY <1>3, <1>5
      <3> DEFINE row == members[t]
      <3>2. /\ k \in 0..(Len(list) - 1) /\ DOMAIN row = Actors /\ Listed(k, list, row)
            /\ list \in Seq(Actors \X Member)
        BY <1>3, <2>1, <2>2, <3>1
      <3>3. members'[t] = [row EXCEPT ![list[k + 1][1]] = list[k + 1][2]]
        BY <1>6, <2>2
      <3> HIDE DEF list, row
      <3>4. Listed(k + 1, list, [row EXCEPT ![list[k + 1][1]] = list[k + 1][2]])
        BY <3>2, OneMoreListed
      <3> QED
        BY <3>3, <3>4
    <2>4. /\ k + 1 \in 0..Len(list) /\ Len(rest) = Len(list) - (k + 1)
          /\ \A i \in 1..Len(rest) : rest[i] = list[k + 1 + i]
      <3>1. Len(rest) = Len(list) - (k + 1) /\ Len(rest) = Len(r.todo) - 1
        BY <1>7, <2>1, <2>2 DEF rest
      <3>2. ASSUME NEW i \in 1..Len(rest) PROVE rest[i] = list[k + 1 + i]
        <4>1. i + 1 \in 1..Len(r.todo) /\ k + (i + 1) = k + 1 + i /\ i \in 1..(Len(r.todo) - 1)
          BY <1>7, <2>2, <3>1
        <4>2. rest[i] = r.todo[i + 1]
          BY <1>7, <4>1 DEF rest
        <4> QED
          BY <2>1, <4>1, <4>2
      <3>3. k + 1 \in 0..Len(list)
        <4> DEFINE n == Len(list)
        <4>1. k \in 0..(n - 1) /\ n \in Nat
          BY <2>2
        <4> HIDE DEF n
        <4>2. k + 1 \in 0..n
          BY <4>1
        <4> QED
          BY <4>2 DEF n
      <3> QED
        BY <3>1, <3>2, <3>3, Zenon
    <2>5. phase \in {"prune", "end"} => k + 1 = Len(list)
      <3> SUFFICES ASSUME phase \in {"prune", "end"} PROVE k + 1 = Len(list)
        OBVIOUS
      <3>1. rest = <<>>
        BY <1>8 DEF rest
      <3>2. Len(rest) = 0
        BY <3>1
      <3> QED
        BY <2>2, <2>4, <3>2
    <2> DEFINE n == k + 1
    <2>6. /\ n \in 0..Len(list) /\ Len(rest) = Len(list) - n
          /\ \A i \in 1..Len(rest) : rest[i] = list[n + i]
          /\ Listed(n, list, members'[t])
          /\ phase \in {"prune", "end"} => n = Len(list)
      BY <2>3, <2>4, <2>5
    <2> HIDE DEF n
    <2> QED
      BY <1>8, <1>9, <2>6 DEF Enrolling
  <1> QED
    BY <1>4, <1>10, <1>11, AloneKept DEF Alone

LEMMA PruneAlone ==
    ASSUME TypeInv, AloneInv, NEW p \in Processes, Prune(p)
    PROVE  AloneInv'
  <1> DEFINE r == procs[p]
             list == r.call.members
             t == r.tenant
             s == [r EXCEPT !.phase = "end"]
  <1>1. At(p, "prune") /\ ~At(p, "idle")
    BY DEF Prune, At
  <1>2. /\ r \in Proc /\ ProcInv(r) /\ r.call \in Calls /\ r.phase = "prune"
        /\ Alone(r, tenants, members, recent)
    BY <1>1, CallKnown DEF Call, At, AloneInv
  <1>3. t \in Tenants /\ list \in Seq(Actors \X Member) /\ r.call.op \in {"sync", "add", "register"}
    BY <1>2 DEF ProcInv, Calls
  <1>4. members' = [members EXCEPT ![t] =
              [a \in Actors |-> IF a \in Wanted(r.call) THEN members[t][a] ELSE None]]
        /\ Writes(p, s)
    BY DEF Prune, Kept
  <1>5. members \in [Tenants -> [Actors -> OrNone(Member)]]
    BY DEF TypeInv, TypeOK
  <1>6. members'[t] = [a \in Actors |-> IF a \in Wanted(r.call) THEN members[t][a] ELSE None]
    BY <1>3, <1>4, <1>5
  <1> HIDE DEF r
  <1>7. s.phase = "end" /\ s.call = r.call /\ s.tenant = t /\ (s.alone <=> r.alone)
    BY <1>2 DEF Proc
  <1> HIDE DEF s
  <1>8. Undisturbed(s, tenants', members', recent')
    BY <1>3, <1>7 DEF Undisturbed, OnRepo
  <1>9. Enrolling(s, members')
    <2> SUFFICES ASSUME r.alone, r.call.op = "sync" PROVE Enrolling(s, members')
      BY <1>7 DEF Enrolling
    <2>1. Listed(Len(list), list, members[t])
      BY <1>2 DEF Alone, Enrolling
    <2>2. \A j \in 1..Len(list) : list[j][1] \in Wanted(r.call) /\ list[j][1] \in Actors
      BY <1>3 DEF Wanted
    <2>3. \A j \in 1..Len(list) : members'[t][list[j][1]] = members[t][list[j][1]]
      BY <1>6, <2>2
    <2>4. Listed(Len(list), list, members'[t])
      BY <2>1, <2>3 DEF Listed
    <2>5. \A a \in Actors : members'[t][a] # None => a \in Wanted(r.call)
      BY <1>6
    <2> QED
      BY <1>7, <2>4, <2>5 DEF Enrolling
  <1> QED
    BY <1>4, <1>8, <1>9, AloneKept DEF Alone

LEMMA NextAlone == TypeInv /\ AloneInv /\ [Next]_vars => AloneInv'
  <1> SUFFICES ASSUME TypeInv, AloneInv, [Next]_vars PROVE AloneInv'
    OBVIOUS
  <1>1. CASE UNCHANGED <<procs, tables>>
    BY <1>1 DEF AloneInv, tables
  <1>2. ASSUME NEW p \in Processes, NEW call \in Requests \cup Tasks, UNCHANGED tables,
               Sets(p, [IdleProc EXCEPT !.phase = "start", !.call = call])
        PROVE  AloneInv'
    <2> DEFINE s == [IdleProc EXCEPT !.phase = "start", !.call = call]
    <2>1. s.phase = "start"
      BY DEF IdleProc
    <2>2. Sets(p, s)
      BY <1>2
    <2> HIDE DEF s
    <2>3. Alone(s, tenants', members', recent')
      BY <2>1, NotAlone
    <2> QED
      BY <1>2, <2>2, <2>3, AloneKept
  <1>3. CASE \E call \in Requests : Receive(call)
    <2>1. PICK call \in Requests : Receive(call)
      BY <1>3
    <2>2. UNCHANGED procs \/ Fresh(call)
      BY <2>1 DEF Receive, Replay, Refuse, Repeat
    <2> QED
      BY <1>1, <1>2, <2>1, <2>2 DEF Receive, Fresh, Sets, Processes
  <1>4. CASE \E p \in Commands, task \in Tasks : Run(p, task)
    BY <1>2, <1>4 DEF Run, Sets, Processes
  <1>5. ASSUME NEW p \in Processes,
               \/ Serve(p) \/ EnqueueJob(p) \/ RequestApproval(p) \/ ReviewApproval(p)
               \/ Deliver(p) \/ Notify(p)
        PROVE  AloneInv'
    BY <1>5, DidAlone DEF Serve, EnqueueJob, RequestApproval, ReviewApproval, Deliver,
       Then, OnRepo
  <1>6. ASSUME NEW p \in Processes, Finish(p) \/ Raise(p) \/ Die(p) PROVE AloneInv'
    <2>1. UNCHANGED tables /\ \E status, id : Leave(p, status, id)
      BY <1>6 DEF Finish, Raise, Die
    <2> QED
      BY <2>1, LeaveAlone
  <1>7. ASSUME NEW p \in Processes, Step(p) PROVE AloneInv'
    BY <1>5, <1>6, <1>7, StartAlone, ResolveAlone, CheckAlone, TenantAlone, EnrollAlone,
       PruneAlone DEF Step
  <1>8. CASE Tick \/ UNCHANGED vars
    BY <1>1, <1>8 DEF Tick, vars
  <1> QED
    BY <1>3, <1>4, <1>6, <1>7, <1>8 DEF Next

LEMMA AlwaysAlone == Spec => [](TypeInv /\ AloneInv)
  <1>1. Init => AloneInv
    <2> SUFFICES ASSUME Init, NEW p \in Processes
                 PROVE  Alone(procs[p], tenants, members, recent)
      BY DEF AloneInv
    <2>1. procs[p] = IdleProc /\ IdleProc.phase = "idle"
      BY DEF Init, IdleProc
    <2> QED
      BY <2>1, NotAlone
  <1> QED
    BY <1>1, InitTypeInv, NextTypeInv, NextAlone, PTL DEF Spec

(* Work on a repository is done for those who may, as the tables say it    *)
(* when it is done: what was read at the beginning of a request still      *)
(* holds as long as no one else has written.                               *)
THEOREM WorkIsPermitted == Spec => []WorkPermitted
  <1>1. TypeInv /\ AloneInv => WorkPermitted
    <2> SUFFICES ASSUME TypeInv, AloneInv, NEW p \in Processes, procs[p].did,
                        procs[p].alone, Call(p).op \in OnRepo,
                        OwnerOf(Call(p).repo, recent) # None
                 PROVE  LET call == Call(p)
                            owner == OwnerOf(call.repo, recent)
                        IN  /\ tenants[owner].status = "active"
                            /\ \/ call.principal # None /\ call.principal.service
                                    /\ Scoped(call.principal, owner, PermissionFor(call.op))
                               \/ /\ members[owner][ActorOf(call)] # None
                                  /\ PermissionFor(call.op) \in Allowed(members[owner][ActorOf(call)].role)
      BY DEF WorkPermitted
    <2>1. procs[p].phase \in {"notify", "end"} /\ procs[p].call = Call(p)
      BY DEF TypeInv, ProcInv, Call
    <2>2. Undisturbed(procs[p], tenants, members, recent)
      BY DEF AloneInv, Alone
    <2>3. PICK owner : owner = OwnerOf(Call(p).repo, recent)
      OBVIOUS
    <2>4. /\ tenants[owner] = procs[p].seen /\ procs[p].seen.status = "active"
          /\ Permitted(Call(p), owner, members[owner][ActorOf(Call(p))])
      BY <2>1, <2>2, <2>3 DEF Undisturbed
    <2>5. \/ /\ Call(p).principal # None /\ Call(p).principal.service
             /\ Scoped(Call(p).principal, owner, PermissionFor(Call(p).op))
          \/ /\ members[owner][ActorOf(Call(p))] # None
             /\ PermissionFor(Call(p).op) \in Allowed(members[owner][ActorOf(Call(p))].role)
      BY <2>4 DEF Permitted, PrincipalMay, MemberMay
    <2> QED
      BY <2>3, <2>4, <2>5
  <1> QED
    BY <1>1, AlwaysAlone, PTL

(* A synchronisation that no other writer came across leaves the members   *)
(* that it lists, and with replacement no others.                          *)
THEOREM SyncIsExact == Spec => []SyncedExactly
  <1>1. TypeInv /\ AloneInv => SyncedExactly
    <2> SUFFICES ASSUME TypeInv, AloneInv, NEW p \in Processes, At(p, "end"),
                        Call(p).op = "sync", procs[p].alone
                 PROVE  LET call == Call(p)
                            t == procs[p].tenant
                        IN  /\ \A a \in Wanted(call) : \E i \in DOMAIN call.members :
                                  call.members[i][1] = a /\ members[t][a] = call.members[i][2]
                            /\ call.replace => \A a \in Actors : members[t][a] # None => a \in Wanted(call)
      BY DEF SyncedExactly
    <2>1. ~At(p, "idle") /\ procs[p].call = Call(p) /\ procs[p].phase = "end"
      BY DEF At, Call
    <2>2. Call(p).members \in Seq(Actors \X Member)
      BY <2>1, CallKnown DEF Calls
    <2>3. DOMAIN Call(p).members = 1..Len(Call(p).members)
      BY <2>2
    <2>4. Enrolling(procs[p], members)
      BY DEF AloneInv, Alone
    <2> DEFINE list == Call(p).members
               row == members[procs[p].tenant]
    <2>5. /\ Listed(Len(list), list, row)
          /\ Call(p).replace => \A a \in Actors : row[a] # None => a \in Wanted(Call(p))
      BY <2>1, <2>4 DEF Enrolling
    <2>6. ASSUME NEW a \in Wanted(Call(p))
          PROVE  \E i \in DOMAIN list : list[i][1] = a /\ row[a] = list[i][2]
      <3>1. PICK j \in DOMAIN list : list[j][1] = a
        BY DEF Wanted
      <3> HIDE DEF list, row
      <3> QED
        BY <2>3, <2>5, <3>1 DEF Listed, list
    <2> QED
      BY <2>5, <2>6
  <1> QED
    BY <1>1, AlwaysAlone, PTL

(* A suspended tenant becomes active by a registration of its id, or by a  *)
(* writer that read it before it was suspended.                            *)
THEOREM SuspensionIsKept == Spec => SuspensionHolds
  <1>1. TypeInv /\ AloneInv /\ [Next]_vars =>
          [\A t \in Tenants :
             tenants[t] # None /\ tenants[t].status = "suspended" /\ tenants'[t].status = "active" =>
               \E p \in Processes : /\ At(p, "act")
                  /\ \/ Call(p).op = "register" /\ Call(p).tenant = t
                     \/ procs[p].tenant = t /\ ~procs[p].alone]_vars
    <2> SUFFICES ASSUME TypeInv, AloneInv, Next, NEW t \in Tenants, tenants[t] # None,
                        tenants[t].status = "suspended", tenants'[t].status = "active"
                 PROVE  \E p \in Processes : /\ At(p, "act")
                           /\ \/ Call(p).op = "register" /\ Call(p).tenant = t
                              \/ procs[p].tenant = t /\ ~procs[p].alone
      OBVIOUS
    <2>1. tenants' # tenants
      OBVIOUS
    <2>2. PICK p \in Processes : Register(p) \/ SetPolicy(p) \/ SetStatus(p)
      <3>1. ~\E call \in Requests : Receive(call)
        BY <2>1 DEF Receive, tables
      <3>2. ~\E q \in Commands, task \in Tasks : Run(q, task)
        BY <2>1 DEF Run, tables
      <3>3. ~Tick
        BY <2>1 DEF Tick, tables
      <3>4. ASSUME NEW p \in Processes, Step(p) \/ Raise(p) \/ Die(p)
            PROVE  Register(p) \/ SetPolicy(p) \/ SetStatus(p)
        <4>1. ~Start(p) /\ ~Resolve(p) /\ ~Check(p)
          BY <2>1 DEF Start, Resolve, Check, tables
        <4>2. /\ ~Serve(p) /\ ~EnqueueJob(p) /\ ~RequestApproval(p) /\ ~ReviewApproval(p)
              /\ ~Deliver(p) /\ ~Notify(p) /\ ~AddMember(p)
          BY <2>1 DEF Serve, EnqueueJob, RequestApproval, ReviewApproval, Deliver, Did, Notify,
             AddMember, tables
        <4>3. ~Enroll(p) /\ ~Prune(p)
          BY <2>1 DEF Enroll, Prune
        <4>4. ~Finish(p) /\ ~Raise(p) /\ ~Die(p)
          BY <2>1 DEF Finish, Raise, Die, tables
        <4> QED
          BY <3>4, <4>1, <4>2, <4>3, <4>4, Zenon DEF Step
      <3> QED
        BY <3>1, <3>2, <3>3, <3>4 DEF Next
    <2>3. At(p, "act") /\ procs[p].phase = "act" /\ procs[p].call = Call(p)
      BY <2>2 DEF Register, SetPolicy, SetStatus, At, Call
    <2>4. CASE Register(p)
      <3>1. /\ Call(p).op = "register"
            /\ \E row : tenants' = [tenants EXCEPT ![Call(p).tenant] = row]
        BY <2>4 DEF Register, SaveTenant
      <3>2. Call(p).tenant = t
        BY <3>1 DEF TypeInv, TypeOK
      <3> QED
        BY <2>3, <3>1, <3>2
    <2>5. CASE SetPolicy(p) \/ SetStatus(p)
      <3>1. \E row : tenants' = [tenants EXCEPT ![procs[p].tenant] = row]
        BY <2>5 DEF SetPolicy, SetStatus, SaveTenant
      <3>2. procs[p].tenant = t
        BY <3>1 DEF TypeInv, TypeOK
      <3>3. t # None
        BY TenantAccessAssumption
      <3>4. procs[p].alone => tenants[t].status = "active"
        BY <2>3, <3>2, <3>3 DEF AloneInv, Alone, Undisturbed
      <3>5. ~procs[p].alone
        BY <3>4
      <3> QED
        BY <2>3, <3>2, <3>5
    <2> QED
      BY <2>2, <2>4, <2>5
  <1> QED
    BY <1>1, AlwaysAlone, PTL DEF Spec, SuspensionHolds

=============================================================================
