--------------------------- MODULE ApprovalProofs ---------------------------
(***************************************************************************)
(* Theorems about Approval for every value of its constants, with proofs.  *)
(***************************************************************************)
EXTENDS Approval, FiniteSetTheorems, TLAPS

-----------------------------------------------------------------------------
(* Types.                                                                  *)

(* TypeOK, and every call that has begun has an approval: a request its    *)
(* own.  A call that is not about to write holds no receipt.               *)
TypeInv ==
    /\ TypeOK
    /\ \A c \in Approvals \cup Reviews :
         /\ calls[c].phase # "idle" => calls[c].approval \in Approvals
         /\ ~Underway(c) => calls[c].receipt = AbsentReceipt
    /\ \A a \in Approvals : calls[a].phase # "idle" => calls[a].approval = a

(* The receipts that requests and reviews build are receipts.              *)
LEMMA ReceiptTypes ==
    ASSUME TypeInv
    PROVE  /\ AbsentReceipt \in Receipt
           /\ \A a \in Approvals : RequestedReceipt(a) \in Receipt
           /\ \A receipt \in Receipt, d \in Decided :
                Reviewed(receipt, d) \in Receipt
  <1>1. AbsentReceipt \in Receipt
    BY DEF AbsentReceipt, Receipt, Settled
  <1>2. ASSUME NEW a \in Approvals
        PROVE  RequestedReceipt(a) \in Receipt
    <2>1. WorkOf[a] \in Work /\ policy \in [Work -> [required : Nat, blocked : BOOLEAN]]
      BY ApprovalAssumption DEF TypeInv, TypeOK
    <2>2. policy[WorkOf[a]].required \in Nat
      BY <2>1
    <2>3. now \in Nat
      BY ApprovalAssumption DEF TypeInv, TypeOK
    <2>4. ExpiresIn[a] # None => now + ExpiresIn[a] \in Nat
      BY <2>3, ApprovalAssumption
    <2> QED
      BY <2>2, <2>3, <2>4 DEF RequestedReceipt, Receipt, Settled
  <1>3. ASSUME NEW receipt \in Receipt, NEW d \in Decided
        PROVE  Reviewed(receipt, d) \in Receipt
    BY DEF Reviewed, Receipt, Settled, Decided
  <1> QED
    BY <1>1, <1>2, <1>3

LEMMA InitTypeInv == Init => TypeInv
  <1> SUFFICES ASSUME Init PROVE TypeInv
    OBVIOUS
  <1>1. AbsentReceipt \in Receipt
    BY DEF AbsentReceipt, Receipt, Settled
  <1>2. IdleCall \in Call /\ now \in 0..MaxTime
    BY <1>1, ApprovalAssumption DEF IdleCall, Call, Init
  <1>3. TypeOK
    BY <1>1, <1>2 DEF Init, TypeOK, AtGate
  <1> QED
    BY <1>3 DEF Init, TypeInv, IdleCall, Underway

(* A step that replaces the state of one call keeps the calls well typed.  *)
LEMMA SetCall ==
    ASSUME TypeInv, NEW c \in Approvals \cup Reviews, NEW s \in Call,
           s.approval \in Approvals,
           c \in Approvals => s.approval = c,
           s.phase \in {"saved", "dead"} => s.receipt = AbsentReceipt,
           s.phase # "idle",
           calls' = [calls EXCEPT ![c] = s]
    PROVE  /\ calls' \in [Approvals \cup Reviews -> Call]
           /\ \A e \in Approvals \cup Reviews :
                /\ calls'[e].phase # "idle" => calls'[e].approval \in Approvals
                /\ ~Underway(e)' => calls'[e].receipt = AbsentReceipt
           /\ \A a \in Approvals : calls'[a].phase # "idle" => calls'[a].approval = a
  <1>1. calls \in [Approvals \cup Reviews -> Call]
    BY DEF TypeInv, TypeOK
  <1>2. calls' \in [Approvals \cup Reviews -> Call]
    BY <1>1
  <1>3. \A e \in Approvals \cup Reviews : calls'[e] = IF e = c THEN s ELSE calls[e]
    BY <1>1
  <1>4. s.phase \in {"computed", "filed", "saved", "dead"}
    BY DEF Call
  <1> QED
    BY <1>2, <1>3, <1>4 DEF TypeInv, Underway

LEMMA NextTypeInv == TypeInv /\ [Next]_vars => TypeInv'
  <1> SUFFICES ASSUME TypeInv, [Next]_vars PROVE TypeInv'
    OBVIOUS
  <1> USE DEF TypeInv, TypeOK
  <1>1. ASSUME NEW a \in Approvals, Request(a)
        PROVE  TypeInv'
    <2> DEFINE s == [phase |-> "computed", approval |-> a, receipt |-> RequestedReceipt(a)]
    <2>1. s \in Call
      BY ReceiptTypes DEF Call
    <2> HIDE DEF TypeInv, TypeOK
    <2>2. calls' = [calls EXCEPT ![a] = s]
      BY <1>1 DEF Request
    <2>3. /\ calls' \in [Approvals \cup Reviews -> Call]
          /\ \A e \in Approvals \cup Reviews :
               /\ calls'[e].phase # "idle" => calls'[e].approval \in Approvals
               /\ ~Underway(e)' => calls'[e].receipt = AbsentReceipt
          /\ \A b \in Approvals : calls'[b].phase # "idle" => calls'[b].approval = b
      BY <2>1, <2>2, SetCall
    <2> QED
      BY <1>1, <2>3 DEF Request, TypeInv, TypeOK
  <1>2. ASSUME NEW c \in Reviews, NEW a \in Approvals, NEW actor \in Actors,
               NEW decision \in {"APPROVE", "REJECT"},
               BeginReview(c, a, actor, decision)
        PROVE  TypeInv'
    <2> DEFINE d == [review |-> c, actor |-> actor, decision |-> decision]
               s == [phase |-> "computed", approval |-> a,
                     receipt |-> Reviewed(approvals[a], d)]
    <2>1. d \in Decided
      BY DEF Decided
    <2>2. s \in Call
      BY <2>1, ReceiptTypes DEF Call
    <2>3. c \notin Approvals
      BY ApprovalAssumption
    <2> HIDE DEF TypeInv, TypeOK
    <2>4. calls' = [calls EXCEPT ![c] = s]
      BY <1>2 DEF BeginReview, Reviewing
    <2>5. /\ calls' \in [Approvals \cup Reviews -> Call]
          /\ \A e \in Approvals \cup Reviews :
               /\ calls'[e].phase # "idle" => calls'[e].approval \in Approvals
               /\ ~Underway(e)' => calls'[e].receipt = AbsentReceipt
          /\ \A b \in Approvals : calls'[b].phase # "idle" => calls'[b].approval = b
      BY <2>2, <2>3, <2>4, SetCall
    <2> QED
      BY <1>2, <2>5 DEF BeginReview, Reviewing, TypeInv, TypeOK
  <1>3. ASSUME NEW c \in Approvals \cup Reviews, Persist(c)
        PROVE  TypeInv'
    <2>1. /\ calls[c] \in Call /\ calls[c].approval \in Approvals
          /\ c \in Approvals => calls[c].approval = c
      BY <1>3 DEF Persist, WriteFile, SaveRow, Die, Underway
    <2>2. calls[c].receipt \in Receipt /\ AbsentReceipt \in Receipt
      BY <2>1, ReceiptTypes DEF Call
    <2> HIDE DEF TypeInv, TypeOK
    <2>3. /\ calls' \in [Approvals \cup Reviews -> Call]
          /\ \A e \in Approvals \cup Reviews :
               /\ calls'[e].phase # "idle" => calls'[e].approval \in Approvals
               /\ ~Underway(e)' => calls'[e].receipt = AbsentReceipt
          /\ \A b \in Approvals : calls'[b].phase # "idle" => calls'[b].approval = b
      <3>1. CASE WriteFile(c)
        <4> DEFINE s == [calls[c] EXCEPT !.phase = "filed"]
        <4>1. s \in Call /\ s.approval = calls[c].approval /\ s.phase = "filed"
          BY <2>1 DEF Call
        <4>2. calls' = [calls EXCEPT ![c] = s]
          BY <3>1 DEF WriteFile
        <4> HIDE DEF s
        <4> QED
          BY <2>1, <4>1, <4>2, SetCall
      <3>2. CASE SaveRow(c) \/ Die(c)
        <4>1. PICK p \in {"saved", "dead"} :
                calls' = [calls EXCEPT ![c].phase = p, ![c].receipt = AbsentReceipt]
          BY <3>2 DEF SaveRow, Die
        <4> DEFINE s == [calls[c] EXCEPT !.phase = p, !.receipt = AbsentReceipt]
        <4>2. /\ s \in Call /\ s.approval = calls[c].approval /\ s.phase = p
              /\ s.receipt = AbsentReceipt
          BY <2>1, <2>2 DEF Call
        <4>3. calls' = [calls EXCEPT ![c] = s]
          BY <4>1
        <4> HIDE DEF s
        <4> QED
          BY <2>1, <4>2, <4>3, SetCall
      <3> QED
        BY <1>3, <3>1, <3>2 DEF Persist
    <2>4. approvals' \in [Approvals -> Receipt] /\ files' \in [Approvals -> Receipt]
      BY <1>3, <2>1, <2>2 DEF Persist, WriteFile, SaveRow, Die, TypeInv, TypeOK
    <2> QED
      BY <1>3, <2>3, <2>4 DEF Persist, WriteFile, SaveRow, Die, TypeInv, TypeOK
  <1>4. ASSUME NEW d \in Deliveries, NEW a \in Approvals \cup {None}, NEW receipt \in Receipt,
               Passed(d, a, receipt)
        PROVE  TypeInv'
    <2>1. now \in Nat
      BY ApprovalAssumption
    <2> QED
      BY <1>4, <2>1 DEF Passed, Underway
  <1>5. ASSUME NEW d \in Deliveries, PassWithoutApproval(d)
        PROVE  TypeInv'
    BY <1>4, <1>5, ReceiptTypes DEF PassWithoutApproval
  <1>6. ASSUME NEW d \in Deliveries, NEW a \in Approvals, PassWithApproval(d, a)
        PROVE  TypeInv'
    BY <1>4, <1>6 DEF PassWithApproval
  <1>7. CASE ChangePolicy
    BY <1>7 DEF ChangePolicy, Underway
  <1>8. CASE Tick
    BY <1>8, ApprovalAssumption DEF Tick, Underway
  <1>9. CASE UNCHANGED vars
    BY <1>9 DEF vars, Underway
  <1> QED
    BY <1>1, <1>2, <1>3, <1>5, <1>6, <1>7, <1>8, <1>9 DEF Next

(* Every variable keeps its type.                                          *)
THEOREM TypeCorrect == Spec => []TypeOK
  <1>1. TypeInv => TypeOK
    BY DEF TypeInv
  <1> QED
    BY <1>1, InitTypeInv, NextTypeInv, PTL DEF Spec

-----------------------------------------------------------------------------
(* Receipts.  Every copy of a receipt, in the table, in a file, in the     *)
(* hands of a call or shown to a delivery, is sound by itself.  The copies *)
(* are needed because any of them may become the row.                      *)

Unanimous(receipt) ==
    /\ \A d \in receipt.decisions : d.decision = "APPROVE"
    /\ receipt.status = "APPROVED" =>
         Cardinality(Approving(receipt.decisions)) >= receipt.required

Sound(a, receipt) ==
    /\ IsFiniteSet(receipt.decisions)
    /\ OneVote(receipt)
    /\ \A d \in receipt.decisions : MayDecide(a, d.actor)
    /\ receipt.status # "REJECTED" => Unanimous(receipt)
    /\ receipt.status \in {"PENDING", "APPROVED"} /\ receipt.required > 0 /\ ExpiresIn[a] # None
         => receipt.expires_at = receipt.created_at + ExpiresIn[a]

SoundInv ==
    /\ \A a \in Approvals : Sound(a, approvals[a]) /\ Sound(a, files[a])
    /\ \A c \in Approvals \cup Reviews : Underway(c) => Sound(calls[c].approval, calls[c].receipt)

(* What a delivery saw: an approved and sound receipt that had not expired. *)
DeliveryInv ==
    \A d \in Deliveries :
        LET a == delivery[d].approval
            receipt == delivery[d].receipt
        IN  a # None =>
              /\ WorkOf[a] = Delivers[d]
              /\ receipt.status = "APPROVED" /\ Sound(a, receipt)
              /\ receipt.expires_at # None => delivery[d].at < receipt.expires_at

LEMMA AbsentSound == \A a \in Approvals : Sound(a, AbsentReceipt)
  <1>1. Approving(AbsentReceipt.decisions) = {}
    BY DEF AbsentReceipt, Approving
  <1> QED
    BY <1>1, FS_EmptySet DEF AbsentReceipt, Sound, Unanimous, OneVote

LEMMA RequestedSound ==
    ASSUME TypeInv, NEW a \in Approvals
    PROVE  Sound(a, RequestedReceipt(a))
  <1> DEFINE r == RequestedReceipt(a)
  <1>1. r.decisions = {} /\ Approving(r.decisions) = {}
    BY DEF RequestedReceipt, Approving
  <1>2. IsFiniteSet({}) /\ Cardinality({}) = 0
    BY FS_EmptySet
  <1>3. policy[WorkOf[a]].required \in Nat
    <2>1. policy \in [Work -> [required : Nat, blocked : BOOLEAN]]
      BY ApprovalAssumption DEF TypeInv, TypeOK
    <2> QED
      BY <2>1, ApprovalAssumption
  <1>4. r.status = "APPROVED" => r.required = 0
    BY <1>3 DEF RequestedReceipt
  <1>5. r.status = "APPROVED" => Cardinality(Approving(r.decisions)) >= r.required
    BY <1>1, <1>2, <1>4
  <1>6. r.status \in {"PENDING", "APPROVED"} /\ r.required > 0 /\ ExpiresIn[a] # None
          => r.expires_at = r.created_at + ExpiresIn[a]
    BY <1>3 DEF RequestedReceipt
  <1> HIDE DEF r
  <1>7. Sound(a, r)
    BY <1>1, <1>2, <1>5, <1>6 DEF Sound, Unanimous, OneVote
  <1> QED
    BY <1>7 DEF r

(* A review of a sound pending receipt by an actor it does not list builds *)
(* a sound one.                                                            *)
LEMMA ReviewedSound ==
    ASSUME NEW a \in Approvals, NEW receipt \in Receipt, NEW d \in Decided,
           Sound(a, receipt), receipt.status = "PENDING",
           MayDecide(a, d.actor), d.actor \notin ActorsOf(receipt.decisions)
    PROVE  Sound(a, Reviewed(receipt, d))
  <1> DEFINE r == Reviewed(receipt, d)
  <1>1. /\ r.decisions = receipt.decisions \cup {d}
        /\ r.required = receipt.required
        /\ r.created_at = receipt.created_at /\ r.expires_at = receipt.expires_at
    BY DEF Reviewed, Receipt
  <1>2. IsFiniteSet(r.decisions)
    BY <1>1, FS_AddElement DEF Sound
  <1>3. OneVote(r)
    <2>1. \A e \in receipt.decisions : e.actor # d.actor
      BY DEF ActorsOf
    <2> QED
      BY <1>1, <2>1 DEF OneVote, Sound
  <1>4. \A e \in r.decisions : MayDecide(a, e.actor)
    BY <1>1 DEF Sound
  <1>5. r.status # "REJECTED" => Unanimous(r)
    <2> SUFFICES ASSUME r.status # "REJECTED" PROVE Unanimous(r)
      OBVIOUS
    <2>1. d.decision = "APPROVE"
      BY DEF Reviewed, Decided, Receipt
    <2>2. r.status = "APPROVED" => Cardinality(Approving(r.decisions)) >= r.required
      BY <2>1 DEF Reviewed, Receipt
    <2>3. \A e \in r.decisions : e.decision = "APPROVE"
      BY <1>1, <2>1 DEF Sound, Unanimous
    <2> QED
      BY <2>2, <2>3 DEF Unanimous
  <1> HIDE DEF r
  <1>6. Sound(a, r)
    BY <1>1, <1>2, <1>3, <1>4, <1>5 DEF Sound
  <1> QED
    BY <1>6 DEF r

LEMMA InitSoundInv == Init => SoundInv /\ DeliveryInv
  BY AbsentSound DEF Init, SoundInv, DeliveryInv, AtGate, IdleCall, Underway

LEMMA NextSoundInv == TypeInv /\ SoundInv /\ [Next]_vars => SoundInv'
  <1> SUFFICES ASSUME TypeInv, SoundInv, [Next]_vars PROVE SoundInv'
    OBVIOUS
  <1>0. /\ calls \in [Approvals \cup Reviews -> Call]
        /\ approvals \in [Approvals -> Receipt] /\ files \in [Approvals -> Receipt]
    BY DEF TypeInv, TypeOK
  <1>1. ASSUME NEW a \in Approvals, Request(a)
        PROVE  SoundInv'
    <2>1. Sound(a, RequestedReceipt(a))
      BY RequestedSound
    <2>2. \A c \in Approvals \cup Reviews :
            calls'[c] = IF c = a THEN [phase |-> "computed", approval |-> a,
                                       receipt |-> RequestedReceipt(a)]
                        ELSE calls[c]
      BY <1>0, <1>1 DEF Request
    <2> QED
      BY <1>1, <2>1, <2>2 DEF Request, SoundInv, Underway, Sound, MayDecide, Unanimous
  <1>2. ASSUME NEW c \in Reviews, NEW a \in Approvals, NEW actor \in Actors,
               NEW decision \in {"APPROVE", "REJECT"},
               BeginReview(c, a, actor, decision)
        PROVE  SoundInv'
    <2> DEFINE d == [review |-> c, actor |-> actor, decision |-> decision]
               r == Reviewed(approvals[a], d)
    <2>1. d \in Decided /\ d.actor = actor
      BY DEF Decided
    <2>2. Sound(a, r)
      BY <1>0, <1>2, <2>1, ReviewedSound DEF BeginReview, SoundInv
    <2>3. \A e \in Approvals \cup Reviews :
            calls'[e] = IF e = c THEN [phase |-> "computed", approval |-> a, receipt |-> r]
                        ELSE calls[e]
      BY <1>0, <1>2 DEF BeginReview, Reviewing
    <2> HIDE DEF r
    <2> QED
      BY <1>2, <2>2, <2>3 DEF BeginReview, Reviewing, SoundInv, Underway, Sound, MayDecide, Unanimous
  <1>3. ASSUME NEW c \in Approvals \cup Reviews, Persist(c)
        PROVE  SoundInv'
    <2>1. Sound(calls[c].approval, calls[c].receipt) /\ calls[c].approval \in Approvals
      BY <1>3 DEF Persist, WriteFile, SaveRow, Die, Underway, SoundInv, TypeInv
    <2>2. \A e \in Approvals \cup Reviews :
            Underway(e)' => Underway(e) /\ calls'[e].approval = calls[e].approval
                                        /\ calls'[e].receipt = calls[e].receipt
      BY <1>0, <1>3 DEF Persist, WriteFile, SaveRow, Die, Underway, Call
    <2>3. \A a \in Approvals :
            /\ approvals'[a] \in {approvals[a]} \cup
                 (IF a = calls[c].approval THEN {calls[c].receipt} ELSE {})
            /\ files'[a] \in {files[a]} \cup
                 (IF a = calls[c].approval THEN {calls[c].receipt} ELSE {})
      BY <1>0, <1>3 DEF Persist, WriteFile, SaveRow, Die
    <2> QED
      BY <2>1, <2>2, <2>3 DEF SoundInv, Sound, MayDecide, Unanimous
  <1>4. CASE UNCHANGED <<approvals, files, calls>>
    BY <1>4 DEF SoundInv, Underway, Sound, MayDecide, Unanimous
  <1> QED
    BY <1>1, <1>2, <1>3, <1>4
    DEF Next, vars, PassWithoutApproval, PassWithApproval, Passed, ChangePolicy, Tick

LEMMA NextDeliveryInv == TypeInv /\ SoundInv /\ DeliveryInv /\ [Next]_vars => DeliveryInv'
  <1> SUFFICES ASSUME TypeInv, SoundInv, DeliveryInv, [Next]_vars PROVE DeliveryInv'
    OBVIOUS
  <1>1. ASSUME NEW d \in Deliveries, NEW a \in Approvals, PassWithApproval(d, a)
        PROVE  DeliveryInv'
    <2>1. /\ approvals[a].status = "APPROVED" /\ Sound(a, approvals[a])
          /\ WorkOf[a] = Delivers[d]
      BY <1>1 DEF PassWithApproval, SoundInv
    <2>2. approvals[a].expires_at # None => now < approvals[a].expires_at
      <3>1. approvals[a].expires_at \in Nat \cup {None} /\ now \in Nat
        BY ApprovalAssumption DEF TypeInv, TypeOK, Receipt
      <3> QED
        BY <1>1, <3>1 DEF PassWithApproval, Expired
    <2>3. \A e \in Deliveries :
            delivery'[e] = IF e = d THEN [passed |-> TRUE, approval |-> a,
                                          receipt |-> approvals[a], at |-> now]
                           ELSE delivery[e]
      BY <1>1 DEF PassWithApproval, Passed, TypeInv, TypeOK
    <2> QED
      BY <2>1, <2>2, <2>3 DEF DeliveryInv, Sound, MayDecide, Unanimous
  <1>2. ASSUME NEW d \in Deliveries, PassWithoutApproval(d)
        PROVE  DeliveryInv'
    <2>1. \A e \in Deliveries :
            delivery'[e] = delivery[e] \/ delivery'[e].approval = None
      BY <1>2 DEF PassWithoutApproval, Passed, TypeInv, TypeOK
    <2> QED
      BY <2>1 DEF DeliveryInv, Sound, MayDecide, Unanimous
  <1>3. CASE UNCHANGED delivery
    BY <1>3 DEF DeliveryInv, Sound, MayDecide, Unanimous
  <1> QED
    BY <1>1, <1>2, <1>3
    DEF Next, vars, Request, BeginReview, Reviewing, Persist, WriteFile, SaveRow, Die,
        ChangePolicy, Tick

(* While no actor is listed twice, there are as many approving actors as   *)
(* approvals.                                                              *)
LEMMA ActorsCounted ==
    ASSUME NEW receipt, IsFiniteSet(receipt.decisions), OneVote(receipt)
    PROVE  Cardinality(ActorsOf(Approving(receipt.decisions)))
             = Cardinality(Approving(receipt.decisions))
  <1> DEFINE S == Approving(receipt.decisions)
             T == ActorsOf(S)
             f == [d \in S |-> d.actor]
  <1>1. IsFiniteSet(S)
    BY FS_Subset DEF Approving
  <1>2. f \in [S -> T] /\ \A t \in T : \E d \in S : f[d] = t
    BY DEF ActorsOf
  <1>3. \A d, e \in S : f[d] = f[e] => d = e
    BY DEF OneVote, Approving
  <1>4. f \in Bijection(S, T)
    BY <1>2, <1>3 DEF Bijection, Injection, Surjection, IsInjective
  <1>5. ExistsBijection(S, T)
    BY <1>4 DEF ExistsBijection
  <1> QED
    BY <1>1, <1>5, FS_Bijection

(* No actor is counted twice in any receipt, however reviews overlap.      *)
THEOREM VotesOnce == Spec => []OneVoteEach
  <1>1. TypeInv /\ SoundInv => OneVoteEach
    <2> SUFFICES ASSUME TypeInv, SoundInv PROVE OneVoteEach
      OBVIOUS
    <2>1. OneVote(AbsentReceipt)
      BY DEF OneVote, AbsentReceipt
    <2>2. \A c \in Approvals \cup Reviews : OneVote(calls[c].receipt)
      BY <2>1 DEF TypeInv, SoundInv, Sound
    <2> QED
      BY <2>2 DEF OneVoteEach, SoundInv, Sound
  <1> QED
    BY <1>1, InitTypeInv, NextTypeInv, InitSoundInv, NextSoundInv, PTL DEF Spec

LEMMA DeliveriesSafe == Spec => [](TypeInv /\ DeliveryInv)
  BY InitTypeInv, NextTypeInv, InitSoundInv, NextSoundInv, NextDeliveryInv, PTL DEF Spec

(* A delivery that an approval let through had the approvals it needed, of *)
(* different and entitled actors, and no rejection.                        *)
THEOREM DeliveriesAreEarned == Spec => []DeliveriesEarned
  <1>1. TypeInv /\ DeliveryInv => DeliveriesEarned
    <2> SUFFICES ASSUME TypeInv, DeliveryInv, NEW d \in Deliveries,
                        delivery[d].approval # None
                 PROVE  /\ WorkOf[delivery[d].approval] = Delivers[d]
                        /\ Earned(delivery[d].approval, delivery[d].receipt)
      BY DEF DeliveriesEarned
    <2> DEFINE receipt == delivery[d].receipt
    <2>1. /\ WorkOf[delivery[d].approval] = Delivers[d]
          /\ receipt.status = "APPROVED" /\ Sound(delivery[d].approval, receipt)
      BY DEF DeliveryInv
    <2>2. Unanimous(receipt)
      BY <2>1 DEF Sound
    <2>3. Cardinality(ActorsOf(Approving(receipt.decisions)))
            = Cardinality(Approving(receipt.decisions))
      BY <2>1, ActorsCounted DEF Sound
    <2> HIDE DEF receipt
    <2>4. Earned(delivery[d].approval, receipt)
      BY <2>1, <2>2, <2>3 DEF Earned, Sound, Unanimous
    <2> QED
      BY <2>1, <2>4 DEF receipt
  <1> QED
    BY <1>1, DeliveriesSafe, PTL

(* An approval that had to be given lets a delivery through only within    *)
(* the window of its request.                                              *)
THEOREM DeliveriesStayInWindow == Spec => []DeliveriesInWindow
  <1>1. TypeInv /\ DeliveryInv => DeliveriesInWindow
    <2> SUFFICES ASSUME TypeInv, DeliveryInv, NEW d \in Deliveries,
                        delivery[d].approval # None,
                        delivery[d].receipt.required > 0,
                        ExpiresIn[delivery[d].approval] # None
                 PROVE  delivery[d].at < delivery[d].receipt.created_at
                                           + ExpiresIn[delivery[d].approval]
      BY DEF DeliveriesInWindow
    <2>1. delivery[d].receipt.expires_at
            = delivery[d].receipt.created_at + ExpiresIn[delivery[d].approval]
      BY DEF DeliveryInv, Sound
    <2>2. delivery[d].receipt.expires_at # None
      <3>1. delivery[d].receipt.created_at \in Nat /\ delivery[d].approval \in Approvals
        BY DEF TypeInv, TypeOK, Receipt
      <3>2. ExpiresIn[delivery[d].approval] \in Nat
        BY <3>1, ApprovalAssumption
      <3> QED
        BY <2>1, <3>1, <3>2, ApprovalAssumption
    <2> QED
      BY <2>1, <2>2 DEF DeliveryInv
  <1> QED
    BY <1>1, DeliveriesSafe, PTL

-----------------------------------------------------------------------------
(* Requests.  No row exists and no review begins before the request has    *)
(* saved its row, and the receipt it is about to save has no decisions.    *)

RequestInv ==
    /\ \A a \in Approvals :
         /\ calls[a].phase # "saved" => approvals[a] = AbsentReceipt
         /\ Underway(a) =>
              /\ calls[a].receipt.decisions = {}
              /\ calls[a].receipt.status \in {"PENDING", "APPROVED", "REJECTED"}
              /\ calls[a].receipt.status = "PENDING" => calls[a].receipt.required > 0
              /\ calls[a].receipt.status = "APPROVED" => calls[a].receipt.required = 0
    /\ \A c \in Reviews : Underway(c) => calls[calls[c].approval].phase = "saved"

LEMMA InitRequestInv == Init => RequestInv
  BY DEF Init, RequestInv, IdleCall, Underway

LEMMA NextRequestInv == TypeInv /\ RequestInv /\ [Next]_vars => RequestInv'
  <1> SUFFICES ASSUME TypeInv, RequestInv, [Next]_vars PROVE RequestInv'
    OBVIOUS
  <1>0. calls \in [Approvals \cup Reviews -> Call] /\ approvals \in [Approvals -> Receipt]
    BY DEF TypeInv, TypeOK
  <1>1. ASSUME NEW a \in Approvals, Request(a)
        PROVE  RequestInv'
    <2> DEFINE r == RequestedReceipt(a)
    <2>1. policy[WorkOf[a]].required \in Nat
      <3>1. policy \in [Work -> [required : Nat, blocked : BOOLEAN]]
        BY ApprovalAssumption DEF TypeInv, TypeOK
      <3> QED
        BY <3>1, ApprovalAssumption
    <2>2. /\ r.decisions = {} /\ r.status \in {"PENDING", "APPROVED", "REJECTED"}
          /\ r.status = "PENDING" => r.required > 0
          /\ r.status = "APPROVED" => r.required = 0
      BY <2>1 DEF RequestedReceipt
    <2>3. \A c \in Approvals :
            calls'[c] = IF c = a THEN [phase |-> "computed", approval |-> a, receipt |-> r]
                        ELSE calls[c]
      BY <1>0, <1>1 DEF Request
    <2>4. calls[a].phase # "saved" /\ approvals' = approvals
      BY <1>1 DEF Request
    <2>5. \A c \in Reviews : calls'[c] = calls[c] /\ (Underway(c) => calls[c].approval # a)
      BY <1>0, <1>1, <2>4, ApprovalAssumption DEF Request, RequestInv
    <2>6. \A c \in Reviews : Underway(c) => calls[c].approval \in Approvals
      BY DEF TypeInv, Underway
    <2> HIDE DEF r
    <2> QED
      BY <2>2, <2>3, <2>4, <2>5, <2>6 DEF RequestInv, Underway
  <1>2. ASSUME NEW c \in Reviews, NEW a \in Approvals, NEW actor \in Actors,
               NEW decision \in {"APPROVE", "REJECT"},
               BeginReview(c, a, actor, decision)
        PROVE  RequestInv'
    <2>1. \A b \in Approvals : calls'[b] = calls[b]
      BY <1>0, <1>2, ApprovalAssumption DEF BeginReview, Reviewing
    <2>2. calls[a].phase = "saved"
      BY <1>2 DEF BeginReview, RequestInv, AbsentReceipt
    <2>3. \A e \in Reviews : calls'[e] = calls[e] \/ calls'[e].approval = a
      BY <1>0, <1>2 DEF BeginReview, Reviewing
    <2>4. \A e \in Reviews : Underway(e) => calls[e].approval \in Approvals
      BY DEF TypeInv, Underway
    <2> QED
      BY <1>2, <2>1, <2>2, <2>3, <2>4 DEF BeginReview, Reviewing, RequestInv, Underway
  <1>3. ASSUME NEW c \in Approvals \cup Reviews, Persist(c)
        PROVE  RequestInv'
    <2>1. \A b \in Approvals :
            /\ b # c => calls'[b] = calls[b]
            /\ b = c => calls'[b].phase = "saved" \/ approvals'[b] = approvals[b]
            /\ b = c /\ calls[b].phase # "saved" => Underway(b)
            /\ Underway(b)' => Underway(b) /\ calls'[b].receipt = calls[b].receipt
            /\ calls[b].phase = "saved" => calls'[b].phase = "saved"
      BY <1>0, <1>3 DEF Persist, WriteFile, SaveRow, Die, Underway, Call
    <2>2. ASSUME NEW b \in Approvals, calls'[b].phase # "saved"
          PROVE  approvals'[b] = AbsentReceipt
      <3>1. approvals[b] = AbsentReceipt
        BY <2>1, <2>2 DEF RequestInv
      <3>2. CASE b = c
        BY <2>1, <2>2, <3>1, <3>2
      <3>3. CASE b # c /\ c \in Approvals
        <4>1. Underway(c) => calls[c].approval = c
          BY <3>3 DEF TypeInv, Underway
        <4> QED
          BY <1>0, <1>3, <3>1, <3>3, <4>1 DEF Persist, WriteFile, SaveRow, Die, Underway
      <3>4. CASE c \in Reviews
        <4>1. calls[b].phase # "saved"
          BY <2>1, <2>2
        <4>2. Underway(c) => calls[c].approval # b
          BY <3>4, <4>1 DEF RequestInv
        <4> QED
          BY <1>0, <1>3, <3>1, <4>2 DEF Persist, WriteFile, SaveRow, Die, Underway
      <3> QED
        BY <3>2, <3>3, <3>4
    <2>3. ASSUME NEW e \in Reviews, Underway(e)'
          PROVE  calls'[calls'[e].approval].phase = "saved"
      <3>1. Underway(e) /\ calls'[e].approval = calls[e].approval
        BY <1>0, <1>3, <2>3 DEF Persist, WriteFile, SaveRow, Die, Underway, Call
      <3>2. calls[e].approval \in Approvals /\ calls[calls[e].approval].phase = "saved"
        BY <3>1 DEF RequestInv, TypeInv, Underway
      <3> QED
        BY <2>1, <3>1, <3>2
    <2> QED
      BY <2>1, <2>2, <2>3 DEF RequestInv
  <1>4. CASE UNCHANGED <<approvals, calls>>
    BY <1>4 DEF RequestInv, Underway
  <1> QED
    BY <1>1, <1>2, <1>3, <1>4
    DEF Next, vars, PassWithoutApproval, PassWithApproval, Passed, ChangePolicy, Tick

(* No step changes the row of a settled approval that no review is about   *)
(* to replace, and none begins such a review.                              *)
THEOREM SettledForGood == Spec => SettlesForGood
  <1>1. ASSUME TypeInv, RequestInv, [Next]_vars, NEW a \in Approvals,
               approvals[a].status \in Settled, Quiet(a)
        PROVE  approvals'[a] = approvals[a] /\ Quiet(a)'
    <2>0. calls \in [Approvals \cup Reviews -> Call] /\ approvals \in [Approvals -> Receipt]
      BY <1>1 DEF TypeInv, TypeOK
    <2>1. ASSUME NEW b \in Approvals, Request(b)
          PROVE  approvals'[a] = approvals[a] /\ Quiet(a)'
      BY <1>1, <2>0, <2>1, ApprovalAssumption DEF Request, Quiet, Underway
    <2>2. ASSUME NEW c \in Reviews, NEW b \in Approvals, NEW actor \in Actors,
                 NEW decision \in {"APPROVE", "REJECT"},
                 BeginReview(c, b, actor, decision)
          PROVE  approvals'[a] = approvals[a] /\ Quiet(a)'
      <3>1. b # a
        BY <1>1, <2>2 DEF BeginReview, Settled
      <3>2. \A e \in Reviews : calls'[e] = calls[e] \/ calls'[e].approval = b
        BY <2>0, <2>2 DEF BeginReview, Reviewing
      <3> QED
        BY <1>1, <2>2, <3>1, <3>2 DEF BeginReview, Reviewing, Quiet, Underway
    <2>3. ASSUME NEW c \in Approvals \cup Reviews, Persist(c)
          PROVE  approvals'[a] = approvals[a] /\ Quiet(a)'
      <3>1. Underway(c)
        BY <2>3 DEF Persist, WriteFile, SaveRow, Die, Underway
      <3>2. calls[c].approval # a
        <4>1. CASE c \in Approvals
          <5>1. calls[c].approval = c /\ approvals[c] = AbsentReceipt
            BY <1>1, <3>1, <4>1 DEF TypeInv, RequestInv, Underway
          <5> QED
            BY <1>1, <5>1 DEF AbsentReceipt, Settled
        <4>2. CASE c \in Reviews
          BY <1>1, <3>1, <4>2 DEF Quiet
        <4> QED
          BY <4>1, <4>2
      <3>3. \A e \in Reviews : Underway(e)' => Underway(e) /\ calls'[e].approval = calls[e].approval
        BY <2>0, <2>3 DEF Persist, WriteFile, SaveRow, Die, Underway, Call
      <3>4. approvals'[a] = approvals[a]
        BY <2>0, <2>3, <3>2 DEF Persist, WriteFile, SaveRow, Die
      <3> QED
        BY <1>1, <3>3, <3>4 DEF Quiet
    <2>4. CASE UNCHANGED <<approvals, calls>>
      BY <1>1, <2>4 DEF Quiet, Underway
    <2> QED
      BY <1>1, <2>1, <2>2, <2>3, <2>4
      DEF Next, vars, PassWithoutApproval, PassWithApproval, Passed, ChangePolicy, Tick
  <1>2. TypeInv /\ RequestInv /\ [Next]_vars =>
          [\A a \in Approvals : approvals[a].status \in Settled /\ Quiet(a)
             => approvals'[a] = approvals[a] /\ Quiet(a)']_vars
    BY <1>1
  <1> QED
    BY <1>2, InitTypeInv, NextTypeInv, InitRequestInv, NextRequestInv, PTL
    DEF Spec, SettlesForGood

-----------------------------------------------------------------------------
(* Approvals whose reviews do not overlap.  A review that is about to save *)
(* is the only one, has read the row as it still is, and the file holds    *)
(* what it has written; the file never lacks a decision of the row.        *)

Pairs == Actors \X {"APPROVE", "REJECT"}

Current(c, a) ==
    \E p \in Pairs :
        /\ MayDecide(a, p[1]) /\ p[1] \notin ActorsOf(approvals[a].decisions)
        /\ calls[c].receipt =
             Reviewed(approvals[a], [review |-> c, actor |-> p[1], decision |-> p[2]])

Undisturbed(c) ==
    LET a == calls[c].approval
    IN  /\ \A e \in Reviews : Underway(e) /\ calls[e].approval = a => e = c
        /\ approvals[a].status = "PENDING"
        /\ Current(c, a)
        /\ calls[c].phase = "filed" => files[a] = calls[c].receipt

SerialInv ==
    /\ \A c \in Reviews : Underway(c) /\ calls[c].approval \in Serial => Undisturbed(c)
    /\ \A a \in Serial : approvals[a].decisions \subseteq files[a].decisions

(* What a current review adds to the row it has read.                      *)
LEMMA CurrentReceipt ==
    ASSUME TypeInv, NEW c \in Reviews, NEW a \in Approvals, Current(c, a)
    PROVE  /\ approvals[a].decisions \subseteq calls[c].receipt.decisions
           /\ \E d \in calls[c].receipt.decisions : d.review = c
           /\ calls[c].receipt.required = approvals[a].required
  <1>1. approvals[a] \in Receipt
    BY DEF TypeInv, TypeOK
  <1>2. PICK p \in Pairs :
          calls[c].receipt =
             Reviewed(approvals[a], [review |-> c, actor |-> p[1], decision |-> p[2]])
    BY DEF Current
  <1> DEFINE d == [review |-> c, actor |-> p[1], decision |-> p[2]]
  <1>3. /\ calls[c].receipt.decisions = approvals[a].decisions \cup {d}
        /\ calls[c].receipt.required = approvals[a].required
    BY <1>1, <1>2 DEF Reviewed, Receipt
  <1>4. d.review = c
    OBVIOUS
  <1> QED
    BY <1>3, <1>4

LEMMA InitSerialInv == Init => SerialInv
  BY DEF Init, SerialInv, Serial, IdleCall, Underway

LEMMA NextSerialInv == TypeInv /\ RequestInv /\ SerialInv /\ [Next]_vars => SerialInv'
  <1> SUFFICES ASSUME TypeInv, RequestInv, SerialInv, [Next]_vars PROVE SerialInv'
    OBVIOUS
  <1>0. /\ calls \in [Approvals \cup Reviews -> Call]
        /\ approvals \in [Approvals -> Receipt] /\ files \in [Approvals -> Receipt]
        /\ Serial \subseteq Approvals
    BY DEF TypeInv, TypeOK, Serial
  <1>1. ASSUME NEW a \in Approvals, Request(a)
        PROVE  SerialInv'
    <2>1. \A c \in Reviews : calls'[c] = calls[c]
      BY <1>0, <1>1, ApprovalAssumption DEF Request
    <2> QED
      <3>1. UNCHANGED <<approvals, files>>
        BY <1>1 DEF Request
      <3>2. ASSUME NEW c \in Reviews, Underway(c)', calls'[c].approval \in Serial
            PROVE  Undisturbed(c)'
        <4>1. Undisturbed(c)
          BY <2>1, <3>2 DEF SerialInv, Underway
        <4>2. Current(c, calls[c].approval)'
          BY <2>1, <3>1, <4>1 DEF Undisturbed, Current, MayDecide
        <4> QED
          BY <2>1, <3>1, <4>1, <4>2 DEF Undisturbed, Underway
      <3> QED
        BY <3>1, <3>2 DEF SerialInv, Serial
  <1>2. ASSUME NEW c \in Reviews, NEW a \in Approvals, NEW actor \in Actors,
               NEW decision \in {"APPROVE", "REJECT"},
               BeginReview(c, a, actor, decision)
        PROVE  SerialInv'
    <2> DEFINE r == Reviewed(approvals[a],
                       [review |-> c, actor |-> actor, decision |-> decision])
    <2>1. \A e \in Reviews : calls'[e] = IF e = c
            THEN [phase |-> "computed", approval |-> a, receipt |-> r] ELSE calls[e]
      BY <1>0, <1>2 DEF BeginReview, Reviewing
    <2>2. a \in Serial => Quiet(a)
      BY <1>2 DEF BeginReview, Serial
    <2>3. Current(c, a)'
      <3>1. <<actor, decision>> \in Pairs /\ <<actor, decision>>[1] = actor
                                          /\ <<actor, decision>>[2] = decision
        BY DEF Pairs
      <3>2. calls'[c].receipt = r
        BY <2>1
      <3> QED
        BY <1>2, <3>1, <3>2 DEF BeginReview, Reviewing, Current, MayDecide
    <2>4. UNCHANGED <<approvals, files>> /\ approvals[a].status = "PENDING"
      BY <1>2 DEF BeginReview, Reviewing
    <2>5. ASSUME NEW e \in Reviews, Underway(e)', calls'[e].approval \in Serial
          PROVE  Undisturbed(e)'
      <3> HIDE DEF r
      <3>1. CASE e = c
        <4>1. calls'[e].approval = a /\ calls'[e].phase = "computed" /\ Quiet(a)
          BY <2>1, <2>2, <2>5, <3>1
        <4>2. \A g \in Reviews : Underway(g)' /\ calls'[g].approval = a => g = e
          BY <2>1, <3>1, <4>1 DEF Quiet, Underway
        <4>3. Current(e, calls[e].approval)'
          BY <2>3, <3>1, <4>1 DEF Current
        <4> QED
          BY <2>4, <4>1, <4>2, <4>3 DEF Undisturbed
      <3>2. CASE e # c
        <4>1. calls'[e] = calls[e] /\ Underway(e)
          BY <2>1, <2>5, <3>2 DEF Underway
        <4>2. calls[e].approval # a
          BY <2>2, <2>5, <4>1 DEF Quiet
        <4>3. Undisturbed(e)
          BY <2>5, <4>1 DEF SerialInv
        <4>4. Current(e, calls[e].approval)'
          BY <2>4, <4>1, <4>3 DEF Current, Undisturbed, MayDecide
        <4>5. \A g \in Reviews :
                Underway(g)' /\ calls'[g].approval = calls'[e].approval => g = e
          BY <2>1, <4>1, <4>2, <4>3 DEF Undisturbed, Underway
        <4> QED
          BY <2>4, <4>1, <4>3, <4>4, <4>5 DEF Undisturbed
      <3> QED
        BY <3>1, <3>2
    <2>6. \A b \in Serial : approvals'[b].decisions \subseteq files'[b].decisions
      BY <2>4 DEF SerialInv
    <2> QED
      BY <2>5, <2>6 DEF SerialInv, Serial
  <1>3. ASSUME NEW c \in Approvals \cup Reviews, Persist(c)
        PROVE  SerialInv'
    <2> DEFINE a == calls[c].approval
    <2>1. Underway(c) /\ a \in Approvals
      BY <1>3 DEF Persist, WriteFile, SaveRow, Die, Underway, TypeInv
    <2>2. ASSUME NEW e \in Reviews, e # c, Underway(e), calls[e].approval \in Serial
          PROVE  calls[e].approval # a
      <3>1. CASE c \in Reviews
        BY <2>1, <2>2, <3>1 DEF SerialInv, Undisturbed
      <3>2. CASE c \in Approvals
        <4>1. a = c /\ approvals[c].status = "ABSENT"
          BY <2>1, <3>2 DEF TypeInv, RequestInv, Underway, AbsentReceipt
        <4> QED
          BY <2>2, <4>1 DEF SerialInv, Undisturbed
      <3> QED
        BY <3>1, <3>2
    <2>3. \A e \in Approvals \cup Reviews : e # c => calls'[e] = calls[e]
      BY <1>0, <1>3 DEF Persist, WriteFile, SaveRow, Die
    <2>4. \A b \in Approvals : b # a => approvals'[b] = approvals[b] /\ files'[b] = files[b]
      BY <1>0, <1>3 DEF Persist, WriteFile, SaveRow, Die
    <2>5. ASSUME NEW e \in Reviews, Underway(e)', calls'[e].approval \in Serial
          PROVE  Undisturbed(e)'
      <3>1. \A g \in Reviews : Underway(g)' =>
              /\ Underway(g) /\ calls'[g].approval = calls[g].approval
              /\ calls'[g].receipt = calls[g].receipt
        BY <1>0, <1>3, <2>3 DEF Persist, WriteFile, SaveRow, Die, Underway, Call
      <3>2. calls[e].approval \in Serial /\ Underway(e)
        BY <2>5, <3>1
      <3>3. Undisturbed(e)
        BY <3>2 DEF SerialInv
      <3>4. approvals'[calls[e].approval] = approvals[calls[e].approval]
        <4>1. CASE e = c
          BY <1>0, <1>3, <2>5, <4>1 DEF Persist, WriteFile, SaveRow, Die, Underway, Call
        <4>2. CASE e # c
          BY <1>0, <2>2, <2>4, <3>2, <4>2
        <4> QED
          BY <4>1, <4>2
      <3>5. Current(e, calls[e].approval)'
        BY <2>5, <3>1, <3>3, <3>4 DEF Current, Undisturbed, MayDecide
      <3>6. calls'[e].phase = "filed" => files'[calls'[e].approval] = calls'[e].receipt
        <4>1. CASE e = c
          BY <1>0, <1>3, <2>1, <2>5, <4>1 DEF Persist, WriteFile, SaveRow, Die, Underway, Call
        <4>2. CASE e # c
          BY <1>0, <2>2, <2>3, <2>4, <3>1, <3>2, <3>3, <4>2 DEF Undisturbed
        <4> QED
          BY <4>1, <4>2
      <3> QED
        BY <2>5, <3>1, <3>3, <3>4, <3>5, <3>6 DEF Undisturbed
    <2>6. ASSUME NEW b \in Serial
          PROVE  approvals'[b].decisions \subseteq files'[b].decisions
      <3>1. CASE b # a
        BY <1>0, <2>4, <3>1 DEF SerialInv
      <3>2. CASE b = a /\ c \in Reviews
        <4>1. Current(c, a) /\ (calls[c].phase = "filed" => files[a] = calls[c].receipt)
          BY <2>1, <3>2 DEF SerialInv, Undisturbed
        <4>2. approvals[a].decisions \subseteq calls[c].receipt.decisions
          BY <2>1, <3>2, <4>1, CurrentReceipt
        <4>3. \/ approvals'[a] = approvals[a] /\ files'[a] = calls[c].receipt
              \/ approvals'[a] = calls[c].receipt /\ files'[a] = calls[c].receipt
              \/ approvals'[a] = approvals[a] /\ files'[a] = files[a]
          BY <1>0, <1>3, <2>1, <4>1 DEF Persist, WriteFile, SaveRow, Die
        <4> QED
          BY <3>2, <4>2, <4>3 DEF SerialInv
      <3>3. CASE b = a /\ c \in Approvals
        <4>1. /\ approvals[a].decisions = {} /\ calls[c].receipt.decisions = {}
          BY <2>1, <3>3 DEF TypeInv, RequestInv, Underway, AbsentReceipt
        <4>2. approvals'[a] \in {approvals[a], calls[c].receipt}
          BY <1>0, <1>3, <2>1 DEF Persist, WriteFile, SaveRow, Die
        <4> QED
          BY <3>3, <4>1, <4>2
      <3> QED
        BY <3>1, <3>2, <3>3
    <2> HIDE DEF a
    <2> QED
      BY <2>5, <2>6 DEF SerialInv, Serial
  <1>4. CASE UNCHANGED <<approvals, files, calls>>
    BY <1>4 DEF SerialInv, Undisturbed, Serial, Current, Underway, MayDecide
  <1> QED
    BY <1>1, <1>2, <1>3, <1>4
    DEF Next, vars, PassWithoutApproval, PassWithApproval, Passed, ChangePolicy, Tick

(* The decision of a review that was answered is in the row.               *)
AnswerInv ==
    \A c \in Reviews : calls[c].phase = "saved" /\ calls[c].approval \in Serial =>
        \E d \in approvals[calls[c].approval].decisions : d.review = c

LEMMA NextAnswerInv ==
    TypeInv /\ RequestInv /\ SerialInv /\ AnswerInv /\ [Next]_vars => AnswerInv'
  <1> SUFFICES ASSUME TypeInv, RequestInv, SerialInv, AnswerInv, [Next]_vars,
                      NEW c \in Reviews, calls'[c].phase = "saved", calls'[c].approval \in Serial
               PROVE  \E d \in approvals'[calls'[c].approval].decisions : d.review = c
    BY DEF AnswerInv, Serial
  <1>0. /\ calls \in [Approvals \cup Reviews -> Call] /\ approvals \in [Approvals -> Receipt]
        /\ Serial \subseteq Approvals
    BY DEF TypeInv, TypeOK, Serial
  <1>1. ASSUME NEW e \in Approvals \cup Reviews, SaveRow(e)
        PROVE  \E d \in approvals'[calls'[c].approval].decisions : d.review = c
    <2> DEFINE a == calls[e].approval
    <2>1. Underway(e) /\ a \in Approvals /\ calls'[c].approval = calls[c].approval
      BY <1>0, <1>1 DEF SaveRow, Underway, TypeInv, Call
    <2>2. approvals' = [approvals EXCEPT ![a] = calls[e].receipt]
      BY <1>1 DEF SaveRow
    <2>3. CASE e = c
      <3>1. Current(c, a)
        BY <2>1, <2>3 DEF SerialInv, Undisturbed
      <3> QED
        BY <1>0, <2>1, <2>2, <2>3, <3>1, CurrentReceipt
    <2>4. CASE e # c
      <3>1. \E d \in approvals[calls[c].approval].decisions : d.review = c
        BY <1>0, <1>1, <2>1, <2>4 DEF SaveRow, AnswerInv
      <3>2. CASE calls[c].approval # a
        BY <1>0, <2>1, <2>2, <3>1, <3>2
      <3>3. CASE calls[c].approval = a /\ e \in Reviews
        <4>1. Current(e, a)
          BY <2>1, <3>3 DEF SerialInv, Undisturbed
        <4>2. approvals[a].decisions \subseteq calls[e].receipt.decisions
          BY <2>1, <3>3, <4>1, CurrentReceipt
        <4> QED
          BY <1>0, <2>1, <2>2, <3>1, <3>3, <4>2
      <3>4. CASE calls[c].approval = a /\ e \in Approvals
        <4>1. approvals[a].decisions = {}
          BY <2>1, <3>4 DEF TypeInv, RequestInv, Underway, AbsentReceipt
        <4> QED
          BY <3>1, <3>4, <4>1
      <3> QED
        BY <3>2, <3>3, <3>4
    <2> QED
      BY <2>3, <2>4
  <1>2. ASSUME NEW e \in Approvals \cup Reviews, WriteFile(e) \/ Die(e)
        PROVE  \E d \in approvals'[calls'[c].approval].decisions : d.review = c
    <2>1. calls[c].phase = "saved" /\ calls'[c].approval = calls[c].approval
      BY <1>0, <1>2 DEF WriteFile, Die, Underway, Call
    <2> QED
      BY <1>2, <2>1 DEF WriteFile, Die, AnswerInv
  <1>3. ASSUME NEW a \in Approvals, Request(a)
        PROVE  \E d \in approvals'[calls'[c].approval].decisions : d.review = c
    <2>1. calls'[c] = calls[c]
      BY <1>0, <1>3, ApprovalAssumption DEF Request
    <2> QED
      BY <1>3, <2>1 DEF Request, AnswerInv
  <1>4. ASSUME NEW e \in Reviews, NEW a \in Approvals, NEW actor \in Actors,
               NEW decision \in {"APPROVE", "REJECT"},
               BeginReview(e, a, actor, decision)
        PROVE  \E d \in approvals'[calls'[c].approval].decisions : d.review = c
    <2>1. calls'[c] = calls[c]
      BY <1>0, <1>4 DEF BeginReview, Reviewing
    <2> QED
      BY <1>4, <2>1 DEF BeginReview, Reviewing, AnswerInv
  <1>5. CASE UNCHANGED <<approvals, calls>>
    BY <1>5 DEF AnswerInv
  <1> QED
    BY <1>1, <1>2, <1>3, <1>4, <1>5
    DEF Next, vars, Persist, PassWithoutApproval, PassWithApproval, Passed, ChangePolicy, Tick

LEMMA SerialSafe == Spec => [](TypeInv /\ SoundInv /\ RequestInv /\ SerialInv /\ AnswerInv)
  <1>1. Init => AnswerInv
    BY DEF Init, AnswerInv, IdleCall
  <1> QED
    BY <1>1, InitTypeInv, NextTypeInv, InitSoundInv, NextSoundInv, InitRequestInv, NextRequestInv,
       InitSerialInv, NextSerialInv, NextAnswerInv, PTL DEF Spec

(* While the reviews of an approval do not overlap, a decision that was    *)
(* answered is kept in the row and in the file, whatever dies.             *)
THEOREM AnswersAreKept == Spec => []AnswersKept
  <1>1. TypeInv /\ SerialInv /\ AnswerInv => AnswersKept
    BY DEF TypeInv, SerialInv, AnswerInv, AnswersKept, Serial
  <1> QED
    BY <1>1, SerialSafe, PTL

-----------------------------------------------------------------------------
(* The refinement.                                                         *)

(* The abstract state of an approval is a function of its row.             *)
LEMMA AbstractState ==
    ASSUME NEW a \in Serial
    PROVE  /\ outcome[a] = SignoffOutcome(approvals[a].status)
           /\ quota[a] = approvals[a].required
           /\ voters[a] = ActorsOf(approvals[a].decisions)
           /\ approvers[a] = ActorsOf(Approving(approvals[a].decisions))
           /\ outcome'[a] = SignoffOutcome(approvals'[a].status)
           /\ quota'[a] = approvals'[a].required
           /\ voters'[a] = ActorsOf(approvals'[a].decisions)
           /\ approvers'[a] = ActorsOf(Approving(approvals'[a].decisions))
  BY DEF outcome, quota, voters, approvers, Serial

(* A step that changes the row of one serial approval changes the abstract *)
(* state of that one only.                                                 *)
LEMMA AbstractChange ==
    ASSUME TypeInv, NEW a \in Serial, NEW receipt \in Receipt,
           approvals' = [approvals EXCEPT ![a] = receipt]
    PROVE  /\ approvals'[a] = receipt
           /\ outcome' = [outcome EXCEPT ![a] = SignoffOutcome(receipt.status)]
           /\ quota' = [quota EXCEPT ![a] = receipt.required]
           /\ voters' = [voters EXCEPT ![a] = ActorsOf(receipt.decisions)]
           /\ approvers' = [approvers EXCEPT ![a] = ActorsOf(Approving(receipt.decisions))]
  <1>1. approvals \in [Approvals -> Receipt] /\ Serial \subseteq Approvals
    BY DEF TypeInv, TypeOK, Serial
  <1>2. \A b \in Serial : approvals'[b] = IF b = a THEN receipt ELSE approvals[b]
    BY <1>1
  <1>3. /\ outcome = [b \in Serial |-> outcome[b]] /\ outcome' = [b \in Serial |-> outcome'[b]]
        /\ quota = [b \in Serial |-> quota[b]] /\ quota' = [b \in Serial |-> quota'[b]]
        /\ voters = [b \in Serial |-> voters[b]] /\ voters' = [b \in Serial |-> voters'[b]]
        /\ approvers = [b \in Serial |-> approvers[b]]
        /\ approvers' = [b \in Serial |-> approvers'[b]]
    BY DEF outcome, quota, voters, approvers, Serial
  <1>4. ASSUME NEW b \in Serial
        PROVE  /\ outcome'[b] = IF b = a THEN SignoffOutcome(receipt.status) ELSE outcome[b]
               /\ quota'[b] = IF b = a THEN receipt.required ELSE quota[b]
               /\ voters'[b] = IF b = a THEN ActorsOf(receipt.decisions) ELSE voters[b]
               /\ approvers'[b] = IF b = a THEN ActorsOf(Approving(receipt.decisions))
                                  ELSE approvers[b]
    BY <1>2, AbstractState
  <1>5. outcome' = [outcome EXCEPT ![a] = SignoffOutcome(receipt.status)]
    BY <1>3, <1>4
  <1>6. quota' = [quota EXCEPT ![a] = receipt.required]
    BY <1>3, <1>4
  <1>7. voters' = [voters EXCEPT ![a] = ActorsOf(receipt.decisions)]
    BY <1>3, <1>4
  <1>8. approvers' = [approvers EXCEPT ![a] = ActorsOf(Approving(receipt.decisions))]
    BY <1>3, <1>4
  <1> QED
    BY <1>2, <1>5, <1>6, <1>7, <1>8

(* Saving the row of a request is Ask.                                     *)
LEMMA AskRefines ==
    ASSUME TypeInv, RequestInv, NEW a \in Serial, SaveRow(a)
    PROVE  Votes!Ask(a)
  <1> DEFINE r == calls[a].receipt
  <1>1. a \in Approvals /\ Underway(a)
    BY DEF SaveRow, Underway, Serial
  <1>2. /\ calls[a].approval = a /\ r \in Receipt
        /\ approvals[a] = AbsentReceipt
        /\ r.decisions = {} /\ r.status \in {"PENDING", "APPROVED", "REJECTED"}
        /\ r.status = "PENDING" => r.required > 0
        /\ r.status = "APPROVED" => r.required = 0
    BY <1>1 DEF TypeInv, TypeOK, RequestInv, Underway, Call
  <1>3. approvals' = [approvals EXCEPT ![a] = r]
    BY <1>2 DEF SaveRow
  <1> HIDE DEF r
  <1>4. /\ outcome' = [outcome EXCEPT ![a] = SignoffOutcome(r.status)]
        /\ quota' = [quota EXCEPT ![a] = r.required]
        /\ voters' = [voters EXCEPT ![a] = ActorsOf(r.decisions)]
        /\ approvers' = [approvers EXCEPT ![a] = ActorsOf(Approving(r.decisions))]
    BY <1>2, <1>3, AbstractChange
  <1>5. /\ outcome[a] = "none" /\ voters[a] = ActorsOf(r.decisions)
        /\ approvers[a] = ActorsOf(Approving(r.decisions))
    <2>1. approvals[a].status = "ABSENT" /\ approvals[a].decisions = r.decisions
      BY <1>2 DEF AbsentReceipt
    <2>2. SignoffOutcome("ABSENT") = "none"
      BY DEF SignoffOutcome
    <2> QED
      BY <2>1, <2>2, AbstractState
  <1>6. voters' = voters /\ approvers' = approvers
    <2>1. voters = [b \in Serial |-> voters[b]] /\ approvers = [b \in Serial |-> approvers[b]]
      BY DEF voters, approvers
    <2>2. [voters EXCEPT ![a] = voters[a]] = voters
      BY <2>1
    <2>3. [approvers EXCEPT ![a] = approvers[a]] = approvers
      BY <2>1
    <2> QED
      BY <1>4, <1>5, <2>2, <2>3
  <1>7. quota'[a] = r.required /\ r.required \in Nat
    BY <1>2, <1>4 DEF quota, Receipt
  <1>8. /\ SignoffOutcome(r.status) \in {"open", "granted", "refused"}
        /\ SignoffOutcome(r.status) = "open" => quota'[a] > 0
        /\ SignoffOutcome(r.status) = "granted" => quota'[a] = 0
    BY <1>2, <1>7 DEF SignoffOutcome
  <1> QED
    BY <1>4, <1>5, <1>6, <1>7, <1>8 DEF Votes!Ask

(* Saving the row of a review is the vote of its actor.                    *)
LEMMA VoteRefines ==
    ASSUME TypeInv, SoundInv, SerialInv, NEW c \in Reviews,
           calls[c].approval \in Serial, SaveRow(c)
    PROVE  \E actor \in Actors : \/ Votes!Approve(calls[c].approval, actor)
                                 \/ Votes!Reject(calls[c].approval, actor)
  <1> DEFINE a == calls[c].approval
             r == calls[c].receipt
  <1>1. Underway(c) /\ a \in Approvals /\ r \in Receipt /\ approvals[a] \in Receipt
    BY DEF SaveRow, Underway, TypeInv, TypeOK, Call
  <1>2. approvals[a].status = "PENDING" /\ Current(c, a)
    BY <1>1 DEF SerialInv, Undisturbed
  <1>3. PICK p \in Pairs :
          /\ MayDecide(a, p[1]) /\ p[1] \notin ActorsOf(approvals[a].decisions)
          /\ r = Reviewed(approvals[a], [review |-> c, actor |-> p[1], decision |-> p[2]])
    BY <1>2 DEF Current
  <1> DEFINE d == [review |-> c, actor |-> p[1], decision |-> p[2]]
  <1>4. /\ r.decisions = approvals[a].decisions \cup {d} /\ r.required = approvals[a].required
        /\ r.status = CASE d.decision = "REJECT" -> "REJECTED"
                        [] d.decision = "APPROVE" ->
                             IF Cardinality(Approving(r.decisions)) >= r.required
                             THEN "APPROVED" ELSE "PENDING"
    BY <1>1, <1>3 DEF Reviewed, Receipt
  <1>5. d.actor = p[1] /\ d.actor \in Actors /\ d.decision \in {"APPROVE", "REJECT"}
    BY DEF Pairs
  <1>6. Cardinality(ActorsOf(Approving(r.decisions))) = Cardinality(Approving(r.decisions))
    BY <1>1, ActorsCounted DEF SoundInv, Sound
  <1>7. approvals' = [approvals EXCEPT ![a] = r]
    BY DEF SaveRow
  <1>8. MayDecide(a, d.actor) /\ d.actor \notin ActorsOf(approvals[a].decisions)
    BY <1>3, <1>5
  <1> HIDE DEF a, r, d
  <1>9. a \in Serial
    BY DEF a
  <1>10. /\ outcome' = [outcome EXCEPT ![a] = SignoffOutcome(r.status)]
         /\ quota' = [quota EXCEPT ![a] = r.required]
         /\ voters' = [voters EXCEPT ![a] = ActorsOf(r.decisions)]
         /\ approvers' = [approvers EXCEPT ![a] = ActorsOf(Approving(r.decisions))]
    BY <1>1, <1>7, <1>9, AbstractChange
  <1>11. /\ outcome[a] = "open" /\ quota[a] = r.required
         /\ voters[a] = ActorsOf(approvals[a].decisions)
         /\ approvers[a] = ActorsOf(Approving(approvals[a].decisions))
    BY <1>2, <1>4, <1>9, AbstractState DEF SignoffOutcome
  <1>12. d.actor \in MayVote[a] \ voters[a]
    BY <1>5, <1>8, <1>9, <1>11 DEF MayVote
  <1>13. ActorsOf(r.decisions) = voters[a] \cup {d.actor}
    BY <1>4, <1>11 DEF ActorsOf
  <1>14. quota' = quota
    BY <1>10, <1>11 DEF quota
  <1>15. CASE d.decision = "APPROVE"
    <2>1. ActorsOf(Approving(r.decisions)) = approvers[a] \cup {d.actor}
      BY <1>4, <1>11, <1>15 DEF ActorsOf, Approving
    <2>2. approvers'[a] = ActorsOf(Approving(r.decisions))
      BY <1>9, <1>10 DEF approvers
    <2>3. SignoffOutcome(r.status) =
            IF Cardinality(approvers'[a]) >= quota[a] THEN "granted" ELSE "open"
      BY <1>4, <1>6, <1>11, <1>15, <2>2 DEF SignoffOutcome
    <2>4. Votes!Approve(a, d.actor)
      <3>0. \A S : Votes!Cardinality(S) = Cardinality(S)
        BY DEF Votes!Cardinality, Cardinality, Votes!IsFiniteSet, IsFiniteSet
      <3>1. outcome' = [outcome EXCEPT ![a] =
                IF Cardinality(approvers'[a]) >= quota[a] THEN "granted" ELSE "open"]
        BY <1>10, <2>3
      <3>2. voters' = [voters EXCEPT ![a] = voters[a] \cup {d.actor}]
        BY <1>10, <1>13
      <3>3. approvers' = [approvers EXCEPT ![a] = approvers[a] \cup {d.actor}]
        BY <1>10, <2>1
      <3> QED
        BY <1>11, <1>12, <1>14, <3>0, <3>1, <3>2, <3>3 DEF Votes!Approve
    <2> QED
      BY <1>5, <2>4 DEF a
  <1>16. CASE d.decision = "REJECT"
    <2>1. ActorsOf(Approving(r.decisions)) = approvers[a]
      BY <1>4, <1>11, <1>16 DEF ActorsOf, Approving
    <2>2. approvers' = approvers
      BY <1>10, <2>1 DEF approvers
    <2>3. SignoffOutcome(r.status) = "refused"
      BY <1>4, <1>16 DEF SignoffOutcome
    <2>4. Votes!Reject(a, d.actor)
      BY <1>10, <1>11, <1>12, <1>13, <1>14, <2>2, <2>3 DEF Votes!Reject
    <2> QED
      BY <1>5, <2>4 DEF a
  <1> QED
    BY <1>5, <1>15, <1>16

(* A step that saves no row of a serial approval is a stutter.             *)
LEMMA StutterRefines ==
    ASSUME TypeInv, \A a \in Serial : approvals'[a] = approvals[a]
    PROVE  UNCHANGED Votes!vars
  <1>1. Serial' = Serial
    BY DEF Serial
  <1>2. /\ outcome' = outcome /\ quota' = quota
        /\ voters' = voters /\ approvers' = approvers
    BY <1>1 DEF outcome, quota, voters, approvers
  <1> QED
    BY <1>2 DEF Votes!vars

(* Approvals whose reviews do not overlap implement Signoff.               *)
THEOREM ApprovalImplementsSignoff == Spec => ImplementsSignoff
  <1>1. Init => Votes!Init
    <2> SUFFICES ASSUME Init PROVE Votes!Init
      OBVIOUS
    <2>1. \A a \in Serial : approvals[a] = AbsentReceipt
      BY DEF Init, Serial
    <2>2. ActorsOf({}) = {} /\ Approving({}) = {}
      BY DEF ActorsOf, Approving
    <2>3. \A a \in Serial : /\ SignoffOutcome(approvals[a].status) = "none"
                            /\ approvals[a].required = 0 /\ approvals[a].decisions = {}
      BY <2>1 DEF AbsentReceipt, SignoffOutcome
    <2> QED
      BY <2>2, <2>3 DEF Votes!Init, outcome, quota, voters, approvers
  <1>2. ASSUME TypeInv, SoundInv, RequestInv, SerialInv, [Next]_vars
        PROVE  [Votes!Next]_(Votes!vars)
    <2>0. approvals \in [Approvals -> Receipt] /\ Serial \subseteq Approvals
      BY <1>2 DEF TypeInv, TypeOK, Serial
    <2>1. ASSUME NEW c \in Approvals \cup Reviews, SaveRow(c)
          PROVE  [Votes!Next]_(Votes!vars)
      <3>1. CASE calls[c].approval \notin Serial
        <4>1. \A a \in Serial : approvals'[a] = approvals[a]
          BY <2>0, <2>1, <3>1 DEF SaveRow
        <4> QED
          BY <1>2, <4>1, StutterRefines
      <3>2. CASE calls[c].approval \in Serial /\ c \in Approvals
        <4>1. calls[c].approval = c
          BY <1>2, <2>1, <3>2 DEF SaveRow, TypeInv
        <4>2. Votes!Ask(c)
          BY <1>2, <2>1, <3>2, <4>1, AskRefines
        <4> QED
          BY <3>2, <4>1, <4>2 DEF Votes!Next
      <3>3. CASE calls[c].approval \in Serial /\ c \in Reviews
        <4>1. \E actor \in Actors : \/ Votes!Approve(calls[c].approval, actor)
                                    \/ Votes!Reject(calls[c].approval, actor)
          BY <1>2, <2>1, <3>3, VoteRefines
        <4> QED
          BY <3>3, <4>1 DEF Votes!Next
      <3> QED
        BY <3>1, <3>2, <3>3
    <2>2. CASE UNCHANGED approvals
      BY <1>2, <2>2, StutterRefines
    <2> QED
      BY <1>2, <2>1, <2>2
      DEF Next, vars, Request, BeginReview, Reviewing, Persist, WriteFile, Die,
          PassWithoutApproval, PassWithApproval, Passed, ChangePolicy, Tick
  <1> QED
    BY <1>1, <1>2, SerialSafe, PTL DEF Spec, ImplementsSignoff, Votes!Spec

=============================================================================
